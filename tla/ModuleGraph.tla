----------------------------- MODULE ModuleGraph ------------------------------
(***************************************************************************)
(* Evaluation of a staged closure by dynamic import                        *)
(* (modules/common/vm/modules.rs and the two reactions of it in            *)
(* vm/natives/mod.rs): a script calls import() and import.defer(), uses    *)
(* the deferred namespaces it is given, and modules that await settle.     *)
(*                                                                         *)
(* A module is the rows of its imports in order, how its body ends, and    *)
(* whether the body reads what it defers.  A walk marks what it has seen   *)
(* and takes the marks back; here it carries the set.  A body that ends    *)
(* the program (fuel, stack) is left out.                                  *)
(***************************************************************************)
EXTENDS Naturals, Sequences, FiniteSets, SequencesExt

CONSTANTS
    None,           \* a model value: no error
    Graphs,         \* closures a run takes: [rows, kind, reads]
    MaxImports      \* imports a script makes

VARIABLES
    g,              \* the closure
    v,              \* ModuleInstance of each, and the bodies begun
    imports         \* the imports: what each waits on and how it settled

mvars == <<g, v, imports>>

Modules == DOMAIN g.rows
Async(m) == g.kind[m] = "async"
Error(is, of) == [is |-> is, of |-> of]

ModuleInit ==
    /\ g \in Graphs
    /\ v = [evaluated |-> [m \in Modules |-> "untouched"], promise |-> [m \in Modules |-> "none"],
            completion |-> [m \in Modules |-> "none"], error |-> [m \in Modules |-> None],
            reason |-> [m \in Modules |-> None], ran |-> <<>>, used |-> {}]
    /\ imports = <<>>

\* A module whose completion has fulfilled is done, however the field lags.
module_status(w, m) ==
    IF /\ w.evaluated[m] = "running" /\ w.completion[m] = "promise"
       /\ w.promise[m] = "fulfilled"
    THEN "done" ELSE w.evaluated[m]
Mark(w, m, s) == [w EXCEPT !.evaluated[m] = s]

----------------------------------------------------------------------------
(* The cycles the loader attaches: modules that wait on each other.        *)

Eager(m) == {g.rows[m][i].to : i \in {j \in DOMAIN g.rows[m] : g.rows[m][j].how = "eager"}}
Waits[n \in Nat] == [m \in Modules |->
    IF n = 0 THEN Eager(m) ELSE Waits[n - 1][m] \cup UNION {Waits[n - 1][d] : d \in Waits[n - 1][m]}]
WaitsOn(m) == Waits[Len(g.rows)][m]
Partners(m) == {p \in Modules \ {m} : p \in WaitsOn(m) /\ m \in WaitsOn(p)}

\* Mutant: the module alone takes the error.
poison_one(w, m, error) ==
    [w EXCEPT !.evaluated[m] = "errored", !.completion[m] = "error", !.error[m] = error]

poison_cycle(w, m, error) ==
    LET hit == {m} \cup {p \in Partners(m) : module_status(w, p) # "errored"}
    IN  [w EXCEPT !.evaluated = [p \in Modules |-> IF p \in hit THEN "errored" ELSE @[p]],
                  !.completion = [p \in Modules |-> IF p \in hit THEN "error" ELSE @[p]],
                  !.error = [p \in Modules |-> IF p \in hit THEN error ELSE @[p]]]

----------------------------------------------------------------------------
(* Readiness: checked without running anything.                            *)

RECURSIVE scan_hosts(_, _, _)
scan_hosts(w, todo, seen) ==
    IF todo = {} THEN seen
    ELSE LET next == {r.to : r \in UNION {Range(g.rows[m]) : m \in todo}} \ seen
             fresh == {m \in next : module_status(w, m) = "untouched"}
         IN  scan_hosts(w, fresh, seen \cup fresh)
HostRefuses(w, m) ==
    \E s \in scan_hosts(w, {m}, {m}) : \E r \in Range(g.rows[s]) : r.how = "host"

RECURSIVE scan_ready(_, _, _, _, _)
scan_ready(w, m, seen, poisonOnly, strict) ==
    LET Row(acc, r) ==
            LET s == IF r.to \in acc.seen THEN "seen" ELSE module_status(w, r.to)
                Into(only) == scan_ready(w, r.to, acc.seen, only, strict)
                Fails(e) == [acc EXCEPT !.e = e]
            IN  IF acc.e # None THEN acc
                ELSE IF r.how = "poison" THEN Fails(Error("syntax", 0))
                ELSE IF r.how = "host" THEN Fails(Error("type", 0))
                ELSE IF r.to = m THEN acc
                ELSE IF r.how = "defer" /\ ~poisonOnly /\ Async(r.to) /\ s = "running"
                     THEN Fails(Error("type", 0))
                ELSE IF s = "errored" /\ ~poisonOnly /\ (r.how = "eager" \/ Async(r.to))
                     THEN Fails(w.error[r.to])
                ELSE IF s = "poisoned" THEN Fails(Error("syntax", 0))
                ELSE IF s = "running" /\ strict /\ ~poisonOnly /\ r.how = "eager"
                     THEN Fails(Error("type", 0))
                ELSE IF s = "untouched" THEN Into(poisonOnly \/ r.how = "defer")
                ELSE acc
    IN  FoldLeft(Row, [seen |-> seen \cup {m}, e |-> None], g.rows[m])

\* A refusal of the host comes before any name that does not resolve.
deferred_ready(w, m, strict) ==
    IF HostRefuses(w, m) THEN Error("type", 0) ELSE scan_ready(w, m, {}, FALSE, strict).e

\* A module that awaits, behind a deferred edge and not settled: 0 is none.
RECURSIVE defer_gate_scan(_, _, _, _)
defer_gate_scan(w, m, seen, behind) ==
    LET Row(acc, r) == IF acc.gate # 0 \/ r.to = m THEN acc
                       ELSE defer_gate_scan(w, r.to, acc.seen, behind \/ r.how = "defer")
    IN  IF m \in seen THEN [seen |-> seen, gate |-> 0]
        ELSE IF /\ behind /\ Async(m) /\ module_status(w, m) = "running"
                /\ w.completion[m] = "promise" /\ w.promise[m] = "pending"
             THEN [seen |-> seen \cup {m}, gate |-> m]
        ELSE FoldLeft(Row, [seen |-> seen \cup {m}, gate |-> 0], g.rows[m])
pending_defer_gate(w, m) == defer_gate_scan(w, m, {}, FALSE).gate

----------------------------------------------------------------------------
(* Running a module: its dependencies, then its body.                      *)

Ok(w) == [v |-> w, e |-> None, gate |-> 0]

\* What this module itself defers stays deferred.
RunsFirst(m, r) == r.to # m /\ r.how # "defer"

GateOf(w, m, strict) == IF strict THEN 0 ELSE pending_defer_gate(w, m)

\* A dependency waits behind a gate: so does this body, untouched for a retry.
Blocked(w, m) == [v |-> Mark(w, m, "untouched"), e |-> None]

RECURSIVE evaluate_module_gated(_, _, _), deferred_trigger(_, _)

\* A body reads what it defers, then ends, throws or awaits.
execute(w, m) ==
    LET Read(acc, r) == IF acc.e # None \/ r.how # "defer" \/ ~g.reads THEN acc
                        ELSE deferred_trigger(acc.v, r.to)
        read == FoldLeft(Read, Ok([w EXCEPT !.ran = Append(@, m)]), g.rows[m])
    IN  [read EXCEPT !.e = IF @ = None /\ g.kind[m] = "throw" THEN Error("body", m) ELSE @]

BodyRan(b, m) ==
    IF Async(m)
    THEN Ok([b.v EXCEPT !.completion[m] = "promise", !.evaluated[m] = "running",
                        !.promise[m] = IF b.e = None THEN "pending" ELSE "rejected",
                        !.reason[m] = b.e])
    ELSE IF b.e # None THEN [b EXCEPT !.v = poison_cycle(b.v, m, b.e)]
    ELSE Ok(Mark(b.v, m, "done"))
RunBody(w, m) == BodyRan(execute(w, m), m)

RunsAfter(deps, m) ==
    CASE deps.e # None -> deps
      [] deps.e = None /\ deps.gate # 0 -> [deps EXCEPT !.v = Blocked(deps.v, m).v]
      [] OTHER -> RunBody(deps.v, m)

evaluate_module_gated(w, m, strict) ==
    LET Row(acc, r) ==
            LET s == module_status(acc.v, r.to)
                gate == GateOf(acc.v, r.to, strict)
                inner == evaluate_module_gated(acc.v, r.to, strict)
                Fails(e) == [acc EXCEPT !.e = e]
            IN  IF acc.e # None THEN acc
                ELSE IF r.how = "poison" THEN Fails(Error("syntax", 0))
                ELSE IF r.how = "host" THEN Fails(Error("type", 0))
                ELSE IF ~RunsFirst(m, r) THEN acc
                ELSE IF s = "untouched" /\ gate # 0 THEN [acc EXCEPT !.gate = gate]
                ELSE IF s = "untouched"
                     THEN [inner EXCEPT !.gate = IF @ # 0 THEN @ ELSE acc.gate]
                ELSE IF s = "running" /\ strict THEN Fails(Error("type", 0))
                ELSE IF s = "poisoned" THEN Fails(Error("syntax", 0))
                ELSE IF s = "errored" THEN Fails(acc.v.error[r.to])
                ELSE acc
    IN  RunsAfter(FoldLeft(Row, Ok(Mark(w, m, "entered")), g.rows[m]), m)

\* A meaningful use of a deferred namespace runs the module.
deferred_trigger(w, m) ==
    LET s == module_status(w, m)
        notReady == deferred_ready(w, m, TRUE)
        Fails(e) == [v |-> w, e |-> e, gate |-> 0]
    IN  CASE s = "done"                    -> Ok(w)
          [] s = "poisoned"                -> Fails(Error("syntax", 0))
          [] s \in {"running", "entered"}  -> Fails(Error("type", 0))
          [] s = "errored"                 -> Fails(w.error[m])
          [] s = "untouched" /\ notReady # None -> Fails(notReady)
          [] OTHER                         -> evaluate_module_gated(w, m, TRUE)

\* Every module that awaits is started, deferred edges followed too; the last
\* completion that has not fulfilled is what the caller waits on.
RECURSIVE evaluate_async_reachable(_, _)
Started(w, m, notReady) ==
    IF ~Async(m) \/ module_status(w, m) # "untouched" THEN Ok(w)
    ELSE IF notReady # None THEN [v |-> w, e |-> notReady, gate |-> 0]
    ELSE evaluate_module_gated(w, m, FALSE)
Waiting(acc, run, m) ==
    [v |-> run.v, e |-> run.e, seen |-> acc.seen \cup {m},
     pending |-> IF run.v.completion[m] = "promise" /\ run.v.promise[m] # "fulfilled" THEN m ELSE acc.pending]
ReachesOn(acc, m) ==
    LET Row(a, r) == IF a.e # None \/ r.to = m THEN a ELSE evaluate_async_reachable(a, r.to)
    IN  IF acc.e # None THEN acc ELSE FoldLeft(Row, acc, g.rows[m])
evaluate_async_reachable(acc, m) ==
    IF m \in acc.seen THEN acc
    ELSE ReachesOn(Waiting(acc, Started(acc.v, m, deferred_ready(acc.v, m, FALSE)), m), m)
AsyncReachable(w, m) ==
    evaluate_async_reachable([v |-> w, e |-> None, seen |-> {}, pending |-> 0], m)

----------------------------------------------------------------------------
(* import() and import.defer(), and the reactions that settle them.        *)

Fulfilled == [state |-> "fulfilled", watch |-> 0, owner |-> 0, error |-> None]
Rejected(e) == [state |-> "rejected", watch |-> 0, owner |-> 0, error |-> e]
\* chain_namespace: the completion watched, and who takes the error of it.
chain_namespace(watch, owner) == [state |-> "pending", watch |-> watch, owner |-> owner, error |-> None]
Answer(w, o) == [v |-> w, to |-> o]

\* What else the module waits on, or its namespace, or the error recorded.
OutcomeOf(a, m, deferred) ==
    IF a.e # None THEN Answer(a.v, Rejected(a.e))
    ELSE IF a.pending # 0 THEN Answer(a.v, chain_namespace(a.pending, a.pending))
    ELSE IF ~deferred /\ module_status(a.v, m) = "errored" THEN Answer(a.v, Rejected(a.v.error[m]))
    ELSE Answer(a.v, Fulfilled)
Outcome(w, m) == OutcomeOf(AsyncReachable(w, m), m, FALSE)

Tried(r, m) ==
    IF r.e # None THEN Answer(r.v, Rejected(r.e))
    ELSE IF r.gate # 0 THEN Answer(r.v, chain_namespace(r.gate, m))
    ELSE Outcome(r.v, m)
TryBody(w, m) == Tried(evaluate_module_gated(w, m, FALSE), m)

dynamic_import(w, m, deferred) ==
    LET s == module_status(w, m)
        notReady == deferred_ready(w, m, FALSE)
    IN  IF deferred THEN OutcomeOf(AsyncReachable(w, m), m, TRUE)
        ELSE CASE s = "done"      -> Answer(w, Fulfilled)
               [] s = "errored"   -> Answer(w, Rejected(w.error[m]))
               [] s = "poisoned"  -> Answer(w, Rejected(Error("syntax", 0)))
               [] s = "untouched" -> IF notReady # None THEN Answer(w, Rejected(notReady))
                                     ELSE TryBody(w, m)
               [] OTHER -> IF w.completion[m] = "promise" THEN Answer(w, chain_namespace(m, m))
                           ELSE Answer(w, Fulfilled)

\* DYNAMIC_IMPORT_STEP and DYNAMIC_IMPORT_REJECTED, or the deferred
\* namespace as soon as what it watched has settled.
DynamicImportStep(w, m) ==
    IF module_status(w, m) = "untouched" THEN TryBody(w, m) ELSE Outcome(w, m)

Import(m, deferred) ==
    /\ Len(imports) < MaxImports
    /\ \E a \in {dynamic_import(v, m, deferred)} :
          /\ v' = a.v
          /\ imports' = Append(imports, [module |-> m, deferred |-> deferred, to |-> a.to])
    /\ UNCHANGED g

Reacted(it) ==
    LET w == it.to.watch
    IN  IF v.promise[w] = "rejected"
        THEN Answer(poison_cycle(v, it.to.owner, v.reason[w]), Rejected(v.reason[w]))
        ELSE IF it.deferred THEN Answer(v, Fulfilled)
        ELSE DynamicImportStep(v, it.module)
React(i) ==
    /\ imports[i].to.state = "pending"
    /\ v.promise[imports[i].to.watch] \in {"fulfilled", "rejected"}
    /\ \E a \in {Reacted(imports[i])} : v' = a.v /\ imports' = [imports EXCEPT ![i].to = a.to]
    /\ UNCHANGED g

\* The script reads an export of a deferred namespace it has.
Use(m) ==
    /\ \E i \in DOMAIN imports : /\ imports[i].module = m /\ imports[i].deferred
                                 /\ imports[i].to.state = "fulfilled"
    /\ m \notin v.used
    /\ v' = [deferred_trigger(v, m).v EXCEPT !.used = @ \cup {m}]
    /\ UNCHANGED <<g, imports>>

\* What a module awaited comes, and its body ends or throws.
Settle(m) ==
    /\ v.promise[m] = "pending"
    /\ \/ v' = [v EXCEPT !.promise[m] = "fulfilled"]
       \/ v' = [v EXCEPT !.promise[m] = "rejected", !.reason[m] = Error("body", m)]
    /\ UNCHANGED <<g, imports>>

ModuleNext ==
    \/ \E m \in Modules, deferred \in BOOLEAN : Import(m, deferred)
    \/ \E i \in DOMAIN imports : React(i)
    \/ \E m \in Modules : Use(m) \/ Settle(m)

\* Jobs run and what is awaited comes: a reaction that is due and a module
\* that awaits are left waiting for ever by no behaviour (the weak fairness of
\* React and Settle, with their guards spelt out).
Idle ==
    /\ \A m \in Modules : v.promise[m] # "pending"
    /\ \A i \in DOMAIN imports :
           imports[i].to.state = "pending" => v.promise[imports[i].to.watch] = "none"
Worked == Len(imports') = Len(imports) /\ v'.used = v.used
Works == <>[]Idle \/ []<><<Worked>>_mvars

----------------------------------------------------------------------------
(* Properties.                                                             *)

Ran == Range(v.ran)
Position(m) == CHOOSE i \in DOMAIN v.ran : v.ran[i] = m

\* No body runs twice, whatever is imported again, retried behind a gate or
\* used while it is on its way (evaluate_module_gated).
RunOnce == IsInjective(v.ran)

\* Nothing runs that nobody asked for: an imported module and what it imports,
\* what a deferred namespace was used for, and the modules that await.
All(m) == {g.rows[m][i].to : i \in DOMAIN g.rows[m]}
Reaches[n \in Nat] == [m \in Modules |->
    IF n = 0 THEN All(m) ELSE Reaches[n - 1][m] \cup UNION {Reaches[n - 1][d] : d \in Reaches[n - 1][m]}]

\* A body begins after the bodies of what it imports ("its unevaluated
\* dependencies first"): a cycle, through a deferred edge that is used too, is
\* one exception, and a dependency that a throw left half entered the other.
DependenciesBegin ==
    \A m \in Ran : \A d \in Eager(m) \ {m} :
        \/ m \in (IF g.reads THEN Reaches[Len(g.rows)][d] ELSE WaitsOn(d))
        \/ d \in Ran /\ Position(d) < Position(m)
        \/ v.evaluated[d] = "entered"

Imported(d) == {imports[i].module : i \in {j \in DOMAIN imports : imports[j].deferred = d}}
Asked ==
    LET loaded == UNION {{m} \cup Reaches[Len(g.rows)][m] : m \in Imported(TRUE) \cup Imported(FALSE)}
        roots == Imported(FALSE) \cup v.used \cup {m \in loaded : Async(m)}
                    \cup (IF g.reads THEN UNION {All(m) : m \in Ran} ELSE {})
    IN  roots \cup UNION {WaitsOn(m) : m \in roots}
OnlyWhatWasAsked == Ran \subseteq Asked

\* "One evaluation error for a whole strongly-connected component": a cycle
\* is errored as one (poison_cycle).
CycleSharesError ==
    \A m \in Modules : v.evaluated[m] = "errored" => \A p \in Partners(m) : v.evaluated[p] = "errored"

\* An import fulfilled while something it waits on is pending.
Early(i) == /\ imports[i].to.state = "fulfilled" /\ ~imports[i].deferred
            /\ \E d \in {imports[i].module} \cup WaitsOn(imports[i].module) : v.promise[d] = "pending"

\* "A dependency that awaited is still in flight: the import settles only
\* when it does" (dynamic_import_inner), for a program's first import, which
\* finds nothing on its way.
FirstSettlesLast == imports # <<>> => ~Early(1)

\* An import whose modules settle is settled (chain_namespace, the retries).
Settled == \A i \in DOMAIN imports : imports[i].to.state # "pending"
ImportsSettle == []<>Settled

===============================================================================
