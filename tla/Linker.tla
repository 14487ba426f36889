------------------------------- MODULE Linker ---------------------------------
(***************************************************************************)
(* The linker (modules/app/phasor_link/mod.rs over common/link.rs,         *)
(* common/module.rs and common/closure.rs): a stream of modules becomes a  *)
(* closure, every module after what it imports.                            *)
(*                                                                         *)
(* A module of the stream is its name, the names it imports from (each     *)
(* with the export it asks for, or None for a namespace) and the names it  *)
(* exports.  The registry and the depth-first walk are as the code keeps   *)
(* them; the walk takes one loop iteration a step.                         *)
(***************************************************************************)
EXTENDS Naturals, Sequences, FiniteSets, SequencesExt

CONSTANTS
    Names,          \* specifiers a stream may carry
    Exports,        \* names a module may export
    None,           \* a model value: no name, a namespace import
    Streams,        \* the streams a run takes
    StackSizes      \* depths the walk's stack may have room for

\* What a stream carries: modules with a name, exports and imports.
ASSUME StreamsAssumption ==
    \A q \in Streams :
        q \in Seq([name : Names, exports : SUBSET Exports,
                  imports : Seq([from : Names, name : Exports \cup {None}])])

VARIABLES
    stream,         \* the modules, in the order the stream carried them
    reg,            \* Registry: per module [imports, status, order]
    walk,           \* the walk: [room, root, stack, state, order]
    phase,          \* "register", "resolve", "walk", "linked", "failed"
    closure         \* what is written: [modules, entry]

lvars == <<stream, reg, walk, phase, closure>>

Modules == DOMAIN stream
NoOrder == 0        \* u32::MAX; orders are counted from 1

LinkerInit ==
    /\ stream \in Streams
    /\ reg = <<>>
    /\ walk \in [room : StackSizes, root : {1}, stack : {<<>>}, state : {<<>>}, order : {0}]
    /\ phase = "register"
    /\ closure = [modules |-> <<>>, entry |-> 0]

Fail == phase' = "failed" /\ UNCHANGED <<stream, closure>>

\* find_module and index_of: the first of that name, or none.
Find(name) == LET at == {i \in Modules : stream[i].name = name}
              IN  IF at = {} THEN 0 ELSE CHOOSE i \in at : \A j \in at : i <= j

\* One module enters the registry with its imports unresolved.  A name the
\* registry already has answers an index that is not this one.
Register ==
    /\ phase = "register"
    /\ Len(reg) < Len(stream)
    /\ LET i == Len(reg) + 1
       IN  IF Find(stream[i].name) # i THEN Fail /\ UNCHANGED <<reg, walk>>
           ELSE /\ reg' = Append(reg, [imports |-> [n \in DOMAIN stream[i].imports |-> 0],
                                       status |-> "new", order |-> NoOrder])
                /\ phase' = IF i = Len(stream) THEN "resolve" ELSE phase
                /\ UNCHANGED <<stream, walk, closure>>

\* Every import is resolved to the module its specifier names, which must
\* export the name asked for.
Resolves(i, n) == LET import == stream[i].imports[n]
                  IN  /\ Find(import.from) # 0
                      /\ import.name # None => import.name \in stream[Find(import.from)].exports
Resolve ==
    /\ phase = "resolve"
    /\ IF \E i \in Modules : \E n \in DOMAIN stream[i].imports : ~Resolves(i, n)
       THEN Fail /\ UNCHANGED <<reg, walk>>
       ELSE /\ reg' = [i \in Modules |-> [reg[i] EXCEPT !.imports =
                            [n \in DOMAIN @ |-> Find(stream[i].imports[n].from)]]]
            /\ walk' = [walk EXCEPT !.state = [i \in Modules |-> "unvisited"]]
            /\ phase' = "walk"
            /\ UNCHANGED <<stream, closure>>

----------------------------------------------------------------------------
(* link_all: a walk from each module not yet ordered, in stream order.     *)

\* push: a module is marked and enters linking, if the stack has room.
Push(i, below) ==
    /\ walk' = [walk EXCEPT !.stack = Append(below, [module |-> i, cursor |-> 1]),
                            !.state[i] = "visiting"]
    /\ reg' = [reg EXCEPT ![i].status = IF @ = "new" THEN "linking" ELSE @]
    /\ UNCHANGED <<stream, phase, closure>>

Root ==
    /\ phase = "walk" /\ walk.stack = <<>> /\ walk.root <= Len(stream)
    /\ IF walk.state[walk.root] = "unvisited"
       THEN Push(walk.root, <<>>)
       ELSE walk' = [walk EXCEPT !.root = @ + 1] /\ UNCHANGED <<stream, reg, phase, closure>>

Top == Last(walk.stack)
Below == Front(walk.stack)
NextImport == reg[Top.module].imports[Top.cursor]

\* The next import of the module on top: visited ones, and those already on
\* the stack, are passed over.
Follow ==
    /\ phase = "walk" /\ walk.stack # <<>>
    /\ Top.cursor <= Len(reg[Top.module].imports)
    /\ LET rest == Append(Below, [Top EXCEPT !.cursor = @ + 1])
       IN  IF walk.state[NextImport] # "unvisited"
           THEN walk' = [walk EXCEPT !.stack = rest] /\ UNCHANGED <<stream, reg, phase, closure>>
           ELSE IF Len(rest) >= walk.room
           THEN /\ Fail
                /\ reg' = [reg EXCEPT ![NextImport].status = IF @ = "new" THEN "linking" ELSE @]
                /\ walk' = [walk EXCEPT !.state[NextImport] = "visiting"]
           ELSE Push(NextImport, rest)

\* A module with no import left is ordered.
Finish ==
    /\ phase = "walk" /\ walk.stack # <<>>
    /\ Top.cursor > Len(reg[Top.module].imports)
    /\ walk' = [walk EXCEPT !.stack = Below, !.state[Top.module] = "done", !.order = @ + 1]
    /\ reg' = [reg EXCEPT ![Top.module].order = walk.order + 1,
                          ![Top.module].status = IF @ = "linking" THEN "linked" ELSE @]
    /\ UNCHANGED <<stream, phase, closure>>

\* The closure: the modules in their order, the entry the last one ordered.
Write ==
    /\ phase = "walk" /\ walk.stack = <<>> /\ walk.root > Len(stream)
    /\ closure' = [modules |-> [at \in Modules |->
                       stream[CHOOSE i \in Modules : reg[i].order = at].name],
                   entry |-> walk.order]
    /\ phase' = "linked"
    /\ UNCHANGED <<stream, reg, walk>>

LinkerNext == Register \/ Resolve \/ Root \/ Follow \/ Finish \/ Write

LinkerSpec == LinkerInit /\ [][LinkerNext]_lvars

\* Mutant: only the modules that have an order are asked.
is_linked_ordered ==
    /\ \E i \in DOMAIN reg : reg[i].order # NoOrder
    /\ \A i \in DOMAIN reg : reg[i].order # NoOrder => reg[i].status = "linked"

\* is_linked: what a caller asks before it evaluates.
is_linked ==
    /\ \A i \in DOMAIN reg : reg[i].status # "linking"
    /\ \E i \in DOMAIN reg : reg[i].order # NoOrder
    /\ \A i \in DOMAIN reg : reg[i].order # NoOrder => reg[i].status = "linked"

----------------------------------------------------------------------------
(* Properties.                                                             *)

ImportsOf(i) == {Find(stream[i].imports[n].from) : n \in DOMAIN stream[i].imports}

\* What a module leads to: whatever every set that holds its imports, and with
\* a module that module's, must hold.
Leads(S) == \A i \in S : ImportsOf(i) \subseteq S
Reachable(i) == {j \in Modules : \A S \in SUBSET Modules :
                                    ImportsOf(i) \subseteq S /\ Leads(S) => j \in S}
At(i) == CHOOSE k \in Modules : closure.modules[k] = stream[i].name

\* "A module comes after everything it imports", and a cycle is the only
\* reason for one to come first (link_all).
ImportsComeFirst ==
    phase = "linked" =>
        \A i \in Modules : \A j \in ImportsOf(i) : At(j) < At(i) \/ i \in Reachable(j)

\* The closure carries every module of the stream once.
ClosureWhole ==
    phase = "linked" => /\ Len(closure.modules) = Len(stream)
                        /\ IsInjective(closure.modules)
                        /\ ToSet(closure.modules) = {stream[i].name : i \in Modules}

\* "The entry is the module nothing else imports": when there is one such
\* module and it leads to all others, the closure starts at it, wherever the
\* stream carried it; and a last module nothing imports is the entry.
EntryIsTheRoot ==
    phase = "linked" =>
        LET roots == {i \in Modules : \A j \in Modules \ {i} : i \notin ImportsOf(j)}
        IN  /\ \A r \in roots : Reachable(r) \cup {r} = Modules => At(r) = closure.entry
            /\ Len(stream) \in roots => At(Len(stream)) = closure.entry

\* A link that failed part-way is not taken for one that is over: a caller
\* that asks is_linked before it evaluates is told no.
FailedIsNotLinked == phase = "failed" => ~is_linked

\* The closure carries every module once, each after what it imports, cycles
\* apart, from the one nothing imports; and a link that failed part-way is not
\* taken for one that is over.
LinkedInOrder == ImportsComeFirst /\ ClosureWhole /\ EntryIsTheRoot /\ FailedIsNotLinked

===============================================================================
