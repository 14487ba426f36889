------------------------------- MODULE Lowering -------------------------------
(***************************************************************************)
(* The lowering of statements (modules/common/lower.rs, lower/statements.rs, *)
(* lower/loops.rs, lower/exceptions.rs) over the code builder (emit.rs),   *)
(* as far as control goes: every jump, context, exception region and copy  *)
(* of a finaliser.  What an expression lowers to is one instruction that   *)
(* makes one event.  A position is an instruction's, not a byte's, so a    *)
(* jump is never too far.                                                  *)
(*                                                                         *)
(* Before it, what a statement means: the reference the lowering is        *)
(* compared with.  After it, its admission (modules/common/verify.rs):     *)
(* what is refused before anything runs.  Ranges of constants are left     *)
(* out.                                                                    *)
(***************************************************************************)
EXTENDS Naturals, Sequences, FiniteSets, SequencesExt

CONSTANT MaxFinalisers      \* finalisers a function may nest

----------------------------------------------------------------------------
(* Meaning.  A statement is a tree; whatever an expression does is one     *)
(* event with one outcome, taken from a list of them.  The meaning of a    *)
(* statement is the events it makes, each with the scopes that are open,   *)
(* and a completion: how it ends and the value it leaves.                  *)

Absent == [k |-> "none"]
Act(n) == [k |-> "act", n |-> n]
Use(n) == [k |-> "use", n |-> n]
Yield == [k |-> "yield"]
Throw(n) == [k |-> "throw", n |-> n]
Return(n) == [k |-> "return", n |-> n]
Break(l) == [k |-> "break", l |-> l]
Continue(l) == [k |-> "continue", l |-> l]
Label(l, s) == [k |-> "label", l |-> l, body |-> s]
Block(list, lexical) == [k |-> "block", list |-> list, lexical |-> lexical]
If(s, t) == [k |-> "if", body |-> s, other |-> t]
While(s) == [k |-> "while", body |-> s]
DoWhile(s) == [k |-> "do", body |-> s]
\* for (;;), for (let ...; test; update) and for (using ...; test;)
For(head, s) == [k |-> "for", head |-> head, body |-> s]
\* for (x of y) or for (x in y): x is assigned, or declared with let (a closure
\* in the loop or none) or with using
Each(of, head, s) == [k |-> "each", of |-> of, head |-> head, body |-> s]
Try(s, c, f) == [k |-> "try", body |-> s, catch |-> c, finally |-> f]
\* A case is [default, list]; the cases declare one scope of their own or none.
Switch(cases, lexical) == [k |-> "switch", cases |-> cases, lexical |-> lexical]

Loops == {"while", "do", "for", "each"}
Uses(list) == \E i \in DOMAIN list : list[i].k = "use"

----------------------------------------------------------------------------

Empty == <<"empty">>
Undefined == <<"undefined">>
Value(n) == <<"value", n>>
Thrown(n) == <<"thrown", n>>
Suppressed(last, first) == <<"suppressed", last, first>>

Done(t, l, v) == [t |-> t, l |-> l, v |-> v]
Normal(v) == Done("normal", "", v)
Throws(v) == Done("throw", "", v)
UpdateEmpty(c, v) == IF c.v = Empty THEN [c EXCEPT !.v = v] ELSE c

\* A meaning under way: outcomes left, events made, scopes open, resources
\* held, and the completion.
Meaning(outcomes) ==
    [left |-> outcomes, trace |-> <<>>, env |-> <<>>, held |-> <<>>, got |-> "", c |-> Normal(Empty)]
With(m, c) == [m EXCEPT !.c = c]
Over(m) == m.c.t # "normal"

\* Only an expression sees the scopes that are open.
Seen(what, env) == IF what[1] \in {"next", "close", "dispose", "yield"} THEN <<>> ELSE env

\* One event: the next outcome answers it.
Ask(m, what) ==
    IF m.left = <<>> THEN [With(m, Done("stop", "", Empty)) EXCEPT !.got = "stop"]
    ELSE [m EXCEPT !.left = Tail(@), !.got = Head(m.left),
                   !.trace = Append(@, <<what, Head(m.left), Seen(what, m.env)>>)]
Evaluate(m, what, v) ==
    LET a == Ask(m, what)
    IN  CASE a.got = "stop"  -> a
          [] a.got = "throw" -> With(a, Throws(Thrown(what)))
          [] OTHER           -> With(a, Normal(v))

\* The resources are disposed last first; a throw suppresses the one before.
RECURSIVE Dispose(_)
Dispose(m) ==
    LET a == Ask(m, <<"dispose", Last(m.held)>>)
        thrown == Thrown(<<"dispose", Last(m.held)>>)
        c == IF a.got # "throw" THEN m.c
             ELSE IF m.c.t = "throw" THEN Throws(Suppressed(thrown, m.c.v)) ELSE Throws(thrown)
    IN  IF m.held = <<>> \/ m.c.t = "stop" THEN m
        ELSE IF a.got = "stop" THEN a
        ELSE Dispose([With(a, c) EXCEPT !.held = Front(@)])

\* IteratorClose: a throw that is on its way outranks the close's own.
Close(m) ==
    LET a == Ask(m, <<"close">>)
    IN  IF m.c.t = "stop" \/ a.got = "stop" THEN [a EXCEPT !.c.t = "stop"]
        ELSE IF m.c.t # "throw" /\ a.got = "throw" THEN With(a, Throws(Thrown(<<"close">>)))
        ELSE With(a, m.c)

\* A loop goes on after what its body did.
LoopContinues(c, labels) ==
    c.t = "normal" \/ (c.t = "continue" /\ c.l \in labels \cup {""})
\* A break of the statement's own is its end.
Caught(m, labels) ==
    IF m.c.t = "break" /\ m.c.l \in labels
    THEN With(m, Normal(IF m.c.v = Empty THEN Undefined ELSE m.c.v)) ELSE m

RECURSIVE Mean(_, _, _), MeanList(_, _, _), Turns(_, _, _, _), Cases(_, _, _, _)

\* A completion without a value has v.
Filled(m, v) == With(m, UpdateEmpty(m.c, v))

ListGoesOnFrom(m, rest) == IF Over(m) THEN m ELSE MeanList(m, rest, m.c.v)
MeanList(m, list, v) ==
    IF list = <<>> THEN With(m, Normal(v))
    ELSE ListGoesOnFrom(Filled(Mean([m EXCEPT !.c = Normal(Empty)], Head(list), {}), v), Tail(list))

Scoped(m, name, open) == IF open THEN [m EXCEPT !.env = Append(@, name)] ELSE m
Back(m, to) == [m EXCEPT !.env = to.env]
Holding(m, to, disposes) == IF disposes THEN [Dispose(m) EXCEPT !.held = to.held] ELSE m

\* A body of statements with what it declares.
MeanBlock(m, list, name, lexical) ==
    LET in == [Scoped(m, name, lexical) EXCEPT !.held = <<>>]
    IN  [Back(Holding(MeanList(in, list, Empty), m, Uses(list)), m) EXCEPT !.held = m.held]

\* A turn of a loop begins: its test, or the iterator's next.
TurnAsks(m, s) ==
    CASE s.k = "each" -> Ask(m, <<"next">>)
      [] s.k = "do" \/ (s.k = "for" /\ s.head = "none") -> [m EXCEPT !.got = "yes"]
      [] OTHER -> Ask(m, <<"test">>)
HoldsTurn(s) == s.k = "each" /\ s.head = "using"
TurnBinds(m, s) ==
    LET bound == Scoped(m, "each", s.k = "each" /\ s.head # "assign")
    IN  IF HoldsTurn(s) THEN Evaluate(bound, <<"use", 0>>, Empty) ELSE bound
TurnBody(m, s, to) ==
    Back(IF Over(m) THEN m
         ELSE Holding(Mean([m EXCEPT !.held = IF HoldsTurn(s) THEN <<0>> ELSE @], s.body, {}), to, HoldsTurn(s)),
         to)
TurnEnds(m, s) ==
    CASE s.k = "do" -> Ask(m, <<"test">>)
      [] s.k = "for" /\ s.head = "let" -> Evaluate(m, <<"update">>, Empty)
      [] OTHER -> m
TurnsAgain(m, s, labels, v) ==
    CASE m.c.t # "normal" -> m
      [] m.c.t = "normal" /\ s.k = "do" /\ m.got = "throw" -> With(m, Throws(Thrown(<<"test">>)))
      [] m.c.t = "normal" /\ s.k = "do" /\ m.got = "no" -> With(m, Normal(v))
      [] OTHER -> Turns(m, s, labels, v)
TurnRan(m, s, labels, v) ==
    IF LoopContinues(m.c, labels)
    THEN TurnsAgain(TurnEnds(With(m, Normal(Empty)), s), s, labels, IF m.c.v = Empty THEN v ELSE m.c.v)
    ELSE IF s.k = "each" /\ s.of THEN Close(Filled(m, v)) ELSE Filled(m, v)
Turn(m, s, labels, v, to) ==
    CASE m.got = "stop"  -> m
      [] m.got = "throw" -> With(m, Throws(Thrown(IF s.k = "each" THEN <<"next">> ELSE <<"test">>)))
      [] m.got \in {"no", "done"} -> With(m, Normal(v))
      [] OTHER -> TurnRan(TurnBody(TurnBinds(m, s), s, to), s, labels, v)
\* The turns of a loop, v the value so far.
Turns(m, s, labels, v) == Turn(TurnAsks(m, s), s, labels, v, m)

\* "break" leaves the loop before what the head holds is disposed.
ForRuns(m, s, labels) ==
    IF Over(m) THEN m
    ELSE Caught(Turns([m EXCEPT !.held = IF s.head = "using" THEN <<9>> ELSE @], s, labels, Undefined),
                labels \cup {""})
MeanFor(m, s, labels) ==
    LET in == [Scoped(m, "for", s.head # "none") EXCEPT !.held = <<>>]
        init == CASE s.head = "none" -> in
                  [] s.head = "let" -> Evaluate(in, <<"init">>, Empty)
                  [] OTHER -> Evaluate(in, <<"use", 9>>, Empty)
    IN  [Back(Holding(ForRuns(init, s, labels), m, s.head = "using"), m) EXCEPT !.held = m.held]

EachRuns(m, s, labels) ==
    IF Over(m) THEN m ELSE Caught(Turns(m, s, labels, Undefined), labels \cup {""})
MeanEach(m, s, labels) ==
    EachRuns(Back(Evaluate(Scoped(m, "each", s.head # "assign"), <<"iterate">>, Empty), m), s, labels)

\* The cases from one on; before that, the first whose test holds.
CasesGoOn(m, s, i) == IF Over(m) THEN m ELSE Cases(m, s, i, m.c.v)
Cases(m, s, i, v) ==
    IF i > Len(s.cases) THEN With(m, Normal(v))
    ELSE CasesGoOn(MeanList(m, s.cases[i].list, v), s, i + 1)
RECURSIVE Select(_, _, _)
Selects(m, s, i) ==
    CASE m.got = "stop" -> m
      [] m.got = "throw" -> With(m, Throws(Thrown(<<"case", i>>)))
      [] m.got = "yes" -> Cases(m, s, i, Undefined)
      [] OTHER -> Select(m, s, i + 1)
Select(m, s, i) ==
    LET default == {j \in DOMAIN s.cases : s.cases[j].default}
    IN  IF i > Len(s.cases)
        THEN Cases(m, s, IF default = {} THEN i ELSE CHOOSE j \in default : TRUE, Undefined)
        ELSE IF s.cases[i].default THEN Select(m, s, i + 1)
        ELSE Selects(Ask(m, <<"case", i>>), s, i)
MeanSwitch(m, s, labels, to) ==
    IF Over(m) THEN m
    ELSE Caught(Back(Filled(Select(Scoped(m, "switch", s.lexical), s, 1), Undefined), to), labels \cup {""})

MeanIf(m, s) ==
    CASE m.got = "stop"  -> m
      [] m.got = "throw" -> With(m, Throws(Thrown(<<"test">>)))
      [] OTHER -> Filled(Mean(m, IF m.got = "yes" THEN s.body ELSE s.other, {}), Undefined)

MeanCatch(m, s, to) ==
    IF m.c.t = "throw" /\ s.catch # Absent
    THEN Back(Mean([Scoped(m, "catch", TRUE) EXCEPT !.c = Normal(Empty)], s.catch, {}), to) ELSE m
Unless(m, c) == IF Over(m) THEN m ELSE With(m, c)
MeanFinally(m, s) ==
    IF s.finally = Absent \/ m.c.t = "stop" THEN m
    ELSE Unless(Mean([m EXCEPT !.c = Normal(Empty)], s.finally, {}), m.c)
MeanTry(m, s) == Filled(MeanFinally(MeanCatch(Mean(m, s.body, {}), s, m), s), Undefined)

Mean(m, s, labels) ==
    CASE s.k = "none"     -> m
      [] s.k = "act"      -> Evaluate(m, <<"act", s.n>>, Value(s.n))
      [] s.k = "use"      -> LET a == Evaluate(m, <<"use", s.n>>, Empty)
                             IN  IF Over(a) THEN a ELSE [a EXCEPT !.held = Append(@, s.n)]
      [] s.k = "yield"    -> LET a == Ask(m, <<"yield">>)
                             IN  CASE a.got = "stop" -> a
                                   [] a.got = "throw" -> With(a, Throws(Thrown(<<"yield">>)))
                                   [] a.got = "return" -> With(a, Done("return", "", <<"sent">>))
                                   [] OTHER -> With(a, Normal(<<"sent">>))
      [] s.k = "throw"    -> With(m, Throws(Value(s.n)))
      [] s.k = "return"   -> LET a == Evaluate(m, <<"act", s.n>>, Value(s.n))
                             IN  IF Over(a) THEN a ELSE With(a, Done("return", "", a.c.v))
      [] s.k \in {"break", "continue"} -> With(m, Done(s.k, s.l, Empty))
      [] s.k = "label"    -> Caught(Mean(m, s.body, labels \cup {s.l}), {s.l})
      [] s.k = "block"    -> MeanBlock(m, s.list, "block", s.lexical)
      [] s.k = "if"       -> MeanIf(Ask(m, <<"test">>), s)
      [] s.k \in {"while", "do"} -> Caught(Turns(m, s, labels, Undefined), labels \cup {""})
      [] s.k = "for"      -> MeanFor(m, s, labels)
      [] s.k = "each"     -> MeanEach(m, s, labels)
      [] s.k = "try"      -> MeanTry(m, s)
      [] s.k = "switch"   -> MeanSwitch(Evaluate(m, <<"act", 0>>, Empty), s, labels, m)

\* A function's body answers what it returned; a script, its last value.
EndOf(m, script) ==
    [trace |-> m.trace, ends |-> IF m.c.t = "normal" THEN "return" ELSE m.c.t,
     v |-> IF (m.c.t = "normal" /\ ~script) \/ m.c.v = Empty THEN Undefined ELSE m.c.v]
Program(list, script, outcomes) == EndOf(MeanBlock(Meaning(outcomes), list, "body", FALSE), script)

----------------------------------------------------------------------------
(* Lowering.                                                               *)

\* CodeBuilder and Lowering in one: registers and labels are numbers.
Lowered0(script, generator) ==
    [code |-> <<>>, labels |-> <<>>, terminated |-> FALSE, safe |-> {}, regions |-> <<>>,
     holes |-> <<>>, fin |-> <<>>, targets |-> <<>>, reg |-> 1, high |-> 1, ctx |-> 0, maxctx |-> 0,
     scope |-> <<>>, stack |-> 0, script |-> script, generator |-> generator, fails |-> ""]

Fail(b, why) == IF b.fails = "" THEN [b EXCEPT !.fails = why] ELSE b
length(b) == Len(b.code) + 1
Terminators == {"jump", "throw", "return"}
emit(b, op, x, y) ==
    [b EXCEPT !.code = Append(@, [op |-> op, x |-> x, y |-> y, scope |-> b.scope]),
              !.terminated = op \in Terminators]
Evaluates(b, what) == emit(b, "event", what, 0)
Ldar(b, r) == emit(b, "ldar", r, 0)
Star(b, r) == emit(b, "star", r, 0)

\* Labels are taken in threes; a jump names its label and is patched at the end.
labels3(b) == [b EXCEPT !.labels = @ \o <<0, 0, 0>>]
bind(b, label) == [b EXCEPT !.terminated = FALSE, !.labels[label] = length(b)]
safe_point(b) == [b EXCEPT !.safe = @ \cup {length(b)}]
jump(b, op, label) == emit(b, op, label, 0)

allocate(b, n) == [b EXCEPT !.reg = @ + n, !.high = IF b.reg + n > @ THEN b.reg + n ELSE @]
release(b, mark) == [b EXCEPT !.reg = mark]

push_context(b, name) ==
    LET c == emit(b, "push", name, 0)
    IN  [c EXCEPT !.ctx = @ + 1, !.maxctx = IF b.ctx + 1 > @ THEN b.ctx + 1 ELSE @,
                  !.scope = Append(b.scope, name)]
\* What an exit left is not popped again.
pop_context(b) == [(IF b.terminated THEN b ELSE emit(b, "pop", 0, 0)) EXCEPT !.ctx = @ - 1]
Leave(b, scope) == [b EXCEPT !.scope = scope]

\* A script keeps the value of its statements in a register.
completion == 1
reset_completion(b) == IF b.script THEN Star(emit(b, "undef", 0, 0), completion) ELSE b

----------------------------------------------------------------------------
(* Exception regions and the holes in them.                                *)

\* The range is split around every copy of a finaliser that is not nested in it.
record_region(b, start, end, handler, register, depth, inside) ==
    LET Push(at, from, to) ==
            [start |-> from, end |-> to, handler |-> handler, register |-> register, depth |-> depth]
        Hole(acc, h) ==
            IF h.owner >= inside \/ h.to <= acc.cursor \/ h.from >= end THEN acc
            ELSE [cursor |-> IF h.to > acc.cursor THEN h.to ELSE acc.cursor,
                  regions |-> IF h.from > acc.cursor
                              THEN Append(acc.regions, Push(acc, acc.cursor, h.from)) ELSE acc.regions]
        all == FoldLeft(Hole, [cursor |-> start, regions |-> b.regions], b.holes)
    IN  [b EXCEPT !.regions = IF all.cursor < end
                              THEN Append(all.regions, Push(all, all.cursor, end)) ELSE all.regions]

\* A container comes before what it contains; equal ranges stay as recorded.
sort_regions(regions) ==
    LET Ordered(l, r) == l.start < r.start \/ (l.start = r.start /\ l.end >= r.end)
        Insert(sorted, r) ==
            LET before == Cardinality({i \in DOMAIN sorted : \E j \in i .. Len(sorted) : Ordered(sorted[j], r)})
            IN  InsertAt(sorted, before + 1, r)
    IN  FoldLeft(Insert, <<>>, regions)

----------------------------------------------------------------------------

\* Without awaiting: the whole stack at once.
emit_dispose(b, stack, caught) ==
    IF caught = 0 THEN emit(b, "dispose", stack, 0)
    ELSE emit(Ldar(emit(b, "disposethrow", stack, caught), caught), "throw", 0, 0)

Finaliser(b, node, register, flag) ==
    [node |-> node, ctx |-> b.ctx, scope |-> b.scope, register |-> register, flag |-> flag]
Register(b, finaliser) ==
    IF Len(b.fin) = MaxFinalisers THEN Fail(b, "too deep")
    ELSE [b EXCEPT !.fin = Append(@, finaliser)]
Unregister(b) == [b EXCEPT !.fin = Front(@)]

Target(b, label, breakable, continuable, done, again, ctx) ==
    [label |-> label, breakable |-> breakable, continuable |-> continuable,
     done |-> done, again |-> again, ctx |-> ctx, fin |-> Len(b.fin), broke |-> FALSE, continued |-> FALSE]
open_target(b, target) == [b EXCEPT !.targets = Append(@, target)]
target_used(b) == Last(b.targets)
close_target(b) == [b EXCEPT !.targets = Front(@)]

RECURSIVE PopTo(_, _)
PopTo(b, depth) == IF b.ctx > depth THEN PopTo(pop_context(b), depth) ELSE b

RECURSIVE statement(_, _), statement_list(_, _), unwind_only(_, _, _), finally_block(_, _)

\* A value kept in a register leaves the function, unless the code before has.
Ended(b, register, op) == IF b.terminated THEN b ELSE emit(Ldar(b, register), op, 0, 0)

\* A finaliser starts from undefined and gives the value it found back.
GivesBack(b, saved) == IF b.terminated THEN b ELSE Star(Ldar(b, saved), completion)
finally_block(b, body) ==
    IF ~b.script THEN statement(b, body)
    ELSE release(GivesBack(statement(reset_completion(Star(Ldar(allocate(b, 1), completion), b.reg)), body),
                           b.reg),
                 b.reg)

\* A copy lowers in the scope the `try` was entered in.
ScopeOf(b, f) == f.scope

CopyOf(b, f) ==
    CASE f.flag = "dispose" -> emit_dispose(b, f.register, 0)
      [] f.flag = "close"   -> emit(b, "close", f.register, f.register + 1)
      [] OTHER -> [finally_block([b EXCEPT !.fin = Front(@), !.scope = ScopeOf(b, f)], f.node)
                   EXCEPT !.fin = b.fin, !.scope = b.scope]
\* The finaliser below is next, and those above are put back by the caller.
Hole(copy, from, owner) ==
    [copy EXCEPT !.holes = Append(@, [from |-> from, to |-> length(copy), owner |-> owner]), !.fin = Front(@)]
Copied(b) == Hole(CopyOf(b, Last(b.fin)), length(b), Len(b.fin))

\* Every finaliser an exit escapes, innermost first, each at its own depth.
unwind_only(b, fin, ctx) ==
    IF Len(b.fin) <= fin THEN PopTo(b, ctx)
    ELSE unwind_only(Copied(PopTo(b, Last(b.fin).ctx)), fin, ctx)

\* The pops belong to the exiting path alone.
unwind_to(b, fin, ctx) ==
    [unwind_only(b, fin, ctx) EXCEPT !.ctx = b.ctx, !.fin = b.fin, !.scope = b.scope]

----------------------------------------------------------------------------

\* A finaliser on the way out may itself have jumped away.
Exits(out, b, i, goesOn) ==
    LET t == b.targets[i]
        used == [out EXCEPT !.targets[i] = IF goesOn THEN [@ EXCEPT !.continued = TRUE]
                                            ELSE [@ EXCEPT !.broke = TRUE]]
    IN  IF ~b.terminated /\ out.terminated THEN used
        ELSE jump(used, "jump", IF goesOn THEN t.again ELSE t.done)

break_or_continue(b, s) ==
    LET goesOn == s.k = "continue"
        Matches(t) == IF s.l # "" THEN t.label = s.l
                      ELSE IF goesOn THEN t.continuable ELSE t.breakable
        found == {i \in DOMAIN b.targets : Matches(b.targets[i])}
        i == CHOOSE j \in found : \A k \in found : k <= j
        t == b.targets[i]
    IN  IF found = {} THEN Fail(b, "no target")
        ELSE IF goesOn /\ ~t.continuable THEN Fail(b, "not a loop")
        ELSE Exits(unwind_to(b, t.fin, t.ctx), b, i, goesOn)

return_statement(b, s) ==
    LET read == Evaluates(b, <<"act", s.n>>)
    IN  IF b.script THEN Fail(b, "return outside a function")
        ELSE IF b.fin = <<>> /\ b.ctx = 0 THEN emit(read, "return", 0, 0)
        ELSE release(Ended(unwind_to(Star(allocate(read, 1), b.reg), 0, 0), b.reg, "return"), b.reg)

\* The resumption carries its kind: a return runs the finalisers the yield sits in.
yield_expression(b) ==
    LET sent == b.reg
        normal == Len(b.labels) + 1
        asks == Star(emit(safe_point(allocate(labels3(b), 2)), "yield", 0, 0), sent)
        thrown == emit(Ldar(jump(jump(asks, "jnext", normal), "jreturn", normal + 1), sent), "throw", 0, 0)
    IN  release(Ldar(bind(Ended(unwind_to(bind(thrown, normal + 1), 0, 0), sent, "return"), normal), sent),
                b.reg)

IfElse(b, other, otherwise) ==
    IF other = Absent THEN bind(b, otherwise)
    ELSE IF b.terminated THEN statement(bind(b, otherwise), other)
    ELSE bind(statement(bind(jump(b, "jump", otherwise + 1), otherwise), other), otherwise + 1)
if_statement(b, s) ==
    LET otherwise == Len(b.labels) + 1
    IN  IfElse(statement(jump(Evaluates(labels3(b), <<"test">>), "jfalse", otherwise), s.body),
               s.other, otherwise)

LabelEnd(b, done) ==
    IF target_used(b).broke \/ ~b.terminated THEN bind(close_target(b), done) ELSE close_target(b)
labelled_statement(b, s) ==
    LET done == Len(b.labels) + 1
    IN  LabelEnd(statement(open_target(labels3(b), Target(b, s.l, FALSE, FALSE, done, done, b.ctx)), s.body),
                 done)

\* A loop's labels: its top, its end, and where continue goes.
LoopBody(b, s, label, top, ctx) ==
    statement(open_target(b, Target(b, label, TRUE, TRUE, top + 1, top + 2, ctx)), s.body)
Continues(b) == target_used(b).continued \/ ~b.terminated
LoopEnd(b, reached, top) == IF reached \/ ~b.terminated THEN bind(b, top + 1) ELSE b

WhileEnd(b, top) ==
    bind(IF Continues(b) THEN jump(bind(close_target(b), top + 2), "jump", top) ELSE close_target(b), top + 1)
while_statement(b, s, label) ==
    LET top == Len(b.labels) + 1
    IN  WhileEnd(LoopBody(jump(Evaluates(bind(safe_point(labels3(b)), top), <<"test">>), "jfalse", top + 1),
                          s, label, top, b.ctx),
                 top)

DoWhileTest(b, top) ==
    IF Continues(b) THEN jump(Evaluates(bind(close_target(b), top + 2), <<"test">>), "jtrue", top)
    ELSE close_target(b)
DoWhileEnd(b, top) == LoopEnd(DoWhileTest(b, top), target_used(b).broke, top)
do_while_statement(b, s, label) ==
    LET top == Len(b.labels) + 1
    IN  DoWhileEnd(LoopBody(bind(safe_point(labels3(b)), top), s, label, top, b.ctx), top)

\* The end of a list or of a loop that holds resources: disposed on the way
\* past, or by a handler of its own.
DisposeOnThrow(b, stack, start, end, depth) ==
    IF start = end THEN b
    ELSE record_region(emit_dispose(b, stack, stack + 1), start, end, length(b), stack + 1, depth, Len(b.fin) + 2)
Disposed(b, stack, start, depth) ==
    LET after == Len(b.labels) + 1
        past == jump(emit_dispose(labels3(b), stack, 0), "jump", after)
    IN  IF b.terminated THEN DisposeOnThrow(labels3(b), stack, start, length(b), depth)
        ELSE bind(DisposeOnThrow(past, stack, start, length(b), depth), after)

disposing_statements(b, list) ==
    LET Holds(c) == [Register(c, Finaliser(c, Absent, b.reg, "dispose")) EXCEPT !.stack = b.reg]
        Runs(c) == Disposed([Unregister(statement_list(c, list)) EXCEPT !.stack = b.stack],
                            b.reg, length(c), b.ctx)
    IN  release(Runs(Holds(Star(emit(allocate(b, 2), "mkstack", 0, 0), b.reg))), b.reg)

statements(b, list) == IF Uses(list) THEN disposing_statements(b, list) ELSE statement_list(b, list)

\* Nothing is written for a statement after one that jumps away.
ListGoesOn(b, rest) == IF b.fails # "" \/ b.terminated THEN b ELSE statement_list(b, rest)
statement_list(b, list) ==
    IF list = <<>> THEN b ELSE ListGoesOn(statement(b, Head(list)), Tail(list))

block(b, s) ==
    IF s.lexical THEN Leave(pop_context(statements(push_context(b, "block"), s.list)), b.scope)
    ELSE statements(b, s.list)

\* Each turn of a loop that declares with let has bindings of its own.
copy_iteration(b) == Leave(push_context(Leave(pop_context(b), Front(b.scope)), "for"), b.scope)

\* The head of a for: its context, the resources it holds, its declarations.
ForContext(b, s) == IF s.head # "none" THEN push_context(b, "for") ELSE b
ForHolds(b, s) ==
    LET c == Star(emit(allocate(b, 2), "mkstack", 0, 0), b.reg)
    IN  IF s.head = "using" THEN Register(c, Finaliser(c, Absent, b.reg, "dispose")) ELSE b
ForDeclares(b, s, stack) ==
    CASE s.head = "none" -> b
      [] s.head = "let"  -> copy_iteration(Evaluates(b, <<"init">>))
      [] OTHER -> [statement([b EXCEPT !.stack = stack], Use(9)) EXCEPT !.stack = b.stack]

ForTest(b, s, top) ==
    IF s.head # "none" THEN jump(Evaluates(b, <<"test">>), "jfalse", top + 1) ELSE b
ForAgain(b, s, top) ==
    LET again == bind(close_target(b), top + 2)
    IN  IF Continues(b)
        THEN jump(IF s.head = "let" THEN Evaluates(copy_iteration(again), <<"update">>) ELSE again, "jump", top)
        ELSE close_target(b)
ForEnd(b, s, top) == LoopEnd(ForAgain(b, s, top), target_used(b).broke \/ s.head # "none", top)
ForTurns(b, s, label) ==
    LET top == Len(b.labels) + 1
    IN  ForEnd(LoopBody(ForTest(bind(safe_point(labels3(b)), top), s, top), s, label, top, b.ctx), s, top)
ForDisposes(b, s, stack, start, depth) ==
    IF s.head = "using" THEN Disposed(Unregister(b), stack, start, depth) ELSE b
ForLeaves(b, s, scope) == IF s.head # "none" THEN Leave(pop_context(b), scope) ELSE b

for_statement(b, s, label) ==
    LET Held(c, stack) == ForDisposes(ForTurns(ForDeclares(c, s, stack), s, label), s, stack, length(c), c.ctx)
        Opened(c) == Held(ForHolds(c, s), c.reg)
    IN  ForLeaves(Opened(ForContext(b, s)), s, b.scope)

\* The turn's value, or the end: one event for the call of next and the reads.
for_in_of_next(b, s, source, done) ==
    jump(emit(b, IF s.of THEN "next" ELSE "nextname", source, source + 1), "jtrue", done)

\* Mutant: a throw from the body leaves the iterator open.
LeftOpen(b, start, end, source, caught, depth, using) == b
\* A throw from the body closes the iterator quietly and is thrown on.
CloseOnThrow(b, start, end, source, caught, depth, using) ==
    LET after == Len(b.labels) + 1
        Rethrows(h) == IF using THEN emit_dispose(h, source + 2, caught)
                       ELSE emit(Ldar(h, caught), "throw", 0, 0)
        Closes(h) == record_region(Rethrows(emit(h, "closequiet", source, source + 1)),
                                    start, end, length(h), caught, depth, Len(b.fin) + 2)
    IN  IF start = end THEN b ELSE bind(Closes(jump(labels3(b), "jump", after)), after)

TargetDepth(b, own) == IF own THEN b.ctx - 1 ELSE b.ctx

\* The head's expression, where the name it declares is not yet initialised.
EachHead(b, s) ==
    IF s.head = "assign" THEN Evaluates(b, <<"iterate">>)
    ELSE Leave(pop_context(Evaluates(push_context(b, "each"), <<"iterate">>)), b.scope)

\* The turn's own context and the stack of a turn that holds its value.
TurnHead(b, s, source, own) ==
    LET c == Ldar(IF own THEN push_context(b, "each") ELSE b, source + 4)
        d == emit(Ldar(Star(emit(c, "mkstack", 0, 0), source + 2), source + 4), "hold", source + 2, 0)
    IN  IF s.head = "using" THEN Register(d, Finaliser(d, Absent, source + 2, "dispose")) ELSE c

Using(s) == s.head = "using"
Own(s) == s.head \in {"own", "using"}
\* The loop is done with: its own finaliser and that of a turn that holds.
EachUnregisters(b, s) ==
    LET u == IF Using(s) THEN Unregister(b) ELSE b
    IN  close_target(IF s.of THEN Unregister(u) ELSE u)
EachDisposes(b, s, source) == IF Using(s) THEN emit_dispose(b, source + 2, 0) ELSE b
EachAgain(b, goesOn, scope, s, source, top) ==
    LET d == EachDisposes(b, s, source)
        left == IF Own(s) THEN Leave(pop_context(d), scope) ELSE d
    IN  IF goesOn THEN jump(bind(left, top + 2), "jump", top)
        ELSE IF Own(s) THEN [Leave(b, scope) EXCEPT !.ctx = @ - 1] ELSE b
EachCloses(b, s, source, start, end, depth) ==
    IF s.of THEN CloseOnThrow(emit(b, "close", source, source + 1), start, end, source, source + 3, depth, Using(s))
    ELSE b

\* source, its done flag, the turn's dispose stack, the caught value, the value
EachTurns(b, s, label, source) ==
    LET top == Len(b.labels) + 1
        Body(c) == LoopBody(c, s, label, top, TargetDepth(c, Own(s)))
        Ends(ran, c) ==
            EachCloses(EachDisposes(bind(EachAgain(EachUnregisters(ran, s), Continues(ran), c.scope, s, source, top),
                                         top + 1), s, source),
                       s, source, length(c), length(ran), c.ctx)
        Runs(c) == Ends(Body(TurnHead(c, s, source, Own(s))), c)
        Closable(c) == IF s.of THEN Register(c, Finaliser(c, Absent, source, "close")) ELSE c
    IN  Runs(Closable(for_in_of_next(bind(safe_point(labels3(b)), top), s, source, top + 1)))

for_in_of_statement(b, s, label) ==
    LET Hoisted(c) == IF s.head = "let" THEN push_context(c, "each") ELSE c
        Leaves(c) == IF s.head = "let" THEN Leave(pop_context(c), b.scope) ELSE c
    IN  release(Leaves(EachTurns(Hoisted(Star(EachHead(allocate(b, 5), s), b.reg)), s, label, b.reg)), b.reg)

\* Past the last case: the scope is left where the code goes on, and done is
\* bound where something goes there.
SwitchEnd(b, s, scope, done, noDefault) ==
    LET leaves == noDefault \/ ~b.terminated
        Fell(c) == IF noDefault THEN bind(c, done + 1) ELSE c
        Left(c) == IF ~s.lexical THEN c
                   ELSE IF leaves THEN Leave(pop_context(c), scope)
                   ELSE [Leave(c, scope) EXCEPT !.ctx = @ - 1]
        Landed(c) == IF leaves \/ target_used(b).broke THEN bind(c, done) ELSE c
    IN  Landed(Left(Fell(close_target(b))))

switch_statement(b, s, label) ==
    LET done == Len(b.labels) + 1
        bodies == done + 2
        order == [i \in 1 .. Len(s.cases) |-> i]
        defaults == {i \in DOMAIN s.cases : s.cases[i].default}
        Test(c, i) == IF s.cases[i].default THEN c
                      ELSE jump(Evaluates(c, <<"case", i>>), "jtrue", bodies + i - 1)
        Body(c, i) == statements(bind(c, bodies + i - 1), s.cases[i].list)
        Opened(c) == open_target(c, Target(c, label, TRUE, FALSE, done, done, c.ctx))
        Within(c) == IF s.lexical THEN push_context(c, "switch") ELSE c
        Lowers(c) == FoldLeft(Body, jump(FoldLeft(Test, c, order), "jump",
                        IF defaults = {} THEN done + 1 ELSE bodies + (CHOOSE i \in defaults : TRUE) - 1), order)
        begun == Star(Evaluates([allocate(b, 1) EXCEPT !.labels = @ \o [i \in 1 .. Len(s.cases) + 2 |-> 0]],
                                <<"act", 0>>), b.reg)
    IN  release(SwitchEnd(Lowers(Within(Opened(begun))), s, b.scope, done, defaults = {}), b.reg)

\* The copy on the way past, and the one that throws on.
FinallyThen(b, body, register) ==
    Ended([finally_block([b EXCEPT !.fin = Front(@)], body) EXCEPT !.fin = b.fin], register, "throw")

Skips(b, normal) == IF b.terminated THEN b ELSE jump(b, "jump", normal)
CatchLeft(b, scope, normal) ==
    Leave(IF b.terminated THEN [b EXCEPT !.ctx = @ - 1] ELSE jump(pop_context(b), "jump", normal), scope)
\* A throw from the catch clause runs the finaliser too.
CatchFinally(b, s, start, register, depth, inside) ==
    IF s.finally = Absent THEN b
    ELSE FinallyThen(record_region(b, start, length(b), length(b), register, depth, inside), s.finally, register)

\* The handler: a catch clause, or the finaliser, which throws on.  used tells
\* whether something goes past the statement.
Catching(b, s, exception, normal, from, inside, fell) ==
    LET Clause(c) == [b |-> CatchFinally(CatchLeft(c, from.scope, normal), s, length(b), b.reg, from.ctx, inside),
                      used |-> fell \/ ~c.terminated]
    IN  IF s.catch = Absent THEN [b |-> FinallyThen(b, s.finally, exception), used |-> fell]
        ELSE Clause(statement(Ldar(push_context(allocate(b, 1), "catch"), exception), s.catch))
\* A body that wrote nothing can throw nothing.
Handled(ran, start, s, exception, normal, from, inside) ==
    LET Region(c) == record_region(c, start, length(ran), length(c), exception, from.ctx, inside)
    IN  IF start = length(ran) THEN [b |-> Skips(ran, normal), used |-> ~ran.terminated]
        ELSE Catching(Region(Skips(ran, normal)), s, exception, normal, from, inside, ~ran.terminated)
FinallyLast(out, s, normal) ==
    LET b == IF s.finally # Absent THEN Unregister(out.b) ELSE out.b
    IN  IF ~out.used THEN b
        ELSE IF s.finally # Absent THEN finally_block(bind(b, normal), s.finally) ELSE bind(b, normal)

try_statement(b, s) ==
    LET normal == Len(b.labels) + 1
        Runs(c) == Handled(statement(allocate(c, 1), s.body), length(c), s, c.reg, normal, b, Len(c.fin) + 1)
        Opened(c) == IF s.finally # Absent THEN Register(c, Finaliser(b, s.finally, 0, "finally")) ELSE c
    IN  release(FinallyLast(Runs(Opened(labels3(b))), s, normal), b.reg)

Loop(b, s, label) ==
    CASE s.k = "while"  -> while_statement(b, s, label)
      [] s.k = "do"     -> do_while_statement(b, s, label)
      [] s.k = "for"    -> for_statement(b, s, label)
      [] s.k = "each"   -> for_in_of_statement(b, s, label)
      [] s.k = "switch" -> switch_statement(b, s, label)

statement(b, s) ==
    LET Kept(c) == IF b.script THEN Star(c, completion) ELSE c
    IN  IF b.fails # "" THEN b
        ELSE CASE s.k = "none"   -> b
               [] s.k = "act"    -> Kept(Evaluates(b, <<"act", s.n>>))
               [] s.k = "use"    -> emit(b, "hold", b.stack, s.n)
               [] s.k = "yield"  -> yield_expression(b)
               [] s.k = "throw"  -> emit(emit(b, "value", s.n, 0), "throw", 0, 0)
               [] s.k = "return" -> return_statement(b, s)
               [] s.k \in {"break", "continue"} -> break_or_continue(b, s)
               [] s.k = "block"  -> block(b, s)
               [] s.k = "if"     -> if_statement(reset_completion(b), s)
               [] s.k = "try"    -> try_statement(reset_completion(b), s)
               [] s.k = "label" /\ s.body.k \notin Loops \cup {"switch"} ->
                      labelled_statement(reset_completion(b), s)
               [] OTHER -> LET named == s.k = "label"
                           IN  Loop(reset_completion(b), IF named THEN s.body ELSE s, IF named THEN s.l ELSE "")

\* finish: every jump names a position.
Branches == {"jump", "jtrue", "jfalse", "jnext", "jreturn"}
finish(b) ==
    [code |-> [i \in DOMAIN b.code |-> IF b.code[i].op \in Branches
                                       THEN [b.code[i] EXCEPT !.x = b.labels[@]] ELSE b.code[i]],
     safe |-> b.safe, regions |-> sort_regions(b.regions), high |-> b.high, maxctx |-> b.maxctx,
     fails |-> b.fails]

\* A script's own scopes and prologue are left out: it begins with nothing.
Completed(b) ==
    IF b.terminated THEN b
    ELSE emit(IF b.script THEN Ldar(b, completion) ELSE emit(b, "undef", 0, 0), "return", 0, 0)
lower_function(list, script) ==
    LET b0 == Lowered0(script, ~script)
    IN  finish(Completed(statements(IF script THEN Star(emit(allocate(b0, 1), "undef", 0, 0), completion) ELSE b0,
                                    list)))

----------------------------------------------------------------------------
(* Admission.                                                              *)

Unvisited == 0 - 1
WritesRegister == {"ldar", "star"}

InRange(u) ==
    \A i \in DOMAIN u.code : u.code[i].op \in WritesRegister => u.code[i].x < u.high

\* Regions are ordered, and nested or apart.
RegionsNest(u) ==
    LET One(acc, r) ==
            LET open == SelectSeq(acc.open, LAMBDA e : e > r.start)
            IN  [open |-> Append(open, r.end), start |-> r.start,
                 ok |-> /\ acc.ok /\ r.start < r.end /\ r.end <= Len(u.code) + 1
                        /\ r.register < u.high /\ r.start >= acc.start
                        /\ open = <<>> \/ r.end <= Last(open)]
    IN  FoldLeft(One, [open |-> <<>>, start |-> 0, ok |-> TRUE], u.regions).ok

\* One pass in order: the depth each position is reached at, the same from
\* everywhere, and every position reached.
Flow(u) ==
    LET Refuse(acc, why) == IF acc.why = "" THEN [acc EXCEPT !.why = why] ELSE acc
        Mark(acc, at, depth) ==
            IF at > Len(u.code) \/ at < 1 THEN Refuse(acc, "jump")
            ELSE IF acc.at[at] \notin {Unvisited, depth} THEN Refuse(acc, "depth")
            ELSE [acc EXCEPT !.at[at] = depth]
        One(acc, i) ==
            LET op == u.code[i].op
                here == IF acc.depth # Unvisited THEN acc.depth ELSE acc.at[i]
                a1 == IF here = Unvisited THEN Refuse(acc, "unreachable")
                      ELSE FoldLeft(LAMBDA a, r : IF r.start # i THEN a
                                                  ELSE IF r.depth # here THEN Refuse(a, "depth")
                                                  ELSE Mark(a, r.handler, here),
                                    Mark(acc, i, here), u.regions)
                next == CASE op = "push" -> here + 1 [] op = "pop" -> here - 1 [] OTHER -> here
                a2 == IF next < 0 \/ next > u.maxctx \/ (op = "return" /\ next # 0)
                      THEN Refuse(a1, "depth") ELSE a1
                target == u.code[i].x
                a3 == IF op \notin Branches THEN a2
                      ELSE IF target <= i /\ target \notin u.safe THEN Refuse(a2, "safe point")
                      ELSE Mark(a2, target, next)
            IN  IF acc.why # "" THEN acc
                ELSE [a3 EXCEPT !.depth = IF op \in Terminators THEN Unvisited ELSE next]
    IN  FoldLeft(One, [at |-> [i \in DOMAIN u.code |-> Unvisited], depth |-> 0, why |-> ""],
                 [i \in DOMAIN u.code |-> i]).why

\* The first reason to refuse, or none.
verify_function(u) ==
    CASE ~InRange(u) -> "register"
      [] u.code[Len(u.code)].op \notin Terminators -> "falls off the end"
      [] ~RegionsNest(u) -> "regions"
      [] OTHER -> Flow(u)

===============================================================================
