-------------------------------- MODULE Machine -------------------------------
(***************************************************************************)
(* One frame of the interpreter (modules/common/vm.rs, vm/coroutines.rs,   *)
(* vm/iteration.rs) running what the lowering wrote: the program counter,  *)
(* the accumulator, the registers and the environments, throws given to    *)
(* the innermost region that covers them.  Every outcome of an event is    *)
(* possible: an expression throws, a test fails, an iterator ends, a       *)
(* generator is resumed to return.                                         *)
(***************************************************************************)
EXTENDS Lowering

CONSTANTS
    Programs,       \* [list, script, tame]
    MaxOutcomes,    \* events a run has
    MaxThrows       \* of them, those that throw

VARIABLES
    p,              \* the program
    u,              \* its code
    r,              \* the frame
    outcomes,       \* what every event so far came to
    trace           \* the events, each with its outcome and the scopes open

fvars == <<p, u, r, outcomes, trace>>

Frame0(high) == [pc |-> 1, env |-> <<>>, regs |-> [i \in 1 .. high |-> Undefined], acc |-> Undefined,
                 kind |-> "next", pending |-> Empty, ends |-> "", v |-> Undefined]

instruction(f) == u.code[f.pc]
Reg(f, x) == f.regs[x]
Goes(f) == [f EXCEPT !.pc = @ + 1]
Ends(f, how, v) == [f EXCEPT !.ends = how, !.v = v]

\* The innermost region that covers the instruction.
handler_for(f) ==
    LET covers == SelectSeq(u.regions, LAMBDA g : g.start <= f.pc /\ f.pc < g.end)
        Better(found, g) ==
            IF found = <<>> \/ (g.start >= found[1].start /\ g.end <= found[1].end) THEN <<g>> ELSE found
    IN  FoldLeft(Better, <<>>, covers)

\* Every context the protected code entered is left.
ContextsOf(f, depth) == SubSeq(f.env, 1, depth)

unwind(f, thrown) ==
    LET h == handler_for(f)
    IN  IF h = <<>> THEN Ends(f, "throw", thrown)
        ELSE [f EXCEPT !.pc = h[1].handler, !.env = ContextsOf(f, h[1].depth),
                       !.regs[h[1].register] = thrown, !.acc = thrown]

\* What the instruction asks the world, or nothing.
Asks(f) ==
    LET i == instruction(f)
    IN  CASE i.op = "event" -> <<i.x>>
          [] i.op = "hold"  -> <<<<"use", i.y>>>>
          [] i.op \in {"next", "nextname"} -> <<<<"next">>>>
          [] i.op \in {"close", "closequiet"} /\ Reg(f, i.y) # <<"done">> -> <<<<"close">>>>
          [] i.op \in {"dispose", "disposethrow"} /\ Len(Reg(f, i.x)) > 1 -> <<<<"dispose", Last(Reg(f, i.x))[1]>>>>
          [] i.op = "yield" -> <<<<"yield">>>>
          [] OTHER -> <<>>

Outcomes(what, op) ==
    CASE what[1] \in {"test", "case"} -> {"yes", "no", "throw"}
      [] what[1] = "next" -> {"value", "done"} \cup (IF op = "next" THEN {"throw"} ELSE {})
      [] what[1] = "yield" -> {"next", "throw", "return"}
      [] OTHER -> {"ok", "throw"}

\* A stack of resources, last disposed first; a throw suppresses the one before.
dispose_stack(f, o) ==
    LET i == instruction(f)
        top == Last(Reg(f, i.x))[1]
        thrown == Thrown(<<"dispose", top>>)
        before == IF f.pending # Empty THEN f.pending
                  ELSE IF i.op = "disposethrow" THEN Reg(f, i.y) ELSE Empty
    IN  [f EXCEPT !.regs[i.x] = Front(@),
                  !.pending = IF o # "throw" THEN before
                              ELSE IF before = Empty THEN thrown ELSE Suppressed(thrown, before)]

\* An instruction with the outcome of what it asked.
step(f, o) ==
    LET i == instruction(f)
        what == Asks(f)[1]
        g == Goes(f)
    IN  CASE i.op = "event" /\ o = "throw" -> unwind(f, Thrown(what))
          [] i.op = "event" -> [g EXCEPT !.acc = IF what[1] = "act" THEN Value(what[2]) ELSE <<o>>]
          [] i.op = "hold" /\ o = "throw" -> unwind(f, Thrown(what))
          [] i.op = "hold" -> [g EXCEPT !.regs[i.x] = Append(@, <<i.y>>)]
          [] i.op \in {"next", "nextname"} /\ o = "throw" -> unwind(f, Thrown(what))
          [] i.op \in {"next", "nextname"} ->
                [g EXCEPT !.acc = <<IF o = "done" THEN "yes" ELSE "no">>,
                          !.regs[i.y] = IF o = "done" THEN <<"done">> ELSE <<"more">>]
          [] i.op = "close" /\ o = "throw" -> unwind(f, Thrown(what))
          [] i.op \in {"close", "closequiet"} -> g
          [] i.op \in {"dispose", "disposethrow"} -> dispose_stack(f, o)
          [] i.op = "yield" -> [g EXCEPT !.kind = o, !.acc = IF o = "throw" THEN Thrown(what) ELSE <<"sent">>]

\* An instruction that asks nothing.
step_fast(f) ==
    LET i == instruction(f)
        g == Goes(f)
        To(taken) == IF taken THEN [f EXCEPT !.pc = i.x] ELSE g
    IN  CASE i.op = "undef"   -> [g EXCEPT !.acc = Undefined]
          [] i.op = "value"   -> [g EXCEPT !.acc = Value(i.x)]
          [] i.op = "ldar"    -> [g EXCEPT !.acc = Reg(f, i.x)]
          [] i.op = "star"    -> [g EXCEPT !.regs[i.x] = f.acc]
          [] i.op = "mkstack" -> [g EXCEPT !.acc = <<"stack">>]
          [] i.op = "push"    -> [g EXCEPT !.env = Append(@, i.x)]
          [] i.op = "pop"     -> [g EXCEPT !.env = Front(@)]
          [] i.op = "jump"    -> To(TRUE)
          [] i.op = "jtrue"   -> To(f.acc = <<"yes">>)
          [] i.op = "jfalse"  -> To(f.acc = <<"no">>)
          [] i.op = "jnext"   -> To(f.kind = "next")
          [] i.op = "jreturn" -> To(f.kind = "return")
          [] i.op = "throw"   -> unwind(f, f.acc)
          [] i.op = "return"  -> Ends(f, "return", f.acc)
          [] i.op \in {"close", "closequiet"} -> g
          [] i.op = "dispose" -> IF f.pending = Empty THEN g ELSE unwind([f EXCEPT !.pending = Empty], f.pending)
          [] i.op = "disposethrow" ->
                unwind([f EXCEPT !.pending = Empty], IF f.pending = Empty THEN Reg(f, i.y) ELSE f.pending)

\* On until an event is due, or the end; a loop without one would go on for
\* ever and its fuel would end it.
RECURSIVE drive(_, _)
drive(f, fuel) ==
    IF f.ends # "" \/ Asks(f) # <<>> THEN f
    ELSE IF fuel = 0 THEN Ends(f, "fuel", Undefined) ELSE drive(step_fast(f), fuel - 1)
Fuel == 60

FrameInit ==
    /\ p \in Programs
    /\ u = lower_function(p.list, p.script)
    /\ r = IF u.fails = "" /\ verify_function(u) = ""
           THEN drive(Frame0(u.high), Fuel) ELSE Ends(Frame0(1), "refused", Undefined)
    /\ outcomes = <<>> /\ trace = <<>>

FrameStep ==
    /\ r.ends = "" /\ Len(outcomes) < MaxOutcomes
    /\ LET what == Asks(r)[1]
       IN  \E o \in Outcomes(what, instruction(r).op) :
              /\ o = "throw" => Len(SelectSeq(outcomes, LAMBDA x : x = "throw")) < MaxThrows
              /\ r' = drive(step(r, o), Fuel)
              /\ outcomes' = Append(outcomes, o)
              /\ trace' = Append(trace, <<what, o, Seen(what, r.env)>>)
    /\ UNCHANGED <<p, u>>

----------------------------------------------------------------------------
(* Properties.                                                             *)

\* "Compile one parsed script into a verified unit image": what lowers is
\* admitted, with no code that nothing reaches, no context left over on one
\* path and no backward jump without a safe point (lower.rs, verify.rs), where
\* no exit escapes two finalisers and none starts a finaliser.
LoweredIsAdmitted == p.tame /\ u.fails = "" => verify_function(u) = ""

\* The code does what the program means: the same events in the same scopes,
\* the same end and the same value, whatever throws, breaks or is resumed.
RunsAsWritten ==
    r.ends \in {"return", "throw"} =>
        LET m == Program(p.list, p.script, outcomes)
        IN  trace = m.trace /\ r.ends = m.ends /\ r.v = m.v

\* A name is looked up in the scopes it was resolved in, in every copy of a
\* finaliser and every handler too (ScopeOf, unwind).
ResolvedInItsScope ==
    r.ends = "" /\ instruction(r).op = "event" => r.env = instruction(r).scope

===============================================================================
