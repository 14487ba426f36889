------------------------------ MODULE Generators -------------------------------
(***************************************************************************)
(* Generators, plain and async (modules/common/vm/coroutines.rs, the       *)
(* returns and yields of vm.rs and the reactions of vm/natives/mod.rs): a  *)
(* script asks next, throw and return of one generator whenever it likes,  *)
(* the body asks too, and what is awaited comes at any time.               *)
(*                                                                         *)
(* A body is a list of steps; a step says whether what it awaits is        *)
(* fulfilled and what the code around it does with a throw or a return     *)
(* there.  A value is named by the step or the request it comes from.      *)
(* yield* is left out.                                                     *)
(***************************************************************************)
EXTENDS Integers, Sequences, FiniteSets

CONSTANTS
    Bodies,         \* [async, steps] a run takes; a step is [do, ok, keeps]
    Requests,       \* what a script asks: [op, ok], ok of a return's value
    MaxRequests     \* requests made of the generator, the body's own too

VARIABLES
    b,              \* the body
    gen,            \* the generator: its state, where its frame stopped, its queue
    asked,          \* every request, in the order made
    jobs,           \* the reactions queued
    awaits          \* what is awaited and has not come: a set

gvars == <<b, gen, asked, jobs, awaits>>

Undefined == <<"undefined", 0>>
Given(i) == <<"request", i>>        \* the argument of request i
Made(pc) == <<"body", pc>>          \* what step pc of the body made
Waiting == [is |-> "waiting", of |-> Undefined]
Yielded(x) == [is |-> "value", of |-> x]
Finished(x) == [is |-> "done", of |-> x]
Raised(x) == [is |-> "error", of |-> x]

\* suspend_start: the frame has its arguments and has not run.
GeneratorInit ==
    /\ b \in Bodies
    /\ gen = [state |-> "suspended", star |-> FALSE, at |-> 1, queue |-> <<>>,
              answers |-> <<>>, received |-> <<>>]
    /\ asked = <<>>
    /\ jobs = <<>>
    /\ awaits = {}

----------------------------------------------------------------------------
(* The machine a step of the program works on: k is all of it at once.     *)

Machine == [gen |-> gen, asked |-> asked, jobs |-> jobs, awaits |-> awaits]
State(k, s) == [k EXCEPT !.gen.state = s]

\* What is awaited is a promise; its reaction takes the value from there.
Awaits(k, then, pc, ok) == [k EXCEPT !.awaits = @ \cup {[then |-> then, pc |-> pc, ok |-> ok]}]

\* Mutant: nobody comes back for the request behind.
NeverChains(k, answer, chain) ==
    LET q == k.gen.queue
    IN  IF q = <<>> THEN k
        ELSE [k EXCEPT !.gen.answers[Head(q)] = answer, !.gen.queue = Tail(q)]
\* The oldest request is answered, and a job comes back for the one behind it.
settle_pending_next_with(k, answer, chain) ==
    LET q == k.gen.queue
    IN  IF q = <<>> THEN k
        ELSE [k EXCEPT !.gen.answers[Head(q)] = answer, !.gen.queue = Tail(q),
                       !.jobs = IF Len(q) > 1 /\ chain THEN Append(@, [then |-> "drain", pc |-> 0, ok |-> TRUE])
                                ELSE @]
settle_pending_next(k, answer) == settle_pending_next_with(k, answer, TRUE)

\* The answer of a plain generator is the resumer's: the newest still waiting.
Resumer(k) == CHOOSE i \in DOMAIN k.asked :
    /\ k.gen.answers[i] = Waiting
    /\ \A j \in DOMAIN k.asked : k.gen.answers[j] = Waiting => j <= i
Answer(k, answer) ==
    IF b.async THEN settle_pending_next(k, answer)
    ELSE [k EXCEPT !.gen.answers[Resumer(k)] = answer]

RECURSIVE Run(_, _), generator_resume(_, _)

\* A throw reaches the code around the step, or leaves the frame and
\* finishes the generator.
unwind(k, pc, x) ==
    IF b.steps[pc].keeps # "none" THEN Run(k, pc + 1)
    ELSE Answer(State(k, "done"), Raised(x))
\* A return at a step: a finaliser around it may take it over.
Returns(k, pc, x) ==
    IF b.steps[pc].keeps = "both" THEN Run(k, pc + 1)
    ELSE Answer(State(k, "done"), Finished(x))

\* Mutant: a return is not awaited before it is carried out.
ReturnsAtOnce(k, i) ==
    LET pc == k.gen.at
        op == k.asked[i].op
        r == [k EXCEPT !.gen.received = Append(@, <<pc, i>>)]
    IN  CASE op = "next"  -> Run(r, pc + 1)
          [] op = "throw" -> unwind(r, pc, Given(i))
          [] OTHER        -> Returns(r, pc, Given(i))
\* What the code after a yield does with the kind it is resumed in.
Resumed(k, i) ==
    LET pc == k.gen.at
        op == k.asked[i].op
        r == [k EXCEPT !.gen.received = Append(@, <<pc, i>>)]
    IN  CASE op = "next"  -> Run(r, pc + 1)
          [] op = "throw" -> unwind(r, pc, Given(i))
          [] op = "return" /\ b.async -> Awaits(r, "return", pc, k.asked[i].ok)
          [] OTHER        -> Returns(r, pc, Given(i))

\* An async yield answers its request; one already waiting resumes the body in
\* place, and otherwise the frame is kept (suspend_yield).
Yield(k, pc) ==
    LET stopped == [k EXCEPT !.gen.star = TRUE, !.gen.at = pc]
        told == settle_pending_next_with(stopped, Yielded(Made(pc)), FALSE)
    IN  IF ~b.async THEN Answer(State(stopped, "suspended"), Yielded(Made(pc)))
        ELSE IF told.gen.queue # <<>> THEN Resumed(told, Head(told.gen.queue))
        ELSE State(told, "suspended")

\* The body from step pc until it stops.  An async body awaits what it yields
\* and what it returns.
Run(k, pc) ==
    LET s == b.steps[pc]
    IN  IF pc > Len(b.steps) THEN Answer(State(k, "done"), Finished(Undefined))
        ELSE CASE s.do = "await" -> Awaits(k, "body", pc, s.ok)
               [] s.do = "yield" -> IF b.async THEN Awaits(k, "yield", pc, s.ok) ELSE Yield(k, pc)
               [] s.do = "return" -> IF b.async THEN Awaits(k, "leave", pc, s.ok)
                                     ELSE Returns(k, pc, Made(pc))
               [] s.do = "throw" -> unwind(k, pc, Made(pc))
               [] OTHER -> IF Len(k.asked) = MaxRequests THEN Run(k, pc + 1)
                           ELSE Run(generator_resume(k, [op |-> IF s.do = "quit" THEN "return" ELSE "next", ok |-> TRUE]), pc + 1)

----------------------------------------------------------------------------
(* The requests.                                                           *)

\* The generator counts as running while the value of a return is awaited.
await_return(k, i) == Awaits([State(k, "running") EXCEPT !.gen.at = 0], "returned", 0, k.asked[i].ok)

serve_async_request(k, i) ==
    LET st == k.gen.state
        at_yield == st = "suspended" /\ k.gen.star
        op == k.asked[i].op
    IN  CASE st = "running" -> k
          [] st # "running" /\ op = "return" /\ ~at_yield -> await_return(k, i)
          [] st # "running" /\ op = "throw" /\ ~at_yield ->
                settle_pending_next(State(k, "done"), Raised(Given(i)))
          [] st = "done" /\ op = "next" -> settle_pending_next(k, Finished(Undefined))
          [] OTHER -> IF k.gen.star THEN Resumed(State(k, "running"), i) ELSE Run(State(k, "running"), 1)

\* A finished generator, and one that runs, answers without its body; so does
\* one that has not started, but for next.
PlainRequest(k, i) ==
    LET st == k.gen.state
        at_yield == st = "suspended" /\ k.gen.star
        op == k.asked[i].op
        Told(w, answer) == [w EXCEPT !.gen.answers[i] = answer]
    IN  CASE op = "return" /\ ~at_yield -> Told(State(k, "done"), Finished(Given(i)))
          [] op = "throw" /\ ~at_yield ->
                Told(IF st = "suspended" THEN State(k, "done") ELSE k, Raised(Given(i)))
          [] op = "next" /\ st # "suspended" -> Told(k, Finished(Undefined))
          [] OTHER -> IF k.gen.star THEN Resumed(State(k, "running"), i) ELSE Run(State(k, "running"), 1)

\* next, throw or return: generator_resume, or resume_generator_call for a
\* plain generator that the loop can run in place.
generator_resume(k, request) ==
    LET i == Len(k.asked) + 1
        made == [k EXCEPT !.asked = Append(@, request), !.gen.answers = Append(@, Waiting)]
        queued == [made EXCEPT !.gen.queue = Append(@, i)]
    IN  IF ~b.async THEN PlainRequest(made, i)
        ELSE IF Len(queued.gen.queue) > 1 THEN queued
        ELSE serve_async_request(queued, i)

drain_async_generator(k) ==
    IF k.gen.queue = <<>> THEN k ELSE serve_async_request(k, Head(k.gen.queue))

\* A reaction: the frame goes on where it awaited, or the answer is given.
React(k, j) ==
    LET x == Given(Head(k.gen.queue))       \* of the return being served
        bad == IF j.then = "return" THEN x ELSE Made(j.pc)
        outcome == IF j.ok THEN Finished(x) ELSE Raised(x)
    IN  CASE j.then = "drain"    -> drain_async_generator(k)
          [] j.then = "returned" -> settle_pending_next(State(k, "done"), outcome)
          [] j.then # "returned" /\ j.then # "drain" /\ ~j.ok -> unwind(k, j.pc, bad)
          [] j.then = "body" /\ j.ok   -> Run(k, j.pc + 1)
          [] j.then = "yield" /\ j.ok  -> Yield(k, j.pc)
          [] j.then = "leave" /\ j.ok  -> Returns(k, j.pc, Made(j.pc))
          [] j.then = "return" /\ j.ok -> Returns(k, j.pc, x)

----------------------------------------------------------------------------
Becomes(k) == gen' = k.gen /\ asked' = k.asked /\ jobs' = k.jobs /\ awaits' = k.awaits

Request(r) == Len(asked) < MaxRequests /\ Becomes(generator_resume(Machine, r)) /\ UNCHANGED b
Settle(a) ==
    /\ a \in awaits
    /\ jobs' = Append(jobs, a)
    /\ awaits' = awaits \ {a}
    /\ UNCHANGED <<b, gen, asked>>
RunJob ==
    /\ jobs # <<>>
    /\ Becomes(React([Machine EXCEPT !.jobs = Tail(@)], Head(jobs)))
    /\ UNCHANGED b

GeneratorNext ==
    \/ \E r \in Requests : Request(r)
    \/ \E a \in awaits : Settle(a)
    \/ RunJob

\* What is awaited comes and the queue is drained.
Idle == jobs = <<>> /\ awaits = {}
Worked == Len(asked') = Len(asked) \/ jobs' # jobs
GeneratorWorks == <>[]Idle \/ []<><<Worked>>_gvars

----------------------------------------------------------------------------
(* What ECMA-262 says each request is answered: the requests are served one *)
(* at a time in the order made, whenever they were made.  A resumption      *)
(* completes abruptly or goes on; a generator that is not at a yield is     *)
(* completed by throw and by return.                                        *)

RECURSIVE Goes(_)
\* From step pc: the answer of the request and the step the body stops at, 0
\* when it has ended.
Goes(pc) ==
    LET s == b.steps[pc]
        Bad(e) == IF s.keeps # "none" THEN Goes(pc + 1) ELSE [to |-> Raised(e), at |-> 0]
    IN  CASE pc > Len(b.steps) -> [to |-> Finished(Undefined), at |-> 0]
          [] pc <= Len(b.steps) /\ (s.do = "throw" \/ (b.async /\ ~s.ok /\ s.do \in {"await", "yield", "return"})) ->
                Bad(Made(pc))
          [] pc <= Len(b.steps) /\ s.do = "yield" /\ (s.ok \/ ~b.async) -> [to |-> Yielded(Made(pc)), at |-> pc]
          [] pc <= Len(b.steps) /\ s.do = "return" /\ (s.ok \/ ~b.async) ->
                IF s.keeps = "both" THEN Goes(pc + 1) ELSE [to |-> Finished(Made(pc)), at |-> 0]
          [] OTHER -> Goes(pc + 1)
Completes(pc, op, i) ==
    LET abrupt == op.op = "throw" \/ (op.op = "return" /\ b.async /\ ~op.ok)
    IN  IF op.op = "next" THEN Goes(pc + 1)
        ELSE IF abrupt
             THEN IF b.steps[pc].keeps # "none" THEN Goes(pc + 1) ELSE [to |-> Raised(Given(i)), at |-> 0]
        ELSE IF b.steps[pc].keeps = "both" THEN Goes(pc + 1) ELSE [to |-> Finished(Given(i)), at |-> 0]
Told == LET T[i \in 0..Len(asked)] ==
                IF i = 0 THEN [to |-> Waiting, at |-> -1]
                ELSE LET was == T[i - 1].at
                         op == asked[i]
                         bad == op.op = "throw" \/ (op.op = "return" /\ b.async /\ ~op.ok)
                     IN  IF was > 0 THEN Completes(was, op, i)
                         ELSE IF was = -1 /\ op.op = "next" THEN Goes(1)
                         ELSE [at |-> 0, to |-> IF op.op = "next" THEN Finished(Undefined)
                                                ELSE IF bad THEN Raised(Given(i)) ELSE Finished(Given(i))]
        IN  T

----------------------------------------------------------------------------
(* Properties.                                                             *)

Answered == {i \in DOMAIN asked : gen.answers[i] # Waiting}

\* "The oldest request answers first: requests queue while the generator
\* works, and each settles in turn" (settle_pending_next_with).
SettledInTurn == b.async => \A i \in Answered : \A j \in 1..i : j \in Answered

\* A request is answered with what the body says of it and of the ones before
\* it, however it raced with the body, its awaits and its drain jobs.
AnsweredAsAsked == \A i \in Answered : gen.answers[i] = Told[i].to

\* Nobody is left waiting when what is awaited comes (the job that
\* settle_pending_next_with queues, and serve_async_request).
Quiet == Answered = DOMAIN asked
AllAnswered == []<>Quiet

===============================================================================
