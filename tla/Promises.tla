------------------------------- MODULE Promises -------------------------------
(***************************************************************************)
(* Promises, their reactions and the jobs they become                      *)
(* (modules/common/promise.rs, the promise half of vm/host.rs, and the     *)
(* settling functions of vm/natives).  The program is whatever it may do   *)
(* while its body or one job runs.  A job runs to its end; the body is     *)
(* sliced, and between two slices completions arrive and jobs run.  Their  *)
(* queue is a bounded first-in first-out one, which the ring at the end of *)
(* this module (modules/common/job.rs) implements.                         *)
(***************************************************************************)
EXTENDS Integers, Sequences, FiniteSets, SequencesExt

CONSTANTS
    Promise,       \* promises a task may create
    JobCount,      \* slots of the job queue
    MaxReactions,  \* bound on the reactions the program attaches
    MaxAttempts,   \* bound on its calls of settling functions
    NoPromise      \* undefined where a promise may be

PromisesAssumption ==
    /\ JobCount \in Nat \ {0} /\ MaxReactions \in Nat /\ MaxAttempts \in Nat
    /\ NoPromise \notin Promise

\* What a promise may be resolved with: a plain value, an object with a then
\* of its own, or a promise.
Plain    == "plain"
Thenable == "thenable"
Value    == [is : {Plain, Thenable}, promise : {NoPromise}]
            \cup [is : {"promise"}, promise : Promise]

States   == {"pending", "fulfilled", "rejected"}
Handler  == [kind : {"none", "user"}, of : {NoPromise}]
            \cup [kind : {"resolve", "reject"}, of : Promise]
Reaction == [id : 0 .. MaxReactions, on_fulfilled : Handler, on_rejected : Handler,
             derived : Promise \cup {NoPromise}]
Job      == [kind : {"Reaction", "Settle", "Adopt"}, id : 0 .. MaxReactions,
             handler : Handler, argument : Value, state : States,
             derived : Promise \cup {NoPromise}]

NoHandler   == [kind |-> "none", of |-> NoPromise]
UserHandler == [kind |-> "user", of |-> NoPromise]
PlainValue  == [is |-> Plain, promise |-> NoPromise]

VARIABLES
    state,      \* per promise, pending until it settles
    value,      \* per promise, what it settled with
    reactions,  \* per promise, the reactions waiting on it
    created,    \* the promises there are
    resolvers,  \* those of them the program holds the settling functions of
    calls,      \* those of them a host call will settle
    queue,      \* the jobs, in order
    body,       \* the task's body: it runs, is between two slices, or is done
    running,    \* the job that runs program code, if one does
    ended,      \* why the task ended, or "no"
    fate,       \* history: how the program first resolved each promise
    attached,   \* history: the reactions the program attached, and to what
    ran,        \* history: the reactions whose job ran, in order
    attempts,   \* history: calls of settling functions so far
    overflowed  \* history: a completion found too little room in the queue

promises == <<state, value, reactions>>
history  == <<fate, attached, ran, attempts, overflowed>>
pvars    == <<promises, created, resolvers, calls, queue, body, running, ended, history>>

NoJob == [what |-> "nothing", derived |-> NoPromise]

TypeOK ==
    /\ state \in [Promise -> States] /\ value \in [Promise -> Value]
    /\ reactions \in [Promise -> Seq(Reaction)]
    /\ created \subseteq Promise /\ resolvers \subseteq created /\ calls \subseteq created
    /\ queue \in Seq(Job) /\ Len(queue) <= JobCount
    /\ body \in {"runs", "paused", "done"}
    /\ running \in [what : {"nothing", "reaction", "then"}, derived : Promise \cup {NoPromise}]
    /\ ended \in {"no", "quota", "throw"}

Init ==
    /\ state = [p \in Promise |-> "pending"]
    /\ value = [p \in Promise |-> PlainValue]
    /\ reactions = [p \in Promise |-> <<>>]
    /\ created = {} /\ resolvers = {} /\ calls = {}
    /\ queue = <<>> /\ body = "runs" /\ running = NoJob /\ ended = "no"
    /\ fate = [p \in Promise |-> {}] /\ attached = <<>> /\ ran = <<>>
    /\ attempts = 0 /\ overflowed = FALSE

----------------------------------------------------------------------------
(* Queueing.  A step gathers the jobs it pushes and pushes them in order;  *)
(* the push that finds the queue full stops there.                         *)

HandlerFor(outcome, reaction) ==
    IF outcome = "fulfilled" THEN reaction.on_fulfilled ELSE reaction.on_rejected

\* enqueue: with no handler the derived promise takes the outcome directly.
JobOf(outcome, v, reaction) ==
    LET handler == HandlerFor(outcome, reaction)
    IN  [kind |-> IF handler.kind = "none" THEN "Settle" ELSE "Reaction",
         id |-> reaction.id, handler |-> handler, argument |-> v, state |-> outcome,
         derived |-> reaction.derived]

\* With no handler and nothing derived there is nothing to do.
MakesJob(outcome, reaction) ==
    HandlerFor(outcome, reaction).kind # "none" \/ reaction.derived # NoPromise

Due(outcome, waiting) ==
    LET upto[n \in 0 .. Len(waiting)] ==
            IF n = 0 THEN <<>>
            ELSE IF MakesJob(outcome, waiting[n]) THEN Append(upto[n - 1], waiting[n])
            ELSE upto[n - 1]
    IN  upto[Len(waiting)]

JobsNewestFirst(outcome, v, waiting) ==
    LET due == Reverse(Due(outcome, waiting))
    IN  [n \in DOMAIN due |-> JobOf(outcome, v, due[n])]

JobsOf(outcome, v, waiting) ==
    LET due == Due(outcome, waiting)
    IN  [n \in DOMAIN due |-> JobOf(outcome, v, due[n])]

Overflows(q, jobs) == Len(q) + Len(jobs) > JobCount

Push(q, jobs) ==
    queue' = IF Overflows(q, jobs) THEN q \o SubSeq(jobs, 1, JobCount - Len(q))
                                   ELSE q \o jobs

\* A full queue is a quota, which ends the task.
Quota(q, jobs) == ended' = IF Overflows(q, jobs) THEN "quota" ELSE ended

SettleAgain(p, outcome, v, q) ==
    /\ state' = [state EXCEPT ![p] = outcome]
    /\ value' = [value EXCEPT ![p] = v]
    /\ reactions' = [reactions EXCEPT ![p] = <<>>]
    /\ Push(q, JobsOf(outcome, v, reactions[p]))

\* promise::settle: once, and every reaction waiting becomes a job.  The list
\* is emptied after the last was pushed.
Settled(p, outcome, v, q) ==
    IF state[p] # "pending"
    THEN UNCHANGED promises /\ queue' = q
    ELSE /\ state' = [state EXCEPT ![p] = outcome]
         /\ value' = [value EXCEPT ![p] = v]
         /\ reactions' = [reactions EXCEPT ![p] =
                IF Overflows(q, JobsOf(outcome, v, @)) THEN @ ELSE <<>>]
         /\ Push(q, JobsOf(outcome, v, reactions[p]))

SettleJobs(p, outcome, v) ==
    IF state[p] = "pending" THEN JobsOf(outcome, v, reactions[p]) ELSE <<>>

Settle(p, outcome, v, q) ==
    Settled(p, outcome, v, q) /\ Quota(q, SettleJobs(p, outcome, v))

AdoptJob(p, v) ==
    [kind |-> "Adopt", id |-> 0, handler |-> NoHandler, argument |-> v,
     state |-> "pending", derived |-> p]

\* resolve: itself is an error, a thenable is followed by a job, anything else
\* settles it.
Resolve(p, v, q) ==
    \/ /\ v.is = "promise" /\ v.promise = p
       /\ Settle(p, "rejected", PlainValue, q)
    \/ /\ v.is # Plain /\ v.promise # p
       /\ Push(q, <<AdoptJob(p, v)>>) /\ Quota(q, <<AdoptJob(p, v)>>)
       /\ UNCHANGED promises
    \/ /\ v.is = Plain
       /\ Settle(p, "fulfilled", v, q)

\* promise::react: recorded while the promise is pending, a job at once after.
React(p, reaction, q) ==
    IF state[p] = "pending"
    THEN /\ reactions' = [reactions EXCEPT ![p] = Append(@, reaction)]
         /\ queue' = q
         /\ UNCHANGED <<state, value, ended>>
    ELSE /\ Push(q, JobsOf(state[p], value[p], <<reaction>>))
         /\ Quota(q, JobsOf(state[p], value[p], <<reaction>>))
         /\ UNCHANGED promises

----------------------------------------------------------------------------
(* What running program code may do.                                       *)

Running == (body = "runs" \/ running # NoJob) /\ ended = "no"

Values == {v \in Value : v.is = "promise" => v.promise \in created}

\* How the program first resolved a promise: with another, or some other way.
FirstFate(p, v) ==
    fate' = IF fate[p] # {} THEN fate
            ELSE [fate EXCEPT ![p] = {IF v.is = "promise" THEN v.promise ELSE NoPromise}]

\* new Promise or withResolvers, an async call whose frame settles its promise,
\* or a host call, whose promise a completion settles.
NewPromise(call) ==
    /\ Running
    /\ \E p \in Promise \ created :
          /\ created' = created \cup {p}
          /\ calls' = IF call THEN calls \cup {p} ELSE calls
          /\ resolvers' = IF call THEN resolvers ELSE resolvers \cup {p}
    /\ UNCHANGED <<promises, queue, body, running, ended, history>>

Attach(p, reaction) ==
    /\ Len(attached) < MaxReactions
    /\ React(p, reaction, queue)
    /\ attached' = Append(attached, [to |-> p, reaction |-> reaction])

\* p.then, with or without a handler for each outcome.
Then(p, on_fulfilled, on_rejected) ==
    /\ Running
    /\ \E d \in Promise \ created :
          /\ created' = created \cup {d}
          /\ Attach(p, [id |-> Len(attached) + 1, on_fulfilled |-> on_fulfilled,
                        on_rejected |-> on_rejected, derived |-> d])
    /\ UNCHANGED <<resolvers, calls, body, running, fate, ran, attempts, overflowed>>

\* await p: the reaction resumes the frame, and no promise is derived.
Await(p) ==
    /\ Running
    /\ Attach(p, [id |-> Len(attached) + 1, on_fulfilled |-> UserHandler,
                  on_rejected |-> UserHandler, derived |-> NoPromise])
    /\ UNCHANGED <<created, resolvers, calls, body, running, fate, ran, attempts, overflowed>>

\* The functions an executor or a thenable was handed, whenever it calls them.
CallResolve(p, v) ==
    /\ Running /\ attempts < MaxAttempts
    /\ attempts' = attempts + 1
    /\ Resolve(p, v, queue)
    /\ FirstFate(p, v)
    /\ UNCHANGED <<created, resolvers, calls, body, running, attached, ran, overflowed>>

CallReject(p) ==
    /\ Running /\ attempts < MaxAttempts
    /\ attempts' = attempts + 1
    /\ Settle(p, "rejected", PlainValue, queue)
    /\ FirstFate(p, PlainValue)
    /\ UNCHANGED <<created, resolvers, calls, body, running, attached, ran, overflowed>>

\* The program catches its own throws; one that reaches the body's end is the
\* task's.
BodyEnds(throws) ==
    /\ body = "runs" /\ ended = "no"
    /\ body' = "done"
    /\ ended' = IF throws THEN "throw" ELSE ended
    /\ UNCHANGED <<promises, created, resolvers, calls, queue, running, history>>

\* A slice ends after any instruction, and the next resumes there.
SliceEnds ==
    /\ body = "runs" /\ ended = "no"
    /\ body' = "paused"
    /\ UNCHANGED <<promises, created, resolvers, calls, queue, running, ended, history>>

BodyResumes ==
    /\ body = "paused" /\ running = NoJob /\ ended = "no"
    /\ body' = "runs"
    /\ UNCHANGED <<promises, created, resolvers, calls, queue, running, ended, history>>

----------------------------------------------------------------------------
(* run_jobs and run_job, between two slices of the body or after it.       *)

JobStarts == body # "runs" /\ running = NoJob /\ ended = "no" /\ queue # <<>>
TheJob    == Head(queue)
Ran(job)  == ran' = IF job.id = 0 THEN ran ELSE Append(ran, job.id)

RunSettle ==
    /\ JobStarts /\ TheJob.kind = "Settle"
    /\ Settle(TheJob.derived, TheJob.state, TheJob.argument, Tail(queue))
    /\ Ran(TheJob)
    /\ UNCHANGED <<created, resolvers, calls, body, running, fate, attached, attempts, overflowed>>

\* A promise is followed through its own then, with functions that settle the
\* promise that adopted it.  (What that then derives nothing can reach.)
RunAdoptPromise ==
    /\ JobStarts /\ TheJob.kind = "Adopt" /\ TheJob.argument.is = "promise"
    /\ React(TheJob.argument.promise,
             [id |-> 0, on_fulfilled |-> [kind |-> "resolve", of |-> TheJob.derived],
              on_rejected |-> [kind |-> "reject", of |-> TheJob.derived],
              derived |-> NoPromise], Tail(queue))
    /\ UNCHANGED <<created, resolvers, calls, body, running, history>>

\* An object's then is program code, handed the same functions.
RunAdoptThenable ==
    /\ JobStarts /\ TheJob.kind = "Adopt" /\ TheJob.argument.is = Thenable
    /\ running' = [what |-> "then", derived |-> TheJob.derived]
    /\ resolvers' = resolvers \cup {TheJob.derived}
    /\ queue' = Tail(queue)
    /\ UNCHANGED <<promises, created, calls, body, ended, history>>

\* A settling function as the handler settles its promise.
RunNative ==
    /\ JobStarts /\ TheJob.kind = "Reaction"
    /\ \/ /\ TheJob.handler.kind = "resolve"
          /\ Resolve(TheJob.handler.of, TheJob.argument, Tail(queue))
       \/ /\ TheJob.handler.kind = "reject"
          /\ Settle(TheJob.handler.of, "rejected", TheJob.argument, Tail(queue))
    /\ UNCHANGED <<created, resolvers, calls, body, running, history>>

RunHandler ==
    /\ JobStarts /\ TheJob.kind = "Reaction" /\ TheJob.handler.kind = "user"
    /\ running' = [what |-> "reaction", derived |-> TheJob.derived]
    /\ queue' = Tail(queue)
    /\ Ran(TheJob)
    /\ UNCHANGED <<promises, created, resolvers, calls, body, ended, fate, attached,
                   attempts, overflowed>>

\* The job's code returns: a reaction's derived promise is resolved with that.
JobReturns(v) ==
    /\ running # NoJob /\ ended = "no"
    /\ running' = NoJob
    /\ \/ /\ running.what = "reaction" /\ running.derived # NoPromise
          /\ Resolve(running.derived, v, queue)
          /\ FirstFate(running.derived, v)
       \/ /\ running.what = "then" \/ running.derived = NoPromise
          /\ UNCHANGED <<promises, queue, ended, fate>>
    /\ UNCHANGED <<created, resolvers, calls, body, attached, ran, attempts, overflowed>>

\* It throws: the derived or adopting promise is rejected; with none the throw
\* is the task's.
JobThrows ==
    /\ running # NoJob /\ ended = "no"
    /\ running' = NoJob
    /\ \/ /\ running.derived # NoPromise
          /\ Settle(running.derived, "rejected", PlainValue, queue)
          /\ FirstFate(running.derived, PlainValue)
       \/ /\ running.derived = NoPromise
          /\ ended' = "throw"
          /\ UNCHANGED <<promises, queue, fate>>
    /\ UNCHANGED <<created, resolvers, calls, body, attached, ran, attempts, overflowed>>

----------------------------------------------------------------------------
\* complete_call, for a call that is outstanding: the promise settles, and what
\* the queue had no room for is an error the caller ignores.
CompleteCall(p, outcome) ==
    /\ body # "runs" /\ running = NoJob /\ ended = "no"
    /\ Settled(p, outcome, PlainValue, queue)
    /\ calls' = calls \ {p}
    /\ overflowed' = (overflowed \/ Overflows(queue, SettleJobs(p, outcome, PlainValue)))
    /\ UNCHANGED <<created, resolvers, body, running, ended, fate, attached, ran, attempts>>

Handlers == {NoHandler, UserHandler}

Program ==
    \/ \E call \in BOOLEAN : NewPromise(call)
    \/ \E p \in created, f, r \in Handlers : Then(p, f, r)
    \/ \E p \in created : Await(p)
    \/ \E p \in resolvers, v \in Values : CallResolve(p, v)
    \/ \E p \in resolvers : CallReject(p)
    \/ \E throws \in BOOLEAN : BodyEnds(throws)
    \/ \E v \in Values : JobReturns(v)
    \/ JobThrows

RunJob ==
    \/ RunSettle
    \/ RunAdoptPromise
    \/ RunAdoptThenable
    \/ RunNative
    \/ RunHandler

Next ==
    \/ Program
    \/ SliceEnds
    \/ BodyResumes
    \/ RunJob
    \/ \E p \in calls, outcome \in {"fulfilled", "rejected"} : CompleteCall(p, outcome)

Spec == Init /\ [][Next]_pvars

----------------------------------------------------------------------------
\* A promise settles once: whoever settles it again, a resolve function called
\* twice, a throw after a resolve or a thenable that calls both of its
\* functions, changes neither its state nor its value.
SettlesOnce ==
    [][\A p \in Promise : state[p] # "pending" =>
            state'[p] = state[p] /\ value'[p] = value[p]]_pvars

Waiting(id) ==
    {w \in UNION {{p} \X (1 .. Len(reactions[p])) : p \in Promise} :
        reactions[w[1]][w[2]].id = id}
Queued(id)  == {n \in 1 .. Len(queue) : queue[n].id = id}
RunOf(id)   == {n \in 1 .. Len(ran) : ran[n] = id}

\* No reaction is lost and none runs twice: each waits on its promise while it
\* is pending, then is in the queue, then has run, unless a full queue ended
\* the task or cut a completion short.
ReactionsKept ==
    ended = "no" /\ ~overflowed =>
        \A id \in 1 .. Len(attached) :
            /\ Cardinality(Waiting(id)) + Cardinality(Queued(id))
                 + Cardinality(RunOf(id)) = 1
            /\ Waiting(id) # {} <=> state[attached[id].to] = "pending"

\* The reactions of one promise run in the order they were attached, whether
\* they waited for it or came after it had settled.
OrderKept ==
    \A m, n \in 1 .. Len(ran) :
        m < n /\ attached[ran[m]].to = attached[ran[n]].to => ran[m] < ran[n]

\* A reaction with no handler for the outcome passes it through: once it ran,
\* the derived promise has the state and the value of the one it came from.
PassesThrough ==
    \A n \in 1 .. Len(ran) :
        LET a == attached[ran[n]]
        IN  HandlerFor(state[a.to], a.reaction).kind = "none" =>
                /\ state[a.reaction.derived] = state[a.to]
                /\ value[a.reaction.derived] = value[a.to]

\* What becomes of every reaction.
ReactionsRun == TypeOK /\ ReactionsKept /\ OrderKept /\ PassesThrough

\* "It settles once; a later attempt changes nothing and says so, which is what
\* the specification's already-resolved flag does": a promise first resolved
\* with another settles as that one does, whatever is called afterwards.
FollowsFate ==
    \A p \in Promise : \A q \in fate[p] \ {p, NoPromise} :
        state[p] # "pending" => state[q] = state[p] /\ value[q] = value[p]

----------------------------------------------------------------------------
(* The job queue (modules/common/job.rs): a ring in storage a module owns. *)
(* The Queue itself lives for one step of the module; what a step saved    *)
(* is restored over the same slots by the next.                            *)

CONSTANTS
    Jobs,      \* jobs a machine may enqueue
    Capacity,  \* slots the module gave the queue, which may be none
    EmptyJob   \* what a slot holds before it is written

ASSUME JobQueueAssumption == Capacity \in Nat

Slots == 0 .. Capacity - 1

VARIABLES
    slots,   \* the storage
    ring,   \* head and length of the live Queue, or of what the step saved
    live,    \* a step has the queue
    answer   \* what the last operation answered

qvars == <<slots, ring, live, answer>>

\* The head is a slot of the ring; with no storage it stays where it began.
Ring == [head : Slots \cup {0}, length : 0 .. Capacity]

RingOK ==
    /\ slots \in [Slots -> Jobs \cup {EmptyJob}]
    /\ ring \in Ring
    /\ live \in BOOLEAN
    /\ answer \in Jobs \cup {EmptyJob, "none", "ok", "full"}

RingInit ==
    /\ slots = [s \in Slots |-> EmptyJob]
    /\ ring = [head |-> 0, length |-> 0]
    /\ live = FALSE
    /\ answer = "none"

\* agent begin and adopt: a queue over the slots, at the head and length the
\* last step saved.
BeginAfresh ==
    /\ ~live
    /\ live' = TRUE
    /\ ring' = [head |-> 0, length |-> ring.length]
    /\ UNCHANGED <<slots, answer>>

Begin ==
    /\ ~live
    /\ live' = TRUE
    /\ UNCHANGED <<slots, ring, answer>>

\* The step ends, and its queue is saved.
Save ==
    /\ live
    /\ live' = FALSE
    /\ UNCHANGED <<slots, ring, answer>>

At(index) == (ring.head + index) % Capacity

PushJob(job) ==
    /\ live
    /\ \/ /\ ring.length = Capacity
          /\ answer' = "full"
          /\ UNCHANGED <<slots, ring>>
       \/ /\ ring.length # Capacity
          /\ slots' = [slots EXCEPT ![At(ring.length)] = job]
          /\ ring' = [ring EXCEPT !.length = @ + 1]
          /\ answer' = "ok"
    /\ UNCHANGED live

Pop ==
    /\ live
    /\ \/ /\ ring.length = 0
          /\ answer' = "none"
          /\ UNCHANGED ring
       \/ /\ ring.length # 0
          /\ answer' = slots[ring.head]
          /\ ring' = [head |-> At(1), length |-> ring.length - 1]
    /\ UNCHANGED <<slots, live>>

RingNext == Begin \/ Save \/ Pop \/ \E job \in Jobs : PushJob(job)

RingSpec == RingInit /\ [][RingNext]_qvars

----------------------------------------------------------------------------
\* The jobs from the head on, round the end of the storage.
Contents == [n \in 1 .. ring.length |-> slots[At(n - 1)]]

F == INSTANCE Fifo WITH items <- Contents

\* The ring is a bounded first-in first-out queue: wherever its head stands,
\* however often it has gone round, and across the steps that save and restore
\* it, jobs come out as they went in and none is overwritten.
IsFifo == F!Spec
============================================================================
