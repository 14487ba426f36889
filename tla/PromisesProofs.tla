---------------------------- MODULE PromisesProofs ----------------------------
(***************************************************************************)
(* Promises and the ring of their jobs, for any number of promises,        *)
(* reactions and attempts, every set of jobs and every size of the queue:  *)
(* first promises over a queue, then the ring that implements it.          *)
(*                                                                         *)
(* Two things make a reaction run once, in its turn.  Where it is: waiting *)
(* on its promise while that is pending, then queued, then run, in the     *)
(* order of attachment across all three (Core, Placed).  And who may       *)
(* settle what it derives: the promise is named by no job, no reaction and *)
(* no function the program holds until the reaction has run (OwnDerived),  *)
(* so what a reaction with no handler passes on is not lost to another     *)
(* settler.  The invariant is a conjunction of predicates of the values    *)
(* the variables have, so that a lemma about an operation speaks of any    *)
(* queue: a job's step takes the job first and settles over the rest.      *)
(***************************************************************************)
EXTENDS Promises, FiniteSetTheorems, SequenceTheorems, WellFoundedInduction, TLAPS

-----------------------------------------------------------------------------
(* The invariant, as predicates of the values the variables have: st, va   *)
(* and re of state, value and reactions, q of a queue, rn of ran and at of *)
(* attached.                                                               *)

Attachments == [to : Promise, reaction : Reaction]

\* The reaction that follows a promise: native handlers for both outcomes.
Follows(r) ==
    r.id = 0 /\ r.on_fulfilled.kind = "resolve" /\ r.on_rejected.kind = "reject"

\* A job that is no reaction of the program's.
Internal(j) ==
    \/ j.kind = "Adopt" /\ j.derived \in Promise
    \/ j.kind = "Reaction" /\ j.handler.kind \in {"resolve", "reject"}

Pending(st, at, i) == st[at[i].to] = "pending"

\* What the program attached: it is known by its number, and leads to a job
\* whatever the outcome.
AttachedOk(at) ==
    /\ at \in Seq(Attachments) /\ Len(at) <= MaxReactions
    /\ \A i \in 1 .. Len(at) :
          /\ at[i].reaction.id = i
          /\ at[i].reaction.on_fulfilled \in Handlers /\ at[i].reaction.on_rejected \in Handlers
          /\ at[i].reaction.derived = NoPromise =>
                /\ at[i].reaction.on_fulfilled = UserHandler
                /\ at[i].reaction.on_rejected = UserHandler

\* What waits on a promise was attached to it, in that order, or follows it.
WaitsOk(re, at) ==
    \A p \in Promise : \A n \in 1 .. Len(re[p]) :
        \/ Follows(re[p][n])
        \/ /\ re[p][n].id \in 1 .. Len(at) /\ at[re[p][n].id].to = p
           /\ re[p][n] = at[re[p][n].id].reaction
WaitOrder(re) ==
    \A p \in Promise : \A i, j \in 1 .. Len(re[p]) :
        i < j /\ re[p][i].id > 0 /\ re[p][j].id > 0 => re[p][i].id < re[p][j].id

\* What is queued is the job of a reaction to a promise that has settled, with
\* its outcome, and what has run was.
JobsOk(st, va, q, at) ==
    \A n \in 1 .. Len(q) :
        \/ q[n].id = 0 /\ Internal(q[n])
        \/ /\ q[n].id \in 1 .. Len(at) /\ ~Pending(st, at, q[n].id)
           /\ q[n] = JobOf(st[at[q[n].id].to], va[at[q[n].id].to], at[q[n].id].reaction)
RanOk(st, rn, at) ==
    \A n \in 1 .. Len(rn) : rn[n] \in 1 .. Len(at) /\ ~Pending(st, at, rn[n])

\* The reactions of one promise have run, or are queued behind those that
\* have, in the order they were attached.
QueueOrder(q, at) ==
    \A i, j \in 1 .. Len(q) :
        i < j /\ q[i].id > 0 /\ q[j].id > 0 /\ at[q[i].id].to = at[q[j].id].to => q[i].id < q[j].id
RanFirst(q, rn, at) ==
    \A i \in 1 .. Len(rn), j \in 1 .. Len(q) :
        q[j].id > 0 /\ at[rn[i]].to = at[q[j].id].to => rn[i] < q[j].id
RanOrder(rn, at) ==
    \A i, j \in 1 .. Len(rn) : i < j /\ at[rn[i]].to = at[rn[j]].to => rn[i] < rn[j]

\* None is lost, where the queue has had room.
Placed(st, re, q, rn, at) ==
    \A i \in 1 .. Len(at) :
        IF Pending(st, at, i) THEN \E n \in 1 .. Len(re[at[i].to]) : re[at[i].to][n].id = i
        ELSE (\E n \in 1 .. Len(q) : q[n].id = i) \/ \E n \in 1 .. Len(rn) : rn[n] = i
Emptied(st, re) == \A p \in Promise : st[p] # "pending" => re[p] = <<>>

Passed(st, va, rn, at) ==
    \A n \in 1 .. Len(rn) :
        HandlerFor(st[at[rn[n]].to], at[rn[n]].reaction).kind = "none" =>
            /\ st[at[rn[n]].reaction.derived] = st[at[rn[n]].to]
            /\ va[at[rn[n]].reaction.derived] = va[at[rn[n]].to]

Typed(st, va, re, q, rn) ==
    /\ st \in [Promise -> States] /\ va \in [Promise -> Value] /\ re \in [Promise -> Seq(Reaction)]
    /\ q \in Seq(Job) /\ Len(q) <= JobCount /\ rn \in Seq(Nat)

Core(st, va, re, q, rn, at) ==
    /\ Typed(st, va, re, q, rn) /\ AttachedOk(at)
    /\ WaitsOk(re, at) /\ WaitOrder(re)
    /\ JobsOk(st, va, q, at) /\ RanOk(st, rn, at)
    /\ QueueOrder(q, at) /\ RanFirst(q, rn, at) /\ RanOrder(rn, at)

\* Who may settle a promise that is pending: x holds those the program and the
\* host may; the others are named by a job or a reaction.
Named(d, re, q) ==
    \/ \E n \in 1 .. Len(q) : (q[n].kind = "Adopt" /\ q[n].derived = d) \/ q[n].handler.of = d
    \/ \E p \in Promise : \E n \in 1 .. Len(re[p]) :
          re[p][n].on_fulfilled.of = d \/ re[p][n].on_rejected.of = d
Held(d, st, re, q, x) == st[d] # "pending" \/ Named(d, re, q) \/ d \in x

\* The promise a reaction derives is its own, and nobody settles it before the
\* reaction has run.
OwnDerived(st, re, q, rn, at, cr, x) ==
    /\ \A d \in Promise : d \notin cr => ~Held(d, st, re, q, x)
    /\ \A i \in 1 .. Len(at) : at[i].to \in cr /\ at[i].reaction.derived \in cr \cup {NoPromise}
    /\ \A i, j \in 1 .. Len(at) :
          i # j /\ at[i].reaction.derived = at[j].reaction.derived => at[i].reaction.derived = NoPromise
    /\ \A i \in 1 .. Len(at) :
          (\A n \in 1 .. Len(rn) : rn[n] # i) /\ at[i].reaction.derived # NoPromise
             => ~Held(at[i].reaction.derived, st, re, q, x)

\* The inductive invariant.
Settlers == resolvers \cup calls \cup {running.derived}
Roomy    == ended = "no" /\ ~overflowed

Others ==
    /\ created \subseteq Promise /\ resolvers \subseteq created /\ calls \subseteq created
    /\ body \in {"runs", "paused", "done"} /\ ended \in {"no", "quota", "throw"}
    /\ running \in [what : {"nothing", "reaction", "then"}, derived : Promise \cup {NoPromise}]
    /\ overflowed \in BOOLEAN

IInv ==
    /\ Others
    /\ Core(state, value, reactions, queue, ran, attached)
    /\ Passed(state, value, ran, attached)
    /\ OwnDerived(state, reactions, queue, ran, attached, created, Settlers)
    /\ Roomy => Placed(state, reactions, queue, ran, attached) /\ Emptied(state, reactions)

-----------------------------------------------------------------------------
(* Sequences.                                                              *)

LEMMA LeastOf ==
    ASSUME NEW T \in SUBSET Nat, T # {}
    PROVE  \E n \in T : \A k \in T : n <= k
<1> DEFINE R == OpToRel(<, Nat)
<1>1. IsWellFoundedOn(R, Nat)  BY NatLessThanWellFounded
<1>2. R = {s \in Nat \X Nat : s[1] < s[2]}  BY DEF OpToRel
<1> HIDE DEF R
<1>3. PICK n \in T : \A k \in T : ~(<<k, n>> \in R)  BY <1>1, WFMin
<1>4. \A k \in T : k \in Nat /\ (<<k, n>> \in R <=> k < n)  BY <1>2
<1>5. ASSUME NEW k \in T PROVE n <= k
  <2>1. k \in Nat /\ n \in Nat /\ ~(k < n)  BY <1>3, <1>4
  <2> QED BY <2>1
<1> QED BY <1>5

LEMMA DueAll ==
    ASSUME NEW outcome, NEW w \in Seq(Reaction), \A n \in 1 .. Len(w) : MakesJob(outcome, w[n])
    PROVE  Due(outcome, w) = w
<1> DEFINE L == 0 .. Len(w)
           Step(f, n) == IF n = 0 THEN <<>>
                         ELSE IF MakesJob(outcome, w[n]) THEN Append(f[n - 1], w[n]) ELSE f[n - 1]
           Built == CHOOSE f : f = [n \in L |-> Step(f, n)]
           G == [n \in L |-> SubSeq(w, 1, n)]
<1>1. Due(outcome, w) = Built[Len(w)]  BY DEF Due
<1>2. Len(w) \in Nat  OBVIOUS
<1>3. G = [n \in L |-> Step(G, n)]
  <2>1. ASSUME NEW n \in L PROVE G[n] = Step(G, n)
    <3>1. CASE n = 0  BY <3>1, <1>2
    <3>2. CASE n # 0
      <4>1. n \in 1 .. Len(w) /\ n - 1 \in L  BY <1>2, <3>2
      <4>2. Step(G, n) = Append(SubSeq(w, 1, n - 1), w[n])  BY <3>2, <4>1
      <4>3. Append(SubSeq(w, 1, n - 1), w[n]) = SubSeq(w, 1, n)  BY <4>1, <1>2
      <4> QED BY <4>2, <4>3
    <3> QED BY <3>1, <3>2
  <2> QED BY <2>1
<1>4. Built = [n \in L |-> Step(Built, n)]  BY <1>3
<1> HIDE DEF Built
<1>5. ASSUME NEW n \in L PROVE Built[n] = SubSeq(w, 1, n)
  <2> DEFINE Bad == {k \in L : Built[k] # SubSeq(w, 1, k)}
  <2>1. SUFFICES ASSUME Bad # {} PROVE FALSE  OBVIOUS
  <2>2. Bad \in SUBSET Nat  BY <1>2
  <2>3. PICK k \in Bad : \A j \in Bad : k <= j  BY <2>1, <2>2, LeastOf
  <2>4. CASE k = 0  BY <1>2, <1>4, <2>3, <2>4
  <2>5. CASE k # 0
    <3>1. k \in 1 .. Len(w) /\ k - 1 \in L /\ k - 1 < k  BY <1>2, <2>5
    <3>2. Built[k - 1] = SubSeq(w, 1, k - 1)  BY <2>3, <3>1
    <3>3. Built[k] = Append(SubSeq(w, 1, k - 1), w[k])  BY <1>4, <2>5, <3>1, <3>2
    <3>4. Append(SubSeq(w, 1, k - 1), w[k]) = SubSeq(w, 1, k)  BY <3>1, <1>2
    <3> QED BY <2>3, <3>3, <3>4
  <2> QED BY <2>4, <2>5
<1>6. SubSeq(w, 1, Len(w)) = w  OBVIOUS
<1> QED BY <1>1, <1>2, <1>5, <1>6

\* q2 is q with the first k of some jobs behind it.
Extended(q2, q, jobs, k) ==
    /\ q2 \in Seq(Job) /\ k \in 0 .. Len(jobs) /\ Len(q2) = Len(q) + k
    /\ \A n \in 1 .. Len(q) : q2[n] = q[n]
    /\ \A n \in 1 .. Len(q2) : n > Len(q) => n - Len(q) \in 1 .. k /\ q2[n] = jobs[n - Len(q)]

\* Pushing adds jobs in order, all of them unless the queue is full.
LEMMA PushExtends ==
    ASSUME PromisesAssumption, NEW q \in Seq(Job), Len(q) <= JobCount, NEW jobs \in Seq(Job), Push(q, jobs)
    PROVE  \E k \in 0 .. Len(jobs) :
              /\ Extended(queue', q, jobs, k) /\ Len(queue') <= JobCount
              /\ ~Overflows(q, jobs) => k = Len(jobs)
<1>1. JobCount \in Nat /\ Len(q) \in Nat /\ Len(jobs) \in Nat  BY DEF PromisesAssumption
<1>2. CASE Overflows(q, jobs)
  <2> DEFINE k == JobCount - Len(q)
  <2>1. k \in 0 .. Len(jobs)  BY <1>1, <1>2 DEF Overflows
  <2>2. queue' = q \o SubSeq(jobs, 1, k)  BY <1>2 DEF Push
  <2>3. SubSeq(jobs, 1, k) \in Seq(Job) /\ Len(SubSeq(jobs, 1, k)) = k
        /\ \A n \in 1 .. k : SubSeq(jobs, 1, k)[n] = jobs[n]
    BY <1>1, <2>1
  <2> HIDE DEF k
  <2> DEFINE t == SubSeq(jobs, 1, k)
  <2> HIDE DEF t
  <2>4. queue' = q \o t /\ t \in Seq(Job) /\ Len(t) = k /\ \A n \in 1 .. k : t[n] = jobs[n]
    BY <2>2, <2>3 DEF t
  <2>5. queue' \in Seq(Job) /\ Len(queue') = Len(q) + k
    <3>1. queue' = q \o t /\ t \in Seq(Job) /\ Len(t) = k  BY <2>4
    <3> QED BY <3>1, ConcatProperties
  <2>6. \A n \in 1 .. Len(q) : queue'[n] = q[n]  BY <1>1, <2>1, <2>4
  <2>7. ASSUME NEW n \in 1 .. Len(queue'), n > Len(q)
        PROVE  n - Len(q) \in 1 .. k /\ queue'[n] = jobs[n - Len(q)]
    <3>1. n - Len(q) \in 1 .. k  BY <1>1, <2>1, <2>5, <2>7
    <3>2. queue'[n] = t[n - Len(q)]  BY <1>1, <2>1, <2>4, <2>5, <2>7
    <3> QED BY <2>4, <3>1, <3>2
  <2>8. Extended(queue', q, jobs, k)  BY <2>1, <2>5, <2>6, <2>7 DEF Extended
  <2>9. Len(queue') <= JobCount  BY <1>1, <2>5 DEF k
  <2> QED BY <1>2, <2>1, <2>8, <2>9
<1>3. CASE ~Overflows(q, jobs)
  <2>1. queue' = q \o jobs  BY <1>3 DEF Push
  <2>2. queue' \in Seq(Job) /\ Len(queue') = Len(q) + Len(jobs)  BY <1>1, <2>1
  <2>3. \A n \in 1 .. Len(q) : queue'[n] = q[n]  BY <1>1, <2>1
  <2>4. ASSUME NEW n \in 1 .. Len(queue'), n > Len(q)
        PROVE  n - Len(q) \in 1 .. Len(jobs) /\ queue'[n] = jobs[n - Len(q)]
    BY <1>1, <2>1, <2>2, <2>4
  <2>5. Extended(queue', q, jobs, Len(jobs))  BY <1>1, <2>2, <2>3, <2>4 DEF Extended
  <2>6. Len(queue') <= JobCount  BY <1>1, <1>3, <2>2 DEF Overflows
  <2>7. Len(jobs) \in 0 .. Len(jobs)  BY <1>1
  <2> QED BY <2>5, <2>6, <2>7
<1> QED BY <1>2, <1>3

\* Every reaction there is becomes a job.
Makes(r) == \A outcome \in {"fulfilled", "rejected"} : MakesJob(outcome, r)

LEMMA KindsMake ==
    ASSUME PromisesAssumption, NEW r \in Reaction,
           \/ Follows(r)
           \/ /\ r.on_fulfilled \in Handlers /\ r.on_rejected \in Handlers
              /\ r.derived = NoPromise => r.on_fulfilled = UserHandler /\ r.on_rejected = UserHandler
    PROVE  Makes(r)
BY DEF Makes, MakesJob, HandlerFor, Follows, Handlers, UserHandler, NoHandler

LEMMA JobOfType ==
    ASSUME PromisesAssumption, NEW r \in Reaction, NEW outcome \in {"fulfilled", "rejected"}, NEW v \in Value
    PROVE  /\ JobOf(outcome, v, r) \in Job /\ HandlerFor(outcome, r) \in Handler
           /\ JobOf(outcome, v, r).id = r.id
           /\ JobOf(outcome, v, r).handler = HandlerFor(outcome, r)
           /\ JobOf(outcome, v, r).derived = r.derived
           /\ JobOf(outcome, v, r).kind \in {"Settle", "Reaction"}
<1>1. HandlerFor(outcome, r) \in Handler  BY DEF HandlerFor, Reaction
<1> QED BY <1>1 DEF JobOf, Job, Reaction, States

LEMMA JobsOfAll ==
    ASSUME PromisesAssumption, NEW outcome \in {"fulfilled", "rejected"}, NEW v \in Value,
           NEW w \in Seq(Reaction), \A n \in 1 .. Len(w) : Makes(w[n])
    PROVE  /\ JobsOf(outcome, v, w) \in Seq(Job) /\ Len(JobsOf(outcome, v, w)) = Len(w)
           /\ \A n \in 1 .. Len(w) : JobsOf(outcome, v, w)[n] = JobOf(outcome, v, w[n])
<1>1. Due(outcome, w) = w  BY DueAll DEF Makes
<1>2. JobsOf(outcome, v, w) = [n \in DOMAIN w |-> JobOf(outcome, v, w[n])]  BY <1>1 DEF JobsOf
<1>3. DOMAIN w = 1 .. Len(w) /\ \A n \in 1 .. Len(w) : w[n] \in Reaction  OBVIOUS
<1>4. \A n \in 1 .. Len(w) : JobOf(outcome, v, w[n]) \in Job  BY <1>3, JobOfType
<1> HIDE DEF JobOf
<1>5. JobsOf(outcome, v, w) = [n \in 1 .. Len(w) |-> JobOf(outcome, v, w[n])]  BY <1>2, <1>3
<1> QED BY <1>4, <1>5

-----------------------------------------------------------------------------
(* Settling a promise.                                                     *)

LEMMA AttachmentType ==
    ASSUME NEW at \in Seq(Attachments)
    PROVE  \A i \in 1 .. Len(at) :
              /\ at[i] \in Attachments /\ at[i].to \in Promise /\ at[i].reaction \in Reaction
              /\ at[i].reaction.derived \in Promise \cup {NoPromise}
<1>1. ASSUME NEW i \in 1 .. Len(at)
      PROVE  at[i].to \in Promise /\ at[i].reaction \in Reaction
             /\ at[i].reaction.derived \in Promise \cup {NoPromise}
  <2>1. at[i] \in Attachments  OBVIOUS
  <2>2. at[i].to \in Promise /\ at[i].reaction \in Reaction  BY <2>1 DEF Attachments
  <2> QED BY <2>2 DEF Reaction
<1> QED BY <1>1

LEMMA WaitingMakes ==
    ASSUME PromisesAssumption, NEW re \in [Promise -> Seq(Reaction)], NEW at, AttachedOk(at), WaitsOk(re, at),
           NEW p \in Promise
    PROVE  \A n \in 1 .. Len(re[p]) : re[p][n] \in Reaction /\ Makes(re[p][n])
<1>1. ASSUME NEW n \in 1 .. Len(re[p]) PROVE re[p][n] \in Reaction /\ Makes(re[p][n])
  <2>1. re[p] \in Seq(Reaction) /\ re[p][n] \in Reaction  OBVIOUS
  <2>2. CASE Follows(re[p][n])  BY <2>1, <2>2, KindsMake
  <2>3. CASE re[p][n].id \in 1 .. Len(at) /\ re[p][n] = at[re[p][n].id].reaction
    BY <2>1, <2>3, KindsMake DEF AttachedOk
  <2> QED BY <2>1, <2>2, <2>3 DEF WaitsOk
<1> QED BY <1>1

LEMMA WaitingJobs ==
    ASSUME PromisesAssumption, NEW re \in [Promise -> Seq(Reaction)], NEW at, AttachedOk(at), WaitsOk(re, at),
           NEW p \in Promise, NEW outcome \in {"fulfilled", "rejected"}, NEW v \in Value
    PROVE  /\ JobsOf(outcome, v, re[p]) \in Seq(Job) /\ Len(JobsOf(outcome, v, re[p])) = Len(re[p])
           /\ \A n \in 1 .. Len(re[p]) :
                 /\ JobsOf(outcome, v, re[p])[n] = JobOf(outcome, v, re[p][n])
                 /\ JobsOf(outcome, v, re[p])[n].id = re[p][n].id
<1>1. \A n \in 1 .. Len(re[p]) : re[p][n] \in Reaction /\ Makes(re[p][n])  BY WaitingMakes
<1>2. re[p] \in Seq(Reaction)  OBVIOUS
<1>3. /\ JobsOf(outcome, v, re[p]) \in Seq(Job) /\ Len(JobsOf(outcome, v, re[p])) = Len(re[p])
      /\ \A n \in 1 .. Len(re[p]) : JobsOf(outcome, v, re[p])[n] = JobOf(outcome, v, re[p][n])
  BY <1>1, <1>2, JobsOfAll
<1>4. \A n \in 1 .. Len(re[p]) : JobOf(outcome, v, re[p][n]).id = re[p][n].id  BY <1>1, JobOfType
<1>5. \A n \in 1 .. Len(re[p]) : JobsOf(outcome, v, re[p])[n].id = re[p][n].id  BY ONLY <1>3, <1>4
<1> QED BY ONLY <1>3, <1>5

\* Settling a promise that is pending, with the jobs that fit in the queue.
LEMMA SettleCore ==
    ASSUME PromisesAssumption,
           NEW st, NEW va, NEW re, NEW q, NEW rn, NEW at, Core(st, va, re, q, rn, at),
           NEW p \in Promise, st[p] = "pending",
           NEW outcome \in {"fulfilled", "rejected"}, NEW v \in Value,
           NEW e, e = re[p] \/ e = <<>>,
           NEW q2, NEW k, Extended(q2, q, JobsOf(outcome, v, re[p]), k), Len(q2) <= JobCount
    PROVE  Core([st EXCEPT ![p] = outcome], [va EXCEPT ![p] = v], [re EXCEPT ![p] = e], q2, rn, at)
<1> DEFINE st2 == [st EXCEPT ![p] = outcome]
           va2 == [va EXCEPT ![p] = v]
           re2 == [re EXCEPT ![p] = e]
           jobs == JobsOf(outcome, v, re[p])
<1>1. /\ st \in [Promise -> States] /\ va \in [Promise -> Value] /\ re \in [Promise -> Seq(Reaction)]
      /\ q \in Seq(Job) /\ rn \in Seq(Nat) /\ at \in Seq(Attachments) /\ AttachedOk(at) /\ WaitsOk(re, at)
  BY DEF Core, Typed, AttachedOk
<1>2. /\ Len(jobs) = Len(re[p])
      /\ \A n \in 1 .. Len(re[p]) : jobs[n] = JobOf(outcome, v, re[p][n]) /\ jobs[n].id = re[p][n].id
  BY <1>1, WaitingJobs
<1>3. /\ \A n \in 1 .. Len(q) : q2[n] = q[n]
      /\ \A n \in 1 .. Len(q2) :
            n > Len(q) => n - Len(q) \in 1 .. Len(re[p]) /\ q2[n] = jobs[n - Len(q)]
      /\ Len(q) \in Nat /\ Len(q2) \in Nat /\ Len(re[p]) \in Nat /\ q2 \in Seq(Job)
  BY <1>1, <1>2 DEF Extended
<1>4. \A i \in 1 .. Len(at) : at[i].to \in Promise  BY <1>1, AttachmentType
<1>5. /\ st2 \in [Promise -> States] /\ va2 \in [Promise -> Value] /\ re2 \in [Promise -> Seq(Reaction)]
      /\ st2[p] = outcome /\ va2[p] = v /\ re2[p] = e
      /\ \A o \in Promise : o # p => st2[o] = st[o] /\ va2[o] = va[o] /\ re2[o] = re[o]
  <2>1. re[p] \in Seq(Reaction)  BY <1>1
  <2>2. <<>> \in Seq(Reaction)  OBVIOUS
  <2>3. e \in Seq(Reaction)  BY <2>1, <2>2
  <2> QED BY <1>1, <2>3 DEF States
<1> HIDE DEF st2, va2, re2, jobs
<1>6. Typed(st2, va2, re2, q2, rn)  BY <1>1, <1>3, <1>5 DEF Typed
<1>7. WaitsOk(re2, at) /\ WaitOrder(re2)
  <2>1. e = re[p] \/ Len(e) = 0  OBVIOUS
  <2>2. \A o \in Promise : re2[o] = re[o] \/ Len(re2[o]) = 0  BY <1>5, <2>1
  <2>3. WaitsOk(re, at) /\ WaitOrder(re)  BY DEF Core
  <2>4. ASSUME NEW o \in Promise, NEW n \in 1 .. Len(re2[o]) PROVE re2[o] = re[o] /\ n \in 1 .. Len(re[o])
    BY <2>2
  <2>5. WaitsOk(re2, at)  BY <2>3, <2>4 DEF WaitsOk
  <2>6. WaitOrder(re2)  BY <2>3, <2>4 DEF WaitOrder
  <2> QED BY <2>5, <2>6
\* A reaction that is queued or has run is one to another promise.
<1>8. \A i \in 1 .. Len(at) : ~Pending(st, at, i) => at[i].to # p /\ ~Pending(st2, at, i)
  BY <1>4, <1>5 DEF Pending
<1>9. \A i \in 1 .. Len(at) : at[i].to = p => ~Pending(st2, at, i)
  BY <1>5 DEF Pending
<1>10. ASSUME NEW n \in 1 .. Len(q2)
       PROVE  \/ n \in 1 .. Len(q) /\ q2[n] = q[n]
              \/ q2[n].id = 0 /\ Internal(q2[n])
              \/ /\ n > Len(q) /\ n - Len(q) \in 1 .. Len(re[p])
                 /\ q2[n].id = re[p][n - Len(q)].id
                 /\ q2[n].id \in 1 .. Len(at) /\ at[q2[n].id].to = p
                 /\ q2[n] = JobOf(outcome, v, at[q2[n].id].reaction)
  <2>1. CASE n <= Len(q)  BY <1>3, <2>1
  <2>2. CASE n > Len(q)
    <3> DEFINE r == re[p][n - Len(q)]
    <3>1. n - Len(q) \in 1 .. Len(re[p]) /\ q2[n] = JobOf(outcome, v, r) /\ q2[n].id = r.id
      BY <1>2, <1>3, <2>2
    <3>2. r \in Reaction  BY <1>1, <3>1
    <3>3. CASE Follows(r)
      <4>1. q2[n].handler.kind \in {"resolve", "reject"}
        BY <3>1, <3>2, <3>3, JobOfType DEF Follows, HandlerFor
      <4>2. q2[n].kind = "Reaction"
        BY <3>1, <4>1 DEF JobOf
      <4> QED BY <3>1, <3>3, <4>1, <4>2 DEF Internal, Follows
    <3>4. CASE ~Follows(r)
      <4>1. r.id \in 1 .. Len(at) /\ at[r.id].to = p /\ r = at[r.id].reaction
        BY <1>1, <3>1, <3>4 DEF WaitsOk
      <4> QED BY <2>2, <3>1, <4>1
    <3> QED BY <3>3, <3>4
  <2> QED BY <1>3, <2>1, <2>2
<1>11. JobsOk(st2, va2, q2, at)
  <2>1. ASSUME NEW n \in 1 .. Len(q2)
        PROVE  \/ q2[n].id = 0 /\ Internal(q2[n])
               \/ /\ q2[n].id \in 1 .. Len(at) /\ ~Pending(st2, at, q2[n].id)
                  /\ q2[n] = JobOf(st2[at[q2[n].id].to], va2[at[q2[n].id].to], at[q2[n].id].reaction)
    <3>1. CASE n \in 1 .. Len(q) /\ q2[n] = q[n] /\ ~(q[n].id = 0 /\ Internal(q[n]))
      <4>1. /\ q[n].id \in 1 .. Len(at) /\ ~Pending(st, at, q[n].id)
            /\ q[n] = JobOf(st[at[q[n].id].to], va[at[q[n].id].to], at[q[n].id].reaction)
        BY <3>1 DEF Core, JobsOk
      <4>2. at[q[n].id].to # p /\ at[q[n].id].to \in Promise /\ ~Pending(st2, at, q[n].id)
        BY <1>4, <1>8, <4>1
      <4> QED BY <1>5, <3>1, <4>1, <4>2
    <3>2. CASE /\ q2[n].id \in 1 .. Len(at) /\ at[q2[n].id].to = p
               /\ q2[n] = JobOf(outcome, v, at[q2[n].id].reaction)
      BY <1>5, <1>9, <3>2
    <3> QED BY <1>10, <3>1, <3>2
  <2> QED BY <2>1 DEF JobsOk
<1>12. RanOk(st2, rn, at)  BY <1>8 DEF Core, RanOk
<1>13. QueueOrder(q2, at)
  <2>1. ASSUME NEW i \in 1 .. Len(q2), NEW j \in 1 .. Len(q2), i < j, q2[i].id > 0, q2[j].id > 0,
               at[q2[i].id].to = at[q2[j].id].to
        PROVE  q2[i].id < q2[j].id
    <3>1. CASE j \in 1 .. Len(q) /\ i \in 1 .. Len(q)
      BY <1>3, <2>1, <3>1 DEF Core, QueueOrder
    <3>2. CASE j \notin 1 .. Len(q) /\ i \notin 1 .. Len(q)
      <4>0. i \in 1 .. Len(q2) /\ j \in 1 .. Len(q2)  OBVIOUS
      <4>1a. i - Len(q) \in 1 .. Len(re[p]) /\ q2[i].id = re[p][i - Len(q)].id  BY ONLY <1>3, <1>10, <2>1, <3>2, <4>0
      <4>1b. j - Len(q) \in 1 .. Len(re[p]) /\ q2[j].id = re[p][j - Len(q)].id  BY ONLY <1>3, <1>10, <2>1, <3>2, <4>0
      <4>1. /\ i - Len(q) \in 1 .. Len(re[p]) /\ q2[i].id = re[p][i - Len(q)].id
            /\ j - Len(q) \in 1 .. Len(re[p]) /\ q2[j].id = re[p][j - Len(q)].id
        BY ONLY <4>1a, <4>1b
      <4>2. i - Len(q) < j - Len(q)  BY <1>3, <2>1
      <4> QED BY <2>1, <4>1, <4>2 DEF Core, WaitOrder
    <3>3. CASE j \notin 1 .. Len(q) /\ i \in 1 .. Len(q)
      <4>1. at[q2[j].id].to = p  BY <1>10, <2>1, <3>3
      <4>2. q2[i] = q[i]  BY <1>3, <3>3
      <4>3. q[i].id \in 1 .. Len(at) /\ ~Pending(st, at, q[i].id)
        BY <2>1, <3>3, <4>2 DEF Core, JobsOk
      <4> QED BY <1>8, <2>1, <4>1, <4>2, <4>3
    <3>4. CASE j \in 1 .. Len(q) /\ i \notin 1 .. Len(q)  BY <1>3, <2>1, <3>4
    <3> QED BY <3>1, <3>2, <3>3, <3>4
  <2> QED BY <2>1 DEF QueueOrder
<1>14. RanFirst(q2, rn, at)
  <2>1. ASSUME NEW i \in 1 .. Len(rn), NEW j \in 1 .. Len(q2), q2[j].id > 0, at[rn[i]].to = at[q2[j].id].to
        PROVE  rn[i] < q2[j].id
    <3>1. CASE j \in 1 .. Len(q)
      BY <1>3, <2>1, <3>1 DEF Core, RanFirst
    <3>2. CASE j \notin 1 .. Len(q)
      <4>1. at[q2[j].id].to = p  BY <1>10, <2>1, <3>2
      <4>2. rn[i] \in 1 .. Len(at) /\ ~Pending(st, at, rn[i])  BY DEF Core, RanOk
      <4> QED BY <1>8, <2>1, <4>1, <4>2
    <3> QED BY <3>1, <3>2
  <2> QED BY <2>1 DEF RanFirst
<1>15. Core(st2, va2, re2, q2, rn, at)
  BY <1>6, <1>7, <1>11, <1>12, <1>13, <1>14 DEF Core
<1> QED BY <1>15 DEF st2, va2, re2

\* What passed an outcome on has passed it on for good.
LEMMA SettlePassed ==
    ASSUME NEW st, NEW va, NEW re, NEW q, NEW rn, NEW at, Core(st, va, re, q, rn, at), Passed(st, va, rn, at),
           NEW p \in Promise, st[p] = "pending", NEW outcome \in {"fulfilled", "rejected"}, NEW v \in Value
    PROVE  Passed([st EXCEPT ![p] = outcome], [va EXCEPT ![p] = v], rn, at)
<1> DEFINE st2 == [st EXCEPT ![p] = outcome]
           va2 == [va EXCEPT ![p] = v]
<1>1. st \in [Promise -> States] /\ va \in [Promise -> Value] /\ at \in Seq(Attachments) /\ AttachedOk(at)
  BY DEF Core, Typed, AttachedOk
<1>2. \A i \in 1 .. Len(at) :
        at[i].to \in Promise /\ at[i].reaction.derived \in Promise \cup {NoPromise}
  BY <1>1, AttachmentType
<1>3. \A o \in Promise : o # p => st2[o] = st[o] /\ va2[o] = va[o]  BY <1>1
<1> HIDE DEF st2, va2
<1>4. Passed(st2, va2, rn, at)
  <2>1. ASSUME NEW n \in 1 .. Len(rn), HandlerFor(st2[at[rn[n]].to], at[rn[n]].reaction).kind = "none"
        PROVE  /\ st2[at[rn[n]].reaction.derived] = st2[at[rn[n]].to]
               /\ va2[at[rn[n]].reaction.derived] = va2[at[rn[n]].to]
    <3> DEFINE to == at[rn[n]].to
               d == at[rn[n]].reaction.derived
    <3>1. rn[n] \in 1 .. Len(at) /\ ~Pending(st, at, rn[n])  BY DEF Core, RanOk
    <3>2. to \in Promise /\ to # p /\ st[to] # "pending"  BY <1>2, <3>1 DEF Pending
    <3>3. st2[to] = st[to] /\ va2[to] = va[to]  BY <1>3, <3>2
    <3>4. st[d] = st[to] /\ va[d] = va[to]  BY <2>1, <3>3 DEF Passed
    <3>5. d \in Promise
      <4>2. d \in Promise \cup {NoPromise}  BY <1>2, <3>1
      <4>3. d # NoPromise
        <5>1. HandlerFor(st[to], at[rn[n]].reaction).kind = "none"  BY <2>1, <3>3
        <5>2. d = NoPromise => HandlerFor(st[to], at[rn[n]].reaction).kind = "user"
          BY <1>1, <3>1 DEF AttachedOk, HandlerFor, UserHandler
        <5> QED BY <5>1, <5>2
      <4> QED BY <4>2, <4>3
    <3>6. d # p  BY <3>2, <3>4
    <3>7. st2[d] = st[d] /\ va2[d] = va[d]  BY <1>3, <3>5, <3>6
    <3> QED BY <3>3, <3>4, <3>7
  <2> QED BY <2>1 DEF Passed
<1> QED BY <1>4 DEF st2, va2

\* Settling names no promise that was not named before.
LEMMA SettleHeld ==
    ASSUME PromisesAssumption,
           NEW st, NEW va, NEW re, NEW q, NEW rn, NEW at, Core(st, va, re, q, rn, at),
           NEW p \in Promise, NEW outcome \in {"fulfilled", "rejected"}, NEW v \in Value,
           NEW e, e = re[p] \/ e = <<>>,
           NEW q2, NEW k, Extended(q2, q, JobsOf(outcome, v, re[p]), k),
           NEW x, NEW d \in Promise, Held(d, [st EXCEPT ![p] = outcome], [re EXCEPT ![p] = e], q2, x)
    PROVE  d = p \/ Held(d, st, re, q, x)
<1> DEFINE st2 == [st EXCEPT ![p] = outcome]
           re2 == [re EXCEPT ![p] = e]
           jobs == JobsOf(outcome, v, re[p])
<1>1. /\ st \in [Promise -> States] /\ re \in [Promise -> Seq(Reaction)]
      /\ q \in Seq(Job) /\ AttachedOk(at) /\ WaitsOk(re, at)
  BY DEF Core, Typed
<1>2. /\ Len(jobs) = Len(re[p])
      /\ \A n \in 1 .. Len(re[p]) : jobs[n] = JobOf(outcome, v, re[p][n])
  BY <1>1, WaitingJobs
<1>3. /\ \A n \in 1 .. Len(q) : q2[n] = q[n]
      /\ \A n \in 1 .. Len(q2) :
            n > Len(q) => n - Len(q) \in 1 .. Len(re[p]) /\ q2[n] = jobs[n - Len(q)]
      /\ Len(q) \in Nat /\ Len(q2) \in Nat /\ Len(re[p]) \in Nat
  BY <1>1, <1>2 DEF Extended
<1>4. \A o \in Promise : re2[o] = re[o] \/ Len(re2[o]) = 0
  <2>1. e = re[p] \/ Len(e) = 0  OBVIOUS
  <2> QED BY <1>1, <2>1
<1>5. \A o \in Promise : o # p => st2[o] = st[o]  BY <1>1
<1>6. Held(d, st2, re2, q2, x)  OBVIOUS
<1> HIDE DEF st2, re2, jobs
<1>7. CASE st2[d] # "pending"  BY <1>5, <1>7 DEF Held
<1>8. CASE d \in x  BY <1>8 DEF Held
<1>9. ASSUME NEW n \in 1 .. Len(q2), (q2[n].kind = "Adopt" /\ q2[n].derived = d) \/ q2[n].handler.of = d
      PROVE  Named(d, re, q)
  <2>1. CASE n <= Len(q)
    <3>1. n \in 1 .. Len(q) /\ q2[n] = q[n]  BY <1>3, <2>1
    <3> QED BY <1>9, <3>1 DEF Named
  <2>2. CASE n > Len(q)
    <3> DEFINE m == n - Len(q)
    <3>1. m \in 1 .. Len(re[p]) /\ q2[n] = JobOf(outcome, v, re[p][m])  BY <1>2, <1>3, <2>2
    <3>2. re[p][m] \in Reaction
      <4>1. re[p] \in Seq(Reaction)  BY <1>1
      <4> QED BY <3>1, <4>1
    <3>3. q2[n].kind # "Adopt" /\ q2[n].handler = HandlerFor(outcome, re[p][m])
      BY <3>1, <3>2, JobOfType
    <3>4. re[p][m].on_fulfilled.of = d \/ re[p][m].on_rejected.of = d
      BY <1>9, <3>3 DEF HandlerFor
    <3> HIDE DEF m
    <3> QED BY <3>1, <3>4 DEF Named
  <2> QED BY <1>3, <2>1, <2>2
<1>10. ASSUME NEW o \in Promise, NEW n \in 1 .. Len(re2[o]),
              re2[o][n].on_fulfilled.of = d \/ re2[o][n].on_rejected.of = d
       PROVE  Named(d, re, q)
  <2>1. re2[o] = re[o]  BY <1>4
  <2> QED BY <1>10, <2>1 DEF Named
<1>11. CASE Named(d, re2, q2)
  <2>1. Named(d, re, q)  BY <1>9, <1>10, <1>11 DEF Named
  <2> QED BY <2>1 DEF Held
<1> QED BY <1>6, <1>7, <1>8, <1>11 DEF Held

\* Every reaction that waited is in the queue, where it had room.
LEMMA SettlePlaced ==
    ASSUME PromisesAssumption,
           NEW st, NEW va, NEW re, NEW q, NEW rn, NEW at, Core(st, va, re, q, rn, at), Placed(st, re, q, rn, at),
           NEW p \in Promise, st[p] = "pending",
           NEW outcome \in {"fulfilled", "rejected"}, NEW v \in Value,
           NEW q2, Extended(q2, q, JobsOf(outcome, v, re[p]), Len(JobsOf(outcome, v, re[p])))
    PROVE  Placed([st EXCEPT ![p] = outcome], [re EXCEPT ![p] = <<>>], q2, rn, at)
<1> DEFINE st2 == [st EXCEPT ![p] = outcome]
           re2 == [re EXCEPT ![p] = <<>>]
           jobs == JobsOf(outcome, v, re[p])
<1>1. /\ st \in [Promise -> States] /\ re \in [Promise -> Seq(Reaction)]
      /\ q \in Seq(Job) /\ at \in Seq(Attachments) /\ AttachedOk(at) /\ WaitsOk(re, at)
  BY DEF Core, Typed, AttachedOk
<1>2. /\ Len(jobs) = Len(re[p])
      /\ \A n \in 1 .. Len(re[p]) : jobs[n] = JobOf(outcome, v, re[p][n]) /\ jobs[n].id = re[p][n].id
  BY <1>1, WaitingJobs
<1>3. /\ \A n \in 1 .. Len(q) : q2[n] = q[n]
      /\ \A n \in 1 .. Len(q2) : n > Len(q) => q2[n] = jobs[n - Len(q)]
      /\ Len(q) \in Nat /\ Len(re[p]) \in Nat /\ Len(q2) = Len(q) + Len(re[p])
  BY <1>1, <1>2 DEF Extended
<1>4. \A i \in 1 .. Len(at) : at[i].to \in Promise  BY <1>1, AttachmentType
<1>5. /\ st2[p] = outcome /\ re2[p] = <<>>
      /\ \A o \in Promise : o # p => st2[o] = st[o] /\ re2[o] = re[o]
  BY <1>1
<1> HIDE DEF st2, re2, jobs
<1>6. ASSUME NEW i \in 1 .. Len(at)
      PROVE  IF Pending(st2, at, i)
             THEN \E n \in 1 .. Len(re2[at[i].to]) : re2[at[i].to][n].id = i
             ELSE (\E n \in 1 .. Len(q2) : q2[n].id = i) \/ \E n \in 1 .. Len(rn) : rn[n] = i
  <2>1. CASE at[i].to = p
    <3>1. PICK n \in 1 .. Len(re[p]) : re[p][n].id = i  BY <2>1 DEF Placed, Pending
    <3>2. Len(q) + n \in 1 .. Len(q2) /\ Len(q) + n > Len(q) /\ (Len(q) + n) - Len(q) = n  BY <1>3
    <3>3. q2[Len(q) + n] = jobs[n]  BY <1>3, <3>2
    <3>4. q2[Len(q) + n].id = i  BY <1>2, <3>1, <3>3
    <3>5. ~Pending(st2, at, i)  BY <1>5, <2>1 DEF Pending
    <3> QED BY <3>2, <3>4, <3>5
  <2>2. CASE at[i].to # p
    <3>1. re2[at[i].to] = re[at[i].to] /\ (Pending(st2, at, i) <=> Pending(st, at, i))
      BY <1>4, <1>5, <2>2 DEF Pending
    <3>2. CASE Pending(st, at, i)  BY <3>1, <3>2 DEF Placed
    <3>3. CASE ~Pending(st, at, i)
      <4>1. (\E n \in 1 .. Len(q) : q[n].id = i) \/ \E n \in 1 .. Len(rn) : rn[n] = i
        BY <3>3 DEF Placed
      <4>2. ASSUME NEW n \in 1 .. Len(q), q[n].id = i PROVE \E m \in 1 .. Len(q2) : q2[m].id = i
        <5>1. n \in 1 .. Len(q2) /\ q2[n] = q[n]  BY <1>3
        <5> QED BY <4>2, <5>1
      <4> QED BY <3>1, <3>3, <4>1, <4>2
    <3> QED BY <3>2, <3>3
  <2> QED BY <2>1, <2>2
<1>7. Placed(st2, re2, q2, rn, at)  BY <1>6 DEF Placed
<1> QED BY <1>7 DEF st2, re2

-----------------------------------------------------------------------------
(* Taking a job.                                                           *)

LEMMA TailIs ==
    ASSUME NEW q \in Seq(Job), q # <<>>
    PROVE  /\ Tail(q) \in Seq(Job) /\ Len(q) \in Nat /\ Len(q) > 0 /\ Len(Tail(q)) = Len(q) - 1
           /\ Head(q) = q[1] /\ Head(q) \in Job /\ 1 \in 1 .. Len(q)
           /\ \A n \in 1 .. Len(Tail(q)) : n + 1 \in 1 .. Len(q) /\ Tail(q)[n] = q[n + 1]
<1>1. Len(q) \in Nat /\ Len(q) > 0  OBVIOUS
<1>2. Tail(q) \in Seq(Job) /\ Len(Tail(q)) = Len(q) - 1  BY <1>1
<1>3. Head(q) = q[1] /\ Head(q) \in Job /\ 1 \in 1 .. Len(q)  BY <1>1
<1>4. ASSUME NEW n \in 1 .. Len(Tail(q)) PROVE n + 1 \in 1 .. Len(q) /\ Tail(q)[n] = q[n + 1]
  BY <1>1, <1>2
<1> QED BY <1>1, <1>2, <1>3, <1>4

LEMMA PopCore ==
    ASSUME PromisesAssumption,
           NEW st, NEW va, NEW re, NEW q, NEW rn, NEW at, Core(st, va, re, q, rn, at), q # <<>>
    PROVE  Core(st, va, re, Tail(q), rn, at)
<1> DEFINE t == Tail(q)
<1>1. q \in Seq(Job) /\ Len(q) <= JobCount /\ JobCount \in Nat  BY DEF Core, Typed, PromisesAssumption
<1>2. /\ t \in Seq(Job) /\ Len(q) \in Nat /\ Len(t) = Len(q) - 1
      /\ \A n \in 1 .. Len(t) : n + 1 \in 1 .. Len(q) /\ t[n] = q[n + 1]
  BY <1>1, TailIs
<1> HIDE DEF t
<1>3. Typed(st, va, re, t, rn)
  <2>1. Len(t) <= JobCount  BY <1>1, <1>2
  <2> QED BY <1>2, <2>1 DEF Core, Typed
<1>4. JobsOk(st, va, t, at)  BY <1>2 DEF Core, JobsOk
<1>5. QueueOrder(t, at)
  <2>1. \A i, j \in 1 .. Len(t) : i < j => i + 1 < j + 1  OBVIOUS
  <2> QED BY <1>2, <2>1 DEF Core, QueueOrder
<1>6. RanFirst(t, rn, at)  BY <1>2 DEF Core, RanFirst
<1>7. Core(st, va, re, t, rn, at)  BY <1>3, <1>4, <1>5, <1>6 DEF Core
<1> QED BY <1>7 DEF t

\* The job runs: what is queued comes after it, and what has run, before.
LEMMA RanCore ==
    ASSUME PromisesAssumption,
           NEW st, NEW va, NEW re, NEW q, NEW rn, NEW at, Core(st, va, re, q, rn, at), q # <<>>, Head(q).id > 0
    PROVE  Core(st, va, re, Tail(q), Append(rn, Head(q).id), at)
<1> DEFINE t == Tail(q)
           id == Head(q).id
           rn2 == Append(rn, id)
<1>1. q \in Seq(Job) /\ rn \in Seq(Nat) /\ Len(rn) \in Nat  BY DEF Core, Typed
<1>2. /\ t \in Seq(Job) /\ Len(q) \in Nat /\ Len(t) = Len(q) - 1 /\ 1 \in 1 .. Len(q) /\ id = q[1].id
      /\ \A n \in 1 .. Len(t) : n + 1 \in 1 .. Len(q) /\ t[n] = q[n + 1]
  BY <1>1, TailIs
<1>3. Core(st, va, re, t, rn, at)  BY PopCore
<1>4. id \in 1 .. Len(at) /\ ~Pending(st, at, id) /\ id > 0
  BY <1>2 DEF Core, JobsOk
<1>5. id \in Nat  BY <1>4
<1>6. /\ rn2 \in Seq(Nat) /\ Len(rn2) = Len(rn) + 1 /\ rn2[Len(rn) + 1] = id
      /\ \A n \in 1 .. Len(rn) : rn2[n] = rn[n]
  BY <1>1, <1>5
<1>7. \A n \in 1 .. Len(rn2) : (n \in 1 .. Len(rn) /\ rn2[n] = rn[n]) \/ (n = Len(rn) + 1 /\ rn2[n] = id)
  BY <1>1, <1>6
<1>8. ASSUME NEW n \in 1 .. Len(t), t[n].id > 0, at[id].to = at[t[n].id].to PROVE id < t[n].id
  <2>1. n + 1 \in 1 .. Len(q) /\ t[n] = q[n + 1] /\ 1 < n + 1  BY <1>2
  <2> QED BY <1>2, <1>4, <1>8, <2>1 DEF Core, QueueOrder
<1>9. ASSUME NEW n \in 1 .. Len(rn), at[rn[n]].to = at[id].to PROVE rn[n] < id
  BY <1>2, <1>4, <1>9 DEF Core, RanFirst
<1> HIDE DEF t, id, rn2
<1>10. Typed(st, va, re, t, rn2)  BY <1>3, <1>6 DEF Core, Typed
<1>11. RanOk(st, rn2, at)
  <2>1. \A n \in 1 .. Len(rn) : rn[n] \in 1 .. Len(at) /\ ~Pending(st, at, rn[n])  BY <1>3 DEF Core, RanOk
  <2> QED BY <1>4, <1>7, <2>1 DEF RanOk
<1>12. RanFirst(t, rn2, at)
  <2>1. ASSUME NEW i \in 1 .. Len(rn2), NEW j \in 1 .. Len(t), t[j].id > 0, at[rn2[i]].to = at[t[j].id].to
        PROVE  rn2[i] < t[j].id
    <3>1. CASE i \in 1 .. Len(rn) /\ rn2[i] = rn[i]  BY <1>3, <2>1, <3>1 DEF Core, RanFirst
    <3>2. CASE rn2[i] = id  BY <1>8, <2>1, <3>2
    <3> QED BY <1>7, <3>1, <3>2
  <2> QED BY <2>1 DEF RanFirst
<1>13. RanOrder(rn2, at)
  <2>1. ASSUME NEW i \in 1 .. Len(rn2), NEW j \in 1 .. Len(rn2), i < j, at[rn2[i]].to = at[rn2[j]].to
        PROVE  rn2[i] < rn2[j]
    <3>1. i \in 1 .. Len(rn) /\ rn2[i] = rn[i]  BY <1>1, <1>6, <1>7, <2>1
    <3>2. CASE j \in 1 .. Len(rn) /\ rn2[j] = rn[j]  BY <1>3, <2>1, <3>1, <3>2 DEF Core, RanOrder
    <3>3. CASE rn2[j] = id  BY <1>9, <2>1, <3>1, <3>3
    <3> QED BY <1>7, <3>2, <3>3
  <2> QED BY <2>1 DEF RanOrder
<1>14. Core(st, va, re, t, rn2, at)  BY <1>3, <1>10, <1>11, <1>12, <1>13 DEF Core
<1> QED BY <1>14 DEF t, id, rn2

LEMMA PopPlaced ==
    ASSUME NEW st, NEW va, NEW re, NEW q, NEW rn, NEW at, Core(st, va, re, q, rn, at),
           Placed(st, re, q, rn, at), q # <<>>
    PROVE  /\ Head(q).id = 0 => Placed(st, re, Tail(q), rn, at)
           /\ Head(q).id > 0 => Placed(st, re, Tail(q), Append(rn, Head(q).id), at)
<1> DEFINE t == Tail(q)
           rn2 == IF Head(q).id > 0 THEN Append(rn, Head(q).id) ELSE rn
<1>1. q \in Seq(Job) /\ rn \in Seq(Nat) /\ Len(rn) \in Nat  BY DEF Core, Typed
<1>2. /\ Len(q) \in Nat /\ Len(t) = Len(q) - 1 /\ 1 \in 1 .. Len(q) /\ Head(q) = q[1] /\ Head(q) \in Job
      /\ \A n \in 1 .. Len(t) : n + 1 \in 1 .. Len(q) /\ t[n] = q[n + 1]
  BY <1>1, TailIs
<1>3. Head(q).id \in Nat  BY <1>2 DEF Job
<1>4. /\ \A n \in 1 .. Len(rn) : n \in 1 .. Len(rn2) /\ rn2[n] = rn[n]
      /\ Head(q).id > 0 => Len(rn) + 1 \in 1 .. Len(rn2) /\ rn2[Len(rn) + 1] = Head(q).id
  BY <1>1, <1>3
<1>5. ASSUME NEW i \in 1 .. Len(at), NEW n \in 1 .. Len(q), q[n].id = i
      PROVE  (\E m \in 1 .. Len(t) : t[m].id = i) \/ \E m \in 1 .. Len(rn2) : rn2[m] = i
  <2>1. CASE n = 1
    <3>1. Head(q).id = i /\ Head(q).id > 0  BY <1>2, <1>5, <2>1
    <3> QED BY <1>4, <3>1
  <2>2. CASE n # 1
    <3>1. n - 1 \in 1 .. Len(t) /\ (n - 1) + 1 = n  BY <1>2, <2>2
    <3>2. t[n - 1] = q[n]  BY <1>2, <3>1
    <3> QED BY <1>5, <3>1, <3>2
  <2> QED BY <2>1, <2>2
<1> HIDE DEF t, rn2
<1>6. ASSUME NEW i \in 1 .. Len(at)
      PROVE  IF Pending(st, at, i)
             THEN \E n \in 1 .. Len(re[at[i].to]) : re[at[i].to][n].id = i
             ELSE (\E n \in 1 .. Len(t) : t[n].id = i) \/ \E n \in 1 .. Len(rn2) : rn2[n] = i
  <2>1. CASE Pending(st, at, i)  BY <2>1 DEF Placed
  <2>2. CASE ~Pending(st, at, i)
    <3>1. (\E n \in 1 .. Len(q) : q[n].id = i) \/ \E n \in 1 .. Len(rn) : rn[n] = i
      BY <2>2 DEF Placed
    <3>2. ASSUME NEW n \in 1 .. Len(rn), rn[n] = i PROVE \E m \in 1 .. Len(rn2) : rn2[m] = i
      BY <1>4, <3>2
    <3> QED BY <1>5, <2>2, <3>1, <3>2
  <2> QED BY <2>1, <2>2
<1>7. Placed(st, re, t, rn2, at)  BY <1>6 DEF Placed
<1> QED BY <1>7 DEF t, rn2

LEMMA PopHeld ==
    ASSUME NEW st, NEW re, NEW q \in Seq(Job), q # <<>>, NEW x, NEW d, Held(d, st, re, Tail(q), x)
    PROVE  Held(d, st, re, q, x)
<1>1. \A n \in 1 .. Len(Tail(q)) : n + 1 \in 1 .. Len(q) /\ Tail(q)[n] = q[n + 1]  BY TailIs
<1>2. ASSUME NEW n \in 1 .. Len(Tail(q)),
             (Tail(q)[n].kind = "Adopt" /\ Tail(q)[n].derived = d) \/ Tail(q)[n].handler.of = d
      PROVE  \E m \in 1 .. Len(q) : (q[m].kind = "Adopt" /\ q[m].derived = d) \/ q[m].handler.of = d
  BY <1>1, <1>2
<1> QED BY <1>2 DEF Held, Named

-----------------------------------------------------------------------------
(* Pushing one job.                                                        *)

\* It is internal, or the job of the last reaction attached.
LEMMA PushCore ==
    ASSUME PromisesAssumption,
           NEW st, NEW va, NEW re, NEW q, NEW rn, NEW at, Core(st, va, re, q, rn, at),
           NEW j, \/ j.id = 0 /\ Internal(j)
                  \/ /\ j.id \in 1 .. Len(at) /\ ~Pending(st, at, j.id)
                     /\ j = JobOf(st[at[j.id].to], va[at[j.id].to], at[j.id].reaction)
                     /\ \A n \in 1 .. Len(q) : q[n].id < j.id
                     /\ \A n \in 1 .. Len(rn) : rn[n] < j.id,
           NEW q2, NEW k, Extended(q2, q, <<j>>, k), Len(q2) <= JobCount
    PROVE  Core(st, va, re, q2, rn, at)
<1>1. q \in Seq(Job) /\ rn \in Seq(Nat) /\ Len(rn) \in Nat /\ Len(q) \in Nat  BY DEF Core, Typed
<1>2. /\ \A n \in 1 .. Len(q) : q2[n] = q[n]
      /\ q2 \in Seq(Job) /\ Len(q2) \in Nat /\ Len(q2) <= Len(q) + 1
  BY <1>1 DEF Extended
<1>3. ASSUME NEW n \in 1 .. Len(q2)
      PROVE  (n \in 1 .. Len(q) /\ q2[n] = q[n]) \/ (n = Len(q) + 1 /\ q2[n] = j)
  <2>1. CASE n <= Len(q)  BY <1>1, <1>2, <2>1
  <2>2. CASE n > Len(q)
    <3>1. n = Len(q) + 1 /\ n - Len(q) = 1  BY <1>1, <1>2, <2>2
    <3>2. q2[n] = <<j>>[1]  BY <2>2, <3>1 DEF Extended
    <3> QED BY <3>1, <3>2
  <2> QED BY <1>1, <1>2, <2>1, <2>2
<1>4. Typed(st, va, re, q2, rn)  BY <1>2 DEF Core, Typed
<1>5. JobsOk(st, va, q2, at)
  <2>1. ASSUME NEW n \in 1 .. Len(q2)
        PROVE  \/ q2[n].id = 0 /\ Internal(q2[n])
               \/ /\ q2[n].id \in 1 .. Len(at) /\ ~Pending(st, at, q2[n].id)
                  /\ q2[n] = JobOf(st[at[q2[n].id].to], va[at[q2[n].id].to], at[q2[n].id].reaction)
    <3>1. CASE n \in 1 .. Len(q) /\ q2[n] = q[n]  BY <3>1 DEF Core, JobsOk
    <3>2. CASE q2[n] = j  BY <3>2
    <3> QED BY <1>3, <3>1, <3>2
  <2> QED BY <2>1 DEF JobsOk
<1>6. QueueOrder(q2, at)
  <2>1. ASSUME NEW a \in 1 .. Len(q2), NEW b \in 1 .. Len(q2), a < b, q2[a].id > 0, q2[b].id > 0,
               at[q2[a].id].to = at[q2[b].id].to
        PROVE  q2[a].id < q2[b].id
    <3>1. a \in 1 .. Len(q) /\ q2[a] = q[a]  BY <1>1, <1>2, <1>3, <2>1
    <3>2. CASE b \in 1 .. Len(q) /\ q2[b] = q[b]  BY <2>1, <3>1, <3>2 DEF Core, QueueOrder
    <3>3. CASE q2[b] = j  BY <2>1, <3>1, <3>3
    <3> QED BY <1>3, <3>2, <3>3
  <2> QED BY <2>1 DEF QueueOrder
<1>7. RanFirst(q2, rn, at)
  <2>1. ASSUME NEW a \in 1 .. Len(rn), NEW b \in 1 .. Len(q2), q2[b].id > 0, at[rn[a]].to = at[q2[b].id].to
        PROVE  rn[a] < q2[b].id
    <3>1. CASE b \in 1 .. Len(q) /\ q2[b] = q[b]  BY <2>1, <3>1 DEF Core, RanFirst
    <3>2. CASE q2[b] = j  BY <2>1, <3>2
    <3> QED BY <1>3, <3>1, <3>2
  <2> QED BY <2>1 DEF RanFirst
<1> QED BY <1>4, <1>5, <1>6, <1>7 DEF Core

LEMMA PushHeld ==
    ASSUME NEW st, NEW re, NEW q \in Seq(Job), NEW j, NEW q2, NEW k, Extended(q2, q, <<j>>, k),
           NEW x, NEW d, Held(d, st, re, q2, x)
    PROVE  Held(d, st, re, q, x) \/ (j.kind = "Adopt" /\ j.derived = d) \/ j.handler.of = d
<1>1. Len(q) \in Nat /\ Len(q2) \in Nat /\ Len(<<j>>) = 1 /\ <<j>>[1] = j  BY DEF Extended
<1>2. ASSUME NEW n \in 1 .. Len(q2), (q2[n].kind = "Adopt" /\ q2[n].derived = d) \/ q2[n].handler.of = d
      PROVE  Named(d, re, q) \/ (j.kind = "Adopt" /\ j.derived = d) \/ j.handler.of = d
  <2>1. CASE n <= Len(q)
    <3>1. n \in 1 .. Len(q) /\ q2[n] = q[n]  BY <1>1, <2>1 DEF Extended
    <3> QED BY <1>2, <3>1 DEF Named
  <2>2. CASE n > Len(q)
    <3>1. n - Len(q) \in 1 .. k /\ q2[n] = <<j>>[n - Len(q)] /\ k \in 0 .. 1  BY <1>1, <2>2 DEF Extended
    <3>2. q2[n] = j  BY <1>1, <3>1
    <3> QED BY <1>2, <3>2
  <2> QED BY <1>1, <2>1, <2>2
<1> QED BY <1>2 DEF Held, Named

LEMMA PushPlaced ==
    ASSUME NEW st, NEW re, NEW q \in Seq(Job), NEW rn, NEW at, Placed(st, re, q, rn, at),
           NEW q2, NEW k, NEW jobs, Extended(q2, q, jobs, k)
    PROVE  Placed(st, re, q2, rn, at)
<1>1. \A n \in 1 .. Len(q) : n \in 1 .. Len(q2) /\ q2[n] = q[n]  BY DEF Extended
<1>2. \A i \in 1 .. Len(at) :
        (\E n \in 1 .. Len(q) : q[n].id = i) => \E n \in 1 .. Len(q2) : q2[n].id = i
  BY <1>1
<1> QED BY <1>2 DEF Placed

-----------------------------------------------------------------------------
(* Attaching a reaction.                                                   *)

\* a is known by the next number, and leads to a job.
Attachable(at, a) ==
    /\ a \in Attachments /\ Len(at) < MaxReactions /\ a.reaction.id = Len(at) + 1
    /\ a.reaction.on_fulfilled \in Handlers /\ a.reaction.on_rejected \in Handlers
    /\ a.reaction.derived = NoPromise =>
          a.reaction.on_fulfilled = UserHandler /\ a.reaction.on_rejected = UserHandler

LEMMA AppendIs ==
    ASSUME NEW S, NEW s \in Seq(S), NEW a \in S
    PROVE  /\ Append(s, a) \in Seq(S) /\ Len(s) \in Nat /\ Len(Append(s, a)) = Len(s) + 1
           /\ Append(s, a)[Len(s) + 1] = a /\ Len(s) + 1 \in 1 .. Len(Append(s, a))
           /\ \A n \in 1 .. Len(s) : n \in 1 .. Len(Append(s, a)) /\ Append(s, a)[n] = s[n]
           /\ \A n \in 1 .. Len(Append(s, a)) : n \in 1 .. Len(s) \/ n = Len(s) + 1
OBVIOUS

LEMMA CoreAttach ==
    ASSUME PromisesAssumption,
           NEW st, NEW va, NEW re, NEW q, NEW rn, NEW at, Core(st, va, re, q, rn, at),
           NEW a, Attachable(at, a)
    PROVE  Core(st, va, re, q, rn, Append(at, a))
<1> DEFINE at2 == Append(at, a)
<1>1. at \in Seq(Attachments) /\ a \in Attachments /\ MaxReactions \in Nat /\ Len(at) < MaxReactions
  BY DEF Core, AttachedOk, Attachable, PromisesAssumption
<1>2. /\ at2 \in Seq(Attachments) /\ Len(at) \in Nat /\ Len(at2) = Len(at) + 1
      /\ at2[Len(at) + 1] = a
      /\ \A n \in 1 .. Len(at) : n \in 1 .. Len(at2) /\ at2[n] = at[n]
      /\ \A n \in 1 .. Len(at2) : n \in 1 .. Len(at) \/ n = Len(at) + 1
  BY <1>1, AppendIs
<1> HIDE DEF at2
<1>3. AttachedOk(at2)
  <2>1. ASSUME NEW i \in 1 .. Len(at2)
        PROVE  /\ at2[i].reaction.id = i
               /\ at2[i].reaction.on_fulfilled \in Handlers /\ at2[i].reaction.on_rejected \in Handlers
               /\ at2[i].reaction.derived = NoPromise =>
                     /\ at2[i].reaction.on_fulfilled = UserHandler
                     /\ at2[i].reaction.on_rejected = UserHandler
    <3>1. CASE i \in 1 .. Len(at)
      <4>1. at2[i] = at[i]  BY <1>2, <3>1
      <4> QED BY <3>1, <4>1 DEF Core, AttachedOk
    <3>2. CASE i = Len(at) + 1
      <4>1. at2[i] = a  BY <1>2, <3>2
      <4> QED BY <3>2, <4>1 DEF Attachable
    <3> QED BY <1>2, <3>1, <3>2
  <2>2. Len(at2) <= MaxReactions  BY <1>1, <1>2
  <2> QED BY <1>2, <2>1, <2>2 DEF AttachedOk
<1>4. WaitsOk(re, at2)
  <2>1. ASSUME NEW p \in Promise, NEW n \in 1 .. Len(re[p])
        PROVE  \/ Follows(re[p][n])
               \/ /\ re[p][n].id \in 1 .. Len(at2) /\ at2[re[p][n].id].to = p
                  /\ re[p][n] = at2[re[p][n].id].reaction
    <3>1. CASE Follows(re[p][n])  BY <3>1
    <3>2. CASE ~Follows(re[p][n])
      <4>1. /\ re[p][n].id \in 1 .. Len(at) /\ at[re[p][n].id].to = p
            /\ re[p][n] = at[re[p][n].id].reaction
        BY <3>2 DEF Core, WaitsOk
      <4> QED BY <1>2, <4>1
    <3> QED BY <3>1, <3>2
  <2> QED BY <2>1 DEF WaitsOk
<1>5. \A n \in 1 .. Len(q) : q[n].id > 0 => q[n].id \in 1 .. Len(at) /\ at2[q[n].id] = at[q[n].id]
  BY <1>2 DEF Core, JobsOk
<1>6. JobsOk(st, va, q, at2)
  <2>1. ASSUME NEW n \in 1 .. Len(q), ~(q[n].id = 0 /\ Internal(q[n]))
        PROVE  /\ q[n].id \in 1 .. Len(at2) /\ ~Pending(st, at2, q[n].id)
               /\ q[n] = JobOf(st[at2[q[n].id].to], va[at2[q[n].id].to], at2[q[n].id].reaction)
    <3>1. /\ q[n].id \in 1 .. Len(at) /\ ~Pending(st, at, q[n].id)
          /\ q[n] = JobOf(st[at[q[n].id].to], va[at[q[n].id].to], at[q[n].id].reaction)
      BY <2>1 DEF Core, JobsOk
    <3>2. at2[q[n].id] = at[q[n].id] /\ q[n].id \in 1 .. Len(at2)  BY <1>2, <3>1
    <3> QED BY <3>1, <3>2 DEF Pending
  <2> QED BY <2>1 DEF JobsOk
<1>7. \A n \in 1 .. Len(rn) : rn[n] \in 1 .. Len(at) /\ rn[n] \in 1 .. Len(at2) /\ at2[rn[n]] = at[rn[n]]
  BY <1>2 DEF Core, RanOk
<1>8. RanOk(st, rn, at2)  BY <1>7 DEF Core, RanOk, Pending
<1>9. QueueOrder(q, at2)  BY <1>5 DEF Core, QueueOrder
<1>10. RanFirst(q, rn, at2)  BY <1>5, <1>7 DEF Core, RanFirst
<1>11. RanOrder(rn, at2)  BY <1>7 DEF Core, RanOrder
<1>12. Core(st, va, re, q, rn, at2)
  BY <1>3, <1>4, <1>6, <1>8, <1>9, <1>10, <1>11 DEF Core
<1> QED BY <1>12 DEF at2

LEMMA AttachPassed ==
    ASSUME NEW st, NEW va, NEW rn, NEW at \in Seq(Attachments), RanOk(st, rn, at), Passed(st, va, rn, at),
           NEW a \in Attachments
    PROVE  Passed(st, va, rn, Append(at, a))
<1>1. \A n \in 1 .. Len(rn) : Append(at, a)[rn[n]] = at[rn[n]]  BY AppendIs DEF RanOk
<1> QED BY <1>1 DEF Passed

\* A reaction that waits: the last attached, or one that follows.
Newest(r, p, re, q, rn, at) ==
    /\ r.id \in 1 .. Len(at) /\ at[r.id].to = p /\ at[r.id].reaction = r
    /\ \A n \in 1 .. Len(re[p]) : re[p][n].id < r.id
    /\ \A n \in 1 .. Len(q) : q[n].id < r.id
    /\ \A n \in 1 .. Len(rn) : rn[n] < r.id

LEMMA WaitCore ==
    ASSUME NEW st, NEW va, NEW re, NEW q, NEW rn, NEW at, Core(st, va, re, q, rn, at),
           NEW p \in Promise, NEW r \in Reaction, Follows(r) \/ Newest(r, p, re, q, rn, at)
    PROVE  Core(st, va, [re EXCEPT ![p] = Append(@, r)], q, rn, at)
<1> DEFINE re2 == [re EXCEPT ![p] = Append(@, r)]
<1>1. re \in [Promise -> Seq(Reaction)] /\ re[p] \in Seq(Reaction)  BY DEF Core, Typed
<1>2. /\ Append(re[p], r) \in Seq(Reaction) /\ Len(re[p]) \in Nat /\ Len(Append(re[p], r)) = Len(re[p]) + 1
      /\ Append(re[p], r)[Len(re[p]) + 1] = r
      /\ \A n \in 1 .. Len(re[p]) : Append(re[p], r)[n] = re[p][n]
      /\ \A n \in 1 .. Len(Append(re[p], r)) : n \in 1 .. Len(re[p]) \/ n = Len(re[p]) + 1
  BY <1>1, AppendIs
<1>3. re2 \in [Promise -> Seq(Reaction)] /\ re2[p] = Append(re[p], r)
      /\ \A o \in Promise : o # p => re2[o] = re[o]
  BY <1>1, <1>2
<1> HIDE DEF re2
<1>4. Typed(st, va, re2, q, rn)  BY <1>3 DEF Core, Typed
<1>5. ASSUME NEW o \in Promise, NEW n \in 1 .. Len(re2[o])
      PROVE  \/ n \in 1 .. Len(re[o]) /\ re2[o][n] = re[o][n]
             \/ o = p /\ n = Len(re[p]) + 1 /\ re2[o][n] = r
  <2>1. CASE o = p  BY <1>2, <1>3, <2>1
  <2>2. CASE o # p  BY <1>3, <2>2
  <2> QED BY <2>1, <2>2
<1>6. WaitsOk(re2, at)
  <2>1. ASSUME NEW o \in Promise, NEW n \in 1 .. Len(re2[o])
        PROVE  \/ Follows(re2[o][n])
               \/ /\ re2[o][n].id \in 1 .. Len(at) /\ at[re2[o][n].id].to = o
                  /\ re2[o][n] = at[re2[o][n].id].reaction
    <3>1. CASE n \in 1 .. Len(re[o]) /\ re2[o][n] = re[o][n]  BY <3>1 DEF Core, WaitsOk
    <3>2. CASE o = p /\ re2[o][n] = r  BY <3>2 DEF Newest
    <3> QED BY <1>5, <3>1, <3>2
  <2> QED BY <2>1 DEF WaitsOk
<1>7. WaitOrder(re2)
  <2>1. ASSUME NEW o \in Promise, NEW i \in 1 .. Len(re2[o]), NEW j \in 1 .. Len(re2[o]), i < j,
               re2[o][i].id > 0, re2[o][j].id > 0
        PROVE  re2[o][i].id < re2[o][j].id
    <3>1. i \in 1 .. Len(re[o]) /\ re2[o][i] = re[o][i]  BY <1>2, <1>3, <1>5, <2>1
    <3>2. CASE j \in 1 .. Len(re[o]) /\ re2[o][j] = re[o][j]  BY <2>1, <3>1, <3>2 DEF Core, WaitOrder
    <3>3. CASE o = p /\ re2[o][j] = r  BY <2>1, <3>1, <3>3 DEF Newest, Follows
    <3> QED BY <1>5, <3>2, <3>3
  <2> QED BY <2>1 DEF WaitOrder
<1>8. Core(st, va, re2, q, rn, at)  BY <1>4, <1>6, <1>7 DEF Core
<1> QED BY <1>8 DEF re2

LEMMA WaitPlaced ==
    ASSUME NEW st, NEW re \in [Promise -> Seq(Reaction)], NEW q, NEW rn, NEW at \in Seq(Attachments),
           Placed(st, re, q, rn, at), NEW p \in Promise, NEW r \in Reaction
    PROVE  Placed(st, [re EXCEPT ![p] = Append(@, r)], q, rn, at)
<1> DEFINE re2 == [re EXCEPT ![p] = Append(@, r)]
<1>1. re[p] \in Seq(Reaction)  OBVIOUS
<1>2. \A n \in 1 .. Len(re[p]) : n \in 1 .. Len(Append(re[p], r)) /\ Append(re[p], r)[n] = re[p][n]
  BY <1>1, AppendIs
<1>3. re2[p] = Append(re[p], r) /\ \A o \in Promise : o # p => re2[o] = re[o]  OBVIOUS
<1> HIDE DEF re2
<1>4. \A o \in Promise : \A n \in 1 .. Len(re[o]) : n \in 1 .. Len(re2[o]) /\ re2[o][n] = re[o][n]
  BY <1>2, <1>3
<1>5. \A i \in 1 .. Len(at) : at[i].to \in Promise  BY AttachmentType
<1>6. \A i \in 1 .. Len(at) :
        (\E n \in 1 .. Len(re[at[i].to]) : re[at[i].to][n].id = i)
           => \E n \in 1 .. Len(re2[at[i].to]) : re2[at[i].to][n].id = i
  BY <1>4, <1>5
<1>7. Placed(st, re2, q, rn, at)  BY <1>6 DEF Placed
<1> QED BY <1>7 DEF re2

LEMMA WaitHeld ==
    ASSUME NEW st, NEW re \in [Promise -> Seq(Reaction)], NEW q, NEW p \in Promise, NEW r \in Reaction,
           NEW x, NEW d, Held(d, st, [re EXCEPT ![p] = Append(@, r)], q, x)
    PROVE  Held(d, st, re, q, x) \/ r.on_fulfilled.of = d \/ r.on_rejected.of = d
<1> DEFINE re2 == [re EXCEPT ![p] = Append(@, r)]
<1>1. re[p] \in Seq(Reaction)  OBVIOUS
<1>2. /\ Append(re[p], r)[Len(re[p]) + 1] = r
      /\ \A n \in 1 .. Len(re[p]) : Append(re[p], r)[n] = re[p][n]
      /\ \A n \in 1 .. Len(Append(re[p], r)) : n \in 1 .. Len(re[p]) \/ n = Len(re[p]) + 1
  BY <1>1, AppendIs
<1>3. re2[p] = Append(re[p], r) /\ \A o \in Promise : o # p => re2[o] = re[o]  OBVIOUS
<1>4. Held(d, st, re2, q, x)  OBVIOUS
<1> HIDE DEF re2
<1>5. ASSUME NEW o \in Promise, NEW n \in 1 .. Len(re2[o])
      PROVE  \/ n \in 1 .. Len(re[o]) /\ re2[o][n] = re[o][n]
             \/ re2[o][n] = r
  <2>1. CASE o = p  BY <1>2, <1>3, <2>1
  <2>2. CASE o # p  BY <1>3, <2>2
  <2> QED BY <2>1, <2>2
<1> QED BY <1>4, <1>5 DEF Held, Named

\* The attachment is placed as the reactions before it are.
LEMMA PlaceLast ==
    ASSUME NEW st, NEW re, NEW q, NEW rn, NEW at \in Seq(Attachments), Placed(st, re, q, rn, at),
           NEW a \in Attachments,
           IF st[a.to] = "pending" THEN \E n \in 1 .. Len(re[a.to]) : re[a.to][n].id = Len(at) + 1
                                   ELSE \E n \in 1 .. Len(q) : q[n].id = Len(at) + 1
    PROVE  Placed(st, re, q, rn, Append(at, a))
<1> DEFINE at2 == Append(at, a)
<1>1. /\ at2[Len(at) + 1] = a
      /\ \A n \in 1 .. Len(at) : at2[n] = at[n]
      /\ \A n \in 1 .. Len(at2) : n \in 1 .. Len(at) \/ n = Len(at) + 1
  BY AppendIs
<1> HIDE DEF at2
<1>2. ASSUME NEW i \in 1 .. Len(at2)
      PROVE  IF Pending(st, at2, i)
             THEN \E n \in 1 .. Len(re[at2[i].to]) : re[at2[i].to][n].id = i
             ELSE (\E n \in 1 .. Len(q) : q[n].id = i) \/ \E n \in 1 .. Len(rn) : rn[n] = i
  <2>1. CASE i \in 1 .. Len(at)
    <3>1. at2[i] = at[i]  BY <1>1, <2>1
    <3> QED BY <2>1, <3>1 DEF Placed, Pending
  <2>2. CASE i = Len(at) + 1
    <3>1. at2[i] = a  BY <1>1, <2>2
    <3> QED BY <2>2, <3>1 DEF Pending
  <2> QED BY <1>1, <2>1, <2>2
<1>3. Placed(st, re, q, rn, at2)  BY <1>2 DEF Placed
<1> QED BY <1>3 DEF at2

\* Whoever settles a promise already could, or it is s: the last promise made,
\* or that of a reaction that has run.
NewlyHeld(st2, re2, q2, x2, st, re, q, x, s) ==
    \A d \in Promise : Held(d, st2, re2, q2, x2) => Held(d, st, re, q, x) \/ d = s
Spared(rn2, rn, at, s) ==
    \A i \in 1 .. Len(at) :
        (\A n \in 1 .. Len(rn2) : rn2[n] # i) =>
            /\ \A n \in 1 .. Len(rn) : rn[n] # i
            /\ at[i].reaction.derived # NoPromise => at[i].reaction.derived # s

LEMMA OwnKept ==
    ASSUME NEW st, NEW re, NEW q, NEW rn, NEW at \in Seq(Attachments), NEW cr, NEW x,
           OwnDerived(st, re, q, rn, at, cr, x),
           NEW st2, NEW re2, NEW q2, NEW rn2, NEW cr2, NEW x2, NEW s, cr \subseteq cr2, s \in cr2 \cup {NoPromise},
           NewlyHeld(st2, re2, q2, x2, st, re, q, x, s), Spared(rn2, rn, at, s), NoPromise \notin Promise
    PROVE  OwnDerived(st2, re2, q2, rn2, at, cr2, x2)
<1>1. \A i \in 1 .. Len(at) : at[i].reaction.derived \in Promise \cup {NoPromise}  BY AttachmentType
<1>2. ASSUME NEW d \in Promise, d \notin cr2 PROVE ~Held(d, st2, re2, q2, x2)
  BY <1>2 DEF OwnDerived, NewlyHeld
<1>3. ASSUME NEW i \in 1 .. Len(at), \A n \in 1 .. Len(rn2) : rn2[n] # i, at[i].reaction.derived # NoPromise
      PROVE  ~Held(at[i].reaction.derived, st2, re2, q2, x2)
  <2>1. at[i].reaction.derived \in Promise  BY <1>1, <1>3
  <2>2. (\A n \in 1 .. Len(rn) : rn[n] # i) /\ at[i].reaction.derived # s  BY <1>3 DEF Spared
  <2>3. ~Held(at[i].reaction.derived, st, re, q, x)  BY <1>3, <2>2 DEF OwnDerived
  <2> QED BY <2>1, <2>2, <2>3 DEF NewlyHeld
<1>4. \A i \in 1 .. Len(at) : at[i].to \in cr2 /\ at[i].reaction.derived \in cr2 \cup {NoPromise}
  BY DEF OwnDerived
<1> QED BY <1>2, <1>3, <1>4 DEF OwnDerived

LEMMA OwnSame ==
    ASSUME NEW st, NEW re, NEW q, NEW rn, NEW at \in Seq(Attachments), NEW cr, NEW x,
           OwnDerived(st, re, q, rn, at, cr, x),
           NEW st2, NEW re2, NEW q2, NEW x2,
           \A d \in Promise : Held(d, st2, re2, q2, x2) => Held(d, st, re, q, x)
    PROVE  OwnDerived(st2, re2, q2, rn, at, cr, x2)
<1>1. \A i \in 1 .. Len(at) : at[i].reaction.derived \in Promise \cup {NoPromise}  BY AttachmentType
<1> QED BY <1>1 DEF OwnDerived

LEMMA AttachOwn ==
    ASSUME NEW st, NEW re, NEW q, NEW rn, NEW at \in Seq(Attachments), NEW cr, NEW x,
           OwnDerived(st, re, q, rn, at, cr, x), NoPromise \notin Promise,
           NEW a \in Attachments, a.to \in cr,
           NEW cr2, cr \subseteq cr2, a.reaction.derived = NoPromise \/ a.reaction.derived \in cr2 \ cr
    PROVE  OwnDerived(st, re, q, rn, Append(at, a), cr2, x)
<1> DEFINE at2 == Append(at, a)
           d == a.reaction.derived
<1>1. /\ at2[Len(at) + 1] = a
      /\ \A n \in 1 .. Len(at) : at2[n] = at[n]
      /\ \A n \in 1 .. Len(at2) : n \in 1 .. Len(at) \/ n = Len(at) + 1
  BY AppendIs
<1>2. \A i \in 1 .. Len(at2) :
        (i \in 1 .. Len(at) /\ at2[i] = at[i]) \/ (i = Len(at) + 1 /\ at2[i] = a)
  BY <1>1
<1>3. d \in Promise \cup {NoPromise}  BY DEF Attachments, Reaction
<1> HIDE DEF at2
<1>4. \A e \in Promise : e \notin cr2 => ~Held(e, st, re, q, x)  BY DEF OwnDerived
<1>5. d # NoPromise => ~Held(d, st, re, q, x)
  <2>1. d # NoPromise => d \in Promise /\ d \notin cr  BY <1>3
  <2> QED BY <2>1 DEF OwnDerived
<1>6. \A i \in 1 .. Len(at) : at[i].to \in cr /\ at[i].reaction.derived \in cr \cup {NoPromise}
  BY DEF OwnDerived
<1>7. \A i \in 1 .. Len(at2) : at2[i].to \in cr2 /\ at2[i].reaction.derived \in cr2 \cup {NoPromise}
  BY <1>2, <1>6
<1>8. ASSUME NEW i \in 1 .. Len(at2), NEW j \in 1 .. Len(at2), i # j,
             at2[i].reaction.derived = at2[j].reaction.derived
      PROVE  at2[i].reaction.derived = NoPromise
  <2>1. CASE i \in 1 .. Len(at) /\ at2[i] = at[i] /\ j \in 1 .. Len(at) /\ at2[j] = at[j]
    BY <1>8, <2>1 DEF OwnDerived
  <2>2. CASE i \in 1 .. Len(at) /\ at2[i] = at[i] /\ at2[j] = a  BY <1>6, <1>8, <2>2
  <2>3. CASE j \in 1 .. Len(at) /\ at2[j] = at[j] /\ at2[i] = a  BY <1>6, <1>8, <2>3
  <2> QED BY <1>2, <1>8, <2>1, <2>2, <2>3
<1>9. ASSUME NEW i \in 1 .. Len(at2), \A n \in 1 .. Len(rn) : rn[n] # i, at2[i].reaction.derived # NoPromise
      PROVE  ~Held(at2[i].reaction.derived, st, re, q, x)
  <2>1. CASE i \in 1 .. Len(at) /\ at2[i] = at[i]  BY <1>9, <2>1 DEF OwnDerived
  <2>2. CASE at2[i] = a  BY <1>5, <1>9, <2>2
  <2> QED BY <1>2, <2>1, <2>2
<1>10. OwnDerived(st, re, q, rn, at2, cr2, x)  BY <1>4, <1>7, <1>8, <1>9 DEF OwnDerived
<1> QED BY <1>10 DEF at2

-----------------------------------------------------------------------------
(* The operations the steps are made of.                                   *)

\* What settling p, or resolving it, over a queue q keeps; ok where the queue
\* had room.
Keeps(p, q, rn, at, ok) ==
    /\ Core(state', value', reactions', queue', rn, at)
    /\ Passed(state, value, rn, at) => Passed(state', value', rn, at)
    /\ \A x : \A d \in Promise :
          Held(d, state', reactions', queue', x) => d = p \/ Held(d, state, reactions, q, x)
    /\ \A o \in Promise : state[o] # "pending" => state'[o] = state[o] /\ value'[o] = value[o]
    /\ ok /\ Placed(state, reactions, q, rn, at) /\ Emptied(state, reactions) =>
          Placed(state', reactions', queue', rn, at) /\ Emptied(state', reactions')

LEMMA SettledKeeps ==
    ASSUME PromisesAssumption, NEW q, NEW rn, NEW at, Core(state, value, reactions, q, rn, at),
           NEW p \in Promise, NEW outcome \in {"fulfilled", "rejected"}, NEW v \in Value,
           Settled(p, outcome, v, q)
    PROVE  /\ Keeps(p, q, rn, at, ~Overflows(q, SettleJobs(p, outcome, v)))
           /\ state[p] = "pending" => state'[p] = outcome /\ value'[p] = v
<1> DEFINE jobs == JobsOf(outcome, v, reactions[p])
           e == IF Overflows(q, jobs) THEN reactions[p] ELSE <<>>
<1>1. /\ q \in Seq(Job) /\ Len(q) <= JobCount /\ state \in [Promise -> States] /\ value \in [Promise -> Value]
      /\ reactions \in [Promise -> Seq(Reaction)] /\ AttachedOk(at) /\ WaitsOk(reactions, at)
  BY DEF Core, Typed
<1>2. CASE state[p] # "pending"
  <2>1. state' = state /\ value' = value /\ reactions' = reactions /\ queue' = q
    BY <1>2 DEF Settled, promises
  <2> QED BY <1>2, <2>1 DEF Keeps
<1>3. CASE state[p] = "pending"
  <2>1. /\ state' = [state EXCEPT ![p] = outcome] /\ value' = [value EXCEPT ![p] = v]
        /\ reactions' = [reactions EXCEPT ![p] = e] /\ Push(q, jobs)
    BY <1>3, <1>1 DEF Settled
  <2>2. jobs \in Seq(Job)  BY <1>1, WaitingJobs
  <2>3. SettleJobs(p, outcome, v) = jobs  BY <1>3 DEF SettleJobs
  <2>4. e = reactions[p] \/ e = <<>>  OBVIOUS
  <2> HIDE DEF jobs
  <2>5. PICK k \in 0 .. Len(jobs) :
          /\ Extended(queue', q, jobs, k) /\ Len(queue') <= JobCount
          /\ ~Overflows(q, jobs) => k = Len(jobs)
    BY <1>1, <2>1, <2>2, PushExtends
  <2>6. ~Overflows(q, jobs) => e = <<>>  OBVIOUS
  <2> HIDE DEF e
  <2>7. Core(state', value', reactions', queue', rn, at)
    BY <1>3, <2>1, <2>4, <2>5, SettleCore DEF jobs
  <2>8. Passed(state, value, rn, at) => Passed(state', value', rn, at)
    BY <1>3, <2>1, SettlePassed
  <2>9. ASSUME NEW x, NEW d \in Promise, Held(d, state', reactions', queue', x)
        PROVE  d = p \/ Held(d, state, reactions, q, x)
    <3>1. Held(d, [state EXCEPT ![p] = outcome], [reactions EXCEPT ![p] = e], queue', x)  BY <2>1, <2>9
    <3> QED BY <2>4, <2>5, <3>1, SettleHeld DEF jobs
  <2>10. state'[p] = outcome /\ value'[p] = v
         /\ \A o \in Promise : o # p => state'[o] = state[o] /\ value'[o] = value[o]
    BY <1>1, <2>1
  <2>11. ASSUME ~Overflows(q, jobs), Placed(state, reactions, q, rn, at), Emptied(state, reactions)
         PROVE  Placed(state', reactions', queue', rn, at) /\ Emptied(state', reactions')
    <3>1. reactions' = [reactions EXCEPT ![p] = <<>>] /\ k = Len(jobs)  BY <2>1, <2>5, <2>6, <2>11
    <3>2. Extended(queue', q, jobs, Len(jobs))  BY <2>5, <3>1
    <3>3. Placed([state EXCEPT ![p] = outcome], [reactions EXCEPT ![p] = <<>>], queue', rn, at)
      BY <1>3, <2>11, <3>2, SettlePlaced DEF jobs
    <3>4. ASSUME NEW o \in Promise, state'[o] # "pending" PROVE reactions'[o] = <<>>
      BY <1>1, <2>10, <2>11, <3>1, <3>4 DEF Emptied
    <3> QED BY <2>1, <3>1, <3>3, <3>4 DEF Emptied
  <2>12. \A o \in Promise : state[o] # "pending" => state'[o] = state[o] /\ value'[o] = value[o]
    BY <1>3, <2>10
  <2> QED BY <2>3, <2>7, <2>8, <2>9, <2>10, <2>11, <2>12 DEF Keeps
<1> QED BY <1>2, <1>3

LEMMA SettleKeeps ==
    ASSUME PromisesAssumption, NEW q, NEW rn, NEW at, Core(state, value, reactions, q, rn, at),
           NEW p \in Promise, NEW outcome \in {"fulfilled", "rejected"}, NEW v \in Value,
           Settle(p, outcome, v, q)
    PROVE  /\ Keeps(p, q, rn, at, ended' = "no") /\ ended' \in {ended, "quota"}
           /\ state[p] = "pending" => state'[p] = outcome /\ value'[p] = v
<1>1. Settled(p, outcome, v, q) /\ Quota(q, SettleJobs(p, outcome, v))  BY DEF Settle
<1>2. /\ Keeps(p, q, rn, at, ~Overflows(q, SettleJobs(p, outcome, v)))
      /\ state[p] = "pending" => state'[p] = outcome /\ value'[p] = v
  BY <1>1, SettledKeeps
<1>3. ended' \in {ended, "quota"} /\ (ended' = "no" => ~Overflows(q, SettleJobs(p, outcome, v)))
  BY <1>1 DEF Quota
<1> QED BY <1>2, <1>3 DEF Keeps

LEMMA ResolveKeeps ==
    ASSUME PromisesAssumption, NEW q, NEW rn, NEW at, Core(state, value, reactions, q, rn, at),
           NEW p \in Promise, NEW v \in Value, Resolve(p, v, q)
    PROVE  Keeps(p, q, rn, at, ended' = "no") /\ ended' \in {ended, "quota"}
<1>1. PlainValue \in Value  BY DEF PlainValue, Value, Plain
<1>2. CASE Settle(p, "rejected", PlainValue, q)  BY <1>1, <1>2, SettleKeeps
<1>3. CASE Settle(p, "fulfilled", v, q)  BY <1>3, SettleKeeps
<1>4. CASE Push(q, <<AdoptJob(p, v)>>) /\ Quota(q, <<AdoptJob(p, v)>>) /\ UNCHANGED promises
  <2> DEFINE j == AdoptJob(p, v)
  <2>1. /\ j \in Job /\ j.id = 0 /\ Internal(j) /\ j.kind = "Adopt" /\ j.derived = p
        /\ j.handler.of = NoPromise
    <3>1. NoHandler \in Handler /\ NoHandler.of = NoPromise  BY DEF NoHandler, Handler
    <3>2. MaxReactions \in Nat /\ 0 \in 0 .. MaxReactions  BY DEF PromisesAssumption
    <3> QED BY <3>1, <3>2 DEF AdoptJob, Job, States, Internal
  <2> HIDE DEF j
  <2>2. q \in Seq(Job) /\ Len(q) <= JobCount /\ <<j>> \in Seq(Job)  BY <2>1 DEF Core, Typed
  <2>3. Push(q, <<j>>)  BY <1>4 DEF j
  <2>4. PICK k \in 0 .. Len(<<j>>) : Extended(queue', q, <<j>>, k) /\ Len(queue') <= JobCount
    BY <2>2, <2>3, PushExtends
  <2>5. state' = state /\ value' = value /\ reactions' = reactions  BY <1>4 DEF promises
  <2>6. Core(state, value, reactions, queue', rn, at)  BY <2>1, <2>4, PushCore
  <2>7. \A x : \A d \in Promise :
          Held(d, state, reactions, queue', x) => d = p \/ Held(d, state, reactions, q, x)
    <3>1. ASSUME NEW x, NEW d \in Promise, Held(d, state, reactions, queue', x)
          PROVE  d = p \/ Held(d, state, reactions, q, x)
      <4>1. Held(d, state, reactions, q, x) \/ (j.kind = "Adopt" /\ j.derived = d) \/ j.handler.of = d
        BY <2>2, <2>4, <3>1, PushHeld
      <4> QED BY <2>1, <4>1 DEF PromisesAssumption
    <3> QED BY <3>1
  <2>8. Placed(state, reactions, q, rn, at) => Placed(state, reactions, queue', rn, at)
    BY <2>2, <2>4, PushPlaced
  <2>9. ended' \in {ended, "quota"}  BY <1>4 DEF Quota
  <2> QED BY <2>5, <2>6, <2>7, <2>8, <2>9 DEF Keeps
<1> QED BY <1>2, <1>3, <1>4 DEF Resolve

LEMMA ReactKeeps ==
    ASSUME PromisesAssumption, NEW q, NEW rn, NEW at, Core(state, value, reactions, q, rn, at),
           NEW p \in Promise, NEW r \in Reaction, Follows(r) \/ Newest(r, p, reactions, q, rn, at),
           React(p, r, q)
    PROVE  /\ Core(state', value', reactions', queue', rn, at)
           /\ state' = state /\ value' = value /\ ended' \in {ended, "quota"}
           /\ \A x : \A d \in Promise :
                 Held(d, state', reactions', queue', x) =>
                    d \in {r.on_fulfilled.of, r.on_rejected.of} \/ Held(d, state, reactions, q, x)
           /\ \A at1 \in Seq(Attachments) :
                 Placed(state, reactions, q, rn, at1) => Placed(state', reactions', queue', rn, at1)
           /\ Emptied(state, reactions) => Emptied(state', reactions')
           /\ ended' = "no" =>
                 IF state[p] = "pending" THEN \E n \in 1 .. Len(reactions'[p]) : reactions'[p][n].id = r.id
                                         ELSE \E n \in 1 .. Len(queue') : queue'[n].id = r.id
<1>1. /\ q \in Seq(Job) /\ Len(q) <= JobCount /\ state \in [Promise -> States] /\ value \in [Promise -> Value]
      /\ reactions \in [Promise -> Seq(Reaction)] /\ AttachedOk(at) /\ WaitsOk(reactions, at)
  BY DEF Core, Typed
<1>2. CASE state[p] = "pending"
  <2>1. /\ reactions' = [reactions EXCEPT ![p] = Append(@, r)] /\ queue' = q
        /\ state' = state /\ value' = value /\ ended' = ended
    BY <1>2 DEF React
  <2>2. Core(state', value', reactions', queue', rn, at)  BY <2>1, WaitCore
  <2>3. ASSUME NEW x, NEW d \in Promise, Held(d, state', reactions', queue', x)
        PROVE  d \in {r.on_fulfilled.of, r.on_rejected.of} \/ Held(d, state, reactions, q, x)
    <3>1. Held(d, state, [reactions EXCEPT ![p] = Append(@, r)], q, x)  BY <2>1, <2>3
    <3> QED BY <1>1, <3>1, WaitHeld
  <2>4. \A at1 \in Seq(Attachments) :
          Placed(state, reactions, q, rn, at1) => Placed(state', reactions', queue', rn, at1)
    BY <1>1, <2>1, WaitPlaced
  <2>5. \A o \in Promise : o # p => reactions'[o] = reactions[o]  BY <1>1, <2>1
  <2>6. Emptied(state, reactions) => Emptied(state', reactions')  BY <1>2, <2>1, <2>5 DEF Emptied
  <2>7. \E n \in 1 .. Len(reactions'[p]) : reactions'[p][n].id = r.id
    <3>1. reactions[p] \in Seq(Reaction) /\ reactions'[p] = Append(reactions[p], r)  BY <1>1, <2>1
    <3>2. Len(reactions[p]) + 1 \in 1 .. Len(reactions'[p]) /\ reactions'[p][Len(reactions[p]) + 1] = r
      BY <3>1, AppendIs
    <3> QED BY <3>2
  <2> QED BY <1>2, <2>1, <2>2, <2>3, <2>4, <2>6, <2>7
<1>3. CASE state[p] # "pending"
  <2> DEFINE j == JobOf(state[p], value[p], r)
             jobs == JobsOf(state[p], value[p], <<r>>)
  <2>1. state[p] \in {"fulfilled", "rejected"} /\ value[p] \in Value  BY <1>1, <1>3 DEF States
  <2>2. Makes(r)
    <3>1. CASE Follows(r)  BY <3>1, KindsMake
    <3>2. CASE Newest(r, p, reactions, q, rn, at)
      <4>1. /\ r.on_fulfilled \in Handlers /\ r.on_rejected \in Handlers
            /\ r.derived = NoPromise => r.on_fulfilled = UserHandler /\ r.on_rejected = UserHandler
        BY <1>1, <3>2 DEF Newest, AttachedOk
      <4> QED BY <4>1, KindsMake
    <3> QED BY <3>1, <3>2
  <2>3. /\ j \in Job /\ j.id = r.id /\ j.handler = HandlerFor(state[p], r)
        /\ j.kind \in {"Settle", "Reaction"}
    BY <2>1, JobOfType
  <2>4. jobs = <<j>>
    <3>1. <<r>> \in Seq(Reaction) /\ Len(<<r>>) = 1 /\ <<r>>[1] = r  OBVIOUS
    <3> DEFINE w == <<r>>
    <3> HIDE DEF w
    <3>2. w \in Seq(Reaction) /\ Len(w) = 1 /\ w[1] = r  BY <3>1 DEF w
    <3>3. \A n \in 1 .. Len(w) : Makes(w[n]) /\ n = 1  BY <2>2, <3>2
    <3>4. /\ JobsOf(state[p], value[p], w) \in Seq(Job) /\ Len(JobsOf(state[p], value[p], w)) = Len(w)
          /\ \A n \in 1 .. Len(w) : JobsOf(state[p], value[p], w)[n] = JobOf(state[p], value[p], w[n])
      BY <2>1, <3>2, <3>3, JobsOfAll
    <3>5. jobs \in Seq(Job) /\ Len(jobs) = 1 /\ jobs[1] = j
      <4>1. 1 \in 1 .. Len(w)  BY <3>2
      <4> QED BY <3>2, <3>4, <4>1 DEF w
    <3> HIDE DEF jobs, j
    <3> QED BY <2>3, <3>5
  <2>5. /\ Push(q, <<j>>) /\ Quota(q, <<j>>) /\ state' = state /\ value' = value /\ reactions' = reactions
    BY <1>3, <2>4 DEF React, promises
  <2>6. \/ j.id = 0 /\ Internal(j)
        \/ /\ j.id \in 1 .. Len(at) /\ ~Pending(state, at, j.id)
           /\ j = JobOf(state[at[j.id].to], value[at[j.id].to], at[j.id].reaction)
           /\ \A n \in 1 .. Len(q) : q[n].id < j.id
           /\ \A n \in 1 .. Len(rn) : rn[n] < j.id
    <3>1. CASE Follows(r)
      <4>1. j.handler.kind \in {"resolve", "reject"}  BY <2>3, <3>1 DEF Follows, HandlerFor
      <4>2. j.kind = "Reaction"  BY <4>1 DEF JobOf
      <4> QED BY <2>3, <3>1, <4>1, <4>2 DEF Internal, Follows
    <3>2. CASE Newest(r, p, reactions, q, rn, at)
      <4>1. at[r.id].to = p /\ at[r.id].reaction = r /\ r.id \in 1 .. Len(at)  BY <3>2 DEF Newest
      <4>2. ~Pending(state, at, j.id) /\ j = JobOf(state[at[j.id].to], value[at[j.id].to], at[j.id].reaction)
        BY <1>3, <2>3, <4>1 DEF Pending
      <4>3. (\A n \in 1 .. Len(q) : q[n].id < j.id) /\ \A n \in 1 .. Len(rn) : rn[n] < j.id
        BY <2>3, <3>2 DEF Newest
      <4> QED BY <2>3, <4>1, <4>2, <4>3
    <3> QED BY <3>1, <3>2
  <2>7. j.handler.of \in {r.on_fulfilled.of, r.on_rejected.of}  BY <2>3 DEF HandlerFor
  <2> HIDE DEF j, jobs
  <2>8. <<j>> \in Seq(Job) /\ Len(<<j>>) = 1 /\ <<j>>[1] = j  BY <2>3
  <2>9. PICK k \in 0 .. Len(<<j>>) :
          /\ Extended(queue', q, <<j>>, k) /\ Len(queue') <= JobCount
          /\ ~Overflows(q, <<j>>) => k = Len(<<j>>)
    BY <1>1, <2>5, <2>8, PushExtends
  <2>10. Core(state', value', reactions', queue', rn, at)  BY <2>5, <2>6, <2>9, PushCore
  <2>11. ASSUME NEW x, NEW d \in Promise, Held(d, state', reactions', queue', x)
         PROVE  d \in {r.on_fulfilled.of, r.on_rejected.of} \/ Held(d, state, reactions, q, x)
    <3>1. Held(d, state, reactions, queue', x)  BY <2>5, <2>11
    <3>2. Held(d, state, reactions, q, x) \/ (j.kind = "Adopt" /\ j.derived = d) \/ j.handler.of = d
      BY <1>1, <2>9, <3>1, PushHeld
    <3> QED BY <2>3, <2>7, <3>2
  <2>12. \A at1 \in Seq(Attachments) :
           Placed(state, reactions, q, rn, at1) => Placed(state', reactions', queue', rn, at1)
    BY <1>1, <2>5, <2>9, PushPlaced
  <2>13. ended' \in {ended, "quota"} /\ (ended' = "no" => ~Overflows(q, <<j>>))  BY <2>5 DEF Quota
  <2>14. ASSUME ended' = "no" PROVE \E n \in 1 .. Len(queue') : queue'[n].id = r.id
    <3>1. k = 1  BY <2>8, <2>9, <2>13, <2>14
    <3>2. Len(q) \in Nat /\ Len(queue') = Len(q) + 1  BY <1>1, <2>9, <3>1 DEF Extended
    <3>3. Len(q) + 1 \in 1 .. Len(queue') /\ Len(q) + 1 > Len(q) /\ (Len(q) + 1) - Len(q) = 1  BY <3>2
    <3>4. queue'[Len(q) + 1] = j  BY <2>8, <2>9, <3>3 DEF Extended
    <3> QED BY <2>3, <3>3, <3>4
  <2> QED BY <1>3, <2>5, <2>10, <2>11, <2>12, <2>13, <2>14
<1> QED BY <1>2, <1>3

-----------------------------------------------------------------------------
(* The steps.                                                              *)

LEMMA InitIInv == PromisesAssumption /\ Init => IInv
<1> SUFFICES ASSUME PromisesAssumption, Init PROVE IInv  OBVIOUS
<1>1. PlainValue \in Value  BY DEF PlainValue, Value, Plain
<1>2. /\ queue = <<>> /\ ran = <<>> /\ attached = <<>> /\ Len(queue) = 0 /\ Len(ran) = 0 /\ Len(attached) = 0
      /\ state = [p \in Promise |-> "pending"] /\ reactions = [p \in Promise |-> <<>>]
      /\ value = [p \in Promise |-> PlainValue]
  BY DEF Init
<1>3. \A p \in Promise : state[p] = "pending" /\ Len(reactions[p]) = 0  BY <1>2
<1>4. Others  BY DEF Init, Others, NoJob
<1>5. Typed(state, value, reactions, queue, ran)
  <2>1. state \in [Promise -> States]  BY <1>2 DEF States
  <2>2. value \in [Promise -> Value]  BY <1>1, <1>2
  <2>3. reactions \in [Promise -> Seq(Reaction)]  BY <1>2
  <2>4. queue \in Seq(Job) /\ Len(queue) <= JobCount /\ ran \in Seq(Nat)  BY <1>2 DEF PromisesAssumption
  <2> QED BY <2>1, <2>2, <2>3, <2>4 DEF Typed
<1>6. AttachedOk(attached)  BY <1>2 DEF AttachedOk, PromisesAssumption
<1>7. WaitsOk(reactions, attached) /\ WaitOrder(reactions)  BY <1>3 DEF WaitsOk, WaitOrder
<1>8. JobsOk(state, value, queue, attached) /\ QueueOrder(queue, attached) /\ RanFirst(queue, ran, attached)
  BY <1>2 DEF JobsOk, QueueOrder, RanFirst
<1>9. RanOk(state, ran, attached) /\ RanOrder(ran, attached) /\ Passed(state, value, ran, attached)
  BY <1>2 DEF RanOk, RanOrder, Passed
<1>10. Core(state, value, reactions, queue, ran, attached)  BY <1>5, <1>6, <1>7, <1>8, <1>9 DEF Core
<1>11. \A d \in Promise : ~Held(d, state, reactions, queue, Settlers)
  <2>1. Settlers = {NoPromise}  BY DEF Init, Settlers, NoJob
  <2>2. \A d \in Promise : d \notin Settlers  BY <2>1 DEF PromisesAssumption
  <2> QED BY <1>2, <1>3, <2>2 DEF Held, Named
<1>12. OwnDerived(state, reactions, queue, ran, attached, created, Settlers)
  BY <1>2, <1>11 DEF OwnDerived
<1>13. Placed(state, reactions, queue, ran, attached) /\ Emptied(state, reactions)
  BY <1>2, <1>3 DEF Placed, Emptied
<1> QED BY <1>4, <1>9, <1>10, <1>12, <1>13 DEF IInv

LEMMA PrimedIInv ==
    ASSUME Others', Core(state', value', reactions', queue', ran', attached'),
           Passed(state', value', ran', attached'),
           OwnDerived(state', reactions', queue', ran', attached', created', Settlers'),
           Roomy' => Placed(state', reactions', queue', ran', attached') /\ Emptied(state', reactions')
    PROVE  IInv'
BY DEF IInv

\* What is known of the job at the head of the queue.
LEMMA HeadIs ==
    ASSUME PromisesAssumption,
           NEW st, NEW va, NEW re, NEW q, NEW rn, NEW at, Core(st, va, re, q, rn, at), q # <<>>,
           NEW j, j = Head(q)
    PROVE  /\ j \in Job /\ 1 \in 1 .. Len(q) /\ j = q[1]
           /\ j.kind = "Adopt" => j.id = 0 /\ j.derived \in Promise
           /\ j.handler.kind \in {"resolve", "reject"} => j.id = 0 /\ j.handler.of \in Promise
           /\ j.kind = "Settle" \/ (j.kind = "Reaction" /\ j.handler.kind = "user") =>
                 /\ j.id \in 1 .. Len(at) /\ j.id > 0
                 /\ j.derived = at[j.id].reaction.derived
                 /\ j.handler = HandlerFor(st[at[j.id].to], at[j.id].reaction)
                 /\ at[j.id].to \in Promise /\ ~Pending(st, at, j.id)
           /\ j.kind = "Settle" =>
                 /\ j.derived \in Promise /\ j.handler.kind = "none"
                 /\ j.state = st[at[j.id].to] /\ j.argument = va[at[j.id].to]
                 /\ j.state \in {"fulfilled", "rejected"} /\ j.argument \in Value
<1>1. /\ q \in Seq(Job) /\ at \in Seq(Attachments) /\ AttachedOk(at)
      /\ st \in [Promise -> States] /\ va \in [Promise -> Value]
  BY DEF Core, Typed, AttachedOk
<1>2. j \in Job /\ 1 \in 1 .. Len(q) /\ j = q[1]  BY <1>1, TailIs
<1>3. j.handler \in Handler /\ j.derived \in Promise \cup {NoPromise}  BY <1>2 DEF Job
<1>4. j.handler.kind \in {"resolve", "reject"} => j.handler.of \in Promise  BY <1>3 DEF Handler
<1>5. CASE j.id = 0 /\ Internal(j)  BY <1>2, <1>4, <1>5 DEF Internal
<1>6. CASE ~(j.id = 0 /\ Internal(j))
  <2> DEFINE to == at[j.id].to
             r == at[j.id].reaction
  <2>1. j.id \in 1 .. Len(at) /\ ~Pending(st, at, j.id) /\ j = JobOf(st[to], va[to], r)
    BY <1>2, <1>6 DEF Core, JobsOk
  <2>2. j.id > 0  BY <2>1
  <2>3. to \in Promise /\ r \in Reaction  BY <1>1, <2>1, AttachmentType
  <2>4. st[to] \in {"fulfilled", "rejected"} /\ va[to] \in Value
    BY <1>1, <2>1, <2>3 DEF Pending, States
  <2>5. r.on_fulfilled \in Handlers /\ r.on_rejected \in Handlers
        /\ (r.derived = NoPromise => r.on_fulfilled = UserHandler /\ r.on_rejected = UserHandler)
    BY <1>1, <2>1 DEF AttachedOk
  <2> HIDE DEF to, r
  <2>6. /\ j.handler = HandlerFor(st[to], r) /\ j.derived = r.derived
        /\ j.kind \in {"Settle", "Reaction"}
    BY <2>1, <2>3, <2>4, JobOfType
  <2>7. j.handler.kind \in {"none", "user"}  BY <2>5, <2>6 DEF HandlerFor, Handlers, NoHandler, UserHandler
  <2>8. j.state = st[to] /\ j.argument = va[to] /\ (j.kind = "Settle" => j.handler.kind = "none")
    BY <2>1, <2>6 DEF JobOf
  <2>9. j.kind = "Settle" => j.derived # NoPromise
    <3>1. r.derived = NoPromise => HandlerFor(st[to], r).kind = "user"
      BY <2>5 DEF HandlerFor, UserHandler
    <3> QED BY <2>6, <2>8, <3>1
  <2> QED BY <1>2, <1>3, <2>1, <2>2, <2>3, <2>4, <2>6, <2>7, <2>8, <2>9 DEF to, r
<1> QED BY <1>5, <1>6

\* Settling or resolving a promise that its settler held.
LEMMA KeepsIInv ==
    ASSUME PromisesAssumption, IInv, NEW p \in Promise, NEW q, Keeps(p, q, ran, attached, Roomy'),
           Held(p, state, reactions, queue, Settlers),
           \A d \in Promise : Held(d, state, reactions, q, Settlers) => Held(d, state, reactions, queue, Settlers),
           Roomy => Placed(state, reactions, q, ran, attached),
           ran' = ran, attached' = attached, created' = created,
           Settlers' \subseteq Settlers \cup {NoPromise}, Roomy' => Roomy, Others'
    PROVE  IInv'
<1>1. attached \in Seq(Attachments) /\ NoPromise \notin Promise
  BY DEF IInv, Core, AttachedOk, PromisesAssumption
<1>2. Core(state', value', reactions', queue', ran', attached')  BY DEF Keeps
<1>3. Passed(state', value', ran', attached')  BY DEF Keeps, IInv
<1>4. ASSUME NEW d \in Promise, Held(d, state', reactions', queue', Settlers')
      PROVE  Held(d, state, reactions, queue, Settlers)
  <2>1. d = p \/ Held(d, state, reactions, q, Settlers')  BY <1>4 DEF Keeps
  <2>2. Held(d, state, reactions, q, Settlers') => Held(d, state, reactions, q, Settlers)
    BY <1>1 DEF Held
  <2> QED BY <2>1, <2>2
<1>5. OwnDerived(state', reactions', queue', ran', attached', created', Settlers')
  <2>1. OwnDerived(state, reactions, queue, ran, attached, created, Settlers)  BY DEF IInv
  <2>2. OwnDerived(state', reactions', queue', ran, attached, created, Settlers')
    BY <1>1, <1>4, <2>1, OwnSame
  <2> QED BY <2>2
<1>6. Roomy' => Placed(state', reactions', queue', ran', attached') /\ Emptied(state', reactions')
  BY DEF Keeps, IInv
<1> QED BY <1>2, <1>3, <1>5, <1>6, PrimedIInv

\* Steps that change neither promises nor queue.
LEMMA QuietIInv ==
    ASSUME PromisesAssumption, IInv, state' = state, value' = value, reactions' = reactions, queue' = queue,
           ran' = ran, attached' = attached, created' = created,
           Settlers' \subseteq Settlers \cup {NoPromise}, Roomy' => Roomy, Others'
    PROVE  IInv'
<1>1. attached \in Seq(Attachments) /\ NoPromise \notin Promise
  BY DEF IInv, Core, AttachedOk, PromisesAssumption
<1>2. Core(state', value', reactions', queue', ran', attached') /\ Passed(state', value', ran', attached')
  BY DEF IInv
<1>3. \A d \in Promise : Held(d, state, reactions, queue, Settlers') => Held(d, state, reactions, queue, Settlers)
  BY <1>1 DEF Held
<1>4. OwnDerived(state, reactions, queue, ran, attached, created, Settlers')
  BY <1>3, <1>1, AttachmentType DEF IInv, OwnDerived
<1>5. Roomy' => Placed(state', reactions', queue', ran', attached') /\ Emptied(state', reactions')
  BY DEF IInv
<1> QED BY <1>2, <1>4, <1>5, PrimedIInv

LEMMA QuietStep ==
    ASSUME PromisesAssumption, IInv,
           (\E throws \in BOOLEAN : BodyEnds(throws)) \/ SliceEnds \/ BodyResumes \/ UNCHANGED pvars
    PROVE  IInv'
<1>1. /\ state' = state /\ value' = value /\ reactions' = reactions /\ queue' = queue
      /\ ran' = ran /\ attached' = attached /\ created' = created
      /\ resolvers' = resolvers /\ calls' = calls /\ running' = running /\ overflowed' = overflowed
  BY DEF BodyEnds, SliceEnds, BodyResumes, pvars, promises, history
<1>2. body' \in {body, "runs", "paused", "done"} /\ ended' \in {ended, "throw"}
  BY DEF BodyEnds, SliceEnds, BodyResumes, pvars
<1>3. Others'  BY <1>1, <1>2 DEF IInv, Others
<1>4. Settlers' = Settlers  BY <1>1 DEF Settlers
<1>5. Roomy' => Roomy  BY <1>1, <1>2 DEF Roomy
<1> QED BY <1>1, <1>3, <1>4, <1>5, QuietIInv

LEMMA NewPromiseStep ==
    ASSUME PromisesAssumption, IInv, NEW call \in BOOLEAN, NewPromise(call)
    PROVE  IInv'
<1>1. PICK p \in Promise \ created :
        /\ created' = created \cup {p}
        /\ calls' = IF call THEN calls \cup {p} ELSE calls
        /\ resolvers' = IF call THEN resolvers ELSE resolvers \cup {p}
  BY DEF NewPromise
<1>2. /\ state' = state /\ value' = value /\ reactions' = reactions /\ queue' = queue
      /\ ran' = ran /\ attached' = attached /\ running' = running /\ overflowed' = overflowed
      /\ body' = body /\ ended' = ended
  BY DEF NewPromise, promises, history
<1>3. Others'  BY <1>1, <1>2 DEF IInv, Others
<1>4. Settlers' \subseteq Settlers \cup {p}  BY <1>1, <1>2 DEF Settlers
<1>5. attached \in Seq(Attachments) /\ NoPromise \notin Promise
  BY DEF IInv, Core, AttachedOk, PromisesAssumption
<1>6. OwnDerived(state, reactions, queue, ran, attached, created', Settlers')
  <2>1. OwnDerived(state, reactions, queue, ran, attached, created, Settlers)  BY DEF IInv
  <2>2. created \subseteq created' /\ p \in created' \cup {NoPromise}  BY <1>1
  <2>3. NewlyHeld(state, reactions, queue, Settlers', state, reactions, queue, Settlers, p)
    BY <1>4 DEF Held, NewlyHeld
  <2>4. \A i \in 1 .. Len(attached) : attached[i].reaction.derived # p
    BY <1>1, <1>5, <2>1 DEF OwnDerived
  <2>5. Spared(ran, ran, attached, p)  BY <2>4 DEF Spared
  <2> QED BY <1>5, <2>1, <2>2, <2>3, <2>5, OwnKept
<1>7. Roomy' => Placed(state', reactions', queue', ran', attached') /\ Emptied(state', reactions')
  BY <1>2 DEF IInv, Roomy
<1>8. Core(state', value', reactions', queue', ran', attached') /\ Passed(state', value', ran', attached')
  BY <1>2 DEF IInv
<1>9. OwnDerived(state', reactions', queue', ran', attached', created', Settlers')
  BY <1>2, <1>6
<1> QED BY <1>3, <1>7, <1>8, <1>9, PrimedIInv

\* then and await.
LEMMA AttachStep ==
    ASSUME PromisesAssumption, IInv, NEW p \in created, NEW r \in Reaction,
           r.id = Len(attached) + 1, r.on_fulfilled \in Handlers, r.on_rejected \in Handlers,
           r.derived = NoPromise => r.on_fulfilled = UserHandler /\ r.on_rejected = UserHandler,
           r.derived = NoPromise \/ r.derived \in created' \ created,
           Attach(p, r), created \subseteq created', created' \subseteq Promise,
           UNCHANGED <<resolvers, calls, body, running, ran, overflowed>>
    PROVE  IInv'
<1> DEFINE a == [to |-> p, reaction |-> r]
           n1 == Len(attached) + 1
<1>1. p \in Promise  BY DEF IInv, Others
<1>2. /\ Core(state, value, reactions, queue, ran, attached) /\ attached \in Seq(Attachments)
      /\ AttachedOk(attached) /\ NoPromise \notin Promise /\ reactions \in [Promise -> Seq(Reaction)]
  BY DEF IInv, Core, Typed, AttachedOk, PromisesAssumption
<1>3. a \in Attachments /\ a.to = p /\ a.reaction = r  BY <1>1 DEF Attachments
<1>4. Attachable(attached, a)  BY <1>3 DEF Attachable, Attach
<1>5. attached' = Append(attached, a) /\ React(p, r, queue) /\ r.id = n1  BY DEF Attach
<1> HIDE DEF a
<1>6. Core(state, value, reactions, queue, ran, attached')  BY <1>2, <1>4, <1>5, CoreAttach
<1>7. /\ attached'[n1] = a /\ n1 \in 1 .. Len(attached') /\ Len(attached) \in Nat
  BY <1>2, <1>3, <1>5, AppendIs
<1>8. Newest(r, p, reactions, queue, ran, attached')
  <2>1. r.id \in 1 .. Len(attached') /\ attached'[r.id].to = p /\ attached'[r.id].reaction = r
    BY <1>3, <1>5, <1>7
  <2>2. \A n \in 1 .. Len(reactions[p]) : reactions[p][n].id < r.id
    <3>1. ASSUME NEW n \in 1 .. Len(reactions[p]) PROVE reactions[p][n].id < r.id
      <4>1. Follows(reactions[p][n]) \/ reactions[p][n].id \in 1 .. Len(attached)
        BY <1>1, <1>2 DEF Core, WaitsOk
      <4> QED BY <1>5, <1>7, <4>1 DEF Follows
    <3> QED BY <3>1
  <2>3. \A n \in 1 .. Len(queue) : queue[n].id < r.id
    <3>1. ASSUME NEW n \in 1 .. Len(queue) PROVE queue[n].id < r.id
      <4>1. queue[n].id = 0 \/ queue[n].id \in 1 .. Len(attached)  BY <1>2 DEF Core, JobsOk
      <4> QED BY <1>5, <1>7, <4>1
    <3> QED BY <3>1
  <2>4. \A n \in 1 .. Len(ran) : ran[n] < r.id
    <3>1. ASSUME NEW n \in 1 .. Len(ran) PROVE ran[n] < r.id
      <4>1. ran[n] \in 1 .. Len(attached)  BY <1>2 DEF Core, RanOk
      <4> QED BY <1>5, <1>7, <4>1
    <3> QED BY <3>1
  <2> QED BY <2>1, <2>2, <2>3, <2>4 DEF Newest
<1>9. /\ Core(state', value', reactions', queue', ran, attached')
      /\ state' = state /\ value' = value /\ ended' \in {ended, "quota"}
      /\ \A x : \A d \in Promise :
            Held(d, state', reactions', queue', x) =>
               d \in {r.on_fulfilled.of, r.on_rejected.of} \/ Held(d, state, reactions, queue, x)
      /\ \A at1 \in Seq(Attachments) :
            Placed(state, reactions, queue, ran, at1) => Placed(state', reactions', queue', ran, at1)
      /\ Emptied(state, reactions) => Emptied(state', reactions')
      /\ ended' = "no" =>
            IF state[p] = "pending" THEN \E n \in 1 .. Len(reactions'[p]) : reactions'[p][n].id = r.id
                                    ELSE \E n \in 1 .. Len(queue') : queue'[n].id = r.id
  BY <1>1, <1>5, <1>6, <1>8, ReactKeeps
<1>10. ran' = ran /\ resolvers' = resolvers /\ calls' = calls /\ body' = body /\ running' = running
       /\ overflowed' = overflowed /\ Settlers' = Settlers
  BY DEF Settlers
<1>11. Others'  BY <1>9, <1>10 DEF IInv, Others
<1>12. Passed(state', value', ran', attached')
  <2>1. Passed(state, value, ran, attached) /\ RanOk(state, ran, attached)  BY DEF IInv, Core
  <2> QED BY <1>2, <1>3, <1>5, <1>9, <1>10, <2>1, AttachPassed
<1>13. OwnDerived(state', reactions', queue', ran, attached', created', Settlers)
  <2>1. OwnDerived(state, reactions, queue, ran, attached, created, Settlers)  BY DEF IInv
  <2>2. r.on_fulfilled.of = NoPromise /\ r.on_rejected.of = NoPromise
    BY DEF Handlers, NoHandler, UserHandler
  <2>3. \A d \in Promise : Held(d, state', reactions', queue', Settlers) =>
            Held(d, state, reactions, queue, Settlers)
    BY <1>2, <1>9, <2>2
  <2>4. OwnDerived(state', reactions', queue', ran, attached, created, Settlers)
    BY <1>2, <2>1, <2>3, OwnSame
  <2>5. a.to \in created /\ (a.reaction.derived = NoPromise \/ a.reaction.derived \in created' \ created)
    BY <1>3
  <2> QED BY <1>2, <1>3, <1>5, <2>4, <2>5, AttachOwn
<1>14. ASSUME Roomy' PROVE Placed(state', reactions', queue', ran, attached') /\ Emptied(state', reactions')
  <2>1. Roomy /\ ended' = "no"  BY <1>9, <1>10, <1>14 DEF Roomy
  <2>2. Placed(state, reactions, queue, ran, attached) /\ Emptied(state, reactions)  BY <2>1 DEF IInv
  <2>3. Placed(state', reactions', queue', ran, attached)  BY <1>2, <1>9, <2>2
  <2>4. IF state'[a.to] = "pending" THEN \E n \in 1 .. Len(reactions'[a.to]) : reactions'[a.to][n].id = n1
                                    ELSE \E n \in 1 .. Len(queue') : queue'[n].id = n1
    BY <1>3, <1>5, <1>9, <2>1
  <2> QED BY <1>2, <1>3, <1>5, <1>9, <2>2, <2>3, <2>4, PlaceLast
<1>15. OwnDerived(state', reactions', queue', ran', attached', created', Settlers')
  BY <1>10, <1>13
<1>16. Core(state', value', reactions', queue', ran', attached')  BY <1>9, <1>10
<1>17. Roomy' => Placed(state', reactions', queue', ran', attached') /\ Emptied(state', reactions')
  BY <1>10, <1>14
<1> QED BY <1>11, <1>12, <1>15, <1>16, <1>17, PrimedIInv

LEMMA ThenStep ==
    ASSUME PromisesAssumption, IInv, NEW p \in created, NEW f \in Handlers, NEW g \in Handlers, Then(p, f, g)
    PROVE  IInv'
<1>1. PICK d \in Promise \ created :
        /\ created' = created \cup {d}
        /\ Attach(p, [id |-> Len(attached) + 1, on_fulfilled |-> f, on_rejected |-> g, derived |-> d])
  BY DEF Then
<1> DEFINE r == [id |-> Len(attached) + 1, on_fulfilled |-> f, on_rejected |-> g, derived |-> d]
<1>2. Len(attached) \in Nat /\ Len(attached) < MaxReactions /\ MaxReactions \in Nat
  BY <1>1 DEF IInv, Core, AttachedOk, Attach, PromisesAssumption
<1>3. f \in Handler /\ g \in Handler  BY DEF Handlers, Handler, NoHandler, UserHandler
<1>4. r \in Reaction  BY <1>2, <1>3 DEF Reaction
<1>5. /\ r.id = Len(attached) + 1 /\ r.on_fulfilled \in Handlers /\ r.on_rejected \in Handlers
      /\ r.derived = d /\ d # NoPromise /\ Attach(p, r)
  BY <1>1 DEF PromisesAssumption
<1>6. r.derived \in created' \ created /\ created \subseteq created' /\ created' \subseteq Promise
  BY <1>1, <1>5 DEF IInv, Others
<1>7. UNCHANGED <<resolvers, calls, body, running, ran, overflowed>>  BY DEF Then
<1> HIDE DEF r
<1> QED BY <1>4, <1>5, <1>6, <1>7, AttachStep

LEMMA AwaitStep ==
    ASSUME PromisesAssumption, IInv, NEW p \in created, Await(p)
    PROVE  IInv'
<1> DEFINE r == [id |-> Len(attached) + 1, on_fulfilled |-> UserHandler, on_rejected |-> UserHandler,
                 derived |-> NoPromise]
<1>1. Attach(p, r) /\ UNCHANGED <<created, resolvers, calls, body, running, ran, overflowed>>  BY DEF Await
<1>2. Len(attached) \in Nat /\ Len(attached) < MaxReactions /\ MaxReactions \in Nat
  BY <1>1 DEF IInv, Core, AttachedOk, Attach, PromisesAssumption
<1>3. UserHandler \in Handler /\ UserHandler \in Handlers  BY DEF Handlers, Handler, UserHandler
<1>4. r \in Reaction  BY <1>2, <1>3 DEF Reaction
<1>5. /\ r.id = Len(attached) + 1 /\ r.on_fulfilled = UserHandler /\ r.on_rejected = UserHandler
      /\ r.derived = NoPromise
  OBVIOUS
<1>6. created \subseteq created' /\ created' \subseteq Promise  BY <1>1 DEF IInv, Others
<1> HIDE DEF r
<1> QED BY <1>1, <1>3, <1>4, <1>5, <1>6, AttachStep

\* A settling function is called, or a job returns or throws: the promise
\* settled is one whose settling the program holds.
LEMMA ProgramSettles ==
    ASSUME PromisesAssumption, IInv, NEW p \in Promise, p \in Settlers,
           Keeps(p, queue, ran, attached, ended' = "no"), ended' \in {ended, "quota"},
           running' \in {running, NoJob}, UNCHANGED <<created, resolvers, calls, body, attached, ran, overflowed>>
    PROVE  IInv'
<1>1. Others'  BY DEF IInv, Others, NoJob
<1>2. Settlers' \subseteq Settlers \cup {NoPromise}  BY DEF Settlers, NoJob
<1>3. Roomy' => Roomy /\ ended' = "no"  BY DEF Roomy
<1>4. Keeps(p, queue, ran, attached, Roomy')  BY <1>3 DEF Keeps
<1>5. Held(p, state, reactions, queue, Settlers)  BY DEF Held
<1>6. Roomy => Placed(state, reactions, queue, ran, attached)  BY DEF IInv
<1>7. ran' = ran /\ attached' = attached /\ created' = created  OBVIOUS
<1> QED BY <1>1, <1>2, <1>3, <1>4, <1>5, <1>6, <1>7, KeepsIInv

LEMMA PlainIsValue == PlainValue \in Value
BY DEF PlainValue, Value, Plain

LEMMA CallResolveStep ==
    ASSUME PromisesAssumption, IInv, NEW p \in resolvers, NEW v \in Values, CallResolve(p, v)
    PROVE  IInv'
<1>1. p \in Promise /\ p \in Settlers /\ v \in Value  BY DEF IInv, Others, Settlers, Values
<1>2. Core(state, value, reactions, queue, ran, attached)  BY DEF IInv
<1>3. Resolve(p, v, queue)  BY DEF CallResolve
<1>4. Keeps(p, queue, ran, attached, ended' = "no") /\ ended' \in {ended, "quota"}
  BY <1>1, <1>2, <1>3, ResolveKeeps
<1>5. running' \in {running, NoJob} /\ UNCHANGED <<created, resolvers, calls, body, attached, ran, overflowed>>
  BY DEF CallResolve
<1> QED BY <1>1, <1>4, <1>5, ProgramSettles

LEMMA CallRejectStep ==
    ASSUME PromisesAssumption, IInv, NEW p \in resolvers, CallReject(p)
    PROVE  IInv'
<1>1. p \in Promise /\ p \in Settlers  BY DEF IInv, Others, Settlers
<1>2. Core(state, value, reactions, queue, ran, attached)  BY DEF IInv
<1>3. Settle(p, "rejected", PlainValue, queue)  BY DEF CallReject
<1>4. Keeps(p, queue, ran, attached, ended' = "no") /\ ended' \in {ended, "quota"}
  BY <1>1, <1>2, <1>3, PlainIsValue, SettleKeeps
<1>5. running' \in {running, NoJob} /\ UNCHANGED <<created, resolvers, calls, body, attached, ran, overflowed>>
  BY DEF CallReject
<1> QED BY <1>1, <1>4, <1>5, ProgramSettles

LEMMA JobReturnsStep ==
    ASSUME PromisesAssumption, IInv, NEW v \in Values, JobReturns(v)
    PROVE  IInv'
<1> DEFINE p == running.derived
<1>1. p \in Promise \cup {NoPromise} /\ p \in Settlers /\ v \in Value  BY DEF IInv, Others, Settlers, Values
<1>2. Core(state, value, reactions, queue, ran, attached)  BY DEF IInv
<1>3. running' = NoJob /\ UNCHANGED <<created, resolvers, calls, body, attached, ran, overflowed>>
  BY DEF JobReturns
<1>4. CASE p # NoPromise /\ Resolve(p, v, queue)
  <2>1. p \in Promise  BY <1>1, <1>4
  <2>2. Keeps(p, queue, ran, attached, ended' = "no") /\ ended' \in {ended, "quota"}
    BY <1>1, <1>2, <1>4, <2>1, ResolveKeeps
  <2> HIDE DEF p
  <2> QED BY <1>1, <1>3, <2>1, <2>2, ProgramSettles
<1>5. CASE UNCHANGED <<promises, queue, ended, fate>>
  <2>1. state' = state /\ value' = value /\ reactions' = reactions /\ queue' = queue
        /\ ran' = ran /\ attached' = attached /\ created' = created
    BY <1>3, <1>5 DEF promises
  <2>2. Others'  BY <1>3, <1>5 DEF IInv, Others, NoJob
  <2>3. Settlers' \subseteq Settlers \cup {NoPromise} /\ (Roomy' => Roomy)
    BY <1>3, <1>5 DEF Settlers, NoJob, Roomy
  <2> QED BY <2>1, <2>2, <2>3, QuietIInv
<1> QED BY <1>4, <1>5 DEF JobReturns

LEMMA JobThrowsStep ==
    ASSUME PromisesAssumption, IInv, JobThrows
    PROVE  IInv'
<1> DEFINE p == running.derived
<1>1. p \in Promise \cup {NoPromise} /\ p \in Settlers  BY DEF IInv, Others, Settlers
<1>2. Core(state, value, reactions, queue, ran, attached)  BY DEF IInv
<1>3. running' = NoJob /\ UNCHANGED <<created, resolvers, calls, body, attached, ran, overflowed>>
  BY DEF JobThrows
<1>4. CASE p # NoPromise /\ Settle(p, "rejected", PlainValue, queue)
  <2>1. p \in Promise  BY <1>1, <1>4
  <2>2. Keeps(p, queue, ran, attached, ended' = "no") /\ ended' \in {ended, "quota"}
    BY <1>1, <1>2, <1>4, <2>1, PlainIsValue, SettleKeeps
  <2> HIDE DEF p
  <2> QED BY <1>1, <1>3, <2>1, <2>2, ProgramSettles
<1>5. CASE ended' = "throw" /\ UNCHANGED <<promises, queue, fate>>
  <2>1. state' = state /\ value' = value /\ reactions' = reactions /\ queue' = queue
        /\ ran' = ran /\ attached' = attached /\ created' = created
    BY <1>3, <1>5 DEF promises
  <2>2. Others'  BY <1>3, <1>5 DEF IInv, Others, NoJob
  <2>3. Settlers' \subseteq Settlers \cup {NoPromise} /\ (Roomy' => Roomy)
    BY <1>3, <1>5 DEF Settlers, NoJob, Roomy
  <2> QED BY <2>1, <2>2, <2>3, QuietIInv
<1> QED BY <1>4, <1>5 DEF JobThrows

LEMMA CompleteCallStep ==
    ASSUME PromisesAssumption, IInv, NEW p \in calls, NEW outcome \in {"fulfilled", "rejected"},
           CompleteCall(p, outcome)
    PROVE  IInv'
<1>1. p \in Promise /\ p \in Settlers  BY DEF IInv, Others, Settlers
<1>2. Core(state, value, reactions, queue, ran, attached)  BY DEF IInv
<1>3. Settled(p, outcome, PlainValue, queue)  BY DEF CompleteCall
<1>4. Keeps(p, queue, ran, attached, ~Overflows(queue, SettleJobs(p, outcome, PlainValue)))
  BY <1>1, <1>2, <1>3, PlainIsValue, SettledKeeps
<1>5. /\ calls' = calls \ {p}
      /\ overflowed' = (overflowed \/ Overflows(queue, SettleJobs(p, outcome, PlainValue)))
      /\ created' = created /\ resolvers' = resolvers /\ body' = body /\ running' = running
      /\ ended' = ended /\ attached' = attached /\ ran' = ran
  BY DEF CompleteCall
<1>6. Roomy' => Roomy /\ ~Overflows(queue, SettleJobs(p, outcome, PlainValue))  BY <1>5 DEF Roomy
<1>7. Keeps(p, queue, ran, attached, Roomy')  BY <1>4, <1>6 DEF Keeps
<1>8. Others'
  <2>1. overflowed' \in BOOLEAN  BY <1>5 DEF Overflows
  <2>2. calls' \subseteq created'  BY <1>5 DEF IInv, Others
  <2> QED BY <1>5, <2>1, <2>2 DEF IInv, Others
<1>9. Settlers' \subseteq Settlers \cup {NoPromise}  BY <1>5 DEF Settlers
<1>10. Held(p, state, reactions, queue, Settlers)  BY <1>1 DEF Held
<1>11. Roomy => Placed(state, reactions, queue, ran, attached)  BY DEF IInv
<1>12. Roomy' => Roomy  BY <1>6
<1>13. ran' = ran /\ attached' = attached /\ created' = created  BY <1>5
<1> QED BY <1>1, <1>7, <1>8, <1>9, <1>10, <1>11, <1>12, <1>13, KeepsIInv

-----------------------------------------------------------------------------
(* The jobs.                                                               *)

LEMMA JobBasics ==
    ASSUME PromisesAssumption, IInv, JobStarts
    PROVE  /\ Core(state, value, reactions, queue, ran, attached) /\ queue \in Seq(Job) /\ queue # <<>>
           /\ Core(state, value, reactions, Tail(queue), ran, attached)
           /\ \A d \in Promise : Held(d, state, reactions, Tail(queue), Settlers) =>
                 Held(d, state, reactions, queue, Settlers)
           /\ TheJob.id = 0 => (Roomy => Placed(state, reactions, Tail(queue), ran, attached))
           /\ TheJob.id > 0 => (Roomy => Placed(state, reactions, Tail(queue), Append(ran, TheJob.id), attached))
<1>1. Core(state, value, reactions, queue, ran, attached) /\ queue \in Seq(Job) /\ queue # <<>>
  BY DEF IInv, Core, Typed, JobStarts
<1>2. Core(state, value, reactions, Tail(queue), ran, attached)  BY <1>1, PopCore
<1>3. \A d \in Promise : Held(d, state, reactions, Tail(queue), Settlers) =>
         Held(d, state, reactions, queue, Settlers)
  BY <1>1, PopHeld
<1>4. Roomy => Placed(state, reactions, queue, ran, attached)  BY DEF IInv
<1> QED BY <1>1, <1>2, <1>3, <1>4, PopPlaced DEF TheJob

LEMMA RunNativeStep ==
    ASSUME PromisesAssumption, IInv, RunNative
    PROVE  IInv'
<1> DEFINE j == TheJob
           p == j.handler.of
           q == Tail(queue)
<1>1. /\ Core(state, value, reactions, queue, ran, attached) /\ queue # <<>>
      /\ Core(state, value, reactions, q, ran, attached)
      /\ \A d \in Promise : Held(d, state, reactions, q, Settlers) =>
            Held(d, state, reactions, queue, Settlers)
      /\ j.id = 0 => (Roomy => Placed(state, reactions, q, ran, attached))
  BY JobBasics DEF RunNative
<1>2. j.handler.kind \in {"resolve", "reject"}  BY DEF RunNative
<1>3. j \in Job /\ 1 \in 1 .. Len(queue) /\ j = queue[1] /\ j.id = 0 /\ p \in Promise
  <2>1. j = Head(queue)  BY DEF TheJob
  <2> HIDE DEF j
  <2> QED BY <1>1, <1>2, <2>1, HeadIs
<1>4. j.argument \in Value  BY <1>3 DEF Job
<1>5. Keeps(p, q, ran, attached, ended' = "no") /\ ended' \in {ended, "quota"}
  <2>1. CASE Resolve(p, j.argument, q)  BY <1>1, <1>3, <1>4, <2>1, ResolveKeeps
  <2>2. CASE Settle(p, "rejected", j.argument, q)  BY <1>1, <1>3, <1>4, <2>2, SettleKeeps
  <2> QED BY <2>1, <2>2 DEF RunNative
<1>6. /\ created' = created /\ resolvers' = resolvers /\ calls' = calls /\ body' = body
      /\ running' = running /\ ran' = ran /\ attached' = attached /\ overflowed' = overflowed
  BY DEF RunNative, history
<1>7. Others'  BY <1>5, <1>6 DEF IInv, Others
<1>8. Settlers' \subseteq Settlers \cup {NoPromise} /\ (Roomy' => Roomy /\ ended' = "no")
  BY <1>5, <1>6 DEF Settlers, Roomy
<1>9. Keeps(p, q, ran, attached, Roomy')  BY <1>5, <1>8 DEF Keeps
<1>10. Held(p, state, reactions, queue, Settlers)  BY <1>3 DEF Held, Named
<1>11. Roomy => Placed(state, reactions, q, ran, attached)  BY <1>1, <1>3
<1> HIDE DEF j, p, q
<1> QED BY <1>1, <1>3, <1>6, <1>7, <1>8, <1>9, <1>10, <1>11, KeepsIInv

LEMMA RunAdoptThenableStep ==
    ASSUME PromisesAssumption, IInv, RunAdoptThenable
    PROVE  IInv'
<1> DEFINE p == TheJob.derived
<1>1. /\ Core(state, value, reactions, queue, ran, attached) /\ queue # <<>>
      /\ Core(state, value, reactions, Tail(queue), ran, attached)
      /\ \A d \in Promise : Held(d, state, reactions, Tail(queue), Settlers) =>
            Held(d, state, reactions, queue, Settlers)
      /\ TheJob.id = 0 => (Roomy => Placed(state, reactions, Tail(queue), ran, attached))
  BY JobBasics DEF RunAdoptThenable
<1>2. 1 \in 1 .. Len(queue) /\ TheJob = queue[1] /\ TheJob.id = 0 /\ p \in Promise
  BY <1>1, HeadIs DEF RunAdoptThenable, TheJob
<1>3. Held(p, state, reactions, queue, Settlers)  BY <1>2 DEF Held, Named, RunAdoptThenable
<1>4. p \in created  BY <1>2, <1>3 DEF IInv, OwnDerived
<1>5. /\ running' = [what |-> "then", derived |-> p] /\ resolvers' = resolvers \cup {p}
      /\ queue' = Tail(queue) /\ state' = state /\ value' = value /\ reactions' = reactions
      /\ created' = created /\ calls' = calls /\ body' = body /\ ended' = ended
      /\ ran' = ran /\ attached' = attached /\ overflowed' = overflowed
  BY DEF RunAdoptThenable, promises, history
<1>6. Others'  BY <1>4, <1>5 DEF IInv, Others
<1>7. Settlers' \subseteq Settlers \cup {p} /\ (Roomy' => Roomy)  BY <1>5 DEF Settlers, Roomy
<1>8. \A d \in Promise : Held(d, state', reactions', queue', Settlers') => Held(d, state, reactions, queue, Settlers)
  <2>1. ASSUME NEW d \in Promise, Held(d, state, reactions, Tail(queue), Settlers')
        PROVE  Held(d, state, reactions, queue, Settlers)
    <3>1. d = p \/ Held(d, state, reactions, Tail(queue), Settlers)  BY <1>7, <2>1 DEF Held
    <3> QED BY <1>1, <1>3, <3>1
  <2> QED BY <1>5, <2>1
<1>9. OwnDerived(state', reactions', queue', ran, attached, created, Settlers')
  <2>1. OwnDerived(state, reactions, queue, ran, attached, created, Settlers) /\ attached \in Seq(Attachments)
    BY DEF IInv, Core, AttachedOk
  <2> QED BY <1>8, <2>1, OwnSame
<1>10. Roomy' => Placed(state', reactions', queue', ran', attached') /\ Emptied(state', reactions')
  BY <1>1, <1>2, <1>5, <1>7 DEF IInv
<1>11. Core(state', value', reactions', queue', ran', attached') /\ Passed(state', value', ran', attached')
  BY <1>1, <1>5 DEF IInv
<1>12. OwnDerived(state', reactions', queue', ran', attached', created', Settlers')  BY <1>5, <1>9
<1> QED BY <1>6, <1>10, <1>11, <1>12, PrimedIInv

\* The follower waits on the promise followed, named by the job taken.
LEMMA RunAdoptPromiseStep ==
    ASSUME PromisesAssumption, IInv, RunAdoptPromise
    PROVE  IInv'
<1> DEFINE c == TheJob.derived
           p == TheJob.argument.promise
           q == Tail(queue)
           r == [id |-> 0, on_fulfilled |-> [kind |-> "resolve", of |-> TheJob.derived],
                 on_rejected |-> [kind |-> "reject", of |-> TheJob.derived], derived |-> NoPromise]
<1>1. /\ Core(state, value, reactions, queue, ran, attached) /\ queue # <<>>
      /\ Core(state, value, reactions, q, ran, attached)
      /\ \A d \in Promise : Held(d, state, reactions, q, Settlers) =>
            Held(d, state, reactions, queue, Settlers)
      /\ TheJob.id = 0 => (Roomy => Placed(state, reactions, q, ran, attached))
  BY JobBasics DEF RunAdoptPromise
<1>2. 1 \in 1 .. Len(queue) /\ TheJob = queue[1] /\ TheJob.id = 0 /\ c \in Promise /\ TheJob \in Job
  BY <1>1, HeadIs DEF RunAdoptPromise, TheJob
<1>3. p \in Promise
  <2>1. TheJob.argument \in Value /\ TheJob.argument.is = "promise"  BY <1>2 DEF Job, RunAdoptPromise
  <2> QED BY <2>1 DEF Value, Plain, Thenable
<1>4. r \in Reaction /\ Follows(r) /\ r.on_fulfilled.of = c /\ r.on_rejected.of = c
  <2>1. MaxReactions \in Nat /\ 0 \in 0 .. MaxReactions  BY DEF PromisesAssumption
  <2>2. [kind |-> "resolve", of |-> c] \in Handler /\ [kind |-> "reject", of |-> c] \in Handler
    BY <1>2 DEF Handler
  <2> QED BY <2>1, <2>2 DEF Reaction, Follows
<1>5. React(p, r, q)  BY DEF RunAdoptPromise
<1>6. /\ created' = created /\ resolvers' = resolvers /\ calls' = calls /\ body' = body
      /\ running' = running /\ ran' = ran /\ attached' = attached /\ overflowed' = overflowed
  BY DEF RunAdoptPromise, history
<1>7. Held(c, state, reactions, queue, Settlers)  BY <1>2 DEF Held, Named, RunAdoptPromise
<1> HIDE DEF c, p, q, r
<1>8. /\ Core(state', value', reactions', queue', ran, attached)
      /\ state' = state /\ value' = value /\ ended' \in {ended, "quota"}
      /\ \A x : \A d \in Promise :
            Held(d, state', reactions', queue', x) =>
               d \in {r.on_fulfilled.of, r.on_rejected.of} \/ Held(d, state, reactions, q, x)
      /\ \A at1 \in Seq(Attachments) :
            Placed(state, reactions, q, ran, at1) => Placed(state', reactions', queue', ran, at1)
      /\ Emptied(state, reactions) => Emptied(state', reactions')
  BY <1>1, <1>3, <1>4, <1>5, ReactKeeps
<1>9. Others'  BY <1>6, <1>8 DEF IInv, Others
<1>10. Settlers' = Settlers /\ (Roomy' => Roomy)  BY <1>6, <1>8 DEF Settlers, Roomy
<1>11. OwnDerived(state', reactions', queue', ran, attached, created, Settlers)
  <2>1. OwnDerived(state, reactions, queue, ran, attached, created, Settlers) /\ attached \in Seq(Attachments)
    BY DEF IInv, Core, AttachedOk
  <2>2. \A d \in Promise : Held(d, state', reactions', queue', Settlers) =>
            Held(d, state, reactions, queue, Settlers)
    <3>1. ASSUME NEW d \in Promise, Held(d, state', reactions', queue', Settlers)
          PROVE  Held(d, state, reactions, queue, Settlers)
      <4>1. d = c \/ Held(d, state, reactions, q, Settlers)  BY <1>4, <1>8, <3>1
      <4> QED BY <1>1, <1>7, <4>1
    <3> QED BY <3>1
  <2> QED BY <2>1, <2>2, OwnSame
<1>12. Roomy' => Placed(state', reactions', queue', ran', attached') /\ Emptied(state', reactions')
  <2>1. attached \in Seq(Attachments)  BY DEF IInv, Core, AttachedOk
  <2> QED BY <1>1, <1>2, <1>6, <1>8, <1>10, <2>1 DEF IInv
<1>13. Core(state', value', reactions', queue', ran', attached') /\ Passed(state', value', ran', attached')
  BY <1>6, <1>8 DEF IInv
<1>14. OwnDerived(state', reactions', queue', ran', attached', created', Settlers')  BY <1>6, <1>10, <1>11
<1> QED BY <1>9, <1>12, <1>13, <1>14, PrimedIInv

Grown(rn2, rn, i) ==
    \A n \in 1 .. Len(rn2) : (n \in 1 .. Len(rn) /\ rn2[n] = rn[n]) \/ rn2[n] = i

\* A reaction that runs has not run before, and nobody settles what it derives.
LEMMA HeadRuns ==
    ASSUME PromisesAssumption, IInv, JobStarts,
           TheJob.kind = "Settle" \/ (TheJob.kind = "Reaction" /\ TheJob.handler.kind = "user"),
           NEW i, i = TheJob.id, NEW d, d = TheJob.derived, NEW rn2, rn2 = Append(ran, i)
    PROVE  /\ i \in 1 .. Len(attached) /\ i > 0 /\ d = attached[i].reaction.derived
           /\ d \in created \cup {NoPromise}
           /\ d # NoPromise => ~Held(d, state, reactions, queue, Settlers)
           /\ Spared(rn2, ran, attached, d)
           /\ Grown(rn2, ran, i)
           /\ Core(state, value, reactions, Tail(queue), rn2, attached)
<1>1. Core(state, value, reactions, queue, ran, attached) /\ queue # <<>>  BY JobBasics
<1>2. OwnDerived(state, reactions, queue, ran, attached, created, Settlers)  BY DEF IInv
<1>3. /\ i \in 1 .. Len(attached) /\ i > 0 /\ d = attached[i].reaction.derived
      /\ 1 \in 1 .. Len(queue) /\ queue[1].id = i
  BY <1>1, HeadIs DEF TheJob
<1>4. d \in created \cup {NoPromise}  BY <1>2, <1>3 DEF OwnDerived
<1>5. ASSUME NEW n \in 1 .. Len(ran), ran[n] = i PROVE FALSE
  <2>1. ran[n] < queue[1].id  BY <1>1, <1>3, <1>5 DEF Core, RanFirst
  <2> QED BY <1>3, <1>5, <2>1
<1>6. d # NoPromise => ~Held(d, state, reactions, queue, Settlers)  BY <1>2, <1>3, <1>5 DEF OwnDerived
<1>7. ran \in Seq(Nat) /\ i \in Nat  BY <1>1, <1>3 DEF Core, Typed
<1>8. /\ Len(ran) + 1 \in 1 .. Len(rn2) /\ rn2[Len(ran) + 1] = i
      /\ \A n \in 1 .. Len(ran) : n \in 1 .. Len(rn2) /\ rn2[n] = ran[n]
      /\ \A n \in 1 .. Len(rn2) : n \in 1 .. Len(ran) \/ n = Len(ran) + 1
  BY <1>7, AppendIs
<1>9. ASSUME NEW k \in 1 .. Len(attached), \A n \in 1 .. Len(rn2) : rn2[n] # k
      PROVE  /\ \A n \in 1 .. Len(ran) : ran[n] # k
             /\ attached[k].reaction.derived # NoPromise => attached[k].reaction.derived # d
  <2>1. k # i  BY <1>8, <1>9
  <2>2. attached[k].reaction.derived = d => attached[k].reaction.derived = NoPromise
    BY <1>2, <1>3, <2>1 DEF OwnDerived
  <2> QED BY <1>8, <1>9, <2>2
<1>10. Core(state, value, reactions, Tail(queue), rn2, attached)  BY <1>1, <1>3, RanCore DEF TheJob
<1>11. Spared(rn2, ran, attached, d) /\ Grown(rn2, ran, i)  BY <1>8, <1>9 DEF Spared, Grown
<1> QED BY <1>3, <1>4, <1>6, <1>8, <1>10, <1>11

LEMMA RunHandlerStep ==
    ASSUME PromisesAssumption, IInv, RunHandler
    PROVE  IInv'
<1> DEFINE i == TheJob.id
           d == TheJob.derived
           rn2 == Append(ran, i)
<1>0. /\ i = TheJob.id /\ d = TheJob.derived /\ rn2 = Append(ran, i) /\ JobStarts
      /\ (TheJob.kind = "Settle" \/ (TheJob.kind = "Reaction" /\ TheJob.handler.kind = "user"))
  BY DEF RunHandler
<1>1. /\ i \in 1 .. Len(attached) /\ i > 0 /\ d = attached[i].reaction.derived
      /\ d \in created \cup {NoPromise}
      /\ Spared(rn2, ran, attached, d)
      /\ Grown(rn2, ran, i)
      /\ Core(state, value, reactions, Tail(queue), rn2, attached)
  <2> HIDE DEF i, d, rn2
  <2> QED BY <1>0, HeadRuns
<1>2. /\ running' = [what |-> "reaction", derived |-> d] /\ queue' = Tail(queue) /\ ran' = rn2
      /\ state' = state /\ value' = value /\ reactions' = reactions
      /\ created' = created /\ resolvers' = resolvers /\ calls' = calls /\ body' = body /\ ended' = ended
      /\ attached' = attached /\ overflowed' = overflowed
  BY <1>1 DEF RunHandler, Ran, promises
<1>3. /\ \A e \in Promise : Held(e, state, reactions, Tail(queue), Settlers) =>
            Held(e, state, reactions, queue, Settlers)
      /\ Roomy => Placed(state, reactions, Tail(queue), rn2, attached)
      /\ Core(state, value, reactions, queue, ran, attached) /\ queue # <<>>
  BY <1>1, JobBasics DEF RunHandler
<1>4. d \in Promise \cup {NoPromise}  BY <1>1 DEF IInv, Others
<1>5. Others'  BY <1>2, <1>4 DEF IInv, Others
<1>6. Settlers' \subseteq Settlers \cup {d} /\ (Roomy' => Roomy)  BY <1>2 DEF Settlers, Roomy
<1>7. OwnDerived(state, reactions, Tail(queue), rn2, attached, created, Settlers')
  <2>1. OwnDerived(state, reactions, queue, ran, attached, created, Settlers)
        /\ attached \in Seq(Attachments) /\ NoPromise \notin Promise
    BY DEF IInv, Core, AttachedOk, PromisesAssumption
  <2>2. NewlyHeld(state, reactions, Tail(queue), Settlers', state, reactions, queue, Settlers, d)
    <3>1. ASSUME NEW e \in Promise, Held(e, state, reactions, Tail(queue), Settlers')
          PROVE  Held(e, state, reactions, queue, Settlers) \/ e = d
      <4>1. e = d \/ Held(e, state, reactions, Tail(queue), Settlers)  BY <1>6, <3>1 DEF Held
      <4> QED BY <1>3, <4>1
    <3> QED BY <3>1 DEF NewlyHeld
  <2>3. Spared(rn2, ran, attached, d)  BY <1>1
  <2>4. created \subseteq created /\ d \in created \cup {NoPromise}  BY <1>1
  <2> HIDE DEF d, rn2
  <2> QED BY <2>1, <2>2, <2>3, <2>4, OwnKept
<1>8. Passed(state, value, rn2, attached)
  <2>1. HandlerFor(state[attached[i].to], attached[i].reaction).kind = "user"
    BY <1>3, HeadIs DEF RunHandler, TheJob
  <2>2. Passed(state, value, ran, attached)  BY DEF IInv
  <2> HIDE DEF i, rn2
  <2> QED BY <1>1, <2>1, <2>2 DEF Passed, Grown
<1>9. Roomy' => Placed(state', reactions', queue', ran', attached') /\ Emptied(state', reactions')
  BY <1>2, <1>3, <1>6 DEF IInv
<1>10. Core(state', value', reactions', queue', ran', attached') /\ Passed(state', value', ran', attached')
  BY <1>1, <1>2, <1>8
<1>11. OwnDerived(state', reactions', queue', ran', attached', created', Settlers')  BY <1>2, <1>7
<1> QED BY <1>5, <1>9, <1>10, <1>11, PrimedIInv

\* With no handler for the outcome the derived promise takes it over: it was
\* pending until now.
LEMMA RunSettleStep ==
    ASSUME PromisesAssumption, IInv, RunSettle
    PROVE  IInv'
<1> DEFINE i == TheJob.id
           d == TheJob.derived
           rn2 == Append(ran, i)
           to == attached[i].to
<1>0. /\ i = TheJob.id /\ d = TheJob.derived /\ rn2 = Append(ran, i) /\ JobStarts
      /\ (TheJob.kind = "Settle" \/ (TheJob.kind = "Reaction" /\ TheJob.handler.kind = "user"))
  BY DEF RunSettle
<1>1. /\ i \in 1 .. Len(attached) /\ i > 0 /\ d = attached[i].reaction.derived
      /\ d # NoPromise => ~Held(d, state, reactions, queue, Settlers)
      /\ d \in created \cup {NoPromise}
      /\ Spared(rn2, ran, attached, d)
      /\ Grown(rn2, ran, i)
      /\ Core(state, value, reactions, Tail(queue), rn2, attached)
  <2> HIDE DEF i, d, rn2
  <2> QED BY <1>0, HeadRuns
<1>2. /\ \A e \in Promise : Held(e, state, reactions, Tail(queue), Settlers) =>
            Held(e, state, reactions, queue, Settlers)
      /\ Roomy => Placed(state, reactions, Tail(queue), rn2, attached)
      /\ Core(state, value, reactions, queue, ran, attached) /\ queue # <<>>
      /\ Core(state, value, reactions, Tail(queue), ran, attached)
  BY <1>1, JobBasics DEF RunSettle
<1>3. /\ d \in Promise /\ TheJob.state = state[to] /\ TheJob.argument = value[to]
      /\ TheJob.state \in {"fulfilled", "rejected"} /\ TheJob.argument \in Value
      /\ to \in Promise /\ ~Pending(state, attached, i)
  <2> DEFINE j == TheJob
  <2>1. j = Head(queue) /\ j.kind = "Settle"  BY DEF RunSettle, TheJob
  <2> HIDE DEF j
  <2>2. /\ j.derived \in Promise /\ j.state = state[attached[j.id].to] /\ j.argument = value[attached[j.id].to]
        /\ j.state \in {"fulfilled", "rejected"} /\ j.argument \in Value
        /\ attached[j.id].to \in Promise /\ ~Pending(state, attached, j.id)
    BY <1>2, <2>1, HeadIs
  <2> QED BY <2>2 DEF j
<1>4. /\ Settle(d, TheJob.state, TheJob.argument, Tail(queue)) /\ ran' = rn2
      /\ created' = created /\ resolvers' = resolvers /\ calls' = calls /\ body' = body
      /\ running' = running /\ attached' = attached /\ overflowed' = overflowed
  BY <1>1 DEF RunSettle, Ran
<1>5. d \in created /\ state[d] = "pending" /\ ~Held(d, state, reactions, queue, Settlers)
  BY <1>1, <1>3 DEF Held, PromisesAssumption
<1> HIDE DEF i, d, rn2, to
<1>6. /\ Keeps(d, Tail(queue), rn2, attached, ended' = "no") /\ ended' \in {ended, "quota"}
      /\ state'[d] = TheJob.state /\ value'[d] = TheJob.argument
  BY <1>1, <1>3, <1>4, <1>5, SettleKeeps
<1>7. Keeps(d, Tail(queue), ran, attached, ended' = "no")
  BY <1>2, <1>3, <1>4, SettleKeeps
<1>8. Others'  BY <1>4, <1>6 DEF IInv, Others
<1>9. Settlers' = Settlers /\ (Roomy' => Roomy /\ ended' = "no")  BY <1>4, <1>6 DEF Settlers, Roomy
<1>10. Passed(state', value', rn2, attached)
  <2>1. Passed(state', value', ran, attached)  BY <1>7 DEF Keeps, IInv
  <2>2. state'[to] = state[to] /\ value'[to] = value[to]  BY <1>3, <1>6 DEF Keeps, Pending, to
  <2>3. state'[d] = state'[to] /\ value'[d] = value'[to]  BY <1>3, <1>6, <2>2
  <2> QED BY <1>1, <2>1, <2>3 DEF Passed, Grown, to
<1>11. OwnDerived(state', reactions', queue', rn2, attached, created, Settlers)
  <2>1. OwnDerived(state, reactions, queue, ran, attached, created, Settlers)
        /\ attached \in Seq(Attachments) /\ NoPromise \notin Promise
    BY DEF IInv, Core, AttachedOk, PromisesAssumption
  <2>2. NewlyHeld(state', reactions', queue', Settlers, state, reactions, queue, Settlers, d)
    BY <1>2, <1>6 DEF Keeps, NewlyHeld
  <2>3. Spared(rn2, ran, attached, d)  BY <1>1
  <2>4. created \subseteq created /\ d \in created \cup {NoPromise}  BY <1>1
  <2> QED BY <2>1, <2>2, <2>3, <2>4, OwnKept
<1>12. Roomy' => Placed(state', reactions', queue', ran', attached') /\ Emptied(state', reactions')
  BY <1>2, <1>4, <1>6, <1>9 DEF Keeps, IInv
<1>13. Core(state', value', reactions', queue', ran', attached') /\ Passed(state', value', ran', attached')
  BY <1>4, <1>6, <1>10 DEF Keeps
<1>14. OwnDerived(state', reactions', queue', ran', attached', created', Settlers')  BY <1>4, <1>9, <1>11
<1> QED BY <1>8, <1>12, <1>13, <1>14, PrimedIInv

LEMMA NextIInv ==
    ASSUME PromisesAssumption, IInv, [Next]_pvars
    PROVE  IInv'
<1>1. CASE Program
  BY <1>1, NewPromiseStep, ThenStep, AwaitStep, CallResolveStep, CallRejectStep, QuietStep,
     JobReturnsStep, JobThrowsStep DEF Program
<1>2. CASE RunJob
  BY <1>2, RunSettleStep, RunAdoptPromiseStep, RunAdoptThenableStep, RunNativeStep, RunHandlerStep DEF RunJob
<1>3. CASE \E p \in calls, outcome \in {"fulfilled", "rejected"} : CompleteCall(p, outcome)
  BY <1>3, CompleteCallStep
<1>4. CASE SliceEnds \/ BodyResumes \/ UNCHANGED pvars  BY <1>4, QuietStep
<1> QED BY <1>1, <1>2, <1>3, <1>4 DEF Next

THEOREM Inductive == ASSUME PromisesAssumption PROVE Spec => []IInv
<1>1. Init => IInv  BY InitIInv
<1>2. IInv /\ [Next]_pvars => IInv'  BY NextIInv
<1> QED BY <1>1, <1>2, PTL DEF Spec

-----------------------------------------------------------------------------
(* What the invariant says of every reaction.                              *)

LEMMA InvTypeOK == IInv => TypeOK
BY DEF IInv, Others, Core, Typed, TypeOK

\* Where a reaction is: each waits in one place, is queued in one, or ran once.
LEMMA InOnePlace ==
    ASSUME PromisesAssumption, IInv, Roomy, NEW id \in 1 .. Len(attached)
    PROVE  /\ Cardinality(Waiting(id)) + Cardinality(Queued(id)) + Cardinality(RunOf(id)) = 1
           /\ Waiting(id) # {} <=> state[attached[id].to] = "pending"
<1> DEFINE to == attached[id].to
<1>1. /\ Core(state, value, reactions, queue, ran, attached) /\ attached \in Seq(Attachments)
      /\ Placed(state, reactions, queue, ran, attached) /\ Emptied(state, reactions)
  BY DEF IInv, Core, AttachedOk
<1>2. to \in Promise /\ id > 0 /\ id \in Nat  BY <1>1, AttachmentType
<1>3. \A p \in Promise : \A n \in 1 .. Len(reactions[p]) : reactions[p][n].id = id => p = to
  BY <1>1, <1>2 DEF Core, WaitsOk, Follows
<1>4. \A w \in Waiting(id) : w = <<to, w[2]>> /\ w[2] \in 1 .. Len(reactions[to]) /\ reactions[to][w[2]].id = id
  <2>1. ASSUME NEW w \in Waiting(id)
        PROVE  w = <<to, w[2]>> /\ w[2] \in 1 .. Len(reactions[to]) /\ reactions[to][w[2]].id = id
    <3>1. PICK p \in Promise : w \in {p} \X (1 .. Len(reactions[p]))  BY <2>1 DEF Waiting
    <3>2. w = <<p, w[2]>> /\ w[1] = p /\ w[2] \in 1 .. Len(reactions[p])  BY <3>1
    <3>3. reactions[p][w[2]].id = id  BY <2>1, <3>2 DEF Waiting
    <3> QED BY <1>3, <3>2, <3>3
  <2> QED BY <2>1
<1>5. \A n \in 1 .. Len(reactions[to]) : reactions[to][n].id = id => <<to, n>> \in Waiting(id)
  BY <1>2 DEF Waiting
<1>6. \A i, j \in 1 .. Len(reactions[to]) : i < j => ~(reactions[to][i].id = id /\ reactions[to][j].id = id)
  BY <1>1, <1>2 DEF Core, WaitOrder
<1>7. \A i, j \in 1 .. Len(queue) : i < j => ~(queue[i].id = id /\ queue[j].id = id)
  BY <1>1, <1>2 DEF Core, QueueOrder
<1>8. \A i, j \in 1 .. Len(ran) : i < j => ~(ran[i] = id /\ ran[j] = id)
  BY <1>1, <1>2 DEF Core, RanOrder
<1>9. \A i \in 1 .. Len(ran), j \in 1 .. Len(queue) : ~(ran[i] = id /\ queue[j].id = id)
  BY <1>1, <1>2 DEF Core, RanFirst
<1>10. Cardinality({}) = 0  BY FS_EmptySet
<1>11. CASE state[to] = "pending"
  <2>1. PICK n \in 1 .. Len(reactions[to]) : reactions[to][n].id = id
    BY <1>1, <1>11 DEF Placed, Pending
  <2>2. \A m \in 1 .. Len(reactions[to]) : reactions[to][m].id = id => m = n
    BY <1>6, <2>1
  <2>3. Waiting(id) = {<<to, n>>}  BY <1>4, <1>5, <2>1, <2>2
  <2>4. \A m \in 1 .. Len(queue) : queue[m].id # id
    BY <1>1, <1>2, <1>11 DEF Core, JobsOk, Pending
  <2>5. \A m \in 1 .. Len(ran) : ran[m] # id
    BY <1>1, <1>11 DEF Core, RanOk, Pending
  <2>6. Queued(id) = {} /\ RunOf(id) = {}  BY <2>4, <2>5 DEF Queued, RunOf
  <2>7. Cardinality({<<to, n>>}) = 1  BY FS_Singleton
  <2> QED BY <1>10, <1>11, <2>3, <2>6, <2>7
<1>12. CASE state[to] # "pending"
  <2>1. reactions[to] = <<>>  BY <1>1, <1>2, <1>12 DEF Emptied
  <2>2. Waiting(id) = {}  BY <1>4, <2>1
  <2>3. (\E n \in 1 .. Len(queue) : queue[n].id = id) \/ \E n \in 1 .. Len(ran) : ran[n] = id
    BY <1>1, <1>12 DEF Placed, Pending
  <2>4. CASE \E n \in 1 .. Len(queue) : queue[n].id = id
    <3>1. PICK n \in 1 .. Len(queue) : queue[n].id = id  BY <2>4
    <3>2. \A m \in 1 .. Len(queue) : queue[m].id = id => m = n  BY <1>7, <3>1
    <3>3. Queued(id) = {n}  BY <3>1, <3>2 DEF Queued
    <3>4. RunOf(id) = {}  BY <1>9, <3>1 DEF RunOf
    <3>5. Cardinality({n}) = 1  BY FS_Singleton
    <3> QED BY <1>10, <1>12, <2>2, <3>3, <3>4, <3>5
  <2>5. CASE \E n \in 1 .. Len(ran) : ran[n] = id
    <3>1. PICK n \in 1 .. Len(ran) : ran[n] = id  BY <2>5
    <3>2. \A m \in 1 .. Len(ran) : ran[m] = id => m = n  BY <1>8, <3>1
    <3>3. RunOf(id) = {n}  BY <3>1, <3>2 DEF RunOf
    <3>4. Queued(id) = {}  BY <1>9, <3>1 DEF Queued
    <3>5. Cardinality({n}) = 1  BY FS_Singleton
    <3> QED BY <1>10, <1>12, <2>2, <3>3, <3>4, <3>5
  <2> QED BY <2>3, <2>4, <2>5
<1> QED BY <1>11, <1>12

LEMMA InvReactions == PromisesAssumption /\ IInv => ReactionsRun
<1> SUFFICES ASSUME PromisesAssumption, IInv PROVE ReactionsRun  OBVIOUS
<1>1. TypeOK  BY InvTypeOK
<1>2. ReactionsKept  BY InOnePlace DEF ReactionsKept, Roomy
<1>3. OrderKept  BY DEF IInv, Core, RanOrder, OrderKept
<1>4. PassesThrough  BY DEF IInv, Passed, PassesThrough
<1> QED BY <1>1, <1>2, <1>3, <1>4 DEF ReactionsRun

\* No reaction of then or await is lost, and none runs twice: it waits while its
\* promise is pending, is queued once that has settled, and has run once, in the
\* order of attachment; with no handler it passes the outcome on.  That is so
\* of any number of promises and reactions, until a full queue ends the task.
THEOREM EveryReactionRuns == ASSUME PromisesAssumption PROVE Spec => []ReactionsRun
<1>1. Spec => []IInv  BY Inductive
<1>2. IInv => ReactionsRun  BY InvReactions
<1> QED BY <1>1, <1>2, PTL

-----------------------------------------------------------------------------
(* A promise settles once.                                                 *)

Stable == \A p \in Promise : state[p] # "pending" => state'[p] = state[p] /\ value'[p] = value[p]

LEMMA SettledStable ==
    ASSUME TypeOK, NEW p, NEW outcome, NEW v, NEW q, Settled(p, outcome, v, q)
    PROVE  Stable
<1>1. state \in [Promise -> States] /\ value \in [Promise -> Value]  BY DEF TypeOK
<1>2. CASE state[p] # "pending"  BY <1>2 DEF Settled, Stable, promises
<1>3. CASE state[p] = "pending"
  <2>1. state' = [state EXCEPT ![p] = outcome] /\ value' = [value EXCEPT ![p] = v]  BY <1>3 DEF Settled
  <2> QED BY <1>1, <1>3, <2>1 DEF Stable
<1> QED BY <1>2, <1>3

LEMMA ResolveStable ==
    ASSUME TypeOK, NEW p, NEW v, NEW q, Resolve(p, v, q)
    PROVE  Stable
<1>1. CASE UNCHANGED promises  BY <1>1 DEF promises, Stable
<1>2. CASE Settled(p, "rejected", PlainValue, q) \/ Settled(p, "fulfilled", v, q)  BY <1>2, SettledStable
<1> QED BY <1>1, <1>2 DEF Resolve, Settle

LEMMA ReactStable ==
    ASSUME NEW p, NEW r, NEW q, React(p, r, q)
    PROVE  Stable
BY DEF React, Stable, promises

LEMMA NextStable ==
    ASSUME TypeOK, [Next]_pvars
    PROVE  Stable
<1>1. CASE UNCHANGED promises  BY <1>1 DEF promises, Stable
<1>2. ASSUME NEW call \in BOOLEAN, NewPromise(call) PROVE Stable  BY <1>1, <1>2 DEF NewPromise
<1>3. ASSUME NEW p \in created, NEW f \in Handlers, NEW g \in Handlers, Then(p, f, g) PROVE Stable
  BY <1>3, ReactStable DEF Then, Attach
<1>4. ASSUME NEW p \in created, Await(p) PROVE Stable  BY <1>4, ReactStable DEF Await, Attach
<1>5. ASSUME NEW p \in resolvers, NEW v \in Values, CallResolve(p, v) PROVE Stable
  BY <1>5, ResolveStable DEF CallResolve
<1>6. ASSUME NEW p \in resolvers, CallReject(p) PROVE Stable
  BY <1>6, SettledStable DEF CallReject, Settle
<1>7. ASSUME NEW throws \in BOOLEAN, BodyEnds(throws) PROVE Stable  BY <1>1, <1>7 DEF BodyEnds
<1>8. ASSUME NEW v \in Values, JobReturns(v) PROVE Stable
  <2>1. CASE Resolve(running.derived, v, queue)  BY <2>1, ResolveStable
  <2> QED BY <1>1, <1>8, <2>1 DEF JobReturns
<1>9. CASE JobThrows
  <2>1. CASE Settle(running.derived, "rejected", PlainValue, queue)  BY <2>1, SettledStable DEF Settle
  <2> QED BY <1>1, <1>9, <2>1 DEF JobThrows
<1>10. CASE SliceEnds \/ BodyResumes  BY <1>1, <1>10 DEF SliceEnds, BodyResumes
<1>11. CASE RunSettle  BY <1>11, SettledStable DEF RunSettle, Settle
<1>12. CASE RunAdoptPromise  BY <1>12, ReactStable DEF RunAdoptPromise
<1>13. CASE RunAdoptThenable  BY <1>1, <1>13 DEF RunAdoptThenable
<1>14. CASE RunNative  BY <1>14, ResolveStable, SettledStable DEF RunNative, Settle
<1>15. CASE RunHandler  BY <1>1, <1>15 DEF RunHandler
<1>16. ASSUME NEW p \in calls, NEW outcome \in {"fulfilled", "rejected"}, CompleteCall(p, outcome)
       PROVE  Stable
  BY <1>16, SettledStable DEF CompleteCall
<1>17. CASE UNCHANGED pvars  BY <1>1, <1>17 DEF pvars
<1>18. CASE Program
  BY <1>2, <1>3, <1>4, <1>5, <1>6, <1>7, <1>8, <1>9, <1>18 DEF Program
<1>19. CASE RunJob  BY <1>11, <1>12, <1>13, <1>14, <1>15, <1>19 DEF RunJob
<1> QED BY <1>10, <1>16, <1>17, <1>18, <1>19 DEF Next

\* A promise that has settled keeps its state and its value, whoever settles it
\* again: a resolve function called twice, a throw after a resolve, a thenable
\* that calls both of its functions, a completion.
THEOREM PromisesSettleOnce == ASSUME PromisesAssumption PROVE Spec => SettlesOnce
<1>1. Spec => []IInv  BY Inductive
<1>2. IInv /\ [Next]_pvars => [Stable]_pvars  BY InvTypeOK, NextStable
<1>3. Spec => [][Stable]_pvars  BY <1>1, <1>2, PTL DEF Spec
<1> QED BY <1>3 DEF Stable, SettlesOnce

-----------------------------------------------------------------------------
(***************************************************************************)
(* The ring implements the queue.  The invariant the refinement needs is   *)
(* the type invariant: a head inside the ring and a length no greater than *)
(* the capacity are what make the slot after the last job a slot no queued *)
(* job is in.                                                              *)
(***************************************************************************)

\* Positions of the ring: adding at most a whole turn to a slot wraps at most
\* once.
LEMMA Wraps ==
    ASSUME NEW N \in Nat \ {0}, NEW h \in 0 .. N - 1, NEW i \in 0 .. N
    PROVE  (h + i) % N = IF h + i < N THEN h + i ELSE h + i - N
<1>1. CASE h + i < N  BY <1>1, SMT
<1>2. CASE h + i >= N
  <2>1. h + i - N \in 0 .. N - 1  BY <1>2
  <2>2. (h + i - N) % N = h + i - N  BY <2>1, SMT
  <2>3. ((h + i - N) + N) % N = (h + i - N) % N  BY <2>1, SMT
  <2> QED BY <1>2, <2>2, <2>3
<1> QED BY <1>1, <1>2

\* A position is a slot, and two offsets less than a turn apart are two slots.
LEMMA Positions ==
    ASSUME RingOK, Capacity # 0
    PROVE  /\ \A i \in 0 .. Capacity : At(i) \in Slots
           /\ \A i, j \in 0 .. Capacity - 1 : i # j => At(i) # At(j)
<1>1. ring.head \in 0 .. Capacity - 1 /\ Capacity \in Nat \ {0}
  BY JobQueueAssumption DEF RingOK, Ring, Slots
<1>2. \A i \in 0 .. Capacity :
         At(i) = IF ring.head + i < Capacity THEN ring.head + i
                 ELSE ring.head + i - Capacity
  BY <1>1, Wraps DEF At
<1>3. \A i \in 0 .. Capacity : At(i) \in Slots  BY <1>1, <1>2 DEF Slots
<1>4. \A i, j \in 0 .. Capacity - 1 : i # j => At(i) # At(j)
  BY <1>1, <1>2
<1> QED BY <1>3, <1>4

\* Every step of the ring keeps the head inside it and the length within the
\* capacity.
THEOREM TypeCorrect == RingSpec => []RingOK
<1>1. RingInit => RingOK
  <2> SUFFICES ASSUME RingInit PROVE RingOK
    OBVIOUS
  <2>1. slots \in [Slots -> Jobs \cup {EmptyJob}]  BY DEF RingInit
  <2>2. ring \in Ring  BY JobQueueAssumption DEF RingInit, Ring, Slots
  <2> QED BY <2>1, <2>2 DEF RingInit, RingOK
<1>2. RingOK /\ [RingNext]_qvars => RingOK'
  <2> SUFFICES ASSUME RingOK, [RingNext]_qvars PROVE RingOK'
    OBVIOUS
  <2> USE JobQueueAssumption
  <2>1. CASE Begin  BY <2>1 DEF Begin, RingOK
  <2>2. CASE Save   BY <2>2 DEF Save, RingOK
  <2>3. CASE Pop
    <3>1. CASE ring.length = 0  BY <2>3, <3>1 DEF Pop, RingOK
    <3>2. CASE ring.length # 0
      <4>1. Capacity # 0 /\ ring.length \in 1 .. Capacity
        BY <3>2 DEF RingOK, Ring
      <4>2. At(1) \in Slots  BY <4>1, Positions
      <4>3. ring.head \in Slots  BY <4>1 DEF RingOK, Ring, Slots
      <4> QED BY <2>3, <3>2, <4>1, <4>2, <4>3 DEF Pop, RingOK, Ring
    <3> QED BY <3>1, <3>2
  <2>4. ASSUME NEW job \in Jobs, PushJob(job) PROVE RingOK'
    <3>1. CASE ring.length = Capacity  BY <2>4, <3>1 DEF PushJob, RingOK
    <3>2. CASE ring.length # Capacity
      <4>1. Capacity # 0 /\ ring.length \in 0 .. Capacity - 1
        BY <3>2 DEF RingOK, Ring
      <4>2. ring' = [ring EXCEPT !.length = @ + 1] /\ ring' \in Ring
        BY <2>4, <3>2, <4>1 DEF PushJob, RingOK, Ring
      <4>3. slots' \in [Slots -> Jobs \cup {EmptyJob}]
        BY <2>4, <3>2 DEF PushJob, RingOK
      <4> QED BY <2>4, <3>2, <4>2, <4>3 DEF PushJob, RingOK
    <3> QED BY <3>1, <3>2
  <2>5. CASE UNCHANGED qvars  BY <2>5 DEF qvars, RingOK
  <2> QED BY <2>1, <2>2, <2>3, <2>4, <2>5 DEF RingNext
<1> QED BY <1>1, <1>2, PTL DEF RingSpec

----------------------------------------------------------------------------
(* What the operations do to the sequence of jobs.                         *)

LEMMA ContentsSeq ==
    ASSUME RingOK
    PROVE  /\ Contents \in Seq(Jobs \cup {EmptyJob})
           /\ Len(Contents) = ring.length
<1>1. ring.length \in 0 .. Capacity  BY DEF RingOK, Ring
<1>2. \A n \in 1 .. ring.length : slots[At(n - 1)] \in Jobs \cup {EmptyJob}
  <2> SUFFICES ASSUME NEW n \in 1 .. ring.length
               PROVE  slots[At(n - 1)] \in Jobs \cup {EmptyJob}
    OBVIOUS
  <2>1. Capacity # 0 /\ n - 1 \in 0 .. Capacity  BY <1>1, JobQueueAssumption
  <2>2. At(n - 1) \in Slots  BY <2>1, Positions
  <2> QED BY <2>2 DEF RingOK
<1> QED BY <1>1, <1>2, JobQueueAssumption DEF Contents

LEMMA PushAppends ==
    ASSUME RingOK, NEW job \in Jobs, PushJob(job), ring.length # Capacity
    PROVE  Contents' = Append(Contents, job)
<1> DEFINE l == ring.length
<1>1. Capacity # 0 /\ l \in 0 .. Capacity - 1 /\ Capacity \in Nat
  BY JobQueueAssumption DEF RingOK, Ring
<1>2. /\ slots' = [slots EXCEPT ![At(l)] = job]
      /\ ring'.length = l + 1 /\ ring'.head = ring.head
  BY DEF PushJob, RingOK, Ring
<1>3. \A n \in 1 .. l + 1 : At(n - 1)' = At(n - 1)  BY <1>2 DEF At
<1>4. At(l) \in Slots  BY <1>1, Positions
<1>5. slots'[At(l)] = job  BY <1>2, <1>4 DEF RingOK
<1>6. \A n \in 1 .. l : slots'[At(n - 1)] = slots[At(n - 1)]
  <2> SUFFICES ASSUME NEW n \in 1 .. l PROVE slots'[At(n - 1)] = slots[At(n - 1)]
    OBVIOUS
  <2>1. n - 1 \in 0 .. Capacity - 1 /\ n - 1 # l /\ n - 1 \in 0 .. Capacity  BY <1>1
  <2>2. At(n - 1) # At(l) /\ At(n - 1) \in Slots  BY <1>1, <2>1, Positions
  <2> QED BY <1>2, <2>2 DEF RingOK
<1>7. Contents' = [n \in 1 .. l + 1 |-> slots'[At(n - 1)]]
  BY <1>2, <1>3 DEF Contents
<1>8. Contents = [n \in 1 .. l |-> slots[At(n - 1)]]  BY DEF Contents
<1>9. Contents \in Seq(Jobs \cup {EmptyJob}) /\ Len(Contents) = l  BY ContentsSeq
<1>10. Append(Contents, job) = [n \in 1 .. l + 1 |-> IF n = l + 1 THEN job ELSE Contents[n]]
  <2> DEFINE S == Jobs \cup {EmptyJob}
             t == Append(Contents, job)
  <2>1. /\ t \in Seq(S) /\ Len(t) = l + 1 /\ t[l + 1] = job
        /\ \A n \in 1 .. l : t[n] = Contents[n]
    BY <1>9, AppendProperties
  <2>2. t \in [1 .. l + 1 -> S]  BY <2>1, LenProperties
  <2>3. \A n \in 1 .. l + 1 : t[n] = IF n = l + 1 THEN job ELSE Contents[n]
    BY <1>1, <2>1
  <2> HIDE DEF t, S
  <2>4. t = [n \in 1 .. l + 1 |-> IF n = l + 1 THEN job ELSE Contents[n]]
    BY <2>2, <2>3
  <2> QED BY <2>4 DEF t
<1>11. \A n \in 1 .. l + 1 :
          slots'[At(n - 1)] = IF n = l + 1 THEN job ELSE Contents[n]
  <2> SUFFICES ASSUME NEW n \in 1 .. l + 1
               PROVE  slots'[At(n - 1)] = IF n = l + 1 THEN job ELSE Contents[n]
    OBVIOUS
  <2>1. CASE n = l + 1
    <3>1. n - 1 = l  BY <1>1, <2>1
    <3> QED BY <2>1, <3>1, <1>5
  <2>2. CASE n # l + 1
    <3>1. n \in 1 .. l  BY <1>1, <2>2
    <3> QED BY <2>2, <3>1, <1>6, <1>8
  <2> QED BY <2>1, <2>2
<1> QED BY <1>7, <1>10, <1>11

LEMMA PopTakesHead ==
    ASSUME RingOK, Pop, ring.length # 0
    PROVE  /\ Contents # <<>>
           /\ answer' = Head(Contents)
           /\ Contents' = Tail(Contents)
<1> DEFINE l == ring.length
<1>1. Capacity # 0 /\ l \in 1 .. Capacity /\ Capacity \in Nat
  BY JobQueueAssumption DEF RingOK, Ring
<1>2. ring.head \in 0 .. Capacity - 1  BY <1>1 DEF RingOK, Ring, Slots
<1>3. /\ slots' = slots /\ answer' = slots[ring.head]
      /\ ring'.head = At(1) /\ ring'.length = l - 1
  BY DEF Pop
<1>4. Contents \in Seq(Jobs \cup {EmptyJob}) /\ Len(Contents) = l  BY ContentsSeq
<1>5. Contents = [n \in 1 .. l |-> slots[At(n - 1)]]  BY DEF Contents
<1>6. At(0) = ring.head
  <2>1. (ring.head + 0) % Capacity = IF ring.head + 0 < Capacity THEN ring.head + 0
                                      ELSE ring.head + 0 - Capacity
    BY <1>1, <1>2, Wraps
  <2> QED BY <1>1, <1>2, <2>1 DEF At
<1>7. Head(Contents) = slots[ring.head] /\ Contents # <<>>
  <2>1. Contents[1] = slots[At(0)]  BY <1>1, <1>5
  <2> QED BY <1>1, <1>4, <1>6, <2>1
<1>8. \A n \in 1 .. l - 1 : At(n - 1)' = At(n)
  <2> SUFFICES ASSUME NEW n \in 1 .. l - 1 PROVE At(n - 1)' = At(n)
    OBVIOUS
  <2>1. At(n - 1)' = (At(1) + (n - 1)) % Capacity  BY <1>3 DEF At
  <2>2. n - 1 \in 0 .. Capacity /\ n \in 0 .. Capacity /\ 1 \in 0 .. Capacity
    BY <1>1
  <2>3. At(1) = IF ring.head + 1 < Capacity THEN ring.head + 1
                ELSE ring.head + 1 - Capacity
    BY <1>1, <1>2, <2>2, Wraps DEF At
  <2>4. At(1) \in 0 .. Capacity - 1  BY <1>1, <1>2, <2>3
  <2>5. (At(1) + (n - 1)) % Capacity =
           IF At(1) + (n - 1) < Capacity THEN At(1) + (n - 1)
           ELSE At(1) + (n - 1) - Capacity
    BY <1>1, <2>2, <2>4, Wraps
  <2>6. At(n) = IF ring.head + n < Capacity THEN ring.head + n
                ELSE ring.head + n - Capacity
    BY <1>1, <1>2, <2>2, Wraps DEF At
  <2> QED BY <1>1, <1>2, <2>1, <2>3, <2>5, <2>6
<1>9. Contents' = [n \in 1 .. l - 1 |-> slots[At(n)]]
  BY <1>3, <1>8 DEF Contents
<1>10. Tail(Contents) = [n \in 1 .. l - 1 |-> Contents[n + 1]]
  <2> DEFINE S == Jobs \cup {EmptyJob}
             t == Tail(Contents)
  <2>1. /\ t \in Seq(S) /\ Len(t) = l - 1
        /\ \A n \in 1 .. l - 1 : t[n] = Contents[n + 1]
    BY <1>4, <1>7, HeadTailProperties
  <2>2. t \in [1 .. l - 1 -> S]  BY <2>1, LenProperties
  <2> HIDE DEF t, S
  <2>3. t = [n \in 1 .. l - 1 |-> Contents[n + 1]]  BY <2>1, <2>2
  <2> QED BY <2>3 DEF t
<1>11. \A n \in 1 .. l - 1 : Contents[n + 1] = slots[At(n)]
  <2> SUFFICES ASSUME NEW n \in 1 .. l - 1 PROVE Contents[n + 1] = slots[At(n)]
    OBVIOUS
  <2>1. n + 1 \in 1 .. l /\ (n + 1) - 1 = n  BY <1>1
  <2> QED BY <1>5, <2>1
<1> QED BY <1>3, <1>7, <1>9, <1>10, <1>11

\* The ring is a bounded first-in first-out queue, for every capacity: jobs
\* come out as they went in, across steps that save and restore it, a push is
\* refused exactly when it is full, and no queued job is overwritten.
THEOREM RingIsFifo == RingSpec => IsFifo
<1>1. RingInit => F!Init
  BY DEF RingInit, F!Init, Contents
<1>2. RingOK /\ [RingNext]_qvars => [F!Next]_(F!fvars)
  <2> SUFFICES ASSUME RingOK, [RingNext]_qvars PROVE [F!Next]_(F!fvars)
    OBVIOUS
  <2>0. /\ Contents \in Seq(Jobs \cup {EmptyJob}) /\ Len(Contents) = ring.length
        /\ ring.length \in 0 .. Capacity /\ Capacity \in Nat
    BY ContentsSeq, JobQueueAssumption DEF RingOK, Ring
  <2>1. ASSUME UNCHANGED <<slots, ring, answer>> PROVE UNCHANGED F!fvars
    BY <2>1 DEF F!fvars, Contents, At
  <2>2. CASE Begin  BY <2>1, <2>2 DEF Begin
  <2>3. CASE Save   BY <2>1, <2>3 DEF Save
  <2>4. CASE Pop
    <3>1. CASE ring.length = 0
      <4>1. answer' = "none" /\ UNCHANGED <<slots, ring>>  BY <2>4, <3>1 DEF Pop
      <4>2. UNCHANGED Contents  BY <4>1 DEF Contents, At
      <4>3. Contents = <<>>  BY <2>0, <3>1
      <4> QED BY <4>1, <4>2, <4>3 DEF F!Next, F!Pop
    <3>2. CASE ring.length # 0
      BY <2>4, <3>2, PopTakesHead DEF F!Next, F!Pop
    <3> QED BY <3>1, <3>2
  <2>5. ASSUME NEW job \in Jobs, PushJob(job) PROVE F!Next
    <3>1. CASE ring.length = Capacity
      <4>1. answer' = "full" /\ UNCHANGED <<slots, ring>>  BY <2>5, <3>1 DEF PushJob
      <4>2. UNCHANGED Contents  BY <4>1 DEF Contents, At
      <4> QED BY <2>0, <3>1, <4>1, <4>2 DEF F!Next, F!Push
    <3>2. CASE ring.length # Capacity
      <4>1. answer' = "ok"  BY <2>5, <3>2 DEF PushJob
      <4>2. Len(Contents) < Capacity  BY <2>0, <3>2
      <4> QED BY <2>5, <3>2, <4>1, <4>2, PushAppends DEF F!Next, F!Push
    <3> QED BY <3>1, <3>2
  <2>6. CASE UNCHANGED qvars  BY <2>1, <2>6 DEF qvars
  <2> QED BY <2>2, <2>3, <2>4, <2>5, <2>6 DEF RingNext
<1> QED BY <1>1, <1>2, TypeCorrect, PTL DEF RingSpec, IsFifo, F!Spec
=============================================================================
