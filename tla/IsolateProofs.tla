---------------------------- MODULE IsolateProofs ----------------------------
(***************************************************************************)
(* Isolate, for every image, graph and size of its tables.                 *)
(*                                                                         *)
(* The parts of advance are operators from a machine to the machines it    *)
(* may leave, so what they keep is a predicate of a machine, MachineInv,   *)
(* with a lemma for each part; AdvanceStep is their composition.  What the *)
(* staging needs is that the cells of the image are all accounted for      *)
(* (ImageInv), and the publishing that a length does not change once       *)
(* something was written (OutputInv).                                      *)
(***************************************************************************)
EXTENDS Isolate, FiniteSetTheorems, TLAPS

Unless(q, n) == IF q \in n THEN 1 ELSE 0

\* A machine within its limits, whose calls are each outstanding or settled.
MachineInv(s) ==
    /\ s \in Machines
    /\ Cardinality(s.pending) <= PendingCount
    /\ Cardinality(s.unwritten) <= WireFrames
    /\ \A q \in Requests : s.settled[q] + Unless(q, s.pending) = IF q <= s.made THEN 1 ELSE 0

\* Every cell of an image that is not over its size is staged, on the stream or
\* still to be sent, and a stream that was written to hangs up after its last.
\* What is past its staging is an image that was not over its size, whole.
ImageInv ==
    /\ image \in Images
    /\ image.source \in {"stream", "copied", "mapped"}
    /\ image.source = "stream" =>
          /\ image.length <= ImageCapacity
          /\ ~image.overflowed => image.length + image.waiting + image.unsent = image.total
          /\ image.hung_up => image.unsent = 0 \/ image.length + image.waiting = 0
    /\ image.source = "mapped" => image.length = image.total
    /\ phase = 1 => ~image.overflowed /\ image.length = image.total /\ image.kind = "good"

\* Nothing is written before the outcome is there, and no more than there is.
OutputInv ==
    /\ ended \in [failed : BOOLEAN, rejected : BOOLEAN, diagnostic : BOOLEAN,
                  length : {0, OutputCells}]
    /\ written \in [Ports -> Nat] /\ held \in [Ports -> 0 .. 1]
    /\ \A p \in Ports : written[p] <= Length(p)
    /\ phase < 2 => \A p \in Ports : written[p] = 0
    /\ ExitIsLast

\* The phase, the realm's stages, the stop and what has arrived.
OtherInv ==
    /\ graph \in Graphs /\ phase \in 0 .. 3
    /\ boot \in Boots /\ stop \in BOOLEAN
    /\ ready \in SUBSET Requests /\ Cardinality(ready) <= 1 /\ arrived \in 0 .. MaxAnswers

IInv == ImageInv /\ MachineInv(m) /\ OutputInv /\ OtherInv

-----------------------------------------------------------------------------
(* The parts of advance.                                                   *)

LEMMA Sizes ==
    ASSUME IsolateAssumption
    PROVE  /\ JobCount \in Nat /\ WireFrames \in Nat /\ CallWait \in Nat
           /\ MaxCalls \in Nat /\ MaxAnswers \in Nat /\ EmptyWait \in Nat
           /\ BuildStages \in Nat /\ SeedWords \in Nat /\ ImageCapacity \in Nat
           /\ ModuleCount \in Nat \ {0} /\ PendingCount \in Nat \ {0}
           /\ OutputCells \in Nat \ {0}
BY DEF IsolateAssumption

LEMMA PausesType ==
    ASSUME IsolateAssumption
    PROVE  Pauses \subseteq BOOLEAN
BY DEF IsolateAssumption, Pauses

LEMMA RequestsFinite ==
    ASSUME IsolateAssumption, NEW S \in SUBSET Requests
    PROVE  IsFiniteSet(S) /\ Cardinality(S) \in Nat
<1>1. MaxCalls \in Nat  BY Sizes
<1>2. IsFiniteSet(Requests)  BY <1>1, FS_Interval DEF Requests
<1> QED BY <1>2, FS_Subset, FS_CardinalityType

\* A machine that differs in none of its calls.
LEMMA SameCalls ==
    ASSUME NEW s, NEW t, MachineInv(s), t \in Machines,
           t.pending = s.pending, t.unwritten = s.unwritten, t.settled = s.settled, t.made = s.made
    PROVE  MachineInv(t)
BY DEF MachineInv

LEMMA MovedKeeps ==
    ASSUME NEW s, MachineInv(s)
    PROVE  MachineInv(Moved(s))
<1>1. s \in Machines  BY DEF MachineInv
<1>2. Moved(s) \in Machines  BY <1>1 DEF Moved, Machines
<1> QED BY <1>1, <1>2, SameCalls DEF Moved, Machines

LEMMA EndKeeps ==
    ASSUME NEW s, MachineInv(s), NEW d \in BOOLEAN, NEW o \in {"Done", "Rejected", "Failed"}
    PROVE  MachineInv(End(s, o, d))
<1>1. s \in Machines  BY DEF MachineInv
<1>2. End(s, o, d) \in Machines  BY <1>1 DEF End, Machines
<1> QED BY <1>1, <1>2, SameCalls DEF End, Machines

LEMMA FailKeeps ==
    ASSUME NEW s, MachineInv(s), NEW d \in BOOLEAN
    PROVE  MachineInv(Fail(s, d)) /\ MachineInv(Moved(s)) /\ MachineInv(Fail(Moved(s), d))
BY EndKeeps, MovedKeeps DEF Fail

LEMMA CollectingKeeps ==
    ASSUME NEW s, MachineInv(s), NEW c \in BOOLEAN
    PROVE  MachineInv(Collecting(s, c))
<1>1. s \in Machines  BY DEF MachineInv
<1>2. Collecting(s, c) \in Machines  BY <1>1 DEF Collecting, Machines
<1> QED BY <1>1, <1>2, SameCalls DEF Collecting, Machines

LEMMA OutcomesType ==
    ASSUME NEW r \in {"none", "waiting", "value", "rejected"}
    PROVE  Outcomes(r) \subseteq {"none", "waiting", "value", "rejected"}
BY DEF Outcomes

\* Settling takes calls that are outstanding and settles just those.
LEMMA SettleKeeps ==
    ASSUME IsolateAssumption, NEW s, MachineInv(s), NEW qs \in SUBSET Requests, NEW t \in Settle(s, qs)
    PROVE  MachineInv(t)
<1> DEFINE hit == qs \cap s.pending
<1>1. s \in Machines  BY DEF MachineInv
<1>2. CASE hit = {}  BY <1>2 DEF Settle
<1>3. CASE hit # {}
  <2> DEFINE after == [q \in Requests |-> s.settled[q] + (IF q \in hit THEN 1 ELSE 0)]
  <2>1. PICK j \in s.jobs .. Least(JobCount, s.jobs + Cardinality(hit)), r \in Outcomes(s.result) :
           t = Answered(s, hit, j, r)
    BY <1>3 DEF Settle
  <2>2. hit \subseteq Requests /\ Cardinality(hit) \in Nat  BY <1>1, RequestsFinite DEF Machines
  <2>3. j \in 0 .. JobCount  BY <1>1, <2>1, <2>2, Sizes DEF Least, Machines
  <2>4. r \in {"none", "waiting", "value", "rejected"}  BY <1>1, <2>1, OutcomesType DEF Machines
  <2>5. after \in [Requests -> Nat]  BY <1>1 DEF Machines
  <2>6. s.pending \ hit \in SUBSET Requests  BY <1>1 DEF Machines
  <2>7. t \in Machines  BY <1>1, <2>1, <2>3, <2>4, <2>5, <2>6 DEF Machines, Answered
  <2>8. /\ t.pending = s.pending \ hit /\ t.unwritten = s.unwritten
        /\ t.settled = after /\ t.made = s.made
    BY <1>1, <2>1 DEF Machines, Answered
  <2>9. Cardinality(t.pending) <= PendingCount
    <3>1. IsFiniteSet(s.pending) /\ Cardinality(s.pending) \in Nat  BY <1>1, RequestsFinite DEF Machines
    <3>2. Cardinality(s.pending \ hit) <= Cardinality(s.pending) /\ Cardinality(s.pending \ hit) \in Nat
      BY <3>1, <2>6, RequestsFinite, FS_Subset
    <3> QED BY <2>8, <3>1, <3>2, Sizes DEF MachineInv
  <2>10. ASSUME NEW q \in Requests
         PROVE  t.settled[q] + Unless(q, t.pending) = IF q <= t.made THEN 1 ELSE 0
    <3>1. s.settled[q] + Unless(q, s.pending) = IF q <= s.made THEN 1 ELSE 0  BY DEF MachineInv
    <3>2. s.settled[q] \in Nat  BY <1>1 DEF Machines
    <3>3. t.settled[q] = s.settled[q] + (IF q \in hit THEN 1 ELSE 0)  BY <2>8
    <3> QED BY <2>8, <3>1, <3>2, <3>3 DEF Unless
  <2> QED BY <2>7, <2>8, <2>9, <2>10 DEF MachineInv
<1> QED BY <1>2, <1>3

LEMMA ApplyKeeps ==
    ASSUME IsolateAssumption, NEW s, MachineInv(s), NEW qs \in SUBSET Requests,
           NEW t \in ApplyCompletion(s, qs)
    PROVE  MachineInv(t)
<1>1. CASE qs = {}  BY <1>1 DEF ApplyCompletion
<1>2. CASE qs # {}
  <2>1. PICK u \in Settle(s, qs) : t = Moved(u)  BY <1>2 DEF ApplyCompletion
  <2>2. MachineInv(u)  BY SettleKeeps
  <2> QED BY <2>1, <2>2, FailKeeps
<1> QED BY <1>1, <1>2

\* A call takes the next number, which no call outstanding or settled has.
LEMMA CalledKeeps ==
    ASSUME IsolateAssumption, NEW s, MachineInv(s),
           s.made < MaxCalls, Cardinality(s.pending) < PendingCount
    PROVE  MachineInv(Called(s))
<1> DEFINE n == s.made + 1
<1>1. s \in Machines /\ s.made \in Nat /\ MaxCalls \in Nat /\ PendingCount \in Nat
  BY Sizes DEF MachineInv, Machines
<1>2. n \in Requests /\ n \in 0 .. MaxCalls  BY <1>1 DEF Requests
<1>3. /\ Called(s).pending = s.pending \cup {n} /\ Called(s).unwritten = s.unwritten
      /\ Called(s).settled = s.settled /\ Called(s).made = n
  BY <1>1 DEF Called, Machines
<1>4. Called(s) \in Machines  BY <1>1, <1>2 DEF Called, Machines
<1>5. n \notin s.pending /\ s.settled[n] = 0
  <2>1. s.settled[n] + Unless(n, s.pending) = 0  BY <1>1, <1>2 DEF MachineInv
  <2>2. s.settled[n] \in Nat  BY <1>1, <1>2 DEF Machines
  <2> QED BY <2>1, <2>2 DEF Unless
<1>6. Cardinality(s.pending \cup {n}) <= PendingCount
  <2>1. IsFiniteSet(s.pending) /\ Cardinality(s.pending) \in Nat  BY <1>1, RequestsFinite DEF Machines
  <2>2. Cardinality(s.pending \cup {n}) = Cardinality(s.pending) + 1  BY <1>5, <2>1, FS_AddElement
  <2> QED BY <1>1, <2>1, <2>2
<1>7. ASSUME NEW q \in Requests
      PROVE  s.settled[q] + Unless(q, s.pending \cup {n}) = IF q <= n THEN 1 ELSE 0
  <2>1. s.settled[q] + Unless(q, s.pending) = IF q <= s.made THEN 1 ELSE 0  BY DEF MachineInv
  <2>2. q \in Nat  BY <1>1 DEF Requests
  <2>3. CASE q = n  BY <1>1, <1>5, <2>3 DEF Unless
  <2>4. CASE q # n  BY <1>1, <2>1, <2>2, <2>4 DEF Unless
  <2> QED BY <2>3, <2>4
<1> QED BY <1>3, <1>4, <1>6, <1>7 DEF MachineInv

LEMMA EffectsKeep ==
    ASSUME IsolateAssumption, NEW s, MachineInv(s), NEW t \in Effects(s)
    PROVE  MachineInv(t) /\ t.current = s.current
<1>1. CASE stop  BY <1>1 DEF Effects
<1>2. CASE ~stop
  <2>1. PICK u \in Makes(s), j \in s.jobs .. Least(JobCount, s.jobs + 1) : t = [u EXCEPT !.jobs = j]
    BY <1>2 DEF Effects
  <2>2. MachineInv(u)  BY CalledKeeps DEF Makes
  <2>3. u \in Machines /\ s \in Machines  BY <2>2 DEF MachineInv
  <2>4. j \in 0 .. JobCount  BY <2>1, <2>3, Sizes DEF Least, Machines
  <2>5. t \in Machines  BY <2>1, <2>3, <2>4 DEF Machines
  <2>6. u.current = s.current
    <3>1. Called(s).current = s.current  BY <2>3 DEF Called, Machines
    <3> QED BY <3>1 DEF Makes
  <2>7. t.current = u.current  BY <2>1, <2>3 DEF Machines
  <2> QED BY <2>1, <2>2, <2>3, <2>5, <2>6, <2>7, SameCalls DEF Machines
<1> QED BY <1>1, <1>2

LEMMA ModuleEndsKeeps ==
    ASSUME IsolateAssumption, NEW s, MachineInv(s), NEW t \in ModuleEnds(s)
    PROVE  MachineInv(t)
<1>1. s \in Machines  BY DEF MachineInv
<1>2. s.diagnostic \in BOOLEAN  BY <1>1 DEF Machines
<1>3. \A u \in Effects(s) : MachineInv(u) /\ u \in Machines /\ u.current = s.current
  BY EffectsKeep DEF MachineInv
<1>4. CASE t = Fail(s, s.diagnostic)  BY <1>2, <1>4, FailKeeps
<1>5. ASSUME s.current < ModuleCount, NEW u \in Effects(s), t = NextModule(u)
      PROVE  MachineInv(t)
  <2>1. u.current + 1 \in 1 .. ModuleCount  BY <1>1, <1>3, <1>5, Sizes DEF Machines
  <2>2. t \in Machines  BY <1>3, <1>5, <2>1 DEF Machines, NextModule
  <2> QED BY <1>3, <1>5, <2>2, SameCalls DEF Machines, NextModule
<1>6. ASSUME NEW u \in Effects(s), NEW r \in {"waiting", "value", "rejected"}, t = BodyDone(u, r)
      PROVE  MachineInv(t)
  <2>1. t \in Machines  BY <1>3, <1>6 DEF Machines, BodyDone
  <2> QED BY <1>3, <1>6, <2>1, SameCalls DEF Machines, BodyDone
<1>7. CASE s.current < ModuleCount  BY <1>4, <1>5, <1>7 DEF ModuleEnds
<1>8. CASE ~(s.current < ModuleCount)
  <2>1. PICK u \in Effects(s), r \in {"waiting", "value", "rejected"} : t = BodyDone(u, r)
    BY <1>8 DEF ModuleEnds
  <2> QED BY <1>6, <2>1
<1> QED BY <1>7, <1>8

LEMMA RunBodyKeeps ==
    ASSUME IsolateAssumption, NEW s, MachineInv(s), NEW t \in RunBody(s)
    PROVE  MachineInv(t)
<1>1. MachineInv(Moved(s))  BY FailKeeps
<1>2. CASE t = s  BY <1>2
<1>3. CASE t = Fail(Moved(s), TRUE)  BY <1>3, FailKeeps
<1>4. CASE t \in ModuleEnds(Moved(s))  BY <1>1, <1>4, ModuleEndsKeeps
<1>5. CASE t \in RunsOn(Moved(s))
  <2>1. PICK u \in Effects(Moved(s)), c \in Pauses : t = Collecting(u, c)  BY <1>5 DEF RunsOn
  <2>2. MachineInv(u) /\ c \in BOOLEAN  BY <1>1, EffectsKeep, PausesType
  <2> QED BY <2>1, <2>2, CollectingKeeps
<1> QED BY <1>2, <1>3, <1>4, <1>5 DEF RunBody

LEMMA RunJobsKeeps ==
    ASSUME IsolateAssumption, NEW s, MachineInv(s), NEW t \in RunJobs(s)
    PROVE  MachineInv(t)
<1>1. s \in Machines /\ Pauses \subseteq BOOLEAN  BY PausesType DEF MachineInv
<1>2. CASE t = s  BY <1>2
<1>3. CASE t = Fail(s, TRUE)  BY <1>3, FailKeeps
<1>4. ASSUME NEW c \in Pauses, t = Collecting(s, c)
      PROVE  MachineInv(t)
  BY <1>1, <1>4, CollectingKeeps
<1>5. CASE t \in QueueRuns(s)
  <2>1. PICK j \in 0 .. s.jobs - 1, r \in Outcomes(s.result), c \in Pauses :
           t \in Effects(Ran(s, j, r, c))
    BY <1>5 DEF QueueRuns
  <2>2. r \in {"none", "waiting", "value", "rejected"}  BY <1>1, OutcomesType DEF Machines
  <2>3. j \in 0 .. JobCount  BY <1>1, Sizes DEF Machines
  <2>4. c \in BOOLEAN  BY <1>1
  <2>5. Ran(s, j, r, c) \in Machines  BY <1>1, <2>2, <2>3, <2>4 DEF Machines, Ran, Moved
  <2>6. MachineInv(Ran(s, j, r, c))  BY <1>1, <2>5, SameCalls DEF Machines, Ran, Moved
  <2> QED BY <2>1, <2>6, EffectsKeep
<1> QED BY <1>2, <1>3, <1>4, <1>5 DEF RunJobs

LEMMA AnswerUnavailableKeeps ==
    ASSUME IsolateAssumption, NEW s, MachineInv(s), NEW t \in AnswerUnavailable(s)
    PROVE  MachineInv(t)
<1> DEFINE none == [s EXCEPT !.outbox = {}]
<1>1. s \in Machines  BY DEF MachineInv
<1>2. none \in Machines  BY <1>1 DEF Machines
<1>3. MachineInv(none)  BY <1>1, <1>2, SameCalls DEF Machines
<1>4. CASE t = s  BY <1>4
<1>5. ASSUME NEW u \in Settle(none, s.outbox), t = Moved(u)
      PROVE  MachineInv(t)
  <2>1. s.outbox \in SUBSET Requests  BY <1>1 DEF Machines
  <2>2. MachineInv(u)  BY <1>3, <2>1, SettleKeeps
  <2> QED BY <1>5, <2>2, FailKeeps
<1> QED BY <1>4, <1>5 DEF AnswerUnavailable

\* Calls are staged all or none, so the frames keep to their number.
LEMMA StageCallsKeeps ==
    ASSUME IsolateAssumption, NEW s, MachineInv(s)
    PROVE  MachineInv(StageCalls(s))
<1> DEFINE all == s.unwritten \cup s.outbox
           t == Moved([s EXCEPT !.unwritten = all, !.outbox = {}])
<1>1. s \in Machines /\ WireFrames \in Nat  BY Sizes DEF MachineInv
<1>2. CASE StageCalls(s) = s  BY <1>2
<1>3. ASSUME Cardinality(s.unwritten) + Cardinality(s.outbox) <= WireFrames
      PROVE  MachineInv(t)
  <2>1. s.unwritten \in SUBSET Requests /\ s.outbox \in SUBSET Requests /\ all \in SUBSET Requests
    BY <1>1 DEF Machines
  <2>2. t \in Machines  BY <1>1, <2>1 DEF Machines, Moved
  <2>3. /\ t.unwritten = all /\ t.pending = s.pending
        /\ t.settled = s.settled /\ t.made = s.made
    BY <1>1 DEF Machines, Moved
  <2>4. Cardinality(all) <= WireFrames
    <3>1. /\ IsFiniteSet(s.unwritten) /\ IsFiniteSet(s.outbox)
          /\ Cardinality(s.unwritten) \in Nat /\ Cardinality(s.outbox) \in Nat
          /\ Cardinality(all) \in Nat
      BY <2>1, RequestsFinite
    <3>2. Cardinality(all) = Cardinality(s.unwritten) + Cardinality(s.outbox)
                               - Cardinality(s.unwritten \cap s.outbox)
      BY <3>1, FS_Union
    <3>3. Cardinality(s.unwritten \cap s.outbox) \in Nat
      BY <2>1, RequestsFinite
    <3> QED BY <1>1, <1>3, <3>1, <3>2, <3>3
  <2> QED BY <2>2, <2>3, <2>4 DEF MachineInv
<1>4. /\ Cardinality(s.unwritten) \in Nat /\ Cardinality(s.outbox) \in Nat
  BY <1>1, RequestsFinite DEF Machines
<1>5. CASE Cardinality(s.unwritten) + Cardinality(s.outbox) > WireFrames
  BY <1>2, <1>5 DEF StageCalls
<1>6. CASE Cardinality(s.unwritten) + Cardinality(s.outbox) <= WireFrames
  <2>1. StageCalls(s) = s \/ StageCalls(s) = t  BY DEF StageCalls
  <2> QED BY <1>2, <1>3, <1>6, <2>1
<1> QED BY <1>1, <1>4, <1>5, <1>6

LEMMA TimeOutKeeps ==
    ASSUME IsolateAssumption, NEW s, MachineInv(s), NEW t \in TimeOut(s)
    PROVE  MachineInv(t)
<1> DEFINE reset == [s EXCEPT !.waited = 0]
<1>1. s \in Machines /\ CallWait \in Nat  BY Sizes DEF MachineInv
<1>2. reset \in Machines  BY <1>1 DEF Machines
<1>3. MachineInv(reset)  BY <1>1, <1>2, SameCalls DEF Machines
<1>4. CASE t = s \/ t = reset  BY <1>3, <1>4
<1>5. CASE s.waited < CallWait /\ t = [s EXCEPT !.waited = s.waited + 1]
  <2>1. s.waited + 1 \in 0 .. CallWait  BY <1>1, <1>5 DEF Machines
  <2>2. t \in Machines  BY <1>1, <1>5, <2>1 DEF Machines
  <2> QED BY <1>1, <1>5, <2>2, SameCalls DEF Machines
<1>6. CASE t \in Settle(reset, s.pending)
  <2>1. s.pending \in SUBSET Requests  BY <1>1 DEF Machines
  <2> QED BY <1>3, <1>6, <2>1, SettleKeeps
<1> QED BY <1>4, <1>5, <1>6 DEF TimeOut

LEMMA FinishKeeps ==
    ASSUME IsolateAssumption, NEW s, MachineInv(s), NEW t \in Finish(s)
    PROVE  MachineInv(t)
<1>1. s \in Machines  BY DEF MachineInv
<1>2. s.diagnostic \in BOOLEAN  BY <1>1 DEF Machines
<1>3. CASE t = s  BY <1>3
<1>4. CASE t = Fail(s, s.diagnostic) \/ t = Fail(s, TRUE)  BY <1>2, <1>4, FailKeeps
<1>5. CASE t = End(s, "Done", s.diagnostic) \/ t = End(s, "Rejected", TRUE)
  BY <1>2, <1>5, EndKeeps
<1> QED BY <1>3, <1>4, <1>5 DEF Finish

LEMMA PushCallsKeeps ==
    ASSUME IsolateAssumption, NEW s, MachineInv(s), NEW t \in PushCalls(s)
    PROVE  MachineInv(t)
<1>1. s \in Machines /\ WireFrames \in Nat  BY Sizes DEF MachineInv
<1>2. PICK u \in {s.unwritten, {}} : t = Pushed(s, u)
  BY DEF PushCalls
<1>3. u \in SUBSET Requests  BY <1>1, <1>2 DEF Machines
<1>4. t \in Machines  BY <1>1, <1>2, <1>3 DEF Machines, Pushed
<1>5. /\ t.unwritten = u /\ t.pending = s.pending
      /\ t.settled = s.settled /\ t.made = s.made
  BY <1>1, <1>2 DEF Machines, Pushed
<1>6. Cardinality(u) <= WireFrames
  <2>1. Cardinality({}) = 0  BY FS_EmptySet
  <2> QED BY <1>1, <1>2, <2>1 DEF MachineInv
<1> QED BY <1>4, <1>5, <1>6 DEF MachineInv
-----------------------------------------------------------------------------
(* The steps, for each part of the invariant.                              *)

LEMMA InitHolds ==
    ASSUME IsolateAssumption, Init
    PROVE  IInv
<1>1. ImageInv
  <2>1. PICK s \in Sources, n \in ImageLengths, k \in ImageKinds, early \in BOOLEAN :
           image = Arriving(s, n, k, early)
    BY DEF Init
  <2>2. s \in {"stream", "copied", "mapped"} /\ n \in Nat  BY DEF IsolateAssumption
  <2>3. 0 \in 0 .. EmptyWait /\ (n > ImageCapacity) \in BOOLEAN  BY <2>2, Sizes
  <2>4. image \in Images  BY <2>1, <2>2, <2>3 DEF Images, Arriving
  <2>5. phase = 0  BY DEF Init
  <2>6. /\ image.source = s /\ image.total = n /\ image.waiting = 0
        /\ image.unsent = (IF s = "stream" THEN n ELSE 0)
        /\ image.length = (IF s = "mapped" THEN n ELSE 0)
    BY <2>1 DEF Arriving
  <2> QED BY <2>2, <2>4, <2>5, <2>6, Sizes DEF ImageInv
<1>2. MachineInv(m)
  <2>1. m = NewMachine  BY DEF Init
  <2>2. 1 \in 1 .. ModuleCount /\ 0 \in 0 .. JobCount /\ 0 \in 0 .. CallWait /\ 0 \in 0 .. MaxCalls
    BY Sizes
  <2>3. m \in Machines  BY <2>1, <2>2 DEF NewMachine, Machines
  <2>4. m.pending = {} /\ m.unwritten = {} /\ m.made = 0 /\ m.settled = [q \in Requests |-> 0]
    BY <2>1 DEF NewMachine
  <2>5. Cardinality({}) = 0  BY FS_EmptySet
  <2> QED BY <2>3, <2>4, <2>5, Sizes DEF MachineInv, Unless, Requests
<1>3. OutputInv
  <2>1. /\ ended = [failed |-> FALSE, rejected |-> FALSE, diagnostic |-> FALSE, length |-> 0]
        /\ written = [p \in Ports |-> 0] /\ held = [p \in Ports |-> 0]
    BY DEF Init
  <2>2. \A p \in Ports : Length(p) \in Nat  BY <2>1 DEF Length, Ports
  <2> QED BY <2>1, <2>2 DEF OutputInv, ExitIsLast, Ports
<1>4. OtherInv
  <2>1. boot = Unbooted  BY DEF Init
  <2>2. 0 \in 0 .. BuildStages /\ 0 \in 0 .. SeedWords /\ (SeedWords = 0) \in BOOLEAN  BY Sizes
  <2>3. boot \in Boots  BY <2>1, <2>2 DEF Unbooted, Boots
  <2>4. Cardinality({}) = 0  BY FS_EmptySet
  <2>5. graph \in Graphs /\ phase = 0 /\ stop = FALSE /\ ready = {} /\ arrived = 0  BY DEF Init
  <2>6. stop \in BOOLEAN  BY <2>5
  <2>7. 0 \in 0 .. 3 /\ 0 \in 0 .. MaxAnswers /\ 0 <= 1  BY Sizes
  <2>8. ready \in SUBSET Requests /\ Cardinality(ready) <= 1  BY <2>4, <2>5, <2>7
  <2>9. phase \in 0 .. 3 /\ arrived \in 0 .. MaxAnswers  BY <2>5, <2>7
  <2> QED BY <2>3, <2>5, <2>6, <2>8, <2>9 DEF OtherInv
<1> QED BY <1>1, <1>2, <1>3, <1>4 DEF IInv

\* The machine is what the parts of advance leave of it.
LEMMA MachineStep ==
    ASSUME IsolateAssumption, IInv, Next
    PROVE  MachineInv(m')
<1>1. MachineInv(m) /\ ready \in SUBSET Requests  BY DEF IInv, OtherInv
<1>2. CASE CollectStep
  <2>1. PICK s \in PushCalls(m) : m' = s \/ m' = Fail(s, TRUE)  BY <1>2 DEF CollectStep, Leave
  <2>2. MachineInv(s)  BY <1>1, PushCallsKeeps
  <2> QED BY <2>1, <2>2, FailKeeps
<1>3. CASE AdvanceStep
  <2> DEFINE Finishes(f) == \E g \in Finish(f) : m' = g
             Waits(e)    == \E f \in TimeOut(StageCalls(e)) : Finishes(f)
             Answers(d)  == \E e \in AnswerUnavailable(d) : Waits(e)
             RunsJobs(c) == \E d \in RunJobs(c) : Answers(d)
             Runs(b)     == \E c \in RunBody(b) : RunsJobs(c)
             Applies(a)  == \E b \in ApplyCompletion(a, ready) : Runs(b)
  <2>1. \E a \in PushCalls(Collecting(m, FALSE)) : Applies(a)  BY <1>3 DEF AdvanceStep, Leave
  <2>2. ASSUME NEW f, MachineInv(f), Finishes(f) PROVE MachineInv(m')  BY <2>2, FinishKeeps
  <2>3. ASSUME NEW e, MachineInv(e), Waits(e) PROVE MachineInv(m')
    <3> HIDE DEF Finishes
    <3>1. MachineInv(StageCalls(e))  BY <2>3, StageCallsKeeps
    <3> QED BY <2>2, <2>3, <3>1, TimeOutKeeps
  <2>4. ASSUME NEW d, MachineInv(d), Answers(d) PROVE MachineInv(m')
    <3> HIDE DEF Waits
    <3> QED BY <2>3, <2>4, AnswerUnavailableKeeps
  <2>5. ASSUME NEW c, MachineInv(c), RunsJobs(c) PROVE MachineInv(m')
    <3> HIDE DEF Answers
    <3> QED BY <2>4, <2>5, RunJobsKeeps
  <2>6. ASSUME NEW b, MachineInv(b), Runs(b) PROVE MachineInv(m')
    <3> HIDE DEF RunsJobs
    <3> QED BY <2>5, <2>6, RunBodyKeeps
  <2>7. ASSUME NEW a, MachineInv(a), Applies(a) PROVE MachineInv(m')
    <3> HIDE DEF Runs
    <3> QED BY <1>1, <2>6, <2>7, ApplyKeeps
  <2> HIDE DEF Applies
  <2>8. MachineInv(Collecting(m, FALSE))  BY <1>1, CollectingKeeps
  <2> QED BY <2>1, <2>7, <2>8, PushCallsKeeps
<1>4. CASE m' = m  BY <1>1, <1>4
<1>5. ASSUME ModuleStep PROVE CollectStep \/ AdvanceStep \/ m' = m
  BY <1>5 DEF ModuleStep, StagingStep, ReadImage, CopyProgram, RefuseImage, WaitForImage,
              BuildRealm, DrawSeed, Start, Refuse, PublishStep, DoneStep, ivars
<1> QED BY <1>2, <1>3, <1>4, <1>5
        DEF Next, ProducerWrites, ProducerHangsUp, SeedAnswered, Stopped, Drain,
            CompletionArrives, PortRead

\* The image: what the producer still has, what waits and what is staged.
LEMMA ImageStep ==
    ASSUME IsolateAssumption, IInv, Next
    PROVE  ImageInv'
<1>1. /\ ImageInv /\ image \in Images /\ ImageCapacity \in Nat /\ EmptyWait \in Nat
      /\ phase \in 0 .. 3
  BY Sizes DEF IInv, ImageInv, OtherInv
<1>2. /\ image.total \in ImageLengths /\ image.unsent \in Nat /\ image.waiting \in Nat
      /\ image.length \in Nat /\ image.overflowed \in BOOLEAN /\ image.hung_up \in BOOLEAN
      /\ image.empty_waited \in 0 .. EmptyWait /\ image.total \in Nat
  BY <1>1 DEF Images, IsolateAssumption
<1>3. CASE ReadImage
  <2> DEFINE room == ImageCapacity - image.length
             n == Least(room, image.waiting)
  <2>1. phase' = phase /\ phase = 0 /\ image.source = "stream" /\ image.waiting > 0
    BY <1>3 DEF ReadImage
  <2>2. room \in Nat  BY <1>1, <1>2, <2>1 DEF ImageInv
  <2>3. CASE room = 0
    <3>1. image' = [image EXCEPT !.overflowed = TRUE, !.waiting = 0]  BY <1>3, <2>3 DEF ReadImage
    <3>2. image' \in Images  BY <1>1, <3>1 DEF Images
    <3>3. /\ image'.source = image.source /\ image'.overflowed /\ image'.length = image.length
          /\ image'.hung_up = image.hung_up /\ image'.unsent = image.unsent
      BY <1>1, <3>1 DEF Images
    <3> QED BY <1>1, <1>2, <2>1, <3>2, <3>3 DEF ImageInv
  <2>4. CASE room # 0
    <3>1. image' = [image EXCEPT !.length = image.length + n, !.waiting = image.waiting - n]
      BY <1>3, <2>4 DEF ReadImage
    <3>2. n \in Nat /\ n <= room /\ n <= image.waiting  BY <1>2, <2>2 DEF Least
    <3>a. image.length + n \in Nat /\ image.waiting - n \in Nat  BY <1>2, <3>2
    <3>3. image' \in Images
      <4> HIDE DEF n
      <4> QED BY <1>1, <3>1, <3>a DEF Images
    <3>4. /\ image'.source = image.source /\ image'.overflowed = image.overflowed
          /\ image'.length = image.length + n /\ image'.waiting = image.waiting - n
          /\ image'.hung_up = image.hung_up /\ image'.unsent = image.unsent
          /\ image'.total = image.total
      BY <1>1, <3>1 DEF Images
    <3> QED BY <1>1, <1>2, <2>1, <3>2, <3>3, <3>4 DEF ImageInv
  <2> QED BY <2>3, <2>4
<1>4. CASE CopyProgram /\ image' # image
  <2>1. /\ phase' = phase /\ phase = 0 /\ image.source = "copied"
        /\ image' = [image EXCEPT !.length = image.length + 1]
    BY <1>4 DEF CopyProgram, Refuse
  <2>2. image' \in Images  BY <1>1, <1>2, <2>1 DEF Images
  <2>3. image'.source = "copied"  BY <1>1, <2>1 DEF Images
  <2> QED BY <2>1, <2>2, <2>3 DEF ImageInv
<1>5. CASE WaitForImage /\ image' # image
  <2>1. /\ phase' = phase /\ phase = 0 /\ image.empty_waited < EmptyWait
        /\ image' = [image EXCEPT !.empty_waited = image.empty_waited + 1]
    BY <1>5 DEF WaitForImage
  <2>2. image.empty_waited + 1 \in 0 .. EmptyWait  BY <1>1, <1>2, <2>1
  <2>3. image' \in Images  BY <1>1, <2>1, <2>2 DEF Images
  <2>4. /\ image'.source = image.source /\ image'.overflowed = image.overflowed
        /\ image'.length = image.length /\ image'.waiting = image.waiting
        /\ image'.hung_up = image.hung_up /\ image'.unsent = image.unsent
        /\ image'.total = image.total
    BY <1>1, <2>1 DEF Images
  <2> QED BY <1>1, <2>1, <2>3, <2>4 DEF ImageInv
<1>6. CASE ProducerWrites
  <2>1. PICK n \in 1 .. image.unsent :
          image' = [image EXCEPT !.unsent = image.unsent - n, !.waiting = image.waiting + n,
                                 !.hung_up = FALSE]
    BY <1>6 DEF ProducerWrites
  <2>2. n \in Nat /\ n > 0 /\ n <= image.unsent  BY <1>2, <2>1
  <2>3. phase' = phase /\ image.source = "stream"  BY <1>6 DEF ProducerWrites
  <2>a. image.unsent - n \in Nat /\ image.waiting + n \in Nat  BY <1>2, <2>2
  <2>4. image' \in Images  BY <1>1, <2>1, <2>a DEF Images
  <2>5. /\ image'.source = image.source /\ image'.overflowed = image.overflowed
        /\ image'.length = image.length /\ image'.waiting = image.waiting + n
        /\ ~image'.hung_up /\ image'.unsent = image.unsent - n
        /\ image'.total = image.total /\ image'.kind = image.kind
    BY <1>1, <2>1 DEF Images
  <2> QED BY <1>1, <1>2, <2>2, <2>3, <2>4, <2>5 DEF ImageInv
<1>7. CASE ProducerHangsUp
  <2>1. /\ phase' = phase /\ image.unsent = 0 /\ image' = [image EXCEPT !.hung_up = TRUE]
    BY <1>7 DEF ProducerHangsUp
  <2>2. image' \in Images  BY <1>1, <2>1 DEF Images
  <2>3. /\ image'.source = image.source /\ image'.overflowed = image.overflowed
        /\ image'.length = image.length /\ image'.waiting = image.waiting
        /\ image'.unsent = image.unsent
        /\ image'.total = image.total /\ image'.kind = image.kind
    BY <1>1, <2>1 DEF Images
  <2> QED BY <1>1, <1>2, <2>1, <2>2, <2>3 DEF ImageInv
<1>8. CASE image' = image /\ (phase' = 1 => phase = 1)  BY <1>1, <1>8 DEF ImageInv
<1>9. CASE Start /\ image' = image
  <2>1. Staged  BY <1>9 DEF Start
  <2>2. phase' = 1 => image.kind = "good"  BY <1>9 DEF Start, Refuse
  <2>3. ~image.overflowed /\ image.length > 0 /\ ImageComplete  BY <2>1 DEF Staged
  <2>4. image.length = image.total
    <3>1. CASE image.source = "stream"
      <4>1. image.waiting = 0 /\ image.hung_up  BY <2>3, <3>1 DEF ImageComplete
      <4> QED BY <1>1, <1>2, <2>3, <3>1, <4>1 DEF ImageInv
    <3>2. CASE image.source = "copied"  BY <2>3, <3>2 DEF ImageComplete
    <3>3. CASE image.source = "mapped"  BY <1>1, <3>3 DEF ImageInv
    <3> QED BY <1>1, <3>1, <3>2, <3>3 DEF ImageInv
  <2> QED BY <1>1, <1>9, <2>2, <2>3, <2>4 DEF ImageInv
<1>10. ASSUME ModuleStep, ~ReadImage
       PROVE  \/ (CopyProgram \/ WaitForImage) /\ image' # image
              \/ Start /\ image' = image
              \/ image' = image /\ (phase' = 1 => phase = 1)
  <2>1. CASE CopyProgram \/ WaitForImage  BY <2>1 DEF CopyProgram, WaitForImage, Refuse
  <2>2. CASE Start  BY <2>2 DEF Start, Refuse
  <2>3. CASE RefuseImage \/ BuildRealm \/ DrawSeed  BY <2>3 DEF RefuseImage, BuildRealm, DrawSeed, Refuse
  <2>4. CASE CollectStep \/ AdvanceStep  BY <2>4 DEF CollectStep, AdvanceStep
  <2>5. CASE PublishStep \/ DoneStep  BY <2>5 DEF PublishStep, DoneStep, ivars
  <2> QED BY <1>10, <2>1, <2>2, <2>3, <2>4, <2>5 DEF ModuleStep, StagingStep
<1>11. CASE Drain  BY <1>8, <1>11 DEF Drain
<1>12. CASE SeedAnswered \/ Stopped \/ (\E q \in Requests : CompletionArrives(q)) \/ \E p \in Ports : PortRead(p)
  BY <1>8, <1>12 DEF SeedAnswered, Stopped, CompletionArrives, PortRead
<1> QED BY <1>3, <1>4, <1>5, <1>6, <1>7, <1>8, <1>9, <1>10, <1>11, <1>12 DEF Next

\* What a port was given is no more than there is for it.
PortsInv(o) ==
    /\ o.written \in [Ports -> Nat] /\ o.held \in [Ports -> 0 .. 1]
    /\ \A p \in Ports : o.written[p] <= Length(p)

LEMMA LengthType ==
    ASSUME IsolateAssumption, OutputInv
    PROVE  Length("result") \in Nat /\ Length("diagnostic") \in Nat /\ Length("exit") = 1
<1>1. ended.length \in {0, OutputCells}  BY DEF OutputInv
<1> QED BY <1>1, Sizes DEF Length

\* A push writes no more than there is and what the port has room for.
LEMMA PushKeeps ==
    ASSUME IsolateAssumption, OutputInv, NEW o, PortsInv(o), NEW p \in Ports
    PROVE  /\ PortsInv(Push(o, p))
           /\ Whole(o, p) => Whole(Push(o, p), p)
           /\ \A q \in Ports \ {p} : Push(o, p).written[q] = o.written[q]
<1> DEFINE n == Least(1 - o.held[p], Length(p) - o.written[p])
<1>1. o.written[p] \in Nat /\ o.held[p] \in 0 .. 1 /\ o.written[p] <= Length(p)  BY DEF PortsInv
<1>2. Length(p) \in Nat  BY LengthType DEF Ports
<1>3. n \in 0 .. 1 /\ o.written[p] + n <= Length(p) /\ o.held[p] + n \in 0 .. 1
      /\ (o.written[p] = Length(p) => n = 0) /\ o.written[p] + n \in Nat
  BY <1>1, <1>2 DEF Least
<1>4. Push(o, p) = [written |-> [o.written EXCEPT ![p] = o.written[p] + n],
                    held |-> [o.held EXCEPT ![p] = o.held[p] + n]]
  BY DEF Push
<1> HIDE DEF n
<1>5. /\ Push(o, p).written = [o.written EXCEPT ![p] = o.written[p] + n]
      /\ Push(o, p).held = [o.held EXCEPT ![p] = o.held[p] + n]
  BY <1>4
<1>6. o.written \in [Ports -> Nat] /\ o.held \in [Ports -> 0 .. 1]  BY DEF PortsInv
<1>7. Push(o, p).written \in [Ports -> Nat] /\ Push(o, p).held \in [Ports -> 0 .. 1]
  BY <1>3, <1>5, <1>6
<1>8. /\ Push(o, p).written[p] = o.written[p] + n
      /\ \A q \in Ports \ {p} : Push(o, p).written[q] = o.written[q]
  BY <1>5, <1>6
<1>9. PortsInv(Push(o, p))  BY <1>3, <1>7, <1>8 DEF PortsInv
<1>10. Whole(o, p) => Whole(Push(o, p), p)  BY <1>1, <1>3, <1>8 DEF Whole
<1> QED BY <1>8, <1>9, <1>10

\* The exit status is pushed in a step that has found the others whole.
LEMMA PublishedKeeps ==
    ASSUME IsolateAssumption, OutputInv, NEW o, PortsInv(o),
           o.written["exit"] # 0 =>
              Whole(o, "result") /\ (graph.diagnostic => Whole(o, "diagnostic"))
    PROVE  /\ PortsInv(Published(o))
           /\ Published(o).written["exit"] # 0 =>
                 /\ Whole(Published(o), "result")
                 /\ graph.diagnostic => Whole(Published(o), "diagnostic")
<1> DEFINE a == Push(o, "result")
           b == PushDiagnostic(a)
           c == Push(b, "exit")
<1>1. "result" \in Ports /\ "diagnostic" \in Ports /\ "exit" \in Ports  BY DEF Ports
<1>2. /\ PortsInv(a) /\ (Whole(o, "result") => Whole(a, "result"))
      /\ a.written["exit"] = o.written["exit"]
      /\ a.written["diagnostic"] = o.written["diagnostic"]
  BY <1>1, PushKeeps
<1>3. /\ PortsInv(b) /\ (Whole(o, "diagnostic") /\ graph.diagnostic => Whole(b, "diagnostic"))
      /\ b.written["exit"] = o.written["exit"]
      /\ b.written["result"] = a.written["result"]
  <2>1. CASE graph.diagnostic
    <3>1. /\ PortsInv(Push(a, "diagnostic"))
          /\ Whole(a, "diagnostic") => Whole(Push(a, "diagnostic"), "diagnostic")
          /\ Push(a, "diagnostic").written["exit"] = a.written["exit"]
          /\ Push(a, "diagnostic").written["result"] = a.written["result"]
      BY <1>1, <1>2, PushKeeps
    <3>2. b = Push(a, "diagnostic")  BY <2>1 DEF PushDiagnostic
    <3> QED BY <1>2, <3>1, <3>2 DEF Whole
  <2>2. CASE ~graph.diagnostic  BY <1>2, <2>2 DEF PushDiagnostic
  <2> QED BY <2>1, <2>2
<1>4. /\ PortsInv(c) /\ c.written["result"] = b.written["result"]
      /\ c.written["diagnostic"] = b.written["diagnostic"]
  BY <1>1, <1>3, PushKeeps
<1>5. Published(o) = IF ~Whole(a, "result") THEN a
                     ELSE IF graph.diagnostic /\ ~Whole(b, "diagnostic") THEN b ELSE c
  BY DEF Published
<1> HIDE DEF a, b, c
<1>6. CASE ~Whole(a, "result")
  <2>1. Published(o) = a  BY <1>5, <1>6
  <2> QED BY <1>2, <1>6, <2>1
<1>7. CASE Whole(a, "result") /\ graph.diagnostic /\ ~Whole(b, "diagnostic")
  <2>1. Published(o) = b  BY <1>5, <1>7
  <2> QED BY <1>3, <1>7, <2>1
<1>8. CASE Whole(a, "result") /\ (graph.diagnostic => Whole(b, "diagnostic"))
  <2>1. Published(o) = c  BY <1>5, <1>8
  <2>2. Whole(c, "result") /\ (graph.diagnostic => Whole(c, "diagnostic"))
    BY <1>3, <1>4, <1>8 DEF Whole
  <2> QED BY <1>4, <2>1, <2>2
<1> QED BY <1>6, <1>7, <1>8

\* The outcome's length is settled before anything of it is written.
LEMMA OutputStep ==
    ASSUME IsolateAssumption, IInv, Next
    PROVE  OutputInv'
<1> DEFINE Ends == [failed : BOOLEAN, rejected : BOOLEAN, diagnostic : BOOLEAN,
                    length : {0, OutputCells}]
<1>1. OutputInv /\ MachineInv(m) /\ m \in Machines /\ phase \in 0 .. 3
  BY DEF IInv, OtherInv, MachineInv
<1>2. graph' = graph  BY DEF Next
<1>3. CASE UNCHANGED <<ended, written, held>> /\ (phase' < 2 => phase < 2)
  <2>1. \A p \in Ports : Length(p)' = Length(p)  BY <1>3 DEF Length, Ports
  <2>2. ExitIsLast'
    <3>1. Length("result")' = Length("result") /\ Length("diagnostic")' = Length("diagnostic")
      BY <2>1 DEF Ports
    <3> QED BY <1>1, <1>2, <1>3, <3>1 DEF OutputInv, ExitIsLast
  <2> QED BY <1>1, <1>3, <2>1, <2>2 DEF OutputInv
\* A step that ends the task finds nothing written.
<1>4. CASE ended' \in Ends /\ UNCHANGED <<written, held>> /\ phase < 2
  <2>1. \A p \in Ports : written[p] = 0  BY <1>1, <1>4 DEF OutputInv
  <2>2. \A p \in Ports : Length(p)' \in Nat
    <3>1. ended'.length \in {0, OutputCells}  BY <1>4
    <3> QED BY <3>1, Sizes DEF Length, Ports
  <2>3. \A p \in Ports : written'[p] = 0  BY <1>4, <2>1
  <2>4. ExitIsLast'  BY <2>3 DEF ExitIsLast, Ports
  <2> QED BY <1>1, <1>4, <2>2, <2>3, <2>4 DEF OutputInv
<1>5. CASE PublishStep
  <2> DEFINE o == [written |-> written, held |-> held]
  <2>1. /\ written' = Published(o).written /\ held' = Published(o).held /\ ended' = ended
        /\ phase' >= 2
    BY <1>5 DEF PublishStep
  <2>2. PortsInv(o)  BY <1>1 DEF OutputInv, PortsInv
  <2>3. o.written["exit"] # 0 =>
          Whole(o, "result") /\ (graph.diagnostic => Whole(o, "diagnostic"))
    <3>1. written["exit"] \in Nat /\ written["exit"] <= 1
      BY <1>1, LengthType DEF OutputInv, Ports
    <3> QED BY <1>1, <3>1 DEF OutputInv, ExitIsLast, Whole
  <2>4. /\ PortsInv(Published(o))
        /\ Published(o).written["exit"] # 0 =>
              /\ Whole(Published(o), "result")
              /\ graph.diagnostic => Whole(Published(o), "diagnostic")
    BY <1>1, <2>2, <2>3, PublishedKeeps
  <2>5. \A p \in Ports : Length(p)' = Length(p)  BY <2>1 DEF Length, Ports
  <2>6. /\ written' \in [Ports -> Nat] /\ held' \in [Ports -> 0 .. 1]
        /\ \A p \in Ports : written'[p] <= Length(p)
    BY <2>1, <2>4 DEF PortsInv
  <2>7. ExitIsLast'
    <3>1. Length("result")' = Length("result") /\ Length("diagnostic")' = Length("diagnostic")
      BY <2>5 DEF Ports
    <3> QED BY <1>2, <2>1, <2>4, <3>1 DEF ExitIsLast, Whole
  <2>8. ~(phase' < 2)  BY <1>1, <2>1, <1>5 DEF PublishStep
  <2>9. ended' \in Ends  BY <1>1, <2>1 DEF OutputInv
  <2> QED BY <2>5, <2>6, <2>7, <2>8, <2>9 DEF OutputInv
<1>6. CASE \E p \in Ports : PortRead(p)
  <2>1. PICK p \in Ports : held' = [held EXCEPT ![p] = 0] /\ UNCHANGED <<phase, ended, written>>
    BY <1>6 DEF PortRead
  <2>2. held' \in [Ports -> 0 .. 1]  BY <1>1, <2>1 DEF OutputInv
  <2>3. \A q \in Ports : Length(q)' = Length(q)  BY <2>1 DEF Length, Ports
  <2>4. ExitIsLast'
    <3>1. Length("result")' = Length("result") /\ Length("diagnostic")' = Length("diagnostic")
      BY <2>3 DEF Ports
    <3> QED BY <1>1, <1>2, <2>1, <3>1 DEF OutputInv, ExitIsLast
  <2> QED BY <1>1, <2>1, <2>2, <2>3, <2>4 DEF OutputInv
<1>7. ASSUME NEW d \in BOOLEAN, Refuse(d), phase = 0 PROVE OutputInv'
  <2>1. ended' = [ended EXCEPT !.failed = TRUE, !.diagnostic = d]  BY <1>7 DEF Refuse
  <2>2. ended' \in Ends  BY <1>1, <2>1 DEF OutputInv
  <2> QED BY <1>4, <1>7, <2>2 DEF Refuse, output
<1>8. CASE StagingStep
  <2>1. CASE ReadImage  BY <1>3, <2>1 DEF ReadImage, output
  <2>2. CASE CopyProgram  BY <1>3, <1>7, <2>2 DEF CopyProgram, output
  <2>3. CASE RefuseImage  BY <1>7, <2>3 DEF RefuseImage
  <2>4. CASE WaitForImage  BY <1>3, <2>4 DEF WaitForImage, output
  <2>5. CASE BuildRealm  BY <1>3, <1>7, <2>5 DEF BuildRealm, Staged, output
  <2>6. CASE DrawSeed  BY <1>3, <2>6 DEF DrawSeed, output
  <2>7. CASE Start
    <3>1. phase = 0  BY <2>7 DEF Start, Staged
    <3>2. CASE Refuse(TRUE) \/ Refuse(FALSE)  BY <1>7, <3>1, <3>2
    <3>3. CASE UNCHANGED <<ended, written, held>>  BY <1>3, <3>1, <3>3
    <3> QED BY <2>7, <3>2, <3>3 DEF Start, output
  <2> QED BY <1>8, <2>1, <2>2, <2>3, <2>4, <2>5, <2>6, <2>7 DEF StagingStep
<1>9. CASE CollectStep \/ AdvanceStep
  <2>1. PICK s : Leave(s) /\ UNCHANGED <<written, held>> /\ phase = 1
    BY <1>9 DEF CollectStep, AdvanceStep, output
  <2>2. s \in Machines
    <3>1. MachineInv(m')  BY MachineStep
    <3> QED BY <2>1, <3>1 DEF Leave, MachineInv
  <2>3. CASE s.outcome = "Running"
    <3>1. ended' = ended  BY <2>1, <2>3 DEF Leave
    <3> QED BY <1>3, <2>1, <3>1
  <2>4. CASE s.outcome # "Running"
    <3>1. PICK n \in {0, OutputCells} :
             ended' = [failed |-> s.outcome = "Failed", rejected |-> s.outcome = "Rejected",
                       diagnostic |-> s.diagnostic, length |-> n]
      BY <2>1, <2>4 DEF Leave
    <3>2. s.diagnostic \in BOOLEAN  BY <2>2 DEF Machines
    <3>3. ended' \in Ends  BY <3>1, <3>2
    <3> QED BY <1>4, <2>1, <3>3
  <2> QED BY <2>3, <2>4
<1>10. CASE Drain
  <2>1. CASE phase = 0
    <3>1. ended' = [ended EXCEPT !.failed = TRUE, !.diagnostic = TRUE]  BY <1>10, <2>1 DEF Drain
    <3>2. ended' \in Ends  BY <1>1, <3>1 DEF OutputInv
    <3> QED BY <1>4, <1>10, <2>1, <3>2 DEF Drain, output
  <2>2. CASE phase # 0  BY <1>3, <1>10, <2>2 DEF Drain, output
  <2> QED BY <2>1, <2>2
<1>11. CASE DoneStep  BY <1>3, <1>11 DEF DoneStep, ivars
<1>12. CASE \/ ProducerWrites \/ ProducerHangsUp \/ SeedAnswered \/ Stopped
            \/ \E q \in Requests : CompletionArrives(q)
  BY <1>3, <1>12 DEF ProducerWrites, ProducerHangsUp, SeedAnswered, Stopped, CompletionArrives, output
<1> QED BY <1>5, <1>6, <1>8, <1>9, <1>10, <1>11, <1>12 DEF Next, ModuleStep

LEMMA OtherStep ==
    ASSUME IsolateAssumption, IInv, Next
    PROVE  OtherInv'
<1>1. OtherInv  BY DEF IInv
<1>2. graph' = graph  BY DEF Next
<1>3. phase' \in 0 .. 3
  <2>1. phase' \in {phase, 1, 2, 3}
    <3>1. CASE ModuleStep
      BY <3>1 DEF ModuleStep, StagingStep, ReadImage, CopyProgram, RefuseImage, WaitForImage,
              BuildRealm, DrawSeed, Start, Refuse, CollectStep, AdvanceStep, Leave, PublishStep,
              DoneStep, ivars
    <3> QED BY <3>1 DEF Next, ProducerWrites, ProducerHangsUp, SeedAnswered, Stopped, Drain,
                        CompletionArrives, PortRead
  <2> QED BY <1>1, <2>1 DEF OtherInv
<1>4. stop' \in BOOLEAN
  <2>1. stop' = stop \/ stop' = TRUE
    <3>1. CASE ModuleStep
      BY <3>1 DEF ModuleStep, StagingStep, ReadImage, CopyProgram, RefuseImage, WaitForImage,
              BuildRealm, DrawSeed, Start, Refuse, CollectStep, AdvanceStep, PublishStep,
              DoneStep, ivars
    <3> QED BY <3>1 DEF Next, ProducerWrites, ProducerHangsUp, SeedAnswered, Stopped, Drain,
                        CompletionArrives, PortRead
  <2> QED BY <1>1, <2>1 DEF OtherInv
<1>5. boot' \in Boots
  <2>1. boot \in Boots /\ boot.built \in 0 .. BuildStages /\ boot.taken \in 0 .. SeedWords
    BY <1>1 DEF OtherInv, Boots
  <2>2. CASE boot' = boot  BY <2>1, <2>2
  <2>3. CASE BuildRealm /\ boot' # boot
    <3>1. boot.built < BuildStages /\ boot' = [boot EXCEPT !.built = boot.built + 1]
      BY <2>3 DEF BuildRealm
    <3>2. boot.built + 1 \in 0 .. BuildStages  BY <2>1, <3>1, Sizes
    <3> QED BY <2>1, <3>1, <3>2 DEF Boots
  <2>4. CASE DrawSeed
    <3>1. boot.taken < SeedWords  BY <2>4 DEF DrawSeed
    <3>2. boot.taken + 1 \in 0 .. SeedWords  BY <2>1, <3>1, Sizes
    <3>3. CASE boot' = [boot EXCEPT !.asked = TRUE]  BY <2>1, <3>3 DEF Boots
    <3>4. CASE boot' = [boot EXCEPT !.asked = FALSE, !.answer = "none", !.taken = boot.taken + 1]
      BY <2>1, <3>2, <3>4 DEF Boots
    <3>5. CASE boot' = [boot EXCEPT !.answer = "none"]  BY <2>1, <3>5 DEF Boots
    <3> QED BY <2>4, <3>3, <3>4, <3>5 DEF DrawSeed
  <2>5. CASE Start
    <3>1. 0 \in 0 .. SeedWords  BY Sizes
    <3>2. CASE boot' = [boot EXCEPT !.done = TRUE]  BY <2>1, <3>2 DEF Boots
    <3>3. CASE boot' = [boot EXCEPT !.asked = FALSE, !.answer = "none", !.taken = 0, !.done = TRUE]
      BY <2>1, <3>1, <3>3 DEF Boots
    <3> QED BY <2>5, <3>2, <3>3 DEF Start
  <2>6. CASE SeedAnswered
    <3>1. PICK a \in {"word", "refused", "stray"} : boot' = [boot EXCEPT !.answer = a]
      BY <2>6 DEF SeedAnswered
    <3> QED BY <2>1, <3>1 DEF Boots
  <2>7. CASE ModuleStep
    BY <2>2, <2>3, <2>4, <2>5, <2>7
       DEF ModuleStep, StagingStep, ReadImage, CopyProgram, RefuseImage, WaitForImage, BuildRealm,
           CollectStep, AdvanceStep, PublishStep, DoneStep, ivars
  <2> QED BY <2>2, <2>6, <2>7
          DEF Next, ProducerWrites, ProducerHangsUp, Stopped, Drain, CompletionArrives, PortRead
<1>6. ready' \in SUBSET Requests /\ Cardinality(ready') <= 1 /\ arrived' \in 0 .. MaxAnswers
  <2>1. CASE ready' = ready /\ arrived' = arrived  BY <1>1, <2>1 DEF OtherInv
  <2>2. CASE ready' = {} /\ arrived' = arrived
    <3>1. Cardinality({}) = 0  BY FS_EmptySet
    <3> QED BY <1>1, <2>2, <3>1 DEF OtherInv
  <2>3. CASE \E q \in Requests : CompletionArrives(q)
    <3>1. PICK q \in Requests : ready' = {q} /\ arrived' = arrived + 1 /\ arrived < MaxAnswers
      BY <2>3 DEF CompletionArrives
    <3>2. Cardinality({q}) = 1  BY FS_Singleton
    <3> QED BY <1>1, <3>1, <3>2, Sizes DEF OtherInv
  <2>4. CASE ModuleStep
    BY <2>1, <2>2, <2>4
       DEF ModuleStep, StagingStep, ReadImage, CopyProgram, RefuseImage, WaitForImage, BuildRealm,
           DrawSeed, Start, Refuse, CollectStep, AdvanceStep, PublishStep, DoneStep, ivars
  <2> QED BY <2>1, <2>3, <2>4
          DEF Next, ProducerWrites, ProducerHangsUp, SeedAnswered, Stopped, Drain, PortRead
<1> QED BY <1>1, <1>2, <1>3, <1>4, <1>5, <1>6 DEF OtherInv

-----------------------------------------------------------------------------
(* The theorems.                                                           *)

LEMMA IInvCorrect ==
    ASSUME IsolateAssumption
    PROVE  Spec => []IInv
<1>1. Init => IInv  BY InitHolds
<1>2. IInv /\ [Next]_ivars => IInv'
  <2>1. ASSUME IInv, Next PROVE IInv'
    BY <2>1, ImageStep, MachineStep, OutputStep, OtherStep DEF IInv
  <2>2. ASSUME IInv, UNCHANGED ivars PROVE IInv'
    <3>1. Length("result")' = Length("result") /\ Length("diagnostic")' = Length("diagnostic")
          /\ Length("exit")' = Length("exit")
      BY <2>2 DEF Length, ivars
    <3>2. \A p \in Ports : Length(p)' = Length(p)  BY <3>1 DEF Ports
    <3>3. OutputInv'  BY <2>2, <3>1, <3>2 DEF IInv, OutputInv, ExitIsLast, ivars
    <3>4. ImageInv'  BY <2>2 DEF IInv, ImageInv, ivars
    <3>5. MachineInv(m)'  BY <2>2 DEF IInv, MachineInv, Unless, Machines, Requests, ivars
    <3>6. OtherInv'  BY <2>2 DEF IInv, OtherInv, ivars
    <3> QED BY <3>3, <3>4, <3>5, <3>6 DEF IInv
  <2> QED BY <2>1, <2>2
<1> QED BY <1>1, <1>2, PTL DEF Spec

\* Type correctness, with the limits of the tables: never more calls
\* outstanding than the table holds, nor more frames staged than fit.
THEOREM TypeCorrect ==
    ASSUME IsolateAssumption
    PROVE  Spec => []TypeOK
<1>1. IInv => TypeOK
  <2> SUFFICES ASSUME IInv PROVE TypeOK  OBVIOUS
  <2>1. \A p \in Ports : written[p] \in 0 .. OutputCells
    <3>1. ended.length \in {0, OutputCells}  BY DEF IInv, OutputInv
    <3>2. \A p \in Ports : Length(p) \in Nat /\ Length(p) <= OutputCells
      BY <3>1, Sizes DEF Length, Ports
    <3> QED BY <3>2, Sizes DEF IInv, OutputInv
  <2>2. written \in [Ports -> 0 .. OutputCells]  BY <2>1 DEF IInv, OutputInv
  <2> QED BY <2>2 DEF IInv, ImageInv, MachineInv, OutputInv, OtherInv, TypeOK
<1> QED BY <1>1, IInvCorrect, PTL

\* A call's promise settles once, however late, often or wrongly it is
\* answered and timed out.
THEOREM CallsSettleOnce ==
    ASSUME IsolateAssumption
    PROVE  Spec => []SettledOnce
<1>1. IInv /\ TypeOK => SettledOnce  BY DEF IInv, MachineInv, SettledOnce, Unless
<1> QED BY <1>1, IInvCorrect, TypeCorrect, PTL

\* The exit status is the last thing said.
THEOREM ExitStatusIsLast ==
    ASSUME IsolateAssumption
    PROVE  Spec => []ExitIsLast
<1>1. IInv => ExitIsLast  BY DEF IInv, OutputInv
<1> QED BY <1>1, IInvCorrect, PTL

\* What runs is the whole image, of any length and however it arrives.
THEOREM OnlyWholeImagesRun ==
    ASSUME IsolateAssumption
    PROVE  Spec => []WholeImageRuns
<1>1. IInv => WholeImageRuns  BY DEF IInv, ImageInv, WholeImageRuns
<1> QED BY <1>1, IInvCorrect, PTL
=============================================================================
