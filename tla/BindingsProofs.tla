---------------------------- MODULE BindingsProofs ----------------------------
(***************************************************************************)
(* What becomes of a program's calls inside its isolate, for every size of *)
(* the tables and buffers, every limit and every width of identifiers and  *)
(* generations: first the capability table, then the staging of calls.     *)
(***************************************************************************)
EXTENDS Bindings, CallStaging, FiniteSetTheorems, SequenceTheorems, WellFoundedInduction, TLAPS

----------------------------------------------------------------------------
(* The inductive invariant.  CountsAgree is not inductive alone: admitting  *)
(* a binding zeroes its count, which is right only because no outstanding   *)
(* call names a descriptor that is not admitted yet; and adopting is right  *)
(* only because what was saved is what the struct held.                     *)

SaveAgrees ==
    ~active => save = [admitted |-> admitted, next_request |-> next_request]

LiveAdmitted ==
    \A s \in Slots : pending[s].live => pending[s].binding < admitted

RequestsBelow ==
    /\ \A s \in Slots : pending[s].live /\ pending[s].request < RequestMax
                            => pending[s].request < next_request
    /\ \A r \in answered : r < RequestMax => r < next_request

\* A slot's generation is its number of releases until it comes round.
GenerationCounts ==
    \A i \in Indexes : releases[i] < GenerationCount
                           => resources[i].generation = releases[i]

IssuedOk(e) ==
    /\ e.opening < GenerationCount => e.handle.generation = e.opening
    /\ e.opening <= releases[e.handle.index]
    /\ e.opening = releases[e.handle.index] =>
          /\ resources[e.handle.index].live
          /\ resources[e.handle.index].token = e.token
          /\ resources[e.handle.index].scope = e.scope

IssuedAgrees == \A e \in issued : IssuedOk(e)

CallInv   == TypeOK /\ SaveAgrees /\ LiveAdmitted /\ CountsAgree
RequestInv == TypeOK /\ SaveAgrees /\ RequestsBelow /\ RequestsDistinct
HandleInv == TypeOK /\ GenerationCounts /\ IssuedAgrees

----------------------------------------------------------------------------
LEMMA SlotsFinite == IsFiniteSet(Slots)
  BY FS_Interval, CountsAssumption DEF Slots

\* The calls outstanding on a binding are a finite set, so they can be counted.
LEMMA LiveOnFinite == \A b : IsFiniteSet(LiveOn(b))
  BY SlotsFinite, FS_Subset DEF LiveOn

LEMMA TypeInit == Init => TypeOK
  BY CountsAssumption DEF Init, TypeOK, BindingIds, Slots, Indexes, Generations,
     Classes, Values, OrUndefined, Binding, Pending, Resource, Handle,
     EmptyBinding, EmptyPending, EmptyResource

\* A record with one field replaced by a value of that field's type.
LEMMA BindingUpdate ==
    /\ \A d \in Binding, n \in Nat : [d EXCEPT !.in_flight = n] \in Binding
    /\ \A d \in Binding : [d EXCEPT !.snapshot = "set"] \in Binding
  BY DEF Binding, Values

LEMMA PendingUpdate ==
    \A p \in Pending : [p EXCEPT !.live = FALSE] \in Pending
  BY DEF Pending

LEMMA ResourceUpdate ==
    /\ \A q \in Resource, c \in OrUndefined(Scopes), k \in Tokens :
          [q EXCEPT !.scope = c, !.token = k, !.live = TRUE] \in Resource
    /\ \A q \in Resource : [q EXCEPT !.live = FALSE,
          !.generation = (@ + 1) % GenerationCount] \in Resource
<1>1. \A n \in Nat : n % GenerationCount \in Generations
  BY CountsAssumption DEF Generations
<1>2. \A q \in Resource : (q.generation + 1) % GenerationCount \in Generations
  BY <1>1 DEF Resource, Generations
<1>3. \A q \in Resource, g \in Generations :
          [q EXCEPT !.live = FALSE, !.generation = g] \in Resource
  BY DEF Resource
<1> QED
  BY <1>2, <1>3 DEF Resource, OrUndefined

LEMMA TypeStep == TypeOK /\ [Next]_bvars => TypeOK'
<1> SUFFICES ASSUME TypeOK, [Next]_bvars PROVE TypeOK'
  OBVIOUS
<1>1. CASE SaveStep
  BY <1>1 DEF SaveStep, table, history, TypeOK
<1>2. CASE Adopt
  BY <1>2 DEF Adopt, table, history, TypeOK
<1>3. ASSUME NEW n \in Names, NEW c \in Scopes, NEW k \in Classes, NEW l \in Limits,
             Admit(n, c, k, l)
      PROVE  TypeOK'
  <2>1. [name |-> n, scope |-> c, class |-> k, snapshot |-> "unset",
         in_flight |-> 0, in_flight_max |-> l] \in Binding
    BY CountsAssumption DEF Binding, Values, OrUndefined
  <2>2. bindings' \in [BindingIds -> Binding] /\ admitted' \in 0 .. BindingCount
    BY <1>3, <2>1, CountsAssumption DEF Admit, TypeOK, BindingIds
  <2> QED
    BY <1>3, <2>2 DEF Admit, history, TypeOK
<1>4. ASSUME NEW b \in BindingIds, SetSnapshot(b) PROVE TypeOK'
  <2>1. bindings' = [bindings EXCEPT ![b] = [bindings[b] EXCEPT !.snapshot = "set"]]
    BY <1>4 DEF SetSnapshot, TypeOK
  <2> QED
    BY <1>4, <2>1, BindingUpdate DEF SetSnapshot, history, TypeOK
<1>5. ASSUME NEW b \in BindingIds, NEW p \in Promises, NEW t \in Traces, Begin(b, p, t)
      PROVE  TypeOK'
  <2> DEFINE call == [request |-> next_request, trace |-> t, binding |-> b,
                      promise |-> p, live |-> TRUE]
  <2>1. PICK s \in Slots : pending' = [pending EXCEPT ![s] = call]
    BY <1>5 DEF Begin
  <2>2. call \in Pending
    BY CountsAssumption DEF Pending, OrUndefined, TypeOK, BindingIds
  <2>3. pending' \in [Slots -> Pending]
    BY <2>1, <2>2 DEF TypeOK
  <2>4. bindings[b] \in Binding /\ bindings[b].in_flight + 1 \in Nat
    BY DEF TypeOK, Binding
  <2>5. bindings' = [bindings EXCEPT ![b] = [bindings[b] EXCEPT !.in_flight = bindings[b].in_flight + 1]]
    BY <1>5 DEF Begin, TypeOK
  <2>6. bindings' \in [BindingIds -> Binding]
    BY <2>4, <2>5, BindingUpdate DEF TypeOK
  <2>7. next_request' \in 1 .. RequestMax
    BY <1>5, CountsAssumption DEF Begin, TypeOK
  <2> QED
    BY <1>5, <2>3, <2>6, <2>7 DEF Begin, history, TypeOK
<1>6. ASSUME NEW r \in 1 .. RequestMax, Complete(r) PROVE TypeOK'
  <2>1. PICK s \in Slots :
          /\ pending' = [pending EXCEPT ![s].live = FALSE]
          /\ bindings' = [bindings EXCEPT ![pending[s].binding].in_flight =
                             IF @ > 0 THEN @ - 1 ELSE 0]
    BY <1>6 DEF Complete
  <2>2. pending' \in [Slots -> Pending]
    <3>1. pending' = [pending EXCEPT ![s] = [pending[s] EXCEPT !.live = FALSE]]
      BY <2>1
    <3> QED
      BY <3>1, PendingUpdate DEF TypeOK
  <2>3. bindings' \in [BindingIds -> Binding]
    <3> DEFINE b == pending[s].binding
               n == IF bindings[b].in_flight > 0 THEN bindings[b].in_flight - 1 ELSE 0
    <3>1. CASE b \in BindingIds
      <4>1. bindings[b] \in Binding /\ n \in Nat
        BY <3>1 DEF TypeOK, Binding
      <4>2. bindings' = [bindings EXCEPT ![b] = [bindings[b] EXCEPT !.in_flight = n]]
        BY <2>1
      <4> HIDE DEF b, n
      <4> QED
        BY <4>1, <4>2, BindingUpdate DEF TypeOK
    <3>2. CASE b \notin BindingIds
      <4>1. bindings' = bindings
        BY <2>1, <3>2 DEF TypeOK
      <4> QED
        BY <4>1 DEF TypeOK
    <3> QED
      BY <3>1, <3>2
  <2> QED
    BY <1>6, <2>2, <2>3 DEF Complete, TypeOK
<1>7. ASSUME NEW b \in BindingIds, NEW k \in Tokens, Open(b, k) PROVE TypeOK'
  <2> DEFINE c == bindings[b].scope
             e(i) == [handle |-> [index |-> i, generation |-> resources[i].generation],
                      scope |-> c, token |-> k, opening |-> releases[i]]
  <2>1. PICK i \in Indexes :
          /\ resources' = [resources EXCEPT ![i].scope = c, ![i].token = k, ![i].live = TRUE]
          /\ issued' = issued \cup {e(i)}
    BY <1>7 DEF Open
  <2>2. c \in OrUndefined(Scopes)
    BY DEF TypeOK, Binding
  <2>3. resources' = [resources EXCEPT ![i] =
           [resources[i] EXCEPT !.scope = c, !.token = k, !.live = TRUE]]
    BY <2>1 DEF TypeOK
  <2>4. resources' \in [Indexes -> Resource]
    <3> HIDE DEF c
    <3> QED
      BY <2>2, <2>3, ResourceUpdate DEF TypeOK
  <2>5. e(i) \in [handle : Handle, scope : OrUndefined(Scopes), token : Tokens, opening : Nat]
    BY <2>2 DEF TypeOK, Handle, Resource
  <2> QED
    BY <1>7, <2>1, <2>4, <2>5 DEF Open, TypeOK
<1>8. ASSUME NEW b \in BindingIds, NEW h \in Handle, Release(b, h) PROVE TypeOK'
  <2>1. h.index \in Indexes
    BY DEF Handle
  <2>2. resources' = [resources EXCEPT ![h.index] =
          [resources[h.index] EXCEPT !.live = FALSE,
              !.generation = (@ + 1) % GenerationCount]]
    BY <1>8, <2>1 DEF Release, TypeOK
  <2>3. resources' \in [Indexes -> Resource]
    BY <2>1, <2>2, ResourceUpdate DEF TypeOK
  <2>4. releases' \in [Indexes -> Nat]
    BY <1>8, <2>1 DEF Release, TypeOK
  <2> QED
    BY <1>8, <2>3, <2>4 DEF Release, TypeOK
<1>9. CASE UNCHANGED bvars
  BY <1>9 DEF bvars, table, history, TypeOK
<1> QED
  BY <1>1, <1>2, <1>3, <1>4, <1>5, <1>6, <1>7, <1>8, <1>9 DEF Next

\* Every field of the table keeps its type and its range: identifiers from one
\* up to the widest, slots and handles inside their tables.
THEOREM TypeCorrect == Spec => []TypeOK
  BY TypeInit, TypeStep, PTL DEF Spec

----------------------------------------------------------------------------
(* Counts.  One lemma per way a step changes the calls outstanding.         *)

LEMMA CallInit == Init => CallInv
<1> SUFFICES ASSUME Init PROVE CallInv
  OBVIOUS
<1>1. TypeOK
  BY TypeInit
<1>2. SaveAgrees /\ LiveAdmitted
  BY DEF Init, SaveAgrees, LiveAdmitted, EmptyPending
<1>3. \A b \in BindingIds : LiveOn(b) = {}
  BY DEF Init, LiveOn, EmptyPending
<1>4. CountsAgree
  BY <1>3, FS_EmptySet DEF Init, CountsAgree, EmptyBinding
<1> QED
  BY <1>1, <1>2, <1>4 DEF CallInv

LEMMA CallSame ==
    ASSUME CallInv, TypeOK', SaveAgrees', pending' = pending, admitted' >= admitted,
           \A b \in BindingIds : /\ bindings'[b].in_flight = bindings[b].in_flight
                                 /\ bindings'[b].in_flight_max = bindings[b].in_flight_max
    PROVE  CallInv'
<1>1. LiveAdmitted'
  BY DEF CallInv, LiveAdmitted, TypeOK, Pending
<1>2. \A b \in BindingIds : LiveOn(b)' = LiveOn(b)
  BY DEF LiveOn
<1>3. CountsAgree'
  BY <1>2 DEF CallInv, CountsAgree
<1> QED
  BY <1>1, <1>3 DEF CallInv

LEMMA CallAdmit ==
    ASSUME CallInv, TypeOK', NEW n \in Names, NEW c \in Scopes, NEW k \in Classes,
           NEW l \in Limits, Admit(n, c, k, l)
    PROVE  CallInv'
<1>1. SaveAgrees'
  BY DEF Admit, SaveAgrees
<1>2. LiveAdmitted'
  BY DEF Admit, CallInv, LiveAdmitted, TypeOK, Pending
<1>3. \A b \in BindingIds : LiveOn(b)' = LiveOn(b)
  BY DEF Admit, LiveOn
<1>4. LiveOn(admitted) = {}
  BY DEF CallInv, LiveAdmitted, LiveOn, TypeOK
<1>5. \A b \in BindingIds : b # admitted => bindings'[b] = bindings[b]
  BY DEF Admit, CallInv, TypeOK
<1>6. bindings'[admitted].in_flight = 0 /\ bindings'[admitted].in_flight_max = l
  BY DEF Admit, CallInv, TypeOK, BindingIds
<1>7. CountsAgree'
  <2> SUFFICES ASSUME NEW b \in BindingIds
               PROVE  /\ bindings'[b].in_flight = Cardinality(LiveOn(b)')
                      /\ Cardinality(LiveOn(b)') <= bindings'[b].in_flight_max
    BY DEF CountsAgree
  <2>1. CASE b = admitted
    <3>1. Cardinality(LiveOn(b)') = 0
      BY <2>1, <1>3, <1>4, FS_EmptySet
    <3> QED
      BY <2>1, <3>1, <1>6, CountsAssumption
  <2>2. CASE b # admitted
    BY <2>2, <1>3, <1>5 DEF CallInv, CountsAgree
  <2> QED
    BY <2>1, <2>2
<1> QED
  BY <1>1, <1>2, <1>7 DEF CallInv

LEMMA CallBegin ==
    ASSUME CallInv, TypeOK', NEW b \in BindingIds, NEW p \in Promises,
           NEW t \in Traces, Begin(b, p, t)
    PROVE  CallInv'
<1>1. PICK s \in Slots :
        /\ FirstFreePending(s)
        /\ pending' = [pending EXCEPT ![s] =
                [request |-> next_request, trace |-> t, binding |-> b,
                 promise |-> p, live |-> TRUE]]
  BY DEF Begin
<1>2. SaveAgrees'
  BY DEF Begin, SaveAgrees
<1>3. LiveAdmitted'
  BY <1>1 DEF Begin, CallInv, LiveAdmitted, TypeOK
<1>4. s \notin LiveOn(b) /\ LiveOn(b)' = LiveOn(b) \cup {s}
  BY <1>1 DEF CallInv, TypeOK, FirstFreePending, LiveOn
<1>5. \A a \in BindingIds \ {b} : LiveOn(a)' = LiveOn(a)
  BY <1>1 DEF CallInv, TypeOK, FirstFreePending, LiveOn
<1>6. Cardinality(LiveOn(b)') = Cardinality(LiveOn(b)) + 1
  BY <1>4, LiveOnFinite, FS_AddElement
<1>7. /\ bindings'[b].in_flight = bindings[b].in_flight + 1
      /\ bindings'[b].in_flight_max = bindings[b].in_flight_max
      /\ bindings[b].in_flight < bindings[b].in_flight_max
      /\ bindings[b].in_flight \in Nat /\ bindings[b].in_flight_max \in Nat
  BY DEF Begin, CallInv, TypeOK, Binding
<1>8. \A a \in BindingIds \ {b} : bindings'[a] = bindings[a]
  BY DEF Begin, CallInv, TypeOK
<1>9. CountsAgree'
  <2> SUFFICES ASSUME NEW a \in BindingIds
               PROVE  /\ bindings'[a].in_flight = Cardinality(LiveOn(a)')
                      /\ Cardinality(LiveOn(a)') <= bindings'[a].in_flight_max
    BY DEF CountsAgree
  <2>1. CASE a = b
    BY <2>1, <1>6, <1>7 DEF CallInv, CountsAgree
  <2>2. CASE a # b
    BY <2>2, <1>5, <1>8 DEF CallInv, CountsAgree
  <2> QED
    BY <2>1, <2>2
<1> QED
  BY <1>2, <1>3, <1>9 DEF CallInv

LEMMA CallComplete ==
    ASSUME CallInv, TypeOK', NEW r \in 1 .. RequestMax, Complete(r)
    PROVE  CallInv'
<1>1. PICK s \in Slots :
        /\ IsSlotOf(s, r)
        /\ pending' = [pending EXCEPT ![s].live = FALSE]
        /\ bindings' = [bindings EXCEPT ![pending[s].binding].in_flight =
                           IF @ > 0 THEN @ - 1 ELSE 0]
  BY DEF Complete
<1>2. PICK b \in BindingIds : b = pending[s].binding
  BY <1>1, CountsAssumption DEF IsSlotOf, CallInv, LiveAdmitted, TypeOK, Pending, BindingIds
<1>3. SaveAgrees'
  BY DEF Complete, SaveAgrees
<1>4. LiveAdmitted'
  BY <1>1 DEF Complete, CallInv, LiveAdmitted, TypeOK
<1>5. s \in LiveOn(b) /\ LiveOn(b)' = LiveOn(b) \ {s}
  BY <1>1, <1>2 DEF CallInv, TypeOK, IsSlotOf, LiveOn
<1>6. \A a \in BindingIds \ {b} : LiveOn(a)' = LiveOn(a)
  BY <1>1, <1>2 DEF CallInv, TypeOK, IsSlotOf, LiveOn
<1>7. /\ Cardinality(LiveOn(b)') = Cardinality(LiveOn(b)) - 1
      /\ Cardinality(LiveOn(b)) \in Nat
      /\ Cardinality(LiveOn(b)') \in Nat
  BY <1>5, LiveOnFinite, FS_RemoveElement, FS_CardinalityType
<1>8. /\ bindings'[b].in_flight = IF bindings[b].in_flight > 0 THEN bindings[b].in_flight - 1 ELSE 0
      /\ bindings'[b].in_flight_max = bindings[b].in_flight_max
      /\ bindings[b].in_flight_max \in Nat
  BY <1>1, <1>2 DEF CallInv, TypeOK, Binding
<1>9. \A a \in BindingIds \ {b} : bindings'[a] = bindings[a]
  BY <1>1, <1>2 DEF CallInv, TypeOK
<1>10. CountsAgree'
  <2> SUFFICES ASSUME NEW a \in BindingIds
               PROVE  /\ bindings'[a].in_flight = Cardinality(LiveOn(a)')
                      /\ Cardinality(LiveOn(a)') <= bindings'[a].in_flight_max
    BY DEF CountsAgree
  <2>1. CASE a = b
    <3>1. /\ bindings[b].in_flight = Cardinality(LiveOn(b))
          /\ Cardinality(LiveOn(b)) <= bindings[b].in_flight_max
      BY <1>2 DEF CallInv, CountsAgree
    <3>2. /\ bindings'[b].in_flight = Cardinality(LiveOn(b)')
          /\ Cardinality(LiveOn(b)') <= bindings'[b].in_flight_max
      BY <3>1, <1>7, <1>8
    <3> QED
      BY <2>1, <3>2
  <2>2. CASE a # b
    BY <2>2, <1>6, <1>9 DEF CallInv, CountsAgree
  <2> QED
    BY <2>1, <2>2
<1> QED
  BY <1>3, <1>4, <1>10 DEF CallInv

LEMMA CallStep == CallInv /\ [Next]_bvars => CallInv'
<1> SUFFICES ASSUME CallInv, [Next]_bvars PROVE CallInv'
  OBVIOUS
<1>0. TypeOK'
  BY TypeStep DEF CallInv
<1>1. CASE SaveStep
  BY <1>0, <1>1, CallSame DEF SaveStep, table, SaveAgrees, CallInv, TypeOK
<1>2. CASE Adopt
  BY <1>0, <1>2, CallSame DEF Adopt, SaveAgrees, CallInv, TypeOK
<1>3. ASSUME NEW n \in Names, NEW c \in Scopes, NEW k \in Classes, NEW l \in Limits,
             Admit(n, c, k, l)
      PROVE  CallInv'
  BY <1>0, <1>3, CallAdmit
<1>4. ASSUME NEW b \in BindingIds, SetSnapshot(b) PROVE CallInv'
  BY <1>0, <1>4, CallSame DEF SetSnapshot, SaveAgrees, CallInv, TypeOK
<1>5. ASSUME NEW b \in BindingIds, NEW p \in Promises, NEW t \in Traces, Begin(b, p, t)
      PROVE  CallInv'
  BY <1>0, <1>5, CallBegin
<1>6. ASSUME NEW r \in 1 .. RequestMax, Complete(r) PROVE CallInv'
  BY <1>0, <1>6, CallComplete
<1>7. ASSUME NEW b \in BindingIds, NEW k \in Tokens, Open(b, k) PROVE CallInv'
  BY <1>0, <1>7, CallSame DEF Open, SaveAgrees, CallInv, TypeOK
<1>8. ASSUME NEW b \in BindingIds, NEW h \in Handle, Release(b, h) PROVE CallInv'
  BY <1>0, <1>8, CallSame DEF Release, SaveAgrees, CallInv, TypeOK
<1>9. CASE UNCHANGED bvars
  BY <1>0, <1>9, CallSame DEF bvars, table, SaveAgrees, CallInv, TypeOK
<1> QED
  BY <1>1, <1>2, <1>3, <1>4, <1>5, <1>6, <1>7, <1>8, <1>9 DEF Next

\* begin and complete keep every binding's count equal to the calls that are
\* outstanding on it and within its limit, across any number of steps.
THEOREM CountsCorrect == Spec => []CountsAgree
<1>1. CallInv => CountsAgree
  BY DEF CallInv
<1> QED
  BY <1>1, CallInit, CallStep, PTL DEF Spec

----------------------------------------------------------------------------
(* Identifiers.  RequestsDistinct needs that every identifier in use or     *)
(* answered is below the counter, and that the counter survives a step.     *)

LEMMA RequestInit == Init => RequestInv
  BY TypeInit DEF Init, RequestInv, SaveAgrees, RequestsBelow, RequestsDistinct,
     EmptyPending

LEMMA RequestSame ==
    ASSUME RequestInv, TypeOK', SaveAgrees', pending' = pending,
           answered' = answered, next_request' = next_request
    PROVE  RequestInv'
  BY DEF RequestInv, RequestsBelow, RequestsDistinct

LEMMA RequestBegin ==
    ASSUME RequestInv, TypeOK', NEW b \in BindingIds, NEW p \in Promises,
           NEW t \in Traces, Begin(b, p, t)
    PROVE  RequestInv'
<1>1. PICK s \in Slots :
        /\ FirstFreePending(s)
        /\ pending' = [pending EXCEPT ![s] =
                [request |-> next_request, trace |-> t, binding |-> b,
                 promise |-> p, live |-> TRUE]]
  BY DEF Begin
<1>2. SaveAgrees'
  BY DEF Begin, SaveAgrees
<1>3. /\ next_request' >= next_request
      /\ next_request < RequestMax => next_request' = next_request + 1
      /\ answered' = answered
      /\ next_request \in 1 .. RequestMax /\ next_request' \in 1 .. RequestMax
  BY CountsAssumption DEF Begin, RequestInv, TypeOK, history
<1>4. /\ pending'[s].request = next_request
      /\ \A q \in Slots \ {s} : pending'[q] = pending[q]
  BY <1>1 DEF RequestInv, TypeOK
<1>5. /\ answered \subseteq 1 .. RequestMax
      /\ \A q \in Slots : pending[q].request \in 0 .. RequestMax
  BY DEF RequestInv, TypeOK, Pending
<1>6. RequestsBelow'
  <2>1. \A q \in Slots : pending'[q].live /\ pending'[q].request < RequestMax
                            => pending'[q].request < next_request'
    BY <1>3, <1>4, <1>5, CountsAssumption DEF RequestInv, RequestsBelow
  <2>2. \A r \in answered' : r < RequestMax => r < next_request'
    BY <1>3, <1>5, CountsAssumption DEF RequestInv, RequestsBelow
  <2> QED
    BY <2>1, <2>2 DEF RequestsBelow
<1>7. RequestsDistinct'
  BY <1>3, <1>4, <1>5, CountsAssumption DEF RequestInv, RequestsBelow, RequestsDistinct
<1> QED
  BY <1>2, <1>6, <1>7 DEF RequestInv

LEMMA RequestComplete ==
    ASSUME RequestInv, TypeOK', NEW r \in 1 .. RequestMax, Complete(r)
    PROVE  RequestInv' /\ (r < RequestMax => r \notin answered)
<1>1. PICK s \in Slots :
        /\ IsSlotOf(s, r)
        /\ pending' = [pending EXCEPT ![s].live = FALSE]
  BY DEF Complete
<1>2. SaveAgrees'
  BY DEF Complete, SaveAgrees
<1>3. /\ next_request' = next_request
      /\ answered' = answered \cup {r}
      /\ pending[s].live /\ pending[s].request = r
  BY <1>1 DEF Complete, IsSlotOf
<1>4. /\ ~pending'[s].live
      /\ pending'[s].request = pending[s].request
      /\ \A q \in Slots \ {s} : pending'[q] = pending[q]
  BY <1>1 DEF RequestInv, TypeOK, Pending
<1>5. RequestsBelow'
  BY <1>3, <1>4 DEF RequestInv, RequestsBelow
<1>6. RequestsDistinct'
  BY <1>3, <1>4 DEF RequestInv, RequestsDistinct
<1>7. r < RequestMax => r \notin answered
  BY <1>3 DEF RequestInv, RequestsDistinct
<1> QED
  BY <1>2, <1>5, <1>6, <1>7 DEF RequestInv

LEMMA RequestStep == RequestInv /\ [Next]_bvars => RequestInv'
<1> SUFFICES ASSUME RequestInv, [Next]_bvars PROVE RequestInv'
  OBVIOUS
<1>0. TypeOK'
  BY TypeStep DEF RequestInv
<1>1. CASE SaveStep
  BY <1>0, <1>1, RequestSame DEF SaveStep, table, history, SaveAgrees
<1>2. CASE Adopt
  BY <1>0, <1>2, RequestSame DEF Adopt, history, SaveAgrees, RequestInv
<1>3. ASSUME NEW n \in Names, NEW c \in Scopes, NEW k \in Classes, NEW l \in Limits,
             Admit(n, c, k, l)
      PROVE  RequestInv'
  BY <1>0, <1>3, RequestSame DEF Admit, history, SaveAgrees
<1>4. ASSUME NEW b \in BindingIds, SetSnapshot(b) PROVE RequestInv'
  BY <1>0, <1>4, RequestSame DEF SetSnapshot, history, SaveAgrees
<1>5. ASSUME NEW b \in BindingIds, NEW p \in Promises, NEW t \in Traces, Begin(b, p, t)
      PROVE  RequestInv'
  BY <1>0, <1>5, RequestBegin
<1>6. ASSUME NEW r \in 1 .. RequestMax, Complete(r) PROVE RequestInv'
  BY <1>0, <1>6, RequestComplete
<1>7. ASSUME NEW b \in BindingIds, NEW k \in Tokens, Open(b, k) PROVE RequestInv'
  BY <1>0, <1>7, RequestSame DEF Open, SaveAgrees
<1>8. ASSUME NEW b \in BindingIds, NEW h \in Handle, Release(b, h) PROVE RequestInv'
  BY <1>0, <1>8, RequestSame DEF Release, SaveAgrees
<1>9. CASE UNCHANGED bvars
  BY <1>0, <1>9, RequestSame DEF bvars, table, history, SaveAgrees, RequestInv
<1> QED
  BY <1>1, <1>2, <1>3, <1>4, <1>5, <1>6, <1>7, <1>8, <1>9 DEF Next

\* Until the counter saturates, begin never gives an outstanding call an
\* identifier that is in use or was answered, whatever steps come between.
THEOREM RequestsCorrect == Spec => []RequestsDistinct
<1>1. RequestInv => RequestsDistinct
  BY DEF RequestInv
<1> QED
  BY <1>1, RequestInit, RequestStep, PTL DEF Spec

\* complete accepts an identifier once: a repeated completion is refused rather
\* than settling something twice.
THEOREM AnsweredOnceCorrect == Spec => AnsweredOnce
<1>1. RequestInv /\ [Next]_bvars =>
         [\A r \in 1 .. RequestMax - 1 : Complete(r) => r \notin answered]_bvars
  <2> SUFFICES ASSUME RequestInv, [Next]_bvars,
                      NEW r \in 1 .. RequestMax - 1, Complete(r)
               PROVE  r \notin answered
    OBVIOUS
  <2>1. r \in 1 .. RequestMax /\ r < RequestMax
    BY CountsAssumption
  <2>2. TypeOK'
    BY TypeStep DEF RequestInv
  <2> QED
    BY <2>1, <2>2, RequestComplete
<1> QED
  BY <1>1, RequestInit, RequestStep, PTL DEF Spec, AnsweredOnce

----------------------------------------------------------------------------
(* Handles.  While a slot's generation has not come round it is the number  *)
(* of times the slot was released, so a handle carries which opening it is  *)
(* of, and the slot still holds what that opening put there.                *)

LEMMA HandleInit == Init => HandleInv
  BY TypeInit DEF Init, HandleInv, GenerationCounts, IssuedAgrees, EmptyResource

LEMMA HandleSame ==
    ASSUME HandleInv, TypeOK', resources' = resources, releases' = releases,
           issued' = issued
    PROVE  HandleInv'
  BY DEF HandleInv, GenerationCounts, IssuedAgrees, IssuedOk

LEMMA HandleOpen ==
    ASSUME HandleInv, TypeOK', NEW b \in BindingIds, NEW k \in Tokens, Open(b, k)
    PROVE  HandleInv'
<1>1. PICK i \in Indexes :
        /\ FirstFreeResource(i)
        /\ resources' = [resources EXCEPT ![i].scope = bindings[b].scope,
                                          ![i].token = k, ![i].live = TRUE]
        /\ issued' = issued \cup
              {[handle |-> [index |-> i, generation |-> resources[i].generation],
                scope |-> bindings[b].scope, token |-> k, opening |-> releases[i]]}
  BY DEF Open
<1>2. releases' = releases
  BY DEF Open
<1>3. /\ resources'[i].generation = resources[i].generation
      /\ resources'[i].live
      /\ resources'[i].token = k
      /\ resources'[i].scope = bindings[b].scope
      /\ ~resources[i].live
  BY <1>1 DEF HandleInv, TypeOK, Resource, FirstFreeResource
<1>4. \A j \in Indexes \ {i} : resources'[j] = resources[j]
  BY <1>1 DEF HandleInv, TypeOK
<1>5. GenerationCounts'
  BY <1>2, <1>3, <1>4 DEF HandleInv, GenerationCounts
<1>6. ASSUME NEW e \in issued PROVE IssuedOk(e)'
  <2>1. e.handle.index \in Indexes
    BY DEF HandleInv, TypeOK, Handle
  <2>2. IssuedOk(e)
    BY DEF HandleInv, IssuedAgrees
  <2> QED
    BY <2>1, <2>2, <1>2, <1>3, <1>4 DEF IssuedOk
<1>7. ASSUME NEW e, e = [handle |-> [index |-> i, generation |-> resources[i].generation],
                scope |-> bindings[b].scope, token |-> k, opening |-> releases[i]]
      PROVE  IssuedOk(e)'
  BY <1>2, <1>3, <1>7 DEF HandleInv, GenerationCounts, IssuedOk, TypeOK
<1>8. IssuedAgrees'
  BY <1>1, <1>6, <1>7 DEF IssuedAgrees
<1> QED
  BY <1>5, <1>8 DEF HandleInv

LEMMA HandleRelease ==
    ASSUME HandleInv, TypeOK', NEW b \in BindingIds, NEW h \in Handle, Release(b, h)
    PROVE  HandleInv'
<1>1. PICK i \in Indexes : i = h.index
  BY DEF Handle
<1>2. /\ resources'[i].generation = (resources[i].generation + 1) % GenerationCount
      /\ \A j \in Indexes \ {i} : resources'[j] = resources[j]
  BY <1>1 DEF Release, HandleInv, TypeOK, Resource
<1>3. /\ releases'[i] = releases[i] + 1
      /\ \A j \in Indexes \ {i} : releases'[j] = releases[j]
      /\ \A j \in Indexes : releases[j] \in Nat
      /\ issued' = issued
  BY <1>1 DEF Release, HandleInv, TypeOK
<1>4. \A n \in Nat : n < GenerationCount => n % GenerationCount = n
  BY CountsAssumption
<1>5. GenerationCounts'
  <2> SUFFICES ASSUME NEW j \in Indexes, releases'[j] < GenerationCount
               PROVE  resources'[j].generation = releases'[j]
    BY DEF GenerationCounts
  <2>1. CASE j = i
    <3>1. releases[i] + 1 < GenerationCount /\ releases[i] < GenerationCount
      BY <2>1, <1>3, CountsAssumption
    <3>2. resources[i].generation = releases[i]
      BY <3>1 DEF HandleInv, GenerationCounts
    <3>3. (releases[i] + 1) % GenerationCount = releases[i] + 1
      BY <3>1, <1>3, <1>4
    <3> QED
      BY <2>1, <3>2, <3>3, <1>2, <1>3
  <2>2. CASE j # i
    BY <2>2, <1>2, <1>3 DEF HandleInv, GenerationCounts
  <2> QED
    BY <2>1, <2>2
<1>6. ASSUME NEW e \in issued PROVE IssuedOk(e)'
  <2>1. e.handle.index \in Indexes /\ e.opening \in Nat
    BY DEF HandleInv, TypeOK, Handle
  <2>2. IssuedOk(e)
    BY DEF HandleInv, IssuedAgrees
  <2> QED
    BY <2>1, <2>2, <1>2, <1>3 DEF IssuedOk
<1> QED
  BY <1>3, <1>5, <1>6 DEF HandleInv, IssuedAgrees

LEMMA HandleStep == HandleInv /\ [Next]_bvars => HandleInv'
<1> SUFFICES ASSUME HandleInv, [Next]_bvars PROVE HandleInv'
  OBVIOUS
<1>0. TypeOK'
  BY TypeStep DEF HandleInv
<1>1. CASE SaveStep
  BY <1>0, <1>1, HandleSame DEF SaveStep, table, history
<1>2. CASE Adopt
  BY <1>0, <1>2, HandleSame DEF Adopt, history
<1>3. ASSUME NEW n \in Names, NEW c \in Scopes, NEW k \in Classes, NEW l \in Limits,
             Admit(n, c, k, l)
      PROVE  HandleInv'
  BY <1>0, <1>3, HandleSame DEF Admit, history
<1>4. ASSUME NEW b \in BindingIds, SetSnapshot(b) PROVE HandleInv'
  BY <1>0, <1>4, HandleSame DEF SetSnapshot, history
<1>5. ASSUME NEW b \in BindingIds, NEW p \in Promises, NEW t \in Traces, Begin(b, p, t)
      PROVE  HandleInv'
  BY <1>0, <1>5, HandleSame DEF Begin, history
<1>6. ASSUME NEW r \in 1 .. RequestMax, Complete(r) PROVE HandleInv'
  BY <1>0, <1>6, HandleSame DEF Complete
<1>7. ASSUME NEW b \in BindingIds, NEW k \in Tokens, Open(b, k) PROVE HandleInv'
  BY <1>0, <1>7, HandleOpen
<1>8. ASSUME NEW b \in BindingIds, NEW h \in Handle, Release(b, h) PROVE HandleInv'
  BY <1>0, <1>8, HandleRelease
<1>9. CASE UNCHANGED bvars
  BY <1>0, <1>9, HandleSame DEF bvars, table, history
<1> QED
  BY <1>1, <1>2, <1>3, <1>4, <1>5, <1>6, <1>7, <1>8, <1>9 DEF Next

\* resolve answers for a handle only what that handle was issued for, to the
\* capability that opened it, until its slot's generation has come round.
THEOREM HandlesCorrect == Spec => []HandleNamesItsResource
<1>1. HandleInv => HandleNamesItsResource
  <2> SUFFICES ASSUME HandleInv, NEW e \in issued, NEW b \in BindingIds,
                      Resolves(b, e.handle), releases[e.handle.index] < GenerationCount
               PROVE  /\ e.opening = releases[e.handle.index]
                      /\ resources[e.handle.index].token = e.token
                      /\ bindings[b].scope = e.scope
    BY DEF HandleNamesItsResource
  <2>1. /\ e.handle.index \in Indexes /\ e.opening \in Nat
        /\ releases[e.handle.index] \in Nat
    BY DEF HandleInv, TypeOK, Handle
  <2>2. IssuedOk(e)
    BY DEF HandleInv, IssuedAgrees
  <2>3. e.opening < GenerationCount
    BY <2>1, <2>2, CountsAssumption DEF IssuedOk
  <2>4. e.opening = releases[e.handle.index]
    BY <2>1, <2>2, <2>3 DEF HandleInv, GenerationCounts, IssuedOk, Resolves
  <2> QED
    BY <2>2, <2>4 DEF IssuedOk, Resolves
<1> QED
  BY <1>1, HandleInit, HandleStep, PTL DEF Spec

-----------------------------------------------------------------------------
(***************************************************************************)
(* What CallStaging promises: none of its buffers is overrun, a record     *)
(* leaves once, and its own arguments leave behind it.                     *)
(*                                                                         *)
(* The inductive invariant says what the cells on the port and the records *)
(* of the outbox are together.  The port's cells are whole: calls of one   *)
(* frame and its arguments, each call once.  The calls framed there and    *)
(* the calls that wait are the calls made.  Within a step the arguments of *)
(* the waiting calls lie behind each other in the buffer, up to what was   *)
(* staged; bytes past theirs are there only once the table is full, when   *)
(* no later call of the step is begun.                                     *)
(***************************************************************************)

\* What may follow a cell.
Follows(c, d) ==
    IF c.at < c.length THEN d = [c EXCEPT !.at = @ + 1] ELSE d.at = 0

\* Cells of whole calls, none of them twice.
Chained(s) == \A n \in 1 .. Len(s) : n < Len(s) => Follows(s[n], s[n + 1])
Opened(s)  == s # <<>> => s[1].at = 0
Closed(s)  == s # <<>> => ~(s[Len(s)].at < s[Len(s)].length)
Framing(s) == {n \in 1 .. Len(s) : s[n].at = 0}
Distinct(s) == \A m, n \in Framing(s) : s[m].request = s[n].request => m = n
Whole(s) == Chained(s) /\ Opened(s) /\ Closed(s) /\ Distinct(s)

Framed(s) == {s[n].request : n \in Framing(s)}

\* Where the arguments of each record end.
Ends(s, g) ==
    /\ g \in [0 .. Len(s) -> Nat] /\ g[0] = 0
    /\ \A n \in 1 .. Len(s) : g[n] = g[n - 1] + s[n].length

RequestsNamed(s) == {s[n].request : n \in 1 .. Len(s)}

\* The waiting calls and the framed ones are the calls made.
Shared ==
    /\ \A m, n \in 1 .. Len(outbox) : outbox[m].request = outbox[n].request => m = n
    /\ RequestsNamed(outbox) \cap Framed(Carriage) = {}
    /\ RequestsNamed(outbox) \cup Framed(Carriage) = 1 .. made

\* Each record's arguments are in the buffer from where the last one's end.
InPlace(g) ==
    /\ \A n \in 0 .. Len(outbox) : g[n] <= payload_length
    /\ Cardinality(outstanding) # OutboxCount => payload_length = g[Len(outbox)]
    /\ \A n \in 1 .. Len(outbox) : \A i \in 1 .. outbox[n].length :
          payloads[g[n - 1] + i] = CellAt(outbox[n], i)

Placed == \E g : Ends(outbox, g) /\ InPlace(g)

IInv ==
    /\ StagingTypeOK
    /\ strained = {} => Whole(Carriage)
    /\ strained = {} /\ ~ended => Shared
    /\ strained = {} /\ ~ended /\ stepping => Placed
    /\ strained = {} /\ ~stepping => \A n \in 1 .. Len(outbox) : outbox[n].length = 0

-----------------------------------------------------------------------------
(* Sequences, and functions built step by step.                            *)

LEMMA LeastOf ==
    ASSUME NEW T \in SUBSET Nat, T # {}
    PROVE  \E n \in T : \A k \in T : n <= k
<1> DEFINE R == OpToRel(<, Nat)
<1>1. IsWellFoundedOn(R, Nat)  BY NatLessThanWellFounded
<1>2. R = {s \in Nat \X Nat : s[1] < s[2]}  BY DEF OpToRel
<1> HIDE DEF R
<1>3. PICK n \in T : \A k \in T : ~(<<k, n>> \in R)  BY <1>1, WFMin
<1>4. \A k \in T : k \in Nat /\ (<<k, n>> \in R <=> k < n)  BY <1>2
<1>5. ASSUME NEW k \in T PROVE n <= k
  <2>1. k \in Nat /\ n \in Nat /\ ~(k < n)  BY <1>3, <1>4
  <2> QED BY <2>1
<1> QED BY <1>5

Built(D, start, next, n, f) ==
    f \in [0 .. n -> D] /\ f[0] = start /\ \A i \in 1 .. n : f[i] = next[i][f[i - 1]]

\* A function of 0 .. N that each value gives the next one of.
LEMMA BuiltUp ==
    ASSUME NEW D, NEW start \in D, NEW N \in Nat, NEW next \in [1 .. N -> [D -> D]]
    PROVE  \E f : Built(D, start, next, N, f)
<1> DEFINE T == {n \in 0 .. N : ~ \E f : Built(D, start, next, n, f)}
<1>1. SUFFICES ASSUME T # {} PROVE FALSE
  <2>1. N \in 0 .. N  OBVIOUS
  <2> QED BY <2>1
<1>2. T \in SUBSET Nat  OBVIOUS
<1>3. \A n \in 0 .. N : n \in T <=> ~ \E f : Built(D, start, next, n, f)  OBVIOUS
<1>4. \A n \in T : n \in 0 .. N  OBVIOUS
<1> HIDE DEF T
<1>5. PICK n \in T : \A k \in T : n <= k  BY <1>1, <1>2, LeastOf
<1>6. n \in 0 .. N  BY <1>4
<1>7. CASE n = 0
  <2> DEFINE f == [i \in 0 .. 0 |-> start]
  <2>1. Built(D, start, next, 0, f)  BY DEF Built
  <2> QED BY <1>3, <1>5, <1>6, <1>7, <2>1
<1>8. CASE n # 0
  <2>1. n - 1 \in 0 .. N /\ n - 1 \notin T  BY <1>5, <1>6, <1>8
  <2>2. PICK f : Built(D, start, next, n - 1, f)  BY <1>3, <2>1
  <2>3. /\ f \in [0 .. n - 1 -> D] /\ f[0] = start
        /\ \A i \in 1 .. n - 1 : f[i] = next[i][f[i - 1]]
    BY <2>2 DEF Built
  <2> DEFINE e == [i \in 0 .. n |-> IF i = n THEN next[n][f[n - 1]] ELSE f[i]]
  <2>4. f[n - 1] \in D /\ n \in 1 .. N  BY <1>6, <1>8, <2>3
  <2>5. next[n][f[n - 1]] \in D  BY <2>4
  <2>6. \A i \in 0 .. n : i # n => i \in 0 .. n - 1  BY <1>6
  <2>7. e \in [0 .. n -> D]  BY <2>3, <2>5, <2>6
  <2>8. e[0] = start  BY <1>6, <1>8, <2>3
  <2>9. ASSUME NEW i \in 1 .. n PROVE e[i] = next[i][e[i - 1]]
    <3>1. i - 1 \in 0 .. n /\ i - 1 # n /\ i \in 0 .. n  BY <1>6
    <3>2. e[i - 1] = f[i - 1]  BY <3>1
    <3>3. CASE i = n  BY <3>1, <3>2, <3>3
    <3>4. CASE i # n
      <4>1. i \in 1 .. n - 1  BY <1>6, <3>4
      <4> QED BY <2>3, <3>1, <3>2, <3>4, <4>1
    <3> QED BY <3>3, <3>4
  <2> HIDE DEF e
  <2>10. Built(D, start, next, n, e)  BY <2>7, <2>8, <2>9 DEF Built
  <2> QED BY <1>3, <1>5, <1>6, <2>10
<1> QED BY <1>7, <1>8

Joins(C, a, b) ==
    /\ a \o b \in Seq(C) /\ Len(a \o b) = Len(a) + Len(b)
    /\ Len(a) \in Nat /\ Len(b) \in Nat
    /\ \A i \in 1 .. Len(a) : (a \o b)[i] = a[i]
    /\ \A i \in 1 .. Len(b) : (a \o b)[Len(a) + i] = b[i]
    /\ a = <<>> => a \o b = b
    /\ b = <<>> => a \o b = a

LEMMA Joined ==
    ASSUME NEW C, NEW a \in Seq(C), NEW b \in Seq(C)
    PROVE  Joins(C, a, b)
<1>1. Len(a) \in Nat /\ Len(b) \in Nat  OBVIOUS
<1>2. /\ a \o b \in Seq(C) /\ Len(a \o b) = Len(a) + Len(b)
      /\ \A i \in 1 .. Len(a) + Len(b) : (a \o b)[i] = IF i <= Len(a) THEN a[i] ELSE b[i - Len(a)]
  BY ConcatProperties
<1>3. (a = <<>> => a \o b = b) /\ (b = <<>> => a \o b = a)  BY ConcatEmptySeq
<1>4. \A i \in 1 .. Len(a) : (a \o b)[i] = a[i]  BY ONLY <1>1, <1>2
<1>5. ASSUME NEW i \in 1 .. Len(b) PROVE (a \o b)[Len(a) + i] = b[i]
  <2>1. Len(a) + i \in 1 .. Len(a) + Len(b) /\ ~(Len(a) + i <= Len(a)) /\ (Len(a) + i) - Len(a) = i
    BY ONLY <1>1, <1>5
  <2> QED BY ONLY <1>2, <2>1
<1> QED BY ONLY <1>1, <1>2, <1>3, <1>4, <1>5 DEF Joins

Associates(x, y, z) == (x \o y) \o z = x \o (y \o z)

LEMMA Associative ==
    ASSUME NEW C, NEW x \in Seq(C), NEW y \in Seq(C), NEW z \in Seq(C)
    PROVE  Associates(x, y, z)
BY ConcatAssociative DEF Associates

-----------------------------------------------------------------------------
(* Cells.                                                                  *)

\* What is known of the cells of one call.
Carload(r) == <<CellAt(r, 0)>> \o Arguments(r)

LEMMA RecordFacts ==
    ASSUME NEW r \in Record
    PROVE  /\ r.request \in Requests /\ r.length \in PayloadLengths /\ r.length \in Nat
           /\ \A n \in Nat : CellAt(r, n) \in Cell
           /\ Arguments(r) \in Seq(Cell) /\ Len(Arguments(r)) = r.length
           /\ \A n \in 1 .. r.length : Arguments(r)[n] = CellAt(r, n)
<1>1. r.request \in Requests /\ r.length \in PayloadLengths /\ r.length \in Nat
  BY CallStagingConstants DEF Record, CallStagingAssumption
<1>2. \A n \in Nat : CellAt(r, n) \in Cell  BY <1>1 DEF CellAt, Cell
<1>3. Arguments(r) \in Seq(Cell) /\ Len(Arguments(r)) = r.length
  <2> DEFINE a == [n \in 1 .. r.length |-> CellAt(r, n)]
  <2>1. \A n \in 1 .. r.length : CellAt(r, n) \in Cell  BY <1>1, <1>2
  <2>2. a \in [1 .. r.length -> Cell]  BY <2>1
  <2> HIDE DEF a
  <2>3. a \in Seq(Cell) /\ Len(a) = r.length
    <3>1. DOMAIN a = 1 .. r.length  BY <2>2
    <3>2. a \in Seq(Cell)  BY <1>1, <2>2
    <3> QED BY <1>1, <3>1, <3>2, LenProperties
  <2> QED BY <2>3 DEF a, Arguments
<1>4. \A n \in 1 .. r.length : Arguments(r)[n] = CellAt(r, n)  BY DEF Arguments
<1> QED BY <1>1, <1>2, <1>3, <1>4

LEMMA CarloadFacts ==
    ASSUME NEW r \in Record
    PROVE  /\ Carload(r) \in Seq(Cell) /\ Len(Carload(r)) = r.length + 1
           /\ \A n \in 1 .. r.length + 1 : Carload(r)[n] = CellAt(r, n - 1)
<1>1. /\ r.length \in Nat /\ CellAt(r, 0) \in Cell
      /\ Arguments(r) \in Seq(Cell) /\ Len(Arguments(r)) = r.length
      /\ \A n \in 1 .. r.length : Arguments(r)[n] = CellAt(r, n)
  BY RecordFacts
<1> DEFINE h == <<CellAt(r, 0)>>
<1>2. h \in Seq(Cell) /\ Len(h) = 1 /\ h[1] = CellAt(r, 0)  BY <1>1
<1> HIDE DEF h
<1>3. /\ h \o Arguments(r) \in Seq(Cell) /\ Len(h \o Arguments(r)) = 1 + r.length
      /\ \A i \in 1 .. 1 : (h \o Arguments(r))[i] = h[i]
      /\ \A i \in 1 .. r.length : (h \o Arguments(r))[1 + i] = Arguments(r)[i]
  <2> DEFINE a == Arguments(r)
  <2>1. a \in Seq(Cell) /\ Len(a) = r.length  BY <1>1
  <2> HIDE DEF a
  <2>2. /\ h \o a \in Seq(Cell) /\ Len(h \o a) = Len(h) + Len(a)
        /\ \A i \in 1 .. Len(h) : (h \o a)[i] = h[i]
        /\ \A i \in 1 .. Len(a) : (h \o a)[Len(h) + i] = a[i]
    <3>1. Joins(Cell, h, a)  BY <1>2, <2>1, Joined
    <3> QED BY ONLY <3>1 DEF Joins
  <2>3. /\ h \o a \in Seq(Cell) /\ Len(h \o a) = 1 + r.length
        /\ \A i \in 1 .. 1 : (h \o a)[i] = h[i]
        /\ \A i \in 1 .. r.length : (h \o a)[1 + i] = a[i]
    BY ONLY <1>2, <2>1, <2>2
  <2> QED BY <2>3 DEF a
<1>4. Carload(r) = h \o Arguments(r)  BY DEF Carload, h
<1>5. ASSUME NEW n \in 1 .. r.length + 1 PROVE Carload(r)[n] = CellAt(r, n - 1)
  <2>1. CASE n = 1  BY <1>2, <1>3, <1>4, <2>1
  <2>2. CASE n # 1
    <3>1. n - 1 \in 1 .. r.length /\ 1 + (n - 1) = n  BY <1>1, <2>2
    <3>2. Carload(r)[1 + (n - 1)] = CellAt(r, n - 1)  BY <1>1, <1>3, <1>4, <3>1
    <3> QED BY <3>1, <3>2
  <2> QED BY <2>1, <2>2
<1> QED BY <1>1, <1>3, <1>4, <1>5

\* A call behind whole calls, if it is none of theirs.
LEMMA Coupled ==
    ASSUME NEW s \in Seq(Cell), NEW r \in Record, Whole(s), r.request \notin Framed(s)
    PROVE  /\ s \o Carload(r) \in Seq(Cell)
           /\ Whole(s \o Carload(r))
           /\ Framed(s \o Carload(r)) = Framed(s) \cup {r.request}
<1> DEFINE t == Carload(r)
           u == s \o t
           L == Len(s)
           K == r.length
<1>1. /\ K \in Nat /\ t \in Seq(Cell) /\ Len(t) = K + 1
      /\ \A n \in 1 .. K + 1 : t[n] = CellAt(r, n - 1)
  BY RecordFacts, CarloadFacts
<1>2. /\ \A n \in 1 .. K + 1 : t[n].at = n - 1 /\ t[n].length = K /\ t[n].request = r.request
      /\ \A n \in 1 .. K : t[n + 1] = [t[n] EXCEPT !.at = @ + 1]
  <2>1. ASSUME NEW n \in 1 .. K + 1
        PROVE  t[n].at = n - 1 /\ t[n].length = K /\ t[n].request = r.request
    <3>1. t[n] = CellAt(r, n - 1)  BY <1>1
    <3> HIDE DEF t
    <3> QED BY <3>1 DEF CellAt
  <2>2. ASSUME NEW n \in 1 .. K PROVE t[n + 1] = [t[n] EXCEPT !.at = @ + 1]
    <3>1. /\ n \in 1 .. K + 1 /\ n + 1 \in 1 .. K + 1 /\ (n + 1) - 1 = (n - 1) + 1
          /\ n - 1 \in Nat
      BY <1>1
    <3>2. t[n] = CellAt(r, n - 1) /\ t[n + 1] = CellAt(r, (n - 1) + 1)  BY <1>1, <3>1
    <3> HIDE DEF t
    <3> QED BY <3>2 DEF CellAt
  <2> QED BY <2>1, <2>2
<1> HIDE DEF t, K
<1>3. /\ u \in Seq(Cell) /\ Len(u) = L + (K + 1) /\ L \in Nat
      /\ \A i \in 1 .. L : u[i] = s[i]
      /\ \A i \in 1 .. K + 1 : u[L + i] = t[i]
  <2>1. /\ u \in Seq(Cell) /\ Len(u) = Len(s) + Len(t) /\ Len(s) \in Nat
        /\ \A i \in 1 .. Len(s) : u[i] = s[i]
        /\ \A i \in 1 .. Len(t) : u[Len(s) + i] = t[i]
    <3>1. Joins(Cell, s, t)  BY <1>1, Joined
    <3> QED BY ONLY <3>1 DEF Joins
  <2> HIDE DEF u
  <2> QED BY ONLY <1>1, <2>1
<1>4. (s # <<>> <=> L > 0) /\ L = Len(s)  BY <1>3, EmptySeq
<1>5. u # <<>>  BY <1>1, <1>3, EmptySeq
<1> HIDE DEF u, L
<1>6. Chained(u)
  <2>1. SUFFICES ASSUME NEW n \in 1 .. Len(u), n < Len(u) PROVE Follows(u[n], u[n + 1])
    BY DEF Chained
  <2>2. CASE n < L
    <3>1. u[n] = s[n] /\ u[n + 1] = s[n + 1] /\ n \in 1 .. L  BY <1>3, <2>2
    <3>2. n \in 1 .. Len(s) /\ n < Len(s)  BY <1>4, <2>2, <3>1
    <3>3. Follows(s[n], s[n + 1])  BY ONLY <3>2, Whole(s) DEF Whole, Chained
    <3> QED BY <3>1, <3>3
  <2>3. CASE n = L
    <3>1. u[n] = s[L] /\ u[n + 1] = t[1] /\ t[1].at = 0 /\ L > 0
      <4>1. n \in 1 .. L /\ 1 \in 1 .. K + 1 /\ L > 0 /\ 1 - 1 = 0  BY ONLY <1>1, <1>3, <2>1, <2>3
      <4>2. t[1].at = 1 - 1  BY ONLY <1>2, <4>1
      <4> QED BY ONLY <1>3, <2>3, <4>1, <4>2
    <3>2. ~(s[L].at < s[L].length)  BY ONLY <1>4, <3>1, Whole(s) DEF Whole, Closed
    <3> QED BY <3>1, <3>2 DEF Follows
  <2>4. CASE n > L
    <3> DEFINE j == n - L
    <3>1. j \in 1 .. K /\ n = L + j /\ n + 1 = L + (j + 1) /\ j \in 1 .. K + 1 /\ j + 1 \in 1 .. K + 1
      BY <1>1, <1>3, <2>1, <2>4
    <3> HIDE DEF j
    <3>2. u[n] = t[j] /\ u[n + 1] = t[j + 1]  BY <1>3, <3>1
    <3>3. t[j].at < t[j].length /\ t[j + 1] = [t[j] EXCEPT !.at = @ + 1]
      <4>1. t[j].at = j - 1 /\ t[j].length = K  BY <1>2, <3>1
      <4>2. j - 1 < K  BY <1>1, <3>1
      <4> QED BY <1>2, <3>1, <4>1, <4>2
    <3> QED BY <3>2, <3>3 DEF Follows
  <2> QED BY <1>3, <2>2, <2>3, <2>4
<1>7. Opened(u)
  <2>1. CASE L > 0
    <3>1. u[1] = s[1] /\ s[1].at = 0  BY <1>3, <1>4, <2>1 DEF Whole, Opened
    <3> QED BY <3>1 DEF Opened
  <2>2. CASE L = 0
    <3>1. u[0 + 1] = t[1] /\ t[1].at = 0  BY <1>1, <1>2, <1>3, <2>2
    <3> QED BY <3>1 DEF Opened
  <2> QED BY <1>3, <2>1, <2>2
<1>8. Closed(u)
  <2>1. u[Len(u)] = t[K + 1] /\ t[K + 1].at = (K + 1) - 1 /\ t[K + 1].length = K
    BY <1>1, <1>2, <1>3
  <2> QED BY <1>1, <2>1 DEF Closed
<1>9. /\ \A n \in 1 .. Len(u) : n \in Framing(u) <=> n \in Framing(s) \/ n = L + 1
      /\ \A n \in Framing(s) : n \in 1 .. L /\ n \in Framing(u) /\ u[n] = s[n]
      /\ L + 1 \in Framing(u) /\ u[L + 1].request = r.request /\ L + 1 \notin Framing(s)
  <2>1. u[L + 1] = t[1] /\ t[1].at = 0 /\ t[1].request = r.request  BY <1>1, <1>2, <1>3
  <2>2. \A n \in Framing(s) : n \in 1 .. L /\ n \in Framing(u) /\ u[n] = s[n]
    BY <1>1, <1>3, <1>4 DEF Framing
  <2>3. L + 1 \in Framing(u) /\ L + 1 \notin Framing(s)
    BY <1>1, <1>3, <1>4, <2>1 DEF Framing
  <2>4. ASSUME NEW n \in Framing(u), n # L + 1 PROVE n \in Framing(s)
    <3>1. n \in 1 .. Len(u) /\ u[n].at = 0  BY <2>4 DEF Framing
    <3>2. CASE n <= L
      <4>1. n \in 1 .. L /\ u[n] = s[n]  BY <1>3, <3>1, <3>2
      <4> QED BY <1>4, <3>1, <4>1 DEF Framing
    <3>3. CASE n > L
      <4> DEFINE j == n - L
      <4>1. j \in 2 .. K + 1 /\ n = L + j /\ j \in 1 .. K + 1  BY <1>1, <1>3, <2>4, <3>1, <3>3
      <4> HIDE DEF j
      <4>2. u[n] = t[j] /\ t[j].at = j - 1  BY <1>2, <1>3, <4>1
      <4>3. j - 1 # 0  BY <1>1, <4>1
      <4> QED BY <3>1, <4>2, <4>3
    <3> QED BY <1>3, <3>1, <3>2, <3>3
  <2> QED BY <2>1, <2>2, <2>3, <2>4
<1>10. \A n \in Framing(u) : n \in Framing(s) \/ n = L + 1  BY <1>9 DEF Framing
<1>11. Distinct(u)
  <2>1. SUFFICES ASSUME NEW m \in Framing(u), NEW n \in Framing(u), u[m].request = u[n].request
                 PROVE  m = n
    BY DEF Distinct
  <2>2. \A k \in Framing(s) : u[k].request # r.request  BY <1>9 DEF Framed
  <2>3. CASE m \in Framing(s) /\ n \in Framing(s)
    BY <1>9, <2>1, <2>3 DEF Whole, Distinct
  <2>4. CASE m = L + 1 \/ n = L + 1  BY <1>9, <1>10, <2>1, <2>2, <2>4
  <2> QED BY <1>10, <2>3, <2>4
<1>12. Framed(u) = Framed(s) \cup {r.request}
  <2>1. ASSUME NEW q \in Framed(u) PROVE q \in Framed(s) \cup {r.request}
    <3>1. PICK n \in Framing(u) : q = u[n].request  BY <2>1 DEF Framed
    <3> QED BY <1>9, <1>10, <3>1 DEF Framed
  <2>2. ASSUME NEW q \in Framed(s) PROVE q \in Framed(u)
    <3>1. PICK n \in Framing(s) : q = s[n].request  BY <2>2 DEF Framed
    <3> QED BY <1>9, <3>1 DEF Framed
  <2>3. r.request \in Framed(u)  BY <1>9 DEF Framed
  <2> QED BY <2>1, <2>2, <2>3
<1> QED BY <1>3, <1>6, <1>7, <1>8, <1>11, <1>12 DEF Whole, u, t, L, K

-----------------------------------------------------------------------------
(* Where the arguments end.                                                *)

LEMMA EndsExist ==
    ASSUME NEW s \in Seq(Record)
    PROVE  \E g : Ends(s, g)
<1>1. \A n \in 1 .. Len(s) : s[n] \in Record /\ s[n].length \in Nat
  <2>1. \A n \in 1 .. Len(s) : s[n] \in Record  BY ElementOfSeq
  <2> QED BY <2>1, RecordFacts
<1> DEFINE next == [n \in 1 .. Len(s) |-> [e \in Nat |-> e + s[n].length]]
<1>2. next \in [1 .. Len(s) -> [Nat -> Nat]]  BY <1>1
<1>3. \A n \in 1 .. Len(s) : \A e \in Nat : next[n][e] = e + s[n].length  OBVIOUS
<1>4. Len(s) \in Nat  BY LenProperties
<1> HIDE DEF next
<1>5. PICK g : Built(Nat, 0, next, Len(s), g)  BY <1>2, <1>4, BuiltUp
<1>6. /\ g \in [0 .. Len(s) -> Nat] /\ g[0] = 0
      /\ \A n \in 1 .. Len(s) : g[n] = next[n][g[n - 1]]
  BY <1>5 DEF Built
<1>7. \A n \in 1 .. Len(s) : g[n] = g[n - 1] + s[n].length
  <2>1. TAKE n \in 1 .. Len(s)
  <2>2. n - 1 \in 0 .. Len(s)  BY <1>4
  <2> QED BY <1>3, <1>6, <2>2
<1> QED BY <1>6, <1>7 DEF Ends

\* A record behind the others.
Longer(s, g, r) == [n \in 0 .. Len(s) + 1 |-> IF n = Len(s) + 1 THEN g[Len(s)] + r.length ELSE g[n]]

LEMMA EndsAppend ==
    ASSUME NEW s \in Seq(Record), NEW g, NEW r \in Record, Ends(s, g)
    PROVE  Ends(Append(s, r), Longer(s, g, r))
<1> DEFINE t == Append(s, r)
           L == Len(s)
           h == Longer(s, g, r)
<1>1. /\ Len(t) = L + 1 /\ L \in Nat
      /\ \A n \in 1 .. L : t[n] = s[n]
      /\ t[L + 1] = r
  BY AppendProperties, LenProperties
<1>2. r.length \in Nat  BY RecordFacts
<1>3. /\ g \in [0 .. L -> Nat] /\ g[0] = 0
      /\ \A n \in 1 .. L : g[n] = g[n - 1] + s[n].length
  BY DEF Ends
<1>4. /\ DOMAIN h = 0 .. L + 1 /\ h = [n \in 0 .. L + 1 |-> h[n]]
      /\ h[L + 1] = g[L] + r.length
      /\ \A n \in 0 .. L : h[n] = g[n]
  BY <1>1 DEF Longer
<1> HIDE DEF t, L, h
<1>5. h \in [0 .. L + 1 -> Nat]
  <2>1. \A n \in 0 .. L + 1 : h[n] \in Nat
    <3>1. TAKE n \in 0 .. L + 1
    <3>2. g[L] \in Nat  BY <1>1, <1>3
    <3>3. CASE n = L + 1  BY <1>2, <1>4, <3>2, <3>3
    <3>4. CASE n # L + 1
      <4>1. n \in 0 .. L  BY <1>1, <3>4
      <4> QED BY <1>3, <1>4, <4>1
    <3> QED BY <3>3, <3>4
  <2> QED BY <1>4, <2>1
<1>6. h[0] = 0
  <2>1. 0 \in 0 .. L  BY <1>1
  <2> QED BY <1>3, <1>4, <2>1
<1>7. ASSUME NEW n \in 1 .. L + 1 PROVE h[n] = h[n - 1] + t[n].length
  <2>1. n - 1 \in 0 .. L  BY <1>1
  <2>2. h[n - 1] = g[n - 1]  BY <1>4, <2>1
  <2>3. CASE n = L + 1
    <3>1. n - 1 = L  BY <1>1, <2>3
    <3> QED BY <1>1, <1>4, <2>2, <2>3, <3>1
  <2>4. CASE n # L + 1
    <3>1. n \in 1 .. L /\ n \in 0 .. L  BY <1>1, <2>4
    <3> QED BY <1>1, <1>3, <1>4, <2>2, <3>1
  <2> QED BY <2>3, <2>4
<1> QED BY <1>1, <1>5, <1>6, <1>7 DEF Ends, t, h

LEMMA OffsetIsEnd ==
    ASSUME outbox \in Seq(Record), NEW g, Ends(outbox, g)
    PROVE  \A n \in 1 .. Len(outbox) : Offset(n) = g[n - 1]
<1> DEFINE L == Len(outbox)
           Stepwise(f) == f = [k \in 1 .. L |->
                                  IF k = 1 THEN 0 ELSE f[k - 1] + outbox[k - 1].length]
           h == [n \in 1 .. L |-> g[n - 1]]
           before == CHOOSE f : Stepwise(f)
<1>1. /\ L \in Nat /\ g \in [0 .. L -> Nat] /\ g[0] = 0
      /\ \A n \in 1 .. L : g[n] = g[n - 1] + outbox[n].length
  BY LenProperties DEF Ends
<1>2. \A n \in 1 .. L : Offset(n) = before[n]  BY DEF Offset
<1>3. \A n \in 1 .. L : h[n] = IF n = 1 THEN 0 ELSE h[n - 1] + outbox[n - 1].length
  <2>1. TAKE n \in 1 .. L
  <2>2. h[n] = g[n - 1]  OBVIOUS
  <2>3. CASE n = 1  BY <1>1, <2>2, <2>3
  <2>4. CASE n # 1
    <3>1. n - 1 \in 1 .. L  BY <1>1, <2>4
    <3>2. h[n - 1] = g[(n - 1) - 1]  BY <3>1
    <3>3. g[n - 1] = g[(n - 1) - 1] + outbox[n - 1].length  BY <1>1, <3>1
    <3> QED BY <2>2, <2>4, <3>2, <3>3
  <2> QED BY <2>3, <2>4
<1>4. h = [n \in 1 .. L |-> h[n]]  OBVIOUS
<1>5. \A n \in 1 .. L : h[n] = g[n - 1]  OBVIOUS
<1> HIDE DEF h, L
<1>6. Stepwise(h)  BY <1>3, <1>4
<1> HIDE DEF Stepwise
<1>7. Stepwise(before)  BY <1>6
<1> HIDE DEF before
<1>8. \A n \in 1 .. L : before[n] = IF n = 1 THEN 0 ELSE before[n - 1] + outbox[n - 1].length
  BY <1>7 DEF Stepwise
<1> DEFINE T == {n \in 1 .. L : before[n] # h[n]}
<1>9. \A n \in T : n \in 1 .. L /\ before[n] # h[n]  OBVIOUS
<1>10. \A n \in 1 .. L : n \notin T => before[n] = h[n]  OBVIOUS
<1>11. T \in SUBSET Nat  BY <1>1
<1> HIDE DEF T
<1>12. ASSUME T # {} PROVE FALSE
  <2>1. PICK n \in T : \A k \in T : n <= k  BY <1>11, <1>12, LeastOf
  <2>2. n \in 1 .. L /\ before[n] # h[n]  BY <1>9
  <2>3. n # 1  BY <1>3, <1>8, <2>2
  <2>4. n - 1 \in 1 .. L /\ n - 1 \notin T  BY <1>1, <2>1, <2>2, <2>3
  <2>5. before[n - 1] = h[n - 1]  BY <1>10, <2>4
  <2> QED BY <1>3, <1>8, <2>2, <2>3, <2>5
<1> QED BY <1>2, <1>5, <1>10, <1>12 DEF L

-----------------------------------------------------------------------------
(* What a step stages.                                                     *)

\* The part of the staging that is of one record.
Piece(n) == IF n \in Carried THEN CarriedCells(n) ELSE <<>>

Cuts(C, s, a, k) ==
    /\ SubSeq(s, a + 1, a + k) \in Seq(C) /\ Len(SubSeq(s, a + 1, a + k)) = k
    /\ \A i \in 1 .. k : SubSeq(s, a + 1, a + k)[i] = s[a + i]

LEMMA Cut ==
    ASSUME NEW C, NEW s \in Seq(C), NEW a \in Nat, NEW k \in Nat, a + k <= Len(s)
    PROVE  Cuts(C, s, a, k)
<1> DEFINE u == SubSeq(s, a + 1, a + k)
<1>1. \A i \in (a + 1) .. (a + k) : s[i] \in C
  <2>1. TAKE i \in (a + 1) .. (a + k)
  <2>2. i \in 1 .. Len(s)  OBVIOUS
  <2> QED BY <2>2, ElementOfSeq
<1>2. /\ u \in Seq(C)
      /\ Len(u) = IF a + 1 <= a + k THEN (a + k) - (a + 1) + 1 ELSE 0
      /\ \A i \in 1 .. (a + k) - (a + 1) + 1 : u[i] = s[(a + 1) + i - 1]
  BY <1>1, SubSeqProperties
<1> HIDE DEF u
<1>3. u \in Seq(C) /\ Len(u) = k  BY <1>2
<1>4. ASSUME NEW i \in 1 .. k PROVE u[i] = s[a + i]
  <2>1. i \in 1 .. (a + k) - (a + 1) + 1 /\ (a + 1) + i - 1 = a + i  OBVIOUS
  <2> QED BY ONLY <1>2, <2>1
<1> QED BY ONLY <1>3, <1>4 DEF u, Cuts

LEMMA PieceFacts ==
    ASSUME StagingTypeOK, NEW g, Ends(outbox, g), NEW n \in 1 .. Len(outbox)
    PROVE  /\ Piece(n) \in Seq(Cell) /\ Len(Piece(n)) <= 1 + outbox[n].length
           /\ Offset(n) = g[n - 1] /\ outbox[n].length \in Nat /\ outbox[n] \in Record
           /\ g[n - 1] \in Nat /\ g[n] = g[n - 1] + outbox[n].length
<1> DEFINE r == outbox[n]
           a == Offset(n)
           u == SubSeq(payloads, a + 1, a + r.length)
           h == <<CellAt(r, 0)>>
<1>1. outbox \in Seq(Record) /\ payloads \in Seq(Cell) /\ payload_length <= Len(payloads)
      /\ payload_length \in Nat /\ Len(payloads) \in Nat
  <2>1. /\ outbox \in Seq(Record) /\ payloads \in Seq(Cell)
        /\ payload_length \in 0 .. Len(payloads)
    BY DEF StagingTypeOK
  <2>2. Len(payloads) \in Nat  BY <2>1, LenProperties
  <2> QED BY <2>1, <2>2
<1>2. r \in Record /\ r.length \in Nat /\ h \in Seq(Cell) /\ Len(h) = 1
  <2>1. r \in Record  BY <1>1, ElementOfSeq
  <2>2. CellAt(r, 0) \in Cell /\ r.length \in Nat  BY <2>1, RecordFacts
  <2> QED BY <2>1, <2>2
<1>3. a = g[n - 1] /\ a \in Nat /\ g[n] = a + r.length
  <2>1. a = g[n - 1]  BY <1>1, OffsetIsEnd
  <2>2. Len(outbox) \in Nat  BY <1>1, LenProperties
  <2>3. n - 1 \in 0 .. Len(outbox)  BY <2>2
  <2> QED BY <2>1, <2>3 DEF Ends
<1>4. Piece(n) = IF n \in Carried THEN h \o u ELSE <<>>  BY DEF Piece, CarriedCells
<1>5. CASE n \in Carried
  <2>1. \A k \in 1 .. n : Offset(k) + outbox[k].length <= payload_length
    BY <1>5 DEF Carried
  <2>2. n \in 1 .. n  BY <1>1, LenProperties
  <2>3. a + r.length <= payload_length  BY <2>1, <2>2
  <2>4. a + r.length <= Len(payloads)  BY <1>1, <1>2, <1>3, <2>3
  <2> HIDE DEF a, r, h
  <2>5. u \in Seq(Cell) /\ Len(u) = r.length
    <3> DEFINE k == r.length
    <3>1. k \in Nat /\ a + k <= Len(payloads)  BY <1>2, <2>4
    <3> HIDE DEF k
    <3>2. Cuts(Cell, payloads, a, k)  BY <1>1, <1>3, <3>1, Cut
    <3> QED BY <3>2 DEF Cuts, k
  <2> HIDE DEF u
  <2>6. Joins(Cell, h, u)  BY <1>2, <2>5, Joined
  <2>7. h \o u \in Seq(Cell) /\ Len(h \o u) = 1 + r.length
    BY ONLY <1>2, <2>5, <2>6 DEF Joins
  <2>8. Piece(n) = h \o u  BY <1>4, <1>5
  <2>9. Piece(n) \in Seq(Cell) /\ Len(Piece(n)) <= 1 + r.length  BY <1>2, <2>7, <2>8
  <2> QED BY <1>2, <1>3, <2>9 DEF r, a
<1>6. CASE n \notin Carried
  <2>1. Piece(n) = <<>>  BY <1>4, <1>6
  <2>2. Piece(n) \in Seq(Cell) /\ Len(Piece(n)) = 0  BY <2>1
  <2> QED BY <1>2, <1>3, <2>2
<1> QED BY <1>5, <1>6

Stages(f) ==
    /\ f \in [0 .. Len(outbox) -> Seq(Cell)] /\ f[0] = <<>>
    /\ \A n \in 1 .. Len(outbox) : f[n] = f[n - 1] \o Piece(n)

LEMMA StagedStepwise ==
    ASSUME StagingTypeOK
    PROVE  \E f : Stages(f) /\ Staging = f[Len(outbox)]
<1> DEFINE L == Len(outbox)
           D == Seq(Cell)
           Stepwise(f) == f = [n \in 0 .. L |-> IF n = 0 THEN <<>> ELSE f[n - 1] \o Piece(n)]
           upto == CHOOSE f : Stepwise(f)
           next == [n \in 1 .. L |-> [s \in D |-> s \o Piece(n)]]
<1>1. outbox \in Seq(Record) /\ L \in Nat  BY LenProperties DEF StagingTypeOK
<1>2. Staging = upto[L]  BY DEF Staging, Piece
<1>3. \A n \in 1 .. L : Piece(n) \in D  BY <1>1, EndsExist, PieceFacts
<1>4. next \in [1 .. L -> [D -> D]]
  <2>1. ASSUME NEW n \in 1 .. L, NEW s \in D PROVE s \o Piece(n) \in D
    <3>1. Piece(n) \in Seq(Cell) /\ s \in Seq(Cell)  BY <1>3
    <3> QED BY <3>1
  <2> HIDE DEF D
  <2> QED BY <2>1
<1>5. \A n \in 1 .. L : \A s \in D : next[n][s] = s \o Piece(n)  OBVIOUS
<1>6. <<>> \in D  OBVIOUS
<1> HIDE DEF next, D, L, Stepwise
<1>7. PICK f : Built(D, <<>>, next, L, f)  BY <1>1, <1>4, <1>6, BuiltUp
<1>8. /\ f \in [0 .. L -> D] /\ f[0] = <<>>
      /\ \A n \in 1 .. L : f[n] = next[n][f[n - 1]]
  BY <1>7 DEF Built
<1>9. \A n \in 1 .. L : f[n] = f[n - 1] \o Piece(n)
  <2>1. TAKE n \in 1 .. L
  <2>2. n - 1 \in 0 .. L  BY <1>1
  <2>3. f[n - 1] \in D  BY <1>8, <2>2
  <2> QED BY <1>5, <1>8, <2>3
<1>10. Stepwise(f)
  <2>1. f = [n \in 0 .. L |-> f[n]]  BY <1>8
  <2>2. \A n \in 0 .. L : f[n] = IF n = 0 THEN <<>> ELSE f[n - 1] \o Piece(n)
    <3>1. TAKE n \in 0 .. L
    <3>2. CASE n = 0  BY <1>8, <3>2
    <3>3. CASE n # 0
      <4>1. n \in 1 .. L  BY <1>1, <3>3
      <4> QED BY <1>9, <3>3, <4>1
    <3> QED BY <3>2, <3>3
  <2> QED BY <2>1, <2>2 DEF Stepwise
<1>11. Stepwise(upto)  BY <1>10
<1> HIDE DEF upto
<1>12. \A n \in 0 .. L : upto[n] = IF n = 0 THEN <<>> ELSE upto[n - 1] \o Piece(n)
  BY <1>11 DEF Stepwise
<1> DEFINE T == {n \in 0 .. L : upto[n] # f[n]}
<1>13. \A n \in T : n \in 0 .. L /\ upto[n] # f[n]  OBVIOUS
<1>14. \A n \in 0 .. L : n \notin T => upto[n] = f[n]  OBVIOUS
<1>15. T \in SUBSET Nat  BY <1>1
<1> HIDE DEF T
<1>16. ASSUME T # {} PROVE FALSE
  <2>1. PICK n \in T : \A k \in T : n <= k  BY <1>15, <1>16, LeastOf
  <2>2. n \in 0 .. L /\ upto[n] # f[n]  BY <1>13
  <2>3. n # 0  BY <1>8, <1>12, <2>2
  <2>4. n - 1 \in 0 .. L /\ n - 1 \notin T /\ n \in 1 .. L  BY <1>1, <2>1, <2>2, <2>3
  <2>5. upto[n - 1] = f[n - 1]  BY <1>14, <2>4
  <2> QED BY <1>9, <1>12, <2>2, <2>3, <2>4, <2>5
<1>17. L \in 0 .. L  BY <1>1
<1>18. Staging = f[L]  BY <1>2, <1>14, <1>16, <1>17
<1>19. Stages(f)  BY <1>8, <1>9 DEF Stages, L, D
<1> QED BY <1>18, <1>19 DEF L

LEMMA StagingFits ==
    ASSUME StagingTypeOK
    PROVE  Staging \in Seq(Cell) /\ Len(Staging) <= Needed
<1> DEFINE L == Len(outbox)
<1>1. outbox \in Seq(Record) /\ L \in Nat  BY LenProperties DEF StagingTypeOK
<1>2. PICK g : Ends(outbox, g)  BY <1>1, EndsExist
<1>3. PICK f : Stages(f) /\ Staging = f[L]  BY StagedStepwise
<1>4. /\ f \in [0 .. L -> Seq(Cell)] /\ f[0] = <<>>
      /\ \A n \in 1 .. L : f[n] = f[n - 1] \o Piece(n)
  BY <1>3 DEF Stages
<1>5. g \in [0 .. L -> Nat] /\ g[0] = 0  BY <1>2 DEF Ends
<1> DEFINE T == {n \in 0 .. L : ~(Len(f[n]) <= n + g[n])}
<1>6. \A n \in T : n \in 0 .. L /\ ~(Len(f[n]) <= n + g[n])  OBVIOUS
<1>7. \A n \in 0 .. L : n \notin T => Len(f[n]) <= n + g[n]  OBVIOUS
<1>8. T \in SUBSET Nat  BY <1>1
<1> HIDE DEF T
<1>9. ASSUME T # {} PROVE FALSE
  <2>1. PICK n \in T : \A k \in T : n <= k  BY <1>8, <1>9, LeastOf
  <2>2. n \in 0 .. L /\ ~(Len(f[n]) <= n + g[n])  BY <1>6
  <2>3. n # 0
    <3>1. Len(f[0]) = 0  BY <1>4
    <3> QED BY <1>5, <2>2, <3>1
  <2>4. n - 1 \in 0 .. L /\ n - 1 \notin T /\ n \in 1 .. L /\ n \in Nat
    BY <1>1, <2>1, <2>2, <2>3
  <2>5. Len(f[n - 1]) <= (n - 1) + g[n - 1]  BY <1>7, <2>4
  <2>6. /\ Piece(n) \in Seq(Cell) /\ Len(Piece(n)) <= 1 + outbox[n].length
        /\ outbox[n].length \in Nat
        /\ g[n - 1] \in Nat /\ g[n] = g[n - 1] + outbox[n].length
    BY <1>2, <2>4, PieceFacts
  <2> DEFINE e == f[n - 1]
             p == Piece(n)
             k == outbox[n].length
  <2>7. e \in Seq(Cell) /\ p \in Seq(Cell)  BY <1>4, <2>4, <2>6
  <2>8. f[n] = e \o p  BY <1>4, <2>4
  <2>9. /\ Len(e) <= (n - 1) + g[n - 1] /\ Len(p) <= 1 + k /\ k \in Nat
        /\ g[n - 1] \in Nat /\ g[n] = g[n - 1] + k
    BY <2>5, <2>6
  <2> HIDE DEF e, p, k
  <2>10. Joins(Cell, e, p)  BY <2>7, Joined
  <2>11. Len(f[n]) = Len(e) + Len(p) /\ Len(e) \in Nat /\ Len(p) \in Nat
    BY <2>8, <2>10 DEF Joins
  <2> QED BY <2>2, <2>4, <2>9, <2>11
<1>10. L \in 0 .. L  BY <1>1
<1>11. Staging \in Seq(Cell)  BY <1>3, <1>4, <1>10
<1>12. Len(Staging) <= L + g[L]  BY <1>3, <1>7, <1>9, <1>10
<1>13. Needed = L + g[L]
  <2>1. CASE outbox = <<>>
    <3>1. Needed = 0 /\ L = 0  BY <2>1 DEF Needed
    <3> QED BY <1>5, <3>1
  <2>2. CASE outbox # <<>>
    <3>1. L \in 1 .. L  BY <1>1, <2>2, EmptySeq
    <3>2. Needed = L + Offset(L) + outbox[L].length  BY <2>2 DEF Needed
    <3>3. /\ Offset(L) = g[L - 1] /\ g[L - 1] \in Nat /\ outbox[L].length \in Nat
          /\ g[L] = g[L - 1] + outbox[L].length
      BY <1>2, <3>1, PieceFacts
    <3> QED BY <1>1, <3>2, <3>3
  <2> QED BY <2>1, <2>2
<1> QED BY <1>11, <1>12, <1>13

\* Arguments in their places are staged behind their frames.
LEMMA PieceIsCarload ==
    ASSUME StagingTypeOK, NEW g, Ends(outbox, g), InPlace(g), NEW n \in 1 .. Len(outbox)
    PROVE  Piece(n) = Carload(outbox[n])
<1> DEFINE r == outbox[n]
           a == Offset(n)
           k == r.length
           u == SubSeq(payloads, a + 1, a + k)
<1>1. /\ payloads \in Seq(Cell) /\ payload_length \in 0 .. Len(payloads)
      /\ Len(payloads) \in Nat /\ Len(outbox) \in Nat
  <2>1. /\ payloads \in Seq(Cell) /\ payload_length \in 0 .. Len(payloads)
        /\ outbox \in Seq(Record)
    BY DEF StagingTypeOK
  <2> QED BY <2>1, LenProperties
<1>2. /\ r \in Record /\ k \in Nat /\ a = g[n - 1] /\ a \in Nat /\ g[n] = a + k
  BY PieceFacts
<1>3. \A m \in 0 .. Len(outbox) : g[m] <= payload_length  BY DEF InPlace
<1>4. \A i \in 1 .. k : payloads[a + i] = CellAt(r, i)  BY <1>2 DEF InPlace
<1>5. \A m \in 1 .. Len(outbox) : Offset(m) + outbox[m].length <= payload_length
  <2>1. TAKE m \in 1 .. Len(outbox)
  <2>2. Offset(m) = g[m - 1] /\ g[m] = g[m - 1] + outbox[m].length  BY PieceFacts
  <2>3. m \in 0 .. Len(outbox)  OBVIOUS
  <2> QED BY <1>3, <2>2, <2>3
<1>6. n \in Carried
  <2>1. \A m \in 1 .. n : m \in 1 .. Len(outbox)  BY <1>1
  <2> QED BY <1>5, <2>1 DEF Carried
<1>7. g[n] <= payload_length
  <2>1. n \in 0 .. Len(outbox)  OBVIOUS
  <2> QED BY <1>3, <2>1
<1>8. a + k <= Len(payloads)  BY <1>1, <1>2, <1>7
<1>9. Piece(n) = <<CellAt(r, 0)>> \o u  BY <1>6 DEF Piece, CarriedCells
<1>10. Carload(r) = <<CellAt(r, 0)>> \o Arguments(r)  BY DEF Carload
<1>11. Arguments(r) \in Seq(Cell) /\ Len(Arguments(r)) = k
  BY <1>2, RecordFacts
<1>12. \A i \in 1 .. k : Arguments(r)[i] = CellAt(r, i)  BY <1>2, RecordFacts
<1> HIDE DEF a, k, r
<1>13. Cuts(Cell, payloads, a, k)  BY <1>1, <1>2, <1>8, Cut
<1>14. /\ u \in Seq(Cell) /\ Len(u) = k
       /\ \A i \in 1 .. k : u[i] = payloads[a + i]
  BY <1>13 DEF Cuts
<1> HIDE DEF u
<1>15. u = Arguments(r)
  <2> DEFINE b == Arguments(r)
  <2>1. b \in Seq(Cell) /\ Len(b) = k /\ \A i \in 1 .. k : b[i] = CellAt(r, i)
    BY <1>11, <1>12
  <2> HIDE DEF b
  <2>2. \A i \in 1 .. Len(u) : u[i] = b[i]  BY <1>4, <1>14, <2>1
  <2>3. u = b  BY <1>14, <2>1, <2>2, SeqEqual
  <2> QED BY <2>3 DEF b
<1> QED BY <1>9, <1>10, <1>15 DEF r

\* The port's cells and what a step stages behind them.
LEMMA StagedWhole ==
    ASSUME StagingTypeOK, Carriage \in Seq(Cell), Whole(Carriage), Shared,
           NEW g, Ends(outbox, g), InPlace(g)
    PROVE  /\ Whole(Carriage \o Staging)
           /\ Framed(Carriage \o Staging) = Framed(Carriage) \cup RequestsNamed(outbox)
<1> DEFINE L == Len(outbox)
           s == Carriage
           NamesTo(n) == {outbox[k].request : k \in 1 .. n}
<1>1. outbox \in Seq(Record) /\ L \in Nat  BY LenProperties DEF StagingTypeOK
<1>2. PICK f : Stages(f) /\ Staging = f[L]  BY StagedStepwise
<1>3. /\ f \in [0 .. L -> Seq(Cell)] /\ f[0] = <<>>
      /\ \A n \in 1 .. L : f[n] = f[n - 1] \o Piece(n)
  BY <1>2 DEF Stages
<1> DEFINE W(n) == /\ s \o f[n] \in Seq(Cell) /\ Whole(s \o f[n])
                   /\ Framed(s \o f[n]) = Framed(s) \cup NamesTo(n)
           T == {n \in 0 .. L : ~W(n)}
<1>4. \A n \in T : n \in 0 .. L /\ ~W(n)  OBVIOUS
<1>5. \A n \in 0 .. L : n \notin T => W(n)  OBVIOUS
<1>6. T \in SUBSET Nat  BY <1>1
<1> HIDE DEF T
<1>7. s \in Seq(Cell) /\ Whole(s)  OBVIOUS
<1>8. \A m, n \in 1 .. L : outbox[m].request = outbox[n].request => m = n  BY DEF Shared
<1>9. \A n \in 1 .. L : outbox[n].request \notin Framed(s)
  <2>1. RequestsNamed(outbox) \cap Framed(s) = {}  BY DEF Shared
  <2>2. \A n \in 1 .. L : outbox[n].request \in RequestsNamed(outbox)  BY DEF RequestsNamed
  <2> QED BY <2>1, <2>2
<1>10. \A n \in 1 .. L : Piece(n) = Carload(outbox[n]) /\ outbox[n] \in Record
  BY <1>1, PieceIsCarload, ElementOfSeq
<1> HIDE DEF s, L
<1>11. W(0)
  <2>1. s \o f[0] = s  BY <1>3, <1>7, ConcatEmptySeq
  <2>2. NamesTo(0) = {}  OBVIOUS
  <2> QED BY <1>7, <2>1, <2>2
<1>12. ASSUME NEW n \in 1 .. L, W(n - 1) PROVE W(n)
  <2> DEFINE e == s \o f[n - 1]
             r == outbox[n]
  <2>1. n - 1 \in 0 .. L /\ n \in Nat  BY <1>1
  <2>2. e \in Seq(Cell) /\ Whole(e) /\ Framed(e) = Framed(s) \cup NamesTo(n - 1)
    BY <1>12
  <2>3. r \in Record /\ Piece(n) = Carload(r)  BY <1>10
  <2>4. r.request \notin NamesTo(n - 1)
    <3>1. SUFFICES ASSUME NEW k \in 1 .. n - 1, outbox[k].request = r.request PROVE FALSE
      OBVIOUS
    <3>2. k \in 1 .. L /\ k # n  BY <1>1, <2>1
    <3> QED BY <1>8, <3>1, <3>2
  <2>5. r.request \notin Framed(e)  BY <1>9, <2>2, <2>4
  <2>6. s \o f[n] = e \o Carload(r)
    <3>1. f[n - 1] \in Seq(Cell)  BY <1>3, <2>1
    <3>2. Carload(r) \in Seq(Cell)  BY <2>3, CarloadFacts
    <3>3. f[n] = f[n - 1] \o Carload(r)  BY <1>3, <2>3
    <3> DEFINE x == f[n - 1]
               y == Carload(r)
    <3> HIDE DEF x, y
    <3>4. s \o (x \o y) = (s \o x) \o y
      <4>1. x \in Seq(Cell) /\ y \in Seq(Cell)  BY <3>1, <3>2 DEF x, y
      <4>2. Associates(s, x, y)  BY <1>7, <4>1, Associative
      <4> QED BY <4>2 DEF Associates
    <3> QED BY <3>3, <3>4 DEF x, y
  <2> HIDE DEF e
  <2>7. /\ e \o Carload(r) \in Seq(Cell) /\ Whole(e \o Carload(r))
        /\ Framed(e \o Carload(r)) = Framed(e) \cup {r.request}
    BY <2>2, <2>3, <2>5, Coupled
  <2>8. NamesTo(n) = NamesTo(n - 1) \cup {r.request}
    <3>1. \A k \in 1 .. n : k \in 1 .. n - 1 \/ k = n  BY <2>1
    <3>2. \A k \in 1 .. n - 1 : k \in 1 .. n  BY <2>1
    <3>3. n \in 1 .. n  BY <2>1
    <3>4. NamesTo(n) \subseteq NamesTo(n - 1) \cup {r.request}  BY <3>1
    <3>5. NamesTo(n - 1) \subseteq NamesTo(n)  BY <3>2
    <3>6. r.request \in NamesTo(n)  BY <3>3
    <3> QED BY <3>4, <3>5, <3>6
  <2> HIDE DEF NamesTo
  <2> QED BY <2>2, <2>6, <2>7, <2>8
<1> HIDE DEF W
<1>13. ASSUME T # {} PROVE FALSE
  <2>1. PICK n \in T : \A k \in T : n <= k  BY <1>6, <1>13, LeastOf
  <2>2. n \in 0 .. L /\ ~W(n)  BY <1>4
  <2>3. n # 0  BY <1>11, <2>2
  <2>4. n - 1 \in 0 .. L /\ n - 1 \notin T /\ n \in 1 .. L  BY <1>1, <2>1, <2>2, <2>3
  <2> QED BY <1>5, <1>12, <2>2, <2>4
<1>14. L \in 0 .. L  BY <1>1
<1>15. W(L)  BY <1>5, <1>13, <1>14
<1>16. NamesTo(L) = RequestsNamed(outbox)  BY DEF RequestsNamed, L
<1> QED BY <1>2, <1>15, <1>16 DEF W, s

-----------------------------------------------------------------------------
(* The buffer and the port.                                                *)

Overlays(b, k, a) ==
    /\ Overlay(b, k, a) \in Seq(Cell)
    /\ k + Len(a) <= Len(Overlay(b, k, a))
    /\ Len(Overlay(b, k, a)) = IF k + Len(a) > Len(b) THEN k + Len(a) ELSE Len(b)
    /\ \A n \in 1 .. k : Overlay(b, k, a)[n] = b[n]
    /\ \A n \in 1 .. Len(a) : Overlay(b, k, a)[k + n] = a[n]

\* Bytes written from a place within the buffer or right behind it.
LEMMA Overlaid ==
    ASSUME NEW b \in Seq(Cell), NEW a \in Seq(Cell), NEW k \in Nat, k <= Len(b)
    PROVE  Overlays(b, k, a)
<1> DEFINE N == IF k + Len(a) > Len(b) THEN k + Len(a) ELSE Len(b)
           e(n) == IF n > k /\ n <= k + Len(a) THEN a[n - k] ELSE b[n]
           s == [n \in 1 .. N |-> e(n)]
<1>1. Len(a) \in Nat /\ Len(b) \in Nat  BY LenProperties
<1>2. Overlay(b, k, a) = s  BY DEF Overlay
<1>3. N \in Nat /\ N >= k + Len(a) /\ N >= Len(b) /\ N = (IF k + Len(a) > Len(b) THEN k + Len(a) ELSE Len(b))
  BY <1>1
<1>4. \A n \in 1 .. N : n > k + Len(a) => n \in 1 .. Len(b)  BY <1>1
<1>5. \A n \in 1 .. N : n <= k => n \in 1 .. Len(b)  BY <1>1
<1> HIDE DEF N
<1>6. ASSUME NEW n \in 1 .. N PROVE e(n) \in Cell
  <2>1. CASE n > k /\ n <= k + Len(a)
    <3>1. n - k \in 1 .. Len(a)  BY <1>1, <2>1
    <3> QED BY <2>1, <3>1, ElementOfSeq
  <2>2. CASE ~(n > k /\ n <= k + Len(a))
    <3>1. n \in 1 .. Len(b)  BY <1>1, <1>3, <1>4, <1>5, <2>2
    <3> QED BY <2>2, <3>1, ElementOfSeq
  <2> QED BY <2>1, <2>2
<1>7. \A n \in 1 .. N : s[n] = e(n)  OBVIOUS
<1>8. DOMAIN s = 1 .. N /\ s \in [1 .. N -> Cell]  BY <1>6
<1>9. \A n \in 1 .. k : e(n) = b[n]  OBVIOUS
<1>10. \A n \in 1 .. Len(a) : e(k + n) = a[n]
  <2>1. TAKE n \in 1 .. Len(a)
  <2>2. k + n > k /\ k + n <= k + Len(a) /\ (k + n) - k = n  BY <1>1
  <2> QED BY <2>2
<1> HIDE DEF e, s
<1>11. s \in Seq(Cell) /\ Len(s) = N
  <2>1. s \in Seq(Cell)  BY <1>3, <1>8
  <2> QED BY <1>3, <1>8, <2>1, LenProperties
<1>12. \A n \in 1 .. k : s[n] = b[n]
  <2>1. TAKE n \in 1 .. k
  <2>2. n \in 1 .. N  BY <1>1, <1>3
  <2> QED BY <1>7, <1>9, <2>2
<1>13. \A n \in 1 .. Len(a) : s[k + n] = a[n]
  <2>1. TAKE n \in 1 .. Len(a)
  <2>2. k + n \in 1 .. N  BY <1>1, <1>3
  <2> QED BY <1>7, <1>10, <2>2
<1> QED BY <1>2, <1>3, <1>11, <1>12, <1>13 DEF Overlays

\* What a sequence holds past its first k is a part of it.
Past(s, k) == SubSeq(s, k + 1, Len(s))

LEMMA PastFacts ==
    ASSUME NEW C, NEW s \in Seq(C), NEW k \in 0 .. Len(s)
    PROVE  /\ Past(s, k) \in Seq(C) /\ Len(Past(s, k)) = Len(s) - k
           /\ \A i \in 1 .. Len(s) - k : Past(s, k)[i] = s[k + i]
<1> DEFINE n == Len(s) - k
<1>1. Len(s) \in Nat /\ k \in Nat /\ n \in Nat /\ k + n = Len(s)  BY LenProperties
<1> HIDE DEF n
<1>2. Cuts(C, s, k, n)  BY <1>1, Cut
<1> QED BY <1>1, <1>2 DEF Cuts, Past, n

PastJoins(s, b, k) == Past(s \o b, k) = Past(s, k) \o b

LEMMA PastJoined ==
    ASSUME NEW C, NEW s \in Seq(C), NEW b \in Seq(C), NEW k \in 0 .. Len(s)
    PROVE  PastJoins(s, b, k)
<1> DEFINE u == s \o b
           v == Past(s, k) \o b
           n == Len(s) - k
           p == Past(s, k)
           q == Past(u, k)
<1>1. /\ Len(s) \in Nat /\ Len(b) \in Nat /\ u \in Seq(C) /\ Len(u) = Len(s) + Len(b)
      /\ \A i \in 1 .. Len(s) : u[i] = s[i]
      /\ \A i \in 1 .. Len(b) : u[Len(s) + i] = b[i]
  <2>1. Joins(C, s, b)  BY Joined
  <2> QED BY <2>1 DEF Joins
<1>2. /\ p \in Seq(C) /\ Len(p) = n /\ \A i \in 1 .. n : p[i] = s[k + i]
  BY PastFacts
<1> HIDE DEF u, p
<1>3. k \in 0 .. Len(u)  BY <1>1
<1>4. /\ q \in Seq(C) /\ Len(q) = Len(u) - k /\ \A i \in 1 .. Len(u) - k : q[i] = u[k + i]
  BY <1>1, <1>3, PastFacts
<1> HIDE DEF q
<1>5. /\ v \in Seq(C) /\ Len(v) = n + Len(b)
      /\ \A i \in 1 .. n : v[i] = p[i]
      /\ \A i \in 1 .. Len(b) : v[n + i] = b[i]
  <2>1. Joins(C, p, b)  BY <1>2, Joined
  <2>2. v = p \o b  BY DEF p
  <2> HIDE DEF v
  <2> QED BY <1>2, <2>1, <2>2 DEF Joins
<1> HIDE DEF v
<1>6. Len(q) = Len(v)  BY <1>1, <1>4, <1>5
<1>7. ASSUME NEW i \in 1 .. Len(q) PROVE q[i] = v[i]
  <2>1. q[i] = u[k + i]  BY <1>4
  <2>2. CASE i <= n
    <3>1. i \in 1 .. n /\ k + i \in 1 .. Len(s)  BY <1>1, <2>2
    <3> QED BY <1>1, <1>2, <1>5, <2>1, <3>1
  <2>3. CASE i > n
    <3> DEFINE j == i - n
    <3>1. j \in 1 .. Len(b) /\ i = n + j /\ k + i = Len(s) + j  BY <1>1, <1>4, <2>3
    <3> HIDE DEF j
    <3> QED BY <1>1, <1>5, <2>1, <3>1
  <2> QED BY <1>1, <1>4, <2>2, <2>3
<1>8. q = v  BY <1>4, <1>5, <1>6, <1>7, SeqEqual
<1> QED BY <1>8 DEF PastJoins, q, u, v

LEMMA CarriageTyped == StagingTypeOK => Carriage \in Seq(Cell)
<1> SUFFICES ASSUME StagingTypeOK PROVE Carriage \in Seq(Cell)  OBVIOUS
<1>1. sent \in Seq(Cell) /\ staged \in Seq(Cell) /\ written \in 0 .. Len(staged)
  BY DEF StagingTypeOK
<1>2. Past(staged, written) \in Seq(Cell)  BY <1>1, PastFacts
<1>3. Carriage = sent \o Past(staged, written)  BY DEF Carriage, Past
<1> HIDE DEF Past
<1> QED BY <1>1, <1>2, <1>3, ConcatProperties

LEMMA CarriageGrows ==
    ASSUME StagingTypeOK, NEW b \in Seq(Cell),
           staged' = staged \o b, written' = written, sent' = sent
    PROVE  Carriage' = Carriage \o b
<1>1. sent \in Seq(Cell) /\ staged \in Seq(Cell) /\ written \in 0 .. Len(staged)
  BY DEF StagingTypeOK
<1> DEFINE p == Past(staged, written)
<1>2. p \in Seq(Cell)  BY <1>1, PastFacts
<1>3. Carriage = sent \o p  BY DEF Carriage, Past
<1>4. Carriage' = sent \o Past(staged \o b, written)  BY DEF Carriage, Past
<1>5. PastJoins(staged, b, written)  BY <1>1, PastJoined
<1>6. Past(staged \o b, written) = p \o b  BY <1>5 DEF PastJoins
<1> HIDE DEF p
<1>7. Associates(sent, p, b)  BY <1>1, <1>2, Associative
<1> QED BY <1>3, <1>4, <1>6, <1>7 DEF Associates

\* What the port takes is on it as before.
LEMMA CarriageMoves ==
    ASSUME StagingTypeOK, NEW n, PushCalls(n)
    PROVE  /\ Carriage' = Carriage
           /\ sent' \in Seq(Cell) /\ staged' \in Seq(Cell)
           /\ Len(staged') <= WireBuffer /\ written' \in 0 .. Len(staged')
<1> DEFINE L == Len(staged)
           a == SubSeq(staged, written + 1, written + n)
           b == Past(staged, written + n)
<1>1. /\ sent \in Seq(Cell) /\ staged \in Seq(Cell) /\ written \in 0 .. L
      /\ L \in Nat /\ L <= WireBuffer
  BY LenProperties DEF StagingTypeOK
<1>2. /\ n \in 1 .. L - written
      /\ sent' = sent \o a
      /\ staged' = IF written + n = L THEN <<>> ELSE staged
      /\ written' = IF written + n = L THEN 0 ELSE written + n
  BY DEF PushCalls
<1>3. n \in Nat /\ written \in Nat /\ written + n <= L /\ written + n \in 0 .. L  BY <1>1, <1>2
<1>4. a \in Seq(Cell)
  <2>1. Cuts(Cell, staged, written, n)  BY <1>1, <1>3, Cut
  <2> QED BY <2>1 DEF Cuts
<1>5. b \in Seq(Cell)  BY <1>1, <1>3, PastFacts
<1>6. a \o b = Past(staged, written)
  <2> DEFINE m == written + 1
             k == written + n
  <2>1. m \in 1 .. L + 1 /\ k \in m - 1 .. L /\ L \in k .. L  BY <1>1, <1>3
  <2> HIDE DEF m, k
  <2>2. SubSeq(staged, m, k) \o SubSeq(staged, k + 1, L) = SubSeq(staged, m, L)
    BY <1>1, <2>1, ConcatAdjacentSubSeq
  <2> QED BY <2>2 DEF m, k, Past
<1>7. Past(staged', written') = b
  <2>1. CASE written + n = L
    <3>1. staged' = <<>> /\ written' = 0  BY <1>2, <2>1
    <3>2. Past(<<>>, 0) = <<>>
      <4>1. SubSeq(<<>>, 1, 0) = <<>>  BY SubSeqEmpty
      <4>2. Past(<<>>, 0) = SubSeq(<<>>, 1, 0)  BY DEF Past
      <4> QED BY <4>1, <4>2
    <3>3. b = <<>>  BY <1>1, <2>1, SubSeqEmpty DEF Past
    <3> QED BY <3>1, <3>2, <3>3
  <2>2. CASE written + n # L  BY <1>2, <2>2
  <2> QED BY <2>1, <2>2
<1>8. Carriage = sent \o Past(staged, written)  BY DEF Carriage, Past
<1>9. Carriage' = sent' \o Past(staged', written')  BY DEF Carriage, Past
<1>10. staged' \in Seq(Cell) /\ Len(staged') <= WireBuffer /\ written' \in 0 .. Len(staged')
  <2>1. CASE written + n = L
    <3>1. staged' = <<>> /\ written' = 0 /\ Len(staged') = 0  BY <1>2, <2>1
    <3>2. WireBuffer \in Nat  BY CallStagingConstants DEF CallStagingAssumption
    <3> QED BY <3>1, <3>2
  <2>2. CASE written + n # L  BY <1>1, <1>2, <1>3, <2>2
  <2> QED BY <2>1, <2>2
<1> HIDE DEF a, b
<1>11. (sent \o a) \o b = sent \o (a \o b) /\ sent \o a \in Seq(Cell)
  BY <1>1, <1>4, <1>5, ConcatAssociative, ConcatProperties
<1> QED BY <1>2, <1>6, <1>7, <1>8, <1>9, <1>10, <1>11

-----------------------------------------------------------------------------
(* The steps.                                                              *)

LEMMA TypeFacts ==
    ASSUME StagingTypeOK
    PROVE  /\ payloads \in Seq(Cell) /\ Len(payloads) \in Nat /\ Len(payloads) <= PayloadBytes
           /\ payload_length \in Nat /\ payload_length <= Len(payloads)
           /\ outbox \in Seq(Record) /\ Len(outbox) \in Nat /\ Len(outbox) <= OutboxCount
           /\ outstanding \in SUBSET Requests /\ IsFiniteSet(outstanding)
           /\ Cardinality(outstanding) \in Nat /\ Cardinality(outstanding) <= OutboxCount
           /\ made \in Nat /\ made <= MaxCalls
           /\ OutboxCount \in Nat /\ PayloadBytes \in Nat /\ MaxCalls \in Nat /\ WireBuffer \in Nat
<1>1. OutboxCount \in Nat /\ PayloadBytes \in Nat /\ MaxCalls \in Nat /\ WireBuffer \in Nat
  BY CallStagingConstants DEF CallStagingAssumption
<1>2. payloads \in Seq(Cell) /\ Len(payloads) <= PayloadBytes /\ payload_length \in 0 .. Len(payloads)
  BY DEF StagingTypeOK
<1>3. outbox \in Seq(Record) /\ Len(outbox) <= OutboxCount  BY DEF StagingTypeOK
<1>4. /\ outstanding \in SUBSET Requests /\ Cardinality(outstanding) <= OutboxCount
      /\ made \in 0 .. MaxCalls
  BY DEF StagingTypeOK
<1>5. Len(payloads) \in Nat /\ Len(outbox) \in Nat  BY <1>2, <1>3, LenProperties
<1>6. IsFiniteSet(outstanding) /\ Cardinality(outstanding) \in Nat
  <2>1. IsFiniteSet(Requests)  BY <1>1, FS_Interval DEF Requests
  <2>2. IsFiniteSet(outstanding)  BY <1>4, <2>1, FS_Subset
  <2> QED BY <2>2, FS_CardinalityType
<1> QED BY <1>1, <1>2, <1>3, <1>4, <1>5, <1>6

LEMMA OneMore ==
    ASSUME NEW S, IsFiniteSet(S), NEW x
    PROVE  /\ IsFiniteSet(S \cup {x})
           /\ Cardinality(S) <= Cardinality(S \cup {x})
           /\ Cardinality(S \cup {x}) <= Cardinality(S) + 1
<1>1. Cardinality(S) \in Nat  BY FS_CardinalityType
<1>2. IsFiniteSet(S \cup {x})  BY FS_AddElement
<1>3. Cardinality(S \cup {x}) = IF x \in S THEN Cardinality(S) ELSE Cardinality(S) + 1
  BY FS_AddElement
<1> QED BY <1>1, <1>2, <1>3

\* A buffer of arguments with a call's behind what is staged.
LEMMA Written ==
    ASSUME StagingTypeOK, NEW r \in Record, payload_length + r.length <= PayloadBytes
    PROVE  LET b == Overlay(payloads, payload_length, Arguments(r))
           IN  /\ b \in Seq(Cell) /\ Len(b) <= PayloadBytes
               /\ payload_length + r.length \in 0 .. Len(b)
               /\ \A n \in 1 .. payload_length : b[n] = payloads[n]
               /\ \A n \in 1 .. r.length : b[payload_length + n] = CellAt(r, n)
<1> DEFINE b == Overlay(payloads, payload_length, Arguments(r))
           a == Arguments(r)
           k == r.length
<1>1. /\ payloads \in Seq(Cell) /\ Len(payloads) \in Nat /\ Len(payloads) <= PayloadBytes
      /\ payload_length \in Nat /\ payload_length <= Len(payloads) /\ PayloadBytes \in Nat
  BY TypeFacts
<1>2. /\ a \in Seq(Cell) /\ Len(a) = k /\ k \in Nat
      /\ \A n \in 1 .. k : a[n] = CellAt(r, n)
  BY RecordFacts
<1> HIDE DEF a
<1>3. Overlays(payloads, payload_length, a)  BY <1>1, <1>2, Overlaid
<1>4. b = Overlay(payloads, payload_length, a)  BY DEF a
<1> HIDE DEF b
<1>5. /\ b \in Seq(Cell)
      /\ Len(b) = IF payload_length + k > Len(payloads) THEN payload_length + k ELSE Len(payloads)
      /\ \A n \in 1 .. payload_length : b[n] = payloads[n]
      /\ \A n \in 1 .. k : b[payload_length + n] = a[n]
  BY <1>2, <1>3, <1>4 DEF Overlays
<1> HIDE DEF k
<1>6. Len(b) <= PayloadBytes /\ payload_length + k \in 0 .. Len(b)
  <2>1. payload_length + k <= PayloadBytes  BY DEF k
  <2> QED BY <1>1, <1>2, <1>5, <2>1
<1>7. \A n \in 1 .. k : b[payload_length + n] = CellAt(r, n)  BY <1>2, <1>5
<1> QED BY <1>5, <1>6, <1>7 DEF b, k

LEMMA CarriageSame == UNCHANGED <<sent, staged, written>> => Carriage' = Carriage
BY DEF Carriage

\* Nothing but the outbox's own records is named by it.
LEMMA NamesAppended ==
    ASSUME NEW s \in Seq(Record), NEW r \in Record
    PROVE  RequestsNamed(Append(s, r)) = RequestsNamed(s) \cup {r.request}
<1> DEFINE t == Append(s, r)
<1>1. /\ Len(s) \in Nat /\ Len(t) = Len(s) + 1 /\ t[Len(s) + 1] = r
      /\ \A n \in 1 .. Len(s) : t[n] = s[n]
  BY AppendProperties, LenProperties
<1> HIDE DEF t
<1>2. \A n \in 1 .. Len(t) : n \in 1 .. Len(s) \/ n = Len(s) + 1  BY <1>1
<1>3. \A n \in 1 .. Len(s) : n \in 1 .. Len(t)  BY <1>1
<1>4. Len(s) + 1 \in 1 .. Len(t)  BY <1>1
<1>5. RequestsNamed(t) \subseteq RequestsNamed(s) \cup {r.request}  BY <1>1, <1>2 DEF RequestsNamed
<1>6. RequestsNamed(s) \subseteq RequestsNamed(t)
  <2>1. ASSUME NEW n \in 1 .. Len(s) PROVE s[n].request \in RequestsNamed(t)
    <3>1. n \in 1 .. Len(t) /\ t[n] = s[n]  BY <1>1, <1>3
    <3> QED BY <3>1 DEF RequestsNamed
  <2> QED BY <2>1 DEF RequestsNamed
<1>7. r.request \in RequestsNamed(t)
  <2>1. t[Len(s) + 1].request \in RequestsNamed(t)  BY <1>4 DEF RequestsNamed
  <2> QED BY <1>1, <2>1
<1> QED BY <1>5, <1>6, <1>7 DEF t

\* A record that joins the outbox, its arguments behind the others'.
LEMMA CallBegun ==
    ASSUME IInv, stepping, ~ended, strained = {}, Cardinality(outstanding) # OutboxCount,
           NEW r \in Record, r.request = made + 1,
           outbox' = Append(outbox, r), made' = made + 1,
           payload_length' = payload_length + r.length,
           Carriage' = Carriage,
           \A n \in 1 .. payload_length : payloads'[n] = payloads[n],
           \A n \in 1 .. r.length : payloads'[payload_length + n] = CellAt(r, n)
    PROVE  Shared' /\ Placed'
<1> DEFINE L == Len(outbox)
<1>1. /\ StagingTypeOK /\ Shared
      /\ outbox \in Seq(Record) /\ L \in Nat /\ made \in Nat /\ payload_length \in Nat
  BY TypeFacts DEF IInv
<1>2. PICK g : Ends(outbox, g) /\ InPlace(g)  BY DEF IInv, Placed
<1>3. PICK h : h = Longer(outbox, g, r)  OBVIOUS
<1>4. Ends(outbox', h)  BY <1>1, <1>2, <1>3, EndsAppend
<1>5. /\ Len(outbox') = L + 1 /\ outbox'[L + 1] = r
      /\ \A n \in 1 .. L : outbox'[n] = outbox[n]
  BY <1>1, AppendProperties
<1>6. /\ h[L + 1] = g[L] + r.length
      /\ \A n \in 0 .. L : h[n] = g[n]
  BY <1>1, <1>3 DEF Longer
<1>7. g \in [0 .. L -> Nat] /\ \A n \in 1 .. L : g[n] = g[n - 1] + outbox[n].length
  BY <1>2 DEF Ends
<1>8. /\ \A n \in 0 .. L : g[n] <= payload_length
      /\ payload_length = g[L]
      /\ \A n \in 1 .. L : \A i \in 1 .. outbox[n].length :
            payloads[g[n - 1] + i] = CellAt(outbox[n], i)
  BY <1>2 DEF InPlace
<1>9. r.length \in Nat  BY RecordFacts
<1>10. h[L + 1] = payload_length'  BY <1>6, <1>8
<1>11. ASSUME NEW n \in 0 .. Len(outbox') PROVE h[n] <= payload_length'
  <2>1. CASE n = L + 1
    <3>1. payload_length' \in Nat  BY <1>1, <1>9
    <3> QED BY <1>10, <2>1, <3>1
  <2>2. CASE n # L + 1
    <3>1. n \in 0 .. L  BY <1>1, <1>5, <2>2
    <3>2. h[n] = g[n] /\ g[n] <= payload_length /\ g[n] \in Nat  BY <1>6, <1>7, <1>8, <3>1
    <3> QED BY <1>1, <1>9, <3>2
  <2> QED BY <2>1, <2>2
<1>12. ASSUME NEW n \in 1 .. Len(outbox'), NEW i \in 1 .. outbox'[n].length
       PROVE  payloads'[h[n - 1] + i] = CellAt(outbox'[n], i)
  <2>1. CASE n = L + 1
    <3>1. outbox'[n] = r /\ n - 1 = L /\ L \in 0 .. L  BY <1>1, <1>5, <2>1
    <3>2. h[n - 1] = payload_length  BY <1>6, <1>8, <3>1
    <3> QED BY <1>12, <3>1, <3>2
  <2>2. CASE n # L + 1
    <3>1. n \in 1 .. L /\ n - 1 \in 0 .. L /\ n \in 0 .. L  BY <1>1, <1>5, <2>2
    <3>2. outbox'[n] = outbox[n] /\ h[n - 1] = g[n - 1]  BY <1>5, <1>6, <3>1
    <3>3. /\ g[n - 1] \in Nat /\ g[n] = g[n - 1] + outbox[n].length /\ g[n] <= payload_length
      BY <1>7, <1>8, <3>1
    <3>4. outbox[n].length \in Nat
      <4>1. outbox[n] \in Record  BY <1>1, <3>1, ElementOfSeq
      <4> QED BY <4>1, RecordFacts
    <3>5. i \in 1 .. outbox[n].length  BY <1>12, <3>2
    <3>6. g[n - 1] + i \in 1 .. payload_length  BY <1>1, <3>3, <3>4, <3>5
    <3>7. payloads[g[n - 1] + i] = CellAt(outbox[n], i)  BY <1>8, <3>1, <3>5
    <3> QED BY <3>2, <3>6, <3>7
  <2> QED BY <2>1, <2>2
<1>13. Placed'
  <2>1. InPlace(h)'  BY <1>5, <1>10, <1>11, <1>12 DEF InPlace
  <2> QED BY <1>4, <2>1 DEF Placed
<1>14. Framed(Carriage)' = Framed(Carriage)  BY DEF Framed, Framing
<1>15. RequestsNamed(outbox)' = RequestsNamed(outbox) \cup {r.request}  BY <1>1, NamesAppended DEF RequestsNamed
<1>16. RequestsNamed(outbox) \cap Framed(Carriage) = {} /\ RequestsNamed(outbox) \cup Framed(Carriage) = 1 .. made
  BY <1>1 DEF Shared
<1>17. made + 1 \notin 1 .. made /\ 1 .. made + 1 = (1 .. made) \cup {made + 1}  BY <1>1
<1>18. ASSUME NEW m \in 1 .. Len(outbox'), NEW n \in 1 .. Len(outbox'),
              outbox'[m].request = outbox'[n].request
       PROVE  m = n
  <2>1. \A k \in 1 .. L : outbox[k].request # made + 1
    <3>1. \A k \in 1 .. L : outbox[k].request \in RequestsNamed(outbox)  BY DEF RequestsNamed
    <3> QED BY <1>16, <1>17, <3>1
  <2>2. (m \in 1 .. L \/ m = L + 1) /\ (n \in 1 .. L \/ n = L + 1)  BY <1>1, <1>5
  <2>3. CASE m \in 1 .. L /\ n \in 1 .. L
    <3>1. outbox[m].request = outbox[n].request  BY <1>5, <1>18, <2>3
    <3> QED BY <1>1, <2>3, <3>1 DEF Shared
  <2>4. CASE m = L + 1 \/ n = L + 1  BY <1>5, <1>18, <2>1, <2>2, <2>4
  <2> QED BY <2>2, <2>3, <2>4
<1>19. Shared'
  <2>1. RequestsNamed(outbox)' \cap Framed(Carriage)' = {}  BY <1>14, <1>15, <1>16, <1>17
  <2>2. RequestsNamed(outbox)' \cup Framed(Carriage)' = 1 .. made'  BY <1>14, <1>15, <1>16, <1>17
  <2> QED BY <1>18, <2>1, <2>2 DEF Shared
<1> QED BY <1>13, <1>19

LEMMA HostCallKeeps ==
    ASSUME IInv, NEW length \in PayloadLengths, HostCall(length)
    PROVE  IInv'
<1> DEFINE r == [request |-> made + 1, length |-> length]
<1>1. StagingTypeOK  BY DEF IInv
<1>2. /\ stepping /\ ~ended /\ made < MaxCalls
      /\ UNCHANGED <<stepping, staged, written, sent, strained>>
  BY DEF HostCall, port
<1>3. /\ payloads \in Seq(Cell) /\ Len(payloads) <= PayloadBytes
      /\ payload_length \in 0 .. Len(payloads)
      /\ outbox \in Seq(Record) /\ Len(outbox) \in Nat /\ Len(outbox) <= OutboxCount
      /\ outstanding \in SUBSET Requests /\ IsFiniteSet(outstanding)
      /\ Cardinality(outstanding) \in Nat /\ Cardinality(outstanding) <= OutboxCount
      /\ made \in Nat /\ MaxCalls \in Nat /\ OutboxCount \in Nat
  BY <1>1, TypeFacts DEF StagingTypeOK
<1>4. r \in Record /\ r.request = made + 1 /\ r.length = length /\ made + 1 \in Requests
  BY <1>2, <1>3 DEF Record, Requests
<1> DEFINE b == Overlay(payloads, payload_length, Arguments(r))
<1>5. \/ /\ ended' = TRUE
         /\ UNCHANGED <<payloads, payload_length, outbox, outstanding, made>>
      \/ /\ payload_length + length <= PayloadBytes
         /\ payloads' = b
         /\ payload_length' = payload_length + length
         /\ BeginCall(r)
  BY DEF HostCall
<1> HIDE DEF r
<1>6. Carriage' = Carriage  BY <1>2, CarriageSame
<1>7. Framed(Carriage)' = Framed(Carriage) /\ (Whole(Carriage) => Whole(Carriage)')
  BY <1>6 DEF Framed, Framing, Whole, Chained, Opened, Closed, Distinct
<1>8. CASE ended' = TRUE /\ UNCHANGED <<payloads, payload_length, outbox, outstanding, made>>
  <2>1. StagingTypeOK'  BY <1>1, <1>2, <1>8 DEF StagingTypeOK
  <2> QED BY <1>2, <1>7, <1>8, <2>1 DEF IInv
<1>9. CASE /\ payload_length + length <= PayloadBytes
           /\ payloads' = b
           /\ payload_length' = payload_length + length
           /\ BeginCall(r)
  <2>1. /\ b \in Seq(Cell) /\ Len(b) <= PayloadBytes
        /\ payload_length + r.length \in 0 .. Len(b)
        /\ \A n \in 1 .. payload_length : b[n] = payloads[n]
        /\ \A n \in 1 .. r.length : b[payload_length + n] = CellAt(r, n)
    BY <1>1, <1>4, <1>9, Written
  <2> HIDE DEF b
  <2>2. CASE /\ Cardinality(outstanding) = OutboxCount
             /\ UNCHANGED <<outbox, outstanding, made, ended>>
    <3>1. StagingTypeOK'  BY <1>1, <1>2, <1>4, <1>9, <2>1, <2>2 DEF StagingTypeOK
    <3>2. Shared => Shared'  BY <1>7, <2>2 DEF Shared, RequestsNamed
    <3>3. ASSUME strained = {} PROVE Placed'
      <4>1. PICK g : Ends(outbox, g) /\ InPlace(g)  BY <1>2, <3>3 DEF IInv, Placed
      <4>2. /\ g \in [0 .. Len(outbox) -> Nat]
            /\ \A n \in 1 .. Len(outbox) : g[n] = g[n - 1] + outbox[n].length
        BY <4>1 DEF Ends
      <4>3. /\ \A n \in 0 .. Len(outbox) : g[n] <= payload_length
            /\ \A n \in 1 .. Len(outbox) : \A i \in 1 .. outbox[n].length :
                  payloads[g[n - 1] + i] = CellAt(outbox[n], i)
        BY <4>1 DEF InPlace
      <4>4. r.length \in Nat  BY <1>4, RecordFacts
      <4>5. \A n \in 0 .. Len(outbox) : g[n] <= payload_length'
        <5>1. TAKE n \in 0 .. Len(outbox)
        <5>2. g[n] \in Nat /\ g[n] <= payload_length  BY <4>2, <4>3
        <5> QED BY <1>3, <1>4, <1>9, <4>4, <5>2
      <4>6. ASSUME NEW n \in 1 .. Len(outbox), NEW i \in 1 .. outbox[n].length
            PROVE  payloads'[g[n - 1] + i] = CellAt(outbox[n], i)
        <5>1. outbox[n].length \in Nat
          <6>1. outbox[n] \in Record  BY <1>3, ElementOfSeq
          <6> QED BY <6>1, RecordFacts
        <5>2. /\ g[n - 1] \in Nat /\ g[n] = g[n - 1] + outbox[n].length /\ g[n] <= payload_length
          <6>1. n - 1 \in 0 .. Len(outbox) /\ n \in 0 .. Len(outbox)  BY <1>3
          <6> QED BY <4>2, <4>3, <6>1
        <5>3. g[n - 1] + i \in 1 .. payload_length  BY <1>3, <5>1, <5>2
        <5> QED BY <1>9, <2>1, <4>3, <5>3
      <4>7. InPlace(g)'  BY <2>2, <4>5, <4>6 DEF InPlace
      <4>8. Ends(outbox', g)  BY <2>2, <4>1
      <4> QED BY <4>7, <4>8 DEF Placed
    <3> QED BY <1>2, <1>7, <2>2, <3>1, <3>2, <3>3 DEF IInv
  <2>3. CASE /\ Cardinality(outstanding) < OutboxCount
             /\ made' = made + 1
             /\ outstanding' = outstanding \cup {r.request}
             /\ outbox' = IF Len(outbox) < OutboxCount THEN Append(outbox, r) ELSE outbox
             /\ ended' = (Len(outbox) = OutboxCount)
    <3>1. outbox' \in Seq(Record) /\ Len(outbox') <= OutboxCount
      <4>1. CASE Len(outbox) < OutboxCount
        <5>1. outbox' = Append(outbox, r)  BY <2>3, <4>1
        <5>2. Append(outbox, r) \in Seq(Record) /\ Len(Append(outbox, r)) = Len(outbox) + 1
          BY <1>3, <1>4, AppendProperties
        <5> QED BY <1>3, <4>1, <5>1, <5>2
      <4>2. CASE ~(Len(outbox) < OutboxCount)  BY <1>3, <2>3, <4>2
      <4> QED BY <4>1, <4>2
    <3>2. outstanding' \subseteq Requests /\ Cardinality(outstanding') <= OutboxCount
      <4>1. Cardinality(outstanding \cup {r.request}) <= Cardinality(outstanding) + 1
        BY <1>3, OneMore
      <4>2. IsFiniteSet(outstanding \cup {r.request})  BY <1>3, OneMore
      <4>3. Cardinality(outstanding \cup {r.request}) \in Nat  BY <4>2, FS_CardinalityType
      <4> QED BY <1>3, <1>4, <2>3, <4>1, <4>3
    <3>3. made' \in 0 .. MaxCalls /\ ended' \in BOOLEAN  BY <1>2, <1>3, <2>3
    <3>4. StagingTypeOK'
      <4>1. payloads' \in Seq(Cell) /\ Len(payloads') <= PayloadBytes
            /\ payload_length' \in 0 .. Len(payloads')
        BY <1>4, <1>9, <2>1
      <4> QED BY <1>1, <1>2, <3>1, <3>2, <3>3, <4>1 DEF StagingTypeOK
    <3>5. ASSUME strained = {}, ~ended' PROVE Shared' /\ Placed'
      <4>1. Len(outbox) # OutboxCount  BY <2>3, <3>5
      <4>2. outbox' = Append(outbox, r)  BY <1>3, <2>3, <4>1
      <4>3. Cardinality(outstanding) # OutboxCount  BY <1>3, <2>3
      <4>4. payload_length' = payload_length + r.length  BY <1>4, <1>9
      <4>5. /\ \A n \in 1 .. payload_length : payloads'[n] = payloads[n]
            /\ \A n \in 1 .. r.length : payloads'[payload_length + n] = CellAt(r, n)
        BY <1>9, <2>1
      <4> QED BY <1>2, <1>4, <1>6, <2>3, <3>5, <4>2, <4>3, <4>4, <4>5, CallBegun
    <3> QED BY <1>2, <1>7, <3>4, <3>5 DEF IInv
  <2> QED BY <1>9, <2>2, <2>3 DEF BeginCall
<1> QED BY <1>5, <1>8, <1>9

LEMMA ReentrantKeeps ==
    ASSUME IInv, NEW length \in PayloadLengths, NEW inner \in PayloadLengths,
           HostCallReentrant(length, inner)
    PROVE  IInv'
<1> DEFINE i == [request |-> made + 1, length |-> inner]
           o == [request |-> made + 2, length |-> length]
           head == SubSeq(Arguments(o), 1, 1)
           rest == SubSeq(Arguments(o), 2, length)
           first == Overlay(payloads, payload_length, head)
           second == Overlay(first, payload_length, Arguments(i))
           third == Overlay(second, payload_length + 1, rest)
<1>1. StagingTypeOK  BY DEF IInv
<1>2. /\ stepping /\ ~ended /\ made + 1 < MaxCalls /\ length > 0 /\ inner > 0
      /\ payload_length + length <= PayloadBytes
      /\ payload_length + inner <= PayloadBytes
      /\ Cardinality(outstanding) + 1 < OutboxCount /\ Len(outbox) + 1 < OutboxCount
      /\ payloads' = third
      /\ payload_length' = payload_length + length
      /\ outbox' = outbox \o <<i, o>>
      /\ outstanding' = outstanding \cup {i.request, o.request}
      /\ made' = made + 2
      /\ strained' = strained \cup {"nested"}
      /\ UNCHANGED <<ended, stepping, staged, written, sent>>
  BY DEF HostCallReentrant, port
<1>3. /\ payloads \in Seq(Cell) /\ Len(payloads) \in Nat /\ Len(payloads) <= PayloadBytes
      /\ payload_length \in Nat /\ payload_length <= Len(payloads)
      /\ outbox \in Seq(Record) /\ Len(outbox) \in Nat
      /\ outstanding \in SUBSET Requests /\ IsFiniteSet(outstanding)
      /\ Cardinality(outstanding) \in Nat
      /\ made \in Nat /\ MaxCalls \in Nat /\ OutboxCount \in Nat /\ PayloadBytes \in Nat
  BY <1>1, TypeFacts
<1>4. /\ i \in Record /\ i.request = made + 1 /\ i.length = inner
      /\ o \in Record /\ o.request = made + 2 /\ o.length = length
      /\ made + 1 \in Requests /\ made + 2 \in Requests
      /\ length \in Nat /\ inner \in Nat
  <2>1. length \in Nat /\ inner \in Nat
    BY CallStagingConstants DEF CallStagingAssumption
  <2>2. made + 1 \in Requests /\ made + 2 \in Requests  BY <1>2, <1>3 DEF Requests
  <2> QED BY <2>1, <2>2 DEF Record
<1> HIDE DEF i, o
<1>5. /\ Arguments(o) \in Seq(Cell) /\ Len(Arguments(o)) = length
      /\ Arguments(i) \in Seq(Cell) /\ Len(Arguments(i)) = inner
  BY <1>4, RecordFacts
<1>6. head \in Seq(Cell) /\ Len(head) = 1
  <2> DEFINE a == Arguments(o)
  <2>1. a \in Seq(Cell) /\ Len(a) = length  BY <1>5
  <2> HIDE DEF a
  <2>2. 0 + 1 <= Len(a)  BY <1>2, <1>4, <2>1
  <2>3. Cuts(Cell, a, 0, 1)  BY <2>1, <2>2, Cut
  <2>4. SubSeq(a, 0 + 1, 0 + 1) = SubSeq(a, 1, 1)  OBVIOUS
  <2>5. SubSeq(a, 1, 1) \in Seq(Cell) /\ Len(SubSeq(a, 1, 1)) = 1  BY <2>3, <2>4 DEF Cuts
  <2> QED BY <2>5 DEF a
<1>7. rest \in Seq(Cell) /\ Len(rest) = length - 1
  <2> DEFINE a == Arguments(o)
  <2>1. a \in Seq(Cell) /\ Len(a) = length  BY <1>5
  <2> HIDE DEF a
  <2>2. 1 \in 0 .. Len(a)  BY <1>2, <1>4, <2>1
  <2>3. Past(a, 1) \in Seq(Cell) /\ Len(Past(a, 1)) = Len(a) - 1  BY <2>1, <2>2, PastFacts
  <2>4. Past(a, 1) = SubSeq(a, 2, length)
    <3>1. 1 + 1 = 2  OBVIOUS
    <3> QED BY <2>1, <3>1 DEF Past
  <2> QED BY <2>1, <2>3, <2>4 DEF a
<1> HIDE DEF head, rest
<1>8. /\ first \in Seq(Cell) /\ payload_length + 1 <= Len(first) /\ Len(first) \in Nat
      /\ Len(first) <= PayloadBytes
  <2>1. Overlays(payloads, payload_length, head)  BY <1>3, <1>6, Overlaid
  <2> HIDE DEF first
  <2>2. first = Overlay(payloads, payload_length, head)  BY DEF first
  <2>3. /\ first \in Seq(Cell) /\ payload_length + 1 <= Len(first)
        /\ Len(first) = IF payload_length + 1 > Len(payloads) THEN payload_length + 1 ELSE Len(payloads)
    BY <1>6, <2>1, <2>2 DEF Overlays
  <2>4. payload_length + 1 <= PayloadBytes  BY <1>2, <1>3, <1>4
  <2> QED BY <1>3, <2>3, <2>4
<1> HIDE DEF first
<1>9. /\ second \in Seq(Cell) /\ payload_length + 1 <= Len(second) /\ Len(second) \in Nat
      /\ Len(second) <= PayloadBytes
  <2>1. payload_length <= Len(first)  BY <1>3, <1>8
  <2>2. Overlays(first, payload_length, Arguments(i))  BY <1>3, <1>5, <1>8, <2>1, Overlaid
  <2>3. second = Overlay(first, payload_length, Arguments(i))  OBVIOUS
  <2> HIDE DEF second
  <2>4. /\ second \in Seq(Cell) /\ payload_length + inner <= Len(second)
        /\ Len(second) = IF payload_length + inner > Len(first) THEN payload_length + inner ELSE Len(first)
    BY <1>5, <2>2, <2>3 DEF Overlays
  <2> QED BY <1>2, <1>3, <1>4, <1>8, <2>4
<1> HIDE DEF second
<1>10. /\ third \in Seq(Cell) /\ Len(third) <= PayloadBytes
       /\ payload_length + length \in 0 .. Len(third)
  <2>1. payload_length + 1 \in Nat  BY <1>3
  <2>2. Overlays(second, payload_length + 1, rest)  BY <1>7, <1>9, <2>1, Overlaid
  <2>3. third = Overlay(second, payload_length + 1, rest)  OBVIOUS
  <2> HIDE DEF third
  <2>4. /\ third \in Seq(Cell) /\ (payload_length + 1) + Len(rest) <= Len(third)
        /\ Len(third) = IF (payload_length + 1) + Len(rest) > Len(second)
                        THEN (payload_length + 1) + Len(rest) ELSE Len(second)
    BY <2>2, <2>3 DEF Overlays
  <2>5. (payload_length + 1) + Len(rest) = payload_length + length  BY <1>3, <1>4, <1>7
  <2> QED BY <1>2, <1>3, <1>4, <1>9, <2>4, <2>5
<1> HIDE DEF third
<1>11. outbox' \in Seq(Record) /\ Len(outbox') <= OutboxCount
  <2> DEFINE t == <<i, o>>
  <2>1. t \in Seq(Record) /\ Len(t) = 2  BY <1>4
  <2>2. outbox' = outbox \o t  BY <1>2
  <2> HIDE DEF t
  <2>3. outbox' \in Seq(Record) /\ Len(outbox') = Len(outbox) + Len(t)
    BY <1>3, <2>1, <2>2, ConcatProperties
  <2> QED BY <1>2, <1>3, <2>1, <2>3
<1>12. outstanding' \subseteq Requests /\ Cardinality(outstanding') <= OutboxCount
  <2> DEFINE S == outstanding \cup {i.request}
  <2>1. IsFiniteSet(S) /\ Cardinality(S) <= Cardinality(outstanding) + 1  BY <1>3, OneMore
  <2>2. outstanding' = S \cup {o.request}  BY <1>2
  <2>3. outstanding' \subseteq Requests  BY <1>2, <1>3, <1>4
  <2> HIDE DEF S
  <2>4. IsFiniteSet(S \cup {o.request}) /\ Cardinality(S \cup {o.request}) <= Cardinality(S) + 1
    BY <2>1, OneMore
  <2>5. Cardinality(S) \in Nat /\ Cardinality(S \cup {o.request}) \in Nat
    BY <2>1, <2>4, FS_CardinalityType
  <2>6. Cardinality(S \cup {o.request}) <= OutboxCount
    <3>1. /\ Cardinality(outstanding) + 1 < OutboxCount
          /\ Cardinality(outstanding) \in Nat /\ OutboxCount \in Nat
      BY <1>2, <1>3
    <3>2. /\ Cardinality(S) <= Cardinality(outstanding) + 1
          /\ Cardinality(S \cup {o.request}) <= Cardinality(S) + 1
      BY <2>1, <2>4
    <3> QED BY ONLY <2>5, <3>1, <3>2
  <2> QED BY <2>2, <2>3, <2>6
<1>13. made' \in 0 .. MaxCalls  BY <1>2, <1>3
<1>14. strained' \subseteq {"nested", "waited"} /\ strained' # {}
  BY <1>1, <1>2 DEF StagingTypeOK
<1>15. StagingTypeOK'
  BY <1>1, <1>2, <1>10, <1>11, <1>12, <1>13, <1>14 DEF StagingTypeOK
<1> QED BY <1>14, <1>15 DEF IInv

LEMMA BeginStepKeeps ==
    ASSUME IInv, BeginStep
    PROVE  IInv'
<1>1. StagingTypeOK  BY DEF IInv
<1>2. /\ ~stepping /\ ~ended /\ stepping' = TRUE /\ payload_length' = 0
      /\ UNCHANGED <<payloads, outbox, outstanding, made, ended, staged, written, sent, strained>>
  BY DEF BeginStep, port
<1>3. outbox \in Seq(Record) /\ Len(outbox) \in Nat /\ Len(payloads) \in Nat  BY <1>1, TypeFacts
<1>4. StagingTypeOK'  BY <1>1, <1>2, <1>3 DEF StagingTypeOK
<1>5. Carriage' = Carriage  BY <1>2, CarriageSame
<1>6. /\ Framed(Carriage)' = Framed(Carriage)
      /\ (Whole(Carriage) => Whole(Carriage)') /\ (Shared => Shared')
  <2>1. Framed(Carriage)' = Framed(Carriage)  BY <1>5 DEF Framed, Framing
  <2>2. Whole(Carriage) => Whole(Carriage)'
    BY <1>5 DEF Whole, Chained, Opened, Closed, Distinct, Framing, Follows
  <2>3. Shared => Shared'  BY <1>2, <2>1 DEF Shared, RequestsNamed
  <2> QED BY <2>1, <2>2, <2>3
<1>7. ASSUME strained = {} PROVE Placed'
  <2>1. \A n \in 1 .. Len(outbox) : outbox[n].length = 0  BY <1>2, <1>7 DEF IInv
  <2>2. PICK g : g \in [0 .. Len(outbox) -> Nat] /\ \A n \in 0 .. Len(outbox) : g[n] = 0
    <3> DEFINE e == [n \in 0 .. Len(outbox) |-> 0]
    <3>1. e \in [0 .. Len(outbox) -> Nat]  OBVIOUS
    <3>2. \A n \in 0 .. Len(outbox) : e[n] = 0  OBVIOUS
    <3> HIDE DEF e
    <3> QED BY <3>1, <3>2
  <2>3. g \in [0 .. Len(outbox) -> Nat] /\ g[0] = 0  BY <1>3, <2>2
  <2>4. \A n \in 0 .. Len(outbox) : g[n] = 0  BY <2>2
  <2>5. ASSUME NEW n \in 1 .. Len(outbox) PROVE g[n] = g[n - 1] + outbox[n].length
    <3>1. n \in 0 .. Len(outbox) /\ n - 1 \in 0 .. Len(outbox)  BY <1>3
    <3> QED BY <2>1, <2>4, <3>1
  <2>6. Ends(outbox', g)  BY <1>2, <2>3, <2>5 DEF Ends
  <2>7. Len(outbox) \in 0 .. Len(outbox)  BY <1>3
  <2>8. InPlace(g)'  BY <1>2, <2>1, <2>4, <2>7 DEF InPlace
  <2> QED BY <2>6, <2>8 DEF Placed
<1> QED BY <1>2, <1>4, <1>6, <1>7 DEF IInv

LEMMA CompleteCallKeeps ==
    ASSUME IInv, NEW q, CompleteCall(q)
    PROVE  IInv'
<1>1. StagingTypeOK  BY DEF IInv
<1>2. /\ ~stepping /\ outstanding' = outstanding \ {q}
      /\ UNCHANGED <<payloads, payload_length, outbox, made, ended, stepping, staged, written,
                     sent, strained>>
  BY DEF CompleteCall, port
<1>3. /\ outstanding \in SUBSET Requests /\ IsFiniteSet(outstanding) /\ OutboxCount \in Nat
      /\ Cardinality(outstanding) \in Nat /\ Cardinality(outstanding) <= OutboxCount
  BY <1>1, TypeFacts
<1>4. outstanding' \subseteq Requests /\ Cardinality(outstanding') <= OutboxCount
  <2>1. outstanding' \subseteq outstanding  BY <1>2
  <2>2. IsFiniteSet(outstanding') /\ Cardinality(outstanding') <= Cardinality(outstanding)
    BY <1>3, <2>1, FS_Subset
  <2>3. Cardinality(outstanding') \in Nat  BY <2>2, FS_CardinalityType
  <2> QED BY <1>3, <2>1, <2>2, <2>3
<1>5. StagingTypeOK'  BY <1>1, <1>2, <1>4 DEF StagingTypeOK
<1>6. Carriage' = Carriage  BY <1>2, CarriageSame
<1>7. (Whole(Carriage) => Whole(Carriage)') /\ (Shared => Shared')
  <2>1. /\ Framed(Carriage)' = Framed(Carriage)
        /\ (Whole(Carriage) => Whole(Carriage)')
    BY <1>2, <1>6 DEF Framed, Framing, Whole, Chained, Opened, Closed, Distinct
  <2>2. Shared => Shared'  BY <1>2, <2>1 DEF Shared, RequestsNamed
  <2> QED BY <2>1, <2>2
<1> QED BY <1>2, <1>5, <1>7 DEF IInv

LEMMA PushCallsKeeps ==
    ASSUME IInv, NEW n, PushCalls(n)
    PROVE  IInv'
<1>1. StagingTypeOK  BY DEF IInv
<1>2. /\ ~stepping
      /\ UNCHANGED <<payloads, payload_length, outbox, outstanding, made, ended, stepping, strained>>
  BY DEF PushCalls, machine
<1>3. /\ Carriage' = Carriage
      /\ sent' \in Seq(Cell) /\ staged' \in Seq(Cell)
      /\ Len(staged') <= WireBuffer /\ written' \in 0 .. Len(staged')
  BY <1>1, CarriageMoves
<1>4. StagingTypeOK'  BY <1>1, <1>2, <1>3 DEF StagingTypeOK
<1>5. (Whole(Carriage) => Whole(Carriage)') /\ (Shared => Shared')
  <2>1. /\ Framed(Carriage)' = Framed(Carriage)
        /\ (Whole(Carriage) => Whole(Carriage)')
    BY <1>2, <1>3 DEF Framed, Framing, Whole, Chained, Opened, Closed, Distinct
  <2>2. Shared => Shared'  BY <1>2, <2>1 DEF Shared, RequestsNamed
  <2> QED BY <2>1, <2>2
<1> QED BY <1>2, <1>4, <1>5 DEF IInv

LEMMA EndStepKeeps ==
    ASSUME IInv, EndStep
    PROVE  IInv'
<1> DEFINE L == Len(outbox)
<1>1. StagingTypeOK  BY DEF IInv
<1>2. /\ stepping /\ ~ended /\ stepping' = FALSE
      /\ UNCHANGED <<payloads, outstanding, made, ended, written, sent>>
  BY DEF EndStep
<1>3. /\ staged \in Seq(Cell) /\ Len(staged) \in Nat /\ written \in 0 .. Len(staged)
      /\ outbox \in Seq(Record) /\ L \in Nat /\ Len(payloads) \in Nat
      /\ OutboxCount \in Nat /\ WireBuffer \in Nat
  <2>1. staged \in Seq(Cell) /\ written \in 0 .. Len(staged)  BY <1>1 DEF StagingTypeOK
  <2>2. Len(staged) \in Nat  BY <2>1, LenProperties
  <2> QED BY <1>1, <2>1, <2>2, TypeFacts
<1>4. CASE /\ outbox # <<>> /\ Fits
           /\ staged' = staged \o Staging
           /\ outbox' = <<>>
           /\ payload_length' = 0
           /\ UNCHANGED strained
  <2>1. Staging \in Seq(Cell) /\ Len(Staging) <= Needed  BY <1>1, StagingFits
  <2> DEFINE b == Staging
  <2>2. b \in Seq(Cell) /\ Len(b) <= Needed /\ Len(b) \in Nat /\ staged' = staged \o b
    BY <1>4, <2>1, LenProperties
  <2>3. Carriage' = Carriage \o b  BY <1>1, <1>2, <2>2, CarriageGrows
  <2> HIDE DEF b
  <2>4. staged' \in Seq(Cell) /\ Len(staged') = Len(staged) + Len(b)
    BY <1>3, <2>2, ConcatProperties
  <2>5. Len(staged) + Needed <= WireBuffer  BY <1>4 DEF Fits
  <2>6. Len(staged') <= WireBuffer /\ written' \in 0 .. Len(staged')
    <3>1. Needed \in Int
      <4>1. CASE outbox = <<>>  BY <4>1 DEF Needed
      <4>2. CASE outbox # <<>>
        <5>1. PICK g : Ends(outbox, g)  BY <1>3, EndsExist
        <5>2. L \in 1 .. L  BY <1>3, <4>2, EmptySeq
        <5>3. Offset(L) = g[L - 1] /\ g[L - 1] \in Nat /\ outbox[L].length \in Nat
          BY <1>1, <5>1, <5>2, PieceFacts
        <5>4. Needed = L + Offset(L) + outbox[L].length  BY <4>2 DEF Needed
        <5> QED BY <1>3, <5>3, <5>4
      <4> QED BY <4>1, <4>2
    <3>2. Len(staged) + Len(b) <= WireBuffer  BY <1>3, <2>2, <2>5, <3>1
    <3> QED BY <1>2, <1>3, <2>2, <2>4, <3>2
  <2>7. StagingTypeOK'
    <3>1. outbox' \in Seq(Record) /\ Len(outbox') <= OutboxCount
          /\ payload_length' \in 0 .. Len(payloads')
      BY <1>2, <1>3, <1>4
    <3> QED BY <1>1, <1>2, <1>4, <2>4, <2>6, <3>1 DEF StagingTypeOK
  <2>8. ASSUME strained = {} PROVE Whole(Carriage)' /\ Shared'
    <3>1. PICK g : Ends(outbox, g) /\ InPlace(g)  BY <1>2, <2>8 DEF IInv, Placed
    <3>2. Whole(Carriage) /\ Shared  BY <1>2, <2>8 DEF IInv
    <3>3. Carriage \in Seq(Cell)  BY <1>1, CarriageTyped
    <3>4. /\ Whole(Carriage \o b)
          /\ Framed(Carriage \o b) = Framed(Carriage) \cup RequestsNamed(outbox)
      BY <1>1, <3>1, <3>2, <3>3, StagedWhole DEF b
    <3>5. Whole(Carriage)'
      BY <2>3, <3>4 DEF Whole, Chained, Opened, Closed, Distinct, Framing
    <3>6. Framed(Carriage)' = Framed(Carriage) \cup RequestsNamed(outbox)
      BY <2>3, <3>4 DEF Framed, Framing
    <3>7. RequestsNamed(outbox)' = {} /\ Len(outbox') = 0
      <4>1. Len(outbox') = 0  BY <1>4
      <4> QED BY <4>1 DEF RequestsNamed
    <3>8. RequestsNamed(outbox) \cup Framed(Carriage) = 1 .. made'  BY <1>2, <3>2 DEF Shared
    <3>9. Shared'
      <4>1. RequestsNamed(outbox)' \cap Framed(Carriage)' = {}  BY <3>7
      <4>2. RequestsNamed(outbox)' \cup Framed(Carriage)' = 1 .. made'  BY <3>6, <3>7, <3>8
      <4>3. \A m, n \in 1 .. Len(outbox') : m = n  BY <3>7
      <4> QED BY <4>1, <4>2, <4>3 DEF Shared
    <3> QED BY <3>5, <3>9
  <2>9. \A n \in 1 .. Len(outbox') : outbox'[n].length = 0
    <3>1. Len(outbox') = 0  BY <1>4
    <3> QED BY <3>1
  <2> QED BY <1>2, <1>4, <2>7, <2>8, <2>9 DEF IInv
<1>5. CASE /\ outbox = <<>> \/ ~Fits
           /\ strained' = IF \E n \in 1 .. Len(outbox) : outbox[n].length > 0
                          THEN strained \cup {"waited"} ELSE strained
           /\ UNCHANGED <<staged, outbox, payload_length>>
  <2>1. strained' \subseteq {"nested", "waited"}
    <3>1. strained \subseteq {"nested", "waited"}  BY <1>1 DEF StagingTypeOK
    <3>2. strained' = strained \cup {"waited"} \/ strained' = strained  BY <1>5
    <3> QED BY <3>1, <3>2
  <2>2. StagingTypeOK'  BY <1>1, <1>2, <1>5, <2>1 DEF StagingTypeOK
  <2>3. Carriage' = Carriage  BY <1>2, <1>5, CarriageSame
  <2>4. (Whole(Carriage) => Whole(Carriage)') /\ (Shared => Shared')
    <3>1. /\ Framed(Carriage)' = Framed(Carriage)
          /\ (Whole(Carriage) => Whole(Carriage)')
      BY <2>3 DEF Framed, Framing, Whole, Chained, Opened, Closed, Distinct
    <3>2. Shared => Shared'  BY <1>2, <1>5, <3>1 DEF Shared, RequestsNamed
    <3> QED BY <3>1, <3>2
  <2>5. ASSUME strained' = {}
        PROVE  strained = {} /\ \A n \in 1 .. Len(outbox') : outbox'[n].length = 0
    <3>1. ~ \E n \in 1 .. L : outbox[n].length > 0  BY <1>5, <2>5
    <3>2. strained' = strained  BY <1>5, <3>1
    <3>3. \A n \in 1 .. L : outbox[n].length \in Nat
      <4>1. \A n \in 1 .. L : outbox[n] \in Record  BY <1>3, ElementOfSeq
      <4> QED BY <4>1, RecordFacts
    <3>4. \A n \in 1 .. L : outbox[n].length = 0  BY <3>1, <3>3
    <3> QED BY <1>5, <2>5, <3>2, <3>4
  <2> QED BY <1>2, <2>2, <2>4, <2>5 DEF IInv
<1> QED BY <1>4, <1>5 DEF EndStep

-----------------------------------------------------------------------------
(* What every state promises.                                              *)

LEMMA Initially == StagingInit => IInv
<1> SUFFICES ASSUME StagingInit PROVE IInv  OBVIOUS
<1>1. /\ payloads = <<>> /\ payload_length = 0 /\ outbox = <<>> /\ outstanding = {}
      /\ made = 0 /\ stepping = FALSE /\ ended = FALSE
      /\ staged = <<>> /\ written = 0 /\ sent = <<>> /\ strained = {}
  BY DEF StagingInit
<1>2. OutboxCount \in Nat /\ PayloadBytes \in Nat /\ MaxCalls \in Nat /\ WireBuffer \in Nat
  BY CallStagingConstants DEF CallStagingAssumption
<1>3. Len(payloads) = 0 /\ Len(outbox) = 0 /\ Len(staged) = 0  BY <1>1
<1>4. Cardinality(outstanding) = 0  BY <1>1, FS_EmptySet
<1>5. /\ payloads \in Seq(Cell) /\ outbox \in Seq(Record) /\ staged \in Seq(Cell)
      /\ sent \in Seq(Cell)
  BY <1>1
<1>6. StagingTypeOK
  <2>1. /\ payload_length \in 0 .. Len(payloads) /\ written \in 0 .. Len(staged)
        /\ made \in 0 .. MaxCalls
    BY <1>1, <1>2, <1>3
  <2>2. /\ Len(payloads) <= PayloadBytes /\ Len(outbox) <= OutboxCount
        /\ Len(staged) <= WireBuffer /\ Cardinality(outstanding) <= OutboxCount
    BY <1>2, <1>3, <1>4
  <2>3. /\ outstanding \subseteq Requests /\ strained \subseteq {"nested", "waited"}
        /\ stepping \in BOOLEAN /\ ended \in BOOLEAN
    BY <1>1
  <2> QED BY <1>5, <2>1, <2>2, <2>3 DEF StagingTypeOK
<1>7. Carriage = <<>>
  <2>1. SubSeq(staged, 1, 0) = <<>>  BY SubSeqEmpty
  <2>2. Carriage = sent \o SubSeq(staged, 1, 0)  BY <1>1, <1>3 DEF Carriage
  <2> QED BY <1>1, <2>1, <2>2
<1>8. Framing(<<>>) = {}  BY DEF Framing
<1>9. Framed(Carriage) = {} /\ Whole(Carriage)
  <2>1. Chained(<<>>) /\ Opened(<<>>) /\ Closed(<<>>)  BY DEF Chained, Opened, Closed
  <2>2. Distinct(<<>>)  BY <1>8 DEF Distinct
  <2>3. Framed(<<>>) = {}  BY <1>8 DEF Framed
  <2> QED BY <1>7, <2>1, <2>2, <2>3 DEF Whole
<1>10. RequestsNamed(outbox) = {}  BY <1>3 DEF RequestsNamed
<1>11. Shared
  <2>1. 1 .. made = {}  BY <1>1
  <2>2. \A m, n \in 1 .. Len(outbox) : m = n  BY <1>3
  <2> QED BY <1>9, <1>10, <2>1, <2>2 DEF Shared
<1>12. \A n \in 1 .. Len(outbox) : outbox[n].length = 0  BY <1>3
<1> QED BY <1>1, <1>6, <1>9, <1>11, <1>12 DEF IInv

LEMMA Stutters == IInv /\ UNCHANGED svars => IInv'
<1> SUFFICES ASSUME IInv, UNCHANGED svars PROVE IInv'  OBVIOUS
<1>1. UNCHANGED <<payloads, payload_length, outbox, outstanding, made, ended, stepping, staged,
                  written, sent, strained>>
  BY DEF svars, machine, port
<1>2. StagingTypeOK => StagingTypeOK'  BY <1>1 DEF StagingTypeOK
<1>3. Carriage' = Carriage  BY <1>1, CarriageSame
<1>4. /\ Framed(Carriage)' = Framed(Carriage)
      /\ (Whole(Carriage) => Whole(Carriage)')
  BY <1>3 DEF Framed, Framing, Whole, Chained, Opened, Closed, Distinct
<1>5. Shared => Shared'  BY <1>1, <1>4 DEF Shared, RequestsNamed
<1>6. Placed => Placed'
  <2>1. ASSUME NEW g, Ends(outbox, g), InPlace(g) PROVE Ends(outbox', g) /\ InPlace(g)'
    BY <1>1, <2>1 DEF InPlace
  <2> QED BY <2>1 DEF Placed
<1> QED BY <1>1, <1>2, <1>4, <1>5, <1>6 DEF IInv

LEMMA Keeps == IInv /\ [StagingNext]_svars => IInv'
<1> SUFFICES ASSUME IInv, [StagingNext]_svars PROVE IInv'  OBVIOUS
<1>1. ASSUME NEW n \in PayloadLengths, HostCall(n) PROVE IInv'  BY <1>1, HostCallKeeps
<1>2. ASSUME NEW n \in PayloadLengths, NEW k \in PayloadLengths, HostCallReentrant(n, k)
      PROVE  IInv'
  BY <1>2, ReentrantKeeps
<1>3. CASE BeginStep  BY <1>3, BeginStepKeeps
<1>4. ASSUME NEW q \in outstanding, CompleteCall(q) PROVE IInv'  BY <1>4, CompleteCallKeeps
<1>5. CASE EndStep  BY <1>5, EndStepKeeps
<1>6. ASSUME NEW n \in 1 .. WireBuffer, PushCalls(n) PROVE IInv'  BY <1>6, PushCallsKeeps
<1>7. CASE UNCHANGED svars  BY <1>7, Stutters
<1> QED BY <1>1, <1>2, <1>3, <1>4, <1>5, <1>6, <1>7, Zenon DEF StagingNext

LEMMA Followed == IInv => ArgumentsFollow
<1> SUFFICES ASSUME IInv, strained = {}, NEW n \in 1 .. Len(Carriage)
             PROVE  /\ n = 1 => Carriage[n].at = 0
                    /\ n < Len(Carriage) =>
                          IF Carriage[n].at < Carriage[n].length
                          THEN Carriage[n + 1] = [Carriage[n] EXCEPT !.at = @ + 1]
                          ELSE Carriage[n + 1].at = 0
  BY DEF ArgumentsFollow
<1>1. Chained(Carriage) /\ Opened(Carriage)  BY DEF IInv, Whole
<1>2. Carriage \in Seq(Cell)  BY CarriageTyped DEF IInv
<1>3. Carriage # <<>>
  <2>1. Len(<<>>) = 0  OBVIOUS
  <2> QED BY <1>2, <2>1
<1>4. n = 1 => Carriage[n].at = 0  BY <1>1, <1>3 DEF Opened
<1>5. n < Len(Carriage) => Follows(Carriage[n], Carriage[n + 1])  BY <1>1 DEF Chained
<1> QED BY <1>4, <1>5 DEF Follows

\* A call is framed once or waits once.
LEMMA CarriedAlone == IInv => CarriedOnce
<1> SUFFICES ASSUME IInv, ~ended, strained = {}, NEW q \in 1 .. made
             PROVE  Cardinality(Frames(q)) + Cardinality(Waiting(q)) = 1
  BY DEF CarriedOnce, Once
<1>1. Shared /\ Distinct(Carriage)  BY DEF IInv, Whole
<1>2. /\ \A m, n \in 1 .. Len(outbox) : outbox[m].request = outbox[n].request => m = n
      /\ RequestsNamed(outbox) \cap Framed(Carriage) = {}
      /\ q \in RequestsNamed(outbox) \cup Framed(Carriage)
  BY <1>1 DEF Shared
<1>3. \A n \in Frames(q) : n \in Framing(Carriage) /\ Carriage[n].request = q
  BY DEF Frames, Framing
<1>4. \A n \in Framing(Carriage) : Carriage[n].request = q => n \in Frames(q)
  BY DEF Frames, Framing
<1>5. \A n \in Waiting(q) : n \in 1 .. Len(outbox) /\ outbox[n].request = q  BY DEF Waiting
<1>6. \A n \in 1 .. Len(outbox) : outbox[n].request = q => n \in Waiting(q)  BY DEF Waiting
<1>7. Cardinality({}) = 0  BY FS_EmptySet
<1>8. \A x : Cardinality({x}) = 1  BY FS_Singleton
<1>9. CASE q \in RequestsNamed(outbox)
  <2>1. q \notin Framed(Carriage)  BY <1>2, <1>9
  <2>2. Frames(q) = {}
    <3>1. ASSUME NEW n \in Frames(q) PROVE FALSE  BY <1>3, <2>1, <3>1 DEF Framed
    <3> QED BY <3>1
  <2>3. PICK n \in 1 .. Len(outbox) : outbox[n].request = q  BY <1>9 DEF RequestsNamed
  <2>4. Waiting(q) = {n}
    <3>1. n \in Waiting(q)  BY <1>6, <2>3
    <3>2. \A m \in Waiting(q) : m = n  BY <1>2, <1>5, <2>3
    <3> QED BY <3>1, <3>2
  <2>5. Cardinality(Frames(q)) = 0 /\ Cardinality(Waiting(q)) = 1  BY <1>7, <1>8, <2>2, <2>4
  <2> QED BY <2>5
<1>10. CASE q \notin RequestsNamed(outbox)
  <2>1. Waiting(q) = {}
    <3>1. ASSUME NEW n \in Waiting(q) PROVE FALSE  BY <1>5, <1>10, <3>1 DEF RequestsNamed
    <3> QED BY <3>1
  <2>2. PICK n \in Framing(Carriage) : Carriage[n].request = q  BY <1>2, <1>10 DEF Framed
  <2>3. Frames(q) = {n}
    <3>1. n \in Frames(q)  BY <1>4, <2>2
    <3>2. \A m \in Frames(q) : m = n  BY <1>1, <1>3, <2>2 DEF Distinct
    <3> QED BY <3>1, <3>2
  <2>4. Cardinality(Waiting(q)) = 0 /\ Cardinality(Frames(q)) = 1  BY <1>7, <1>8, <2>1, <2>3
  <2> QED BY <2>4
<1> QED BY <1>9, <1>10

\* No buffer of host_call, stage_payload or the port side is overrun, a record
\* leaves once, and its own arguments leave behind it, while no call is made
\* within another's staging and none waits past its step with arguments.
THEOREM CallsCarried == StagingSpec => []CarriedWithArguments
<1>1. StagingInit => IInv  BY Initially
<1>2. IInv /\ [StagingNext]_svars => IInv'  BY Keeps
<1>3. IInv => CarriedWithArguments
  BY Followed, CarriedAlone DEF IInv, CarriedWithArguments
<1> QED BY <1>1, <1>2, <1>3, PTL DEF StagingSpec
=============================================================================
