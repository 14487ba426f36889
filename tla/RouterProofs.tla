----------------------------- MODULE RouterProofs -----------------------------
(***************************************************************************)
(* The host router, for every size of its table, its buffers and its       *)
(* channels, where no payload is over the profile's bound.                 *)
(*                                                                         *)
(* What is part way through the router is seen as lines of cells: what a   *)
(* reader has, what its stream holds and what is still to be written, one  *)
(* behind the other.  A reader moves cells along its line and changes      *)
(* nothing in it, and takes from its front one whole record (TakenRecord); *)
(* so a call is read once, and the slot that waits for it is the only one  *)
(* (Answered).  A step is a composition of six operators on a view, the    *)
(* router with its wires; each has a lemma that it keeps Good.             *)
(***************************************************************************)
EXTENDS HostRouter, FiniteSetTheorems, SequenceTheorems, WellFoundedInduction, TLAPS

-----------------------------------------------------------------------------
(* The invariant, as a predicate of a view and what surrounds it.          *)

\* The records of an isolate and those a leg carries.
IsolateCall == [request : Requests, trace : Traces, binding : Bindings, length : PayloadLengths]
Forwarded   == [request : Requests, trace : Traces, binding : Methods, length : PayloadLengths]

CellsOf(Records, F) ==
    {c \in [of : Records, frame : {F}, at : Nat] : 1 <= c.at /\ c.at <= F + c.of.length}
CallCells    == CellsOf(IsolateCall, CallFrame)
RequestCells == CellsOf(Forwarded, CallFrame)
ReplyCells   == CellsOf(Completion, CompletionFrame)

\* The last cell is the last of its record, and the first the first of one.
Ends(s)    == s # <<>> => s[Len(s)].at = s[Len(s)].frame + s[Len(s)].of.length
Tailing(s) == InOrder(s) /\ Ends(s)
Line(s)    == InOrder(s) /\ Ends(s) /\ (s # <<>> => s[1].at = 1)

\* What a reader holds is short of a whole record.
Short(b, F) == b # <<>> => Len(b) < F + b[1].of.length

\* A request's cells are before those of the requests made after it.
Ascending(s) ==
    \A i, j \in 1 .. Len(s) :
        i < j => /\ s[i].of.request <= s[j].of.request
                 /\ s[j].at = 1 => s[i].of.request < s[j].of.request

Slot   == {Free} \cup [live : {TRUE}, request : Requests, trace : Traces]
Leg    == [reply : Seq(ReplyCells), requests : Seq(RequestCells), written : Nat]
Router == [table : [Slots -> Slot], call : Seq(CallCells), legs : [Legs -> Leg],
           completions : Seq(ReplyCells), written : Nat, finished : BOOLEAN,
           taken : SUBSET Requests, told : [Requests -> Nat]]
Wires  == [call_in : Seq(CallCells), closed : BOOLEAN, completion_out : Seq(ReplyCells),
           request_out : [Legs -> Seq(RequestCells)], reply_in : [Legs -> Seq(ReplyCells)]]
View   == [r : Router, w : Wires]

Within(w) ==
    /\ Len(w.call_in) <= Capacity /\ Len(w.completion_out) <= Capacity
    /\ \A l \in Legs : Len(w.request_out[l]) <= Capacity /\ Len(w.reply_in[l]) <= Capacity

\* The isolate's calls: the router has read none of those that are coming.
Coming(v, ts) == v.r.call \o v.w.call_in \o ts
Fresh(s, taken, mk) ==
    \A n \in 1 .. Len(s) : s[n].of.request \notin taken /\ s[n].of.request <= mk
CallsOk(v, mk, ts) ==
    /\ Line(Coming(v, ts)) /\ Short(v.r.call, CallFrame)
    /\ Ascending(Coming(v, ts)) /\ Fresh(Coming(v, ts), v.r.taken, mk)
    /\ \A q \in v.r.taken : q <= mk

ReplyOk(v, l, an) ==
    /\ Line(v.r.legs[l].reply \o v.w.reply_in[l] \o an[l])
    /\ Short(v.r.legs[l].reply, CompletionFrame)

\* What is staged for a leg and for the isolate, behind what their streams hold.
LegOk(r, l, out) ==
    /\ Len(r.legs[l].requests) <= LegBuffer /\ r.legs[l].written <= Len(r.legs[l].requests)
    /\ Tailing(out \o Unwritten(r.legs[l].requests, r.legs[l].written))
StagedOk(r, out) ==
    /\ Len(r.completions) <= CompletionBuffer /\ r.written <= Len(r.completions)
    /\ Tailing(out \o Unwritten(r.completions, r.written))

Waits(r, s, q) == r.table[s].live /\ r.table[s].request = q
OnlyWaits(r, s, q) == Waits(r, s, q) /\ \A t \in Slots : Waits(r, t, q) => t = s
NoneWaits(r, q) == \A s \in Slots : ~Waits(r, s, q)
Once(r, q) ==
    \/ q \notin r.taken /\ r.told[q] = 0 /\ NoneWaits(r, q)
    \/ q \in r.taken /\ r.told[q] = 1 /\ NoneWaits(r, q)
    \/ q \in r.taken /\ r.told[q] = 0 /\ \E s \in Slots : OnlyWaits(r, s, q)
Answered(r) == \A q \in Requests : Once(r, q)

\* The same in the middle of a step, before q is told or waited on.
AnsweredBut(r, q) ==
    /\ q \in Requests /\ q \in r.taken /\ r.told[q] = 0 /\ NoneWaits(r, q)
    /\ \A p \in Requests : p # q => Once(r, p)

Good(v, mk, ts, an) ==
    /\ v \in View /\ Within(v.w)
    /\ CallsOk(v, mk, ts)
    /\ \A l \in Legs : ReplyOk(v, l, an) /\ LegOk(v.r, l, v.w.request_out[l])
    /\ StagedOk(v.r, v.w.completion_out)
    /\ Answered(v.r)

Around ==
    /\ made \in 0 .. MaxCalls /\ to_send \in Seq(CallCells)
    /\ answering \in [Legs -> Seq(ReplyCells)] /\ asked \in [Legs -> SUBSET Forwarded]
    /\ stray \in 0 .. MaxStray

Now  == [r |-> router, w |-> wires]
IInv == Good(Now, made, to_send, answering) /\ Around

-----------------------------------------------------------------------------
(* Sequences and lines.                                                    *)

LEMMA LeastOf ==
    ASSUME NEW T \in SUBSET Nat, T # {}
    PROVE  \E n \in T : \A k \in T : n <= k
<1> DEFINE R == OpToRel(<, Nat)
<1>1. IsWellFoundedOn(R, Nat)  BY NatLessThanWellFounded
<1>2. R = {s \in Nat \X Nat : s[1] < s[2]}  BY DEF OpToRel
<1> HIDE DEF R
<1>3. PICK n \in T : \A k \in T : ~(<<k, n>> \in R)  BY <1>1, WFMin
<1>4. \A k \in T : k \in Nat /\ (<<k, n>> \in R <=> k < n)  BY <1>2
<1>5. ASSUME NEW k \in T PROVE n <= k
  <2>1. k \in Nat /\ n \in Nat /\ ~(k < n)  BY <1>3, <1>4
  <2> QED BY <2>1
<1> QED BY <1>5

LEMMA Sizes ==
    ASSUME RouterAssumption
    PROVE  /\ TableSize \in Nat /\ PayloadBytes \in Nat /\ StageFrames \in Nat \ {0}
           /\ CallFrame \in Nat \ {0} /\ CompletionFrame \in Nat \ {0}
           /\ Capacity \in Nat /\ MaxCalls \in Nat /\ MaxStray \in Nat
           /\ PayloadLengths \subseteq Nat
           /\ LegBuffer \in Nat /\ CompletionBuffer \in Nat
           /\ Requests \subseteq Nat
BY DEF RouterAssumption, LegBuffer, CompletionBuffer, Requests

\* A set of records with a length in the profile's bound, and a frame.
Bounded(Records, F) ==
    /\ F \in Nat \ {0}
    /\ \A c \in Records : c.length \in Nat /\ c.length <= PayloadBytes

LEMMA RecordsBounded ==
    ASSUME RouterAssumption, PayloadsFit
    PROVE  /\ Bounded(IsolateCall, CallFrame) /\ Bounded(Forwarded, CallFrame)
           /\ Bounded(Completion, CompletionFrame)
<1>1. \A n \in PayloadLengths \cup {0} : n \in Nat /\ n <= PayloadBytes
  BY Sizes DEF PayloadsFit
<1>2. \A c \in IsolateCall \cup Forwarded : c.length \in PayloadLengths \cup {0}
  BY DEF IsolateCall, Forwarded
<1>3. \A c \in Completion : c.length \in PayloadLengths \cup {0}  BY DEF Completion
<1> QED BY <1>1, <1>2, <1>3, Sizes DEF Bounded

\* Up to the end of its record, a line that starts with it holds its cells.
LEMMA FrontOfLine ==
    ASSUME NEW Records, NEW F, Bounded(Records, F), NEW s \in Seq(CellsOf(Records, F)),
           InOrder(s), s # <<>>, s[1].at = 1
    PROVE  /\ s[1].of \in Records
           /\ \A n \in 1 .. Len(s) : n <= F + s[1].of.length =>
                 s[n] = [of |-> s[1].of, frame |-> F, at |-> n]
<1> DEFINE C == CellsOf(Records, F)
           Same(n) == s[n] = [of |-> s[1].of, frame |-> F, at |-> n]
           Bad == {n \in 1 .. Len(s) : n <= F + s[1].of.length /\ ~Same(n)}
<1>1. Len(s) \in Nat \ {0}  BY EmptySeq, LenProperties
<1>2. \A n \in 1 .. Len(s) : s[n] \in C  BY ElementOfSeq
<1>3. \A c \in C : /\ c.of \in Records /\ c.frame = F /\ c.at \in Nat
                   /\ c = [of |-> c.of, frame |-> c.frame, at |-> c.at]
  BY DEF CellsOf
<1>4. s[1].of \in Records  BY <1>1, <1>2, <1>3
<1>5. s[1].of.length \in Nat /\ F \in Nat  BY <1>4 DEF Bounded
<1>6. Same(1)  BY <1>1, <1>2, <1>3
<1>7. Bad = {}
  <2>1. SUFFICES ASSUME Bad # {} PROVE FALSE  OBVIOUS
  <2>2. Bad \in SUBSET Nat  BY <1>1
  <2>3. PICK k \in Bad : \A j \in Bad : k <= j  BY <2>1, <2>2, LeastOf
  <2>4. k # 1 /\ k \in 1 .. Len(s) /\ k <= F + s[1].of.length /\ ~Same(k)  BY <2>3, <1>6
  <2>5. k - 1 \in 1 .. Len(s) - 1 /\ k - 1 \in 1 .. Len(s) /\ k - 1 < F + s[1].of.length
    BY <2>4, <1>1, <1>5
  <2>6. Same(k - 1)
    <3>1. CASE k - 1 \in Bad  BY <3>1, <2>3, <2>2
    <3>2. CASE k - 1 \notin Bad  BY <3>2, <2>5, <1>5
    <3> QED BY <3>1, <3>2
  <2>7. s[k - 1].at < s[k - 1].frame + s[k - 1].of.length  BY <2>5, <2>6
  <2>8. s[(k - 1) + 1] = [s[k - 1] EXCEPT !.at = @ + 1]  BY <2>5, <2>7 DEF InOrder
  <2>9. (k - 1) + 1 = k  BY <2>4
  <2>10. s[k] = [s[k - 1] EXCEPT !.at = @ + 1]  BY <2>8, <2>9
  <2>11. [s[k - 1] EXCEPT !.at = @ + 1] = [of |-> s[1].of, frame |-> F, at |-> (k - 1) + 1]
    BY <2>6
  <2> QED BY <2>4, <2>9, <2>10, <2>11
<1> QED BY <1>4, <1>7

\* The first cells of a sequence in three parts, taken off the second.
Moves(C, b, s, z, k) ==
    /\ b \o SubSeq(s, 1, k) \in Seq(C) /\ SubSeq(s, k + 1, Len(s)) \in Seq(C)
    /\ Len(b \o SubSeq(s, 1, k)) = Len(b) + k
    /\ Len(SubSeq(s, k + 1, Len(s))) = Len(s) - k
    /\ (b \o SubSeq(s, 1, k)) \o SubSeq(s, k + 1, Len(s)) = b \o s
    /\ \A i \in 1 .. Len(b) + k : (b \o SubSeq(s, 1, k))[i] = (b \o s \o z)[i]

LEMMA Moved ==
    ASSUME NEW C, NEW b \in Seq(C), NEW s \in Seq(C), NEW z \in Seq(C), NEW k \in 0 .. Len(s)
    PROVE  Moves(C, b, s, z, k)
<1> DEFINE u == SubSeq(s, 1, k)
           w == SubSeq(s, k + 1, Len(s))
<1>1. Len(s) \in Nat /\ Len(b) \in Nat /\ k \in Nat  OBVIOUS
<1>2. \A i \in 1 .. Len(s) : s[i] \in C  BY ElementOfSeq
<1>3. u \in Seq(C) /\ Len(u) = k /\ \A i \in 1 .. k : u[i] = s[i]  BY <1>1, <1>2, SubSeqProperties
<1>4. w \in Seq(C) /\ Len(w) = Len(s) - k /\ \A i \in 1 .. Len(s) - k : w[i] = s[k + i]
  BY <1>1, <1>2, SubSeqProperties
<1> HIDE DEF u, w
<1>5. u \o w = s
  <2>1. /\ u \o w \in Seq(C) /\ Len(u \o w) = Len(u) + Len(w)
        /\ \A i \in 1 .. Len(u) + Len(w) :
              (u \o w)[i] = IF i <= Len(u) THEN u[i] ELSE w[i - Len(u)]
    BY <1>3, <1>4, ConcatProperties
  <2>2. Len(u \o w) = Len(s)  BY <1>1, <1>3, <1>4, <2>1
  <2>3. \A i \in 1 .. Len(s) : (u \o w)[i] = s[i]  BY <1>1, <1>3, <1>4, <2>1
  <2> QED BY <2>1, <2>2, <2>3, SeqEqual
<1>6. b \o u \in Seq(C) /\ Len(b \o u) = Len(b) + k  BY <1>3, ConcatProperties
<1>7. (b \o u) \o w = b \o s
  <2>1. u \in Seq(C) /\ w \in Seq(C)  BY <1>3, <1>4
  <2>2. (b \o u) \o w = b \o (u \o w)  BY ONLY <2>1, ConcatAssociative
  <2> QED BY <2>2, <1>5
<1>8. b \o s \in Seq(C) /\ Len(b \o s) = Len(b) + Len(s)  BY ConcatProperties
<1>9. \A i \in 1 .. Len(b) + k : (b \o s \o z)[i] = (b \o s)[i]
  BY <1>1, <1>8, ConcatProperties
<1>10. \A i \in 1 .. Len(b) + k : (b \o s)[i] = (b \o u)[i]
  BY <1>1, <1>3, ConcatProperties
<1> QED BY <1>3, <1>4, <1>6, <1>7, <1>9, <1>10 DEF u, w, Moves

LEMMA DecodeFrame ==
    ASSUME NEW s, NEW F \in Nat, NEW x, 1 \in 1 .. F,
           \A i \in 1 .. F : s[i] = [of |-> x, frame |-> F, at |-> i]
    PROVE  Decode(s, F) = x
<1>1. ASSUME NEW i \in 1 .. F PROVE s[i].of = x /\ s[i].frame = F /\ s[i].at = i
  <2>1. s[i] = [of |-> x, frame |-> F, at |-> i]  OBVIOUS
  <2> QED BY ONLY <2>1
<1>2. s[1].of = x  BY <1>1
<1> QED BY ONLY <1>1, <1>2 DEF Decode

\* What a reader of b cells takes of s for a payload of x behind its frame.
LEMMA Filling ==
    ASSUME NEW b \in Nat, NEW s \in Nat, NEW F \in Nat, F # 0, NEW x \in Nat,
           b > 0 => b < F + x, NEW n \in 0 .. s, b < F => n <= F - b, b >= F => n = 0,
           b + n >= F, NEW m, m = IF b + n < F + x THEN Least(F + x - (b + n), s - n) ELSE 0
    PROVE  n + m \in 0 .. s /\ b + (n + m) <= F + x
BY DEF Least

\* take_frame and take_payload move cells along the line, and have a whole
\* record exactly when its cells are there.
TakenRecord(t, F, Records) ==
    /\ t.buffer = Cells(t.buffer[1].of, F) /\ t.buffer[1].of \in Records
    /\ Decode(t.buffer, F) = t.buffer[1].of
    /\ Len(t.buffer) = F + t.buffer[1].of.length

TakenOk(t, b, s, F, Records) ==
    /\ t.buffer \in Seq(CellsOf(Records, F)) /\ t.stream \in Seq(CellsOf(Records, F))
    /\ Len(t.stream) <= Len(s) /\ t.buffer \o t.stream = b \o s
    /\ ~Whole(t.buffer, F) => Short(t.buffer, F)
    /\ Whole(t.buffer, F) => TakenRecord(t, F, Records)

LEMMA TakenMoves ==
    ASSUME NEW Records, NEW F, Bounded(Records, F), PayloadBytes \in Nat,
           NEW b \in Seq(CellsOf(Records, F)), NEW s \in Seq(CellsOf(Records, F)),
           NEW z \in Seq(CellsOf(Records, F)), Line(b \o s \o z), Short(b, F),
           NEW t, t = Taken(b, s, F)
    PROVE  TakenOk(t, b, s, F, Records)
<1> DEFINE C == CellsOf(Records, F)
           L == b \o s \o z
           x == L[1].of
           n == Readable(b, s, F)
           framed == b \o SubSeq(s, 1, n)
           rest == SubSeq(s, n + 1, Len(s))
           want == Wanted(framed, F)
           m == IF Len(framed) < F THEN 0 ELSE Readable(framed, rest, want)
           P(k) == b \o SubSeq(s, 1, k)
<1>1. Len(b) \in Nat /\ Len(s) \in Nat /\ Len(z) \in Nat /\ F \in Nat /\ F # 0  BY DEF Bounded
<1>2. t = [buffer |-> P(n + m), stream |-> SubSeq(s, n + m + 1, Len(s))]
  BY Zenon DEF Taken
<1>3. L \in Seq(C) /\ Len(L) = Len(b) + Len(s) + Len(z)
  <2>1. b \o s \in Seq(C) /\ Len(b \o s) = Len(b) + Len(s)  BY ConcatProperties
  <2> QED BY <2>1, ConcatProperties
<1>4. ASSUME NEW k \in 0 .. Len(s)
      PROVE  /\ P(k) \in Seq(C) /\ Len(P(k)) = Len(b) + k
             /\ P(k) \o SubSeq(s, k + 1, Len(s)) = b \o s
             /\ SubSeq(s, k + 1, Len(s)) \in Seq(C) /\ Len(SubSeq(s, k + 1, Len(s))) = Len(s) - k
             /\ \A i \in 1 .. Len(b) + k : P(k)[i] = L[i]
  <2>1. Moves(C, b, s, z, k)  BY <1>4, Moved
  <2> QED BY ONLY <2>1 DEF Moves
<1> HIDE DEF L, P, C
<1>5. ASSUME Len(L) > 0
      PROVE  /\ x \in Records /\ x.length \in Nat /\ x.length <= PayloadBytes
             /\ \A i \in 1 .. Len(L) : i <= F + x.length => L[i] = [of |-> x, frame |-> F, at |-> i]
  <2>1. L # <<>> /\ L[1].at = 1 /\ InOrder(L)  BY <1>3, <1>5, EmptySeq DEF Line, L
  <2>2. /\ x \in Records
        /\ \A i \in 1 .. Len(L) : i <= F + x.length => L[i] = [of |-> x, frame |-> F, at |-> i]
    BY <1>3, <2>1, FrontOfLine DEF C
  <2> QED BY <2>2 DEF Bounded
<1> HIDE DEF x
<1>6. ASSUME NEW k \in 0 .. Len(s), Len(b) + k >= F
      PROVE  /\ Len(L) > 0 /\ P(k)[1].of = x /\ P(k)[1] = L[1]
             /\ Decode(P(k), F) = x /\ Wanted(P(k), F) = F + x.length
  <2>1. Len(L) > 0 /\ Len(b) + k <= Len(L)  BY <1>1, <1>3, <1>6
  <2>2. \A i \in 1 .. F : P(k)[i] = [of |-> x, frame |-> F, at |-> i]
    <3>1. ASSUME NEW i \in 1 .. F PROVE P(k)[i] = [of |-> x, frame |-> F, at |-> i]
      <4>1. i \in 1 .. Len(b) + k /\ i \in 1 .. Len(L) /\ i <= F + x.length
        BY ONLY <1>1, <1>3, <1>5, <1>6, <2>1
      <4> QED BY <4>1, <1>4, <1>5, <2>1
    <3> QED BY <3>1
  <2>3. P(k)[1] = [of |-> x, frame |-> F, at |-> 1]  BY <2>2, <1>1
  <2>4. Decode(P(k), F) = x
    <3>1. F \in Nat /\ 1 \in 1 .. F  BY <1>1
    <3> QED BY ONLY <3>1, <2>2, DecodeFrame
  <2>5. Len(P(k)) = Len(b) + k  BY <1>4
  <2>6. Wanted(P(k), F) = F + x.length
    BY ONLY <2>1, <2>4, <2>5, <1>1, <1>5, <1>6, PayloadBytes \in Nat DEF Wanted, Least
  <2>7. P(k)[1] = L[1]
    <3>1. 1 \in 1 .. Len(b) + k  BY <1>1, <1>6
    <3> QED BY <3>1, <1>4
  <2> QED BY <2>1, <2>3, <2>4, <2>6, <2>7
<1>7. n \in 0 .. Len(s) /\ (Len(b) < F => n <= F - Len(b)) /\ (Len(b) >= F => n = 0)
  BY <1>1 DEF Readable, Least
<1>8. Len(framed) = Len(b) + n /\ framed = P(n)  BY <1>4, <1>7 DEF P
<1> HIDE DEF n, framed
<1>16. Len(rest) = Len(s) - n  BY <1>4, <1>7
<1> HIDE DEF rest, want
<1>9. Len(b) > 0 => Len(L) > 0 /\ Len(b) < F + x.length
  <2>1. SUFFICES ASSUME Len(b) > 0 PROVE Len(L) > 0 /\ Len(b) < F + x.length  OBVIOUS
  <2>2. b # <<>>  BY <2>1, EmptySeq
  <2>3. b[1] = P(0)[1]
    <3>1. SubSeq(s, 1, 0) = <<>>  BY SubSeqEmpty
    <3> QED BY <3>1, ConcatEmptySeq DEF P
  <2>4. P(0)[1] = L[1]  BY <1>1, <1>4, <2>1
  <2> QED BY <1>1, <1>3, <2>1, <2>2, <2>3, <2>4 DEF Short, x
<1>10. n + m \in 0 .. Len(s) /\ (Len(b) + (n + m) >= F => Len(b) + (n + m) <= F + x.length)
  <2>1. CASE Len(framed) < F  BY ONLY <2>1, <1>1, <1>7, <1>8
  <2>2. CASE Len(framed) >= F
    <3>1. Len(L) > 0 /\ want = F + x.length
      BY ONLY <1>6, <1>7, <1>8, <2>2 DEF want
    <3>2. x.length \in Nat  BY <1>5, <3>1
    <3>4. m = IF Len(b) + n < F + x.length
              THEN Least(F + x.length - (Len(b) + n), Len(s) - n) ELSE 0
      BY ONLY <2>2, <3>1, <3>2, <1>16, <1>8, <1>1, <1>7 DEF Readable, Least
    <3> HIDE DEF m
    <3>5. Len(b) > 0 => Len(b) < F + x.length  BY <1>9
    <3>6. Len(b) + n >= F  BY <1>8, <2>2
    <3> QED BY ONLY <3>2, <3>4, <3>5, <3>6, <1>1, <1>7, Filling
  <2> HIDE DEF m
  <2> QED BY ONLY <2>1, <2>2, <1>8, <1>1, <1>7
<1> DEFINE k == n + m
<1> HIDE DEF m, k
<1>11. k \in 0 .. Len(s) /\ (Len(b) + k >= F => Len(b) + k <= F + x.length)
  BY ONLY <1>1, <1>7, <1>10 DEF k
<1>12. t.buffer = P(k) /\ t.stream = SubSeq(s, k + 1, Len(s))  BY ONLY <1>2 DEF k
<1>13. ~Whole(t.buffer, F) => Short(t.buffer, F)
  <2>1. SUFFICES ASSUME ~Whole(P(k), F), P(k) # <<>> PROVE Len(P(k)) < F + P(k)[1].of.length
    BY <1>12 DEF Short
  <2>2. Len(P(k)) = Len(b) + k /\ P(k) \in Seq(C)  BY <1>4, <1>11
  <2>3. Len(b) + k > 0  BY <2>1, <2>2, EmptySeq
  <2>4. Len(L) > 0 /\ P(k)[1] = L[1]
    <3>1. 1 \in 1 .. Len(b) + k  BY <2>3, <1>1, <1>11
    <3> QED BY <3>1, <1>1, <1>3, <1>4, <1>11, <2>3
  <2>5. x.length \in Nat  BY <2>4, <1>5
  <2>6. CASE Len(b) + k < F
    <3>1. P(k)[1].of.length = x.length  BY ONLY <2>4 DEF x
    <3> QED BY ONLY <2>2, <2>5, <2>6, <3>1, <1>1, <1>11
  <2>7. CASE Len(b) + k >= F
    <3>1. Wanted(P(k), F) = F + x.length  BY <2>7, <1>6, <1>11
    <3>2. P(k)[1].of.length = x.length  BY ONLY <2>4 DEF x
    <3> QED BY ONLY <3>1, <3>2, <2>1, <2>2, <2>5, <2>7, <1>1, <1>11 DEF Whole
  <2> QED BY ONLY <2>6, <2>7, <1>1, <1>11
<1>14. Whole(t.buffer, F) => TakenRecord(t, F, Records)
  <2>1. SUFFICES ASSUME Whole(P(k), F) PROVE TakenRecord(t, F, Records)  BY <1>12
  <2>2. Len(P(k)) = Len(b) + k /\ P(k) \in Seq(C)  BY <1>4, <1>11
  <2>3. Len(b) + k >= F  BY <2>1, <2>2 DEF Whole
  <2>4. Len(L) > 0 /\ P(k)[1].of = x /\ Decode(P(k), F) = x /\ Wanted(P(k), F) = F + x.length
    BY <2>3, <1>6, <1>11
  <2>5. x \in Records /\ x.length \in Nat  BY <2>4, <1>5
  <2>6. Len(b) + k = F + x.length  BY ONLY <2>1, <2>2, <2>4, <2>5, <2>3, <1>1, <1>11 DEF Whole
  <2>7. \A i \in 1 .. F + x.length : P(k)[i] = [of |-> x, frame |-> F, at |-> i]
    <3>1. ASSUME NEW i \in 1 .. F + x.length PROVE P(k)[i] = [of |-> x, frame |-> F, at |-> i]
      <4>1. i \in 1 .. Len(b) + k /\ i \in 1 .. Len(L)  BY ONLY <2>6, <1>1, <1>3, <1>11, <2>5
      <4> QED BY <4>1, <1>4, <1>5, <1>11, <2>4, <2>6
    <3> QED BY <3>1
  <2>8. P(k) = Cells(x, F)
    <3>1. P(k) = [i \in 1 .. F + x.length |-> P(k)[i]]  BY <2>2, <2>6, LenProperties
    <3>2. \A i \in 1 .. F + x.length : P(k)[i] = [of |-> x, frame |-> F, at |-> i]  BY <2>7
    <3> HIDE DEF P, x
    <3> QED BY <3>1, <3>2 DEF Cells
  <2> QED BY <2>2, <2>4, <2>5, <2>6, <2>8, <1>12 DEF TakenRecord
<1>15. Len(s) - k <= Len(s)  BY ONLY <1>1, <1>11
<1> QED BY <1>4, <1>11, <1>12, <1>13, <1>14, <1>15 DEF C, TakenOk

\* What may stand behind a cell.
Behind(c, d) ==
    IF c.at < c.frame + c.of.length THEN d = [c EXCEPT !.at = @ + 1] ELSE d.at = 1

LEMMA InOrderBehind ==
    ASSUME NEW s
    PROVE  InOrder(s) <=> \A n \in 1 .. Len(s) - 1 : Behind(s[n], s[n + 1])
BY DEF InOrder, Behind

LEMMA Joined ==
    ASSUME NEW C, NEW a \in Seq(C), NEW b \in Seq(C)
    PROVE  /\ a \o b \in Seq(C) /\ Len(a \o b) = Len(a) + Len(b)
           /\ Len(a) \in Nat /\ Len(b) \in Nat
           /\ \A i \in 1 .. Len(a) : (a \o b)[i] = a[i]
           /\ \A i \in 1 .. Len(b) : (a \o b)[Len(a) + i] = b[i]
           /\ a = <<>> => a \o b = b
           /\ b = <<>> => a \o b = a
<1>1. Len(a) \in Nat /\ Len(b) \in Nat  OBVIOUS
<1>2. /\ a \o b \in Seq(C) /\ Len(a \o b) = Len(a) + Len(b)
      /\ \A i \in 1 .. Len(a) + Len(b) : (a \o b)[i] = IF i <= Len(a) THEN a[i] ELSE b[i - Len(a)]
  BY ConcatProperties
<1>3. (a = <<>> => a \o b = b) /\ (b = <<>> => a \o b = a)  BY ConcatEmptySeq
<1>4. \A i \in 1 .. Len(a) : (a \o b)[i] = a[i]  BY ONLY <1>1, <1>2
<1>5. ASSUME NEW i \in 1 .. Len(b) PROVE (a \o b)[Len(a) + i] = b[i]
  <2>1. Len(a) + i \in 1 .. Len(a) + Len(b) /\ ~(Len(a) + i <= Len(a)) /\ (Len(a) + i) - Len(a) = i
    BY ONLY <1>1, <1>5
  <2> QED BY ONLY <1>2, <2>1
<1> QED BY <1>1, <1>2, <1>3, <1>4, <1>5

LEMMA InOrderJoined ==
    ASSUME NEW C, NEW a \in Seq(C), NEW b \in Seq(C)
    PROVE  /\ InOrder(a) /\ InOrder(b) /\ (a # <<>> /\ b # <<>> => Behind(a[Len(a)], b[1]))
                 => InOrder(a \o b)
           /\ InOrder(a \o b) => InOrder(b)
           /\ InOrder(a \o b) /\ a # <<>> /\ b # <<>> => Behind(a[Len(a)], b[1])
<1> DEFINE s == a \o b
<1>1. /\ Len(s) = Len(a) + Len(b) /\ Len(a) \in Nat /\ Len(b) \in Nat
      /\ \A i \in 1 .. Len(a) : s[i] = a[i]
      /\ \A i \in 1 .. Len(b) : s[Len(a) + i] = b[i]
  BY Joined
<1>2. (a # <<>> => Len(a) > 0) /\ (b # <<>> => Len(b) > 0)  BY EmptySeq
<1>6. (Len(a) > 0 => a # <<>>) /\ (Len(b) > 0 => b # <<>>)  BY EmptySeq
<1> HIDE DEF s
<1>3. ASSUME InOrder(a), InOrder(b), a # <<>> /\ b # <<>> => Behind(a[Len(a)], b[1])
      PROVE  InOrder(s)
  <2>1. ASSUME NEW n \in 1 .. Len(s) - 1 PROVE Behind(s[n], s[n + 1])
    <3>1. CASE n < Len(a)
      <4>1. s[n] = a[n] /\ s[n + 1] = a[n + 1] /\ n \in 1 .. Len(a) - 1
        BY ONLY <1>1, <2>1, <3>1
      <4>2. Behind(a[n], a[n + 1])  BY ONLY <1>3, <4>1, InOrderBehind
      <4> QED BY ONLY <4>1, <4>2
    <3>2. CASE n = Len(a)
      <4>1. s[n] = a[Len(a)] /\ s[n + 1] = b[1] /\ Len(a) > 0 /\ Len(b) > 0
        BY ONLY <1>1, <2>1, <3>2
      <4> QED BY ONLY <4>1, <1>3, <1>6
    <3>3. CASE n > Len(a)
      <4> DEFINE j == n - Len(a)
      <4>1. j \in 1 .. Len(b) - 1 /\ n = Len(a) + j /\ n + 1 = Len(a) + (j + 1)
        BY ONLY <1>1, <2>1, <3>3
      <4> HIDE DEF j
      <4>2. s[n] = b[j] /\ s[n + 1] = b[j + 1]  BY ONLY <1>1, <4>1
      <4>3. Behind(b[j], b[j + 1])  BY ONLY <1>3, <4>1, InOrderBehind
      <4> QED BY ONLY <4>2, <4>3
    <3> QED BY ONLY <3>1, <3>2, <3>3, <1>1, <2>1
  <2> QED BY ONLY <2>1, InOrderBehind
<1>4. ASSUME InOrder(s) PROVE InOrder(b)
  <2>1. ASSUME NEW n \in 1 .. Len(b) - 1 PROVE Behind(b[n], b[n + 1])
    <3>1. /\ Len(a) + n \in 1 .. Len(s) - 1 /\ (Len(a) + n) + 1 = Len(a) + (n + 1)
          /\ s[Len(a) + n] = b[n] /\ s[Len(a) + (n + 1)] = b[n + 1]
      BY ONLY <1>1, <2>1
    <3>2. Behind(s[Len(a) + n], s[(Len(a) + n) + 1])  BY ONLY <1>4, <3>1, InOrderBehind
    <3> QED BY ONLY <3>1, <3>2
  <2> QED BY ONLY <2>1, InOrderBehind
<1>5. ASSUME InOrder(s), a # <<>>, b # <<>> PROVE Behind(a[Len(a)], b[1])
  <2>1. Len(a) \in 1 .. Len(s) - 1 /\ s[Len(a)] = a[Len(a)] /\ s[Len(a) + 1] = b[1]
    BY ONLY <1>1, <1>2, <1>5
  <2>2. Behind(s[Len(a)], s[Len(a) + 1])  BY ONLY <1>5, <2>1, InOrderBehind
  <2> QED BY ONLY <2>1, <2>2
<1> QED BY <1>3, <1>4, <1>5 DEF s

LEMMA EndsJoined ==
    ASSUME NEW C, NEW a \in Seq(C), NEW b \in Seq(C)
    PROVE  /\ Ends(a) /\ Ends(b) => Ends(a \o b)
           /\ Ends(a \o b) => Ends(b)
<1> DEFINE s == a \o b
<1>1. /\ Len(s) = Len(a) + Len(b) /\ Len(a) \in Nat /\ Len(b) \in Nat /\ s \in Seq(C)
      /\ \A i \in 1 .. Len(b) : s[Len(a) + i] = b[i]
      /\ b = <<>> => s = a
  BY Joined
<1>2. (b # <<>> => Len(b) > 0) /\ (Len(s) > 0 => s # <<>>)  BY <1>1, EmptySeq
<1> HIDE DEF s
<1>3. CASE b = <<>>  BY ONLY <1>1, <1>3 DEF Ends, s
<1>4. CASE b # <<>>
  <2>1. s[Len(s)] = b[Len(b)] /\ s # <<>>  BY ONLY <1>1, <1>2, <1>4
  <2> QED BY ONLY <2>1, <1>4 DEF Ends, s
<1> QED BY <1>3, <1>4

\* A line behind what ends with a record.
LEMMA LineAppended ==
    ASSUME NEW C, NEW a \in Seq(C), NEW b \in Seq(C), Line(b),
           \A c \in C : c.at \in Nat /\ c.frame \in Nat /\ c.of.length \in Nat
    PROVE  (Tailing(a) => Tailing(a \o b)) /\ (Line(a) => Line(a \o b))
<1>1. ASSUME Tailing(a) PROVE Tailing(a \o b)
  <2>1. ASSUME a # <<>>, b # <<>> PROVE Behind(a[Len(a)], b[1])
    <3>1. Len(a) \in 1 .. Len(a)  BY <2>1, EmptySeq
    <3>2. a[Len(a)] \in C  BY <3>1, ElementOfSeq
    <3>3. a[Len(a)].at = a[Len(a)].frame + a[Len(a)].of.length /\ b[1].at = 1
      BY <1>1, <2>1 DEF Tailing, Ends, Line
    <3> QED BY <3>2, <3>3 DEF Behind
  <2>2. InOrder(a \o b)  BY <1>1, <2>1, InOrderJoined DEF Tailing, Line
  <2>3. Ends(a \o b)  BY <1>1, EndsJoined DEF Tailing, Line
  <2> QED BY <2>2, <2>3 DEF Tailing
<1>2. ASSUME Line(a) PROVE Line(a \o b)
  <2>1. Tailing(a \o b)  BY <1>1, <1>2 DEF Tailing, Line
  <2>2. ASSUME a \o b # <<>> PROVE (a \o b)[1].at = 1
    <3>1. CASE a = <<>>
      <4>1. a \o b = b  BY <3>1, Joined
      <4> QED BY <4>1, <2>2 DEF Line
    <3>2. CASE a # <<>>
      <4>1. 1 \in 1 .. Len(a)  BY <3>2, EmptySeq
      <4>2. (a \o b)[1] = a[1]  BY <4>1, Joined
      <4> QED BY <4>2, <3>2, <1>2 DEF Line
    <3> QED BY <3>1, <3>2
  <2> QED BY <2>1, <2>2 DEF Tailing, Line
<1> QED BY <1>1, <1>2

LEMMA TailingDropped ==
    ASSUME NEW C, NEW a \in Seq(C), NEW b \in Seq(C), Tailing(a \o b)
    PROVE  Tailing(b)
BY InOrderJoined, EndsJoined DEF Tailing

\* The cells of a record are a line.
LEMMA CellsLine ==
    ASSUME NEW Records, NEW F, Bounded(Records, F), NEW x \in Records
    PROVE  /\ Cells(x, F) \in Seq(CellsOf(Records, F)) /\ Line(Cells(x, F))
           /\ Len(Cells(x, F)) = F + x.length /\ Cells(x, F) # <<>>
           /\ \A n \in 1 .. F + x.length : Cells(x, F)[n] = [of |-> x, frame |-> F, at |-> n]
<1> DEFINE s == Cells(x, F)
           N == F + x.length
<1>1. N \in Nat /\ N > 0 /\ F \in Nat /\ x.length \in Nat  BY DEF Bounded
<1>2. s = [n \in 1 .. N |-> [of |-> x, frame |-> F, at |-> n]]  BY DEF Cells
<1>3. \A n \in 1 .. N : s[n] = [of |-> x, frame |-> F, at |-> n]  BY <1>2
<1> HIDE DEF N
<1>4. \A n \in 1 .. N : [of |-> x, frame |-> F, at |-> n] \in CellsOf(Records, F)
  <2>1. ASSUME NEW n \in 1 .. N PROVE [of |-> x, frame |-> F, at |-> n] \in CellsOf(Records, F)
    <3>1. n \in Nat /\ 1 <= n /\ n <= F + x.length  BY ONLY <1>1, <2>1 DEF N
    <3> QED BY <3>1 DEF CellsOf
  <2> QED BY <2>1
<1>5. s \in [1 .. N -> CellsOf(Records, F)]  BY <1>2, <1>4
<1>6. s \in Seq(CellsOf(Records, F)) /\ Len(s) = N  BY ONLY <1>1, <1>5
<1> HIDE DEF s
<1>7. InOrder(s)
  <2>1. ASSUME NEW n \in 1 .. Len(s) - 1 PROVE Behind(s[n], s[n + 1])
    <3>1. n \in 1 .. N /\ n + 1 \in 1 .. N /\ n < N  BY ONLY <2>1, <1>1, <1>6
    <3>2. s[n] = [of |-> x, frame |-> F, at |-> n] /\ s[n + 1] = [of |-> x, frame |-> F, at |-> n + 1]
      BY ONLY <3>1, <1>3
    <3>3. s[n].at < s[n].frame + s[n].of.length  BY ONLY <3>1, <3>2 DEF N
    <3>4. s[n + 1] = [s[n] EXCEPT !.at = @ + 1]  BY ONLY <3>2
    <3> QED BY ONLY <3>3, <3>4 DEF Behind
  <2> QED BY ONLY <2>1, InOrderBehind
<1>8. s # <<>>  BY ONLY <1>1, <1>6, EmptySeq
<1>9. Ends(s)
  <2>1. s[Len(s)] = [of |-> x, frame |-> F, at |-> N]  BY ONLY <1>1, <1>3, <1>6
  <2> QED BY ONLY <2>1 DEF Ends, N
<1>10. s[1].at = 1
  <2>1. s[1] = [of |-> x, frame |-> F, at |-> 1]  BY ONLY <1>1, <1>3
  <2> QED BY ONLY <2>1
<1> QED BY <1>3, <1>6, <1>7, <1>8, <1>9, <1>10 DEF Line, s, N

\* What is behind a whole record at the front of a line is a line.
LEMMA LineBehind ==
    ASSUME NEW Records, NEW F, Bounded(Records, F), NEW x \in Records,
           NEW u \in Seq(CellsOf(Records, F)), Line(Cells(x, F) \o u),
           \A c \in Records : c.request \in Nat
    PROVE  /\ Line(u)
           /\ Ascending(Cells(x, F) \o u) =>
                 Ascending(u) /\ \A n \in 1 .. Len(u) : x.request < u[n].of.request
<1> DEFINE a == Cells(x, F)
           s == a \o u
           N == F + x.length
<1>1. /\ a \in Seq(CellsOf(Records, F)) /\ Line(a) /\ Len(a) = N /\ a # <<>>
      /\ a[N] = [of |-> x, frame |-> F, at |-> N] /\ N \in Nat /\ N > 0
  <2>1. N \in Nat /\ N > 0  BY DEF Bounded
  <2>2. N \in 1 .. N  BY ONLY <2>1
  <2> QED BY ONLY <2>1, <2>2, CellsLine, Bounded(Records, F), x \in Records
<1> HIDE DEF a
<1>2. InOrder(u) /\ Ends(u)
  BY ONLY <1>1, u \in Seq(CellsOf(Records, F)), Line(s), InOrderJoined, EndsJoined DEF Line, a
<1>3. /\ Len(s) = N + Len(u) /\ Len(u) \in Nat
      /\ \A i \in 1 .. N : s[i] = a[i]
      /\ \A i \in 1 .. Len(u) : s[N + i] = u[i]
  BY ONLY <1>1, u \in Seq(CellsOf(Records, F)), Joined
<1>4. ASSUME u # <<>> PROVE u[1].at = 1
  <2>1. Behind(a[Len(a)], u[1])
    BY ONLY <1>1, <1>4, u \in Seq(CellsOf(Records, F)), Line(s), InOrderJoined DEF Line, a
  <2>2. Behind([of |-> x, frame |-> F, at |-> N], u[1])  BY ONLY <1>1, <2>1
  <2>3. ~(N < F + x.length)  BY ONLY <1>1 DEF N
  <2> QED BY ONLY <2>2, <2>3 DEF Behind
<1> HIDE DEF N
<1>5. ASSUME Ascending(s) PROVE Ascending(u) /\ \A n \in 1 .. Len(u) : x.request < u[n].of.request
  <2>1. Ascending(u)
    <3>1. ASSUME NEW i \in 1 .. Len(u), NEW j \in 1 .. Len(u), i < j
          PROVE  /\ u[i].of.request <= u[j].of.request
                 /\ u[j].at = 1 => u[i].of.request < u[j].of.request
      <4>1. N + i \in 1 .. Len(s) /\ N + j \in 1 .. Len(s) /\ N + i < N + j
        BY ONLY <1>1, <1>3, <3>1
      <4>2. s[N + i] = u[i] /\ s[N + j] = u[j]  BY ONLY <1>3
      <4> QED BY ONLY <4>1, <4>2, <1>5 DEF Ascending
    <3> QED BY ONLY <3>1 DEF Ascending
  <2>2. ASSUME NEW n \in 1 .. Len(u) PROVE x.request < u[n].of.request
    <3>1. u # <<>> /\ 1 \in 1 .. Len(u)  BY ONLY <2>2, <1>3, EmptySeq, u \in Seq(CellsOf(Records, F))
    <3>2. N \in 1 .. Len(s) /\ N + 1 \in 1 .. Len(s) /\ N < N + 1  BY ONLY <1>1, <1>3, <3>1
    <3>3. s[N] = a[N] /\ s[N + 1] = u[1]  BY ONLY <1>1, <1>3, <3>1
    <3>4. s[N].of.request < s[N + 1].of.request  BY ONLY <3>1, <3>2, <3>3, <1>4, <1>5 DEF Ascending
    <3>5. CASE n = 1  BY ONLY <3>3, <3>4, <3>5, <1>1
    <3>6. CASE n # 1
      <4>1. N + n \in 1 .. Len(s) /\ N < N + n /\ N + 1 < N + n  BY ONLY <1>1, <1>3, <2>2, <3>6
      <4>2. s[N + n] = u[n]  BY ONLY <1>3, <2>2
      <4>3. s[N + 1].of.request <= s[N + n].of.request  BY ONLY <3>2, <4>1, <1>5 DEF Ascending
      <4>4. u[1] \in CellsOf(Records, F) /\ u[n] \in CellsOf(Records, F)
        BY ONLY <3>1, <2>2, u \in Seq(CellsOf(Records, F)), ElementOfSeq
      <4>5. u[1].of.request \in Nat /\ u[n].of.request \in Nat /\ x.request \in Nat
        BY <4>4 DEF CellsOf
      <4>6. x.request < u[1].of.request /\ u[1].of.request <= u[n].of.request
        BY ONLY <4>2, <4>3, <3>4, <3>3, <1>1
      <4> QED BY ONLY <4>5, <4>6
    <3> QED BY <3>5, <3>6
  <2> QED BY <2>1, <2>2
<1> QED BY <1>2, <1>4, <1>5 DEF Line, a

Stretches(C, s, m, k) ==
    /\ SubSeq(s, m + 1, k) \in Seq(C) /\ Len(SubSeq(s, m + 1, k)) = k - m
    /\ \A i \in 1 .. k - m : SubSeq(s, m + 1, k)[i] = s[m + i]

LEMMA Stretch ==
    ASSUME NEW C, NEW s \in Seq(C), NEW m \in Nat, NEW k \in Nat, m <= k, k <= Len(s)
    PROVE  Stretches(C, s, m, k)
<1> DEFINE u == SubSeq(s, m + 1, k)
<1>1. Len(s) \in Nat  OBVIOUS
<1>2. /\ u \in Seq(C) /\ Len(u) = IF m + 1 <= k THEN k - (m + 1) + 1 ELSE 0
      /\ \A i \in 1 .. k - (m + 1) + 1 : u[i] = s[(m + 1) + i - 1]
  <2>1. \A i \in (m + 1) .. k : s[i] \in C  BY <1>1, ElementOfSeq
  <2> QED BY <2>1, SubSeqProperties
<1> HIDE DEF u
<1>3. Len(u) = k - m  BY ONLY <1>2, m \in Nat, k \in Nat, m <= k
<1>4. ASSUME NEW i \in 1 .. k - m PROVE u[i] = s[m + i]
  <2>1. i \in 1 .. k - (m + 1) + 1 /\ (m + 1) + i - 1 = m + i
    BY ONLY <1>4, m \in Nat, k \in Nat, m <= k
  <2> QED BY ONLY <2>1, <1>2
<1> QED BY <1>2, <1>3, <1>4 DEF Stretches, u

\* push_staged: cells leave the staging buffer for the stream, and the two of
\* them hold what they held.
PushedOk(p, C, staged, written, stream) ==
    /\ p.staged \in Seq(C) /\ p.written \in Nat /\ p.stream \in Seq(C)
    /\ p.written <= Len(p.staged) /\ Len(p.staged) <= Len(staged)
    /\ Len(p.stream) <= Capacity
    /\ p.stream \o Unwritten(p.staged, p.written) = stream \o Unwritten(staged, written)

LEMMA PushedMoves ==
    ASSUME NEW C, NEW staged \in Seq(C), NEW written \in Nat, written <= Len(staged),
           NEW stream \in Seq(C), Capacity \in Nat, Len(stream) <= Capacity,
           NEW p, p = Pushed(staged, written, stream)
    PROVE  PushedOk(p, C, staged, written, stream)
<1> DEFINE L == Len(staged)
           n == Least(L - written, Capacity - Len(stream))
           u == SubSeq(staged, written + 1, written + n)
           v == SubSeq(staged, written + n + 1, L)
           w == SubSeq(staged, written + 1, L)
<1>1. L \in Nat /\ Len(stream) \in Nat  OBVIOUS
<1>2. p = [stream |-> stream \o u,
           staged |-> IF written + n = L THEN <<>> ELSE staged,
           written |-> IF written + n = L THEN 0 ELSE written + n]
  BY DEF Pushed
<1>3. n \in Nat /\ n <= L - written /\ n <= Capacity - Len(stream)  BY <1>1 DEF Least
<1>4. \A i \in 1 .. L : staged[i] \in C  BY ElementOfSeq
<1> HIDE DEF n
<1>5. u \in Seq(C) /\ Len(u) = n /\ \A i \in 1 .. n : u[i] = staged[written + i]
  <2>1. Stretches(C, staged, written, written + n)  BY <1>1, <1>3, Stretch
  <2>2. (written + n) - written = n  BY <1>3
  <2> QED BY <2>1, <2>2 DEF Stretches
<1>6. /\ v \in Seq(C) /\ Len(v) = L - (written + n)
      /\ \A i \in 1 .. L - (written + n) : v[i] = staged[written + n + i]
  <2>1. Stretches(C, staged, written + n, L)  BY <1>1, <1>3, Stretch
  <2> QED BY <2>1 DEF Stretches
<1>7. w \in Seq(C) /\ Len(w) = L - written /\ \A i \in 1 .. L - written : w[i] = staged[written + i]
  <2>1. Stretches(C, staged, written, L)  BY <1>1, Stretch
  <2> QED BY <2>1 DEF Stretches
<1> HIDE DEF u, v, w
<1>8. u \o v = w
  <2>1. /\ u \o v \in Seq(C) /\ Len(u \o v) = Len(u) + Len(v)
        /\ \A i \in 1 .. Len(u) : (u \o v)[i] = u[i]
        /\ \A i \in 1 .. Len(v) : (u \o v)[Len(u) + i] = v[i]
    <3>1. u \in Seq(C) /\ v \in Seq(C)  BY ONLY <1>5, <1>6
    <3> QED BY ONLY <3>1, Joined
  <2>2. Len(u \o v) = Len(w)  BY ONLY <2>1, <1>1, <1>3, <1>5, <1>6, <1>7, written \in Nat
  <2>3. ASSUME NEW i \in 1 .. Len(u \o v) PROVE (u \o v)[i] = w[i]
    <3>1. i \in 1 .. L - written /\ w[i] = staged[written + i]  BY ONLY <2>2, <2>3, <1>7
    <3>2. CASE i <= n  BY ONLY <3>1, <3>2, <2>1, <1>3, <1>5
    <3>3. CASE i > n
      <4> DEFINE j == i - n
      <4>1. j \in 1 .. L - (written + n) /\ i = n + j /\ written + n + j = written + i
        BY ONLY <3>1, <3>3, <1>1, <1>3, written \in Nat
      <4> HIDE DEF j
      <4> QED BY ONLY <4>1, <3>1, <2>1, <1>5, <1>6
    <3> QED BY ONLY <3>1, <3>2, <3>3, <1>1, <1>3, written \in Nat
  <2> QED BY ONLY <2>1, <2>2, <2>3, <1>7, SeqEqual
<1>9. stream \o u \in Seq(C) /\ Len(stream \o u) = Len(stream) + n  BY <1>5, Joined
<1>10. (stream \o u) \o v = stream \o w
  <2>0. u \in Seq(C) /\ v \in Seq(C)  BY ONLY <1>5, <1>6
  <2>1. (stream \o u) \o v = stream \o (u \o v)  BY ONLY <2>0, stream \in Seq(C), ConcatAssociative
  <2> QED BY <2>1, <1>8
<1>11. Unwritten(staged, written) = w  BY DEF Unwritten, w
<1>12. CASE written + n = L
  <2>1. p.stream = stream \o u /\ p.staged = <<>> /\ p.written = 0  BY <1>2, <1>12
  <2>2. Unwritten(<<>>, 0) = <<>>  BY SubSeqEmpty DEF Unwritten
  <2>3. Len(v) = 0  BY ONLY <1>6, <1>12, <1>1
  <2>4. v = <<>>  BY <2>3, <1>6, EmptySeq
  <2>5. p.stream \o Unwritten(p.staged, p.written) = stream \o Unwritten(staged, written)
    BY ONLY <2>1, <2>2, <2>4, <1>10, <1>11
  <2>6. <<>> \in Seq(C) /\ Len(<<>>) = 0  BY EmptySeq
  <2>7. Len(stream) + n <= Capacity  BY ONLY <1>1, <1>3, Capacity \in Nat
  <2> QED BY ONLY <2>1, <2>5, <2>6, <2>7, <1>1, <1>9 DEF PushedOk
<1>13. CASE written + n # L
  <2>1. p.stream = stream \o u /\ p.staged = staged /\ p.written = written + n  BY <1>2, <1>13
  <2>2. Unwritten(staged, written + n) = v  BY DEF Unwritten, v
  <2>3. p.stream \o Unwritten(p.staged, p.written) = stream \o Unwritten(staged, written)
    BY ONLY <2>1, <2>2, <1>10, <1>11
  <2>4. Len(stream) + n <= Capacity /\ written + n <= L /\ written + n \in Nat
    BY ONLY <1>1, <1>3, Capacity \in Nat, written \in Nat
  <2> QED BY ONLY <2>1, <2>3, <2>4, <1>1, <1>9, staged \in Seq(C) DEF PushedOk
<1> QED BY <1>12, <1>13

\* What is staged behind the cells that have not left.
LEMMA UnwrittenJoined ==
    ASSUME NEW C, NEW a \in Seq(C), NEW b \in Seq(C), NEW w \in Nat, w <= Len(a)
    PROVE  Unwritten(a \o b, w) = Unwritten(a, w) \o b /\ Unwritten(a, w) \in Seq(C)
<1> DEFINE s == a \o b
           x == SubSeq(a, w + 1, Len(a))
           y == SubSeq(s, w + 1, Len(s))
<1>1. /\ s \in Seq(C) /\ Len(s) = Len(a) + Len(b) /\ Len(a) \in Nat /\ Len(b) \in Nat
      /\ \A i \in 1 .. Len(a) : s[i] = a[i]
      /\ \A i \in 1 .. Len(b) : s[Len(a) + i] = b[i]
  BY Joined
<1> HIDE DEF s
<1>2. x \in Seq(C) /\ Len(x) = Len(a) - w /\ \A i \in 1 .. Len(a) - w : x[i] = a[w + i]
  <2>1. Stretches(C, a, w, Len(a))  BY <1>1, Stretch
  <2> QED BY <2>1 DEF Stretches
<1>3. y \in Seq(C) /\ Len(y) = Len(s) - w /\ \A i \in 1 .. Len(s) - w : y[i] = s[w + i]
  <2>1. Len(s) \in Nat /\ w <= Len(s)  BY ONLY <1>1, w \in Nat, w <= Len(a)
  <2>2. Stretches(C, s, w, Len(s))  BY ONLY <1>1, <2>1, w \in Nat, Stretch
  <2> QED BY <2>2 DEF Stretches
<1> HIDE DEF x, y
<1>4. /\ x \o b \in Seq(C) /\ Len(x \o b) = Len(x) + Len(b)
      /\ \A i \in 1 .. Len(x) : (x \o b)[i] = x[i]
      /\ \A i \in 1 .. Len(b) : (x \o b)[Len(x) + i] = b[i]
  <2>1. x \in Seq(C)  BY ONLY <1>2
  <2> QED BY ONLY <2>1, b \in Seq(C), Joined
<1>5. Len(y) = Len(x \o b)  BY ONLY <1>1, <1>2, <1>3, <1>4, w \in Nat
<1>6. ASSUME NEW i \in 1 .. Len(y) PROVE y[i] = (x \o b)[i]
  <2>1. i \in 1 .. Len(s) - w /\ y[i] = s[w + i]  BY ONLY <1>3, <1>6
  <2>2. CASE i <= Len(x)
    <3>1. i \in 1 .. Len(a) - w /\ w + i \in 1 .. Len(a) /\ i \in 1 .. Len(x)
      BY ONLY <2>1, <2>2, <1>1, <1>2, w \in Nat
    <3> QED BY ONLY <3>1, <2>1, <1>1, <1>2, <1>4
  <2>3. CASE i > Len(x)
    <3> DEFINE j == i - Len(x)
    <3>1. j \in 1 .. Len(b) /\ i = Len(x) + j /\ w + i = Len(a) + j
      BY ONLY <2>1, <2>3, <1>1, <1>2, w \in Nat, w <= Len(a)
    <3> HIDE DEF j
    <3> QED BY ONLY <3>1, <2>1, <1>1, <1>4
  <2> QED BY ONLY <2>1, <2>2, <2>3, <1>1, <1>2, w \in Nat, w <= Len(a)
<1>7. y = x \o b  BY ONLY <1>3, <1>4, <1>5, <1>6, SeqEqual
<1> QED BY <1>2, <1>7 DEF Unwritten, s, x, y

\* A line staged behind the cells that have not left.
LEMMA StagedBehind ==
    ASSUME NEW C, NEW o \in Seq(C), NEW a \in Seq(C), NEW X \in Seq(C), NEW w \in Nat,
           w <= Len(a), Tailing(o \o Unwritten(a, w)), Line(X),
           \A c \in C : c.at \in Nat /\ c.frame \in Nat /\ c.of.length \in Nat
    PROVE  Tailing(o \o Unwritten(a \o X, w))
<1> DEFINE U == Unwritten(a, w)
<1>1. Unwritten(a \o X, w) = U \o X /\ U \in Seq(C)  BY UnwrittenJoined
<1> HIDE DEF U
<1>2. U \in Seq(C)  BY ONLY <1>1
<1>3. o \o (U \o X) = (o \o U) \o X
  BY ONLY <1>2, o \in Seq(C), X \in Seq(C), ConcatAssociative
<1>4. o \o U \in Seq(C)  BY ONLY <1>2, o \in Seq(C), Joined
<1>5. Tailing((o \o U) \o X)  BY <1>4, LineAppended DEF U
<1> QED BY <1>1, <1>3, <1>5

\* A step's read of a line: part of a record, or the record at its front.
ReadPart(t, b, s, z, F) ==
    t.buffer \o t.stream \o z = b \o s \o z /\ Short(t.buffer, F)
ReadWhole(t, b, s, z, F, Records) ==
    LET x == t.buffer[1].of
        old == b \o s \o z
        new == <<>> \o t.stream \o z
    IN  /\ x \in Records /\ Decode(t.buffer, F) = x /\ Len(t.buffer) - F = x.length
        /\ Line(new)
        /\ 1 \in 1 .. Len(old) /\ old[1].of = x
        /\ \A n \in 1 .. Len(new) : \E m \in 1 .. Len(old) : new[n] = old[m]
        /\ Ascending(old) => Ascending(new) /\ \A n \in 1 .. Len(new) : x.request < new[n].of.request

LEMMA ReadOn ==
    ASSUME NEW Records, NEW F, Bounded(Records, F), PayloadBytes \in Nat,
           \A c \in Records : c.request \in Nat,
           NEW b \in Seq(CellsOf(Records, F)), NEW s \in Seq(CellsOf(Records, F)),
           NEW z \in Seq(CellsOf(Records, F)), Line(b \o s \o z), Short(b, F),
           NEW t, t = Taken(b, s, F)
    PROVE  /\ t.buffer \in Seq(CellsOf(Records, F)) /\ t.stream \in Seq(CellsOf(Records, F))
           /\ Len(t.stream) <= Len(s)
           /\ ~Whole(t.buffer, F) => ReadPart(t, b, s, z, F)
           /\ Whole(t.buffer, F) => ReadWhole(t, b, s, z, F, Records)
<1> DEFINE C == CellsOf(Records, F)
           old == b \o s \o z
           x == t.buffer[1].of
           u == t.stream \o z
<1>1. /\ t.buffer \in Seq(C) /\ t.stream \in Seq(C)
      /\ Len(t.stream) <= Len(s) /\ t.buffer \o t.stream = b \o s
      /\ ~Whole(t.buffer, F) => Short(t.buffer, F)
      /\ Whole(t.buffer, F) => TakenRecord(t, F, Records)
  <2>1. TakenOk(t, b, s, F, Records)  BY TakenMoves
  <2> QED BY ONLY <2>1 DEF TakenOk
<1>2. t.buffer \o t.stream \o z = old  BY <1>1
<1>3. ASSUME Whole(t.buffer, F) PROVE ReadWhole(t, b, s, z, F, Records)
  <2>1. /\ t.buffer = Cells(x, F) /\ x \in Records /\ Decode(t.buffer, F) = x
        /\ Len(t.buffer) = F + x.length
    BY <1>1, <1>3 DEF TakenRecord
  <2>2. F \in Nat /\ F # 0 /\ x.length \in Nat  BY <2>1 DEF Bounded
  <2>3. u \in Seq(C) /\ Len(u) \in Nat
    <3>1. t.stream \in Seq(C)  BY ONLY <1>1
    <3>2. u \in Seq(C)  BY ONLY <3>1, z \in Seq(CellsOf(Records, F)), Joined
    <3> QED BY <3>2
  <2>4. t.buffer \o u = old
    <3> DEFINE tb == t.buffer
               ts == t.stream
    <3>1. tb \in Seq(C) /\ ts \in Seq(C)  BY ONLY <1>1
    <3>4. tb \o ts \o z = old  BY ONLY <1>2
    <3> HIDE DEF tb, ts, C
    <3>2. z \in Seq(C)  BY DEF C
    <3>3. tb \o ts \o z = tb \o (ts \o z)  BY ONLY <3>1, <3>2, ConcatAssociative
    <3> QED BY ONLY <3>4, <3>3 DEF tb, ts
  <2>5. <<>> \o t.stream \o z = u
    <3>1. t.stream \in Seq(C)  BY ONLY <1>1
    <3>2. <<>> \o t.stream = t.stream  BY ONLY <3>1, ConcatEmptySeq
    <3> QED BY <3>2
  <2> HIDE DEF u, x, old
  <2>6. Line(Cells(x, F) \o u)  BY <2>1, <2>4 DEF old
  <2>7. /\ Line(u)
        /\ Ascending(Cells(x, F) \o u) =>
              Ascending(u) /\ \A n \in 1 .. Len(u) : x.request < u[n].of.request
    BY <2>1, <2>3, <2>6, LineBehind
  <2>8. Ascending(old) => Ascending(u) /\ \A n \in 1 .. Len(u) : x.request < u[n].of.request
    BY <2>1, <2>4, <2>7
  <2>9. /\ Len(old) = (F + x.length) + Len(u)
        /\ \A i \in 1 .. F + x.length : old[i] = t.buffer[i]
        /\ \A i \in 1 .. Len(u) : old[(F + x.length) + i] = u[i]
    <3>1. t.buffer \in Seq(C)  BY ONLY <1>1
    <3>2. /\ Len(t.buffer \o u) = Len(t.buffer) + Len(u)
          /\ \A i \in 1 .. Len(t.buffer) : (t.buffer \o u)[i] = t.buffer[i]
          /\ \A i \in 1 .. Len(u) : (t.buffer \o u)[Len(t.buffer) + i] = u[i]
      BY ONLY <3>1, <2>3, Joined
    <3> QED BY ONLY <3>2, <2>1, <2>4
  <2>10. 1 \in 1 .. Len(old) /\ old[1].of = x
    <3>1. 1 \in 1 .. Len(old) /\ 1 \in 1 .. F + x.length  BY ONLY <2>2, <2>3, <2>9
    <3> QED BY ONLY <3>1, <2>9 DEF x
  <2>11. ASSUME NEW n \in 1 .. Len(u) PROVE \E m \in 1 .. Len(old) : u[n] = old[m]
    <3>1. (F + x.length) + n \in 1 .. Len(old)  BY ONLY <2>11, <2>2, <2>3, <2>9
    <3> QED BY ONLY <3>1, <2>9
  <2>12. Len(t.buffer) - F = x.length  BY ONLY <2>1, <2>2
  <2> QED BY ONLY <2>1, <2>5, <2>7, <2>8, <2>10, <2>11, <2>12 DEF ReadWhole, x, old
<1> QED BY <1>1, <1>2, <1>3 DEF ReadPart

-----------------------------------------------------------------------------
(* The parts of a step.                                                    *)

LEMMA RequestsAreNumbers ==
    ASSUME RouterAssumption
    PROVE  /\ \A c \in IsolateCall : c.request \in Nat
           /\ \A c \in Forwarded : c.request \in Nat
           /\ \A c \in Completion : c.request \in Nat
BY Sizes DEF IsolateCall, Forwarded, Completion

LEMMA CellFacts ==
    ASSUME NEW Records, NEW F, Bounded(Records, F)
    PROVE  \A c \in CellsOf(Records, F) : c.at \in Nat /\ c.frame \in Nat /\ c.of.length \in Nat
BY DEF CellsOf, Bounded

\* A completion that has room is told, and nothing else of the router changes.
LEMMA Told ==
    ASSUME RouterAssumption, PayloadsFit,
           NEW r \in Router, NEW out \in Seq(ReplyCells), StagedOk(r, out),
           NEW record \in Completion, AnsweredBut(r, record.request),
           Len(r.completions) + CompletionFrame + record.length <= CompletionBuffer,
           NEW t, t = StageCompletion(r, record, record.length)
    PROVE  /\ t \in Router /\ StagedOk(t, out) /\ Answered(t)
           /\ t.call = r.call /\ t.legs = r.legs /\ t.taken = r.taken
<1> DEFINE X == Cells(record, CompletionFrame)
           q == record.request
<1>1. Bounded(Completion, CompletionFrame)  BY RecordsBounded
<1>2. X \in Seq(ReplyCells) /\ Line(X) /\ Len(X) = CompletionFrame + record.length
  BY <1>1, CellsLine DEF ReplyCells
<1>3. SubSeq(X, 1, CompletionFrame + record.length) = X
  BY ONLY <1>2, SubSeqFull
<1>4. t = [r EXCEPT !.completions = @ \o X, !.told[q] = @ + 1]  BY <1>3 DEF StageCompletion
<1>5. q \in Requests  BY DEF AnsweredBut
<1> HIDE DEF X, q
<1>6. r.completions \in Seq(ReplyCells) /\ r.told \in [Requests -> Nat] /\ r.written \in Nat
  BY DEF Router
<1>7. /\ r.completions \o X \in Seq(ReplyCells)
      /\ Len(r.completions \o X) = Len(r.completions) + Len(X)
      /\ Len(r.completions) \in Nat /\ Len(X) \in Nat
  <2>1. r.completions \in Seq(ReplyCells) /\ X \in Seq(ReplyCells)  BY ONLY <1>2, <1>6
  <2> QED BY ONLY <2>1, Joined
<1>8. /\ t.completions = r.completions \o X /\ t.told = [r.told EXCEPT ![q] = @ + 1]
      /\ t.call = r.call /\ t.legs = r.legs /\ t.taken = r.taken /\ t.table = r.table
      /\ t.written = r.written /\ t.finished = r.finished
  BY <1>4 DEF Router
<1>9. t \in Router
  <2>1. [r.told EXCEPT ![q] = @ + 1] \in [Requests -> Nat]  BY ONLY <1>5, <1>6
  <2>2. r.completions \o X \in Seq(ReplyCells)  BY <1>7
  <2> HIDE DEF X
  <2> QED BY <1>4, <2>1, <2>2 DEF Router
<1>10. StagedOk(t, out)
  <2>1. Len(t.completions) <= CompletionBuffer /\ t.written <= Len(t.completions)
    <3>1. CompletionFrame \in Nat /\ CompletionBuffer \in Nat /\ record.length \in Nat
      BY <1>1, Sizes DEF Bounded
    <3>2. Len(r.completions) <= CompletionBuffer /\ r.written <= Len(r.completions)  BY DEF StagedOk
    <3> QED BY ONLY <3>1, <3>2, <1>2, <1>6, <1>7, <1>8,
                    Len(r.completions) + CompletionFrame + record.length <= CompletionBuffer
  <2> DEFINE cs == r.completions
             w == r.written
  <2>2. cs \in Seq(ReplyCells) /\ X \in Seq(ReplyCells) /\ w \in Nat /\ w <= Len(cs)
        /\ Line(X) /\ Tailing(out \o Unwritten(cs, w))
    BY <1>2, <1>6 DEF StagedOk
  <2>3. t.completions = cs \o X /\ t.written = w  BY ONLY <1>8
  <2> HIDE DEF cs, w
  <2>4. \A x \in ReplyCells : x.at \in Nat /\ x.frame \in Nat /\ x.of.length \in Nat
    BY <1>1, CellFacts DEF ReplyCells
  <2>5. Tailing(out \o Unwritten(cs \o X, w))
    BY ONLY <2>2, <2>4, out \in Seq(ReplyCells), StagedBehind
  <2> QED BY <2>1, <2>3, <2>5 DEF StagedOk
<1>11. Answered(t)
  <2>1. \A p \in Requests : NoneWaits(t, p) <=> NoneWaits(r, p)
    BY <1>8 DEF NoneWaits, Waits
  <2>2. \A p \in Requests, s \in Slots : OnlyWaits(t, s, p) <=> OnlyWaits(r, s, p)
    BY <1>8 DEF OnlyWaits, Waits
  <2>3. t.told[q] = 1  BY <1>5, <1>6, <1>8 DEF AnsweredBut, q
  <2>4. \A p \in Requests : p # q => t.told[p] = r.told[p]  BY ONLY <1>5, <1>6, <1>8
  <2>5. ASSUME NEW p \in Requests PROVE Once(t, p)
    <3>1. CASE p = q  BY <3>1, <2>1, <2>3, <1>8 DEF AnsweredBut, Once, q
    <3>2. CASE p # q
      <4>1. Once(r, p)  BY <3>2 DEF AnsweredBut, q
      <4> QED BY <4>1, <3>2, <2>1, <2>2, <2>4, <1>8 DEF Once
    <3> QED BY <3>1, <3>2
  <2> QED BY <2>5 DEF Answered
<1> QED BY <1>8, <1>9, <1>10, <1>11

LEMMA Correlated ==
    ASSUME RouterAssumption, PayloadsFit,
           NEW r \in Router, NEW out \in Seq(ReplyCells), StagedOk(r, out), Answered(r),
           NEW c \in Completion, RoomToAnswer(r),
           NEW t, t = Correlate(r, c, c.length)
    PROVE  /\ t \in Router /\ StagedOk(t, out) /\ Answered(t)
           /\ t.call = r.call /\ t.legs = r.legs /\ t.taken = r.taken
<1> DEFINE q == c.request
           found == {s \in Slots : r.table[s].live /\ r.table[s].request = q}
<1>1. q \in Requests /\ c.trace \in Traces  BY DEF Completion
<1>2. found = {s \in Slots : Waits(r, s, q)}  BY DEF Waits
<1>3. CASE found = {}
  <2>1. t = r  BY <1>3 DEF Correlate
  <2> QED BY <2>1
<1>4. CASE found # {}
  <2>1. PICK s \in Slots : OnlyWaits(r, s, q)
    <3>1. Once(r, q)  BY <1>1 DEF Answered
    <3>2. ~NoneWaits(r, q)  BY <1>2, <1>4 DEF NoneWaits
    <3> QED BY <3>1, <3>2 DEF Once
  <2>2. found = {s}  BY <1>2, <2>1 DEF OnlyWaits
  <2>3. s \in Nat  BY Sizes DEF Slots
  <2>4. (CHOOSE z \in found : \A y \in found : z <= y) = s
    <3>1. \A z \in found : z = s  BY <2>2
    <3>2. \E z \in found : \A y \in found : z <= y  BY <2>2, <2>3
    <3> HIDE DEF found
    <3> QED BY <3>1, <3>2
  <2> DEFINE trace == r.table[s].trace
             freed == [r EXCEPT !.table[s] = Free]
             malformed == [request |-> c.request, trace |-> trace,
                           outcome |-> "Malformed", length |-> 0]
  <2>5. t = IF trace # c.trace THEN StageCompletion(freed, malformed, 0)
            ELSE StageCompletion(freed, c, c.length)
    <3> DEFINE x == CHOOSE z \in found : \A y \in found : z <= y
               trace_x == r.table[x].trace
               freed_x == [r EXCEPT !.table[x] = Free]
    <3>1. t = IF trace_x # c.trace
              THEN StageCompletion(freed_x, [request |-> c.request, trace |-> trace_x,
                                             outcome |-> "Malformed", length |-> 0], 0)
              ELSE StageCompletion(freed_x, c, c.length)
      BY <1>4 DEF Correlate
    <3>2. x = s  BY <2>4
    <3> HIDE DEF x
    <3> QED BY ONLY <3>1, <3>2
  <2> HIDE DEF found
  <2>6. r.table \in [Slots -> Slot] /\ Free \in Slot /\ Free.live = FALSE
    BY DEF Router, Slot, Free
  <2>7. trace \in Traces
    <3>1. r.table[s] \in Slot /\ r.table[s].live  BY <2>1, <2>6 DEF OnlyWaits, Waits
    <3>2. r.table[s] # Free  BY <3>1, <2>6
    <3> QED BY <3>1, <3>2 DEF Slot
  <2>8. malformed \in Completion /\ malformed.request = q /\ malformed.length = 0
    BY <1>1, <2>7 DEF Completion, Outcomes
  <2>9. /\ freed.table = [r.table EXCEPT ![s] = Free] /\ freed.told = r.told
        /\ freed.taken = r.taken /\ freed.call = r.call /\ freed.legs = r.legs
        /\ freed.completions = r.completions /\ freed.written = r.written
    BY DEF Router
  <2>10. freed \in Router
    <3>1. [r.table EXCEPT ![s] = Free] \in [Slots -> Slot]  BY <2>6
    <3> QED BY <3>1 DEF Router
  <2> HIDE DEF freed, malformed, trace, q
  <2>11. StagedOk(freed, out)  BY <2>9 DEF StagedOk
  <2>12. \A x \in Slots : freed.table[x] = IF x = s THEN Free ELSE r.table[x]  BY <2>6, <2>9
  <2>13. AnsweredBut(freed, q)
    <3>1. q \in r.taken /\ r.told[q] = 0
      <4>1. Once(r, q) /\ ~NoneWaits(r, q)  BY <1>1, <2>1 DEF Answered, NoneWaits, OnlyWaits
      <4> QED BY <4>1 DEF Once
    <3>2. NoneWaits(freed, q)
      <4>1. ASSUME NEW x \in Slots PROVE ~Waits(freed, x, q)
        <5>1. CASE x = s  BY <5>1, <2>6, <2>12 DEF Waits
        <5>2. CASE x # s
          <6>1. ~Waits(r, x, q)  BY <5>2, <2>1 DEF OnlyWaits
          <6> QED BY <6>1, <5>2, <2>12 DEF Waits
        <5> QED BY <5>1, <5>2
      <4> QED BY <4>1 DEF NoneWaits
    <3>3. ASSUME NEW p \in Requests, p # q PROVE Once(freed, p)
      <4>1. \A x \in Slots : Waits(freed, x, p) <=> Waits(r, x, p)
        <5>1. ASSUME NEW x \in Slots PROVE Waits(freed, x, p) <=> Waits(r, x, p)
          <6>1. CASE x = s
            <7>1. ~Waits(freed, x, p)  BY <6>1, <2>6, <2>12 DEF Waits
            <7>2. ~Waits(r, x, p)  BY <6>1, <2>1, <3>3 DEF Waits, OnlyWaits
            <7> QED BY <7>1, <7>2
          <6>2. CASE x # s  BY <6>2, <2>12 DEF Waits
          <6> QED BY <6>1, <6>2
        <5> QED BY <5>1
      <4>2. Once(r, p)  BY DEF Answered
      <4> QED BY <4>1, <4>2, <2>9 DEF Once, NoneWaits, OnlyWaits
    <3> QED BY <1>1, <2>9, <3>1, <3>2, <3>3 DEF AnsweredBut
  <2>14. /\ c.length \in Nat /\ c.length <= PayloadBytes /\ PayloadBytes \in Nat
         /\ CompletionFrame \in Nat /\ CompletionBuffer \in Nat /\ Len(r.completions) \in Nat
    <3>1. r.completions \in Seq(ReplyCells)  BY DEF Router
    <3> QED BY <3>1, RecordsBounded, Sizes DEF Bounded
  <2>15. \A n \in Nat : n <= PayloadBytes =>
            Len(freed.completions) + CompletionFrame + n <= CompletionBuffer
    <3>1. Len(r.completions) + CompletionFrame + PayloadBytes <= CompletionBuffer  BY DEF RoomToAnswer
    <3> QED BY ONLY <3>1, <2>9, <2>14
  <2>16. CASE trace # c.trace
    <3>1. t = StageCompletion(freed, malformed, malformed.length)  BY <2>5, <2>8, <2>16
    <3>2. Len(freed.completions) + CompletionFrame + malformed.length <= CompletionBuffer
      BY <2>8, <2>14, <2>15
    <3>3. AnsweredBut(freed, malformed.request)  BY <2>8, <2>13
    <3>4. /\ t \in Router /\ StagedOk(t, out) /\ Answered(t)
          /\ t.call = freed.call /\ t.legs = freed.legs /\ t.taken = freed.taken
      BY <3>1, <3>2, <3>3, <2>8, <2>10, <2>11, Told
    <3> QED BY <3>4, <2>9
  <2>17. CASE trace = c.trace
    <3>1. t = StageCompletion(freed, c, c.length)  BY <2>5, <2>17
    <3>2. Len(freed.completions) + CompletionFrame + c.length <= CompletionBuffer
      BY <2>14, <2>15
    <3>3. AnsweredBut(freed, c.request)  BY <2>13 DEF q
    <3>4. /\ t \in Router /\ StagedOk(t, out) /\ Answered(t)
          /\ t.call = freed.call /\ t.legs = freed.legs /\ t.taken = freed.taken
      BY <3>1, <3>2, <3>3, <2>10, <2>11, Told
    <3> QED BY <3>4, <2>9
  <2> QED BY <2>16, <2>17
<1> QED BY <1>3, <1>4

LEMMA Refused ==
    ASSUME RouterAssumption, PayloadsFit,
           NEW r \in Router, NEW out \in Seq(ReplyCells), StagedOk(r, out),
           NEW c \in IsolateCall, AnsweredBut(r, c.request), NEW cause \in {"Denied", "Busy"},
           Len(r.completions) + CompletionFrame <= CompletionBuffer,
           NEW t, t = Refuse(r, c, cause)
    PROVE  /\ t \in Router /\ StagedOk(t, out) /\ Answered(t)
           /\ t.call = r.call /\ t.legs = r.legs /\ t.taken = r.taken
<1> DEFINE record == [request |-> c.request, trace |-> c.trace, outcome |-> cause, length |-> 0]
<1>1. record \in Completion /\ record.request = c.request /\ record.length = 0
  BY DEF IsolateCall, Completion, Outcomes
<1>2. t = StageCompletion(r, record, record.length)  BY <1>1 DEF Refuse
<1> HIDE DEF record
<1>3. Len(r.completions) + CompletionFrame + record.length <= CompletionBuffer
  <2>1. Len(r.completions) \in Nat /\ CompletionFrame \in Nat /\ CompletionBuffer \in Nat
    <3>1. r.completions \in Seq(ReplyCells)  BY DEF Router
    <3> QED BY <3>1, Sizes
  <2> QED BY <1>1, <2>1
<1>4. AnsweredBut(r, record.request)  BY <1>1
<1> QED BY <1>1, <1>2, <1>3, <1>4, Told

\* What a routed call leaves of the legs: their replies as they were, and their
\* requests within their buffers.
LegsKept(r, t, outs) ==
    \A l \in Legs : /\ t.legs[l].reply = r.legs[l].reply
                    /\ LegOk(r, l, outs[l]) => LegOk(t, l, outs[l])

LEMMA Routed ==
    ASSUME RouterAssumption, PayloadsFit,
           NEW r \in Router, NEW out \in Seq(ReplyCells), StagedOk(r, out),
           NEW outs \in [Legs -> Seq(RequestCells)],
           NEW c \in IsolateCall, AnsweredBut(r, c.request), RoomToTake(r),
           NEW t, t = Route(r, c, c.length)
    PROVE  /\ t \in Router /\ StagedOk(t, out) /\ Answered(t)
           /\ t.call = r.call /\ t.taken = r.taken
           /\ LegsKept(r, t, outs)
<1> DEFINE q == c.request
           served == {m \in MethodOf[c.binding] : m.leg \in Wired}
           m == CHOOSE m \in served : TRUE
           s == CHOOSE s \in FreeSlots(r) : \A x \in FreeSlots(r) : s <= x
           forwarded == [c EXCEPT !.binding = m.method]
           X == SubSeq(Cells(forwarded, CallFrame), 1, CallFrame + c.length)
           legs == [r.legs EXCEPT ![m.leg].requests = @ \o X]
           slot == [live |-> TRUE, request |-> c.request, trace |-> c.trace]
<1>1. Len(r.completions) + CompletionFrame <= CompletionBuffer  BY DEF RoomToTake
<1>2. ASSUME NEW cause \in {"Denied", "Busy"}, t = Refuse(r, c, cause)
      PROVE  /\ t \in Router /\ StagedOk(t, out) /\ Answered(t)
             /\ t.call = r.call /\ t.taken = r.taken /\ LegsKept(r, t, outs)
  <2>1. /\ t \in Router /\ StagedOk(t, out) /\ Answered(t)
        /\ t.call = r.call /\ t.legs = r.legs /\ t.taken = r.taken
    BY <1>1, <1>2, Refused
  <2> QED BY <2>1 DEF LegsKept, LegOk
<1>3. ASSUME served # {}, FreeSlots(r) # {},
             t = [r EXCEPT !.legs[m.leg].requests = @ \o X, !.table[s] = slot],
             Len(r.legs[m.leg].requests) + CallFrame + c.length <= LegBuffer
      PROVE  /\ t \in Router /\ StagedOk(t, out) /\ Answered(t)
             /\ t.call = r.call /\ t.taken = r.taken /\ LegsKept(r, t, outs)
  <2>1. m \in MethodOf[c.binding] /\ m.leg \in Wired  BY <1>3
  <2>2. m.leg \in Legs /\ m.method \in Methods
    <3>1. MethodOf[c.binding] \in SUBSET [leg : Legs, method : Methods]
      BY DEF RouterAssumption, IsolateCall
    <3> HIDE DEF m
    <3> QED BY <3>1, <2>1
  <2>3. s \in Slots /\ ~r.table[s].live
    <3>1. FreeSlots(r) \in SUBSET Nat  BY Sizes DEF FreeSlots, Slots
    <3>2. \E z \in FreeSlots(r) : \A x \in FreeSlots(r) : z <= x  BY <1>3, <3>1, LeastOf
    <3>3. s \in FreeSlots(r)  BY <3>2
    <3> HIDE DEF s
    <3> QED BY <3>3 DEF FreeSlots
  <2> HIDE DEF m, s, served
  <2>4. forwarded \in Forwarded /\ forwarded.length = c.length
    BY <2>2 DEF IsolateCall, Forwarded
  <2>5. Bounded(Forwarded, CallFrame)  BY RecordsBounded
  <2> HIDE DEF forwarded
  <2>6. X \in Seq(RequestCells) /\ Line(X) /\ Len(X) = CallFrame + c.length
    <3>1. /\ Cells(forwarded, CallFrame) \in Seq(RequestCells) /\ Line(Cells(forwarded, CallFrame))
          /\ Len(Cells(forwarded, CallFrame)) = CallFrame + c.length
      BY <2>4, <2>5, CellsLine DEF RequestCells
    <3>2. X = Cells(forwarded, CallFrame)  BY <3>1, SubSeqFull
    <3> QED BY <3>1, <3>2
  <2> HIDE DEF X
  <2>7. r.legs \in [Legs -> Leg] /\ r.table \in [Slots -> Slot] /\ c.request \in Requests
        /\ c.trace \in Traces
    BY DEF Router, IsolateCall
  <2>8. slot \in Slot  BY <2>7 DEF Slot
  <2>9. r.legs[m.leg] \in Leg /\ r.legs[m.leg].requests \in Seq(RequestCells)
        /\ r.legs[m.leg].written \in Nat
    BY <2>2, <2>7 DEF Leg
  <2>10. /\ r.legs[m.leg].requests \o X \in Seq(RequestCells)
         /\ Len(r.legs[m.leg].requests \o X) = Len(r.legs[m.leg].requests) + Len(X)
         /\ Len(r.legs[m.leg].requests) \in Nat
    <3> DEFINE a == r.legs[m.leg].requests
    <3>1. a \in Seq(RequestCells) /\ X \in Seq(RequestCells)  BY <2>6, <2>9
    <3> HIDE DEF a
    <3>2. a \o X \in Seq(RequestCells) /\ Len(a \o X) = Len(a) + Len(X) /\ Len(a) \in Nat
      BY ONLY <3>1, Joined
    <3> QED BY <3>2 DEF a
  <2>11. /\ t.legs = legs /\ t.table = [r.table EXCEPT ![s] = slot] /\ t.told = r.told
         /\ t.taken = r.taken /\ t.call = r.call /\ t.completions = r.completions
         /\ t.written = r.written /\ t.finished = r.finished
    BY <1>3 DEF Router
  <2>12. \A l \in Legs : legs[l] = IF l = m.leg
                                   THEN [r.legs[l] EXCEPT !.requests = r.legs[l].requests \o X]
                                   ELSE r.legs[l]
    BY <2>7
  <2>13. legs \in [Legs -> Leg]
    <3>1. [r.legs[m.leg] EXCEPT !.requests = r.legs[m.leg].requests \o X] \in Leg
      BY <2>9, <2>10 DEF Leg
    <3> QED BY <3>1, <2>2, <2>7
  <2>14. [r.table EXCEPT ![s] = slot] \in [Slots -> Slot]  BY <2>7, <2>8
  <2> HIDE DEF slot, legs
  <2>15. t \in Router
    <3> DEFINE table == [r.table EXCEPT ![s] = slot]
    <3>1. t = [r EXCEPT !.legs = legs, !.table = table]  BY <1>3 DEF legs, Router
    <3>2. table \in [Slots -> Slot]  BY <2>14
    <3> HIDE DEF table
    <3> QED BY <3>1, <3>2, <2>13 DEF Router
  <2>16. StagedOk(t, out)  BY <2>11 DEF StagedOk
  <2>17. LegsKept(r, t, outs)
    <3>1. ASSUME NEW l \in Legs
          PROVE  t.legs[l].reply = r.legs[l].reply /\ (LegOk(r, l, outs[l]) => LegOk(t, l, outs[l]))
      <4>1. CASE l # m.leg
        <5>1. t.legs[l] = r.legs[l]  BY <4>1, <2>11, <2>12
        <5> QED BY <5>1 DEF LegOk
      <4>2. CASE l = m.leg
        <5> DEFINE a == r.legs[l].requests
                   w == r.legs[l].written
                   o == outs[l]
        <5>1. a \in Seq(RequestCells) /\ w \in Nat /\ X \in Seq(RequestCells)
          BY <4>2, <2>6, <2>9
        <5>2. o \in Seq(RequestCells)  OBVIOUS
        <5>3. /\ t.legs[l].requests = a \o X /\ t.legs[l].written = w
              /\ t.legs[l].reply = r.legs[l].reply
          <6>1. t.legs[l] = [r.legs[l] EXCEPT !.requests = a \o X]  BY <4>2, <2>11, <2>12
          <6>2. r.legs[l] \in Leg  BY <2>7
          <6> HIDE DEF a
          <6> QED BY <6>1, <6>2 DEF Leg
        <5>4. Len(a) + Len(X) <= LegBuffer
          <6>1. Len(a) \in Nat /\ CallFrame \in Nat /\ c.length \in Nat /\ LegBuffer \in Nat
            BY <4>2, <2>10, Sizes, RecordsBounded DEF Bounded
          <6>2. Len(a) + CallFrame + c.length <= LegBuffer  BY <1>3, <4>2
          <6> HIDE DEF a
          <6> QED BY <6>1, <6>2, <2>6
        <5>6. Len(a \o X) = Len(a) + Len(X) /\ Len(a) \in Nat /\ Len(X) \in Nat
          <6> HIDE DEF a
          <6> QED BY ONLY <5>1, Joined
        <5> HIDE DEF a, w, o
        <5>5. ASSUME w <= Len(a), Tailing(o \o Unwritten(a, w))
              PROVE  w <= Len(a \o X) /\ Tailing(o \o Unwritten(a \o X, w))
          <6>1. \A x \in RequestCells : x.at \in Nat /\ x.frame \in Nat /\ x.of.length \in Nat
            BY <2>5, CellFacts DEF RequestCells
          <6>2. Line(X)  BY <2>6
          <6>3. Tailing(o \o Unwritten(a \o X, w))
            BY ONLY <5>1, <5>2, <5>5, <6>1, <6>2, StagedBehind
          <6>4. w <= Len(a \o X)  BY ONLY <5>1, <5>5, <5>6
          <6> QED BY <6>3, <6>4
        <5>7. LegOk(r, l, o) => w <= Len(a) /\ Tailing(o \o Unwritten(a, w))
          BY DEF LegOk, a, w
        <5>8. w <= Len(a \o X) /\ Tailing(o \o Unwritten(a \o X, w)) => LegOk(t, l, o)
          BY <5>3, <5>4, <5>6 DEF LegOk
        <5> QED BY <5>3, <5>5, <5>7, <5>8 DEF o
      <4> QED BY <4>1, <4>2
    <3> QED BY <3>1 DEF LegsKept
  <2>18. Answered(t)
    <3>1. \A x \in Slots : t.table[x] = IF x = s THEN slot ELSE r.table[x]  BY <2>7, <2>11
    <3>2. slot.live = TRUE /\ slot.request = q  BY DEF slot
    <3>3. OnlyWaits(t, s, q)
      <4>1. Waits(t, s, q)  BY <2>3, <3>1, <3>2 DEF Waits
      <4>2. ASSUME NEW x \in Slots, x # s PROVE ~Waits(t, x, q)
        BY <4>2, <3>1 DEF Waits, AnsweredBut, NoneWaits
      <4> QED BY <4>1, <4>2 DEF OnlyWaits
    <3>4. ASSUME NEW p \in Requests, p # q PROVE Once(t, p)
      <4>1. ASSUME NEW x \in Slots PROVE Waits(t, x, p) <=> Waits(r, x, p)
        <5>1. CASE x = s  BY <5>1, <2>3, <3>1, <3>2, <3>4 DEF Waits
        <5>2. CASE x # s  BY <5>2, <3>1 DEF Waits
        <5> QED BY <5>1, <5>2
      <4>2. Once(r, p)  BY <3>4 DEF AnsweredBut
      <4> QED BY <4>1, <4>2, <2>11 DEF Once, NoneWaits, OnlyWaits
    <3>5. Once(t, q)  BY <3>3, <2>3, <2>11 DEF Once, AnsweredBut
    <3> QED BY <3>4, <3>5 DEF Answered
  <2> QED BY <2>11, <2>15, <2>16, <2>17, <2>18
<1>4. CASE served = {}
  <2>1. t = Refuse(r, c, "Denied")  BY <1>4 DEF Route
  <2> QED BY <1>2, <2>1
<1>5. CASE served # {} /\ FreeSlots(r) = {}
  <2>1. t = Refuse(r, c, "Busy")  BY <1>5 DEF Route
  <2> QED BY <1>2, <2>1
<1>6. CASE served # {} /\ FreeSlots(r) # {} /\ Len(r.legs[m.leg].requests) + CallFrame + c.length <= LegBuffer
  <2>1. t = [r EXCEPT !.legs[m.leg].requests = @ \o X, !.table[s] = slot]
    BY <1>6 DEF Route
  <2> QED BY <1>3, <1>6, <2>1
<1>7. CASE /\ served # {} /\ FreeSlots(r) # {}
           /\ ~(Len(r.legs[m.leg].requests) + CallFrame + c.length <= LegBuffer)
  <2>1. t = Refuse(r, c, "Busy")  BY <1>7 DEF Route
  <2> QED BY <1>2, <2>1
<1> QED BY <1>4, <1>5, <1>6, <1>7

\* What a step of the router does not read, and what it reads, of a good view.
LEMMA GoodParts ==
    ASSUME NEW v, NEW mk, NEW ts, NEW an, Good(v, mk, ts, an)
    PROVE  /\ v.r \in Router /\ v.w \in Wires /\ v = [r |-> v.r, w |-> v.w]
           /\ v.r.call \in Seq(CallCells) /\ v.w.call_in \in Seq(CallCells)
           /\ v.r.legs \in [Legs -> Leg] /\ v.r.written \in Nat
           /\ v.r.completions \in Seq(ReplyCells) /\ v.w.completion_out \in Seq(ReplyCells)
           /\ v.w.request_out \in [Legs -> Seq(RequestCells)]
           /\ v.w.reply_in \in [Legs -> Seq(ReplyCells)]
           /\ v.r.taken \in SUBSET Requests
<1>1. v \in View  BY DEF Good
<1>2. v.r \in Router /\ v.w \in Wires /\ v = [r |-> v.r, w |-> v.w]  BY <1>1 DEF View
<1> QED BY <1>2 DEF Router, Wires

\* The router takes part of a call, or a whole call and answers or forwards it.
LEMMA TakeCallGood ==
    ASSUME RouterAssumption, PayloadsFit,
           NEW v, NEW mk \in Nat, NEW ts \in Seq(CallCells), NEW an, Good(v, mk, ts, an)
    PROVE  Good(TakeCall(v), mk, ts, an)
<1> DEFINE b == v.r.call
           s == v.w.call_in
           t == Taken(b, s, CallFrame)
           x == t.buffer[1].of
           c == Decode(t.buffer, CallFrame)
           w == [v.w EXCEPT !.call_in = t.stream]
           old == b \o s \o ts
           part == [v.r EXCEPT !.call = t.buffer]
           empty == [v.r EXCEPT !.call = <<>>]
           taken == [empty EXCEPT !.taken = @ \cup {c.request}]
           routed == Route(taken, c, Len(t.buffer) - CallFrame)
<1>1. /\ v.r \in Router /\ v.w \in Wires /\ b \in Seq(CallCells) /\ s \in Seq(CallCells)
      /\ v.w.request_out \in [Legs -> Seq(RequestCells)] /\ v.w.completion_out \in Seq(ReplyCells)
      /\ v.r.taken \in SUBSET Requests
  BY GoodParts
<1>2. /\ Line(old) /\ Short(b, CallFrame) /\ Ascending(old) /\ Fresh(old, v.r.taken, mk)
      /\ \A q \in v.r.taken : q <= mk
  BY DEF Good, CallsOk, Coming
<1>3. Bounded(IsolateCall, CallFrame) /\ PayloadBytes \in Nat
      /\ \A y \in IsolateCall : y.request \in Nat
  BY RecordsBounded, Sizes, RequestsAreNumbers
<1>4. /\ t.buffer \in Seq(CallCells) /\ t.stream \in Seq(CallCells) /\ Len(t.stream) <= Len(s)
      /\ ~Whole(t.buffer, CallFrame) => ReadPart(t, b, s, ts, CallFrame)
      /\ Whole(t.buffer, CallFrame) => ReadWhole(t, b, s, ts, CallFrame, IsolateCall)
  <2> HIDE DEF t, b, s
  <2>1. b \in Seq(CellsOf(IsolateCall, CallFrame)) /\ s \in Seq(CellsOf(IsolateCall, CallFrame))
        /\ ts \in Seq(CellsOf(IsolateCall, CallFrame))
    BY <1>1 DEF CallCells
  <2>2. t = Taken(b, s, CallFrame)  BY DEF t
  <2> QED BY ONLY <1>2, <1>3, <2>1, <2>2, ReadOn DEF CallCells
<1>5. TakeCall(v) = IF ~RoomToTake(v.r) THEN v
                    ELSE IF ~Whole(t.buffer, CallFrame) THEN [r |-> part, w |-> w]
                    ELSE [r |-> IF c = NoRecord THEN empty ELSE routed, w |-> w]
  BY DEF TakeCall
<1> HIDE DEF t
<1>6. /\ w \in Wires /\ w.call_in = t.stream /\ w.completion_out = v.w.completion_out
      /\ w.request_out = v.w.request_out /\ w.reply_in = v.w.reply_in
  BY <1>1, <1>4 DEF Wires
<1>7. Within(w)
  <2>1. Len(t.stream) \in Nat /\ Len(s) \in Nat /\ Capacity \in Nat
    <3> DEFINE u == t.stream
    <3>1. u \in Seq(CallCells) /\ s \in Seq(CallCells)  BY <1>1, <1>4
    <3> HIDE DEF u, s
    <3>2. Len(u) \in Nat /\ Len(s) \in Nat  BY ONLY <3>1
    <3> QED BY <3>2, Sizes DEF u
  <2>2. Within(v.w)  BY DEF Good
  <2> HIDE DEF w
  <2>3. Len(t.stream) <= Capacity  BY <1>4, <2>1, <2>2 DEF Within
  <2> QED BY <2>2, <2>3, <1>6 DEF Within
<1> HIDE DEF w
<1>8. CASE ~RoomToTake(v.r)  BY <1>5, <1>8
<1>9. CASE RoomToTake(v.r) /\ ~Whole(t.buffer, CallFrame)
  <2>1. TakeCall(v) = [r |-> part, w |-> w]  BY <1>5, <1>9
  <2>2. /\ part \in Router /\ part.call = t.buffer /\ part.taken = v.r.taken
        /\ part.legs = v.r.legs /\ part.completions = v.r.completions
        /\ part.written = v.r.written /\ part.table = v.r.table /\ part.told = v.r.told
    BY <1>1, <1>4 DEF Router
  <2> DEFINE n == [r |-> part, w |-> w]
  <2>3. n.r = part /\ n.w = w  OBVIOUS
  <2>4. n \in View  BY <1>6, <2>2 DEF View
  <2> HIDE DEF part, n
  <2>5. Coming(n, ts) = old /\ Short(t.buffer, CallFrame)
    BY <1>4, <1>6, <1>9, <2>2, <2>3 DEF Coming, ReadPart
  <2>6. CallsOk(n, mk, ts)
    <3> HIDE DEF old
    <3> QED BY <1>2, <2>2, <2>3, <2>5 DEF CallsOk
  <2>7. ASSUME NEW l \in Legs PROVE ReplyOk(n, l, an) /\ LegOk(n.r, l, n.w.request_out[l])
    <3>1. ReplyOk(v, l, an) /\ LegOk(v.r, l, v.w.request_out[l])  BY DEF Good
    <3> QED BY <3>1, <1>6, <2>2, <2>3 DEF ReplyOk, LegOk
  <2>8. StagedOk(n.r, n.w.completion_out)
    <3>1. StagedOk(v.r, v.w.completion_out)  BY DEF Good
    <3> QED BY <3>1, <1>6, <2>2, <2>3 DEF StagedOk
  <2>9. Answered(n.r)
    <3>1. Answered(v.r)  BY DEF Good
    <3> QED BY <3>1, <2>2, <2>3 DEF Answered, Once, NoneWaits, OnlyWaits, Waits
  <2> QED BY <2>1, <2>3, <2>4, <2>6, <2>7, <2>8, <2>9, <1>7 DEF Good, n
<1>10. CASE RoomToTake(v.r) /\ Whole(t.buffer, CallFrame)
  <2> DEFINE new == <<>> \o t.stream \o ts
  <2>1. ReadWhole(t, b, s, ts, CallFrame, IsolateCall)  BY <1>4, <1>10
  <2>2. /\ x \in IsolateCall /\ c = x /\ Len(t.buffer) - CallFrame = x.length
        /\ Line(new) /\ 1 \in 1 .. Len(old) /\ old[1].of = x
        /\ \A n \in 1 .. Len(new) : \E m \in 1 .. Len(old) : new[n] = old[m]
        /\ Ascending(new) /\ \A n \in 1 .. Len(new) : x.request < new[n].of.request
    <3>1. Ascending(old)  BY <1>2
    <3> QED BY ONLY <2>1, <3>1 DEF ReadWhole
  <2> HIDE DEF x, c, old, new
  <2>3. x # NoRecord /\ x.request \in Requests  BY <2>2 DEF IsolateCall, NoRecord
  <2>4. TakeCall(v) = [r |-> routed, w |-> w]  BY <1>5, <1>10, <2>2, <2>3
  <2>5. x.request \notin v.r.taken /\ x.request <= mk
    BY <1>2, <2>2 DEF Fresh
  <2>6. /\ taken \in Router /\ taken.call = <<>> /\ taken.taken = v.r.taken \cup {x.request}
        /\ taken.legs = v.r.legs /\ taken.completions = v.r.completions
        /\ taken.written = v.r.written /\ taken.table = v.r.table /\ taken.told = v.r.told
    <3>1. <<>> \in Seq(CallCells)  BY EmptySeq
    <3>2. v.r.taken \cup {x.request} \in SUBSET Requests  BY <1>1, <2>3
    <3> QED BY <1>1, <2>2, <3>1, <3>2 DEF Router
  <2> HIDE DEF taken
  <2>7. StagedOk(taken, v.w.completion_out)
    <3>1. StagedOk(v.r, v.w.completion_out)  BY DEF Good
    <3> QED BY <3>1, <2>6 DEF StagedOk
  <2>8. AnsweredBut(taken, x.request)
    <3>1. Answered(v.r)  BY DEF Good
    <3>2. ASSUME NEW p \in Requests PROVE NoneWaits(taken, p) <=> NoneWaits(v.r, p)
      BY <2>6 DEF NoneWaits, Waits
    <3>3. \A p \in Requests, z \in Slots : OnlyWaits(taken, z, p) <=> OnlyWaits(v.r, z, p)
      BY <2>6 DEF OnlyWaits, Waits
    <3>4. Once(v.r, x.request)  BY <3>1, <2>3 DEF Answered
    <3>5. ASSUME NEW p \in Requests, p # x.request PROVE Once(taken, p)
      <4>1. Once(v.r, p)  BY <3>1 DEF Answered
      <4> QED BY <4>1, <3>2, <3>3, <3>5, <2>6 DEF Once
    <3> QED BY <2>3, <2>5, <2>6, <3>2, <3>4, <3>5 DEF Once, AnsweredBut
  <2>9. RoomToTake(taken)  BY <1>10, <2>6 DEF RoomToTake
  <2>10. routed = Route(taken, x, x.length)  BY <2>2
  <2> HIDE DEF routed
  <2>11. /\ routed \in Router /\ StagedOk(routed, v.w.completion_out) /\ Answered(routed)
         /\ routed.call = taken.call /\ routed.taken = taken.taken
         /\ LegsKept(taken, routed, v.w.request_out)
    <3> DEFINE out == v.w.completion_out
               outs == v.w.request_out
    <3>1. /\ taken \in Router /\ x \in IsolateCall /\ out \in Seq(ReplyCells)
          /\ outs \in [Legs -> Seq(RequestCells)] /\ StagedOk(taken, out)
      BY <1>1, <2>2, <2>6, <2>7
    <3> HIDE DEF out, outs
    <3>2. /\ routed \in Router /\ StagedOk(routed, out) /\ Answered(routed)
          /\ routed.call = taken.call /\ routed.taken = taken.taken
          /\ LegsKept(taken, routed, outs)
      BY ONLY RouterAssumption, PayloadsFit, <3>1, <2>8, <2>9, <2>10, Routed
    <3> QED BY <3>2 DEF out, outs
  <2> DEFINE n == [r |-> routed, w |-> w]
  <2>12. n.r = routed /\ n.w = w  OBVIOUS
  <2>13. n \in View  BY <1>6, <2>11 DEF View
  <2> HIDE DEF n
  <2>14. Coming(n, ts) = new  BY <1>6, <2>6, <2>11, <2>12 DEF Coming, new
  <2>15. CallsOk(n, mk, ts)
    <3>1. Short(n.r.call, CallFrame)  BY <2>6, <2>11, <2>12 DEF Short
    <3>2. Fresh(new, n.r.taken, mk)
      <4>1. ASSUME NEW i \in 1 .. Len(new)
            PROVE  new[i].of.request \notin n.r.taken /\ new[i].of.request <= mk
        <5>1. PICK m \in 1 .. Len(old) : new[i] = old[m]  BY <2>2
        <5>2. new[i].of.request \notin v.r.taken /\ new[i].of.request <= mk
          BY <5>1, <1>2 DEF Fresh
        <5>3. x.request < new[i].of.request  BY <2>2
        <5>4. x.request \in Nat  BY <2>2, <1>3
        <5>5. x.request # new[i].of.request  BY ONLY <5>3, <5>4
        <5> QED BY <5>2, <5>5, <2>6, <2>11, <2>12
      <4> QED BY <4>1 DEF Fresh
    <3>3. \A q \in n.r.taken : q <= mk  BY <1>2, <2>5, <2>6, <2>11, <2>12
    <3> QED BY <2>2, <2>14, <3>1, <3>2, <3>3 DEF CallsOk
  <2>16. ASSUME NEW l \in Legs PROVE ReplyOk(n, l, an) /\ LegOk(n.r, l, n.w.request_out[l])
    <3>1. ReplyOk(v, l, an) /\ LegOk(v.r, l, v.w.request_out[l])  BY DEF Good
    <3>2. LegOk(taken, l, v.w.request_out[l])  BY <3>1, <2>6 DEF LegOk
    <3>3. /\ routed.legs[l].reply = taken.legs[l].reply
          /\ LegOk(routed, l, v.w.request_out[l])
      BY <2>11, <3>2 DEF LegsKept
    <3> QED BY <3>1, <3>3, <1>6, <2>6, <2>12 DEF ReplyOk
  <2> QED BY <2>4, <2>11, <2>12, <2>13, <2>15, <2>16, <1>6, <1>7 DEF Good, n
<1> QED BY <1>8, <1>9, <1>10

\* The router takes part of an answer, or a whole one and completes its call.
LEMMA TakeReplyGood ==
    ASSUME RouterAssumption, PayloadsFit,
           NEW v, NEW mk \in Nat, NEW ts \in Seq(CallCells),
           NEW an \in [Legs -> Seq(ReplyCells)], Good(v, mk, ts, an), NEW l \in Legs
    PROVE  Good(TakeReply(v, l), mk, ts, an)
<1> DEFINE b == v.r.legs[l].reply
           s == v.w.reply_in[l]
           z == an[l]
           t == Taken(b, s, CompletionFrame)
           x == t.buffer[1].of
           c == Decode(t.buffer, CompletionFrame)
           w == [v.w EXCEPT !.reply_in[l] = t.stream]
           old == b \o s \o z
           part == [v.r EXCEPT !.legs[l].reply = t.buffer]
           empty == [v.r EXCEPT !.legs[l].reply = <<>>]
           answered == Correlate(empty, c, Len(t.buffer) - CompletionFrame)
<1>1. /\ v.r \in Router /\ v.w \in Wires /\ v.r.legs \in [Legs -> Leg]
      /\ v.w.reply_in \in [Legs -> Seq(ReplyCells)] /\ v.w.completion_out \in Seq(ReplyCells)
      /\ b \in Seq(ReplyCells) /\ s \in Seq(ReplyCells) /\ z \in Seq(ReplyCells)
  <2>1. /\ v.r \in Router /\ v.w \in Wires /\ v.r.legs \in [Legs -> Leg]
        /\ v.w.reply_in \in [Legs -> Seq(ReplyCells)] /\ v.w.completion_out \in Seq(ReplyCells)
    BY GoodParts
  <2> QED BY <2>1 DEF Leg
<1>2. Line(old) /\ Short(b, CompletionFrame)
  BY DEF Good, ReplyOk
<1>3. Bounded(Completion, CompletionFrame) /\ PayloadBytes \in Nat
      /\ \A y \in Completion : y.request \in Nat
  BY RecordsBounded, Sizes, RequestsAreNumbers
<1>4. /\ t.buffer \in Seq(ReplyCells) /\ t.stream \in Seq(ReplyCells) /\ Len(t.stream) <= Len(s)
      /\ ~Whole(t.buffer, CompletionFrame) => ReadPart(t, b, s, z, CompletionFrame)
      /\ Whole(t.buffer, CompletionFrame) => ReadWhole(t, b, s, z, CompletionFrame, Completion)
  <2> HIDE DEF t, b, s, z
  <2>1. /\ b \in Seq(CellsOf(Completion, CompletionFrame))
        /\ s \in Seq(CellsOf(Completion, CompletionFrame))
        /\ z \in Seq(CellsOf(Completion, CompletionFrame))
    BY <1>1 DEF ReplyCells
  <2>2. t = Taken(b, s, CompletionFrame)  BY DEF t
  <2> QED BY ONLY <1>2, <1>3, <2>1, <2>2, ReadOn DEF ReplyCells
<1>5. TakeReply(v, l) =
         IF ~RoomToAnswer(v.r) \/ l \notin Wired THEN v
         ELSE IF ~Whole(t.buffer, CompletionFrame) THEN [r |-> part, w |-> w]
         ELSE [r |-> IF c = NoRecord THEN empty ELSE answered, w |-> w]
  BY DEF TakeReply
<1> HIDE DEF t
<1>6. /\ w \in Wires /\ w.reply_in = [v.w.reply_in EXCEPT ![l] = t.stream]
      /\ w.completion_out = v.w.completion_out
      /\ w.request_out = v.w.request_out /\ w.call_in = v.w.call_in
  <2>1. [v.w.reply_in EXCEPT ![l] = t.stream] \in [Legs -> Seq(ReplyCells)]  BY <1>1, <1>4
  <2> QED BY <1>1, <2>1 DEF Wires
<1>7. Within(w)
  <2>1. Len(t.stream) \in Nat /\ Len(s) \in Nat /\ Capacity \in Nat
    <3> DEFINE u == t.stream
    <3>1. u \in Seq(ReplyCells) /\ s \in Seq(ReplyCells)  BY <1>1, <1>4
    <3> HIDE DEF u, s
    <3>2. Len(u) \in Nat /\ Len(s) \in Nat  BY ONLY <3>1
    <3> QED BY <3>2, Sizes DEF u
  <2>2. Within(v.w)  BY DEF Good
  <2> HIDE DEF w
  <2>3. Len(t.stream) <= Capacity  BY <1>4, <2>1, <2>2 DEF Within
  <2>4. \A k \in Legs : w.reply_in[k] = IF k = l THEN t.stream ELSE v.w.reply_in[k]
    BY <1>1, <1>6
  <2> QED BY <2>2, <2>3, <2>4, <1>6 DEF Within
<1> HIDE DEF w
\* A view of another leg buffer, with what the line keeps.
<1>8. ASSUME NEW buffer \in Seq(ReplyCells), NEW n, NEW e, n = [r |-> e, w |-> w],
             e \in Router, e.call = v.r.call, e.taken = v.r.taken,
             e.legs = [v.r.legs EXCEPT ![l].reply = buffer],
             StagedOk(e, v.w.completion_out), Answered(e),
             Line(buffer \o t.stream \o z), Short(buffer, CompletionFrame)
      PROVE  Good(n, mk, ts, an)
  <2>1. n.r = e /\ n.w = w  BY <1>8
  <2>2. n \in View  BY <1>6, <1>8 DEF View
  <2>3. CallsOk(n, mk, ts)
    <3>1. CallsOk(v, mk, ts)  BY DEF Good
    <3> QED BY <3>1, <2>1, <1>6, <1>8 DEF CallsOk, Coming
  <2>4. ASSUME NEW k \in Legs
        PROVE  /\ e.legs[k].reply = IF k = l THEN buffer ELSE v.r.legs[k].reply
               /\ e.legs[k].requests = v.r.legs[k].requests
               /\ e.legs[k].written = v.r.legs[k].written
    <3>1. e.legs[k] = IF k = l THEN [v.r.legs[l] EXCEPT !.reply = buffer] ELSE v.r.legs[k]
      BY <1>1, <1>8
    <3>2. v.r.legs[k] \in Leg  BY <1>1
    <3> QED BY <3>1, <3>2 DEF Leg
  <2>5. ASSUME NEW k \in Legs PROVE ReplyOk(n, k, an) /\ LegOk(n.r, k, n.w.request_out[k])
    <3>1. ReplyOk(v, k, an) /\ LegOk(v.r, k, v.w.request_out[k])  BY DEF Good
    <3>2. LegOk(n.r, k, n.w.request_out[k])  BY <3>1, <2>1, <2>4, <1>6 DEF LegOk
    <3>3. w.reply_in[k] = IF k = l THEN t.stream ELSE v.w.reply_in[k]  BY <1>1, <1>6
    <3>4. CASE k = l  BY <3>2, <3>3, <3>4, <2>1, <2>4, <1>8 DEF ReplyOk
    <3>5. CASE k # l  BY <3>1, <3>2, <3>3, <3>5, <2>1, <2>4 DEF ReplyOk
    <3> QED BY <3>4, <3>5
  <2> QED BY <2>1, <2>2, <2>3, <2>5, <1>6, <1>7, <1>8 DEF Good
<1>9. CASE ~RoomToAnswer(v.r) \/ l \notin Wired  BY <1>5, <1>9
<1>10. ASSUME NEW buffer \in Seq(ReplyCells), NEW e, e = [v.r EXCEPT !.legs[l].reply = buffer]
       PROVE  /\ e \in Router /\ e.call = v.r.call /\ e.taken = v.r.taken
              /\ e.legs = [v.r.legs EXCEPT ![l].reply = buffer]
              /\ e.completions = v.r.completions
              /\ StagedOk(e, v.w.completion_out) /\ Answered(e)
  <2> DEFINE legs == [v.r.legs EXCEPT ![l].reply = buffer]
  <2>1. legs \in [Legs -> Leg]
    <3>1. [v.r.legs[l] EXCEPT !.reply = buffer] \in Leg  BY <1>1 DEF Leg
    <3> QED BY <3>1, <1>1
  <2>2. e = [v.r EXCEPT !.legs = legs]  BY <1>1, <1>10 DEF Router
  <2> HIDE DEF legs
  <2>3. /\ e \in Router /\ e.call = v.r.call /\ e.taken = v.r.taken /\ e.legs = legs
        /\ e.completions = v.r.completions /\ e.written = v.r.written
        /\ e.table = v.r.table /\ e.told = v.r.told
    BY <1>1, <2>1, <2>2 DEF Router
  <2>4. StagedOk(v.r, v.w.completion_out) /\ Answered(v.r)  BY DEF Good
  <2>5. StagedOk(e, v.w.completion_out)  BY <2>3, <2>4 DEF StagedOk
  <2>6. Answered(e)  BY <2>3, <2>4 DEF Answered, Once, NoneWaits, OnlyWaits, Waits
  <2> QED BY <2>3, <2>5, <2>6 DEF legs
<1>11. CASE RoomToAnswer(v.r) /\ l \in Wired /\ ~Whole(t.buffer, CompletionFrame)
  <2>1. TakeReply(v, l) = [r |-> part, w |-> w]  BY <1>5, <1>11
  <2>2. ReadPart(t, b, s, z, CompletionFrame)  BY <1>4, <1>11
  <2>3. t.buffer \o t.stream \o z = old /\ Short(t.buffer, CompletionFrame)
    BY ONLY <2>2 DEF ReadPart
  <2> DEFINE buffer == t.buffer
  <2>4. buffer \in Seq(ReplyCells) /\ part = [v.r EXCEPT !.legs[l].reply = buffer]  BY <1>4
  <2>5. Line(buffer \o t.stream \o z) /\ Short(buffer, CompletionFrame)  BY <2>3, <1>2
  <2> HIDE DEF buffer, part, z
  <2>6. /\ part \in Router /\ part.call = v.r.call /\ part.taken = v.r.taken
        /\ part.legs = [v.r.legs EXCEPT ![l].reply = buffer]
        /\ StagedOk(part, v.w.completion_out) /\ Answered(part)
    BY <2>4, <1>10
  <2> QED BY <2>1, <2>4, <2>5, <2>6, <1>8
<1>12. CASE RoomToAnswer(v.r) /\ l \in Wired /\ Whole(t.buffer, CompletionFrame)
  <2> DEFINE e == IF c = NoRecord THEN empty ELSE answered
             buffer == <<>>
  <2>1. TakeReply(v, l) = [r |-> e, w |-> w]  BY <1>5, <1>12
  <2>2. ReadWhole(t, b, s, z, CompletionFrame, Completion)  BY <1>4, <1>12
  <2>3. /\ x \in Completion /\ c = x /\ Len(t.buffer) - CompletionFrame = x.length
        /\ Line(buffer \o t.stream \o z)
    BY ONLY <2>2 DEF ReadWhole
  <2>4. Short(buffer, CompletionFrame) /\ buffer \in Seq(ReplyCells)  BY EmptySeq DEF Short
  <2>5. empty = [v.r EXCEPT !.legs[l].reply = buffer]  OBVIOUS
  <2> HIDE DEF x, c, buffer, empty, z
  <2>6. /\ empty \in Router /\ empty.call = v.r.call /\ empty.taken = v.r.taken
        /\ empty.legs = [v.r.legs EXCEPT ![l].reply = buffer]
        /\ empty.completions = v.r.completions
        /\ StagedOk(empty, v.w.completion_out) /\ Answered(empty)
    BY <2>4, <2>5, <1>10
  <2>7. answered = Correlate(empty, x, x.length)  BY <2>3
  <2>8. RoomToAnswer(empty)  BY <1>12, <2>6 DEF RoomToAnswer
  <2> HIDE DEF answered
  <2>9. /\ answered \in Router /\ StagedOk(answered, v.w.completion_out) /\ Answered(answered)
        /\ answered.call = empty.call /\ answered.legs = empty.legs
        /\ answered.taken = empty.taken
    <3> DEFINE out == v.w.completion_out
    <3>1. /\ empty \in Router /\ out \in Seq(ReplyCells) /\ StagedOk(empty, out)
          /\ Answered(empty) /\ x \in Completion
      BY <1>1, <2>3, <2>6
    <3> HIDE DEF out
    <3>2. /\ answered \in Router /\ StagedOk(answered, out) /\ Answered(answered)
          /\ answered.call = empty.call /\ answered.legs = empty.legs
          /\ answered.taken = empty.taken
      BY ONLY RouterAssumption, PayloadsFit, <3>1, <2>7, <2>8, Correlated
    <3> QED BY <3>2 DEF out
  <2>10. /\ e \in Router /\ e.call = v.r.call /\ e.taken = v.r.taken
         /\ e.legs = [v.r.legs EXCEPT ![l].reply = buffer]
         /\ StagedOk(e, v.w.completion_out) /\ Answered(e)
    BY <2>6, <2>9
  <2> HIDE DEF e
  <2> QED BY <2>1, <2>3, <2>4, <2>10, <1>8
<1> QED BY <1>9, <1>11, <1>12

\* What is staged for a leg leaves for its stream, as far as there is room.
LEMMA PushRequestsGood ==
    ASSUME RouterAssumption, NEW v, NEW mk, NEW ts, NEW an, Good(v, mk, ts, an), NEW l \in Legs
    PROVE  Good(PushRequests(v, l), mk, ts, an)
<1> DEFINE a == v.r.legs[l].requests
           k == v.r.legs[l].written
           out == v.w.request_out[l]
           p == Pushed(a, k, out)
           legs == [v.r.legs EXCEPT ![l].requests = p.staged, ![l].written = p.written]
           outs == [v.w.request_out EXCEPT ![l] = p.stream]
           e == [v.r EXCEPT !.legs = legs]
           w == [v.w EXCEPT !.request_out = outs]
           n == [r |-> e, w |-> w]
<1>1. /\ v.r \in Router /\ v.w \in Wires /\ v.r.legs \in [Legs -> Leg]
      /\ v.w.request_out \in [Legs -> Seq(RequestCells)]
  BY GoodParts
<1>2. /\ a \in Seq(RequestCells) /\ k \in Nat /\ out \in Seq(RequestCells)
      /\ k <= Len(a) /\ Len(out) <= Capacity /\ Len(a) <= LegBuffer
      /\ Tailing(out \o Unwritten(a, k))
  <2>1. LegOk(v.r, l, out) /\ Within(v.w)  BY DEF Good
  <2>2. v.r.legs[l] \in Leg  BY <1>1
  <2> QED BY <1>1, <2>1, <2>2 DEF LegOk, Within, Leg
<1>3. /\ p.staged \in Seq(RequestCells) /\ p.written \in Nat /\ p.stream \in Seq(RequestCells)
      /\ p.written <= Len(p.staged) /\ Len(p.staged) <= Len(a)
      /\ Len(p.stream) <= Capacity
      /\ p.stream \o Unwritten(p.staged, p.written) = out \o Unwritten(a, k)
  <2>1. Capacity \in Nat  BY Sizes
  <2> HIDE DEF a, k, out, p
  <2>2. p = Pushed(a, k, out)  BY DEF p
  <2>3. /\ a \in Seq(RequestCells) /\ k \in Nat /\ out \in Seq(RequestCells)
        /\ k <= Len(a) /\ Len(out) <= Capacity
    BY <1>2
  <2>4. PushedOk(p, RequestCells, a, k, out)  BY ONLY <2>1, <2>2, <2>3, PushedMoves
  <2> QED BY ONLY <2>4 DEF PushedOk
<1>4. PushRequests(v, l) = IF l \notin Wired THEN v ELSE n
  BY <1>1 DEF PushRequests, Router, Wires
<1> HIDE DEF p
<1>5. ASSUME NEW m \in Legs
      PROVE  /\ legs[m] \in Leg /\ legs[m].reply = v.r.legs[m].reply
             /\ legs[m].requests = IF m = l THEN p.staged ELSE v.r.legs[m].requests
             /\ legs[m].written = IF m = l THEN p.written ELSE v.r.legs[m].written
             /\ outs[m] = IF m = l THEN p.stream ELSE v.w.request_out[m]
  <2>1. v.r.legs[m] \in Leg  BY <1>1
  <2>2. legs[m] = IF m = l THEN [v.r.legs[l] EXCEPT !.requests = p.staged, !.written = p.written]
                  ELSE v.r.legs[m]
    BY <1>1
  <2>3. outs[m] = IF m = l THEN p.stream ELSE v.w.request_out[m]  BY <1>1
  <2> HIDE DEF legs, outs
  <2> QED BY <1>3, <2>1, <2>2, <2>3 DEF Leg
<1>6. legs \in [Legs -> Leg] /\ outs \in [Legs -> Seq(RequestCells)]
  <2>1. legs = [m \in Legs |-> legs[m]]  BY <1>1
  <2>2. outs \in [Legs -> Seq(RequestCells)]  BY <1>1, <1>3
  <2> HIDE DEF legs, outs
  <2>3. legs \in [Legs -> Leg]  BY <1>5, <2>1
  <2> QED BY <2>2, <2>3
<1> HIDE DEF legs, outs
<1>7. /\ e \in Router /\ e.call = v.r.call /\ e.taken = v.r.taken /\ e.legs = legs
      /\ e.completions = v.r.completions /\ e.written = v.r.written
      /\ e.table = v.r.table /\ e.told = v.r.told
  BY <1>1, <1>6 DEF Router
<1>8. /\ w \in Wires /\ w.request_out = outs /\ w.call_in = v.w.call_in
      /\ w.completion_out = v.w.completion_out /\ w.reply_in = v.w.reply_in
  BY <1>1, <1>6 DEF Wires
<1>9. n.r = e /\ n.w = w  OBVIOUS
<1>10. n \in View  BY <1>7, <1>8 DEF View
<1> HIDE DEF e, w, n
<1>11. Within(w)
  <2>1. Within(v.w)  BY DEF Good
  <2> QED BY <2>1, <1>3, <1>5, <1>8 DEF Within
<1>12. CallsOk(n, mk, ts)
  <2>1. CallsOk(v, mk, ts)  BY DEF Good
  <2> QED BY <2>1, <1>7, <1>8, <1>9 DEF CallsOk, Coming
<1>13. ASSUME NEW m \in Legs PROVE ReplyOk(n, m, an) /\ LegOk(n.r, m, n.w.request_out[m])
  <2>1. ReplyOk(v, m, an) /\ LegOk(v.r, m, v.w.request_out[m])  BY DEF Good
  <2>2. ReplyOk(n, m, an)  BY <2>1, <1>5, <1>7, <1>8, <1>9 DEF ReplyOk
  <2>3. CASE m # l  BY <2>1, <2>2, <2>3, <1>5, <1>7, <1>8, <1>9 DEF LegOk
  <2>4. CASE m = l
    <3>1. Len(p.staged) \in Nat /\ Len(a) \in Nat /\ LegBuffer \in Nat
      <4> DEFINE u == p.staged
      <4>1. u \in Seq(RequestCells) /\ a \in Seq(RequestCells)  BY <1>2, <1>3
      <4> HIDE DEF u, a
      <4>2. Len(u) \in Nat /\ Len(a) \in Nat  BY ONLY <4>1
      <4> QED BY <4>2, Sizes DEF u
    <3> HIDE DEF a, k, out
    <3>2. Len(p.staged) <= LegBuffer  BY <1>2, <1>3, <3>1
    <3>3. Tailing(p.stream \o Unwritten(p.staged, p.written))  BY <1>2, <1>3
    <3>4. /\ n.r.legs[m].requests = p.staged /\ n.r.legs[m].written = p.written
          /\ n.w.request_out[m] = p.stream
      BY <2>4, <1>5, <1>7, <1>8, <1>9
    <3>5. LegOk(n.r, m, n.w.request_out[m])  BY <1>3, <3>2, <3>3, <3>4 DEF LegOk
    <3> QED BY <2>2, <3>5
  <2> QED BY <2>3, <2>4
<1>14. StagedOk(n.r, n.w.completion_out)
  <2>1. StagedOk(v.r, v.w.completion_out)  BY DEF Good
  <2> QED BY <2>1, <1>7, <1>8, <1>9 DEF StagedOk
<1>15. Answered(n.r)
  <2>1. Answered(v.r)  BY DEF Good
  <2> QED BY <2>1, <1>7, <1>9 DEF Answered, Once, NoneWaits, OnlyWaits, Waits
<1>16. Good(n, mk, ts, an)
  BY <1>9, <1>10, <1>11, <1>12, <1>13, <1>14, <1>15 DEF Good
<1> QED BY <1>4, <1>16

\* What is staged for the isolate leaves for its stream.
LEMMA PushCompletionsGood ==
    ASSUME RouterAssumption, NEW v, NEW mk, NEW ts, NEW an, Good(v, mk, ts, an)
    PROVE  Good(PushCompletions(v), mk, ts, an)
<1> DEFINE a == v.r.completions
           k == v.r.written
           out == v.w.completion_out
           p == Pushed(a, k, out)
           e == [v.r EXCEPT !.completions = p.staged, !.written = p.written]
           w == [v.w EXCEPT !.completion_out = p.stream]
           n == [r |-> e, w |-> w]
<1>1. v.r \in Router /\ v.w \in Wires  BY GoodParts
<1>2. /\ a \in Seq(ReplyCells) /\ k \in Nat /\ out \in Seq(ReplyCells)
      /\ k <= Len(a) /\ Len(out) <= Capacity /\ Len(a) <= CompletionBuffer
      /\ Tailing(out \o Unwritten(a, k))
  <2>1. StagedOk(v.r, out) /\ Within(v.w)  BY DEF Good
  <2> QED BY <1>1, <2>1 DEF StagedOk, Within, Router, Wires
<1>3. /\ p.staged \in Seq(ReplyCells) /\ p.written \in Nat /\ p.stream \in Seq(ReplyCells)
      /\ p.written <= Len(p.staged) /\ Len(p.staged) <= Len(a)
      /\ Len(p.stream) <= Capacity
      /\ p.stream \o Unwritten(p.staged, p.written) = out \o Unwritten(a, k)
  <2>1. Capacity \in Nat  BY Sizes
  <2> HIDE DEF a, k, out, p
  <2>2. p = Pushed(a, k, out)  BY DEF p
  <2>3. /\ a \in Seq(ReplyCells) /\ k \in Nat /\ out \in Seq(ReplyCells)
        /\ k <= Len(a) /\ Len(out) <= Capacity
    BY <1>2
  <2>4. PushedOk(p, ReplyCells, a, k, out)  BY ONLY <2>1, <2>2, <2>3, PushedMoves
  <2> QED BY ONLY <2>4 DEF PushedOk
<1>4. PushCompletions(v) = n  BY DEF PushCompletions
<1> HIDE DEF p
<1>5. /\ e \in Router /\ e.call = v.r.call /\ e.taken = v.r.taken /\ e.legs = v.r.legs
      /\ e.completions = p.staged /\ e.written = p.written
      /\ e.table = v.r.table /\ e.told = v.r.told
  BY <1>1, <1>3 DEF Router
<1>6. /\ w \in Wires /\ w.request_out = v.w.request_out /\ w.call_in = v.w.call_in
      /\ w.completion_out = p.stream /\ w.reply_in = v.w.reply_in
  BY <1>1, <1>3 DEF Wires
<1>7. n.r = e /\ n.w = w  OBVIOUS
<1>8. n \in View  BY <1>5, <1>6 DEF View
<1> HIDE DEF e, w, n
<1>9. Within(w)
  <2>1. Within(v.w)  BY DEF Good
  <2> QED BY <2>1, <1>3, <1>6 DEF Within
<1>10. CallsOk(n, mk, ts)
  <2>1. CallsOk(v, mk, ts)  BY DEF Good
  <2> QED BY <2>1, <1>5, <1>6, <1>7 DEF CallsOk, Coming
<1>11. ASSUME NEW m \in Legs PROVE ReplyOk(n, m, an) /\ LegOk(n.r, m, n.w.request_out[m])
  <2>1. ReplyOk(v, m, an) /\ LegOk(v.r, m, v.w.request_out[m])  BY DEF Good
  <2> QED BY <2>1, <1>5, <1>6, <1>7 DEF ReplyOk, LegOk
<1>12. StagedOk(n.r, n.w.completion_out)
  <2>1. Len(p.staged) \in Nat /\ Len(a) \in Nat /\ CompletionBuffer \in Nat
    <3> DEFINE u == p.staged
    <3>1. u \in Seq(ReplyCells) /\ a \in Seq(ReplyCells)  BY <1>2, <1>3
    <3> HIDE DEF u, a
    <3>2. Len(u) \in Nat /\ Len(a) \in Nat  BY ONLY <3>1
    <3> QED BY <3>2, Sizes DEF u
  <2> HIDE DEF a, k, out
  <2>2. Len(p.staged) <= CompletionBuffer  BY <1>2, <1>3, <2>1
  <2>3. Tailing(p.stream \o Unwritten(p.staged, p.written))  BY <1>2, <1>3
  <2> QED BY <2>2, <2>3, <1>3, <1>5, <1>6, <1>7 DEF StagedOk
<1>13. Answered(n.r)
  <2>1. Answered(v.r)  BY DEF Good
  <2> QED BY <2>1, <1>5, <1>7 DEF Answered, Once, NoneWaits, OnlyWaits, Waits
<1>14. Good(n, mk, ts, an)
  BY <1>7, <1>8, <1>9, <1>10, <1>11, <1>12, <1>13 DEF Good
<1> QED BY <1>4, <1>14

\* A step of the router keeps a good view.
LEMMA SteppedGood ==
    ASSUME RouterAssumption, PayloadsFit, Around, Good(Now, made, to_send, answering)
    PROVE  Good(Stepped, made, to_send, answering)
<1> DEFINE a == TakeCall(Now)
           b == TakeReply(a, 0)
           c == PushRequests(b, 0)
           d == TakeReply(c, 1)
           e == PushRequests(d, 1)
           f == PushCompletions(e)
           n == [f EXCEPT !.r.finished = Finished(f)]
           G(v) == Good(v, made, to_send, answering)
<1>1. /\ made \in Nat /\ to_send \in Seq(CallCells) /\ answering \in [Legs -> Seq(ReplyCells)]
      /\ 0 \in Legs /\ 1 \in Legs
  BY Sizes DEF Around, Legs
<1>2. Stepped = n  BY DEF Stepped, Now
<1> HIDE DEF n
<1>3. G(a)  BY <1>1, TakeCallGood
<1> HIDE DEF a
<1>4. G(b)  BY <1>1, <1>3, TakeReplyGood
<1> HIDE DEF b
<1>5. G(c)  BY <1>1, <1>4, PushRequestsGood
<1> HIDE DEF c
<1>6. G(d)  BY <1>1, <1>5, TakeReplyGood
<1> HIDE DEF d
<1>7. G(e)  BY <1>1, <1>6, PushRequestsGood
<1> HIDE DEF e
<1>8. G(f)  BY <1>7, PushCompletionsGood
<1> HIDE DEF f
<1>9. f.r \in Router /\ f.w \in Wires /\ f = [r |-> f.r, w |-> f.w]  BY <1>8, GoodParts
<1> DEFINE z == Finished(f)
<1>10. z \in BOOLEAN  BY DEF Finished
<1>11. n = [f EXCEPT !.r.finished = z]  BY DEF n
<1> HIDE DEF z
<1>12. n.r = [f.r EXCEPT !.finished = z] /\ n.w = f.w /\ n = [r |-> n.r, w |-> n.w]
  BY <1>9, <1>11
<1>13. /\ n.r \in Router /\ n.r.call = f.r.call /\ n.r.taken = f.r.taken
       /\ n.r.legs = f.r.legs /\ n.r.completions = f.r.completions
       /\ n.r.written = f.r.written /\ n.r.table = f.r.table /\ n.r.told = f.r.told
  BY <1>9, <1>10, <1>12 DEF Router
<1>14. n \in View
  <2> DEFINE r == n.r
             w == n.w
  <2>1. r \in Router /\ w \in Wires /\ n = [r |-> r, w |-> w]  BY <1>9, <1>12, <1>13
  <2> HIDE DEF r, w
  <2> QED BY <2>1 DEF View
<1>15. CallsOk(n, made, to_send)
  BY <1>8, <1>12, <1>13 DEF Good, CallsOk, Coming
<1>16. ASSUME NEW l \in Legs PROVE ReplyOk(n, l, answering) /\ LegOk(n.r, l, n.w.request_out[l])
  <2>1. ReplyOk(f, l, answering) /\ LegOk(f.r, l, f.w.request_out[l])  BY <1>8 DEF Good
  <2> QED BY <2>1, <1>12, <1>13 DEF ReplyOk, LegOk
<1>17. StagedOk(n.r, n.w.completion_out)
  <2>1. StagedOk(f.r, f.w.completion_out)  BY <1>8 DEF Good
  <2> QED BY <2>1, <1>12, <1>13 DEF StagedOk
<1>18. Answered(n.r)
  <2>1. Answered(f.r)  BY <1>8 DEF Good
  <2> QED BY <2>1, <1>13 DEF Answered, Once, NoneWaits, OnlyWaits, Waits
<1>19. Within(n.w)  BY <1>8, <1>12 DEF Good
<1> QED BY <1>2, <1>14, <1>15, <1>16, <1>17, <1>18, <1>19 DEF Good

-----------------------------------------------------------------------------
(* The modules around the router.                                          *)

Associates(x, y, z) == x \o y \o z = x \o (y \o z)

LEMMA Associative ==
    ASSUME NEW C, NEW x \in Seq(C), NEW y \in Seq(C), NEW z \in Seq(C)
    PROVE  Associates(x, y, z)
BY ConcatAssociative DEF Associates

\* Cells that a writer moves from what it staged to its stream.
ShiftedOk(C, p, a, b, n) ==
    /\ a \o SubSeq(b, 1, n) \in Seq(C) /\ SubSeq(b, n + 1, Len(b)) \in Seq(C)
    /\ Len(a \o SubSeq(b, 1, n)) = Len(a) + n
    /\ p \o (a \o SubSeq(b, 1, n)) \o SubSeq(b, n + 1, Len(b)) = p \o a \o b

LEMMA Shifted ==
    ASSUME NEW C, NEW p \in Seq(C), NEW a \in Seq(C), NEW b \in Seq(C), NEW n \in 0 .. Len(b)
    PROVE  ShiftedOk(C, p, a, b, n)
<1> DEFINE u == a \o SubSeq(b, 1, n)
           w == SubSeq(b, n + 1, Len(b))
<1>1. Moves(C, a, b, <<>>, n)
  <2>1. <<>> \in Seq(C)  BY EmptySeq
  <2> QED BY <2>1, Moved
<1>2. u \in Seq(C) /\ w \in Seq(C) /\ Len(u) = Len(a) + n /\ u \o w = a \o b
  BY ONLY <1>1 DEF Moves
<1> HIDE DEF u, w
<1>3. u \in Seq(C) /\ w \in Seq(C)  BY <1>2
<1>4. Associates(p, u, w) /\ Associates(p, a, b)  BY <1>3, Associative
<1>5. p \o u \o w = p \o a \o b  BY ONLY <1>2, <1>4 DEF Associates
<1> QED BY <1>2, <1>5 DEF ShiftedOk, u, w

\* What has room on a stream is within its capacity.
LEMMA Fits ==
    ASSUME NEW C, NEW a \in Seq(C), NEW b \in Seq(C), Capacity \in Nat, Len(a) <= Capacity,
           NEW n \in 1 .. Least(Len(b), Capacity - Len(a))
    PROVE  n \in 0 .. Len(b) /\ Len(a) + n <= Capacity
BY DEF Least

\* What the modules around the router change of a good view.
LEMMA Rewired ==
    ASSUME NEW v, NEW mk, NEW ts, NEW an, Good(v, mk, ts, an),
           NEW mk2, NEW ts2, NEW an2, NEW w \in Wires, NEW n, n = [r |-> v.r, w |-> w],
           Within(w), CallsOk(n, mk2, ts2), \A l \in Legs : ReplyOk(n, l, an2),
           \A l \in Legs : \/ w.request_out[l] = v.w.request_out[l]
                           \/ LegOk(v.r, l, w.request_out[l]),
           w.completion_out = v.w.completion_out \/ StagedOk(v.r, w.completion_out)
    PROVE  Good(n, mk2, ts2, an2)
<1>1. n.r = v.r /\ n.w = w  OBVIOUS
<1>2. v.r \in Router  BY GoodParts
<1>3. n \in View  BY <1>2 DEF View
<1>4. \A l \in Legs : LegOk(v.r, l, v.w.request_out[l])  BY DEF Good
<1>5. StagedOk(v.r, v.w.completion_out) /\ Answered(v.r)  BY DEF Good
<1>6. \A l \in Legs : LegOk(n.r, l, n.w.request_out[l])  BY <1>1, <1>4
<1>7. StagedOk(n.r, n.w.completion_out) /\ Answered(n.r)  BY <1>1, <1>5
<1> QED BY <1>1, <1>3, <1>6, <1>7 DEF Good

LEMMA CallStaged ==
    ASSUME RouterAssumption, PayloadsFit,
           NEW v, NEW mk \in Nat, NEW ts \in Seq(CallCells), NEW an, Good(v, mk, ts, an),
           NEW x \in IsolateCall, x.request = mk + 1
    PROVE  /\ ts \o Cells(x, CallFrame) \in Seq(CallCells)
           /\ Good(v, mk + 1, ts \o Cells(x, CallFrame), an)
<1> DEFINE X == Cells(x, CallFrame)
           b == v.r.call
           s == v.w.call_in
           h == b \o s
           old == Coming(v, ts)
           new == Coming(v, ts \o X)
<1>1. Bounded(IsolateCall, CallFrame)  BY RecordsBounded
<1>2. /\ X \in Seq(CallCells) /\ Line(X) /\ Len(X) = CallFrame + x.length
      /\ \A n \in 1 .. CallFrame + x.length : X[n] = [of |-> x, frame |-> CallFrame, at |-> n]
  BY <1>1, CellsLine DEF CallCells
<1> HIDE DEF X
<1>3. b \in Seq(CallCells) /\ s \in Seq(CallCells) /\ v.r.taken \in SUBSET Requests  BY GoodParts
<1>4. CallsOk(v, mk, ts)  BY DEF Good
<1>5. h \in Seq(CallCells)
  <2> HIDE DEF b, s
  <2> QED BY <1>3, Joined
<1>6. new = old \o X /\ old \in Seq(CallCells)
  <2>1. old = h \o ts /\ new = h \o (ts \o X)  BY DEF Coming
  <2> HIDE DEF h, old, new
  <2>2. X \in Seq(CallCells)  BY <1>2
  <2>3. Associates(h, ts, X)  BY <2>2, <1>5, Associative
  <2>4. h \o ts \in Seq(CallCells)  BY <1>5, Joined
  <2> QED BY ONLY <2>1, <2>3, <2>4 DEF Associates
<1>7. /\ Line(old) /\ Short(b, CallFrame) /\ Ascending(old) /\ Fresh(old, v.r.taken, mk)
      /\ \A q \in v.r.taken : q <= mk
  BY <1>4 DEF CallsOk
<1> HIDE DEF old, new
<1>8. Line(new)
  <2>1. \A c \in CallCells : c.at \in Nat /\ c.frame \in Nat /\ c.of.length \in Nat
    BY <1>1, CellFacts DEF CallCells
  <2> QED BY <1>2, <1>6, <1>7, <2>1, LineAppended
<1>9. /\ Len(new) = Len(old) + Len(X) /\ Len(old) \in Nat /\ Len(X) \in Nat
      /\ \A i \in 1 .. Len(old) : new[i] = old[i]
      /\ \A i \in 1 .. Len(X) : new[Len(old) + i] = X[i]
  <2>1. X \in Seq(CallCells) /\ old \in Seq(CallCells) /\ new = old \o X  BY <1>2, <1>6
  <2> QED BY ONLY <2>1, Joined
<1>10. \A i \in 1 .. Len(X) : X[i].of = x /\ X[i].at = i
  <2>1. ASSUME NEW i \in 1 .. Len(X) PROVE X[i].of = x /\ X[i].at = i
    <3>1. X[i] = [of |-> x, frame |-> CallFrame, at |-> i]  BY <1>2
    <3> QED BY ONLY <3>1
  <2> QED BY <2>1
<1>11. \A i \in 1 .. Len(old) : old[i].of.request \in Nat /\ old[i].of.request <= mk
  <2>1. ASSUME NEW i \in 1 .. Len(old) PROVE old[i].of.request \in Nat
    <3>1. old[i] \in CallCells  BY <1>6, ElementOfSeq
    <3> QED BY <3>1, RequestsAreNumbers DEF CallCells, CellsOf
  <2> QED BY <2>1, <1>7 DEF Fresh
<1>12. ASSUME NEW i \in 1 .. Len(new)
       PROVE  \/ i \in 1 .. Len(old) /\ new[i] = old[i]
              \/ i - Len(old) \in 1 .. Len(X) /\ new[i].of = x /\ new[i].at = i - Len(old)
  <2>1. CASE i <= Len(old)  BY ONLY <1>9, <1>12, <2>1
  <2>2. CASE i > Len(old)
    <3> DEFINE j == i - Len(old)
    <3>1. j \in 1 .. Len(X) /\ i = Len(old) + j  BY ONLY <1>9, <1>12, <2>2
    <3> HIDE DEF j
    <3>2. new[i].of = x /\ new[i].at = j  BY ONLY <3>1, <1>9, <1>10
    <3> QED BY <3>1, <3>2 DEF j
  <2> QED BY ONLY <2>1, <2>2, <1>9, <1>12
<1>13. Ascending(new)
  <2>1. ASSUME NEW i \in 1 .. Len(new), NEW j \in 1 .. Len(new), i < j
        PROVE  /\ new[i].of.request <= new[j].of.request
               /\ new[j].at = 1 => new[i].of.request < new[j].of.request
    <3>1. CASE j \in 1 .. Len(old) /\ new[j] = old[j]
      <4>1. i \in 1 .. Len(old) /\ new[i] = old[i]  BY ONLY <1>9, <2>1, <3>1
      <4> QED BY ONLY <2>1, <3>1, <4>1, <1>7 DEF Ascending
    <3>2. CASE j - Len(old) \in 1 .. Len(X) /\ new[j].of = x /\ new[j].at = j - Len(old)
      <4>1. CASE i \in 1 .. Len(old) /\ new[i] = old[i]
        <5>1. new[i].of.request \in Nat /\ new[i].of.request <= mk  BY ONLY <4>1, <1>11
        <5>2. new[j].of.request = mk + 1  BY <3>2
        <5> QED BY ONLY <5>1, <5>2, mk \in Nat
      <4>2. CASE i - Len(old) \in 1 .. Len(X) /\ new[i].of = x /\ new[i].at = i - Len(old)
        <5>1. new[j].at # 1  BY ONLY <2>1, <3>2, <4>2, <1>9
        <5>2. new[i].of.request = mk + 1 /\ new[j].of.request = mk + 1  BY <3>2, <4>2
        <5> QED BY ONLY <5>1, <5>2, mk \in Nat
      <4> QED BY <4>1, <4>2, <1>12
    <3> QED BY <3>1, <3>2, <1>12
  <2> QED BY <2>1 DEF Ascending
<1>14. Fresh(new, v.r.taken, mk + 1)
  <2>1. ASSUME NEW i \in 1 .. Len(new)
        PROVE  new[i].of.request \notin v.r.taken /\ new[i].of.request <= mk + 1
    <3>1. CASE i \in 1 .. Len(old) /\ new[i] = old[i]
      <4>1. old[i].of.request \notin v.r.taken  BY <3>1, <1>7 DEF Fresh
      <4>2. old[i].of.request \in Nat /\ old[i].of.request <= mk  BY <3>1, <1>11
      <4>3. old[i].of.request <= mk + 1  BY ONLY <4>2, mk \in Nat
      <4> QED BY <3>1, <4>1, <4>3
    <3>2. CASE new[i].of = x
      <4>1. mk + 1 \notin v.r.taken
        <5>1. ~(mk + 1 <= mk)  BY ONLY mk \in Nat
        <5> QED BY <5>1, <1>7
      <4>2. mk + 1 <= mk + 1  BY ONLY mk \in Nat
      <4> QED BY <3>2, <4>1, <4>2
    <3> QED BY <3>1, <3>2, <1>12
  <2> QED BY <2>1 DEF Fresh
<1>15. \A q \in v.r.taken : q <= mk + 1
  <2>1. ASSUME NEW q \in v.r.taken PROVE q <= mk + 1
    <3>1. q \in Nat /\ q <= mk  BY <1>3, <1>7, Sizes
    <3> QED BY ONLY <3>1, mk \in Nat
  <2> QED BY <2>1
<1>16. CallsOk(v, mk + 1, ts \o X)
  BY <1>7, <1>8, <1>13, <1>14, <1>15 DEF CallsOk, new
<1>17. ts \o X \in Seq(CallCells)
  <2>1. X \in Seq(CallCells)  BY <1>2
  <2> QED BY <2>1, Joined
<1> QED BY <1>16, <1>17 DEF Good, X

LEMMA CallWritten ==
    ASSUME RouterAssumption,
           NEW v, NEW mk, NEW ts \in Seq(CallCells), NEW an, Good(v, mk, ts, an),
           NEW n \in 1 .. Least(Len(ts), Capacity - Len(v.w.call_in))
    PROVE  /\ SubSeq(ts, n + 1, Len(ts)) \in Seq(CallCells)
           /\ Good([r |-> v.r, w |-> [v.w EXCEPT !.call_in = @ \o SubSeq(ts, 1, n)]], mk,
                   SubSeq(ts, n + 1, Len(ts)), an)
<1> DEFINE b == v.r.call
           s == v.w.call_in
           u == s \o SubSeq(ts, 1, n)
           rest == SubSeq(ts, n + 1, Len(ts))
           w == [v.w EXCEPT !.call_in = u]
           e == [r |-> v.r, w |-> w]
<1>1. /\ v.w \in Wires /\ b \in Seq(CallCells) /\ s \in Seq(CallCells)
  BY GoodParts
<1>2. Capacity \in Nat /\ Len(s) <= Capacity  BY Sizes DEF Good, Within
<1>3. n \in 0 .. Len(ts) /\ Len(s) + n <= Capacity
  <2>1. n \in 1 .. Least(Len(ts), Capacity - Len(s)) /\ s \in Seq(CallCells)  BY <1>1
  <2> HIDE DEF s
  <2> QED BY ONLY <1>2, <2>1, ts \in Seq(CallCells), Fits
<1>4. u \in Seq(CallCells) /\ rest \in Seq(CallCells) /\ Len(u) = Len(s) + n
      /\ b \o u \o rest = b \o s \o ts
  <2> HIDE DEF b, s
  <2>1. ShiftedOk(CallCells, b, s, ts, n)  BY <1>1, <1>3, Shifted
  <2> QED BY ONLY <2>1 DEF ShiftedOk
<1>5. [r |-> v.r, w |-> [v.w EXCEPT !.call_in = @ \o SubSeq(ts, 1, n)]] = e  OBVIOUS
<1> HIDE DEF u, rest
<1>6. /\ w \in Wires /\ w.call_in = u /\ w.request_out = v.w.request_out
      /\ w.reply_in = v.w.reply_in /\ w.completion_out = v.w.completion_out
  BY <1>1, <1>4 DEF Wires
<1> HIDE DEF w
<1>7. Within(w)
  <2>1. Within(v.w)  BY DEF Good
  <2> QED BY <2>1, <1>3, <1>4, <1>6 DEF Within
<1>8. e.r = v.r /\ e.w = w  OBVIOUS
<1> HIDE DEF e
<1>9. CallsOk(e, mk, rest)
  <2>1. CallsOk(v, mk, ts)  BY DEF Good
  <2>2. Coming(e, rest) = Coming(v, ts)  BY <1>4, <1>6, <1>8 DEF Coming
  <2> QED BY <2>1, <2>2, <1>8 DEF CallsOk
<1>10. \A l \in Legs : ReplyOk(e, l, an)
  <2>1. \A l \in Legs : ReplyOk(v, l, an)  BY DEF Good
  <2> QED BY <2>1, <1>6, <1>8 DEF ReplyOk
<1>11. e = [r |-> v.r, w |-> w]  BY DEF e
<1>12. Good(e, mk, rest, an)  BY <1>6, <1>7, <1>9, <1>10, <1>11, Rewired
<1> QED BY <1>4, <1>5, <1>12 DEF rest

LEMMA ReplyWritten ==
    ASSUME RouterAssumption,
           NEW v, NEW mk, NEW ts, NEW an \in [Legs -> Seq(ReplyCells)], Good(v, mk, ts, an),
           NEW l \in Legs, NEW n \in 1 .. Least(Len(an[l]), Capacity - Len(v.w.reply_in[l]))
    PROVE  /\ [an EXCEPT ![l] = SubSeq(@, n + 1, Len(@))] \in [Legs -> Seq(ReplyCells)]
           /\ Good([r |-> v.r, w |-> [v.w EXCEPT !.reply_in[l] = @ \o SubSeq(an[l], 1, n)]],
                   mk, ts, [an EXCEPT ![l] = SubSeq(@, n + 1, Len(@))])
<1> DEFINE b == v.r.legs[l].reply
           s == v.w.reply_in[l]
           z == an[l]
           u == s \o SubSeq(z, 1, n)
           rest == SubSeq(z, n + 1, Len(z))
           an2 == [an EXCEPT ![l] = rest]
           w == [v.w EXCEPT !.reply_in[l] = u]
           e == [r |-> v.r, w |-> w]
<1>1. /\ v.w \in Wires /\ b \in Seq(ReplyCells) /\ s \in Seq(ReplyCells)
      /\ v.w.reply_in \in [Legs -> Seq(ReplyCells)]
      /\ z \in Seq(ReplyCells)
  <2>1. /\ v.w \in Wires /\ v.r.legs \in [Legs -> Leg]
        /\ v.w.reply_in \in [Legs -> Seq(ReplyCells)]
    BY GoodParts
  <2> QED BY <2>1 DEF Leg
<1>2. Capacity \in Nat /\ Len(s) <= Capacity  BY Sizes DEF Good, Within
<1>3. n \in 0 .. Len(z) /\ Len(s) + n <= Capacity
  <2>1. n \in 1 .. Least(Len(z), Capacity - Len(s))  OBVIOUS
  <2> HIDE DEF s, z
  <2> QED BY <1>1, <1>2, <2>1, Fits
<1>4. u \in Seq(ReplyCells) /\ rest \in Seq(ReplyCells) /\ Len(u) = Len(s) + n
      /\ b \o u \o rest = b \o s \o z
  <2> HIDE DEF b, s, z
  <2>1. ShiftedOk(ReplyCells, b, s, z, n)  BY <1>1, <1>3, Shifted
  <2> QED BY ONLY <2>1 DEF ShiftedOk
<1>5. /\ [r |-> v.r, w |-> [v.w EXCEPT !.reply_in[l] = @ \o SubSeq(an[l], 1, n)]] = e
      /\ [an EXCEPT ![l] = SubSeq(@, n + 1, Len(@))] = an2
  OBVIOUS
<1> HIDE DEF u, rest
<1>6. an2 \in [Legs -> Seq(ReplyCells)] /\ \A m \in Legs : an2[m] = IF m = l THEN rest ELSE an[m]
  BY <1>4
<1> HIDE DEF an2
<1>7. /\ w \in Wires /\ w.reply_in = [v.w.reply_in EXCEPT ![l] = u]
      /\ w.request_out = v.w.request_out /\ w.call_in = v.w.call_in
      /\ w.completion_out = v.w.completion_out
  <2>1. [v.w.reply_in EXCEPT ![l] = u] \in [Legs -> Seq(ReplyCells)]  BY <1>1, <1>4
  <2> QED BY <1>1, <2>1 DEF Wires
<1> HIDE DEF w
<1>8. \A m \in Legs : w.reply_in[m] = IF m = l THEN u ELSE v.w.reply_in[m]  BY <1>1, <1>7
<1>9. Within(w)
  <2>1. Within(v.w)  BY DEF Good
  <2> QED BY <2>1, <1>3, <1>4, <1>7, <1>8 DEF Within
<1>10. e.r = v.r /\ e.w = w /\ e = [r |-> v.r, w |-> w]  OBVIOUS
<1> HIDE DEF e
<1>11. CallsOk(e, mk, ts)
  <2>1. CallsOk(v, mk, ts)  BY DEF Good
  <2> QED BY <2>1, <1>7, <1>10 DEF CallsOk, Coming
<1>12. ASSUME NEW m \in Legs PROVE ReplyOk(e, m, an2)
  <2>1. ReplyOk(v, m, an)  BY DEF Good
  <2>2. CASE m = l  BY <2>1, <2>2, <1>4, <1>6, <1>8, <1>10 DEF ReplyOk
  <2>3. CASE m # l  BY <2>1, <2>3, <1>6, <1>8, <1>10 DEF ReplyOk
  <2> QED BY <2>2, <2>3
<1>13. Good(e, mk, ts, an2)  BY <1>7, <1>9, <1>10, <1>11, <1>12, Rewired
<1> QED BY <1>5, <1>6, <1>13

LEMMA ReplyStaged ==
    ASSUME RouterAssumption, PayloadsFit,
           NEW v, NEW mk, NEW ts, NEW an \in [Legs -> Seq(ReplyCells)], Good(v, mk, ts, an),
           NEW l \in Legs, NEW x \in Completion
    PROVE  /\ [an EXCEPT ![l] = @ \o Cells(x, CompletionFrame)] \in [Legs -> Seq(ReplyCells)]
           /\ Good(v, mk, ts, [an EXCEPT ![l] = @ \o Cells(x, CompletionFrame)])
<1> DEFINE X == Cells(x, CompletionFrame)
           b == v.r.legs[l].reply
           s == v.w.reply_in[l]
           z == an[l]
           h == b \o s
           an2 == [an EXCEPT ![l] = @ \o X]
<1>1. Bounded(Completion, CompletionFrame)  BY RecordsBounded
<1>2. X \in Seq(ReplyCells) /\ Line(X)  BY <1>1, CellsLine DEF ReplyCells
<1> HIDE DEF X
<1>3. /\ b \in Seq(ReplyCells) /\ s \in Seq(ReplyCells) /\ z \in Seq(ReplyCells)
  <2>1. v.r.legs \in [Legs -> Leg] /\ v.w.reply_in \in [Legs -> Seq(ReplyCells)]  BY GoodParts
  <2> QED BY <2>1 DEF Leg
<1>4. Line(h \o z)  BY DEF Good, ReplyOk
<1>5. h \in Seq(ReplyCells) /\ h \o z \in Seq(ReplyCells) /\ z \o X \in Seq(ReplyCells)
  <2> HIDE DEF b, s, z, h
  <2>1. b \o s \in Seq(ReplyCells)  BY <1>3, Joined
  <2>2. h \in Seq(ReplyCells)  BY <2>1 DEF h
  <2> QED BY <1>2, <1>3, <2>2, Joined
<1>6. Line(h \o (z \o X))
  <2> HIDE DEF h, z
  <2>1. \A c \in ReplyCells : c.at \in Nat /\ c.frame \in Nat /\ c.of.length \in Nat
    BY <1>1, CellFacts DEF ReplyCells
  <2>2. Line((h \o z) \o X)  BY <1>2, <1>4, <1>5, <2>1, LineAppended
  <2>3. Associates(h, z, X)  BY <1>2, <1>3, <1>5, Associative
  <2> QED BY <2>2, <2>3 DEF Associates
<1>7. /\ an2 \in [Legs -> Seq(ReplyCells)]
      /\ \A m \in Legs : an2[m] = IF m = l THEN z \o X ELSE an[m]
  BY <1>5
<1> HIDE DEF an2
<1>8. ASSUME NEW m \in Legs PROVE ReplyOk(v, m, an2)
  <2>1. ReplyOk(v, m, an)  BY DEF Good
  <2>2. CASE m = l  BY <2>1, <2>2, <1>6, <1>7 DEF ReplyOk
  <2>3. CASE m # l  BY <2>1, <2>3, <1>7 DEF ReplyOk
  <2> QED BY <2>2, <2>3
<1> QED BY <1>7, <1>8 DEF Good, an2, X

LEMMA CompletionsRead ==
    ASSUME RouterAssumption, NEW v, NEW mk, NEW ts, NEW an, Good(v, mk, ts, an)
    PROVE  Good([r |-> v.r, w |-> [v.w EXCEPT !.completion_out = <<>>]], mk, ts, an)
<1> DEFINE w == [v.w EXCEPT !.completion_out = <<>>]
           n == [r |-> v.r, w |-> w]
           U == Unwritten(v.r.completions, v.r.written)
           out == v.w.completion_out
<1>1. /\ v.w \in Wires /\ v.r.written \in Nat /\ v.r.completions \in Seq(ReplyCells)
      /\ out \in Seq(ReplyCells)
  BY GoodParts
<1>2. /\ w \in Wires /\ w.completion_out = <<>> /\ w.request_out = v.w.request_out
      /\ w.call_in = v.w.call_in /\ w.reply_in = v.w.reply_in
  <2>1. <<>> \in Seq(ReplyCells)  BY EmptySeq
  <2> QED BY <1>1, <2>1 DEF Wires
<1>3. n.r = v.r /\ n.w = w /\ n = [r |-> v.r, w |-> w]  OBVIOUS
<1> HIDE DEF w, n
<1>4. Within(w)
  <2>1. Within(v.w) /\ Len(<<>>) = 0 /\ 0 <= Capacity  BY Sizes DEF Good
  <2> QED BY <2>1, <1>2 DEF Within
<1>5. CallsOk(n, mk, ts)
  <2>1. CallsOk(v, mk, ts)  BY DEF Good
  <2> QED BY <2>1, <1>2, <1>3 DEF CallsOk, Coming
<1>6. \A l \in Legs : ReplyOk(n, l, an)
  <2>1. \A l \in Legs : ReplyOk(v, l, an)  BY DEF Good
  <2> QED BY <2>1, <1>2, <1>3 DEF ReplyOk
<1>7. StagedOk(v.r, w.completion_out)
  <2>1. StagedOk(v.r, out)  BY DEF Good
  <2>2. U \in Seq(ReplyCells)
    <3> DEFINE a == v.r.completions
               k == v.r.written
    <3>1. a \in Seq(ReplyCells) /\ k \in Nat /\ k <= Len(a) /\ <<>> \in Seq(ReplyCells)
      BY <1>1, <2>1, EmptySeq DEF StagedOk
    <3> HIDE DEF a, k
    <3>2. Unwritten(a, k) \in Seq(ReplyCells)  BY ONLY <3>1, UnwrittenJoined
    <3> QED BY <3>2 DEF a, k
  <2>3. Tailing(out \o U)  BY <2>1 DEF StagedOk
  <2> HIDE DEF U, out
  <2>4. Tailing(U)  BY <1>1, <2>2, <2>3, TailingDropped
  <2>5. <<>> \o U = U  BY <2>2, ConcatEmptySeq
  <2> QED BY <2>1, <2>4, <2>5, <1>2 DEF StagedOk, U
<1>8. Good(n, mk, ts, an)  BY <1>2, <1>3, <1>4, <1>5, <1>6, <1>7, Rewired
<1> QED BY <1>8 DEF n, w

LEMMA RequestTaken ==
    ASSUME RouterAssumption, NEW v, NEW mk, NEW ts, NEW an, Good(v, mk, ts, an),
           NEW l \in Legs, v.w.request_out[l] # <<>>
    PROVE  /\ Head(v.w.request_out[l]).of \in Forwarded
           /\ Good([r |-> v.r, w |-> [v.w EXCEPT !.request_out[l] = Tail(@)]], mk, ts, an)
<1> DEFINE out == v.w.request_out[l]
           h == <<Head(out)>>
           rest == Tail(out)
           outs == [v.w.request_out EXCEPT ![l] = rest]
           w == [v.w EXCEPT !.request_out[l] = Tail(@)]
           n == [r |-> v.r, w |-> w]
           a == v.r.legs[l].requests
           k == v.r.legs[l].written
           U == Unwritten(a, k)
<1>1. /\ v.w \in Wires /\ v.w.request_out \in [Legs -> Seq(RequestCells)]
      /\ a \in Seq(RequestCells) /\ k \in Nat /\ out \in Seq(RequestCells) /\ out # <<>>
  <2>1. /\ v.w \in Wires /\ v.w.request_out \in [Legs -> Seq(RequestCells)]
        /\ v.r.legs \in [Legs -> Leg]
    BY GoodParts
  <2> QED BY <2>1 DEF Leg
<1>2. /\ Head(out) \in RequestCells /\ rest \in Seq(RequestCells) /\ h \in Seq(RequestCells)
      /\ h \o rest = out /\ Len(rest) = Len(out) - 1
  <2> HIDE DEF out
  <2>1. Head(out) \in RequestCells /\ rest \in Seq(RequestCells) /\ Len(rest) = Len(out) - 1
    BY <1>1, HeadTailProperties
  <2>2. out = <<Head(out)>> \o Tail(out)
    <3>1. Len(h) = 1 /\ h[1] = Head(out) /\ h \in Seq(RequestCells)  BY <2>1
    <3>2. /\ h \o rest \in Seq(RequestCells) /\ Len(h \o rest) = 1 + Len(rest)
          /\ \A i \in 1 .. 1 : (h \o rest)[i] = h[i]
          /\ \A i \in 1 .. Len(rest) : (h \o rest)[1 + i] = rest[i]
      <4>1. rest \in Seq(RequestCells) /\ h \in Seq(RequestCells)  BY ONLY <2>1, <3>1
      <4> HIDE DEF h, rest
      <4>2. /\ h \o rest \in Seq(RequestCells) /\ Len(h \o rest) = Len(h) + Len(rest)
            /\ \A i \in 1 .. Len(h) : (h \o rest)[i] = h[i]
            /\ \A i \in 1 .. Len(rest) : (h \o rest)[Len(h) + i] = rest[i]
        BY ONLY <4>1, Joined
      <4> QED BY ONLY <3>1, <4>2
    <3>3. /\ Head(out) = out[1] /\ \A i \in 1 .. Len(rest) : rest[i] = out[i + 1]
          /\ Len(out) \in Nat /\ Len(rest) = Len(out) - 1
      BY <1>1, HeadTailProperties
    <3> HIDE DEF h, rest
    <3>4. Len(h \o rest) = Len(out)  BY ONLY <3>2, <3>3
    <3>5. ASSUME NEW i \in 1 .. Len(out) PROVE (h \o rest)[i] = out[i]
      <4>1. CASE i = 1  BY ONLY <4>1, <3>1, <3>2, <3>3
      <4>2. CASE i # 1
        <5> DEFINE j == i - 1
        <5>1. j \in 1 .. Len(rest) /\ i = 1 + j /\ i = j + 1  BY ONLY <3>3, <3>5, <4>2
        <5> HIDE DEF j
        <5> QED BY ONLY <5>1, <3>2, <3>3
      <4> QED BY <4>1, <4>2
    <3>6. h \o rest = out  BY ONLY <3>2, <3>4, <3>5, <1>1, SeqEqual
    <3> QED BY <3>6 DEF h, rest
  <2>3. h \in Seq(RequestCells)  BY <2>1
  <2> QED BY <2>1, <2>2, <2>3
<1>3. Head(out).of \in Forwarded  BY <1>2 DEF RequestCells, CellsOf
<1>4. /\ outs \in [Legs -> Seq(RequestCells)]
      /\ \A m \in Legs : outs[m] = IF m = l THEN rest ELSE v.w.request_out[m]
  BY <1>1, <1>2
<1>5. /\ w \in Wires /\ w.request_out = outs /\ w.completion_out = v.w.completion_out
      /\ w.call_in = v.w.call_in /\ w.reply_in = v.w.reply_in
  BY <1>1, <1>4 DEF Wires
<1>6. n.r = v.r /\ n.w = w /\ n = [r |-> v.r, w |-> w]  OBVIOUS
<1> HIDE DEF w, n, outs, rest, h
<1>7. Within(w)
  <2>1. Within(v.w)  BY DEF Good
  <2>2. Len(out) \in Nat /\ Len(out) <= Capacity /\ Capacity \in Nat
    BY <1>1, <2>1, Sizes DEF Within
  <2>3. Len(rest) <= Capacity  BY ONLY <1>2, <2>2
  <2> QED BY <2>1, <2>3, <1>4, <1>5 DEF Within
<1>8. CallsOk(n, mk, ts)
  <2>1. CallsOk(v, mk, ts)  BY DEF Good
  <2> QED BY <2>1, <1>5, <1>6 DEF CallsOk, Coming
<1>9. \A m \in Legs : ReplyOk(n, m, an)
  <2>1. \A m \in Legs : ReplyOk(v, m, an)  BY DEF Good
  <2> QED BY <2>1, <1>5, <1>6 DEF ReplyOk
<1>10. LegOk(v.r, l, rest)
  <2>1. LegOk(v.r, l, out)  BY DEF Good
  <2>2. U \in Seq(RequestCells)
    <3>1. a \in Seq(RequestCells) /\ k \in Nat /\ k <= Len(a) /\ <<>> \in Seq(RequestCells)
      BY <1>1, <2>1, EmptySeq DEF LegOk
    <3> HIDE DEF a, k
    <3>2. Unwritten(a, k) \in Seq(RequestCells)  BY ONLY <3>1, UnwrittenJoined
    <3> QED BY <3>2
  <2>3. Tailing(out \o U)  BY <2>1 DEF LegOk
  <2> HIDE DEF U, out
  <2>4. out \o U = h \o (rest \o U)
    <3>1. Associates(h, rest, U)  BY <1>2, <2>2, Associative
    <3> QED BY <3>1, <1>2 DEF Associates
  <2>5. rest \o U \in Seq(RequestCells)  BY <1>2, <2>2, Joined
  <2>6. Tailing(rest \o U)
    <3>1. h \in Seq(RequestCells) /\ Tailing(h \o (rest \o U))  BY <1>2, <2>3, <2>4
    <3> QED BY ONLY <2>5, <3>1, TailingDropped
  <2> QED BY <2>1, <2>6 DEF LegOk, U
<1>11. ASSUME NEW m \in Legs
       PROVE  w.request_out[m] = v.w.request_out[m] \/ LegOk(v.r, m, w.request_out[m])
  BY <1>4, <1>5, <1>10
<1>12. Good(n, mk, ts, an)  BY <1>5, <1>6, <1>7, <1>8, <1>9, <1>11, Rewired
<1> QED BY <1>3, <1>12 DEF n, w

LEMMA HungUp ==
    ASSUME NEW v, NEW mk, NEW ts, NEW an, Good(v, mk, ts, an)
    PROVE  Good([r |-> v.r, w |-> [v.w EXCEPT !.closed = TRUE]], mk, ts, an)
<1> DEFINE w == [v.w EXCEPT !.closed = TRUE]
           n == [r |-> v.r, w |-> w]
<1>1. v.w \in Wires  BY GoodParts
<1>2. /\ w \in Wires /\ w.completion_out = v.w.completion_out /\ w.request_out = v.w.request_out
      /\ w.call_in = v.w.call_in /\ w.reply_in = v.w.reply_in
  BY <1>1 DEF Wires
<1>3. n.r = v.r /\ n.w = w /\ n = [r |-> v.r, w |-> w]  OBVIOUS
<1> HIDE DEF w, n
<1>4. Within(w)
  <2>1. Within(v.w)  BY DEF Good
  <2> QED BY <2>1, <1>2 DEF Within
<1>5. CallsOk(n, mk, ts)
  <2>1. CallsOk(v, mk, ts)  BY DEF Good
  <2> QED BY <2>1, <1>2, <1>3 DEF CallsOk, Coming
<1>6. \A l \in Legs : ReplyOk(n, l, an)
  <2>1. \A l \in Legs : ReplyOk(v, l, an)  BY DEF Good
  <2> QED BY <2>1, <1>2, <1>3 DEF ReplyOk
<1>7. Good(n, mk, ts, an)  BY <1>2, <1>3, <1>4, <1>5, <1>6, Rewired
<1> QED BY <1>7 DEF n, w

-----------------------------------------------------------------------------
(* The theorem.                                                            *)

LEMMA RouterStarts ==
    ASSUME RouterAssumption, RouterInit
    PROVE  IInv
<1>1. /\ router.table = [s \in Slots |-> Free] /\ router.call = <<>>
      /\ router.legs = [l \in Legs |-> [reply |-> <<>>, requests |-> <<>>, written |-> 0]]
      /\ router.completions = <<>> /\ router.written = 0 /\ router.finished = FALSE
      /\ router.taken = {} /\ router.told = [q \in Requests |-> 0]
  BY DEF RouterInit
<1>2. /\ wires.call_in = <<>> /\ wires.closed = FALSE /\ wires.completion_out = <<>>
      /\ wires.request_out = [l \in Legs |-> <<>>] /\ wires.reply_in = [l \in Legs |-> <<>>]
  BY DEF RouterInit
<1>3. made = 0 /\ to_send = <<>> /\ answering = [l \in Legs |-> <<>>]
  BY DEF RouterInit
<1>4. Around
  BY EmptySeq, Sizes DEF RouterInit, Around
<1>5. router \in Router
  BY EmptySeq DEF RouterInit, Router, Leg, Slot
<1>6. wires \in Wires
  BY EmptySeq DEF RouterInit, Wires
<1>7. <<>> \o <<>> = <<>> /\ <<>> \o <<>> \o <<>> = <<>>
  BY ConcatEmptySeq, EmptySeq
<1>8. Line(<<>>) /\ Tailing(<<>>) /\ Ascending(<<>>) /\ \A F : Short(<<>>, F)
  BY EmptySeq DEF Line, Tailing, InOrder, Ends, Ascending, Short
<1>9. Unwritten(<<>>, 0) = <<>>
  BY SubSeqEmpty DEF Unwritten
<1>10. Now.r = router /\ Now.w = wires /\ Now \in View
  BY <1>5, <1>6 DEF Now, View
<1>11. Within(Now.w)
  BY <1>2, <1>10, EmptySeq, Sizes DEF Within
<1>12. CallsOk(Now, made, to_send)
  <2>1. Coming(Now, to_send) = <<>>  BY <1>1, <1>2, <1>3, <1>7, <1>10 DEF Coming
  <2>2. Fresh(<<>>, {}, made)  BY EmptySeq DEF Fresh
  <2>3. Now.r.call = <<>> /\ Now.r.taken = {}  BY <1>1, <1>10
  <2> QED BY ONLY <2>1, <2>2, <2>3, <1>8 DEF CallsOk
<1>13. ASSUME NEW l \in Legs
       PROVE  ReplyOk(Now, l, answering) /\ LegOk(Now.r, l, Now.w.request_out[l])
  <2>1. /\ router.legs[l].reply = <<>> /\ router.legs[l].requests = <<>>
        /\ router.legs[l].written = 0 /\ wires.request_out[l] = <<>>
        /\ wires.reply_in[l] = <<>> /\ answering[l] = <<>>
    BY <1>1, <1>2, <1>3
  <2>2. Len(<<>>) = 0 /\ LegBuffer \in Nat /\ 0 <= LegBuffer  BY Sizes
  <2>3. ReplyOk(Now, l, answering)
    <3>1. Now.r.legs[l].reply \o Now.w.reply_in[l] \o answering[l] = <<>>
      BY ONLY <2>1, <1>7, <1>10
    <3>2. Now.r.legs[l].reply = <<>>  BY ONLY <2>1, <1>10
    <3> QED BY ONLY <3>1, <3>2, <1>8 DEF ReplyOk
  <2>4. LegOk(Now.r, l, Now.w.request_out[l])
    <3>1. /\ Now.r.legs[l].requests = <<>> /\ Now.r.legs[l].written = 0
          /\ Now.w.request_out[l] = <<>>
      BY ONLY <2>1, <1>10
    <3> QED BY ONLY <3>1, <2>2, <1>7, <1>8, <1>9 DEF LegOk
  <2> QED BY <2>3, <2>4
<1>14. StagedOk(Now.r, Now.w.completion_out)
  <2>1. Len(<<>>) = 0 /\ CompletionBuffer \in Nat /\ 0 <= CompletionBuffer  BY Sizes
  <2>2. Now.r.completions = <<>> /\ Now.r.written = 0 /\ Now.w.completion_out = <<>>
    BY ONLY <1>1, <1>2, <1>10
  <2> QED BY ONLY <2>1, <2>2, <1>7, <1>8, <1>9 DEF StagedOk
<1>15. Answered(Now.r)
  BY <1>1, <1>10 DEF Answered, Once, NoneWaits, Waits, Free
<1> QED BY <1>4, <1>10, <1>11, <1>12, <1>13, <1>14, <1>15 DEF IInv, Good

\* Each step of the router or of a module around it keeps the invariant.
LEMMA RouterKeeps ==
    ASSUME RouterAssumption, PayloadsFit, IInv, [RouterNext]_rvars
    PROVE  IInv'
<1>1. /\ made \in Nat /\ to_send \in Seq(CallCells) /\ answering \in [Legs -> Seq(ReplyCells)]
      /\ Around /\ Good(Now, made, to_send, answering)
  BY Sizes DEF IInv, Around
<1>2. Now.r = router /\ Now.w = wires  BY DEF Now
<1>3. CASE RouterStep
  <2>1. Good(Stepped, made, to_send, answering)  BY <1>1, SteppedGood
  <2> DEFINE v == Stepped
  <2>2. router' = v.r /\ wires' = v.w /\ UNCHANGED environment  BY <1>3 DEF RouterStep
  <2>3. Good(v, made, to_send, answering)  BY <2>1
  <2> HIDE DEF v
  <2>4. v = [r |-> v.r, w |-> v.w]  BY <2>3, GoodParts
  <2>5. Now' = v  BY <2>2, <2>4 DEF Now
  <2> QED BY <1>1, <2>2, <2>3, <2>5 DEF IInv, Around, environment
<1>4. ASSUME NEW b \in Bindings, NEW n \in PayloadLengths, IsolateCalls(b, n) PROVE IInv'
  <2> DEFINE x == [request |-> made + 1, trace |-> Trace, binding |-> b, length |-> n]
  <2>1. /\ made < MaxCalls /\ made' = made + 1 /\ to_send' = to_send \o Cells(x, CallFrame)
        /\ UNCHANGED <<router, wires, asked, answering, stray>>
    BY <1>4 DEF IsolateCalls
  <2>2. made + 1 \in 1 .. MaxCalls /\ made + 1 \in 0 .. MaxCalls
    BY <1>1, <2>1, Sizes DEF Around
  <2>3. x \in IsolateCall /\ x.request = made + 1
    BY <2>2 DEF IsolateCall, Requests, RouterAssumption
  <2> HIDE DEF x
  <2>4. /\ to_send \o Cells(x, CallFrame) \in Seq(CallCells)
        /\ Good(Now, made + 1, to_send \o Cells(x, CallFrame), answering)
    BY <1>1, <2>3, CallStaged
  <2>5. Now' = Now  BY <2>1 DEF Now
  <2> QED BY <1>1, <2>1, <2>2, <2>4, <2>5 DEF IInv, Around
<1>5. CASE IsolateWrites
  <2>1. PICK n \in 1 .. Least(Len(to_send), Capacity - Len(wires.call_in)) :
           /\ wires' = [wires EXCEPT !.call_in = @ \o SubSeq(to_send, 1, n)]
           /\ to_send' = SubSeq(to_send, n + 1, Len(to_send))
    BY <1>5 DEF IsolateWrites
  <2>2. UNCHANGED <<router, made, asked, answering, stray>>  BY <1>5 DEF IsolateWrites
  <2>3. /\ SubSeq(to_send, n + 1, Len(to_send)) \in Seq(CallCells)
        /\ Good([r |-> router, w |-> [wires EXCEPT !.call_in = @ \o SubSeq(to_send, 1, n)]],
                made, SubSeq(to_send, n + 1, Len(to_send)), answering)
    BY <1>1, <1>2, CallWritten
  <2>4. Now' = [r |-> router, w |-> [wires EXCEPT !.call_in = @ \o SubSeq(to_send, 1, n)]]
    BY <2>1, <2>2 DEF Now
  <2> QED BY <1>1, <2>1, <2>2, <2>3, <2>4 DEF IInv, Around
<1>6. CASE IsolateReads
  <2>1. wires' = [wires EXCEPT !.completion_out = <<>>] /\ UNCHANGED <<router, environment>>
    BY <1>6 DEF IsolateReads
  <2>2. Good([r |-> router, w |-> [wires EXCEPT !.completion_out = <<>>]], made, to_send, answering)
    BY <1>1, <1>2, CompletionsRead
  <2>3. Now' = [r |-> router, w |-> [wires EXCEPT !.completion_out = <<>>]]  BY <2>1 DEF Now
  <2> QED BY <1>1, <2>1, <2>2, <2>3 DEF IInv, Around, environment
<1>7. CASE IsolateHangsUp
  <2>1. wires' = [wires EXCEPT !.closed = TRUE] /\ UNCHANGED <<router, environment>>
    BY <1>7 DEF IsolateHangsUp
  <2>2. Good([r |-> router, w |-> [wires EXCEPT !.closed = TRUE]], made, to_send, answering)
    BY <1>1, <1>2, HungUp
  <2>3. Now' = [r |-> router, w |-> [wires EXCEPT !.closed = TRUE]]  BY <2>1 DEF Now
  <2> QED BY <1>1, <2>1, <2>2, <2>3 DEF IInv, Around, environment
<1>8. ASSUME NEW l \in Legs, AdapterTakes(l) PROVE IInv'
  <2> DEFINE cell == Head(wires.request_out[l])
  <2>1. /\ wires.request_out[l] # <<>>
        /\ wires' = [wires EXCEPT !.request_out[l] = Tail(@)]
        /\ asked' = [asked EXCEPT ![l] = IF cell.at = CallFrame + cell.of.length
                                         THEN @ \cup {cell.of} ELSE @]
        /\ UNCHANGED <<router, made, to_send, answering, stray>>
    BY <1>8 DEF AdapterTakes
  <2>2. /\ cell.of \in Forwarded
        /\ Good([r |-> router, w |-> [wires EXCEPT !.request_out[l] = Tail(@)]],
                made, to_send, answering)
    BY <1>1, <1>2, <2>1, RequestTaken
  <2>3. Now' = [r |-> router, w |-> [wires EXCEPT !.request_out[l] = Tail(@)]]  BY <2>1 DEF Now
  <2> HIDE DEF cell
  <2>4. asked' \in [Legs -> SUBSET Forwarded]
    <3>1. asked \in [Legs -> SUBSET Forwarded]  BY <1>1 DEF Around
    <3>2. asked[l] \cup {cell.of} \in SUBSET Forwarded  BY <2>2, <3>1
    <3> QED BY <2>1, <3>1, <3>2
  <2> QED BY <1>1, <2>1, <2>2, <2>3, <2>4 DEF IInv, Around
<1>9. ASSUME NEW l \in Legs, AdapterAnswers(l) PROVE IInv'
  <2>1. PICK c \in asked[l], n \in PayloadLengths :
          /\ asked' = [asked EXCEPT ![l] = @ \ {c}]
          /\ answering' = [answering EXCEPT ![l] = @ \o
                Cells([request |-> c.request, trace |-> c.trace,
                       outcome |-> "Fulfilled", length |-> n], CompletionFrame)]
    BY <1>9 DEF AdapterAnswers
  <2>2. UNCHANGED <<router, wires, made, to_send, stray>>  BY <1>9 DEF AdapterAnswers
  <2> DEFINE x == [request |-> c.request, trace |-> c.trace, outcome |-> "Fulfilled", length |-> n]
  <2>3. x \in Completion /\ asked \in [Legs -> SUBSET Forwarded]
    BY <1>1 DEF Around, Forwarded, Completion, Outcomes
  <2>4. answering' = [answering EXCEPT ![l] = @ \o Cells(x, CompletionFrame)]  BY <2>1
  <2> HIDE DEF x
  <2>5. /\ answering' \in [Legs -> Seq(ReplyCells)]
        /\ Good(Now, made, to_send, answering')
    BY <1>1, <2>3, <2>4, ReplyStaged
  <2>6. Now' = Now  BY <2>2 DEF Now
  <2>7. asked' \in [Legs -> SUBSET Forwarded]  BY <2>1, <2>3
  <2> QED BY <1>1, <2>2, <2>5, <2>6, <2>7 DEF IInv, Around
<1>10. ASSUME NEW l \in Legs, AdapterStrays(l) PROVE IInv'
  <2>1. PICK q \in Requests, t \in Traces :
          answering' = [answering EXCEPT ![l] = @ \o
                Cells([request |-> q, trace |-> t, outcome |-> "Fulfilled",
                       length |-> 0], CompletionFrame)]
    BY <1>10 DEF AdapterStrays
  <2>2. /\ stray < MaxStray /\ stray' = stray + 1
        /\ UNCHANGED <<router, wires, made, to_send, asked>>
    BY <1>10 DEF AdapterStrays
  <2> DEFINE x == [request |-> q, trace |-> t, outcome |-> "Fulfilled", length |-> 0]
  <2>3. x \in Completion  BY DEF Completion, Outcomes
  <2>4. answering' = [answering EXCEPT ![l] = @ \o Cells(x, CompletionFrame)]  BY <2>1
  <2> HIDE DEF x
  <2>5. /\ answering' \in [Legs -> Seq(ReplyCells)]
        /\ Good(Now, made, to_send, answering')
    BY <1>1, <2>3, <2>4, ReplyStaged
  <2>6. Now' = Now  BY <2>2 DEF Now
  <2>7. stray' \in 0 .. MaxStray  BY <1>1, <2>2, Sizes DEF Around
  <2> QED BY <1>1, <2>2, <2>5, <2>6, <2>7 DEF IInv, Around
<1>11. ASSUME NEW l \in Legs, AdapterWrites(l) PROVE IInv'
  <2>1. PICK n \in 1 .. Least(Len(answering[l]), Capacity - Len(wires.reply_in[l])) :
          /\ wires' = [wires EXCEPT !.reply_in[l] = @ \o SubSeq(answering[l], 1, n)]
          /\ answering' = [answering EXCEPT ![l] = SubSeq(@, n + 1, Len(@))]
    BY <1>11 DEF AdapterWrites
  <2>2. UNCHANGED <<router, made, to_send, asked, stray>>  BY <1>11 DEF AdapterWrites
  <2> DEFINE w == [wires EXCEPT !.reply_in[l] = @ \o SubSeq(answering[l], 1, n)]
             an == [answering EXCEPT ![l] = SubSeq(@, n + 1, Len(@))]
  <2>3. an \in [Legs -> Seq(ReplyCells)] /\ Good([r |-> router, w |-> w], made, to_send, an)
    BY <1>1, <1>2, ReplyWritten
  <2>4. wires' = w /\ answering' = an  BY <2>1
  <2> HIDE DEF w, an
  <2>5. Now' = [r |-> router, w |-> w]  BY <2>2, <2>4 DEF Now
  <2> QED BY <1>1, <2>2, <2>3, <2>4, <2>5 DEF IInv, Around
<1>12. CASE UNCHANGED rvars
  BY <1>1, <1>12 DEF rvars, environment, IInv, Around, Now
<1> QED BY <1>3, <1>4, <1>5, <1>6, <1>7, <1>8, <1>9, <1>10, <1>11, <1>12
        DEF RouterNext, AdapterStep

\* A reader's cells are short of the largest record, and start with a first cell.
LEMMA ReaderWithin ==
    ASSUME NEW Records, NEW F, Bounded(Records, F), PayloadBytes \in Nat,
           NEW b \in Seq(CellsOf(Records, F)), NEW s \in Seq(CellsOf(Records, F)),
           NEW z \in Seq(CellsOf(Records, F)), Line(b \o s \o z), Short(b, F)
    PROVE  Len(b) < F + PayloadBytes /\ (b # <<>> => b[1].at = 1)
<1> DEFINE C == CellsOf(Records, F)
           L == b \o s \o z
<1>1. F \in Nat /\ F # 0 /\ Len(b) \in Nat  BY DEF Bounded
<1>2. CASE b = <<>>
  <2>1. Len(b) = 0  BY <1>2
  <2> QED BY ONLY <2>1, <1>1, <1>2, PayloadBytes \in Nat
<1>3. CASE b # <<>>
  <2>1. 1 \in 1 .. Len(b)  BY <1>3, EmptySeq
  <2>2. b[1] \in C  BY <2>1, ElementOfSeq
  <2>3. b[1].of.length \in Nat /\ b[1].of.length <= PayloadBytes
    BY <2>2 DEF CellsOf, Bounded
  <2>4. Len(b) < F + b[1].of.length  BY <1>3 DEF Short
  <2>5. L[1] = b[1] /\ L # <<>>
    <3> DEFINE h == b \o s
    <3>1. h \in Seq(C) /\ Len(h) = Len(b) + Len(s) /\ Len(s) \in Nat /\ h[1] = b[1]
      BY <2>1, Joined
    <3> HIDE DEF h
    <3>2. 1 \in 1 .. Len(h)  BY ONLY <1>1, <2>1, <3>1
    <3>3. h \in Seq(C) /\ z \in Seq(C)  BY <3>1
    <3>4. /\ h \o z \in Seq(C) /\ Len(h \o z) = Len(h) + Len(z) /\ Len(z) \in Nat
          /\ \A i \in 1 .. Len(h) : (h \o z)[i] = h[i]
      BY ONLY <3>3, Joined
    <3>5. Len(h \o z) # 0 /\ (h \o z)[1] = b[1]  BY ONLY <3>1, <3>2, <3>4
    <3>6. h \o z # <<>>  BY ONLY <3>4, <3>5, EmptySeq
    <3> QED BY <3>5, <3>6 DEF h
  <2>6. L[1].at = 1  BY <2>5 DEF Line
  <2>7. Len(b) < F + PayloadBytes  BY ONLY <1>1, <2>3, <2>4, PayloadBytes \in Nat
  <2> QED BY <2>5, <2>6, <2>7
<1> QED BY <1>2, <1>3

LEMMA RouterMeans ==
    ASSUME RouterAssumption, PayloadsFit, IInv
    PROVE  OneAnswer
<1>1. /\ Around /\ Good(Now, made, to_send, answering) /\ Now.r = router /\ Now.w = wires
      /\ made \in 0 .. MaxCalls /\ stray \in 0 .. MaxStray /\ to_send \in Seq(CallCells)
      /\ answering \in [Legs -> Seq(ReplyCells)]
  BY DEF IInv, Now, Around
<1>2. /\ router \in Router /\ router.call \in Seq(CallCells) /\ wires.call_in \in Seq(CallCells)
      /\ router.legs \in [Legs -> Leg] /\ wires.reply_in \in [Legs -> Seq(ReplyCells)]
      /\ wires \in Wires
  BY <1>1, GoodParts
<1>3. /\ Bounded(IsolateCall, CallFrame) /\ Bounded(Completion, CompletionFrame)
      /\ PayloadBytes \in Nat
  BY RecordsBounded, Sizes
<1>4. /\ Line(router.call \o wires.call_in \o to_send) /\ Short(router.call, CallFrame)
      /\ StagedOk(router, wires.completion_out) /\ Answered(router) /\ Within(wires)
  BY <1>1 DEF Good, CallsOk, Coming
<1>5. ASSUME NEW l \in Legs
      PROVE  /\ Line(router.legs[l].reply \o wires.reply_in[l] \o answering[l])
             /\ Short(router.legs[l].reply, CompletionFrame)
             /\ LegOk(router, l, wires.request_out[l])
  <2>1. ReplyOk(Now, l, answering) /\ LegOk(Now.r, l, Now.w.request_out[l])
    BY <1>1 DEF Good
  <2> QED BY <2>1, <1>1 DEF ReplyOk
<1>6. Len(router.call) < CallFrame + PayloadBytes /\ (router.call # <<>> => router.call[1].at = 1)
  <2> DEFINE b == router.call
             s == wires.call_in
  <2>1. b \in Seq(CallCells) /\ s \in Seq(CallCells) /\ to_send \in Seq(CallCells)
        /\ Line(b \o s \o to_send) /\ Short(b, CallFrame)
    BY <1>1, <1>2, <1>4
  <2> HIDE DEF b, s
  <2>2. Len(b) < CallFrame + PayloadBytes /\ (b # <<>> => b[1].at = 1)
    BY ONLY <1>3, <2>1, ReaderWithin DEF CallCells
  <2> QED BY <2>2 DEF b
<1>7. ASSUME NEW l \in Legs
      PROVE  /\ Len(router.legs[l].reply) < CompletionFrame + PayloadBytes
             /\ router.legs[l].reply # <<>> => router.legs[l].reply[1].at = 1
  <2> DEFINE b == router.legs[l].reply
             s == wires.reply_in[l]
             z == answering[l]
  <2>1. b \in Seq(ReplyCells) /\ s \in Seq(ReplyCells) /\ z \in Seq(ReplyCells)
        /\ Line(b \o s \o z) /\ Short(b, CompletionFrame)
    BY <1>1, <1>2, <1>5 DEF Leg
  <2> HIDE DEF b, s, z
  <2>2. Len(b) < CompletionFrame + PayloadBytes /\ (b # <<>> => b[1].at = 1)
    BY ONLY <1>3, <2>1, ReaderWithin DEF ReplyCells
  <2> QED BY <2>2 DEF b
<1>8. RouterOK
  <2>1. router.table \in [Slots -> {Free} \cup [live : {TRUE}, request : Requests,
                                               trace : Traces]]
        /\ router.taken \subseteq Requests /\ router.finished \in BOOLEAN
    BY <1>2 DEF Router, Slot
  <2>2. Len(router.completions) <= CompletionBuffer /\ router.written <= Len(router.completions)
    BY <1>4 DEF StagedOk
  <2>3. ASSUME NEW l \in Legs
        PROVE  /\ Len(router.legs[l].requests) <= LegBuffer
               /\ router.legs[l].written <= Len(router.legs[l].requests)
    BY <1>5 DEF LegOk
  <2> QED BY <1>1, <1>4, <1>6, <1>7, <2>1, <2>2, <2>3 DEF RouterOK, Within
<1>9. ToldOnce
  <2>1. SUFFICES ASSUME NEW q \in Requests
                 PROVE  router.told[q] + Cardinality(LiveFor(q)) = IF q \in router.taken THEN 1 ELSE 0
    BY DEF ToldOnce
  <2>2. Once(router, q)  BY <1>4 DEF Answered
  <2>3. LiveFor(q) = {s \in Slots : Waits(router, s, q)}  BY DEF LiveFor, Waits
  <2>4. NoneWaits(router, q) => Cardinality(LiveFor(q)) = 0
    <3>1. NoneWaits(router, q) => LiveFor(q) = {}  BY <2>3 DEF NoneWaits
    <3> QED BY <3>1, FS_EmptySet
  <2>5. ASSUME NEW s \in Slots, OnlyWaits(router, s, q) PROVE Cardinality(LiveFor(q)) = 1
    <3>1. LiveFor(q) = {s}  BY <2>3, <2>5 DEF OnlyWaits
    <3> QED BY <3>1, FS_Singleton
  <2> QED BY <2>2, <2>4, <2>5 DEF Once
<1>10. RecordsWhole
  <2>1. InOrder(router.call \o wires.call_in \o to_send)  BY <1>4 DEF Line
  <2>2. InOrder(wires.completion_out \o Unwritten(router.completions, router.written))
    BY <1>4 DEF StagedOk, Tailing
  <2>3. ASSUME NEW l \in Legs
        PROVE  /\ InOrder(wires.request_out[l] \o
                          Unwritten(router.legs[l].requests, router.legs[l].written))
               /\ InOrder(router.legs[l].reply \o wires.reply_in[l] \o answering[l])
    BY <1>5 DEF LegOk, Tailing, Line
  <2> QED BY <1>6, <1>7, <2>1, <2>2, <2>3 DEF RecordsWhole
<1> QED BY <1>8, <1>9, <1>10 DEF OneAnswer

\* Whatever the sizes of the table, the buffers and the channels, whatever the
\* adapters answer and whenever the isolate hangs up: a call the router took is
\* waited on in one slot or was answered once, and no stream has a cut record.
THEOREM CallsAnsweredOnce ==
    ASSUME RouterAssumption, PayloadsFit
    PROVE  RouterSpec => []OneAnswer
<1>1. RouterInit => IInv  BY RouterStarts
<1>2. IInv /\ [RouterNext]_rvars => IInv'  BY RouterKeeps
<1>3. IInv => OneAnswer  BY RouterMeans
<1> QED BY <1>1, <1>2, <1>3, PTL DEF RouterSpec

===============================================================================
