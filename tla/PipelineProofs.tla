--------------------------- MODULE PipelineProofs ----------------------------
(***************************************************************************)
(* The command graph, for every set of sources, every size of the buffers  *)
(* and every way the channels cut what is written: the image of the whole  *)
(* source runs or nothing does, what was compiled is run, and what leaves  *)
(* the edge is the outcome of the phase that decided it.                   *)
(*                                                                         *)
(* A state of the graph is a record of its modules and its channels, and a *)
(* round takes it through the producer, the first module, the isolate and  *)
(* the edge, so that the invariant (GraphInv) is of such a record and each *)
(* module's step has a lemma of its own.  A stream is of one kind of cell, *)
(* and so known by its length: what was written is what lies in the        *)
(* channel, what was read, and what is left (Reading, Imaging, Telling,    *)
(* Resulting).  That the isolate does not give up on an image that is      *)
(* still to come is counted in rounds (Remaining, InTime), which is where  *)
(* the graph's patience is needed.                                         *)
(***************************************************************************)
EXTENDS Pipeline, FiniteSetTheorems, SequenceTheorems, TLAPS

Of(c) == CASE c = "source" -> "source" [] c = "image" -> "image" [] c = "diagnostic" -> "compile"
           [] c = "result" -> "result" [] OTHER -> "isolate"
StreamOf(c) == Seq({Of(c)})
Contents == {"source", "image", "compile", "result", "isolate"}
Said == {"compile", "isolate"}

FirstState == [phase : {"stage", "work", "write", "exit", "done"}, waited : Nat,
               got : Seq({"source"}), overflowed : BOOLEAN, failed : BOOLEAN,
               left : Seq({"image"}), diagnostic : Seq({"compile"}), exit : {"none", "failed", "done"}]
IsolateState == [phase : {"stage", "write", "done"}, waited : Nat,
                 got : Seq({"image"}), ran : Seq({"image"}), failed : BOOLEAN,
                 left : Seq({"result"}), diagnostic : Seq({"isolate"})]
EdgeState == [result : Seq({"result"}), hungUp : BOOLEAN, frame : Seq(Said), report : Seq(Said),
              failed : BOOLEAN, stdout : Seq({"result"}), stderr : Seq(Said),
              exit : {"none", "failed", "done"}]
GraphState == [graph : Graphs, early : Early, source : Sources,
               delay : Nat, sent : Nat, beat : BOOLEAN,
               first : FirstState, isolate : IsolateState, cli : EdgeState]
Channel == [data : Seq(Contents), written : BOOLEAN, closed : BOOLEAN]

Typed(v) ==
    /\ v = [st |-> v.st, ch |-> v.ch] /\ v.st \in GraphState /\ v.ch \in [Channels -> Channel]
    /\ \A c \in Channels : v.ch[c].data \in StreamOf(c)

\* What was read is what was written, as long as there was room for it, and
\* what is worked on is the whole of it.  f is the compiler or the linker, k
\* the channel, n the cells of the source.
Reading(f, k, n, sent, delay) ==
    /\ sent <= n /\ f.waited <= CompileWait
    /\ k.written <=> sent > 0
    /\ k.closed => sent = n
    /\ f.phase = "stage" =>
           /\ f.overflowed => Len(f.got) = SourceCells /\ sent > 0
           /\ ~f.overflowed => Len(f.got) + Len(k.data) = sent
           /\ Len(f.got) <= SourceCells
           /\ sent = 0 /\ n > 0 => f.waited + delay <= MaxDelay
    /\ f.phase # "stage" /\ ~f.failed => Len(f.got) = n

\* The image is written whole if nothing failed, and the isolate i has all of
\* it or none when it goes on.
Imaging(f, i, k) ==
    /\ f.phase # "work"
    /\ f.phase = "stage" => /\ ~f.failed /\ f.left = <<>> /\ f.diagnostic = <<>>
                            /\ Len(i.got) + Len(k.data) = 0
    /\ f.phase # "stage" /\ f.failed => Len(i.got) + Len(k.data) + Len(f.left) = 0
    /\ f.phase # "stage" /\ ~f.failed => Len(i.got) + Len(k.data) + Len(f.left) = ImageCells
    /\ f.phase \in {"exit", "done"} => f.left = <<>> /\ f.diagnostic = <<>>
    /\ f.exit = "done" => f.phase = "done" /\ ~f.failed
    /\ k.closed <=> f.phase = "done"
    /\ k.written <=> Len(i.got) + Len(k.data) > 0
    /\ i.phase # "stage" => f.phase = "done" /\ (f.failed \/ i.ran # <<>>)
    /\ i.ran # <<>> => Len(i.ran) = ImageCells /\ ~f.failed /\ i.phase # "stage"

\* A frame of who is on its way from left over the channel k to the edge c,
\* or there.
Telling(c, who, k, left) ==
    \/ /\ c.report = <<>> /\ c.frame \in Seq({who}) /\ Len(c.frame) < FrameCells
       /\ Len(c.frame) + Len(k.data) + Len(left) = FrameCells
    \/ /\ c.report = Line(who, FrameCells) /\ c.frame = <<>>
       /\ k.data = <<>> /\ left = <<>>

\* What failed is told and what did not is not.
Refused(graph, f) == graph = "compile" /\ f.failed
Diagnosed(graph, f, i, c, dia, run) ==
    /\ Refused(graph, f) => Telling(c, "compile", dia, f.diagnostic)
    /\ ~Refused(graph, f) => f.diagnostic = <<>> /\ dia.data = <<>>
    /\ i.failed => Telling(c, "isolate", run, i.diagnostic)
    /\ ~i.failed => i.diagnostic = <<>> /\ run.data = <<>>
    /\ Refused(graph, f) \/ i.failed \/ (c.frame = <<>> /\ c.report = <<>>)
    /\ ~(Refused(graph, f) /\ i.failed)

\* A result comes whole, if there is one.
Resulting(i, c, res) ==
    /\ i.failed => i.ran # <<>>
    /\ i.phase # "write" => i.left = <<>> /\ i.diagnostic = <<>>
    /\ res.closed <=> i.phase = "done"
    /\ i.ran # <<>> /\ ~i.failed => Len(c.result) + Len(res.data) + Len(i.left) = 1
    /\ ~(i.ran # <<>> /\ ~i.failed) => Len(c.result) + Len(res.data) + Len(i.left) = 0

\* The edge exits when all of it has come.
Exiting(i, c, res, dia, run) ==
    /\ c.failed <=> c.report # <<>>
    /\ c.hungUp => i.phase = "done" /\ res.data = <<>>
    /\ c.exit # "none" =>
           /\ c.hungUp /\ c.frame = <<>> /\ dia.data = <<>> /\ run.data = <<>>
           /\ c.stdout = c.result /\ c.stderr = c.report
           /\ c.failed => c.exit = "failed"
           /\ ~c.failed => c.exit = "done"

\* The rounds there may still be before the image is written or given up.
Remaining(f, n, sent, delay) ==
    CASE f.phase = "stage" ->
            (IF n > 0 THEN delay + (n - sent) ELSE CompileWait - f.waited) + FrameCells + 3
      [] f.phase = "write" -> Len(f.diagnostic) + 2
      [] OTHER -> 1

\* The isolate's patience outlasts them, by d rounds.
Outlasts(early, k, i, rounds) ==
    early /\ ~k.written /\ ~k.closed => i.waited + rounds <= IsolateWait

SourceIn(v) ==
    Reading(v.st.first, v.ch["source"], v.st.source.cells, v.st.sent, v.st.delay)
ImageOn(v) == Imaging(v.st.first, v.st.isolate, v.ch["image"])
OutcomeOf(v) ==
    /\ Diagnosed(v.st.graph, v.st.first, v.st.isolate, v.st.cli, v.ch["diagnostic"], v.ch["runtime"])
    /\ Resulting(v.st.isolate, v.st.cli, v.ch["result"])
    /\ Exiting(v.st.isolate, v.st.cli, v.ch["result"], v.ch["diagnostic"], v.ch["runtime"])
InTime(v, d) ==
    Outlasts(v.st.early, v.ch["image"], v.st.isolate,
             d + Remaining(v.st.first, v.st.source.cells, v.st.sent, v.st.delay))

Flows(v) == Typed(v) /\ SourceIn(v) /\ ImageOn(v) /\ OutcomeOf(v)

\* Between rounds what came in is read.
AllRead(v) == v.st.first.phase = "stage" => v.ch["source"].data = <<>>

\* Past the producer a cell has come, or one less is to come, or none is.
Coming(f, k, n, sent, delay) ==
    f.phase = "stage" =>
        /\ Len(k.data) <= 1
        /\ sent = 0 /\ n > 0 => f.waited + delay < MaxDelay
Produced(v) ==
    /\ Coming(v.st.first, v.ch["source"], v.st.source.cells, v.st.sent, v.st.delay)
    /\ \/ InTime(v, 1) \/ v.st.source.cells = 0 \/ v.st.first.phase # "stage"
       \/ v.ch["source"].closed /\ v.ch["source"].data = <<>>

GraphInv(v) == Flows(v) /\ AllRead(v) /\ InTime(v, 0)

Now == [st |-> st, ch |-> ch]

-----------------------------------------------------------------------------
(* Streams and channels.                                                   *)

Least(m, n) == IF m < n THEN m ELSE n

\* A stream is cut into what is taken and what is left.
LEMMA Cut ==
    ASSUME NEW S, NEW s \in Seq(S), NEW n \in Nat
    PROVE  LET k == Least(n, Len(s))
           IN  /\ k \in Nat /\ k <= Len(s) /\ k <= n
               /\ SubSeq(s, 1, k) \in Seq(S) /\ Len(SubSeq(s, 1, k)) = k
               /\ SubSeq(s, k + 1, Len(s)) \in Seq(S)
               /\ Len(SubSeq(s, k + 1, Len(s))) = Len(s) - k
<1> DEFINE k == Least(n, Len(s))
<1>1. Len(s) \in Nat /\ k \in Nat /\ k <= Len(s) /\ k <= n  BY DEF Least
<1> HIDE DEF k
<1>2. \A i \in 1 .. k : s[i] \in S  BY <1>1
<1>3. SubSeq(s, 1, k) \in Seq(S) /\ Len(SubSeq(s, 1, k)) = k  BY <1>1
<1>4. SubSeq(s, k + 1, Len(s)) \in Seq(S) /\ Len(SubSeq(s, k + 1, Len(s))) = Len(s) - k
  <2>1. k + 1 \in Int /\ Len(s) \in Int /\ k + 1 >= 1 /\ k + 1 <= Len(s) + 1  BY <1>1
  <2> QED BY <1>1, <2>1
<1> QED BY <1>1, <1>3, <1>4 DEF k

\* A stream of one kind of cell is known by its length.
LEMMA LineOf ==
    ASSUME NEW x
    PROVE  /\ \A n \in Nat : Line(x, n) \in Seq({x}) /\ Len(Line(x, n)) = n
           /\ \A s \in Seq({x}) : s = Line(x, Len(s))
<1>1. ASSUME NEW n \in Nat PROVE Line(x, n) \in Seq({x}) /\ Len(Line(x, n)) = n
  <2>1. \A i \in 1 .. n : x \in {x}  OBVIOUS
  <2>2. Line(x, n) = [i \in 1 .. n |-> x]  BY DEF Line
  <2>3. Line(x, n) \in [1 .. n -> {x}]  BY <2>2
  <2>4. Line(x, n) \in Seq({x})  BY <2>2, IsASeq
  <2> QED BY <2>2, <2>4
<1>2. ASSUME NEW s \in Seq({x}) PROVE s = Line(x, Len(s))
  <2>1. Len(s) \in Nat /\ s = [i \in 1 .. Len(s) |-> s[i]]  OBVIOUS
  <2>2. \A i \in 1 .. Len(s) : s[i] = x  OBVIOUS
  <2>3. [i \in 1 .. Len(s) |-> s[i]] = [i \in 1 .. Len(s) |-> x]  BY <2>2
  <2> QED BY <2>1, <2>3 DEF Line
<1> QED BY <1>1, <1>2

\* Streams joined.
LEMMA Joined ==
    ASSUME NEW S, NEW s \in Seq(S), NEW e \in Seq(S)
    PROVE  s \o e \in Seq(S) /\ Len(s \o e) = Len(s) + Len(e)
OBVIOUS

\* A stream is empty when its length is zero.
LEMMA NoneOf ==
    ASSUME NEW S, NEW s \in Seq(S)
    PROVE  Len(s) \in Nat /\ (s = <<>> <=> Len(s) = 0)
OBVIOUS

\* The same of a channel's stream.
LEMMA NoneLeft ==
    ASSUME NEW c, NEW s \in StreamOf(c)
    PROVE  Len(s) \in Nat /\ (s = <<>> <=> Len(s) = 0)
BY DEF StreamOf

\* A typed state as the record it is.
Record(v) ==
    /\ v = [st |-> v.st, ch |-> v.ch]
    /\ v.st = [graph |-> v.st.graph, early |-> v.st.early, source |-> v.st.source,
               delay |-> v.st.delay, sent |-> v.st.sent, beat |-> v.st.beat,
               first |-> v.st.first, isolate |-> v.st.isolate, cli |-> v.st.cli]

\* A typed state is that record.
LEMMA TypedRecord == ASSUME NEW v, Typed(v) PROVE Record(v)
BY DEF Typed, GraphState, Record

\* What keeps a channel record one, of its content.
LEMMA OnChannelDoes ==
    ASSUME NEW v, Typed(v), NEW c \in Channels, NEW k \in Channel, k.data \in StreamOf(c)
    PROVE  LET w == OnChannel(v, c, k)
           IN  /\ Typed(w) /\ w.st = v.st /\ w.ch[c] = k
               /\ \A d \in Channels \ {c} : w.ch[d] = v.ch[d]
<1> DEFINE w == OnChannel(v, c, k)
<1>1. v = [st |-> v.st, ch |-> v.ch] /\ v.ch \in [Channels -> Channel]
  BY DEF Typed
<1>2. PICK h : h = [v.ch EXCEPT ![c] = k]  OBVIOUS
<1>3. w = [v EXCEPT !.ch = h]  BY <1>2 DEF OnChannel
<1>4. w = [st |-> v.st, ch |-> h]  BY <1>1, <1>3
<1>5. w.st = v.st /\ w.ch = h  BY <1>4
<1>6. h \in [Channels -> Channel] /\ h[c] = k /\ \A d \in Channels \ {c} : h[d] = v.ch[d]
  BY <1>1, <1>2
<1>7. \A d \in Channels : h[d].data \in StreamOf(d)  BY <1>6 DEF Typed
<1>8. Typed(w)  BY <1>4, <1>5, <1>6, <1>7 DEF Typed
<1> HIDE DEF w
<1> QED BY <1>5, <1>6, <1>8 DEF w

\* Reading: what is taken is gone from the channel, and nothing else changes.
LEMMA DropDoes ==
    ASSUME NEW v, Typed(v), NEW c \in Channels, NEW n \in Nat
    PROVE  LET w == Drop(v, c, n)
               l == Least(n, Len(v.ch[c].data))
           IN  /\ Typed(w) /\ w.st = v.st
               /\ \A d \in Channels \ {c} : w.ch[d] = v.ch[d]
               /\ Len(w.ch[c].data) = Len(v.ch[c].data) - l
               /\ w.ch[c].written = v.ch[c].written /\ w.ch[c].closed = v.ch[c].closed
               /\ Take(v, c, n) \in StreamOf(c) /\ Len(Take(v, c, n)) = l
<1> DEFINE s == v.ch[c].data
           l == Least(n, Len(s))
           rest == SubSeq(s, l + 1, Len(s))
           k == [v.ch[c] EXCEPT !.data = rest]
<1>1. v.ch[c] \in Channel /\ s \in StreamOf(c)  BY DEF Typed
<1>2. /\ l \in Nat /\ SubSeq(s, 1, l) \in StreamOf(c) /\ Len(SubSeq(s, 1, l)) = l
      /\ rest \in StreamOf(c) /\ Len(rest) = Len(s) - l
  BY <1>1, Cut DEF StreamOf
<1>3. Take(v, c, n) = SubSeq(s, 1, l)  BY DEF Take, Least
<1>4. Drop(v, c, n) = OnChannel(v, c, k)  BY <1>2, <1>3 DEF Drop
<1>5. rest \in Seq(Contents)
  <2>1. Of(c) \in Contents  BY DEF Of, Contents
  <2>2. s \in Seq(Contents)  BY <1>1 DEF Channel
  <2> QED BY <2>2, Cut
<1> HIDE DEF rest
<1>6. k \in Channel /\ k.data = rest /\ k.written = v.ch[c].written /\ k.closed = v.ch[c].closed
  BY <1>1, <1>5 DEF Channel
<1> HIDE DEF k, l, s
<1>7. LET w == OnChannel(v, c, k)
      IN  /\ Typed(w) /\ w.st = v.st /\ w.ch[c] = k
          /\ \A d \in Channels \ {c} : w.ch[d] = v.ch[d]
  BY <1>2, <1>6, OnChannelDoes
<1>8. PICK w : w = Drop(v, c, n)  OBVIOUS
<1>9. /\ Typed(w) /\ w.st = v.st /\ w.ch[c] = k
      /\ \A d \in Channels \ {c} : w.ch[d] = v.ch[d]
  BY <1>4, <1>7, <1>8
<1>10. Take(v, c, n) \in StreamOf(c) /\ Len(Take(v, c, n)) = l  BY <1>2, <1>3
<1>11. Len(w.ch[c].data) = Len(s) - l  BY <1>2, <1>6, <1>9
<1>12. w.ch[c].written = v.ch[c].written /\ w.ch[c].closed = v.ch[c].closed  BY <1>6, <1>9
<1> QED BY <1>8, <1>9, <1>10, <1>11, <1>12 DEF l, s

\* Writing: what is put is behind what was there.
LEMMA PutDoes ==
    ASSUME NEW v, Typed(v), NEW c \in Channels, NEW e \in StreamOf(c)
    PROVE  LET w == Put(v, c, e)
           IN  /\ Typed(w) /\ w.st = v.st
               /\ \A d \in Channels \ {c} : w.ch[d] = v.ch[d]
               /\ Len(w.ch[c].data) = Len(v.ch[c].data) + Len(e)
               /\ (w.ch[c].written <=> v.ch[c].written \/ e # <<>>)
               /\ w.ch[c].closed = v.ch[c].closed
<1> DEFINE s == v.ch[c].data
           k == [v.ch[c] EXCEPT !.data = s \o e, !.written = TRUE]
<1>1. v.ch[c] \in Channel /\ s \in StreamOf(c)  BY DEF Typed
<1>2. s \o e \in StreamOf(c) /\ Len(s \o e) = Len(s) + Len(e)  BY <1>1 DEF StreamOf
<1>3. CASE e = <<>>
  <2>1. Put(v, c, e) = v  BY <1>3 DEF Put
  <2>2. Len(e) = 0 /\ Len(s) \in Nat /\ v.ch[c].written \in BOOLEAN  BY <1>1, <1>3 DEF Channel, StreamOf
  <2> QED BY <1>3, <2>1, <2>2
<1>4. CASE e # <<>>
  <2>1. Put(v, c, e) = OnChannel(v, c, k)  BY <1>4 DEF Put
  <2>2. s \o e \in Seq(Contents)
    <3>1. Of(c) \in Contents  BY DEF Of, Contents
    <3>2. e \in Seq(Contents)  BY <3>1 DEF StreamOf
    <3>3. s \in Seq(Contents)  BY <1>1 DEF Channel
    <3> QED BY <3>2, <3>3
  <2>3. k \in Channel /\ k.data = s \o e /\ k.written = TRUE /\ k.closed = v.ch[c].closed
    BY <1>1, <2>2 DEF Channel
  <2> HIDE DEF k
  <2>31. LET w == OnChannel(v, c, k)
         IN  /\ Typed(w) /\ w.st = v.st /\ w.ch[c] = k
             /\ \A d \in Channels \ {c} : w.ch[d] = v.ch[d]
    <3>1. k.data \in StreamOf(c)  BY <1>2, <2>3
    <3>2. k \in Channel  BY <2>3
    <3> QED BY <3>1, <3>2, OnChannelDoes
  <2>4. PICK w : w = Put(v, c, e)  OBVIOUS
  <2>5. /\ Typed(w) /\ w.st = v.st /\ w.ch[c] = k
        /\ \A d \in Channels \ {c} : w.ch[d] = v.ch[d]
    BY <2>1, <2>31, <2>4
  <2>6. Len(w.ch[c].data) = Len(v.ch[c].data) + Len(e)  BY <1>2, <2>3, <2>5
  <2>7. (w.ch[c].written <=> v.ch[c].written \/ e # <<>>) /\ w.ch[c].closed = v.ch[c].closed
    BY <1>4, <2>3, <2>5
  <2> QED BY <2>4, <2>5, <2>6, <2>7
<1> QED BY <1>3, <1>4

\* Closing.
LEMMA CloseDoes ==
    ASSUME NEW v, Typed(v), NEW cs
    PROVE  LET w == Close(v, cs)
           IN  /\ Typed(w) /\ w.st = v.st
               /\ \A d \in Channels : /\ w.ch[d].data = v.ch[d].data /\ w.ch[d].written = v.ch[d].written
                                      /\ (w.ch[d].closed <=> v.ch[d].closed \/ d \in cs)
<1> DEFINE k(d) == [v.ch[d] EXCEPT !.closed = v.ch[d].closed \/ d \in cs]
<1>1. v = [st |-> v.st, ch |-> v.ch] /\ v.ch \in [Channels -> Channel]
  BY DEF Typed
<1>2. ASSUME NEW d \in Channels
      PROVE  /\ k(d) \in Channel /\ k(d).data = v.ch[d].data /\ k(d).written = v.ch[d].written
             /\ k(d).closed = (v.ch[d].closed \/ d \in cs)
  <2>1. v.ch[d] \in Channel  BY <1>1
  <2>2. PICK b \in BOOLEAN : b = (v.ch[d].closed \/ d \in cs)  OBVIOUS
  <2>3. k(d) = [v.ch[d] EXCEPT !.closed = b]  BY <2>2
  <2> HIDE DEF k
  <2>4. /\ k(d) \in Channel /\ k(d).data = v.ch[d].data /\ k(d).written = v.ch[d].written
        /\ k(d).closed = b
    BY <2>1, <2>3 DEF Channel
  <2> QED BY <2>2, <2>4
<1>3. PICK h : h = [d \in Channels |-> k(d)]  OBVIOUS
<1>4. Close(v, cs) = [v EXCEPT !.ch = h]  BY <1>3 DEF Close
<1> HIDE DEF k
<1>5. PICK w : w = [v EXCEPT !.ch = h]  OBVIOUS
<1>6. w = [st |-> v.st, ch |-> h]  BY <1>1, <1>5
<1>7. w.st = v.st /\ w.ch = h /\ w = [st |-> w.st, ch |-> w.ch]  BY <1>6
<1>8. h \in [Channels -> Channel] /\ \A d \in Channels : h[d] = k(d)  BY <1>2, <1>3
<1>9. \A d \in Channels : h[d].data \in StreamOf(d)  BY <1>2, <1>8 DEF Typed
<1>10. Typed(w)  BY <1>7, <1>8, <1>9 DEF Typed
<1>11. ASSUME NEW d \in Channels
       PROVE  /\ w.ch[d].data = v.ch[d].data /\ w.ch[d].written = v.ch[d].written
              /\ (w.ch[d].closed <=> v.ch[d].closed \/ d \in cs)
  <2>1. w.ch[d] = k(d)  BY <1>7, <1>8
  <2> QED BY <1>2, <2>1
<1>12. Close(v, cs) = w  BY <1>4, <1>5
<1> QED BY <1>7, <1>10, <1>11, <1>12

\* A write of what the port takes: what is left and what is on the channel
\* are together what they were, and at least a cell moves.
Pushed(v, c, e, r) ==
    /\ Typed(r.v) /\ r.v.st = v.st
    /\ \A d \in Channels \ {c} : r.v.ch[d] = v.ch[d]
    /\ r.left \in StreamOf(c)
    /\ Len(r.v.ch[c].data) + Len(r.left) = Len(v.ch[c].data) + Len(e)
    /\ Len(r.left) <= Len(e) /\ (e # <<>> => Len(r.left) < Len(e))
    /\ (r.v.ch[c].written <=> v.ch[c].written \/ e # <<>>)
    /\ r.v.ch[c].closed = v.ch[c].closed

LEMMA PushDoes ==
    ASSUME NEW v, Typed(v), NEW c \in Channels, NEW e \in StreamOf(c), NEW a \in Nat \ {0}
    PROVE  Pushed(v, c, e, push_progress(v, c, e, a))
<1> DEFINE l == Least(a, Len(e))
           p == SubSeq(e, 1, l)
           rest == SubSeq(e, l + 1, Len(e))
<1>1. /\ l \in Nat /\ l <= Len(e) /\ p \in StreamOf(c) /\ Len(p) = l
      /\ rest \in StreamOf(c) /\ Len(rest) = Len(e) - l
  BY Cut DEF StreamOf
<1>2. PICK r : r = push_progress(v, c, e, a)  OBVIOUS
<1>21. r.v = Put(v, c, p) /\ r.left = rest  BY <1>2 DEF push_progress, Least
<1>3. Len(e) \in Nat /\ (e # <<>> => Len(e) > 0 /\ l > 0) /\ (e = <<>> => l = 0)
  <2>1. Len(e) \in Nat /\ (e = <<>> <=> Len(e) = 0)  BY DEF StreamOf
  <2> QED BY <2>1 DEF Least
<1>4. p # <<>> <=> e # <<>>
  <2>1. p = <<>> <=> Len(p) = 0  BY <1>1 DEF StreamOf
  <2> QED BY <1>1, <1>3, <2>1
<1> HIDE DEF p, rest, l
<1>5. PICK w : w = Put(v, c, p)  OBVIOUS
<1>6. /\ Typed(w) /\ w.st = v.st
      /\ \A d \in Channels \ {c} : w.ch[d] = v.ch[d]
      /\ Len(w.ch[c].data) = Len(v.ch[c].data) + Len(p)
      /\ (w.ch[c].written <=> v.ch[c].written \/ p # <<>>)
      /\ w.ch[c].closed = v.ch[c].closed
  <2>1. p \in StreamOf(c)  BY <1>1
  <2> QED BY <1>5, <2>1, PutDoes
<1>7. Len(v.ch[c].data) \in Nat  BY DEF Typed, StreamOf
<1>8. /\ Len(w.ch[c].data) + Len(rest) = Len(v.ch[c].data) + Len(e)
      /\ Len(rest) <= Len(e) /\ (e # <<>> => Len(rest) < Len(e))
  BY <1>1, <1>3, <1>6, <1>7
<1>9. Pushed(v, c, e, r)  BY <1>1, <1>21, <1>4, <1>5, <1>6, <1>8 DEF Pushed
<1> QED BY <1>2, <1>9

-----------------------------------------------------------------------------
(* The modules' states.                                                    *)

\* A state with another compiler, isolate or edge.
LEMMA Within ==
    ASSUME NEW v, Typed(v),
           NEW f \in FirstState, NEW i \in IsolateState, NEW c \in EdgeState, NEW w,
           w = [st |-> [graph |-> v.st.graph, early |-> v.st.early, source |-> v.st.source,
                        delay |-> v.st.delay, sent |-> v.st.sent, beat |-> v.st.beat,
                        first |-> f, isolate |-> i, cli |-> c],
                ch |-> v.ch]
    PROVE  /\ Typed(w) /\ w.ch = v.ch
           /\ w.st.graph = v.st.graph /\ w.st.early = v.st.early /\ w.st.source = v.st.source
           /\ w.st.delay = v.st.delay /\ w.st.sent = v.st.sent
           /\ w.st.first = f /\ w.st.isolate = i /\ w.st.cli = c
<1>1. /\ v.ch \in [Channels -> Channel] /\ \A d \in Channels : v.ch[d].data \in StreamOf(d)
      /\ v.st \in GraphState
  BY DEF Typed
<1>2. w = [st |-> w.st, ch |-> w.ch] /\ w.ch = v.ch  OBVIOUS
<1>3. w.st \in GraphState  BY <1>1 DEF GraphState
<1>4. Typed(w)  BY <1>1, <1>2, <1>3 DEF Typed
<1> QED BY <1>4

\* The parts of a typed state.
LEMMA Parts ==
    ASSUME NEW v, Typed(v)
    PROVE  /\ v.st.first \in FirstState /\ v.st.isolate \in IsolateState /\ v.st.cli \in EdgeState
           /\ v.st.graph \in {"compile", "link"} /\ v.st.early \in BOOLEAN /\ v.st.early \in Early
           /\ v.st.source \in Sources
           /\ v.st.source.cells \in Nat /\ v.st.delay \in Nat /\ v.st.sent \in Nat
           /\ \A c \in Channels : /\ v.ch[c] \in Channel /\ v.ch[c].data \in StreamOf(c)
                                  /\ Len(v.ch[c].data) \in Nat
<1>1. /\ v.st \in GraphState /\ v.ch \in [Channels -> Channel]
      /\ \A c \in Channels : v.ch[c].data \in StreamOf(c)
  BY DEF Typed
<1>2. v.st.source \in [cells : Nat, says : {"value", "refused", "throws"}]
  BY <1>1, PipelineAssumption DEF GraphState
<1>3. v.st.graph \in {"compile", "link"} /\ v.st.early \in BOOLEAN
  BY <1>1, PipelineAssumption DEF GraphState
<1> QED BY <1>1, <1>2, <1>3 DEF GraphState, StreamOf

\* What a part of the invariant does not speak of may change.
LEMMA SourceStays ==
    ASSUME NEW v, NEW w, SourceIn(v),
           w.st.source = v.st.source, w.st.sent = v.st.sent, w.st.delay = v.st.delay,
           w.st.first = v.st.first, w.ch["source"] = v.ch["source"]
    PROVE  SourceIn(w)
BY DEF SourceIn

\* The same of what is said of the image.
LEMMA ImageStays ==
    ASSUME NEW v, NEW w, ImageOn(v), w.st.first = v.st.first, w.st.isolate = v.st.isolate,
           w.ch["image"] = v.ch["image"]
    PROVE  ImageOn(w)
BY DEF ImageOn

\* The same of what is said of the outcome.
LEMMA OutcomeStays ==
    ASSUME NEW v, NEW w, OutcomeOf(v), w.st.graph = v.st.graph, w.st.first = v.st.first,
           w.st.isolate = v.st.isolate, w.st.cli = v.st.cli,
           w.ch["result"] = v.ch["result"], w.ch["diagnostic"] = v.ch["diagnostic"],
           w.ch["runtime"] = v.ch["runtime"]
    PROVE  OutcomeOf(w)
BY DEF OutcomeOf

\* The same of the rounds that are left.
LEMMA TimeStays ==
    ASSUME NEW v, NEW w, NEW d, InTime(v, d), w.st.early = v.st.early,
           w.st.source = v.st.source, w.st.sent = v.st.sent, w.st.delay = v.st.delay,
           w.st.first = v.st.first, w.st.isolate = v.st.isolate, w.ch["image"] = v.ch["image"]
    PROVE  InTime(w, d)
BY DEF InTime

\* What is left of the rounds, and that a round less to wait for is a round
\* of patience.
Counted(r, f, n, sent, delay) ==
    /\ r \in Nat
    /\ f.phase = "stage" /\ n > 0 => r = delay + (n - sent) + 5
    /\ f.phase = "stage" /\ n = 0 => r = (CompileWait - f.waited) + 5
    /\ f.phase = "write" => r = Len(f.diagnostic) + 2
    /\ f.phase \notin {"stage", "write"} => r = 1

\* What Remaining is, case by case.
LEMMA RemainingIs ==
    ASSUME NEW f \in FirstState, NEW n \in Nat, NEW sent \in Nat, NEW delay \in Nat, sent <= n,
           f.waited <= CompileWait
    PROVE  Counted(Remaining(f, n, sent, delay), f, n, sent, delay)
<1>1. f.waited \in Nat /\ Len(f.diagnostic) \in Nat /\ CompileWait \in Nat
  BY PipelineAssumption DEF FirstState
<1>2. CASE f.phase = "stage"
  <2>1. Remaining(f, n, sent, delay) =
            (IF n > 0 THEN delay + (n - sent) ELSE CompileWait - f.waited) + FrameCells + 3
    BY <1>2 DEF Remaining
  <2>2. FrameCells = 2  BY DEF FrameCells
  <2>3. CASE n > 0  BY <1>2, <2>1, <2>2, <2>3 DEF Counted
  <2>4. CASE n = 0  BY <1>1, <1>2, <2>1, <2>2, <2>4 DEF Counted
  <2> QED BY <2>3, <2>4
<1>3. CASE f.phase = "write"
  <2>1. Remaining(f, n, sent, delay) = Len(f.diagnostic) + 2  BY <1>3 DEF Remaining
  <2> QED BY <1>1, <1>3, <2>1 DEF Counted
<1>4. CASE f.phase \notin {"stage", "write"}
  <2>1. Remaining(f, n, sent, delay) = 1  BY <1>4 DEF Remaining
  <2> QED BY <1>4, <2>1 DEF Counted
<1> QED BY <1>2, <1>3, <1>4

\* The rounds a state still has.
Rounds(v) == Remaining(v.st.first, v.st.source.cells, v.st.sent, v.st.delay)

\* A state that has no more rounds to wait for keeps the isolate in time.
LEMMA RoundLess ==
    ASSUME NEW v, NEW w, NEW d \in Nat, NEW e \in Nat, InTime(v, d), w.st.early = v.st.early,
           w.st.isolate.waited = v.st.isolate.waited, v.st.isolate.waited \in Nat,
           v.ch["image"].written => w.ch["image"].written,
           v.ch["image"].closed => w.ch["image"].closed,
           Rounds(v) \in Nat, Rounds(w) \in Nat, e + Rounds(w) <= d + Rounds(v)
    PROVE  InTime(w, e)
<1>1. IsolateWait \in Nat  BY PipelineAssumption
<1>2. SUFFICES ASSUME w.st.early, ~w.ch["image"].written, ~w.ch["image"].closed
               PROVE  w.st.isolate.waited + (e + Rounds(w)) <= IsolateWait
  BY DEF InTime, Outlasts, Rounds
<1>3. v.st.isolate.waited + (d + Rounds(v)) <= IsolateWait  BY <1>2 DEF InTime, Outlasts, Rounds
<1> QED BY <1>1, <1>3

\* The producer of the source.
LEMMA ProducerKeeps ==
    ASSUME NEW v, GraphInv(v), NEW w, w = Producer(v)
    PROVE  Flows(w) /\ Produced(w) /\ InTime(w, 0)
<1> DEFINE f == v.st.first
           n == v.st.source.cells
           sent == v.st.sent
           delay == v.st.delay
           k == v.ch["source"]
<1>0. /\ Typed(v) /\ SourceIn(v) /\ ImageOn(v) /\ OutcomeOf(v) /\ AllRead(v)
      /\ InTime(v, 0) /\ Record(v)
  BY TypedRecord DEF GraphInv, Flows
<1>1. /\ f \in FirstState /\ n \in Nat /\ delay \in Nat /\ sent \in Nat
      /\ f.waited \in Nat /\ Len(k.data) \in Nat /\ Len(f.got) \in Nat
      /\ v.st.isolate.waited \in Nat /\ k \in Channel
  <2>1. f \in FirstState /\ n \in Nat /\ delay \in Nat /\ sent \in Nat
        /\ v.st.isolate \in IsolateState /\ Len(k.data) \in Nat /\ k \in Channel
    BY <1>0, Parts DEF Channels
  <2>2. f.waited \in Nat /\ f.got \in Seq({"source"})  BY <2>1 DEF FirstState
  <2>3. v.st.isolate.waited \in Nat  BY <2>1 DEF IsolateState
  <2>4. Len(f.got) \in Nat  BY <2>2, NoneOf
  <2> QED BY <2>1, <2>2, <2>3, <2>4
<1>2. CompileWait \in Nat /\ MaxDelay \in Nat  BY PipelineAssumption
<1>3. /\ Reading(f, k, n, sent, delay)
      /\ f.phase = "stage" => k.data = <<>>
      /\ f.waited <= CompileWait /\ sent <= n
  BY <1>0 DEF SourceIn, Reading, AllRead
<1>4. FrameCells = 2  BY DEF FrameCells
<1>5. CASE delay > 0
  <2>1. w = [v EXCEPT !.st.delay = delay - 1]  BY <1>5 DEF Producer
  <2>2. /\ w.ch = v.ch /\ w.st.graph = v.st.graph /\ w.st.early = v.st.early
        /\ w.st.source = v.st.source /\ w.st.delay = delay - 1 /\ w.st.sent = sent
        /\ w.st.first = f /\ w.st.isolate = v.st.isolate /\ w.st.cli = v.st.cli
        /\ w.st.beat = v.st.beat /\ Record(w)
    BY <1>0, <2>1 DEF Record
  <2>3. delay - 1 \in Nat  BY <1>1, <1>5
  <2>4. Typed(w)
    <3>1. w.st \in GraphState  BY <1>0, <2>2, <2>3 DEF Typed, GraphState, Record
    <3> QED BY <1>0, <2>2, <3>1 DEF Typed, Record
  <2> HIDE DEF f, n, sent, delay, k
  <2>41. f.phase = "stage" /\ sent = 0 /\ n > 0 =>
             f.waited + (delay - 1) <= MaxDelay /\ f.waited + (delay - 1) < MaxDelay
    <3>1. f.phase = "stage" /\ sent = 0 /\ n > 0 => f.waited + delay <= MaxDelay
      BY <1>3 DEF Reading
    <3> QED BY <1>1, <1>2, <3>1
  <2>5. Reading(f, k, n, sent, delay - 1)  BY ONLY <1>3, <2>41 DEF Reading
  <2>6. Coming(f, k, n, sent, delay - 1)
    <3>1. f.phase = "stage" => Len(k.data) <= 1  BY <1>3
    <3> QED BY ONLY <2>41, <3>1 DEF Coming
  <2>7. /\ Remaining(f, n, sent, delay) \in Nat /\ Remaining(f, n, sent, delay - 1) \in Nat
        /\ Remaining(f, n, sent, delay - 1) <= Remaining(f, n, sent, delay)
        /\ f.phase = "stage" /\ n > 0 =>
               Remaining(f, n, sent, delay - 1) + 1 <= Remaining(f, n, sent, delay)
    <3>1. Counted(Remaining(f, n, sent, delay), f, n, sent, delay)
      BY <1>1, <1>3, RemainingIs
    <3>2. Counted(Remaining(f, n, sent, delay - 1), f, n, sent, delay - 1)
      BY <1>1, <1>3, <2>3, RemainingIs
    <3>3. PICK r : r = Remaining(f, n, sent, delay)  OBVIOUS
    <3>4. PICK q : q = Remaining(f, n, sent, delay - 1)  OBVIOUS
    <3>5. /\ r \in Nat /\ q \in Nat /\ q <= r
          /\ f.phase = "stage" /\ n > 0 => q + 1 <= r
      BY ONLY <1>1, <1>3, <3>1, <3>2, <3>3, <3>4 DEF Counted
    <3> QED BY <3>3, <3>4, <3>5
  <2> USE DEF f, n, sent, delay, k
  <2>8. ImageOn(w) /\ OutcomeOf(w)  BY <1>0, <2>2, ImageStays, OutcomeStays
  <2>9. SourceIn(w)  BY <2>2, <2>5 DEF SourceIn
  <2>71. /\ Rounds(v) = Remaining(f, n, sent, delay) /\ Rounds(w) = Remaining(f, n, sent, delay - 1)
         /\ InTime(v, 0) /\ w.st.early = v.st.early /\ w.st.isolate.waited = v.st.isolate.waited
         /\ v.st.isolate.waited \in Nat /\ w.ch["image"] = v.ch["image"]
    BY <1>0, <1>1, <2>2 DEF Rounds
  <2> HIDE DEF f, n, sent, delay, k
  <2>10. InTime(w, 0)  BY <2>7, <2>71, RoundLess
  <2>11. f.phase = "stage" /\ n > 0 => InTime(w, 1)  BY <2>7, <2>71, RoundLess
  <2> USE DEF f, n, sent, delay, k
  <2>12. Produced(w)  BY <1>1, <2>2, <2>6, <2>11 DEF Produced
  <2> QED BY <2>4, <2>8, <2>9, <2>10, <2>12 DEF Flows
<1>6. CASE delay = 0 /\ sent < n
  <2> DEFINE e == Line("source", 1)
  <2>0. e \in StreamOf("source") /\ Len(e) = 1 /\ e # <<>>
    <3>1. e \in Seq({"source"}) /\ Len(e) = 1  BY LineOf
    <3> QED BY <3>1 DEF StreamOf, Of
  <2> HIDE DEF e
  <2>1. PICK u : u = Put(v, "source", e)  OBVIOUS
  <2>2. "source" \in Channels /\ e \in StreamOf("source")  BY <2>0 DEF Channels
  <2>3. /\ Typed(u) /\ u.st = v.st /\ \A d \in Channels \ {"source"} : u.ch[d] = v.ch[d]
        /\ Len(u.ch["source"].data) = Len(k.data) + Len(e)
        /\ (u.ch["source"].written <=> k.written \/ e # <<>>)
        /\ u.ch["source"].closed = k.closed
    BY <1>0, <2>1, <2>2, PutDoes
  <2>4. w = [u EXCEPT !.st.sent = sent + 1]
    <3>1. w = [u EXCEPT !.st.sent = u.st.sent + 1]  BY <1>6, <2>1 DEF Producer, e
    <3> QED BY <2>3, <3>1
  <2>5. Record(u)  BY <2>3, TypedRecord
  <2>6. /\ w.ch = u.ch /\ w.st.graph = v.st.graph /\ w.st.early = v.st.early
        /\ w.st.source = v.st.source /\ w.st.delay = delay /\ w.st.sent = sent + 1
        /\ w.st.first = f /\ w.st.isolate = v.st.isolate /\ w.st.cli = v.st.cli
        /\ w.st.beat = v.st.beat /\ Record(w)
    BY <2>3, <2>4, <2>5 DEF Record
  <2>7. sent + 1 \in Nat /\ sent + 1 > 0 /\ sent + 1 <= n  BY <1>1, <1>6
  <2>8. Typed(w)
    <3>1. w.st \in GraphState  BY <1>0, <2>6, <2>7 DEF Typed, GraphState, Record
    <3> QED BY <2>3, <2>6, <3>1 DEF Typed, Record
  <2> DEFINE h == w.ch["source"]
  <2>9. /\ h.written /\ h.closed = k.closed /\ Len(h.data) = Len(k.data) + 1
        /\ \A c \in {"image", "result", "diagnostic", "runtime"} : w.ch[c] = v.ch[c]
    BY <2>0, <2>3, <2>6 DEF Channels
  <2> HIDE DEF f, n, sent, delay, k, h
  <2>10. Reading(f, h, n, sent + 1, delay)
    <3>1. ~k.closed
      <4>1. k.closed => sent = n  BY <1>3 DEF Reading
      <4> QED BY <1>1, <1>6, <4>1
    <3>2. f.phase = "stage" /\ ~f.overflowed => Len(f.got) + Len(h.data) = sent + 1
      <4>1. f.phase = "stage" /\ ~f.overflowed => Len(f.got) + Len(k.data) = sent
        BY <1>3 DEF Reading
      <4>2. Len(h.data) = Len(k.data) + 1  BY <2>9
      <4>3. PICK g : g = Len(f.got)  OBVIOUS
      <4>4. PICK m : m = Len(k.data)  OBVIOUS
      <4>5. g \in Nat /\ m \in Nat /\ sent \in Nat  BY <1>1, <4>3, <4>4
      <4>6. g + m = sent => g + (m + 1) = sent + 1  BY ONLY <4>5
      <4>7. Len(f.got) + Len(k.data) = sent => Len(f.got) + Len(h.data) = sent + 1
        BY <4>2, <4>3, <4>4, <4>6
      <4> QED BY <4>1, <4>7
    <3>3. sent + 1 # 0  BY <2>7
    <3> QED BY <1>3, <2>7, <2>9, <3>1, <3>2, <3>3 DEF Reading
  <2>11. Coming(f, h, n, sent + 1, delay)
    <3>1. f.phase = "stage" => Len(h.data) <= 1  BY <1>3, <2>9
    <3> QED BY <1>1, <2>7, <3>1 DEF Coming
  <2>12. /\ Remaining(f, n, sent, delay) \in Nat /\ Remaining(f, n, sent + 1, delay) \in Nat
         /\ Remaining(f, n, sent + 1, delay) <= Remaining(f, n, sent, delay)
         /\ f.phase = "stage" => Remaining(f, n, sent + 1, delay) + 1 <= Remaining(f, n, sent, delay)
    <3>0. n > 0  BY <1>1, <2>7
    <3>1. Counted(Remaining(f, n, sent, delay), f, n, sent, delay)
      BY <1>1, <1>3, RemainingIs
    <3>2. Counted(Remaining(f, n, sent + 1, delay), f, n, sent + 1, delay)
      BY <1>1, <1>3, <2>7, RemainingIs
    <3>3. PICK r : r = Remaining(f, n, sent, delay)  OBVIOUS
    <3>4. PICK q : q = Remaining(f, n, sent + 1, delay)  OBVIOUS
    <3>5. /\ r \in Nat /\ q \in Nat /\ q <= r
          /\ f.phase = "stage" => q + 1 <= r
      BY ONLY <1>1, <1>3, <3>0, <3>1, <3>2, <3>3, <3>4 DEF Counted
    <3> QED BY <3>3, <3>4, <3>5
  <2> USE DEF f, n, sent, delay, k, h
  <2>13. ImageOn(w) /\ OutcomeOf(w)  BY <1>0, <2>6, <2>9, ImageStays, OutcomeStays
  <2>14. SourceIn(w)  BY <2>6, <2>10 DEF SourceIn
  <2>141. /\ Rounds(v) = Remaining(f, n, sent, delay) /\ Rounds(w) = Remaining(f, n, sent + 1, delay)
          /\ InTime(v, 0) /\ w.st.early = v.st.early /\ w.st.isolate.waited = v.st.isolate.waited
          /\ v.st.isolate.waited \in Nat /\ w.ch["image"] = v.ch["image"]
    BY <1>0, <1>1, <2>6, <2>9 DEF Rounds
  <2> HIDE DEF f, n, sent, delay, k, h
  <2>15. InTime(w, 0)  BY <2>12, <2>141, RoundLess
  <2>16. f.phase = "stage" => InTime(w, 1)  BY <2>12, <2>141, RoundLess
  <2> USE DEF f, n, sent, delay, k, h
  <2>17. Produced(w)  BY <2>6, <2>11, <2>16 DEF Produced
  <2> QED BY <2>8, <2>13, <2>14, <2>15, <2>17 DEF Flows
<1>7. CASE delay = 0 /\ sent >= n
  <2>1. w = Close(v, {"source"})  BY <1>1, <1>7 DEF Producer
  <2>2. /\ Typed(w) /\ w.st = v.st
        /\ \A d \in Channels : /\ w.ch[d].data = v.ch[d].data /\ w.ch[d].written = v.ch[d].written
                               /\ (w.ch[d].closed <=> v.ch[d].closed \/ d \in {"source"})
    BY <1>0, <2>1, CloseDoes
  <2>3. sent = n  BY <1>1, <1>3, <1>7
  <2> DEFINE h == w.ch["source"]
  <2>4. h.data = k.data /\ h.written = k.written /\ h.closed  BY <2>2 DEF Channels
  <2>6. \A c \in {"image", "result", "diagnostic", "runtime"} : w.ch[c] = v.ch[c]
    <3>1. ASSUME NEW c \in {"image", "result", "diagnostic", "runtime"} PROVE w.ch[c] = v.ch[c]
      <4>1. c \in Channels /\ c \notin {"source"}  BY DEF Channels
      <4>2. w.ch[c] \in Channel /\ v.ch[c] \in Channel  BY <1>0, <2>2, <4>1, Parts
      <4>3. /\ w.ch[c].data = v.ch[c].data /\ w.ch[c].written = v.ch[c].written
            /\ (w.ch[c].closed <=> v.ch[c].closed)
        BY <2>2, <4>1
      <4> QED BY <4>2, <4>3 DEF Channel
    <3> QED BY <3>1
  <2> HIDE DEF f, n, sent, delay, k, h
  <2>5. Reading(f, h, n, sent, delay)  BY <1>3, <2>3, <2>4 DEF Reading
  <2>7. Coming(f, h, n, sent, delay)
    <3>1. f.phase = "stage" => Len(h.data) <= 1  BY <1>3, <2>4
    <3> QED BY <1>1, <2>3, <3>1 DEF Coming
  <2>8. f.phase = "stage" => h.data = <<>>  BY <1>3, <2>4
  <2> USE DEF f, n, sent, delay, k, h
  <2>9. ImageOn(w) /\ OutcomeOf(w) /\ InTime(w, 0)
    BY <1>0, <2>2, <2>6, ImageStays, OutcomeStays, TimeStays
  <2>10. SourceIn(w)  BY <2>2, <2>5 DEF SourceIn
  <2>11. Produced(w)  BY <2>2, <2>4, <2>7, <2>8 DEF Produced
  <2> QED BY <2>2, <2>9, <2>10, <2>11 DEF Flows
<1> QED BY <1>1, <1>5, <1>6, <1>7

\* The compiler's or the linker's step changes its state and the channels of
\* the source, the image and the diagnostic.
LEMMA FirstFlows ==
    ASSUME NEW v, Flows(v), NEW w, Typed(w),
           w.st.graph = v.st.graph, w.st.source = v.st.source, w.st.delay = v.st.delay,
           w.st.sent = v.st.sent, w.st.isolate = v.st.isolate, w.st.cli = v.st.cli,
           w.ch["result"] = v.ch["result"], w.ch["runtime"] = v.ch["runtime"],
           Reading(w.st.first, w.ch["source"], v.st.source.cells, v.st.sent, v.st.delay),
           Imaging(w.st.first, v.st.isolate, w.ch["image"]),
           Diagnosed(v.st.graph, w.st.first, v.st.isolate, v.st.cli, w.ch["diagnostic"],
                     v.ch["runtime"]),
           v.st.cli.exit = "none" \/ w.ch["diagnostic"].data = v.ch["diagnostic"].data
    PROVE  Flows(w)
<1>1. OutcomeOf(v)  BY DEF Flows
<1>2. /\ Resulting(v.st.isolate, v.st.cli, v.ch["result"])
      /\ Exiting(v.st.isolate, v.st.cli, v.ch["result"], v.ch["diagnostic"], v.ch["runtime"])
  BY <1>1 DEF OutcomeOf
<1>3. Exiting(v.st.isolate, v.st.cli, v.ch["result"], w.ch["diagnostic"], v.ch["runtime"])
  BY <1>2 DEF Exiting
<1>4. OutcomeOf(w)  BY <1>2, <1>3 DEF OutcomeOf
<1>5. SourceIn(w)  BY DEF SourceIn
<1>6. ImageOn(w)  BY DEF ImageOn
<1> QED BY <1>4, <1>5, <1>6 DEF Flows

\* A state with another compiler or linker.
LEMMA WithFirst ==
    ASSUME NEW v, Typed(v), NEW f \in FirstState
    PROVE  LET w == [v EXCEPT !.st.first = f]
           IN  /\ Typed(w) /\ w.ch = v.ch
               /\ w.st.graph = v.st.graph /\ w.st.early = v.st.early /\ w.st.source = v.st.source
               /\ w.st.delay = v.st.delay /\ w.st.sent = v.st.sent
               /\ w.st.first = f /\ w.st.isolate = v.st.isolate /\ w.st.cli = v.st.cli
<1>1. PICK w : w = [v EXCEPT !.st.first = f]  OBVIOUS
<1>2. Record(v)  BY TypedRecord
<1>3. w = [st |-> [graph |-> v.st.graph, early |-> v.st.early, source |-> v.st.source,
                   delay |-> v.st.delay, sent |-> v.st.sent, beat |-> v.st.beat,
                   first |-> f, isolate |-> v.st.isolate, cli |-> v.st.cli],
           ch |-> v.ch]
  BY <1>1, <1>2 DEF Record
<1>4. v.st.isolate \in IsolateState /\ v.st.cli \in EdgeState  BY Parts
<1>5. /\ Typed(w) /\ w.ch = v.ch
      /\ w.st.graph = v.st.graph /\ w.st.early = v.st.early /\ w.st.source = v.st.source
      /\ w.st.delay = v.st.delay /\ w.st.sent = v.st.sent
      /\ w.st.first = f /\ w.st.isolate = v.st.isolate /\ w.st.cli = v.st.cli
  BY <1>3, <1>4, Within
<1> QED BY <1>1, <1>5

\* What a compiler or linker that still stages has not said or written.
LEMMA StagesOn ==
    ASSUME NEW f, NEW g, NEW i, NEW c, NEW img, NEW dia, NEW run, NEW graph,
           Imaging(f, i, img), Diagnosed(graph, f, i, c, dia, run),
           g.phase = f.phase, g.failed = f.failed, g.left = f.left,
           g.diagnostic = f.diagnostic, g.exit = f.exit
    PROVE  Imaging(g, i, img) /\ Diagnosed(graph, g, i, c, dia, run)
<1>1. Imaging(g, i, img)  BY DEF Imaging
<1>2. Refused(graph, g) <=> Refused(graph, f)  BY DEF Refused
<1>3. Diagnosed(graph, g, i, c, dia, run)  BY <1>2 DEF Diagnosed
<1> QED BY <1>1, <1>3

\* What is read is behind what was read, or is too much.
LEMMA StageReads ==
    ASSUME NEW v, Flows(v), Produced(v), v.st.first.phase = "stage", HasInput(v, "source"),
           NEW w, w = Stage(v)
    PROVE  Flows(w) /\ AllRead(w) /\ InTime(w, 1) /\ w.st.first.phase = "stage"
<1> DEFINE f == v.st.first
           n == v.st.source.cells
           sent == v.st.sent
           delay == v.st.delay
           k == v.ch["source"]
           room == SourceCells - Len(f.got)
<1>0. /\ Typed(v) /\ SourceIn(v) /\ ImageOn(v) /\ OutcomeOf(v)
      /\ "source" \in Channels
  BY DEF Flows, Channels
<1>1. /\ f \in FirstState /\ n \in Nat /\ delay \in Nat /\ sent \in Nat
      /\ f.waited \in Nat /\ Len(k.data) \in Nat /\ Len(f.got) \in Nat /\ f.got \in Seq({"source"})
      /\ v.st.isolate.waited \in Nat /\ k \in Channel /\ k.data \in StreamOf("source")
  <2>1. f \in FirstState /\ n \in Nat /\ delay \in Nat /\ sent \in Nat
        /\ v.st.isolate \in IsolateState /\ Len(k.data) \in Nat /\ k \in Channel
        /\ k.data \in StreamOf("source")
    BY <1>0, Parts
  <2>2. f.waited \in Nat /\ f.got \in Seq({"source"})  BY <2>1 DEF FirstState
  <2>3. v.st.isolate.waited \in Nat  BY <2>1 DEF IsolateState
  <2>4. Len(f.got) \in Nat  BY <2>2, NoneOf
  <2> QED BY <2>1, <2>2, <2>3, <2>4
<1>2. SourceCells \in Nat /\ SourceCells > 0 /\ CompileWait \in Nat  BY PipelineAssumption
<1>3. /\ Reading(f, k, n, sent, delay) /\ Coming(f, k, n, sent, delay) /\ f.phase = "stage"
  BY <1>0 DEF SourceIn, Produced
<1>4. k.data # <<>> /\ Len(k.data) = 1
  <2>1. k.data # <<>>  BY DEF HasInput
  <2>2. Len(k.data) <= 1  BY <1>3 DEF Coming
  <2>3. Len(k.data) \in Nat /\ Len(k.data) # 0  BY <1>1, <2>1, NoneLeft
  <2>4. \A l \in Nat : l # 0 /\ l <= 1 => l = 1  OBVIOUS
  <2> QED BY <2>1, <2>2, <2>3, <2>4
<1>5. Len(f.got) <= SourceCells /\ f.waited <= CompileWait /\ sent <= n  BY <1>3 DEF Reading
<1>6. sent > 0 /\ n > 0
  <2>1. f.overflowed => sent > 0  BY <1>3 DEF Reading
  <2>2. ~f.overflowed => Len(f.got) + Len(k.data) = sent  BY <1>3 DEF Reading
  <2>3. CASE f.overflowed  BY <1>1, <1>5, <2>1, <2>3
  <2>4. CASE ~f.overflowed  BY <1>1, <1>4, <1>5, <2>2, <2>4
  <2> QED BY <2>3, <2>4
<1>7. InTime(v, 1)
  <2>1. n # 0  BY <1>1, <1>6
  <2> QED BY <1>3, <1>4, <2>1 DEF Produced
<1>8. room \in Nat  BY <1>1, <1>2, <1>5
<1>9. PICK m : m = IF room = 0 THEN 1 ELSE room  OBVIOUS
<1>10. m \in Nat /\ m >= 1  BY <1>8, <1>9
<1>11. PICK u : u = Drop(v, "source", m)  OBVIOUS
<1>12. /\ Typed(u) /\ u.st = v.st /\ \A d \in Channels \ {"source"} : u.ch[d] = v.ch[d]
       /\ Len(u.ch["source"].data) = Len(k.data) - Least(m, Len(k.data))
       /\ u.ch["source"].written = k.written /\ u.ch["source"].closed = k.closed
       /\ Take(v, "source", m) \in StreamOf("source")
       /\ Len(Take(v, "source", m)) = Least(m, Len(k.data))
  BY <1>0, <1>10, <1>11, DropDoes
<1>13. Least(m, Len(k.data)) = 1  BY <1>4, <1>10 DEF Least
<1>14. /\ Len(u.ch["source"].data) = 0 /\ u.ch["source"].data = <<>>
       /\ Take(v, "source", m) \in Seq({"source"}) /\ Len(Take(v, "source", m)) = 1
  <2>1. u.ch["source"].data \in StreamOf("source")  BY <1>0, <1>12 DEF Typed
  <2>2. Len(u.ch["source"].data) = 0  BY <1>4, <1>12, <1>13
  <2>3. u.ch["source"].data = <<>>  BY <2>1, <2>2, NoneLeft
  <2>4. Take(v, "source", m) \in Seq({"source"})  BY <1>12 DEF StreamOf, Of
  <2>5. Len(Take(v, "source", m)) = 1  BY <1>12, <1>13
  <2> QED BY <2>2, <2>3, <2>4, <2>5
<1> DEFINE h == u.ch["source"]
<1>15. PICK g : g = IF room = 0 THEN [f EXCEPT !.overflowed = TRUE]
                    ELSE [f EXCEPT !.got = f.got \o Take(v, "source", m)]
  OBVIOUS
<1>16. /\ g \in FirstState /\ g.phase = "stage" /\ g.waited = f.waited /\ g.failed = f.failed
       /\ g.left = f.left /\ g.diagnostic = f.diagnostic /\ g.exit = f.exit
  <2>1. CASE room = 0
    <3>1. g = [f EXCEPT !.overflowed = TRUE]  BY <1>15, <2>1
    <3> QED BY <1>1, <1>3, <3>1 DEF FirstState
  <2>2. CASE room # 0
    <3>1. g = [f EXCEPT !.got = f.got \o Take(v, "source", m)]  BY <1>15, <2>2
    <3>2. f.got \o Take(v, "source", m) \in Seq({"source"})  BY <1>1, <1>14
    <3> QED BY <1>1, <1>3, <3>1, <3>2 DEF FirstState
  <2> QED BY <2>1, <2>2
<1>17. w = [u EXCEPT !.st.first = g]
  <2>0. Record(u) /\ f = u.st.first  BY <1>12, TypedRecord
  <2>1. CASE room = 0
    <3>0. PICK t : t = TRUE  OBVIOUS
    <3>01. w = [u EXCEPT !.st.first.overflowed = TRUE]
      BY <1>9, <1>11, <2>1, ZenonT(60) DEF Stage
    <3>1. w = [u EXCEPT !.st.first.overflowed = t]  BY <3>0, <3>01, Zenon
    <3>2. g = [u.st.first EXCEPT !.overflowed = t]  BY <1>15, <2>0, <2>1, <3>0
    <3>3. Record(u)  BY <2>0
    <3> QED BY ONLY <3>1, <3>2, <3>3 DEF Record
  <2>2. CASE room # 0
    <3>1. w = [u EXCEPT !.st.first.got = u.st.first.got \o Take(v, "source", m)]
      BY <1>9, <1>11, <2>2 DEF Stage
    <3>2. g = [u.st.first EXCEPT !.got = u.st.first.got \o Take(v, "source", m)]  BY <1>15, <2>0, <2>2
    <3> QED BY <2>0, <3>1, <3>2 DEF Record
  <2> QED BY <2>1, <2>2
<1>18. /\ Typed(w) /\ w.ch = u.ch
       /\ w.st.graph = v.st.graph /\ w.st.early = v.st.early /\ w.st.source = v.st.source
       /\ w.st.delay = v.st.delay /\ w.st.sent = v.st.sent
       /\ w.st.first = g /\ w.st.isolate = v.st.isolate /\ w.st.cli = v.st.cli
  <2>1. PICK x : x = [u EXCEPT !.st.first = g]  OBVIOUS
  <2>2. /\ Typed(x) /\ x.ch = u.ch
        /\ x.st.graph = u.st.graph /\ x.st.early = u.st.early /\ x.st.source = u.st.source
        /\ x.st.delay = u.st.delay /\ x.st.sent = u.st.sent
        /\ x.st.first = g /\ x.st.isolate = u.st.isolate /\ x.st.cli = u.st.cli
    <3>1. Typed(u) /\ g \in FirstState  BY <1>12, <1>16
    <3> QED BY <2>1, <3>1, WithFirst
  <2> QED BY <1>12, <1>17, <2>1, <2>2
<1> HIDE DEF f, n, sent, delay, k, room, h
<1>19. Reading(g, h, n, sent, delay)
  <2>1. h.written = k.written /\ h.closed = k.closed /\ Len(h.data) = 0  BY <1>12, <1>14 DEF h
  <2>2. CASE room = 0
    <3>1. g.overflowed /\ g.got = f.got  BY <1>1, <1>15, <2>2 DEF FirstState
    <3>2. Len(g.got) = SourceCells  BY <1>1, <1>2, <2>2, <3>1 DEF room
    <3> QED BY <1>2, <1>3, <1>6, <1>16, <2>1, <3>1, <3>2 DEF Reading
  <2>3. CASE room # 0
    <3>1. g.overflowed = f.overflowed /\ g.got = f.got \o Take(v, "source", m)
      BY <1>1, <1>15, <2>3 DEF FirstState
    <3>2. Len(g.got) = Len(f.got) + 1
      <4>1. Len(f.got \o Take(v, "source", m)) = Len(f.got) + Len(Take(v, "source", m))
        BY <1>1, <1>14, Joined
      <4> QED BY <1>14, <3>1, <4>1
    <3>3. ~f.overflowed
      <4>1. f.overflowed => Len(f.got) = SourceCells  BY <1>3 DEF Reading
      <4> QED BY <1>1, <1>2, <2>3, <4>1 DEF room
    <3>4. Len(f.got) + Len(k.data) = sent  BY <1>3, <3>3 DEF Reading
    <3>5. Len(g.got) + Len(h.data) = sent  BY <1>1, <1>4, <2>1, <3>2, <3>4
    <3>6. Len(g.got) <= SourceCells  BY <1>1, <1>2, <1>5, <2>3, <3>2 DEF room
    <3> QED BY <1>3, <1>6, <1>16, <2>1, <3>1, <3>3, <3>5, <3>6 DEF Reading
  <2> QED BY <2>2, <2>3
<1> USE DEF f, n, sent, delay, k, h
<1>20. \A d \in {"image", "diagnostic", "result", "runtime"} : w.ch[d] = v.ch[d]
  BY <1>12, <1>18 DEF Channels
<1>21. Imaging(g, v.st.isolate, v.ch["image"])
       /\ Diagnosed(v.st.graph, g, v.st.isolate, v.st.cli, v.ch["diagnostic"], v.ch["runtime"])
  <2>1. Imaging(f, v.st.isolate, v.ch["image"])
        /\ Diagnosed(v.st.graph, f, v.st.isolate, v.st.cli, v.ch["diagnostic"], v.ch["runtime"])
    BY <1>0 DEF ImageOn, OutcomeOf
  <2> QED BY <1>3, <1>16, <2>1, StagesOn
<1>22. Flows(w)  BY <1>18, <1>19, <1>20, <1>21, FirstFlows
<1>23. AllRead(w)  BY <1>14, <1>18 DEF AllRead
<1>24. /\ Rounds(v) = Remaining(f, n, sent, delay) /\ Rounds(w) = Remaining(g, n, sent, delay)
       /\ w.st.isolate.waited = v.st.isolate.waited /\ w.ch["image"] = v.ch["image"]
  BY <1>18, <1>20 DEF Rounds
<1> HIDE DEF f, n, sent, delay, k, h
<1>25. Counted(Rounds(v), f, n, sent, delay)  BY <1>1, <1>5, <1>24, RemainingIs
<1>26. Counted(Rounds(w), g, n, sent, delay)  BY <1>1, <1>5, <1>16, <1>24, RemainingIs
<1>27. Rounds(v) \in Nat /\ Rounds(w) \in Nat /\ Rounds(w) = Rounds(v)
  BY <1>3, <1>6, <1>16, <1>25, <1>26 DEF Counted
<1>28. InTime(w, 1)  BY <1>1, <1>7, <1>18, <1>24, <1>27, RoundLess
<1> QED BY <1>16, <1>18, <1>22, <1>23, <1>28

\* Nothing came and there may be more: the stage is as it was, or has waited.
LEMMA StageWaits ==
    ASSUME NEW v, Flows(v), Produced(v), InTime(v, 0), v.st.first.phase = "stage",
           ~HasInput(v, "source"),
           ~HungUp(v, "source")
              \/ (/\ v.st.graph = "compile" /\ v.st.first.got = <<>>
                  /\ v.st.first.waited < CompileWait),
           NEW w, w = Stage(v)
    PROVE  Flows(w) /\ AllRead(w) /\ InTime(w, 1) /\ w.st.first.phase = "stage"
<1> DEFINE f == v.st.first
           n == v.st.source.cells
           sent == v.st.sent
           delay == v.st.delay
           k == v.ch["source"]
<1>0. /\ Typed(v) /\ SourceIn(v) /\ ImageOn(v) /\ OutcomeOf(v)
      /\ "source" \in Channels
  BY DEF Flows, Channels
<1>1. /\ f \in FirstState /\ n \in Nat /\ delay \in Nat /\ sent \in Nat
      /\ f.waited \in Nat /\ Len(f.got) \in Nat /\ f.got \in Seq({"source"})
      /\ v.st.isolate.waited \in Nat /\ k \in Channel /\ k.data \in StreamOf("source")
      /\ v.st.early \in BOOLEAN
  <2>1. f \in FirstState /\ n \in Nat /\ delay \in Nat /\ sent \in Nat
        /\ v.st.isolate \in IsolateState /\ k \in Channel
        /\ k.data \in StreamOf("source") /\ v.st.early \in BOOLEAN
    BY <1>0, Parts
  <2>2. f.waited \in Nat /\ f.got \in Seq({"source"})  BY <2>1 DEF FirstState
  <2>3. v.st.isolate.waited \in Nat  BY <2>1 DEF IsolateState
  <2>4. Len(f.got) \in Nat  BY <2>2, NoneOf
  <2> QED BY <2>1, <2>2, <2>3, <2>4
<1>2. SourceCells \in Nat /\ SourceCells > 0 /\ CompileWait \in Nat /\ MaxDelay \in Nat
  BY PipelineAssumption
<1>3. /\ Reading(f, k, n, sent, delay) /\ Coming(f, k, n, sent, delay) /\ f.phase = "stage"
  BY <1>0 DEF SourceIn, Produced
<1>4. k.data = <<>> /\ Len(k.data) = 0
  <2>1. k.data = <<>>  BY DEF HasInput
  <2> QED BY <1>1, <2>1, NoneLeft
<1>5. f.waited <= CompileWait /\ sent <= n /\ (k.written <=> sent > 0) /\ (k.closed => sent = n)
  BY <1>3 DEF Reading
<1>6. CASE ~HungUp(v, "source")
  <2>1. w = v  BY <1>6 DEF Stage
  <2>2. ~k.closed /\ ~(v.st.early /\ ~k.written)  BY <1>4, <1>6 DEF HungUp
  <2>3. InTime(v, 1)
    <3>1. CASE n # 0  BY <1>3, <2>2, <3>1 DEF Produced
    <3>2. CASE n = 0
      <4>1. ~k.written  BY <1>1, <1>5, <3>2
      <4>2. ~v.st.early  BY <2>2, <4>1
      <4> QED BY <4>2 DEF InTime, Outlasts
    <3> QED BY <3>1, <3>2
  <2>4. AllRead(v)  BY <1>4 DEF AllRead
  <2> QED BY <1>3, <2>1, <2>3, <2>4
<1>7. CASE /\ HungUp(v, "source") /\ v.st.graph = "compile" /\ f.got = <<>>
           /\ f.waited < CompileWait
  <2>1. w = [v EXCEPT !.st.first.waited = f.waited + 1]  BY <1>7 DEF Stage
  <2>2. PICK g : g = [f EXCEPT !.waited = f.waited + 1]  OBVIOUS
  <2>3. /\ g \in FirstState /\ g.phase = "stage" /\ g.waited = f.waited + 1 /\ g.failed = f.failed
        /\ g.left = f.left /\ g.diagnostic = f.diagnostic /\ g.exit = f.exit
        /\ g.got = f.got /\ g.overflowed = f.overflowed
    <3>1. f.waited + 1 \in Nat  BY <1>1
    <3>2. PICK m \in Nat : m = f.waited + 1  BY <3>1
    <3>3. g = [f EXCEPT !.waited = m]  BY <2>2, <3>2
    <3>4. f \in FirstState /\ f.phase = "stage"  BY <1>1, <1>3
    <3> HIDE DEF f
    <3>5. /\ g \in FirstState /\ g.phase = "stage" /\ g.waited = m /\ g.failed = f.failed
          /\ g.left = f.left /\ g.diagnostic = f.diagnostic /\ g.exit = f.exit
          /\ g.got = f.got /\ g.overflowed = f.overflowed
      BY <3>2, <3>3, <3>4 DEF FirstState
    <3> QED BY <3>2, <3>5
  <2>4. w = [v EXCEPT !.st.first = g]
    <3>1. Record(v)  BY <1>0, TypedRecord
    <3> QED BY <2>1, <2>2, <3>1 DEF Record
  <2>5. /\ Typed(w) /\ w.ch = v.ch
        /\ w.st.graph = v.st.graph /\ w.st.early = v.st.early /\ w.st.source = v.st.source
        /\ w.st.delay = v.st.delay /\ w.st.sent = v.st.sent
        /\ w.st.first = g /\ w.st.isolate = v.st.isolate /\ w.st.cli = v.st.cli
    BY <1>0, <2>3, <2>4, WithFirst
  <2> HIDE DEF f, n, sent, delay, k
  <2>6. ~f.overflowed /\ sent = 0
    <3>1. Len(f.got) = 0  BY <1>7
    <3>2. f.overflowed => Len(f.got) = SourceCells  BY <1>3 DEF Reading
    <3>3. ~f.overflowed  BY <1>2, <3>1, <3>2
    <3>4. Len(f.got) + Len(k.data) = sent  BY <1>3, <3>3 DEF Reading
    <3> QED BY <1>4, <3>1, <3>3, <3>4
  <2>7. f.waited + 1 <= CompileWait  BY <1>1, <1>2, <1>7
  <2>8. n > 0 => (f.waited + 1) + delay <= MaxDelay
    <3>1. n > 0 => f.waited + delay < MaxDelay  BY <1>3, <2>6 DEF Coming
    <3> QED BY <1>1, <1>2, <3>1
  <2>9. Reading(g, k, n, sent, delay)  BY <1>3, <2>3, <2>7, <2>8 DEF Reading
  <2> USE DEF f, n, sent, delay, k
  <2>10. Imaging(g, v.st.isolate, v.ch["image"])
         /\ Diagnosed(v.st.graph, g, v.st.isolate, v.st.cli, v.ch["diagnostic"], v.ch["runtime"])
    <3>1. Imaging(f, v.st.isolate, v.ch["image"])
          /\ Diagnosed(v.st.graph, f, v.st.isolate, v.st.cli, v.ch["diagnostic"], v.ch["runtime"])
      BY <1>0 DEF ImageOn, OutcomeOf
    <3> QED BY <1>3, <2>3, <3>1, StagesOn
  <2>11. Flows(w)  BY <2>5, <2>9, <2>10, FirstFlows
  <2>12. AllRead(w)  BY <1>4, <2>5 DEF AllRead
  <2>13. /\ Rounds(v) = Remaining(f, n, sent, delay) /\ Rounds(w) = Remaining(g, n, sent, delay)
         /\ w.st.isolate.waited = v.st.isolate.waited /\ w.ch["image"] = v.ch["image"]
    BY <2>5 DEF Rounds
  <2>14. n > 0 => InTime(v, 1)
    <3>1. n > 0 => ~k.closed  BY <1>1, <1>5, <2>6
    <3> QED BY <1>3, <3>1 DEF Produced
  <2> HIDE DEF f, n, sent, delay, k
  <2>15. Counted(Rounds(v), f, n, sent, delay)  BY <1>1, <1>5, <2>13, RemainingIs
  <2>16. Counted(Rounds(w), g, n, sent, delay)
    <3>1. g.waited <= CompileWait  BY <2>3, <2>7
    <3> QED BY <1>1, <1>5, <2>3, <2>13, <3>1, RemainingIs
  <2>17. /\ Rounds(v) \in Nat /\ Rounds(w) \in Nat /\ (n > 0 => Rounds(w) = Rounds(v))
    BY <1>3, <2>3, <2>15, <2>16 DEF Counted
  <2>18. n = 0 => 1 + Rounds(w) = Rounds(v)
    <3>1. n = 0 => /\ Rounds(v) = (CompileWait - f.waited) + 5
                   /\ Rounds(w) = (CompileWait - g.waited) + 5
      BY <1>3, <2>3, <2>15, <2>16 DEF Counted
    <3>2. g.waited = f.waited + 1  BY <2>3
    <3> QED BY <1>1, <1>2, <3>1, <3>2
  <2>19. InTime(w, 1)
    <3>1. CASE n > 0  BY <1>1, <2>5, <2>13, <2>14, <2>17, <3>1, RoundLess
    <3>2. CASE n = 0
      <4>1. 1 + Rounds(w) <= 0 + Rounds(v)  BY <2>17, <2>18, <3>2
      <4>2. 0 \in Nat /\ 1 \in Nat  OBVIOUS
      <4> QED BY <1>1, <2>5, <2>13, <2>17, <4>1, <4>2, RoundLess
    <3> QED BY <1>1, <3>1, <3>2
  <2> QED BY <2>3, <2>5, <2>11, <2>12, <2>19
<1> QED BY <1>6, <1>7

\* What is worked on is whole: the source hung up after it, or the compiler's
\* patience outlasted its lateness.
LEMMA WholeSource ==
    ASSUME NEW v, Flows(v), Patience, v.st.first.phase = "stage",
           ~HasInput(v, "source"), HungUp(v, "source"),
           ~v.st.first.overflowed,
           v.st.first.got = <<>> =>
               v.st.graph = "compile" /\ ~(v.st.first.waited < CompileWait)
    PROVE  Len(v.st.first.got) = v.st.source.cells
<1> DEFINE f == v.st.first
           n == v.st.source.cells
           sent == v.st.sent
           delay == v.st.delay
           k == v.ch["source"]
<1>1. /\ f \in FirstState /\ n \in Nat /\ delay \in Nat /\ sent \in Nat
      /\ f.waited \in Nat /\ Len(f.got) \in Nat /\ f.got \in Seq({"source"})
      /\ k \in Channel /\ k.data \in StreamOf("source") /\ v.st.early \in Early
  <2>1. Typed(v) /\ "source" \in Channels  BY DEF Flows, Channels
  <2>2. f \in FirstState /\ n \in Nat /\ delay \in Nat /\ sent \in Nat
        /\ k \in Channel /\ k.data \in StreamOf("source") /\ v.st.early \in Early
    BY <2>1, Parts
  <2> QED BY <2>2 DEF FirstState
<1>2. CompileWait \in Nat /\ MaxDelay \in Nat  BY PipelineAssumption
<1>3. Reading(f, k, n, sent, delay) /\ f.phase = "stage"  BY DEF Flows, SourceIn
<1>4. k.data = <<>> /\ Len(k.data) = 0
  <2>1. k.data = <<>>  BY DEF HasInput
  <2> QED BY <1>1, <2>1, NoneLeft
<1>5. Len(f.got) = sent
  <2>1. Len(f.got) + Len(k.data) = sent  BY <1>3 DEF Reading
  <2> QED BY <1>1, <1>4, <2>1
<1>6. CASE k.closed
  <2>1. sent = n  BY <1>3, <1>6 DEF Reading
  <2> QED BY <1>5, <2>1
<1>7. CASE v.st.early /\ ~k.written
  <2>1. sent = 0
    <3>1. k.written <=> sent > 0  BY <1>3 DEF Reading
    <3> QED BY <1>1, <1>7, <3>1
  <2>2. f.got = <<>>  BY <1>1, <1>5, <2>1
  <2>3. f.waited >= CompileWait  BY <1>1, <1>2, <2>2
  <2>4. MaxDelay < CompileWait  BY <1>1, <1>7 DEF Patience
  <2>5. n > 0 => f.waited + delay <= MaxDelay  BY <1>3, <2>1 DEF Reading
  <2>6. n = 0
    <3> HIDE DEF f, n, sent, delay, k
    <3> QED BY <1>1, <1>2, <2>3, <2>4, <2>5
  <2> QED BY <1>5, <2>1, <2>6
<1> QED BY <1>6, <1>7 DEF HungUp

\* The whole source is worked on, or something failed.
LEMMA StageEnds ==
    ASSUME NEW v, Flows(v), InTime(v, 0), Patience, v.st.first.phase = "stage",
           ~HasInput(v, "source"), HungUp(v, "source"),
           ~(/\ v.st.graph = "compile" /\ v.st.first.got = <<>>
             /\ v.st.first.waited < CompileWait),
           NEW w, w = Work(Stage(v))
    PROVE  /\ Stage(v).st.first.phase = "work"
           /\ Flows(w) /\ AllRead(w) /\ InTime(w, 1)
<1> DEFINE f == v.st.first
           i == v.st.isolate
           c == v.st.cli
           img == v.ch["image"]
           dia == v.ch["diagnostic"]
           run == v.ch["runtime"]
           n == v.st.source.cells
           sent == v.st.sent
           delay == v.st.delay
           k == v.ch["source"]
           graph == v.st.graph
<1>0. /\ Typed(v) /\ SourceIn(v) /\ ImageOn(v) /\ OutcomeOf(v)
      /\ "source" \in Channels
  BY DEF Flows, Channels
<1>1. /\ f \in FirstState /\ n \in Nat /\ delay \in Nat /\ sent \in Nat
      /\ f.waited \in Nat /\ i.waited \in Nat /\ graph \in {"compile", "link"}
      /\ v.st.first.overflowed \in BOOLEAN
      /\ i.got \in Seq({"image"}) /\ img.data \in StreamOf("image")
  <2>1. f \in FirstState /\ n \in Nat /\ delay \in Nat /\ sent \in Nat
        /\ i \in IsolateState /\ graph \in {"compile", "link"} /\ img.data \in StreamOf("image")
    BY <1>0, Parts DEF Channels
  <2>2. f.waited \in Nat /\ f.overflowed \in BOOLEAN  BY <2>1 DEF FirstState
  <2>3. i.waited \in Nat /\ i.got \in Seq({"image"})  BY <2>1 DEF IsolateState
  <2> QED BY <2>1, <2>2, <2>3
<1>2. CompileWait \in Nat  BY PipelineAssumption
<1>3. /\ Reading(f, k, n, sent, delay) /\ Imaging(f, i, img)
      /\ Diagnosed(graph, f, i, c, dia, run) /\ f.phase = "stage"
      /\ Resulting(i, c, v.ch["result"])
  BY <1>0 DEF SourceIn, ImageOn, OutcomeOf
<1>4. PICK x : x = [f EXCEPT !.phase = "work"]  OBVIOUS
<1>5. x \in FirstState /\ x.phase = "work" /\ x.overflowed = f.overflowed /\ x.got = f.got
      /\ x.waited = f.waited /\ x.exit = f.exit
  BY <1>1, <1>4 DEF FirstState
<1>6. PICK s : s = [v EXCEPT !.st.first = x]  OBVIOUS
<1>7. Stage(v) = s
  <2>1. Record(v)  BY <1>0, TypedRecord
  <2>2. Stage(v) = [v EXCEPT !.st.first.phase = "work"]  BY DEF Stage
  <2> QED BY <1>4, <1>6, <2>1, <2>2 DEF Record
<1>8. /\ Typed(s) /\ s.ch = v.ch
      /\ s.st.graph = graph /\ s.st.early = v.st.early /\ s.st.source = v.st.source
      /\ s.st.delay = delay /\ s.st.sent = sent
      /\ s.st.first = x /\ s.st.isolate = i /\ s.st.cli = c
  BY <1>0, <1>5, <1>6, WithFirst
<1>9. PICK fails \in BOOLEAN :
         fails <=> \/ f.overflowed \/ v.st.source.says = "refused"
                   \/ graph = "link" /\ f.got = <<>>
  <2>1. \E b \in BOOLEAN : b <=> \/ f.overflowed \/ v.st.source.says = "refused"
                                 \/ graph = "link" /\ f.got = <<>>
    OBVIOUS
  <2> QED BY <2>1
<1>10. PICK left : left = IF fails THEN <<>> ELSE Line("image", ImageCells)  OBVIOUS
<1>11. PICK told : told = IF fails /\ graph = "compile" THEN Line("compile", FrameCells) ELSE <<>>
  OBVIOUS
<1>12. /\ left \in Seq({"image"}) /\ Len(left) = IF fails THEN 0 ELSE 2
       /\ told \in Seq({"compile"}) /\ Len(told) = IF fails /\ graph = "compile" THEN 2 ELSE 0
       /\ (~(fails /\ graph = "compile") => told = <<>>)
       /\ (fails => left = <<>>)
  <2>1. Line("image", 2) \in Seq({"image"}) /\ Len(Line("image", 2)) = 2  BY LineOf
  <2>2. Line("compile", 2) \in Seq({"compile"}) /\ Len(Line("compile", 2)) = 2  BY LineOf
  <2>3. left \in Seq({"image"}) /\ (Len(left) = IF fails THEN 0 ELSE 2)
    <3>1. <<>> \in Seq({"image"}) /\ Len(<<>>) = 0  OBVIOUS
    <3>2. ImageCells = 2  BY DEF ImageCells
    <3>3. CASE fails
      <4>1. left = <<>>  BY <1>10, <3>3
      <4> QED BY <3>1, <3>3, <4>1
    <3>4. CASE ~fails
      <4>1. left = Line("image", 2)  BY <1>10, <3>2, <3>4
      <4> QED BY <2>1, <3>4, <4>1
    <3> QED BY <3>3, <3>4
  <2>4. told \in Seq({"compile"}) /\ (Len(told) = IF fails /\ graph = "compile" THEN 2 ELSE 0)
    <3>1. <<>> \in Seq({"compile"}) /\ Len(<<>>) = 0  OBVIOUS
    <3>2. FrameCells = 2  BY DEF FrameCells
    <3>3. CASE fails /\ graph = "compile"
      <4>1. told = Line("compile", 2)  BY <1>11, <3>2, <3>3
      <4> QED BY <2>2, <3>3, <4>1
    <3>4. CASE ~(fails /\ graph = "compile")
      <4>1. told = <<>>  BY <1>11, <3>4
      <4> QED BY <3>1, <3>4, <4>1
    <3> QED BY <3>3, <3>4
  <2> QED BY <1>10, <1>11, <2>3, <2>4
<1>13. PICK g : g = [x EXCEPT !.phase = "write", !.failed = fails, !.left = left,
                              !.diagnostic = told]
  OBVIOUS
<1>14. /\ g \in FirstState /\ g.phase = "write" /\ g.failed = fails /\ g.left = left
       /\ g.diagnostic = told /\ g.got = f.got /\ g.overflowed = f.overflowed
       /\ g.waited = f.waited /\ g.exit = f.exit
  BY <1>5, <1>12, <1>13 DEF FirstState
<1>15. w = [s EXCEPT !.st.first = g]
  <2>1. Record(s)  BY <1>8, TypedRecord
  <2>2. s.st.first.overflowed = f.overflowed /\ s.st.first.got = f.got
    BY <1>5, <1>8
  <2>3. PICK b : b = (\/ s.st.first.overflowed \/ s.st.source.says = "refused"
                      \/ s.st.graph = "link" /\ s.st.first.got = <<>>)
    OBVIOUS
  <2>4. b = fails  BY <1>1, <1>8, <1>9, <2>2, <2>3
  <2>5. w = [s EXCEPT !.st.first.phase = "write", !.st.first.failed = b,
                      !.st.first.left = IF b THEN <<>> ELSE Line("image", ImageCells),
                      !.st.first.diagnostic = IF b /\ s.st.graph = "compile"
                                              THEN Line("compile", FrameCells) ELSE <<>>]
    BY <1>7, <2>3 DEF Work
  <2>6. w = [s EXCEPT !.st.first.phase = "write", !.st.first.failed = fails,
                      !.st.first.left = left, !.st.first.diagnostic = told]
    BY <1>8, <1>10, <1>11, <2>4, <2>5
  <2>7. s.st.first = x  BY <1>8
  <2>8. x = [phase |-> x.phase, waited |-> x.waited, got |-> x.got, overflowed |-> x.overflowed,
             failed |-> x.failed, left |-> x.left, diagnostic |-> x.diagnostic, exit |-> x.exit]
    BY <1>5 DEF FirstState
  <2>10. s = [st |-> [graph |-> s.st.graph, early |-> s.st.early, source |-> s.st.source,
                      delay |-> s.st.delay, sent |-> s.st.sent, beat |-> s.st.beat,
                      first |-> x, isolate |-> s.st.isolate, cli |-> s.st.cli],
              ch |-> s.ch]
    BY <2>1, <2>7 DEF Record
  <2>12. PICK s1 : s1 = [s EXCEPT !.st.first.phase = "write"]  OBVIOUS
  <2>13. PICK s2 : s2 = [s1 EXCEPT !.st.first.failed = fails]  OBVIOUS
  <2>14. PICK s3 : s3 = [s2 EXCEPT !.st.first.left = left]  OBVIOUS
  <2>15. w = [s3 EXCEPT !.st.first.diagnostic = told]  BY <2>6, <2>12, <2>13, <2>14
  <2>16. s1 = [s EXCEPT !.st.first = [x EXCEPT !.phase = "write"]]  BY <2>8, <2>10, <2>12
  <2>17. s2 = [s EXCEPT !.st.first = [x EXCEPT !.phase = "write", !.failed = fails]]
    BY <2>8, <2>10, <2>13, <2>16, ZenonT(60)
  <2>18. s3 = [s EXCEPT !.st.first = [x EXCEPT !.phase = "write", !.failed = fails, !.left = left]]
    BY <2>8, <2>10, <2>14, <2>17, ZenonT(60)
  <2>19. w = [s EXCEPT !.st.first = [x EXCEPT !.phase = "write", !.failed = fails, !.left = left,
                                             !.diagnostic = told]]
    <3>1. PICK y : y = [x EXCEPT !.phase = "write", !.failed = fails, !.left = left]  OBVIOUS
    <3>2. y = [phase |-> "write", waited |-> x.waited, got |-> x.got, overflowed |-> x.overflowed,
               failed |-> fails, left |-> left, diagnostic |-> x.diagnostic, exit |-> x.exit]
      BY <2>8, <3>1
    <3>3. s3 = [s EXCEPT !.st.first = y]  BY <2>18, <3>1
    <3>4. w = [s EXCEPT !.st.first = [y EXCEPT !.diagnostic = told]]
      <4>1. PICK r : r = s.st  OBVIOUS
      <4>2. s3 = [st |-> [graph |-> r.graph, early |-> r.early, source |-> r.source,
                          delay |-> r.delay, sent |-> r.sent, beat |-> r.beat,
                          first |-> y, isolate |-> r.isolate, cli |-> r.cli],
                  ch |-> s.ch]
        BY <2>10, <3>3, <4>1
      <4>3. PICK z : z = [y EXCEPT !.diagnostic = told]  OBVIOUS
      <4>4. w = [st |-> [graph |-> r.graph, early |-> r.early, source |-> r.source,
                         delay |-> r.delay, sent |-> r.sent, beat |-> r.beat,
                         first |-> z, isolate |-> r.isolate, cli |-> r.cli],
                 ch |-> s.ch]
        BY <2>15, <4>2, <4>3
      <4>5. [s EXCEPT !.st.first = z] =
                [st |-> [graph |-> r.graph, early |-> r.early, source |-> r.source,
                         delay |-> r.delay, sent |-> r.sent, beat |-> r.beat,
                         first |-> z, isolate |-> r.isolate, cli |-> r.cli],
                 ch |-> s.ch]
        BY <2>10, <4>1
      <4> QED BY <4>3, <4>4, <4>5
    <3>5. [y EXCEPT !.diagnostic = told] = [x EXCEPT !.phase = "write", !.failed = fails,
                                                     !.left = left, !.diagnostic = told]
      BY <3>1
    <3> QED BY <3>4, <3>5
  <2> QED BY <1>13, <2>19
<1>16. /\ Typed(w) /\ w.ch = v.ch
       /\ w.st.graph = graph /\ w.st.early = v.st.early /\ w.st.source = v.st.source
       /\ w.st.delay = delay /\ w.st.sent = sent
       /\ w.st.first = g /\ w.st.isolate = i /\ w.st.cli = c
  <2>1. PICK y : y = [s EXCEPT !.st.first = g]  OBVIOUS
  <2>2. /\ Typed(y) /\ y.ch = s.ch
        /\ y.st.graph = s.st.graph /\ y.st.early = s.st.early /\ y.st.source = s.st.source
        /\ y.st.delay = s.st.delay /\ y.st.sent = s.st.sent
        /\ y.st.first = g /\ y.st.isolate = s.st.isolate /\ y.st.cli = s.st.cli
    BY <1>8, <1>14, <2>1, WithFirst
  <2> QED BY <1>8, <1>15, <2>1, <2>2
<1>17. ~fails => Len(f.got) = n
  <2>1. ASSUME ~fails PROVE Len(f.got) = n
    <3>1. ~f.overflowed /\ ~(graph = "link" /\ f.got = <<>>)  BY <1>9, <2>1
    <3>2. f.got = <<>> => graph = "compile" /\ ~(f.waited < CompileWait)
      BY <1>1, <3>1
    <3> QED BY <3>1, <3>2, WholeSource
  <2> QED BY <2>1
<1> HIDE DEF f, i, c, img, dia, run, n, sent, delay, k, graph
<1>18. Reading(g, k, n, sent, delay)
  <2>1. g.phase # "stage" /\ (~g.failed => Len(g.got) = n)  BY <1>14, <1>17
  <2>2. g.waited = f.waited  BY <1>14
  <2> QED BY <1>3, <2>1, <2>2 DEF Reading
<1>19. i.phase = "stage" /\ i.ran = <<>> /\ ~i.failed /\ c.frame = <<>> /\ c.report = <<>>
       /\ dia.data = <<>> /\ run.data = <<>> /\ i.diagnostic = <<>> /\ f.diagnostic = <<>>
       /\ ~f.failed /\ f.exit # "done" /\ ~img.closed
       /\ Len(i.got) + Len(img.data) = 0
       /\ (img.written <=> Len(i.got) + Len(img.data) > 0)
  <2>1. /\ ~f.failed /\ f.exit # "done" /\ ~img.closed /\ f.diagnostic = <<>>
        /\ Len(i.got) + Len(img.data) = 0 /\ i.phase = "stage" /\ i.ran = <<>>
        /\ (img.written <=> Len(i.got) + Len(img.data) > 0)
    BY <1>3 DEF Imaging
  <2>2. ~i.failed  BY <1>3, <2>1 DEF Resulting
  <2>3. ~Refused(graph, f)  BY <2>1 DEF Refused
  <2>4. /\ c.frame = <<>> /\ c.report = <<>> /\ dia.data = <<>> /\ run.data = <<>>
        /\ i.diagnostic = <<>>
    BY <1>3, <2>2, <2>3 DEF Diagnosed
  <2> QED BY <2>1, <2>2, <2>4
<1>20. Imaging(g, i, img)
  <2>1. Len(i.got) \in Nat /\ Len(img.data) \in Nat  BY <1>1, NoneLeft
  <2>2. /\ g.failed => Len(i.got) + Len(img.data) + Len(g.left) = 0
        /\ ~g.failed => Len(i.got) + Len(img.data) + Len(g.left) = ImageCells
    <3>1. Len(g.left) = IF fails THEN 0 ELSE 2  BY <1>12, <1>14
    <3>2. PICK m : m = Len(i.got) + Len(img.data)  OBVIOUS
    <3>3. m = 0  BY <1>19, <3>2
    <3>4. CASE fails
      <4>1. Len(g.left) = 0  BY <3>1, <3>4
      <4>2. m + Len(g.left) = 0  BY <3>3, <4>1
      <4> QED BY <1>14, <3>2, <3>4, <4>2
    <3>5. CASE ~fails
      <4>1. Len(g.left) = 2  BY <3>1, <3>5
      <4>2. m + Len(g.left) = 2  BY <3>3, <4>1
      <4> QED BY <1>14, <3>2, <3>5, <4>2 DEF ImageCells
    <3> QED BY <1>14, <3>4, <3>5
  <2> QED BY <1>14, <1>19, <2>2 DEF Imaging
<1>21. Diagnosed(graph, g, i, c, dia, run)
  <2>1. Refused(graph, g) <=> fails /\ graph = "compile"  BY <1>14 DEF Refused
  <2>2. Refused(graph, g) => Telling(c, "compile", dia, g.diagnostic)
    <3>1. ASSUME fails /\ graph = "compile" PROVE Telling(c, "compile", dia, g.diagnostic)
      <4>1. Len(g.diagnostic) = 2  BY <1>12, <1>14, <3>1
      <4>2. c.frame \in Seq({"compile"}) /\ Len(c.frame) = 0 /\ Len(dia.data) = 0  BY <1>19
      <4>3. Len(c.frame) < FrameCells /\ Len(c.frame) + Len(dia.data) + Len(g.diagnostic) = FrameCells
        BY <4>1, <4>2 DEF FrameCells
      <4> QED BY <1>19, <4>2, <4>3 DEF Telling
    <3> QED BY <2>1, <3>1
  <2>3. ~Refused(graph, g) => g.diagnostic = <<>>  BY <1>12, <1>14, <2>1
  <2> QED BY <1>19, <2>2, <2>3 DEF Diagnosed
<1> USE DEF f, i, c, img, dia, run, n, sent, delay, k, graph
<1>22. Flows(w)  BY <1>16, <1>18, <1>20, <1>21, FirstFlows
<1>23. AllRead(w)  BY <1>14, <1>16 DEF AllRead
<1>24. /\ Rounds(v) = Remaining(f, n, sent, delay) /\ Rounds(w) = Remaining(g, n, sent, delay)
       /\ w.st.isolate.waited = v.st.isolate.waited /\ w.ch["image"] = v.ch["image"]
  BY <1>16 DEF Rounds
<1> HIDE DEF f, i, c, img, dia, run, n, sent, delay, k, graph
<1>25. f.waited <= CompileWait /\ sent <= n /\ g.waited = f.waited  BY <1>3, <1>14 DEF Reading
<1>26. Counted(Rounds(v), f, n, sent, delay)  BY <1>1, <1>24, <1>25, RemainingIs
<1>27. Counted(Rounds(w), g, n, sent, delay)  BY <1>1, <1>14, <1>24, <1>25, RemainingIs
<1>28. Rounds(v) \in Nat /\ Rounds(w) \in Nat /\ 1 + Rounds(w) <= 0 + Rounds(v)
  <2>1. Rounds(v) \in Nat /\ Rounds(v) >= 5
    <3>1. CASE n > 0
      <4>1. Rounds(v) = delay + (n - sent) + 5  BY <1>3, <1>26, <3>1 DEF Counted
      <4> QED BY <1>1, <1>25, <4>1
    <3>2. CASE n = 0
      <4>1. Rounds(v) = (CompileWait - f.waited) + 5  BY <1>3, <1>26, <3>2 DEF Counted
      <4> QED BY <1>1, <1>2, <1>25, <4>1
    <3> QED BY <1>1, <3>1, <3>2
  <2>2. Rounds(w) = Len(told) + 2  BY <1>14, <1>27 DEF Counted
  <2>3. Len(told) = 0 \/ Len(told) = 2  BY <1>12
  <2>4. Rounds(w) = 2 \/ Rounds(w) = 4
    <3>1. CASE Len(told) = 0  BY <2>2, <3>1
    <3>2. CASE Len(told) = 2  BY <2>2, <3>2
    <3> QED BY <2>3, <3>1, <3>2
  <2>5. PICK r \in Nat : r = Rounds(v)  BY <2>1
  <2>6. r >= 5  BY <2>1, <2>5
  <2>7. 1 + 2 <= 0 + r /\ 1 + 4 <= 0 + r  BY <2>6
  <2>8. CASE Rounds(w) = 2  BY <2>5, <2>7, <2>8
  <2>9. CASE Rounds(w) = 4  BY <2>5, <2>7, <2>9
  <2> QED BY <2>4, <2>8, <2>9
<1>29. InTime(w, 1)
  <2>1. 0 \in Nat /\ 1 \in Nat  OBVIOUS
  <2>2. i.waited \in Nat /\ v.st.isolate.waited \in Nat  BY <1>1 DEF i
  <2> QED BY <1>16, <1>24, <1>28, <2>1, <2>2, RoundLess
<1> QED BY <1>5, <1>7, <1>8, <1>22, <1>23, <1>29

\* A part of a frame that is written stays on its way.
LEMMA TellsOn ==
    ASSUME NEW c, NEW who, NEW S, NEW k, NEW left, NEW h, NEW e,
           k.data \in Seq(S), left \in Seq(S), h.data \in Seq(S), e \in Seq(S),
           Len(h.data) + Len(e) = Len(k.data) + Len(left),
           Telling(c, who, k, left)
    PROVE  Telling(c, who, h, e)
<1>0. Len(k.data) \in Nat /\ Len(left) \in Nat /\ Len(h.data) \in Nat /\ Len(e) \in Nat
  OBVIOUS
<1>1. PICK p \in Nat : p = Len(h.data)  BY <1>0
<1>2. PICK q \in Nat : q = Len(e)  BY <1>0
<1>3. PICK y \in Nat : y = Len(k.data)  BY <1>0
<1>4. PICK z \in Nat : z = Len(left)  BY <1>0
<1>5. p + q = y + z  BY <1>1, <1>2, <1>3, <1>4
<1>6. CASE /\ c.report = <<>> /\ c.frame \in Seq({who}) /\ Len(c.frame) < FrameCells
           /\ Len(c.frame) + Len(k.data) + Len(left) = FrameCells
  <2>1. Len(c.frame) \in Nat  BY <1>6
  <2>2. PICK x \in Nat : x = Len(c.frame)  BY <2>1
  <2>3. x + y + z = FrameCells  BY <1>3, <1>4, <1>6, <2>2
  <2>4. x + p + q = FrameCells  BY <1>5, <2>3 DEF FrameCells
  <2>5. Len(c.frame) + Len(h.data) + Len(e) = FrameCells  BY <1>1, <1>2, <2>2, <2>4
  <2> QED BY <1>6, <2>5 DEF Telling
<1>7. CASE /\ c.report = Line(who, FrameCells) /\ c.frame = <<>>
           /\ k.data = <<>> /\ left = <<>>
  <2>1. y = 0 /\ z = 0  BY <1>3, <1>4, <1>7
  <2>2. p = 0 /\ q = 0  BY <1>5, <2>1
  <2>3. h.data = <<>> /\ e = <<>>  BY <1>1, <1>2, <2>2, NoneOf
  <2> QED BY <1>7, <2>3 DEF Telling
<1> QED BY <1>6, <1>7 DEF Telling

\* A failure writes what it has to say.
LEMMA WriteTells ==
    ASSUME NEW v, Flows(v), InTime(v, 0), v.st.first.phase = "write", v.st.first.failed,
           NEW a \in Nat \ {0}, NEW w, w = WriteImage(v, a)
    PROVE  Flows(w) /\ AllRead(w) /\ InTime(w, 1)
<1> DEFINE f == v.st.first
           i == v.st.isolate
           c == v.st.cli
           img == v.ch["image"]
           dia == v.ch["diagnostic"]
           run == v.ch["runtime"]
           n == v.st.source.cells
           sent == v.st.sent
           delay == v.st.delay
           k == v.ch["source"]
           graph == v.st.graph
<1>0. /\ Typed(v) /\ SourceIn(v) /\ ImageOn(v) /\ OutcomeOf(v)
      /\ "diagnostic" \in Channels
  BY DEF Flows, Channels
<1>1. /\ f \in FirstState /\ n \in Nat /\ delay \in Nat /\ sent \in Nat
      /\ f.waited \in Nat /\ i.waited \in Nat
      /\ f.diagnostic \in StreamOf("diagnostic") /\ f.left \in StreamOf("image")
      /\ i.got \in Seq({"image"}) /\ img.data \in StreamOf("image")
      /\ dia.data \in StreamOf("diagnostic")
  <2>1. f \in FirstState /\ n \in Nat /\ delay \in Nat /\ sent \in Nat
        /\ i \in IsolateState /\ img.data \in StreamOf("image")
        /\ dia.data \in StreamOf("diagnostic")
    BY <1>0, Parts DEF Channels
  <2> QED BY <2>1 DEF FirstState, IsolateState, StreamOf, Of
<1>3. /\ Reading(f, k, n, sent, delay) /\ Imaging(f, i, img)
      /\ Diagnosed(graph, f, i, c, dia, run) /\ f.phase = "write" /\ f.failed
      /\ Exiting(i, c, v.ch["result"], dia, run)
  BY <1>0 DEF SourceIn, ImageOn, OutcomeOf
<1>4. PICK r : r = push_progress(v, "diagnostic", f.diagnostic, a)  OBVIOUS
<1>5. PICK u : u = r.v  OBVIOUS
<1>6. PICK e : e = r.left  OBVIOUS
<1>7. /\ Typed(u) /\ u.st = v.st
      /\ \A d \in Channels \ {"diagnostic"} : u.ch[d] = v.ch[d]
      /\ e \in StreamOf("diagnostic")
      /\ Len(u.ch["diagnostic"].data) + Len(e) = Len(dia.data) + Len(f.diagnostic)
      /\ Len(e) <= Len(f.diagnostic) /\ (f.diagnostic # <<>> => Len(e) < Len(f.diagnostic))
  <2>1. f.diagnostic \in StreamOf("diagnostic")  BY <1>1
  <2>2. PICK p : p = f.diagnostic  OBVIOUS
  <2>3. Typed(v) /\ "diagnostic" \in Channels /\ p \in StreamOf("diagnostic")  BY <1>0, <2>1, <2>2
  <2>4. r = push_progress(v, "diagnostic", p, a)  BY <1>4, <2>2
  <2>5. /\ Typed(u) /\ u.st = v.st
        /\ \A d \in Channels \ {"diagnostic"} : u.ch[d] = v.ch[d]
        /\ e \in StreamOf("diagnostic")
        /\ Len(u.ch["diagnostic"].data) + Len(e) = Len(v.ch["diagnostic"].data) + Len(p)
        /\ Len(e) <= Len(p) /\ (p # <<>> => Len(e) < Len(p))
    <3>1. Pushed(v, "diagnostic", p, r)  BY <2>3, <2>4, PushDoes
    <3> QED BY <1>5, <1>6, <3>1 DEF Pushed
  <2> QED BY <2>2, <2>5
<1>8. f.left = <<>>
  <2>1. Len(i.got) + Len(img.data) + Len(f.left) = 0  BY <1>3 DEF Imaging
  <2>2. Len(i.got) \in Nat /\ Len(img.data) \in Nat /\ Len(f.left) \in Nat
    <3>1. i.got \in Seq({"image"}) /\ img.data \in StreamOf("image") /\ f.left \in StreamOf("image")
      BY <1>1
    <3> QED BY <3>1, NoneOf, NoneLeft
  <2>3. \A x, y, z \in Nat : x + y + z = 0 => z = 0  OBVIOUS
  <2>4. Len(f.left) = 0  BY <2>1, <2>2, <2>3
  <2> QED BY <1>1, <2>4, NoneLeft
<1>9. PICK g1 : g1 = [f EXCEPT !.diagnostic = e]  OBVIOUS
<1>10. PICK g : g = IF e # <<>> THEN g1 ELSE [g1 EXCEPT !.phase = "exit"]  OBVIOUS
<1>11. g1 \in FirstState /\ g1.phase = "write" /\ g1.diagnostic = e /\ g1.left = <<>>
       /\ g1.failed = f.failed /\ g1.waited = f.waited /\ g1.exit = f.exit /\ g1.got = f.got
  <2>1. e \in Seq({"compile"})  BY <1>7 DEF StreamOf, Of
  <2> QED BY <1>1, <1>3, <1>8, <1>9, <2>1 DEF FirstState
<1>12. /\ g \in FirstState /\ g.phase = IF e # <<>> THEN "write" ELSE "exit"
       /\ g.diagnostic = e /\ g.left = <<>>
       /\ g.failed = f.failed /\ g.waited = f.waited /\ g.exit = f.exit /\ g.got = f.got
  <2>1. CASE e # <<>>  BY <1>10, <1>11, <2>1
  <2>2. CASE e = <<>>
    <3>1. g = [g1 EXCEPT !.phase = "exit"]  BY <1>10, <2>2
    <3> QED BY <1>11, <2>2, <3>1 DEF FirstState
  <2> QED BY <2>1, <2>2
<1>13. w = [u EXCEPT !.st.first = g]
  <2>1. Record(u) /\ u.st.first = f  BY <1>7, TypedRecord
  <2>2. PICK s : s = [u EXCEPT !.st.first.diagnostic = e]  BY Zenon
  <2>3. s = [u EXCEPT !.st.first = g1]  BY <1>9, <2>1, <2>2 DEF Record
  <2>4. s.st.first = g1  BY <2>1, <2>3 DEF Record
  <2>5. w = IF s.st.first.diagnostic # <<>> \/ s.st.first.left # <<>> THEN s
            ELSE [s EXCEPT !.st.first.phase = "exit"]
    BY <1>3, <1>4, <1>5, <1>6, <2>2, ZenonT(60) DEF WriteImage
  <2>6. CASE e # <<>>  BY <1>10, <1>11, <2>3, <2>4, <2>5, <2>6
  <2>7. CASE e = <<>>
    <3>1. w = [s EXCEPT !.st.first.phase = "exit"]  BY <1>11, <2>4, <2>5, <2>7
    <3>2. Record(s)  BY <2>1, <2>3 DEF Record
    <3>3. w = [s EXCEPT !.st.first = [g1 EXCEPT !.phase = "exit"]]  BY <2>4, <3>1, <3>2 DEF Record
    <3>4. g = [g1 EXCEPT !.phase = "exit"]  BY <1>10, <2>7
    <3>5. w = [s EXCEPT !.st.first = g]  BY <3>3, <3>4
    <3> QED BY <2>1, <2>3, <3>5 DEF Record
  <2> QED BY <2>6, <2>7
<1>14. /\ Typed(w) /\ w.ch = u.ch
       /\ w.st.graph = graph /\ w.st.early = v.st.early /\ w.st.source = v.st.source
       /\ w.st.delay = delay /\ w.st.sent = sent
       /\ w.st.first = g /\ w.st.isolate = i /\ w.st.cli = c
  <2>1. PICK y : y = [u EXCEPT !.st.first = g]  OBVIOUS
  <2>2. /\ Typed(y) /\ y.ch = u.ch
        /\ y.st.graph = u.st.graph /\ y.st.early = u.st.early /\ y.st.source = u.st.source
        /\ y.st.delay = u.st.delay /\ y.st.sent = u.st.sent
        /\ y.st.first = g /\ y.st.isolate = u.st.isolate /\ y.st.cli = u.st.cli
    <3>1. Typed(u) /\ g \in FirstState  BY <1>7, <1>12
    <3> QED BY <2>1, <3>1, WithFirst
  <2> QED BY <1>7, <1>13, <2>1, <2>2
<1> DEFINE h == u.ch["diagnostic"]
<1>15. h.data \in StreamOf("diagnostic")  BY <1>0, <1>7 DEF Typed
<1> HIDE DEF f, i, c, img, dia, run, n, sent, delay, k, graph, h
<1>16. Reading(g, k, n, sent, delay)
  <2>1. g.phase # "stage" /\ g.failed  BY <1>3, <1>12
  <2> QED BY <1>3, <1>12, <2>1 DEF Reading
<1>17. Imaging(g, i, img)
  <2>1. g.phase \in {"write", "exit"}  BY <1>12
  <2>2. g.phase = "exit" => g.left = <<>> /\ g.diagnostic = <<>>  BY <1>12
  <2>3. g.left = f.left  BY <1>8, <1>12
  <2> QED BY <1>3, <1>12, <2>1, <2>2, <2>3 DEF Imaging
<1>18. Diagnosed(graph, g, i, c, h, run)
  <2>1. Refused(graph, g) <=> Refused(graph, f)  BY <1>12 DEF Refused
  <2>2. ASSUME Telling(c, "compile", dia, f.diagnostic) PROVE Telling(c, "compile", h, e)
    <3>1. /\ dia.data \in Seq({"compile"}) /\ f.diagnostic \in Seq({"compile"})
          /\ h.data \in Seq({"compile"}) /\ e \in Seq({"compile"})
      BY <1>1, <1>7, <1>15 DEF StreamOf, Of
    <3>2. Len(h.data) + Len(e) = Len(dia.data) + Len(f.diagnostic)  BY <1>7 DEF h, dia, f
    <3> QED BY <2>2, <3>1, <3>2, TellsOn
  <2>3. ASSUME f.diagnostic = <<>> /\ dia.data = <<>> PROVE e = <<>> /\ h.data = <<>>
    <3>1. Len(dia.data) + Len(f.diagnostic) = 0  BY <2>3
    <3>2. Len(h.data) + Len(e) = 0  BY <1>7, <3>1 DEF h, dia, f
    <3>3. Len(h.data) \in Nat /\ Len(e) \in Nat  BY <1>7, <1>15, NoneLeft
    <3>4. \A x, y \in Nat : x + y = 0 => x = 0 /\ y = 0  OBVIOUS
    <3> QED BY <1>7, <1>15, <3>2, <3>3, <3>4, NoneLeft
  <2>4. Refused(graph, g) => Telling(c, "compile", h, g.diagnostic)
    BY <1>3, <1>12, <2>1, <2>2 DEF Diagnosed
  <2>5. ~Refused(graph, g) => g.diagnostic = <<>> /\ h.data = <<>>
    BY <1>3, <1>12, <2>1, <2>3 DEF Diagnosed
  <2> QED BY <1>3, <2>1, <2>4, <2>5 DEF Diagnosed
<1>19. c.exit = "none"
  <2>1. i.phase = "stage"  BY <1>3 DEF Imaging
  <2> QED BY <1>3, <2>1 DEF Exiting
<1> USE DEF f, i, c, img, dia, run, n, sent, delay, k, graph, h
<1>20. \A d \in {"source", "image", "result", "runtime"} : w.ch[d] = v.ch[d]
  BY <1>7, <1>14 DEF Channels
<1>21. Flows(w)  BY <1>14, <1>16, <1>17, <1>18, <1>19, <1>20, FirstFlows
<1>22. AllRead(w)  BY <1>12, <1>14 DEF AllRead
<1>23. /\ Rounds(v) = Remaining(f, n, sent, delay) /\ Rounds(w) = Remaining(g, n, sent, delay)
       /\ w.st.isolate.waited = v.st.isolate.waited /\ w.ch["image"] = v.ch["image"]
  BY <1>14, <1>20 DEF Rounds
<1> HIDE DEF f, i, c, img, dia, run, n, sent, delay, k, graph
<1>24. f.waited <= CompileWait /\ sent <= n /\ g.waited = f.waited  BY <1>3, <1>12 DEF Reading
<1>25. Counted(Rounds(v), f, n, sent, delay)  BY <1>1, <1>23, <1>24, RemainingIs
<1>26. Counted(Rounds(w), g, n, sent, delay)  BY <1>1, <1>12, <1>23, <1>24, RemainingIs
<1>27. Rounds(v) \in Nat /\ Rounds(w) \in Nat /\ 1 + Rounds(w) <= 0 + Rounds(v)
  <2>1. Rounds(v) = Len(f.diagnostic) + 2 /\ Rounds(v) \in Nat /\ Rounds(w) \in Nat
    BY <1>3, <1>25, <1>26 DEF Counted
  <2>2. Len(e) \in Nat /\ Len(f.diagnostic) \in Nat  BY <1>1, <1>7, NoneLeft
  <2>3. PICK p \in Nat : p = Len(f.diagnostic)  BY <2>2
  <2>4. PICK q \in Nat : q = Len(e)  BY <2>2
  <2>5. CASE e # <<>>
    <3>1. Rounds(w) = q + 2  BY <1>12, <1>26, <2>4, <2>5 DEF Counted
    <3>2. q < p
      <4>1. q # 0 /\ q <= p  BY <1>7, <2>3, <2>4, <2>5, NoneLeft DEF f
      <4>2. p # 0  BY <4>1
      <4>3. f.diagnostic # <<>>  BY <2>3, <4>2
      <4> QED BY <1>7, <2>3, <2>4, <4>3 DEF f
    <3> QED BY <2>1, <2>3, <3>1, <3>2
  <2>6. CASE e = <<>>
    <3>1. Rounds(w) = 1  BY <1>12, <1>26, <2>6 DEF Counted
    <3> QED BY <2>1, <2>3, <3>1
  <2> QED BY <2>5, <2>6
<1>28. InTime(w, 1)
  <2>1. 0 \in Nat /\ 1 \in Nat  OBVIOUS
  <2>2. v.st.isolate.waited \in Nat  BY <1>1 DEF i
  <2> QED BY <1>14, <1>23, <1>27, <2>1, <2>2, RoundLess
<1> QED BY <1>21, <1>22, <1>28

\* An image that was made is written.
LEMMA WriteWrites ==
    ASSUME NEW v, Flows(v), InTime(v, 0), v.st.first.phase = "write", ~v.st.first.failed,
           NEW a \in Nat \ {0}, NEW w, w = WriteImage(v, a)
    PROVE  Flows(w) /\ AllRead(w) /\ InTime(w, 1)
<1> DEFINE f == v.st.first
           i == v.st.isolate
           c == v.st.cli
           img == v.ch["image"]
           dia == v.ch["diagnostic"]
           run == v.ch["runtime"]
           n == v.st.source.cells
           sent == v.st.sent
           delay == v.st.delay
           k == v.ch["source"]
           graph == v.st.graph
<1>0. /\ Typed(v) /\ SourceIn(v) /\ ImageOn(v) /\ OutcomeOf(v)
      /\ "image" \in Channels
  BY DEF Flows, Channels
<1>1. /\ f \in FirstState /\ n \in Nat /\ delay \in Nat /\ sent \in Nat
      /\ f.waited \in Nat /\ i.waited \in Nat
      /\ f.diagnostic \in StreamOf("diagnostic") /\ f.left \in StreamOf("image")
      /\ i.got \in Seq({"image"}) /\ img.data \in StreamOf("image")
      /\ dia.data \in StreamOf("diagnostic")
  <2>1. f \in FirstState /\ n \in Nat /\ delay \in Nat /\ sent \in Nat
        /\ i \in IsolateState /\ img.data \in StreamOf("image")
        /\ dia.data \in StreamOf("diagnostic")
    BY <1>0, Parts DEF Channels
  <2> QED BY <2>1 DEF FirstState, IsolateState, StreamOf, Of
<1>3. /\ Reading(f, k, n, sent, delay) /\ Imaging(f, i, img)
      /\ Diagnosed(graph, f, i, c, dia, run) /\ f.phase = "write" /\ ~f.failed
      /\ Exiting(i, c, v.ch["result"], dia, run)
  BY <1>0 DEF SourceIn, ImageOn, OutcomeOf
<1>4. PICK r : r = push_progress(v, "image", f.left, a)  OBVIOUS
<1>5. PICK u : u = r.v  OBVIOUS
<1>6. PICK e : e = r.left  OBVIOUS
<1>7. /\ Typed(u) /\ u.st = v.st
      /\ \A d \in Channels \ {"image"} : u.ch[d] = v.ch[d]
      /\ e \in StreamOf("image")
      /\ Len(u.ch["image"].data) + Len(e) = Len(img.data) + Len(f.left)
      /\ Len(e) <= Len(f.left) /\ (f.left # <<>> => Len(e) < Len(f.left))
      /\ (u.ch["image"].written <=> img.written \/ f.left # <<>>)
      /\ u.ch["image"].closed = img.closed
  <2>1. f.left \in StreamOf("image")  BY <1>1
  <2>2. PICK p : p = f.left  OBVIOUS
  <2>3. Typed(v) /\ "image" \in Channels /\ p \in StreamOf("image")  BY <1>0, <2>1, <2>2
  <2>4. r = push_progress(v, "image", p, a)  BY <1>4, <2>2
  <2>5. /\ Typed(u) /\ u.st = v.st
        /\ \A d \in Channels \ {"image"} : u.ch[d] = v.ch[d]
        /\ e \in StreamOf("image")
        /\ Len(u.ch["image"].data) + Len(e) = Len(v.ch["image"].data) + Len(p)
        /\ Len(e) <= Len(p) /\ (p # <<>> => Len(e) < Len(p))
        /\ (u.ch["image"].written <=> v.ch["image"].written \/ p # <<>>)
        /\ u.ch["image"].closed = v.ch["image"].closed
    <3>1. Pushed(v, "image", p, r)  BY <2>3, <2>4, PushDoes
    <3> QED BY <1>5, <1>6, <3>1 DEF Pushed
  <2> QED BY <2>2, <2>5
<1>8. f.diagnostic = <<>>
  <2>1. ~Refused(graph, f)  BY <1>3 DEF Refused
  <2> QED BY <1>3, <2>1 DEF Diagnosed
<1>9. PICK g1 : g1 = [f EXCEPT !.left = e]  OBVIOUS
<1>10. PICK g : g = IF e # <<>> THEN g1 ELSE [g1 EXCEPT !.phase = "exit"]  OBVIOUS
<1>11. g1 \in FirstState /\ g1.phase = "write" /\ g1.left = e /\ g1.diagnostic = <<>>
       /\ g1.failed = f.failed /\ g1.waited = f.waited /\ g1.exit = f.exit /\ g1.got = f.got
  <2>1. e \in Seq({"image"})  BY <1>7 DEF StreamOf, Of
  <2> QED BY <1>1, <1>3, <1>8, <1>9, <2>1 DEF FirstState
<1>12. /\ g \in FirstState /\ g.phase = IF e # <<>> THEN "write" ELSE "exit"
       /\ g.left = e /\ g.diagnostic = <<>>
       /\ g.failed = f.failed /\ g.waited = f.waited /\ g.exit = f.exit /\ g.got = f.got
  <2>1. CASE e # <<>>  BY <1>10, <1>11, <2>1
  <2>2. CASE e = <<>>
    <3>1. g = [g1 EXCEPT !.phase = "exit"]  BY <1>10, <2>2
    <3> QED BY <1>11, <2>2, <3>1 DEF FirstState
  <2> QED BY <2>1, <2>2
<1>13. w = [u EXCEPT !.st.first = g]
  <2>1. Record(u) /\ u.st.first = f  BY <1>7, TypedRecord
  <2>2. PICK s : s = [u EXCEPT !.st.first.left = e]  BY Zenon
  <2>3. s = [u EXCEPT !.st.first = g1]  BY <1>9, <2>1, <2>2 DEF Record
  <2>4. s.st.first = g1  BY <2>1, <2>3 DEF Record
  <2>5. w = IF s.st.first.diagnostic # <<>> \/ s.st.first.left # <<>> THEN s
            ELSE [s EXCEPT !.st.first.phase = "exit"]
    BY <1>3, <1>4, <1>5, <1>6, <2>2, ZenonT(60) DEF WriteImage
  <2>6. CASE e # <<>>  BY <1>10, <1>11, <2>3, <2>4, <2>5, <2>6
  <2>7. CASE e = <<>>
    <3>1. w = [s EXCEPT !.st.first.phase = "exit"]  BY <1>11, <2>4, <2>5, <2>7
    <3>2. Record(s)  BY <2>1, <2>3 DEF Record
    <3>3. w = [s EXCEPT !.st.first = [g1 EXCEPT !.phase = "exit"]]  BY <2>4, <3>1, <3>2 DEF Record
    <3>4. g = [g1 EXCEPT !.phase = "exit"]  BY <1>10, <2>7
    <3>5. w = [s EXCEPT !.st.first = g]  BY <3>3, <3>4
    <3> QED BY <2>1, <2>3, <3>5 DEF Record
  <2> QED BY <2>6, <2>7
<1>14. /\ Typed(w) /\ w.ch = u.ch
       /\ w.st.graph = graph /\ w.st.early = v.st.early /\ w.st.source = v.st.source
       /\ w.st.delay = delay /\ w.st.sent = sent
       /\ w.st.first = g /\ w.st.isolate = i /\ w.st.cli = c
  <2>1. PICK y : y = [u EXCEPT !.st.first = g]  OBVIOUS
  <2>2. /\ Typed(y) /\ y.ch = u.ch
        /\ y.st.graph = u.st.graph /\ y.st.early = u.st.early /\ y.st.source = u.st.source
        /\ y.st.delay = u.st.delay /\ y.st.sent = u.st.sent
        /\ y.st.first = g /\ y.st.isolate = u.st.isolate /\ y.st.cli = u.st.cli
    <3>1. Typed(u) /\ g \in FirstState  BY <1>7, <1>12
    <3> QED BY <2>1, <3>1, WithFirst
  <2> QED BY <1>7, <1>13, <2>1, <2>2
<1> DEFINE h == u.ch["image"]
<1>15. h.data \in StreamOf("image")  BY <1>0, <1>7 DEF Typed
<1> HIDE DEF f, i, c, img, dia, run, n, sent, delay, k, graph, h
<1>16. Reading(g, k, n, sent, delay)
  <2>1. g.phase # "stage"  BY <1>12
  <2> QED BY <1>3, <1>12, <2>1 DEF Reading
<1>161. /\ Len(i.got) + Len(h.data) + Len(e) = ImageCells
        /\ (h.written <=> Len(i.got) + Len(h.data) > 0)
        /\ (e # <<>> => h.written)
  <2>1. /\ Len(i.got) \in Nat /\ Len(h.data) \in Nat /\ Len(e) \in Nat /\ Len(img.data) \in Nat
        /\ Len(f.left) \in Nat
    BY <1>1, <1>7, <1>15, NoneLeft
  <2>2. PICK x \in Nat : x = Len(i.got)  BY <2>1
  <2>3. PICK p \in Nat : p = Len(h.data)  BY <2>1
  <2>4. PICK q \in Nat : q = Len(e)  BY <2>1
  <2>5. PICK y \in Nat : y = Len(img.data)  BY <2>1
  <2>6. PICK z \in Nat : z = Len(f.left)  BY <2>1
  <2>7. p + q = y + z  BY <1>7, <2>3, <2>4, <2>5, <2>6 DEF h, img, f
  <2>8. x + y + z = ImageCells  BY <1>3, <2>2, <2>5, <2>6 DEF Imaging
  <2>9. x + p + q = ImageCells  BY <2>7, <2>8 DEF ImageCells
  <2>10. f.left # <<>> <=> z # 0  BY <1>1, <2>6, NoneLeft
  <2>11. z # 0 => q < z  BY <1>7, <2>4, <2>6, <2>10 DEF f
  <2>12. q <= z  BY <1>7, <2>4, <2>6 DEF f
  <2>13. img.written <=> x + y > 0  BY <1>3, <2>2, <2>5 DEF Imaging
  <2>14. h.written <=> img.written \/ z # 0  BY <1>7, <2>10 DEF h, img, f
  <2>15. x + y > 0 \/ z # 0 <=> x + p > 0
    <3>1. CASE z = 0
      <4>1. q = 0 /\ p = y  BY <2>7, <2>12, <3>1
      <4> QED BY <3>1, <4>1
    <3>2. CASE z # 0
      <4>1. q < z  BY <2>11, <3>2
      <4>2. p > 0  BY <2>7, <4>1
      <4> QED BY <3>2, <4>2
    <3> QED BY <3>1, <3>2
  <2>16. h.written <=> x + p > 0  BY <2>13, <2>14, <2>15
  <2>17. e # <<>> <=> q # 0  BY <1>7, <2>4, NoneLeft
  <2>18. q # 0 => z # 0  BY <2>12
  <2>19. e # <<>> => h.written  BY <2>14, <2>17, <2>18
  <2> QED BY <2>2, <2>3, <2>4, <2>9, <2>16, <2>19
<1>17. Imaging(g, i, h)
  <2>1. g.phase \in {"write", "exit"}  BY <1>12
  <2>2. g.phase = "exit" => g.left = <<>> /\ g.diagnostic = <<>>  BY <1>12
  <2>3. ~g.failed /\ g.phase # "stage" /\ g.phase # "done" /\ g.phase # "work"  BY <1>3, <1>12
  <2>4. i.phase = "stage" /\ i.ran = <<>> /\ f.exit # "done" /\ ~img.closed  BY <1>3 DEF Imaging
  <2>5. ~h.closed  BY <1>7, <2>4 DEF h, img
  <2>6. Len(i.got) + Len(h.data) + Len(g.left) = ImageCells  BY <1>12, <1>161
  <2>7. g.exit # "done"  BY <1>12, <2>4
  <2> QED BY <1>161, <2>2, <2>3, <2>4, <2>5, <2>6, <2>7 DEF Imaging
<1>18. Diagnosed(graph, g, i, c, dia, run)
  <2>1. ~Refused(graph, g) /\ ~Refused(graph, f)  BY <1>3, <1>12 DEF Refused
  <2> QED BY <1>3, <1>12, <2>1 DEF Diagnosed
<1> USE DEF f, i, c, img, dia, run, n, sent, delay, k, graph, h
<1>20. \A d \in {"source", "diagnostic", "result", "runtime"} : w.ch[d] = v.ch[d]
  BY <1>7, <1>14 DEF Channels
<1>21. Flows(w)  BY <1>14, <1>16, <1>17, <1>18, <1>20, FirstFlows
<1>22. AllRead(w)  BY <1>12, <1>14 DEF AllRead
<1>23. CASE e # <<>>
  <2>1. w.ch["image"].written  BY <1>14, <1>161, <1>23
  <2>2. InTime(w, 1)  BY <2>1 DEF InTime, Outlasts
  <2> QED BY <1>21, <1>22, <2>2
<1>24. CASE e = <<>>
  <2>1. /\ Rounds(v) = Remaining(f, n, sent, delay) /\ Rounds(w) = Remaining(g, n, sent, delay)
        /\ w.st.isolate.waited = v.st.isolate.waited /\ v.st.isolate.waited \in Nat
        /\ (v.ch["image"].written => w.ch["image"].written)
        /\ (v.ch["image"].closed => w.ch["image"].closed)
    BY <1>1, <1>7, <1>14 DEF Rounds
  <2> HIDE DEF f, i, c, img, dia, run, n, sent, delay, k, graph
  <2>2. f.waited <= CompileWait /\ sent <= n /\ g.waited = f.waited  BY <1>3, <1>12 DEF Reading
  <2>3. Counted(Rounds(v), f, n, sent, delay)  BY <1>1, <2>1, <2>2, RemainingIs
  <2>4. Counted(Rounds(w), g, n, sent, delay)  BY <1>1, <1>12, <2>1, <2>2, RemainingIs
  <2>5. Rounds(v) = Len(f.diagnostic) + 2 /\ Rounds(v) \in Nat  BY <1>3, <2>3 DEF Counted
  <2>6. Rounds(w) = 1 /\ Rounds(w) \in Nat  BY <1>12, <1>24, <2>4 DEF Counted
  <2>7. Rounds(v) = 2  BY <1>8, <2>5
  <2>8. 1 + Rounds(w) <= 0 + Rounds(v) /\ 0 \in Nat /\ 1 \in Nat  BY <2>6, <2>7
  <2>9. InTime(w, 1)  BY <1>14, <2>1, <2>5, <2>6, <2>8, RoundLess
  <2> QED BY <1>21, <1>22, <2>9
<1> QED BY <1>23, <1>24

\* The compiler or the linker is done and hangs up.
LEMMA FirstExits ==
    ASSUME NEW v, Flows(v), v.st.first.phase = "exit", NEW a, NEW w, w = First(v, a)
    PROVE  Flows(w) /\ AllRead(w) /\ InTime(w, 1)
<1> DEFINE f == v.st.first
           i == v.st.isolate
           c == v.st.cli
           img == v.ch["image"]
           dia == v.ch["diagnostic"]
           run == v.ch["runtime"]
           n == v.st.source.cells
           sent == v.st.sent
           delay == v.st.delay
           k == v.ch["source"]
           graph == v.st.graph
<1>0. /\ Typed(v) /\ SourceIn(v) /\ ImageOn(v) /\ OutcomeOf(v) /\ f \in FirstState
      /\ f.phase = "exit"
  BY Parts DEF Flows
<1>1. /\ Reading(f, k, n, sent, delay) /\ Imaging(f, i, img)
      /\ Diagnosed(graph, f, i, c, dia, run)
  BY <1>0 DEF SourceIn, ImageOn, OutcomeOf
<1>2. PICK g1 : g1 = [f EXCEPT !.phase = "done"]  OBVIOUS
<1>3. PICK g : g = [g1 EXCEPT !.exit = IF f.failed THEN "failed" ELSE "done"]  OBVIOUS
<1>4. g1 \in FirstState /\ g1.phase = "done" /\ g1.failed = f.failed /\ g1.left = f.left
      /\ g1.diagnostic = f.diagnostic /\ g1.got = f.got /\ g1.waited = f.waited
  BY <1>0, <1>2 DEF FirstState
<1>5. g \in FirstState /\ g.phase = "done" /\ g.failed = f.failed /\ g.left = f.left
      /\ g.diagnostic = f.diagnostic /\ g.got = f.got /\ g.waited = f.waited
      /\ (g.exit = "done" => ~f.failed)
  <2>1. CASE f.failed
    <3>1. g = [g1 EXCEPT !.exit = "failed"]  BY <1>3, <2>1
    <3> QED BY <1>4, <3>1 DEF FirstState
  <2>2. CASE ~f.failed
    <3>1. g = [g1 EXCEPT !.exit = "done"]  BY <1>3, <2>2
    <3> QED BY <1>4, <2>2, <3>1 DEF FirstState
  <2> QED BY <2>1, <2>2
<1>6. PICK u : u = [v EXCEPT !.st.first = g]  OBVIOUS
<1>7. w = Close(u, {"image", "diagnostic"})
  <2>1. Record(v)  BY <1>0, TypedRecord
  <2>2. PICK x : x = IF f.failed THEN "failed" ELSE "done"  OBVIOUS
  <2>3. PICK s : s = [v EXCEPT !.st.first.phase = "done"]  OBVIOUS
  <2>4. s = [v EXCEPT !.st.first = g1]  BY <1>2, <2>1, <2>3 DEF Record
  <2>5. Record(s) /\ s.st.first = g1  BY <2>1, <2>4 DEF Record
  <2>6. [s EXCEPT !.st.first.exit = x] = [s EXCEPT !.st.first = [g1 EXCEPT !.exit = x]]
    BY <2>5 DEF Record
  <2>7. [s EXCEPT !.st.first = g] = [v EXCEPT !.st.first = g]  BY <2>1, <2>4 DEF Record
  <2>8. w = Close([v EXCEPT !.st.first.phase = "done", !.st.first.exit = x], {"image", "diagnostic"})
    BY <1>0, <2>2 DEF First
  <2>9. w = Close([s EXCEPT !.st.first.exit = x], {"image", "diagnostic"})  BY <2>3, <2>8
  <2> QED BY <1>3, <1>6, <2>2, <2>6, <2>7, <2>9
<1>8. /\ Typed(u) /\ u.ch = v.ch
      /\ u.st.graph = graph /\ u.st.early = v.st.early /\ u.st.source = v.st.source
      /\ u.st.delay = delay /\ u.st.sent = sent
      /\ u.st.first = g /\ u.st.isolate = i /\ u.st.cli = c
  BY <1>0, <1>5, <1>6, WithFirst
<1>9. /\ Typed(w) /\ w.st = u.st
      /\ \A d \in Channels : /\ w.ch[d].data = u.ch[d].data /\ w.ch[d].written = u.ch[d].written
                             /\ (w.ch[d].closed <=> u.ch[d].closed \/ d \in {"image", "diagnostic"})
  BY <1>7, <1>8, CloseDoes
<1>10. \A d \in {"source", "result", "runtime"} : w.ch[d] = v.ch[d]
  <2>1. ASSUME NEW d \in {"source", "result", "runtime"} PROVE w.ch[d] = v.ch[d]
    <3>1. d \in Channels /\ d \notin {"image", "diagnostic"}  BY DEF Channels
    <3>2. w.ch[d] \in Channel /\ v.ch[d] \in Channel  BY <1>0, <1>9, <3>1, Parts
    <3>3. /\ w.ch[d].data = v.ch[d].data /\ w.ch[d].written = v.ch[d].written
          /\ (w.ch[d].closed <=> v.ch[d].closed)
      BY <1>8, <1>9, <3>1
    <3> QED BY <3>2, <3>3 DEF Channel
  <2> QED BY <2>1
<1>11. /\ w.ch["image"].data = img.data /\ w.ch["image"].written = img.written /\ w.ch["image"].closed
       /\ w.ch["diagnostic"].data = dia.data
  BY <1>8, <1>9 DEF Channels
<1>12. PICK h : h = w.ch["image"]  OBVIOUS
<1>13. PICK t : t = w.ch["diagnostic"]  OBVIOUS
<1> HIDE DEF f, i, c, img, dia, run, n, sent, delay, k, graph
<1>14. Reading(g, k, n, sent, delay)
  <2>1. g.phase # "stage" /\ f.phase # "stage"  BY <1>0, <1>5
  <2> QED BY <1>1, <1>5, <2>1 DEF Reading
<1>15. Imaging(g, i, h)
  <2>1. h.data = img.data /\ h.written = img.written /\ h.closed  BY <1>11, <1>12
  <2>2. i.phase = "stage" /\ i.ran = <<>> /\ f.left = <<>> /\ f.diagnostic = <<>>
    BY <1>0, <1>1 DEF Imaging
  <2>3. f.phase # "stage" /\ g.phase # "stage" /\ g.phase = "done" BY <1>0, <1>5
  <2> QED BY <1>1, <1>5, <2>1, <2>2, <2>3 DEF Imaging
<1>16. Diagnosed(graph, g, i, c, t, run)
  <2>1. t.data = dia.data  BY <1>11, <1>13
  <2>2. Refused(graph, g) <=> Refused(graph, f)  BY <1>5 DEF Refused
  <2>3. Telling(c, "compile", dia, f.diagnostic) => Telling(c, "compile", t, g.diagnostic)
    BY <1>5, <2>1 DEF Telling
  <2> QED BY <1>1, <1>5, <2>1, <2>2, <2>3 DEF Diagnosed
<1> USE DEF f, i, c, img, dia, run, n, sent, delay, k, graph
<1>17. Flows(w)  BY <1>8, <1>9, <1>10, <1>11, <1>12, <1>13, <1>14, <1>15, <1>16, FirstFlows
<1>18. AllRead(w)  BY <1>5, <1>8, <1>9 DEF AllRead
<1>19. InTime(w, 1)  BY <1>11 DEF InTime, Outlasts
<1> QED BY <1>17, <1>18, <1>19

\* The whole step.
LEMMA FirstKeeps ==
    ASSUME Patience, NEW v, Flows(v), Produced(v), InTime(v, 0), NEW a \in Nat \ {0},
           NEW w, w = First(v, a)
    PROVE  Flows(w) /\ AllRead(w) /\ InTime(w, 1)
<1>0. /\ v.st.first \in FirstState /\ ImageOn(v) /\ Typed(v)
  BY Parts DEF Flows
<1>1. v.st.first.phase \in {"stage", "work", "write", "exit", "done"} /\ v.st.first.failed \in BOOLEAN
  BY <1>0 DEF FirstState
<1>2. v.st.first.phase # "work"  BY <1>0 DEF ImageOn, Imaging
<1>3. CASE v.st.first.phase = "stage"
  <2>1. PICK s : s = Stage(v)  OBVIOUS
  <2>2. w = IF s.st.first.phase = "work" THEN Work(s) ELSE s  BY <1>3, <2>1 DEF First
  <2>3. CASE HasInput(v, "source")
    <3>1. Flows(s) /\ AllRead(s) /\ InTime(s, 1) /\ s.st.first.phase = "stage"
      BY <1>3, <2>1, <2>3, StageReads
    <3> QED BY <2>2, <3>1
  <2>4. CASE ~HasInput(v, "source") /\ (~HungUp(v, "source")
              \/ (/\ v.st.graph = "compile" /\ v.st.first.got = <<>>
                  /\ v.st.first.waited < CompileWait))
    <3>1. Flows(s) /\ AllRead(s) /\ InTime(s, 1) /\ s.st.first.phase = "stage"
      BY <1>3, <2>1, <2>4, StageWaits
    <3> QED BY <2>2, <3>1
  <2>5. CASE ~HasInput(v, "source") /\ HungUp(v, "source")
              /\ ~(/\ v.st.graph = "compile" /\ v.st.first.got = <<>>
                   /\ v.st.first.waited < CompileWait)
    <3>1. PICK y : y = Work(Stage(v))  OBVIOUS
    <3>2. s.st.first.phase = "work" /\ Flows(y) /\ AllRead(y) /\ InTime(y, 1)
      BY <1>3, <2>1, <2>5, <3>1, StageEnds
    <3>3. w = y  BY <2>1, <2>2, <3>1, <3>2
    <3> QED BY <3>2, <3>3
  <2> QED BY <2>3, <2>4, <2>5
<1>4. CASE v.st.first.phase = "write"
  <2>1. w = WriteImage(v, a)  BY <1>4 DEF First
  <2>2. CASE v.st.first.failed  BY <1>4, <2>1, <2>2, WriteTells
  <2>3. CASE ~v.st.first.failed  BY <1>4, <2>1, <2>3, WriteWrites
  <2> QED BY <1>1, <2>2, <2>3
<1>5. CASE v.st.first.phase = "exit"  BY <1>5, FirstExits
<1>6. CASE v.st.first.phase = "done"
  <2>1. w = v  BY <1>6 DEF First
  <2>2. v.ch["image"].closed  BY <1>0, <1>6 DEF ImageOn, Imaging
  <2>3. AllRead(v) /\ InTime(v, 1)  BY <1>6, <2>2 DEF AllRead, InTime, Outlasts
  <2> QED BY <2>1, <2>3
<1> QED BY <1>1, <1>2, <1>3, <1>4, <1>5, <1>6

\* The isolate's step changes its state and the channels of the image, the
\* result and its diagnostic.
LEMMA IsolateFlows ==
    ASSUME NEW v, Flows(v), NEW w, Typed(w),
           w.st.graph = v.st.graph, w.st.source = v.st.source, w.st.delay = v.st.delay,
           w.st.sent = v.st.sent, w.st.first = v.st.first, w.st.cli = v.st.cli,
           w.ch["source"] = v.ch["source"], w.ch["diagnostic"] = v.ch["diagnostic"],
           Imaging(v.st.first, w.st.isolate, w.ch["image"]),
           Diagnosed(v.st.graph, v.st.first, w.st.isolate, v.st.cli, v.ch["diagnostic"],
                     w.ch["runtime"]),
           Resulting(w.st.isolate, v.st.cli, w.ch["result"]),
           v.st.isolate.phase # "done"
    PROVE  Flows(w)
<1>1. SourceIn(v) /\ OutcomeOf(v)  BY DEF Flows
<1>2. Exiting(v.st.isolate, v.st.cli, v.ch["result"], v.ch["diagnostic"], v.ch["runtime"])
  BY <1>1 DEF OutcomeOf
<1>3. Exiting(w.st.isolate, v.st.cli, w.ch["result"], v.ch["diagnostic"], w.ch["runtime"])
  BY <1>2 DEF Exiting
<1>4. OutcomeOf(w)  BY <1>3 DEF OutcomeOf
<1>5. SourceIn(w)  BY <1>1 DEF SourceIn
<1>6. ImageOn(w)  BY DEF ImageOn
<1> QED BY <1>4, <1>5, <1>6 DEF Flows

\* A state with another isolate.
LEMMA WithIsolate ==
    ASSUME NEW v, Typed(v), NEW i \in IsolateState
    PROVE  LET w == [v EXCEPT !.st.isolate = i]
           IN  /\ Typed(w) /\ w.ch = v.ch
               /\ w.st.graph = v.st.graph /\ w.st.early = v.st.early /\ w.st.source = v.st.source
               /\ w.st.delay = v.st.delay /\ w.st.sent = v.st.sent
               /\ w.st.first = v.st.first /\ w.st.isolate = i /\ w.st.cli = v.st.cli
<1>1. PICK w : w = [v EXCEPT !.st.isolate = i]  OBVIOUS
<1>2. Record(v)  BY TypedRecord
<1>3. w = [st |-> [graph |-> v.st.graph, early |-> v.st.early, source |-> v.st.source,
                   delay |-> v.st.delay, sent |-> v.st.sent, beat |-> v.st.beat,
                   first |-> v.st.first, isolate |-> i, cli |-> v.st.cli],
           ch |-> v.ch]
  BY <1>1, <1>2 DEF Record
<1>4. v.st.first \in FirstState /\ v.st.cli \in EdgeState  BY Parts
<1>5. /\ Typed(w) /\ w.ch = v.ch
      /\ w.st.graph = v.st.graph /\ w.st.early = v.st.early /\ w.st.source = v.st.source
      /\ w.st.delay = v.st.delay /\ w.st.sent = v.st.sent
      /\ w.st.first = v.st.first /\ w.st.isolate = i /\ w.st.cli = v.st.cli
  BY <1>3, <1>4, Within
<1> QED BY <1>1, <1>5

\* What an isolate that stages has not run, failed or written.
LEMMA NotYetRun ==
    ASSUME NEW v, Flows(v), v.st.isolate.phase = "stage"
    PROVE  /\ v.st.isolate.ran = <<>> /\ ~v.st.isolate.failed /\ v.st.isolate.left = <<>>
           /\ v.st.isolate.diagnostic = <<>> /\ ~v.ch["result"].closed /\ v.ch["runtime"].data = <<>>
           /\ Len(v.st.cli.result) + Len(v.ch["result"].data) = 0
<1>1. /\ Imaging(v.st.first, v.st.isolate, v.ch["image"])
      /\ Diagnosed(v.st.graph, v.st.first, v.st.isolate, v.st.cli, v.ch["diagnostic"], v.ch["runtime"])
      /\ Resulting(v.st.isolate, v.st.cli, v.ch["result"])
      /\ v.st.cli \in EdgeState /\ Len(v.ch["result"].data) \in Nat
  BY Parts DEF Flows, ImageOn, OutcomeOf, Channels
<1>2. v.st.isolate.ran = <<>>  BY <1>1 DEF Imaging
<1>3. ~v.st.isolate.failed  BY <1>1, <1>2 DEF Resulting
<1>4. /\ v.st.isolate.left = <<>> /\ v.st.isolate.diagnostic = <<>> /\ ~v.ch["result"].closed
      /\ Len(v.st.cli.result) + Len(v.ch["result"].data) + Len(v.st.isolate.left) = 0
  BY <1>1, <1>2 DEF Resulting
<1>5. v.ch["runtime"].data = <<>>  BY <1>1, <1>3 DEF Diagnosed
<1>6. Len(v.st.cli.result) + Len(v.ch["result"].data) = 0
  <2>1. Len(v.st.cli.result) \in Nat  BY <1>1 DEF EdgeState
  <2>2. PICK x \in Nat : x = Len(v.st.cli.result)  BY <2>1
  <2>3. PICK y \in Nat : y = Len(v.ch["result"].data)  BY <1>1
  <2>4. PICK z : z = Len(v.st.isolate.left)  OBVIOUS
  <2>5. z = 0  BY <1>4, <2>4
  <2>6. x + y + z = 0  BY <1>4, <2>2, <2>3, <2>4
  <2>7. x + y = 0  BY <2>5, <2>6
  <2> QED BY <2>2, <2>3, <2>7
<1> QED BY <1>2, <1>3, <1>4, <1>5, <1>6

\* What arrives of an image is behind what arrived.
LEMMA ImageArrives ==
    ASSUME NEW v, Flows(v), AllRead(v), InTime(v, 1), v.st.isolate.phase = "stage",
           HasInput(v, "image"), NEW w, w = StageImage(v)
    PROVE  Flows(w) /\ AllRead(w) /\ InTime(w, 0)
<1> DEFINE f == v.st.first
           i == v.st.isolate
           c == v.st.cli
           img == v.ch["image"]
           dia == v.ch["diagnostic"]
           run == v.ch["runtime"]
           res == v.ch["result"]
           graph == v.st.graph
<1>0. /\ Typed(v) /\ ImageOn(v) /\ OutcomeOf(v) /\ "image" \in Channels /\ i.phase = "stage"
  BY DEF Flows, Channels
<1>1. /\ i \in IsolateState /\ i.got \in Seq({"image"}) /\ img.data \in StreamOf("image")
      /\ img.data \in Seq({"image"}) /\ f \in FirstState /\ f.left \in Seq({"image"})
  <2>1. i \in IsolateState /\ img.data \in StreamOf("image") /\ f \in FirstState  BY <1>0, Parts
  <2> QED BY <2>1 DEF IsolateState, FirstState, StreamOf, Of
<1>2. /\ Imaging(f, i, img) /\ Diagnosed(graph, f, i, c, dia, run) /\ Resulting(i, c, res)
  BY <1>0 DEF ImageOn, OutcomeOf
<1>3. PICK u : u = Drop(v, "image", ImageCells)  OBVIOUS
<1>4. PICK t : t = Take(v, "image", ImageCells)  OBVIOUS
<1>5. /\ Typed(u) /\ u.st = v.st
      /\ \A d \in Channels \ {"image"} : u.ch[d] = v.ch[d]
      /\ Len(u.ch["image"].data) = Len(img.data) - Least(2, Len(img.data))
      /\ u.ch["image"].written = img.written /\ u.ch["image"].closed = img.closed
      /\ t \in StreamOf("image") /\ Len(t) = Least(2, Len(img.data))
  <2>1. ImageCells = 2 /\ 2 \in Nat  BY DEF ImageCells
  <2> QED BY <1>0, <1>3, <1>4, <2>1, DropDoes
<1>6. t \in Seq({"image"})  BY <1>5 DEF StreamOf, Of
<1>7. i.got \o t \in Seq({"image"}) /\ Len(i.got \o t) = Len(i.got) + Len(t)  BY <1>1, <1>6, Joined
<1>8. PICK g : g = [i EXCEPT !.got = i.got \o t]  OBVIOUS
<1>9. /\ g \in IsolateState /\ g.phase = "stage" /\ g.waited = i.waited /\ g.got = i.got \o t
      /\ g.ran = i.ran /\ g.failed = i.failed /\ g.left = i.left /\ g.diagnostic = i.diagnostic
  BY <1>0, <1>1, <1>7, <1>8 DEF IsolateState
<1>10. w = [u EXCEPT !.st.isolate = g]
  <2>1. Record(u) /\ u.st.isolate = i  BY <1>5, TypedRecord
  <2>2. w = [u EXCEPT !.st.isolate.got = u.st.isolate.got \o t]  BY <1>3, <1>4 DEF StageImage
  <2> QED BY <1>8, <2>1, <2>2 DEF Record
<1>11. /\ Typed(w) /\ w.ch = u.ch
       /\ w.st.graph = graph /\ w.st.early = v.st.early /\ w.st.source = v.st.source
       /\ w.st.delay = v.st.delay /\ w.st.sent = v.st.sent
       /\ w.st.first = f /\ w.st.isolate = g /\ w.st.cli = c
  <2>1. PICK y : y = [u EXCEPT !.st.isolate = g]  OBVIOUS
  <2>2. Typed(u) /\ g \in IsolateState  BY <1>5, <1>9
  <2>3. /\ Typed(y) /\ y.ch = u.ch
        /\ y.st.graph = u.st.graph /\ y.st.early = u.st.early /\ y.st.source = u.st.source
        /\ y.st.delay = u.st.delay /\ y.st.sent = u.st.sent
        /\ y.st.first = u.st.first /\ y.st.isolate = g /\ y.st.cli = u.st.cli
    BY <2>1, <2>2, WithIsolate
  <2> QED BY <1>5, <1>10, <2>1, <2>3
<1> DEFINE h == u.ch["image"]
<1>12. h.data \in Seq({"image"})  BY <1>0, <1>5 DEF Typed, StreamOf, Of
<1> HIDE DEF f, i, c, img, dia, run, res, graph, h
<1>13. Imaging(f, g, h)
  <2>1. /\ Len(i.got) \in Nat /\ Len(img.data) \in Nat /\ Len(h.data) \in Nat /\ Len(t) \in Nat
        /\ Len(f.left) \in Nat
    BY <1>1, <1>6, <1>12, NoneOf
  <2>2. PICK x \in Nat : x = Len(i.got)  BY <2>1
  <2>3. PICK y \in Nat : y = Len(img.data)  BY <2>1
  <2>4. PICK z \in Nat : z = Len(f.left)  BY <2>1
  <2>5. PICK p \in Nat : p = Len(t)  BY <2>1
  <2>6. PICK q \in Nat : q = Len(h.data)  BY <2>1
  <2>7. q = y - p
    <3>1. Len(h.data) = Len(img.data) - Least(2, Len(img.data)) /\ Len(t) = Least(2, Len(img.data))
      BY <1>5 DEF h, img
    <3> QED BY <2>3, <2>5, <2>6, <3>1
  <2>8. Len(g.got) = x + p  BY <1>7, <1>9, <2>2, <2>5
  <2>9. (x + p) + q = x + y /\ (x + p) + q + z = x + y + z  BY <2>7
  <2>10. /\ Len(g.got) + Len(h.data) = Len(i.got) + Len(img.data)
         /\ Len(g.got) + Len(h.data) + Len(f.left) = Len(i.got) + Len(img.data) + Len(f.left)
    BY <2>2, <2>3, <2>4, <2>6, <2>8, <2>9
  <2>11. h.written = img.written /\ h.closed = img.closed  BY <1>5 DEF h, img
  <2> QED BY <1>0, <1>2, <1>9, <2>10, <2>11 DEF Imaging, i
<1>14. Diagnosed(graph, f, g, c, dia, run)  BY <1>2, <1>9 DEF Diagnosed
<1>15. Resulting(g, c, res)
  <2>1. i.phase = "stage"  BY <1>0 DEF i
  <2> QED BY <1>2, <1>9, <2>1 DEF Resulting
<1> USE DEF f, i, c, img, dia, run, res, graph, h
<1>16. \A d \in {"source", "diagnostic", "result", "runtime"} : w.ch[d] = v.ch[d]
  BY <1>5, <1>11 DEF Channels
<1>17. Flows(w)  BY <1>0, <1>11, <1>13, <1>14, <1>15, <1>16, IsolateFlows
<1>18. AllRead(w)  BY <1>11, <1>16 DEF AllRead
<1>19. img.written
  <2>1. Len(img.data) \in Nat /\ Len(img.data) # 0  BY <1>1, NoneOf DEF HasInput
  <2>2. Len(i.got) \in Nat  BY <1>1
  <2>3. \A x, y \in Nat : y # 0 => x + y > 0  OBVIOUS
  <2>4. Len(i.got) + Len(img.data) > 0  BY <2>1, <2>2, <2>3
  <2> QED BY <1>2, <2>4 DEF Imaging
<1>20. InTime(w, 0)  BY <1>5, <1>11, <1>19 DEF InTime, Outlasts
<1> QED BY <1>17, <1>18, <1>20

\* The isolate's stage changes its state alone, and is done in time.
LEMMA StagedFlows ==
    ASSUME NEW v, Flows(v), AllRead(v), v.st.isolate.phase = "stage", NEW g \in IsolateState,
           NEW w, w = [v EXCEPT !.st.isolate = g],
           Imaging(v.st.first, g, v.ch["image"]),
           Diagnosed(v.st.graph, v.st.first, g, v.st.cli, v.ch["diagnostic"], v.ch["runtime"]),
           Resulting(g, v.st.cli, v.ch["result"]),
           Outlasts(v.st.early, v.ch["image"], g, 0 + Rounds(v))
    PROVE  Flows(w) /\ AllRead(w) /\ InTime(w, 0)
<1>1. Typed(v)  BY DEF Flows
<1>2. /\ Typed(w) /\ w.ch = v.ch
      /\ w.st.graph = v.st.graph /\ w.st.early = v.st.early /\ w.st.source = v.st.source
      /\ w.st.delay = v.st.delay /\ w.st.sent = v.st.sent
      /\ w.st.first = v.st.first /\ w.st.isolate = g /\ w.st.cli = v.st.cli
  BY <1>1, WithIsolate
<1>3. Flows(w)  BY <1>2, IsolateFlows
<1>4. AllRead(w)  BY <1>2 DEF AllRead
<1>5. Rounds(w) = Rounds(v)  BY <1>2 DEF Rounds
<1>6. InTime(w, 0)  BY <1>2, <1>5 DEF InTime, Rounds
<1> QED BY <1>3, <1>4, <1>6

OnIsolate(v, i) == [v EXCEPT !.st.isolate = i]

\* The isolate put in last is the one there is.
LEMMA OtherIsolate ==
    ASSUME NEW v, Record(v), NEW i, NEW j
    PROVE  /\ OnIsolate(OnIsolate(v, i), j) = OnIsolate(v, j)
           /\ Record(OnIsolate(v, i)) /\ OnIsolate(v, i).st.isolate = i
<1>1. PICK u : u = OnIsolate(v, i)  OBVIOUS
<1>2. PICK w : w = OnIsolate(u, j)  OBVIOUS
<1>3. Record(u) /\ u.st.isolate = i  BY <1>1 DEF Record, OnIsolate
<1>4. w = OnIsolate(v, j)  BY <1>1, <1>2 DEF Record, OnIsolate
<1> QED BY <1>1, <1>2, <1>3, <1>4

\* The image channel is silent: not yet, no image, or all of it.
LEMMA ImageEnds ==
    ASSUME NEW v, Flows(v), AllRead(v), InTime(v, 1), v.st.isolate.phase = "stage",
           ~HasInput(v, "image"), NEW w, w = StageImage(v)
    PROVE  Flows(w) /\ AllRead(w) /\ InTime(w, 0)
<1> DEFINE f == v.st.first
           i == v.st.isolate
           c == v.st.cli
           img == v.ch["image"]
           dia == v.ch["diagnostic"]
           run == v.ch["runtime"]
           res == v.ch["result"]
           graph == v.st.graph
           early == v.st.early
           R == Rounds(v)
<1>0. /\ Typed(v) /\ ImageOn(v) /\ OutcomeOf(v) /\ SourceIn(v) /\ i.phase = "stage"
  BY DEF Flows
<1>1. /\ i \in IsolateState /\ f \in FirstState /\ i.got \in Seq({"image"})
      /\ f.left \in Seq({"image"}) /\ i.waited \in Nat /\ IsolateWait \in Nat
  <2>1. i \in IsolateState /\ f \in FirstState  BY <1>0, Parts
  <2> QED BY <2>1, PipelineAssumption DEF IsolateState, FirstState
<1>2. /\ Imaging(f, i, img) /\ Diagnosed(graph, f, i, c, dia, run) /\ Resulting(i, c, res)
  BY <1>0 DEF ImageOn, OutcomeOf
<1>3. R \in Nat
  <2>1. /\ v.st.source.cells \in Nat /\ v.st.delay \in Nat /\ v.st.sent \in Nat
    BY <1>0, Parts
  <2>2. v.st.sent <= v.st.source.cells /\ f.waited <= CompileWait
    BY <1>0 DEF SourceIn, Reading
  <2>3. Counted(R, f, v.st.source.cells, v.st.sent, v.st.delay)
    BY <1>1, <2>1, <2>2, RemainingIs DEF Rounds
  <2> QED BY <2>3 DEF Counted
<1>4. Outlasts(early, img, i, 1 + R)  BY DEF InTime, Rounds
<1>5. img.data = <<>> /\ Len(img.data) = 0  BY DEF HasInput
<1>6. Record(v)  BY <1>0, TypedRecord
<1>7. /\ i.ran = <<>> /\ ~i.failed /\ i.left = <<>> /\ i.diagnostic = <<>> /\ ~res.closed
      /\ run.data = <<>> /\ Len(c.result) + Len(res.data) = 0
  BY <1>0, NotYetRun
<1>8. HungUp(v, "image") <=> img.closed \/ (early /\ ~img.written)
  BY <1>5 DEF HungUp
<1>9. i.got # <<>> <=> Len(i.got) > 0  BY <1>1
<1>10. CASE ~HungUp(v, "image")
  <2>1. w = v  BY <1>10 DEF StageImage, HasInput
  <2>2. Outlasts(early, img, i, 0 + R)  BY <1>1, <1>3, <1>4 DEF Outlasts
  <2>3. InTime(v, 0)  BY <2>2 DEF InTime, Rounds
  <2> QED BY <2>1, <2>3
<1>11. CASE HungUp(v, "image") /\ i.got = <<>> /\ i.waited < IsolateWait
  <2>1. i.waited + 1 \in Nat  BY <1>1
  <2>2. PICK m \in Nat : m = i.waited + 1  BY <2>1
  <2>3. PICK g : g = [i EXCEPT !.waited = m]  OBVIOUS
  <2>4. /\ g \in IsolateState /\ g.phase = i.phase /\ g.waited = m /\ g.got = i.got
        /\ g.ran = i.ran /\ g.failed = i.failed /\ g.left = i.left /\ g.diagnostic = i.diagnostic
    BY <1>1, <2>2, <2>3 DEF IsolateState
  <2>5. w = [v EXCEPT !.st.isolate = g]
    <3>1. w = [v EXCEPT !.st.isolate.waited = m]  BY <1>11, <2>2 DEF StageImage
    <3> QED BY <1>6, <2>3, <3>1 DEF Record
  <2> HIDE DEF f, i, c, img, dia, run, res, graph, early, R
  <2>6. Imaging(f, g, img)  BY <1>2, <2>4 DEF Imaging
  <2>7. Diagnosed(graph, f, g, c, dia, run)  BY <1>2, <2>4 DEF Diagnosed
  <2>8. Resulting(g, c, res)  BY <1>2, <2>4 DEF Resulting
  <2>9. Outlasts(early, img, g, 0 + R)
    <3>1. i.waited + (1 + R) = m + (0 + R)  BY <1>1, <1>3, <2>2
    <3> QED BY <1>4, <2>4, <3>1 DEF Outlasts
  <2> USE DEF f, i, c, img, dia, run, res, graph, early, R
  <2> QED BY <2>4, <2>5, <2>6, <2>7, <2>8, <2>9, StagedFlows
<1>12. CASE HungUp(v, "image") /\ i.got = <<>> /\ ~(i.waited < IsolateWait)
  <2>1. PICK g : g = [i EXCEPT !.phase = "write"]  OBVIOUS
  <2>2. /\ g \in IsolateState /\ g.phase = "write" /\ g.waited = i.waited /\ g.got = i.got
        /\ g.ran = i.ran /\ g.failed = i.failed /\ g.left = i.left /\ g.diagnostic = i.diagnostic
    BY <1>1, <2>1 DEF IsolateState
  <2>3. w = [v EXCEPT !.st.isolate = g]
    <3>1. w = [v EXCEPT !.st.isolate.phase = "write"]  BY <1>12 DEF StageImage
    <3> QED BY <1>6, <2>1, <3>1 DEF Record
  <2> HIDE DEF f, i, c, img, dia, run, res, graph, early, R
  <2>4. img.closed
    <3>1. SUFFICES ASSUME ~img.closed PROVE FALSE  OBVIOUS
    <3>2. early /\ ~img.written  BY <1>8, <1>12, <3>1
    <3>3. i.waited + (1 + R) <= IsolateWait  BY <1>4, <3>1, <3>2 DEF Outlasts
    <3> QED BY <1>1, <1>3, <1>12, <3>3
  <2>5. f.phase = "done" /\ f.left = <<>>  BY <1>2, <2>4 DEF Imaging
  <2>6. f.failed
    <3>1. SUFFICES ASSUME ~f.failed PROVE FALSE  OBVIOUS
    <3>2. Len(i.got) + Len(img.data) + Len(f.left) = ImageCells  BY <1>2, <2>5, <3>1 DEF Imaging
    <3>3. Len(i.got) = 0 /\ Len(f.left) = 0  BY <1>12, <2>5
    <3> QED BY <1>5, <3>2, <3>3 DEF ImageCells
  <2>7. Imaging(f, g, img)  BY <1>2, <1>7, <2>2, <2>5, <2>6 DEF Imaging
  <2>8. Diagnosed(graph, f, g, c, dia, run)  BY <1>2, <2>2 DEF Diagnosed
  <2>9. Resulting(g, c, res)  BY <1>0, <1>2, <1>7, <2>2 DEF Resulting, i
  <2>10. Outlasts(early, img, g, 0 + R)  BY <2>4 DEF Outlasts
  <2> USE DEF f, i, c, img, dia, run, res, graph, early, R
  <2> QED BY <2>2, <2>3, <2>7, <2>8, <2>9, <2>10, StagedFlows
<1>13. CASE HungUp(v, "image") /\ i.got # <<>>
  <2>1. PICK throws \in BOOLEAN : throws = (v.st.source.says = "throws")  OBVIOUS
  <2>2. PICK left : left = IF throws THEN <<>> ELSE Line("result", 1)  OBVIOUS
  <2>3. PICK told : told = IF throws THEN Line("isolate", FrameCells) ELSE <<>>  OBVIOUS
  <2>4. /\ left \in Seq({"result"}) /\ told \in Seq({"isolate"})
        /\ (throws => left = <<>> /\ Len(left) = 0 /\ Len(told) = 2)
        /\ (~throws => told = <<>> /\ Len(left) = 1)
    <3>1. Line("result", 1) \in Seq({"result"}) /\ Len(Line("result", 1)) = 1  BY LineOf
    <3>2. Line("isolate", 2) \in Seq({"isolate"}) /\ Len(Line("isolate", 2)) = 2  BY LineOf
    <3>3. FrameCells = 2  BY DEF FrameCells
    <3>4. CASE throws
      <4>1. left = <<>> /\ told = Line("isolate", 2)  BY <2>2, <2>3, <3>3, <3>4
      <4>2. <<>> \in Seq({"result"}) /\ Len(<<>>) = 0  OBVIOUS
      <4> QED BY <3>2, <3>4, <4>1, <4>2
    <3>5. CASE ~throws
      <4>1. told = <<>> /\ left = Line("result", 1)  BY <2>2, <2>3, <3>5
      <4>2. <<>> \in Seq({"isolate"})  OBVIOUS
      <4> QED BY <3>1, <3>5, <4>1, <4>2
    <3> QED BY <3>4, <3>5
  <2>5. PICK g : g = [i EXCEPT !.phase = "write", !.ran = i.got, !.failed = throws,
                               !.left = left, !.diagnostic = told]
    OBVIOUS
  <2>6. /\ g \in IsolateState /\ g.phase = "write" /\ g.waited = i.waited /\ g.got = i.got
        /\ g.ran = i.got /\ g.failed = throws /\ g.left = left /\ g.diagnostic = told
    BY <1>1, <2>4, <2>5 DEF IsolateState
  <2>7. w = [v EXCEPT !.st.isolate = g]
    <3>1. w = [v EXCEPT !.st.isolate.phase = "write", !.st.isolate.ran = i.got,
                        !.st.isolate.failed = throws, !.st.isolate.left = left,
                        !.st.isolate.diagnostic = told]
      BY <1>13, <2>1, <2>2, <2>3 DEF StageImage
    <3>2. i = [phase |-> i.phase, waited |-> i.waited, got |-> i.got, ran |-> i.ran,
               failed |-> i.failed, left |-> i.left, diagnostic |-> i.diagnostic]
      BY <1>1 DEF IsolateState
    <3>3. PICK r : r = v.st  OBVIOUS
    <3>4. PICK i1 : i1 = [i EXCEPT !.phase = "write"]  OBVIOUS
    <3>5. PICK i2 : i2 = [i1 EXCEPT !.ran = i.got]  OBVIOUS
    <3>6. PICK i3 : i3 = [i2 EXCEPT !.failed = throws]  OBVIOUS
    <3>7. PICK i4 : i4 = [i3 EXCEPT !.left = left]  OBVIOUS
    <3>8. PICK i5 : i5 = [i4 EXCEPT !.diagnostic = told]  OBVIOUS
    <3>9. PICK v1 : v1 = [v EXCEPT !.st.isolate.phase = "write"]  OBVIOUS
    <3>10. PICK v2 : v2 = [v1 EXCEPT !.st.isolate.ran = i.got]  OBVIOUS
    <3>11. PICK v3 : v3 = [v2 EXCEPT !.st.isolate.failed = throws]  OBVIOUS
    <3>12. PICK v4 : v4 = [v3 EXCEPT !.st.isolate.left = left]  BY Zenon
    <3>13. w = [v4 EXCEPT !.st.isolate.diagnostic = told]
      BY <3>1, <3>9, <3>10, <3>11, <3>12, ZenonT(60)
    <3>14. v1 = OnIsolate(v, i1) /\ Record(v1) /\ v1.st.isolate = i1
      <4>1. v1 = OnIsolate(v, i1)  BY <1>6, <3>4, <3>9 DEF Record, OnIsolate
      <4> QED BY <1>6, <4>1, OtherIsolate
    <3>15. v2 = OnIsolate(v, i2) /\ Record(v2) /\ v2.st.isolate = i2
      <4>1. v2 = OnIsolate(v1, i2)  BY <3>5, <3>10, <3>14 DEF Record, OnIsolate
      <4> QED BY <1>6, <3>14, <4>1, OtherIsolate
    <3>16. v3 = OnIsolate(v, i3) /\ Record(v3) /\ v3.st.isolate = i3
      <4>1. v3 = OnIsolate(v2, i3)  BY <3>6, <3>11, <3>15 DEF Record, OnIsolate
      <4> QED BY <1>6, <3>15, <4>1, OtherIsolate
    <3>17. v4 = OnIsolate(v, i4) /\ Record(v4) /\ v4.st.isolate = i4
      <4>1. v4 = OnIsolate(v3, i4)  BY <3>7, <3>12, <3>16 DEF Record, OnIsolate
      <4> QED BY <1>6, <3>16, <4>1, OtherIsolate
    <3>18. w = OnIsolate(v, i5)
      <4>1. w = OnIsolate(v4, i5)  BY <3>8, <3>13, <3>17 DEF Record, OnIsolate
      <4> QED BY <1>6, <3>17, <4>1, OtherIsolate
    <3>19. g = i5  BY <2>5, <3>4, <3>5, <3>6, <3>7, <3>8
    <3> QED BY <3>18, <3>19 DEF OnIsolate
  <2> HIDE DEF f, i, c, img, dia, run, res, graph, early, R
  <2>8. img.written
    <3>1. Len(i.got) + Len(img.data) > 0  BY <1>1, <1>5, <1>9, <1>13
    <3> QED BY <1>2, <3>1 DEF Imaging
  <2>9. img.closed  BY <1>8, <1>13, <2>8
  <2>10. f.phase = "done" /\ f.left = <<>> /\ Len(f.left) = 0  BY <1>2, <2>9 DEF Imaging
  <2>11. ~f.failed /\ Len(i.got) = ImageCells
    <3>1. f.failed => Len(i.got) + Len(img.data) + Len(f.left) = 0  BY <1>2, <2>10 DEF Imaging
    <3>2. ~f.failed => Len(i.got) + Len(img.data) + Len(f.left) = ImageCells
      BY <1>2, <2>10 DEF Imaging
    <3>3. PICK x \in Nat : x = Len(i.got)  BY <1>1
    <3>4. x > 0  BY <1>9, <1>13, <3>3
    <3>5. f.failed => x + 0 + 0 = 0  BY <1>5, <2>10, <3>1, <3>3
    <3>6. ~f.failed  BY <3>4, <3>5
    <3>7. x + 0 + 0 = ImageCells  BY <1>5, <2>10, <3>2, <3>3, <3>6
    <3> QED BY <3>3, <3>6, <3>7
  <2>12. Imaging(f, g, img)
    <3>1. g.phase # "stage" /\ g.ran # <<>> /\ Len(g.ran) = ImageCells
      BY <1>13, <2>6, <2>11
    <3> QED BY <1>2, <2>6, <2>10, <2>11, <3>1 DEF Imaging
  <2>13. Diagnosed(graph, f, g, c, dia, run)
    <3>1. ~Refused(graph, f)  BY <2>11 DEF Refused
    <3>2. c.frame = <<>> /\ c.report = <<>> /\ f.diagnostic = <<>> /\ dia.data = <<>>
      BY <1>2, <1>7, <3>1 DEF Diagnosed
    <3>3. throws => Telling(c, "isolate", run, told)
      <4>1. ASSUME throws PROVE Telling(c, "isolate", run, told)
        <5>1. c.frame \in Seq({"isolate"}) /\ Len(c.frame) = 0 /\ Len(run.data) = 0  BY <1>7, <3>2
        <5>2. Len(told) = 2  BY <2>4, <4>1
        <5>3. Len(c.frame) < FrameCells /\ Len(c.frame) + Len(run.data) + Len(told) = FrameCells
          BY <5>1, <5>2 DEF FrameCells
        <5> QED BY <3>2, <5>1, <5>3 DEF Telling
      <4> QED BY <4>1
    <3> QED BY <1>7, <2>4, <2>6, <3>1, <3>2, <3>3 DEF Diagnosed
  <2>14. Resulting(g, c, res)
    <3>1. g.ran # <<>>  BY <1>13, <2>6
    <3>2. PICK x : x = Len(c.result) + Len(res.data)  OBVIOUS
    <3>3. x = 0  BY <1>7, <3>2
    <3>4. ~throws => x + Len(left) = 1  BY <2>4, <3>3
    <3>5. throws => x + Len(left) = 0  BY <2>4, <3>3
    <3>6. ~throws => Len(c.result) + Len(res.data) + Len(g.left) = 1  BY <2>6, <3>2, <3>4
    <3>7. throws => Len(c.result) + Len(res.data) + Len(g.left) = 0  BY <2>6, <3>2, <3>5
    <3> QED BY <1>7, <2>6, <3>1, <3>6, <3>7 DEF Resulting
  <2>15. Outlasts(early, img, g, 0 + R)  BY <2>9 DEF Outlasts
  <2> USE DEF f, i, c, img, dia, run, res, graph, early, R
  <2> QED BY <2>6, <2>7, <2>12, <2>13, <2>14, <2>15, StagedFlows
<1> QED BY <1>10, <1>11, <1>12, <1>13

\* A part of what the isolate has to say is written.
LEMMA IsolateSays ==
    ASSUME NEW v, Flows(v), v.st.isolate.phase = "write",
           NEW g \in IsolateState, g.phase \in {"write", "done"},
           g.got = v.st.isolate.got, g.ran = v.st.isolate.ran, g.failed = v.st.isolate.failed,
           NEW w, Typed(w),
           w.st.graph = v.st.graph, w.st.source = v.st.source, w.st.delay = v.st.delay,
           w.st.sent = v.st.sent, w.st.first = v.st.first, w.st.isolate = g, w.st.cli = v.st.cli,
           \A d \in {"source", "image", "diagnostic"} : w.ch[d] = v.ch[d],
           Len(w.ch["result"].data) + Len(g.left)
               = Len(v.ch["result"].data) + Len(v.st.isolate.left),
           Len(w.ch["runtime"].data) + Len(g.diagnostic)
               = Len(v.ch["runtime"].data) + Len(v.st.isolate.diagnostic),
           g.phase = "done" => g.left = <<>> /\ g.diagnostic = <<>>,
           w.ch["result"].closed <=> g.phase = "done"
    PROVE  Flows(w) /\ AllRead(w) /\ InTime(w, 0)
<1> DEFINE f == v.st.first
           i == v.st.isolate
           c == v.st.cli
           img == v.ch["image"]
           dia == v.ch["diagnostic"]
           run == v.ch["runtime"]
           res == v.ch["result"]
           graph == v.st.graph
           run2 == w.ch["runtime"]
           res2 == w.ch["result"]
<1>0. /\ Typed(v) /\ ImageOn(v) /\ OutcomeOf(v) /\ i.phase = "write"
  BY DEF Flows
<1>1. /\ i \in IsolateState /\ c \in EdgeState
      /\ run.data \in Seq({"isolate"}) /\ run2.data \in Seq({"isolate"})
      /\ i.diagnostic \in Seq({"isolate"}) /\ g.diagnostic \in Seq({"isolate"})
      /\ Len(res.data) \in Nat /\ Len(res2.data) \in Nat
      /\ Len(c.result) \in Nat /\ Len(i.left) \in Nat /\ Len(g.left) \in Nat
  <2>1. i \in IsolateState /\ c \in EdgeState /\ Len(res.data) \in Nat
        /\ run.data \in StreamOf("runtime")
    BY <1>0, Parts DEF Channels
  <2>2. run2.data \in StreamOf("runtime") /\ Len(res2.data) \in Nat  BY Parts DEF Channels
  <2>3. run.data \in Seq({"isolate"}) /\ run2.data \in Seq({"isolate"})
    BY <2>1, <2>2 DEF StreamOf, Of
  <2>4. /\ i.diagnostic \in Seq({"isolate"}) /\ i.left \in Seq({"result"})
        /\ g.diagnostic \in Seq({"isolate"}) /\ g.left \in Seq({"result"})
    BY <2>1 DEF IsolateState
  <2>5. c.result \in Seq({"result"})  BY <2>1 DEF EdgeState
  <2>6. Len(i.left) \in Nat /\ Len(g.left) \in Nat /\ Len(c.result) \in Nat
    BY <2>4, <2>5, NoneOf
  <2> QED BY <2>1, <2>2, <2>3, <2>4, <2>6
<1>2. /\ Imaging(f, i, img) /\ Diagnosed(graph, f, i, c, dia, run) /\ Resulting(i, c, res)
  BY <1>0 DEF ImageOn, OutcomeOf
<1>3. /\ Len(res2.data) + Len(g.left) = Len(res.data) + Len(i.left)
      /\ Len(run2.data) + Len(g.diagnostic) = Len(run.data) + Len(i.diagnostic)
  OBVIOUS
<1>4. /\ g.got = i.got /\ g.ran = i.ran /\ g.failed = i.failed
      /\ (res2.closed <=> g.phase = "done")
  OBVIOUS
<1> HIDE DEF f, i, c, img, dia, run, res, graph, run2, res2
<1>5. Imaging(f, g, img)
  <2>1. g.phase # "stage" /\ i.phase # "stage"  BY <1>0 DEF i
  <2> QED BY <1>2, <1>4, <2>1 DEF Imaging
<1>6. Diagnosed(graph, f, g, c, dia, run2)
  <2>1. Telling(c, "isolate", run, i.diagnostic) => Telling(c, "isolate", run2, g.diagnostic)
    BY <1>1, <1>3, TellsOn
  <2>2. i.diagnostic = <<>> /\ run.data = <<>> => g.diagnostic = <<>> /\ run2.data = <<>>
    <3>1. ASSUME i.diagnostic = <<>> /\ run.data = <<>>
          PROVE  g.diagnostic = <<>> /\ run2.data = <<>>
      <4>1. Len(run.data) = 0 /\ Len(i.diagnostic) = 0  BY <3>1
      <4>2. Len(run2.data) \in Nat /\ Len(g.diagnostic) \in Nat  BY <1>1, NoneOf
      <4>3. PICK x \in Nat : x = Len(run2.data)  BY <4>2
      <4>31. PICK y \in Nat : y = Len(g.diagnostic)  BY <4>2
      <4>32. PICK p \in Nat : p = Len(run.data)  BY <4>1
      <4>33. PICK q \in Nat : q = Len(i.diagnostic)  BY <4>1
      <4>34. p = 0 /\ q = 0  BY <4>1, <4>32, <4>33
      <4>35. x + y = p + q  BY <1>3, <4>3, <4>31, <4>32, <4>33
      <4>36. x = 0 /\ y = 0  BY <4>34, <4>35
      <4>4. Len(run2.data) = 0 /\ Len(g.diagnostic) = 0  BY <4>3, <4>31, <4>36
      <4> QED BY <1>1, <4>4, NoneOf
    <3> QED BY <3>1
  <2> QED BY <1>2, <1>4, <2>1, <2>2 DEF Diagnosed
<1>7. Resulting(g, c, res2)
  <2>1. PICK x \in Nat : x = Len(c.result)  BY <1>1
  <2>2. PICK y \in Nat : y = Len(res.data)  BY <1>1
  <2>3. PICK z \in Nat : z = Len(i.left)  BY <1>1
  <2>4. PICK p \in Nat : p = Len(res2.data)  BY <1>1
  <2>5. PICK q \in Nat : q = Len(g.left)  BY <1>1
  <2>6. p + q = y + z  BY <1>3, <2>2, <2>3, <2>4, <2>5
  <2>7. x + p + q = x + y + z  BY <2>6
  <2>8. Len(c.result) + Len(res2.data) + Len(g.left) = Len(c.result) + Len(res.data) + Len(i.left)
    BY <2>1, <2>2, <2>3, <2>4, <2>5, <2>7
  <2>9. g.phase # "write" => g.left = <<>> /\ g.diagnostic = <<>>  OBVIOUS
  <2> QED BY <1>2, <1>4, <2>8, <2>9 DEF Resulting
<1> USE DEF f, i, c, img, dia, run, res, graph, run2, res2
<1>8. Flows(w)  BY <1>0, <1>5, <1>6, <1>7, IsolateFlows
<1>9. f.phase = "done" /\ img.closed  BY <1>0, <1>2 DEF Imaging
<1>10. AllRead(w) /\ InTime(w, 0)  BY <1>9 DEF AllRead, InTime, Outlasts
<1> QED BY <1>8, <1>10

\* The isolate writes the result, then what it has to say, and hangs up.
LEMMA IsolateWrites ==
    ASSUME NEW v, Flows(v), v.st.isolate.phase = "write", NEW b \in Nat \ {0},
           NEW w, w = Isolate(v, b)
    PROVE  Flows(w) /\ AllRead(w) /\ InTime(w, 0)
<1> DEFINE i == v.st.isolate
<1>0. /\ Typed(v) /\ i.phase = "write" /\ i \in IsolateState
      /\ i.left \in StreamOf("result") /\ i.diagnostic \in StreamOf("runtime")
      /\ "result" \in Channels /\ "runtime" \in Channels
  <2>1. Typed(v)  BY DEF Flows
  <2>2. i \in IsolateState  BY <2>1, Parts
  <2> QED BY <2>1, <2>2 DEF IsolateState, StreamOf, Of, Channels
<1>1. ~v.ch["result"].closed  BY <1>0 DEF Flows, OutcomeOf, Resulting
<1>2. PICK r : r = push_progress(v, "result", i.left, b)  OBVIOUS
<1>3. Pushed(v, "result", i.left, r)
  <2>1. PICK p : p = i.left  OBVIOUS
  <2>2. p \in StreamOf("result")  BY <1>0, <2>1
  <2>3. Pushed(v, "result", p, push_progress(v, "result", p, b))  BY <1>0, <2>2, PushDoes
  <2> QED BY <1>2, <2>1, <2>3
<1>4. PICK u : u = r.v  OBVIOUS
<1>5. /\ Typed(u) /\ u.st = v.st /\ \A d \in Channels \ {"result"} : u.ch[d] = v.ch[d]
      /\ r.left \in StreamOf("result")
      /\ Len(u.ch["result"].data) + Len(r.left) = Len(v.ch["result"].data) + Len(i.left)
      /\ u.ch["result"].closed = v.ch["result"].closed
  BY <1>3, <1>4 DEF Pushed
<1>6. PICK d : d = push_progress(u, "runtime", i.diagnostic, b)  OBVIOUS
<1>7. Pushed(u, "runtime", i.diagnostic, d)
  <2>1. PICK p : p = i.diagnostic  OBVIOUS
  <2>2. p \in StreamOf("runtime")  BY <1>0, <2>1
  <2>3. Pushed(u, "runtime", p, push_progress(u, "runtime", p, b))  BY <1>0, <1>5, <2>2, PushDoes
  <2> QED BY <1>6, <2>1, <2>3
<1>8. PICK t : t = d.v  OBVIOUS
<1>9. /\ Typed(t) /\ t.st = v.st /\ \A e \in Channels \ {"runtime"} : t.ch[e] = u.ch[e]
      /\ d.left \in StreamOf("runtime")
      /\ Len(t.ch["runtime"].data) + Len(d.left) = Len(u.ch["runtime"].data) + Len(i.diagnostic)
  BY <1>5, <1>7, <1>8 DEF Pushed
<1>10. /\ r.left # <<>> => w = [u EXCEPT !.st.isolate.left = r.left]
       /\ r.left = <<>> /\ d.left # <<>> =>
              w = [t EXCEPT !.st.isolate.left = <<>>, !.st.isolate.diagnostic = d.left]
       /\ r.left = <<>> /\ d.left = <<>> =>
              w = Close([t EXCEPT !.st.isolate.phase = "done", !.st.isolate.left = <<>>,
                                  !.st.isolate.diagnostic = <<>>], {"result", "runtime"})
  <2>1. r = push_progress(v, "result", v.st.isolate.left, b)
        /\ d = push_progress(r.v, "runtime", v.st.isolate.diagnostic, b)
    BY <1>2, <1>4, <1>6
  <2>2. v.st.isolate.phase = "write" /\ w = Isolate(v, b)  OBVIOUS
  <2>3. CASE r.left # <<>>
    <3>1. w = [r.v EXCEPT !.st.isolate.left = r.left]  
      BY ONLY <2>1, <2>2, <2>3, ZenonT(60) DEF Isolate
    <3> QED BY <1>4, <2>3, <3>1, ZenonT(60)
  <2>4. CASE r.left = <<>> /\ d.left # <<>>
    <3>1. w = [d.v EXCEPT !.st.isolate.left = <<>>, !.st.isolate.diagnostic = d.left]
      BY ONLY <2>1, <2>2, <2>4, ZenonT(60) DEF Isolate
    <3> QED BY <1>8, <2>4, <3>1, ZenonT(60)
  <2>5. CASE r.left = <<>> /\ d.left = <<>>
    <3>1. w = Close([d.v EXCEPT !.st.isolate.phase = "done", !.st.isolate.left = <<>>,
                                !.st.isolate.diagnostic = <<>>], {"result", "runtime"})
      BY ONLY <2>1, <2>2, <2>5, ZenonT(60) DEF Isolate
    <3> QED BY <1>8, <2>5, <3>1, ZenonT(60)
  <2> QED BY <2>3, <2>4, <2>5
<1>11. r.left \in Seq({"result"}) /\ d.left \in Seq({"isolate"})
  BY <1>5, <1>9 DEF StreamOf, Of
<1>12. \A e \in {"source", "image", "diagnostic", "runtime"} : u.ch[e] = v.ch[e]
  BY <1>5 DEF Channels
<1>13. /\ \A e \in {"source", "image", "diagnostic"} : t.ch[e] = v.ch[e]
       /\ t.ch["result"] = u.ch["result"]
       /\ Len(t.ch["runtime"].data) + Len(d.left) = Len(v.ch["runtime"].data) + Len(i.diagnostic)
  BY <1>9, <1>12 DEF Channels
<1>14. CASE r.left # <<>>
  <2>1. PICK e : e = r.left  OBVIOUS
  <2>2. PICK g : g = [i EXCEPT !.left = e]  OBVIOUS
  <2>3. /\ g \in IsolateState /\ g.phase = "write" /\ g.got = i.got /\ g.ran = i.ran
        /\ g.failed = i.failed /\ g.left = e /\ g.diagnostic = i.diagnostic
    BY <1>0, <1>11, <2>1, <2>2 DEF IsolateState
  <2>4. w = OnIsolate(u, g)
    <3>1. Record(u) /\ u.st.isolate = i  BY <1>5, TypedRecord
    <3> QED BY <1>10, <1>14, <2>1, <2>2, <3>1 DEF Record, OnIsolate
  <2>5. /\ Typed(w) /\ w.ch = u.ch
        /\ w.st.graph = v.st.graph /\ w.st.source = v.st.source
        /\ w.st.delay = v.st.delay /\ w.st.sent = v.st.sent
        /\ w.st.first = v.st.first /\ w.st.isolate = g /\ w.st.cli = v.st.cli
    BY <1>5, <2>3, <2>4, WithIsolate DEF OnIsolate
  <2>6. Len(w.ch["result"].data) + Len(g.left) = Len(v.ch["result"].data) + Len(i.left)
    BY <1>5, <2>1, <2>3, <2>5
  <2>7. Len(w.ch["runtime"].data) + Len(g.diagnostic) = Len(v.ch["runtime"].data) + Len(i.diagnostic)
    BY <1>12, <2>3, <2>5
  <2>8. \A e1 \in {"source", "image", "diagnostic"} : w.ch[e1] = v.ch[e1]  BY <1>12, <2>5
  <2>9. w.ch["result"].closed <=> g.phase = "done"  BY <1>1, <1>5, <2>3, <2>5
  <2>10. g.phase \in {"write", "done"} /\ (g.phase = "done" => g.left = <<>> /\ g.diagnostic = <<>>)
    BY <2>3
  <2> QED
    BY <1>0, <2>3, <2>5, <2>6, <2>7, <2>8, <2>9, <2>10, IsolateSays, ZenonT(60)
<1>15. CASE r.left = <<>> /\ d.left # <<>>
  <2>1. PICK e : e = d.left  OBVIOUS
  <2>2. PICK g1 : g1 = [i EXCEPT !.left = <<>>]  OBVIOUS
  <2>3. PICK g : g = [g1 EXCEPT !.diagnostic = e]  OBVIOUS
  <2>4. /\ g1 \in IsolateState /\ g1.phase = "write" /\ g1.got = i.got /\ g1.ran = i.ran
        /\ g1.failed = i.failed /\ g1.left = <<>>
    BY <1>0, <1>11, <1>15, <2>2 DEF IsolateState
  <2>5. /\ g \in IsolateState /\ g.phase = "write" /\ g.got = i.got /\ g.ran = i.ran
        /\ g.failed = i.failed /\ g.left = <<>> /\ g.diagnostic = e
    BY <1>11, <2>1, <2>3, <2>4 DEF IsolateState
  <2>6. w = OnIsolate(t, g)
    <3>1. Record(t) /\ t.st.isolate = i  BY <1>9, TypedRecord
    <3>2. PICK s : s = [t EXCEPT !.st.isolate.left = <<>>]  OBVIOUS
    <3>3. s = OnIsolate(t, g1)  BY <2>2, <3>1, <3>2 DEF Record, OnIsolate
    <3>4. Record(s) /\ s.st.isolate = g1  BY <3>1, <3>3, OtherIsolate
    <3>5. w = [s EXCEPT !.st.isolate.diagnostic = e]  BY <1>10, <1>15, <2>1, <3>2
    <3>6. w = OnIsolate(s, g)  BY <2>3, <3>4, <3>5 DEF Record, OnIsolate
    <3> QED BY <3>1, <3>3, <3>6, OtherIsolate
  <2>7. /\ Typed(w) /\ w.ch = t.ch
        /\ w.st.graph = v.st.graph /\ w.st.source = v.st.source
        /\ w.st.delay = v.st.delay /\ w.st.sent = v.st.sent
        /\ w.st.first = v.st.first /\ w.st.isolate = g /\ w.st.cli = v.st.cli
    <3>1. Typed(t) /\ g \in IsolateState  BY <1>9, <2>5
    <3>2. /\ Typed(w) /\ w.ch = t.ch /\ w.st.graph = t.st.graph /\ w.st.source = t.st.source
          /\ w.st.delay = t.st.delay /\ w.st.sent = t.st.sent
          /\ w.st.first = t.st.first /\ w.st.isolate = g /\ w.st.cli = t.st.cli
      BY <2>6, <3>1, WithIsolate DEF OnIsolate
    <3> QED BY <1>9, <3>2
  <2>8. Len(w.ch["result"].data) + Len(g.left) = Len(v.ch["result"].data) + Len(i.left)
    BY <1>5, <1>13, <1>15, <2>5, <2>7
  <2>9. Len(w.ch["runtime"].data) + Len(g.diagnostic) = Len(v.ch["runtime"].data) + Len(i.diagnostic)
    BY <1>13, <2>1, <2>5, <2>7
  <2>10. \A e1 \in {"source", "image", "diagnostic"} : w.ch[e1] = v.ch[e1]  BY <1>13, <2>7
  <2>11. w.ch["result"].closed <=> g.phase = "done"  BY <1>1, <1>5, <1>13, <2>5, <2>7
  <2>12. g.phase \in {"write", "done"} /\ (g.phase = "done" => g.left = <<>> /\ g.diagnostic = <<>>)
    BY <2>5
  <2> QED
    BY <1>0, <2>5, <2>7, <2>8, <2>9, <2>10, <2>11, <2>12, IsolateSays, ZenonT(60)
<1>16. CASE r.left = <<>> /\ d.left = <<>>
  <2>1. PICK g1 : g1 = [i EXCEPT !.phase = "done"]  OBVIOUS
  <2>2. PICK g2 : g2 = [g1 EXCEPT !.left = <<>>]  OBVIOUS
  <2>3. PICK g : g = [g2 EXCEPT !.diagnostic = <<>>]  OBVIOUS
  <2>4. /\ g1 \in IsolateState /\ g1.phase = "done" /\ g1.got = i.got /\ g1.ran = i.ran
        /\ g1.failed = i.failed
    BY <1>0, <2>1 DEF IsolateState
  <2>5. /\ g2 \in IsolateState /\ g2.phase = "done" /\ g2.got = i.got /\ g2.ran = i.ran
        /\ g2.failed = i.failed /\ g2.left = <<>>
    BY <1>11, <1>16, <2>2, <2>4 DEF IsolateState
  <2>6. /\ g \in IsolateState /\ g.phase = "done" /\ g.got = i.got /\ g.ran = i.ran
        /\ g.failed = i.failed /\ g.left = <<>> /\ g.diagnostic = <<>>
    BY <1>11, <1>16, <2>3, <2>5 DEF IsolateState
  <2>7. PICK x : x = OnIsolate(t, g)  OBVIOUS
  <2>8. w = Close(x, {"result", "runtime"})
    <3>1. Record(t) /\ t.st.isolate = i  BY <1>9, TypedRecord
    <3>2. PICK s1 : s1 = [t EXCEPT !.st.isolate.phase = "done"]  OBVIOUS
    <3>3. s1 = OnIsolate(t, g1)  BY <2>1, <3>1, <3>2 DEF Record, OnIsolate
    <3>4. Record(s1) /\ s1.st.isolate = g1  BY <3>1, <3>3, OtherIsolate
    <3>5. PICK s2 : s2 = [s1 EXCEPT !.st.isolate.left = <<>>]  OBVIOUS
    <3>6. s2 = OnIsolate(s1, g2)  BY <2>2, <3>4, <3>5 DEF Record, OnIsolate
    <3>7. s2 = OnIsolate(t, g2)  BY <3>1, <3>3, <3>6, OtherIsolate
    <3>8. Record(s2) /\ s2.st.isolate = g2  BY <3>1, <3>7, OtherIsolate
    <3>9. PICK s : s = [s2 EXCEPT !.st.isolate.diagnostic = <<>>]  OBVIOUS
    <3>10. s = OnIsolate(s2, g)  BY <2>3, <3>8, <3>9 DEF Record, OnIsolate
    <3>11. s = OnIsolate(t, g)  BY <3>1, <3>7, <3>10, OtherIsolate
    <3>12. w = Close(s, {"result", "runtime"})  BY <1>10, <1>16, <3>2, <3>5, <3>9
    <3> QED BY <2>7, <3>11, <3>12
  <2>9. /\ Typed(x) /\ x.ch = t.ch
        /\ x.st.graph = v.st.graph /\ x.st.source = v.st.source
        /\ x.st.delay = v.st.delay /\ x.st.sent = v.st.sent
        /\ x.st.first = v.st.first /\ x.st.isolate = g /\ x.st.cli = v.st.cli
    <3>1. Typed(t) /\ g \in IsolateState  BY <1>9, <2>6
    <3>2. /\ Typed(x) /\ x.ch = t.ch /\ x.st.graph = t.st.graph /\ x.st.source = t.st.source
          /\ x.st.delay = t.st.delay /\ x.st.sent = t.st.sent
          /\ x.st.first = t.st.first /\ x.st.isolate = g /\ x.st.cli = t.st.cli
      BY <2>7, <3>1, WithIsolate DEF OnIsolate
    <3> QED BY <1>9, <3>2
  <2>10. /\ Typed(w) /\ w.st = x.st
         /\ \A e \in Channels : /\ w.ch[e].data = x.ch[e].data /\ w.ch[e].written = x.ch[e].written
                                /\ (w.ch[e].closed <=> x.ch[e].closed \/ e \in {"result", "runtime"})
    BY <2>8, <2>9, CloseDoes
  <2>11. \A e \in {"source", "image", "diagnostic"} : w.ch[e] = v.ch[e]
    <3>1. ASSUME NEW e \in {"source", "image", "diagnostic"} PROVE w.ch[e] = v.ch[e]
      <4>1. e \in Channels /\ e \notin {"result", "runtime"}  BY DEF Channels
      <4>2. x.ch[e] = v.ch[e]  BY <1>13, <2>9
      <4>3. w.ch[e] \in Channel /\ v.ch[e] \in Channel  BY <1>0, <2>10, <4>1, Parts
      <4>4. /\ w.ch[e].data = v.ch[e].data /\ w.ch[e].written = v.ch[e].written
            /\ (w.ch[e].closed <=> v.ch[e].closed)
        BY <2>10, <4>1, <4>2
      <4> QED BY <4>3, <4>4 DEF Channel
    <3> QED BY <3>1
  <2>12. /\ w.ch["result"].data = u.ch["result"].data /\ w.ch["result"].closed
         /\ w.ch["runtime"].data = t.ch["runtime"].data
    BY <1>0, <1>13, <2>9, <2>10
  <2>13. Len(w.ch["result"].data) + Len(g.left) = Len(v.ch["result"].data) + Len(i.left)
    BY <1>5, <1>16, <2>6, <2>12
  <2>14. Len(w.ch["runtime"].data) + Len(g.diagnostic) = Len(v.ch["runtime"].data) + Len(i.diagnostic)
    BY <1>13, <1>16, <2>6, <2>12
  <2>15. w.ch["result"].closed <=> g.phase = "done"  BY <2>6, <2>12
  <2>16. g.phase \in {"write", "done"} /\ (g.phase = "done" => g.left = <<>> /\ g.diagnostic = <<>>)
    BY <2>6
  <2>17. /\ Typed(w) /\ w.st.graph = v.st.graph /\ w.st.source = v.st.source
         /\ w.st.delay = v.st.delay /\ w.st.sent = v.st.sent
         /\ w.st.first = v.st.first /\ w.st.isolate = g /\ w.st.cli = v.st.cli
    BY <2>9, <2>10
  <2>18. /\ g \in IsolateState /\ g.got = v.st.isolate.got /\ g.ran = v.st.isolate.ran
         /\ g.failed = v.st.isolate.failed
    BY <2>6
  <2>19. v.st.isolate.phase = "write"  OBVIOUS
  <2> HIDE DEF i
  <2>20. /\ Len(w.ch["result"].data) + Len(g.left)
                = Len(v.ch["result"].data) + Len(v.st.isolate.left)
         /\ Len(w.ch["runtime"].data) + Len(g.diagnostic)
                = Len(v.ch["runtime"].data) + Len(v.st.isolate.diagnostic)
    BY <2>13, <2>14 DEF i
  <2> QED
    BY <2>11, <2>15, <2>16, <2>17, <2>18, <2>19, <2>20, IsolateSays, ZenonT(60)
<1> QED BY <1>14, <1>15, <1>16

\* The whole step.
LEMMA IsolateKeeps ==
    ASSUME NEW v, Flows(v), AllRead(v), InTime(v, 1), NEW b \in Nat \ {0},
           NEW w, w = Isolate(v, b)
    PROVE  Flows(w) /\ AllRead(w) /\ InTime(w, 0)
<1>0. Typed(v) /\ v.st.isolate \in IsolateState /\ ImageOn(v)  BY Parts DEF Flows
<1>1. v.st.isolate.phase \in {"stage", "write", "done"}  BY <1>0 DEF IsolateState
<1>2. CASE v.st.isolate.phase = "stage"
  <2>1. w = StageImage(v)  BY <1>2 DEF Isolate
  <2> QED BY <1>2, <2>1, ImageArrives, ImageEnds
<1>3. CASE v.st.isolate.phase = "write"  BY <1>3, IsolateWrites
<1>4. CASE v.st.isolate.phase = "done"
  <2>1. w = v  BY <1>4 DEF Isolate
  <2>2. v.ch["image"].closed  BY <1>0, <1>4 DEF ImageOn, Imaging
  <2>3. InTime(v, 0)  BY <2>2 DEF InTime, Outlasts
  <2> QED BY <2>1, <2>3
<1> QED BY <1>1, <1>2, <1>3, <1>4

\* The edge's step changes its state and the channels it reads.
LEMMA EdgeFlows ==
    ASSUME NEW v, GraphInv(v), NEW w, Typed(w),
           w.st.graph = v.st.graph, w.st.early = v.st.early, w.st.source = v.st.source,
           w.st.delay = v.st.delay, w.st.sent = v.st.sent, w.st.first = v.st.first,
           w.st.isolate = v.st.isolate,
           w.ch["source"] = v.ch["source"], w.ch["image"] = v.ch["image"],
           Diagnosed(v.st.graph, v.st.first, v.st.isolate, w.st.cli, w.ch["diagnostic"],
                     w.ch["runtime"]),
           Resulting(v.st.isolate, w.st.cli, w.ch["result"]),
           Exiting(v.st.isolate, w.st.cli, w.ch["result"], w.ch["diagnostic"], w.ch["runtime"])
    PROVE  GraphInv(w)
<1>1. SourceIn(v) /\ ImageOn(v) /\ AllRead(v) /\ InTime(v, 0)  BY DEF GraphInv, Flows
<1>2. SourceIn(w) /\ ImageOn(w) /\ AllRead(w)  BY <1>1 DEF SourceIn, ImageOn, AllRead
<1>3. InTime(w, 0)  BY <1>1, TimeStays
<1>4. OutcomeOf(w)  BY DEF OutcomeOf
<1> QED BY <1>2, <1>3, <1>4 DEF GraphInv, Flows

OnEdge(v, c) == [v EXCEPT !.st.cli = c]

\* The edge put in last is the one there is.
LEMMA OtherEdge ==
    ASSUME NEW v, Record(v), NEW c, NEW d
    PROVE  /\ OnEdge(OnEdge(v, c), d) = OnEdge(v, d)
           /\ Record(OnEdge(v, c)) /\ OnEdge(v, c).st.cli = c
<1>1. PICK u : u = OnEdge(v, c)  OBVIOUS
<1>2. PICK w : w = OnEdge(u, d)  OBVIOUS
<1>3. Record(u) /\ u.st.cli = c  BY <1>1 DEF Record, OnEdge
<1>4. w = OnEdge(v, d)  BY <1>1, <1>2 DEF Record, OnEdge
<1> QED BY <1>1, <1>2, <1>3, <1>4

\* A state with another edge.
LEMMA WithEdge ==
    ASSUME NEW v, Typed(v), NEW c \in EdgeState
    PROVE  LET w == OnEdge(v, c)
           IN  /\ Typed(w) /\ w.ch = v.ch
               /\ w.st.graph = v.st.graph /\ w.st.early = v.st.early /\ w.st.source = v.st.source
               /\ w.st.delay = v.st.delay /\ w.st.sent = v.st.sent
               /\ w.st.first = v.st.first /\ w.st.isolate = v.st.isolate /\ w.st.cli = c
<1>1. PICK w : w = OnEdge(v, c)  OBVIOUS
<1>2. Record(v)  BY TypedRecord
<1>3. w = [st |-> [graph |-> v.st.graph, early |-> v.st.early, source |-> v.st.source,
                   delay |-> v.st.delay, sent |-> v.st.sent, beat |-> v.st.beat,
                   first |-> v.st.first, isolate |-> v.st.isolate, cli |-> c],
           ch |-> v.ch]
  BY <1>1, <1>2 DEF Record, OnEdge
<1>4. v.st.first \in FirstState /\ v.st.isolate \in IsolateState  BY Parts
<1>5. /\ Typed(w) /\ w.ch = v.ch
      /\ w.st.graph = v.st.graph /\ w.st.early = v.st.early /\ w.st.source = v.st.source
      /\ w.st.delay = v.st.delay /\ w.st.sent = v.st.sent
      /\ w.st.first = v.st.first /\ w.st.isolate = v.st.isolate /\ w.st.cli = c
  BY <1>3, <1>4, Within
<1> QED BY <1>1, <1>5

\* Results pass, and the hang-up after them is seen.
LEMMA ResultKeeps ==
    ASSUME NEW v, GraphInv(v), v.st.cli.exit = "none", NEW w, w = StageResult(v)
    PROVE  GraphInv(w) /\ w.st.cli.exit = "none"
<1> DEFINE i == v.st.isolate
           c == v.st.cli
           dia == v.ch["diagnostic"]
           run == v.ch["runtime"]
           res == v.ch["result"]
<1>0. /\ Typed(v) /\ OutcomeOf(v) /\ c \in EdgeState /\ "result" \in Channels
      /\ i \in IsolateState /\ res.data \in StreamOf("result") /\ Record(v)
      /\ i.left \in Seq({"result"}) /\ c.result \in Seq({"result"}) /\ c.hungUp \in BOOLEAN
      /\ res \in Channel
  <2>1. Typed(v) /\ OutcomeOf(v)  BY DEF GraphInv, Flows
  <2>2. c \in EdgeState /\ i \in IsolateState /\ res.data \in StreamOf("result") /\ res \in Channel
    BY <2>1, Parts DEF Channels
  <2>3. i.left \in Seq({"result"}) /\ c.result \in Seq({"result"}) /\ c.hungUp \in BOOLEAN
    BY <2>2 DEF IsolateState, EdgeState
  <2> QED BY <2>1, <2>2, <2>3, TypedRecord DEF Channels
<1>1. /\ Diagnosed(v.st.graph, v.st.first, i, c, dia, run) /\ Resulting(i, c, res)
      /\ Exiting(i, c, res, dia, run)
  BY <1>0 DEF OutcomeOf
<1>2. CASE c.hungUp
  <2>1. w = v  BY <1>2 DEF StageResult
  <2> QED BY <2>1
<1>3. CASE ~c.hungUp /\ HasInput(v, "result")
  <2>1. PICK u : u = Drop(v, "result", 1)  OBVIOUS
  <2>2. PICK t : t = Take(v, "result", 1)  OBVIOUS
  <2>3. /\ Typed(u) /\ u.st = v.st /\ \A d \in Channels \ {"result"} : u.ch[d] = v.ch[d]
        /\ Len(u.ch["result"].data) = Len(res.data) - Least(1, Len(res.data))
        /\ u.ch["result"].closed = res.closed
        /\ t \in StreamOf("result") /\ Len(t) = Least(1, Len(res.data))
    BY <1>0, <2>1, <2>2, DropDoes
  <2>4. t \in Seq({"result"})  BY <2>3 DEF StreamOf, Of
  <2>5. c.result \o t \in Seq({"result"}) /\ Len(c.result \o t) = Len(c.result) + Len(t)
    BY <1>0, <2>4, Joined
  <2>6. PICK e : e = [c EXCEPT !.result = c.result \o t]  OBVIOUS
  <2>7. /\ e \in EdgeState /\ e.result = c.result \o t /\ e.hungUp = c.hungUp /\ e.frame = c.frame
        /\ e.report = c.report /\ e.failed = c.failed /\ e.exit = "none"
    BY <1>0, <2>5, <2>6 DEF EdgeState
  <2>8. w = OnEdge(u, e)
    <3>1. Record(u) /\ u.st.cli = c  BY <2>3, TypedRecord
    <3>2. w = [u EXCEPT !.st.cli.result = u.st.cli.result \o t]
      BY <1>3, <2>1, <2>2 DEF StageResult
    <3> QED BY <2>6, <3>1, <3>2 DEF Record, OnEdge
  <2>9. /\ Typed(w) /\ w.ch = u.ch
        /\ w.st.graph = v.st.graph /\ w.st.early = v.st.early /\ w.st.source = v.st.source
        /\ w.st.delay = v.st.delay /\ w.st.sent = v.st.sent
        /\ w.st.first = v.st.first /\ w.st.isolate = i /\ w.st.cli = e
    <3>1. Typed(u) /\ e \in EdgeState  BY <2>3, <2>7
    <3>2. /\ Typed(w) /\ w.ch = u.ch
          /\ w.st.graph = u.st.graph /\ w.st.early = u.st.early /\ w.st.source = u.st.source
          /\ w.st.delay = u.st.delay /\ w.st.sent = u.st.sent
          /\ w.st.first = u.st.first /\ w.st.isolate = u.st.isolate /\ w.st.cli = e
      BY <2>8, <3>1, WithEdge
    <3> QED BY <2>3, <3>2
  <2>10. \A d \in {"source", "image", "diagnostic", "runtime"} : w.ch[d] = v.ch[d]
    BY <2>3, <2>9 DEF Channels
  <2> DEFINE h == w.ch["result"]
  <2>11. /\ Len(h.data) = Len(res.data) - Least(1, Len(res.data)) /\ h.closed = res.closed
         /\ Len(t) = Least(1, Len(res.data))
    BY <2>3, <2>9
  <2>12. h.data \in StreamOf("result")  BY <1>0, <2>9 DEF Typed
  <2> HIDE DEF i, c, dia, run, res, h
  <2>13. Len(e.result) + Len(h.data) + Len(i.left) = Len(c.result) + Len(res.data) + Len(i.left)
    <3>1. /\ Len(c.result) \in Nat /\ Len(i.left) \in Nat /\ Len(res.data) \in Nat
          /\ Len(h.data) \in Nat /\ Len(t) \in Nat
      BY <1>0, <2>4, <2>12, NoneOf, NoneLeft
    <3>2. PICK x \in Nat : x = Len(c.result)  BY <3>1
    <3>3. PICK y \in Nat : y = Len(res.data)  BY <3>1
    <3>4. PICK z \in Nat : z = Len(i.left)  BY <3>1
    <3>5. PICK p \in Nat : p = Len(h.data)  BY <3>1
    <3>6. PICK q \in Nat : q = Len(t)  BY <3>1
    <3>7. p = y - q  BY <2>11, <3>3, <3>5, <3>6
    <3>8. Len(e.result) = x + q  BY <2>5, <2>7, <3>2, <3>6
    <3>9. (x + q) + p + z = x + y + z  BY <3>7
    <3> QED BY <3>2, <3>3, <3>4, <3>5, <3>8, <3>9
  <2>14. Resulting(i, e, h)  BY <1>1, <2>11, <2>13 DEF Resulting
  <2>15. Diagnosed(v.st.graph, v.st.first, i, e, dia, run)
    BY <1>1, <2>7 DEF Diagnosed, Telling
  <2>16. Exiting(i, e, h, dia, run)  BY <1>1, <1>3, <2>7 DEF Exiting
  <2> USE DEF i, c, dia, run, res, h
  <2>17. GraphInv(w)  BY <2>9, <2>10, <2>14, <2>15, <2>16, EdgeFlows
  <2> QED BY <2>7, <2>9, <2>17
<1>4. CASE ~c.hungUp /\ ~HasInput(v, "result")
  <2>1. PICK b : b = HungUp(v, "result")  OBVIOUS
  <2>2. res.data = <<>>  BY <1>4 DEF HasInput
  <2>3. b \in BOOLEAN /\ (b <=> res.closed)
    <3>1. b = (res.data = <<>> /\ (res.closed \/ (v.st.early /\ ~res.written /\ FALSE)))
      BY <2>1 DEF HungUp
    <3>2. res.closed \in BOOLEAN  BY <1>0 DEF Channel
    <3> QED BY <2>2, <3>1, <3>2
  <2>4. PICK e : e = [c EXCEPT !.hungUp = b]  OBVIOUS
  <2>5. /\ e \in EdgeState /\ e.result = c.result /\ e.hungUp = b /\ e.frame = c.frame
        /\ e.report = c.report /\ e.failed = c.failed /\ e.exit = "none"
    BY <1>0, <2>3, <2>4 DEF EdgeState
  <2>6. w = OnEdge(v, e)
    <3>1. w = [v EXCEPT !.st.cli.hungUp = b]  BY <1>4, <2>1 DEF StageResult
    <3> QED BY <1>0, <2>4, <3>1 DEF Record, OnEdge
  <2>7. /\ Typed(w) /\ w.ch = v.ch
        /\ w.st.graph = v.st.graph /\ w.st.early = v.st.early /\ w.st.source = v.st.source
        /\ w.st.delay = v.st.delay /\ w.st.sent = v.st.sent
        /\ w.st.first = v.st.first /\ w.st.isolate = i /\ w.st.cli = e
    <3>1. Typed(v) /\ e \in EdgeState  BY <1>0, <2>5
    <3> QED BY <2>6, <3>1, WithEdge
  <2> HIDE DEF i, c, dia, run, res
  <2>8. Resulting(i, e, res)  BY <1>1, <2>5 DEF Resulting
  <2>9. Diagnosed(v.st.graph, v.st.first, i, e, dia, run)
    BY <1>1, <2>5 DEF Diagnosed, Telling
  <2>10. Exiting(i, e, res, dia, run)
    <3>1. b => i.phase = "done"  BY <1>1, <2>3 DEF Resulting
    <3> QED BY <1>1, <2>2, <2>5, <3>1 DEF Exiting
  <2> USE DEF i, c, dia, run, res
  <2>11. GraphInv(w)  BY <2>7, <2>8, <2>9, <2>10, EdgeFlows
  <2> QED BY <2>5, <2>7, <2>11
<1> QED BY <1>0, <1>2, <1>3, <1>4

\* What taking a part of the frame on channel x leaves of v.
Took(v, w, x, left) ==
    /\ Typed(w)
    /\ w.st.graph = v.st.graph /\ w.st.early = v.st.early /\ w.st.source = v.st.source
    /\ w.st.delay = v.st.delay /\ w.st.sent = v.st.sent
    /\ w.st.first = v.st.first /\ w.st.isolate = v.st.isolate
    /\ \A d \in Channels \ {x} : w.ch[d] = v.ch[d]
    /\ Telling(w.st.cli, Of(x), w.ch[x], left)
    /\ w.st.cli.failed <=> w.st.cli.report # <<>>
    /\ w.st.cli.result = v.st.cli.result /\ w.st.cli.hungUp = v.st.cli.hungUp
    /\ w.st.cli.exit = v.st.cli.exit

\* A part of a frame is put together with what came before, and a frame that
\* is whole is reported.
LEMMA TakeDoes ==
    ASSUME NEW v, Typed(v), NEW x \in {"diagnostic", "runtime"}, NEW left,
           left \in Seq({Of(x)}), Telling(v.st.cli, Of(x), v.ch[x], left), HasInput(v, x),
           v.st.cli.failed <=> v.st.cli.report # <<>>,
           NEW w, w = take_diagnostic(v, x)
    PROVE  Took(v, w, x, left)
<1> DEFINE c == v.st.cli
           k == v.ch[x]
           who == Of(x)
<1>0. x \in Channels /\ c \in EdgeState /\ k.data \in Seq({who}) /\ Of(x) \in Said
      /\ c.frame \in Seq(Said)
  <2>1. x \in Channels /\ Of(x) \in Said  BY DEF Channels, Of, Said
  <2>2. c \in EdgeState /\ k.data \in StreamOf(x)  BY <2>1, Parts
  <2> QED BY <2>1, <2>2 DEF StreamOf, EdgeState
<1>1. /\ c.report = <<>> /\ c.frame \in Seq({who}) /\ Len(c.frame) < 2
      /\ Len(c.frame) + Len(k.data) + Len(left) = 2
  <2>1. k.data # <<>>  BY DEF HasInput
  <2> QED BY <2>1 DEF Telling, FrameCells
<1>2. PICK want : want = 2 - Len(c.frame)  OBVIOUS
<1>3. Len(c.frame) \in Nat /\ Len(k.data) \in Nat /\ Len(left) \in Nat
  BY <1>0, <1>1, NoneOf
<1>4. want \in Nat /\ want >= 1  BY <1>1, <1>2, <1>3
<1>5. PICK u : u = Drop(v, x, want)  OBVIOUS
<1>6. PICK t : t = Take(v, x, want)  OBVIOUS
<1>7. /\ Typed(u) /\ u.st = v.st /\ \A d \in Channels \ {x} : u.ch[d] = v.ch[d]
      /\ Len(u.ch[x].data) = Len(k.data) - Least(want, Len(k.data))
      /\ t \in StreamOf(x) /\ Len(t) = Least(want, Len(k.data))
  <2>1. Typed(v) /\ x \in Channels /\ want \in Nat  BY <1>0, <1>4
  <2> HIDE DEF c, k, who
  <2>2. LET y == Drop(v, x, want)
            l == Least(want, Len(v.ch[x].data))
        IN  /\ Typed(y) /\ y.st = v.st
            /\ \A d \in Channels \ {x} : y.ch[d] = v.ch[d]
            /\ Len(y.ch[x].data) = Len(v.ch[x].data) - l
            /\ Take(v, x, want) \in StreamOf(x) /\ Len(Take(v, x, want)) = l
    BY <2>1, DropDoes
  <2> QED BY <1>5, <1>6, <2>2 DEF k
<1>8. t \in Seq({who}) /\ u.ch[x].data \in Seq({who})  BY <1>0, <1>7 DEF StreamOf, Typed
<1>9. PICK frame : frame = c.frame \o t  OBVIOUS
<1>10. frame \in Seq({who}) /\ Len(frame) = Len(c.frame) + Len(t)  BY <1>1, <1>8, <1>9, Joined
<1>11. frame \in Seq(Said)  BY <1>0, <1>10
<1> DEFINE h == u.ch[x]
<1>12. /\ Len(frame) \in Nat /\ Len(h.data) \in Nat /\ Len(frame) <= 2
       /\ Len(frame) + Len(h.data) + Len(left) = 2
       /\ (Len(frame) < 2 \/ (Len(frame) = 2 /\ h.data = <<>> /\ left = <<>>))
  <2>0. Len(t) \in Nat /\ Len(h.data) \in Nat /\ Len(frame) \in Nat
    BY <1>8, <1>10, NoneOf
  <2>1. PICK p \in Nat : p = Len(c.frame)  BY <1>3
  <2>2. PICK y \in Nat : y = Len(k.data)  BY <1>3
  <2>3. PICK z \in Nat : z = Len(left)  BY <1>3
  <2>4. PICK q \in Nat : q = Len(t)  BY <2>0
  <2>5. PICK m \in Nat : m = Len(h.data)  BY <2>0
  <2> HIDE DEF c, k, who, h
  <2>6. p + y + z = 2 /\ p < 2  BY <1>1, <2>1, <2>2, <2>3
  <2>7. q = Least(2 - p, y) /\ m = y - q
    <3>1. q = Least(want, y) /\ m = y - Least(want, y)  BY <1>7, <2>2, <2>4, <2>5 DEF h
    <3> QED BY <1>2, <2>1, <3>1
  <2>8. q <= y /\ q <= 2 - p /\ (q = y \/ q = 2 - p)  BY <2>6, <2>7 DEF Least
  <2>9. (p + q) + m + z = 2 /\ p + q <= 2  BY <2>6, <2>7, <2>8
  <2>10. Len(frame) = p + q  BY <1>10, <2>1, <2>4
  <2>11. p + q < 2 \/ (p + q = 2 /\ m = 0 /\ z = 0)  BY <2>9
  <2>12. (m = 0 => h.data = <<>>) /\ (z = 0 => left = <<>>)
    BY <1>8, <2>3, <2>5, NoneOf DEF h, who
  <2>13. Len(frame) + Len(h.data) + Len(left) = 2  BY <2>3, <2>5, <2>9, <2>10
  <2>14. Len(frame) < 2 \/ (Len(frame) = 2 /\ h.data = <<>> /\ left = <<>>)
    BY <2>10, <2>11, <2>12
  <2>15. Len(frame) <= 2  BY <2>9, <2>10
  <2> QED BY <2>0, <2>13, <2>14, <2>15
<1>13. Record(u) /\ u.st.cli = c  BY <1>7, TypedRecord
<1>131. w = IF Len(frame) < 2 THEN [u EXCEPT !.st.cli.frame = frame]
            ELSE Reported(u, frame)
  <2>1. want = FrameCells - Len(v.st.cli.frame)  BY <1>2 DEF FrameCells
  <2>2. t = Take(v, x, want) /\ frame = v.st.cli.frame \o t /\ u = Drop(v, x, want)
    BY <1>5, <1>6, <1>9
  <2>3. w = take_diagnostic(v, x) /\ HasInput(v, x)  OBVIOUS
  <2>4. CASE Len(frame) < FrameCells
    <3>1. w = [u EXCEPT !.st.cli.frame = frame]  BY ONLY <2>1, <2>2, <2>3, <2>4 DEF take_diagnostic
    <3> QED BY <2>4, <3>1, ZenonT(60) DEF FrameCells
  <2>5. CASE ~(Len(frame) < FrameCells)
    <3>1. w = Reported(u, frame)
      BY ONLY <2>1, <2>2, <2>3, <2>5 DEF take_diagnostic
    <3> QED BY <2>5, <3>1, ZenonT(60) DEF FrameCells
  <2> QED BY <2>4, <2>5
<1>14. CASE Len(frame) < 2
  <2>1. PICK e : e = [c EXCEPT !.frame = frame]  OBVIOUS
  <2>2. /\ e \in EdgeState /\ e.frame = frame /\ e.report = c.report /\ e.failed = c.failed
        /\ e.result = c.result /\ e.hungUp = c.hungUp /\ e.exit = c.exit
    BY <1>0, <1>11, <2>1 DEF EdgeState
  <2>3. w = OnEdge(u, e)
    <3>1. w = [u EXCEPT !.st.cli.frame = frame]
      BY <1>14, <1>131
    <3> QED BY <1>13, <2>1, <3>1 DEF Record, OnEdge
  <2>4. /\ Typed(w) /\ w.ch = u.ch
        /\ w.st.graph = u.st.graph /\ w.st.early = u.st.early /\ w.st.source = u.st.source
        /\ w.st.delay = u.st.delay /\ w.st.sent = u.st.sent
        /\ w.st.first = u.st.first /\ w.st.isolate = u.st.isolate /\ w.st.cli = e
    <3>1. Typed(u) /\ e \in EdgeState  BY <1>7, <2>2
    <3> QED BY <2>3, <3>1, WithEdge
  <2>5. Telling(e, who, h, left)
    <3>1. e.report = <<>> /\ e.frame = frame  BY <1>1, <2>2
    <3> QED BY <1>10, <1>12, <1>14, <3>1 DEF Telling, FrameCells
  <2>6. Telling(w.st.cli, who, w.ch[x], left)  BY <2>4, <2>5
  <2>7. \A d \in Channels \ {x} : w.ch[d] = v.ch[d]  BY <1>7, <2>4
  <2> QED BY <1>7, <2>2, <2>4, <2>6, <2>7 DEF Took
<1>15. CASE Len(frame) = 2
  <2>0. PICK e1 : e1 = [c EXCEPT !.frame = <<>>]  OBVIOUS
  <2>01. PICK e2 : e2 = [e1 EXCEPT !.report = frame]  OBVIOUS
  <2>1. PICK e : e = [e2 EXCEPT !.failed = TRUE]  OBVIOUS
  <2>11. e1 \in EdgeState /\ e1.frame = <<>> /\ e1.report = c.report /\ e1.failed = c.failed
         /\ e1.result = c.result /\ e1.hungUp = c.hungUp /\ e1.exit = c.exit
    <3>1. <<>> \in Seq(Said)  OBVIOUS
    <3> QED BY <1>0, <2>0, <3>1 DEF EdgeState
  <2>12. e2 \in EdgeState /\ e2.frame = <<>> /\ e2.report = frame
         /\ e2.result = c.result /\ e2.hungUp = c.hungUp /\ e2.exit = c.exit
    BY <1>11, <2>01, <2>11 DEF EdgeState
  <2>2. /\ e \in EdgeState /\ e.frame = <<>> /\ e.report = frame /\ e.failed = TRUE
        /\ e.result = c.result /\ e.hungUp = c.hungUp /\ e.exit = c.exit
    BY <2>1, <2>12 DEF EdgeState
  <2>3. w = OnEdge(u, e)
    <3>1. w = [u EXCEPT !.st.cli.frame = <<>>, !.st.cli.report = frame, !.st.cli.failed = TRUE]
      <4>1. ~(Len(frame) < 2)  BY <1>15
      <4> QED BY <1>131, <4>1 DEF Reported
    <3>2. PICK s1 : s1 = [u EXCEPT !.st.cli.frame = <<>>]  OBVIOUS
    <3>3. PICK s2 : s2 = [s1 EXCEPT !.st.cli.report = frame]  OBVIOUS
    <3>4. w = [s2 EXCEPT !.st.cli.failed = TRUE]  BY <3>1, <3>2, <3>3
    <3>5. s1 = OnEdge(u, e1)  BY <1>13, <2>0, <3>2 DEF Record, OnEdge
    <3>6. Record(s1) /\ s1.st.cli = e1  BY <1>13, <3>5, OtherEdge
    <3>7. s2 = OnEdge(s1, e2)  BY <2>01, <3>3, <3>6 DEF Record, OnEdge
    <3>8. s2 = OnEdge(u, e2)  BY <1>13, <3>5, <3>7, OtherEdge
    <3>9. Record(s2) /\ s2.st.cli = e2  BY <1>13, <3>8, OtherEdge
    <3>10. w = OnEdge(s2, e)  BY <2>1, <3>4, <3>9 DEF Record, OnEdge
    <3> QED BY <1>13, <3>8, <3>10, OtherEdge
  <2>4. /\ Typed(w) /\ w.ch = u.ch
        /\ w.st.graph = u.st.graph /\ w.st.early = u.st.early /\ w.st.source = u.st.source
        /\ w.st.delay = u.st.delay /\ w.st.sent = u.st.sent
        /\ w.st.first = u.st.first /\ w.st.isolate = u.st.isolate /\ w.st.cli = e
    <3>1. Typed(u) /\ e \in EdgeState  BY <1>7, <2>2
    <3> QED BY <2>3, <3>1, WithEdge
  <2>5. frame = Line(who, FrameCells) /\ frame # <<>>
    <3>1. frame = Line(who, Len(frame))  BY <1>10, LineOf
    <3>2. FrameCells = 2  BY DEF FrameCells
    <3>3. frame # <<>>
      <4>1. frame = <<>> => Len(frame) = 0  OBVIOUS
      <4>2. Len(frame) # 0  BY <1>15
      <4> QED BY <4>1, <4>2
    <3> QED BY <1>15, <3>1, <3>2, <3>3
  <2>6. Telling(e, who, h, left)
    <3>1. h.data = <<>> /\ left = <<>>
      <4>1. ~(Len(frame) < 2)  BY <1>15
      <4> QED BY <1>12, <4>1
    <3> QED BY <2>2, <2>5, <3>1 DEF Telling
  <2>7. Telling(w.st.cli, who, w.ch[x], left)  BY <2>4, <2>6
  <2>8. \A d \in Channels \ {x} : w.ch[d] = v.ch[d]  BY <1>7, <2>4
  <2> QED BY <1>7, <2>2, <2>4, <2>5, <2>7, <2>8 DEF Took
<1> QED BY <1>12, <1>14, <1>15

\* Taking a part of a diagnostic keeps the invariant.
LEMMA TakeKeeps ==
    ASSUME NEW v, GraphInv(v), v.st.cli.exit = "none", NEW x \in {"diagnostic", "runtime"},
           v.st.cli.report = <<>>, NEW w, w = take_diagnostic(v, x)
    PROVE  GraphInv(w) /\ w.st.cli.exit = "none"
<1> DEFINE i == v.st.isolate
           f == v.st.first
           c == v.st.cli
           dia == v.ch["diagnostic"]
           run == v.ch["runtime"]
           res == v.ch["result"]
           graph == v.st.graph
<1>0. /\ Typed(v) /\ OutcomeOf(v) /\ f \in FirstState /\ i \in IsolateState
  <2>1. Typed(v) /\ OutcomeOf(v)  BY DEF GraphInv, Flows
  <2> QED BY <2>1, Parts
<1>1. /\ Diagnosed(graph, f, i, c, dia, run) /\ Resulting(i, c, res)
      /\ Exiting(i, c, res, dia, run)
  BY <1>0 DEF OutcomeOf
<1>2. CASE ~HasInput(v, x)
  <2>1. w = v  BY <1>2 DEF take_diagnostic
  <2> QED BY <2>1
<1>3. CASE HasInput(v, x)
  <2>1. PICK left : left = IF x = "diagnostic" THEN f.diagnostic ELSE i.diagnostic  OBVIOUS
  <2>2. left \in Seq({Of(x)})
    <3>1. f.diagnostic \in Seq({"compile"}) /\ i.diagnostic \in Seq({"isolate"})
      BY <1>0 DEF FirstState, IsolateState
    <3>2. CASE x = "diagnostic"  BY <2>1, <3>1, <3>2 DEF Of
    <3>3. CASE x = "runtime"  BY <2>1, <3>1, <3>3 DEF Of
    <3> QED BY <3>2, <3>3
  <2>3. v.ch[x].data # <<>>  BY <1>3 DEF HasInput
  <2>4. /\ x = "diagnostic" => Refused(graph, f) /\ ~i.failed
        /\ x = "runtime" => i.failed /\ ~Refused(graph, f)
    BY <1>1, <2>3 DEF Diagnosed
  <2>5. Telling(c, Of(x), v.ch[x], left)
    <3>1. CASE x = "diagnostic"
      <4>1. Telling(c, "compile", dia, f.diagnostic)  BY <1>1, <2>4, <3>1 DEF Diagnosed
      <4>2. Of(x) = "compile" /\ left = f.diagnostic  BY <2>1, <3>1 DEF Of
      <4> QED BY <3>1, <4>1, <4>2
    <3>2. CASE x = "runtime"
      <4>1. Telling(c, "isolate", run, i.diagnostic)  BY <1>1, <2>4, <3>2 DEF Diagnosed
      <4>2. Of(x) = "isolate" /\ left = i.diagnostic  BY <2>1, <3>2 DEF Of
      <4> QED BY <3>2, <4>1, <4>2
    <3> QED BY <3>1, <3>2
  <2>6. c.failed <=> c.report # <<>>  BY <1>1 DEF Exiting
  <2>7. /\ Typed(w)
        /\ w.st.graph = v.st.graph /\ w.st.early = v.st.early /\ w.st.source = v.st.source
        /\ w.st.delay = v.st.delay /\ w.st.sent = v.st.sent
        /\ w.st.first = f /\ w.st.isolate = i
        /\ \A d \in Channels \ {x} : w.ch[d] = v.ch[d]
        /\ Telling(w.st.cli, Of(x), w.ch[x], left)
        /\ (w.st.cli.failed <=> w.st.cli.report # <<>>)
        /\ w.st.cli.result = c.result /\ w.st.cli.hungUp = c.hungUp
        /\ w.st.cli.exit = c.exit
    <3>1. Took(v, w, x, left)
      <4>1. Typed(v) /\ HasInput(v, x)  BY <1>0, <1>3
      <4>2. Telling(v.st.cli, Of(x), v.ch[x], left)  BY <2>5
      <4>3. v.st.cli.failed <=> v.st.cli.report # <<>>  BY <2>6
      <4> QED BY <2>2, <4>1, <4>2, <4>3, TakeDoes
    <3> QED BY <3>1 DEF Took
  <2>8. \A d \in {"source", "image", "result"} : w.ch[d] = v.ch[d]  BY <2>7 DEF Channels
  <2>9. PICK e : e = w.st.cli  OBVIOUS
  <2>10. Diagnosed(graph, f, i, e, w.ch["diagnostic"], w.ch["runtime"])
    <3>1. CASE x = "diagnostic"
      <4>1. Telling(e, "compile", w.ch["diagnostic"], f.diagnostic)
        <5>1. Of(x) = "compile" /\ left = f.diagnostic  BY <2>1, <3>1 DEF Of
        <5> QED BY <2>7, <2>9, <3>1, <5>1
      <4>2. w.ch["runtime"] = run  BY <2>7, <3>1 DEF Channels
      <4> QED BY <1>1, <2>4, <3>1, <4>1, <4>2 DEF Diagnosed
    <3>2. CASE x = "runtime"
      <4>1. Telling(e, "isolate", w.ch["runtime"], i.diagnostic)
        <5>1. Of(x) = "isolate" /\ left = i.diagnostic  BY <2>1, <3>2 DEF Of
        <5> QED BY <2>7, <2>9, <3>2, <5>1
      <4>2. w.ch["diagnostic"] = dia  BY <2>7, <3>2 DEF Channels
      <4> QED BY <1>1, <2>4, <3>2, <4>1, <4>2 DEF Diagnosed
    <3> QED BY <3>1, <3>2
  <2>11. Resulting(i, e, res)  BY <1>1, <2>7, <2>9 DEF Resulting
  <2>12. Exiting(i, e, res, w.ch["diagnostic"], w.ch["runtime"])
    BY <1>1, <2>7, <2>9 DEF Exiting
  <2>13. GraphInv(w)  BY <2>7, <2>8, <2>9, <2>10, <2>11, <2>12, EdgeFlows
  <2> QED BY <2>7, <2>13
<1> QED BY <1>2, <1>3

\* What the edge has is written, and when all of it has come it exits.
LEMMA EdgeWrites ==
    ASSUME NEW v, GraphInv(v), v.st.cli.exit = "none",
           NEW w, w = Told(v)
    PROVE  GraphInv(w)
<1> DEFINE i == v.st.isolate
           f == v.st.first
           c == v.st.cli
           dia == v.ch["diagnostic"]
           run == v.ch["runtime"]
           res == v.ch["result"]
           graph == v.st.graph
<1>0. /\ Typed(v) /\ OutcomeOf(v) /\ c \in EdgeState /\ Record(v)
      /\ c.result \in Seq({"result"}) /\ c.report \in Seq(Said) /\ c.failed \in BOOLEAN
  <2>1. Typed(v) /\ OutcomeOf(v)  BY DEF GraphInv, Flows
  <2>2. c \in EdgeState  BY <2>1, Parts
  <2> QED BY <2>1, <2>2, TypedRecord DEF EdgeState
<1>1. /\ Diagnosed(graph, f, i, c, dia, run) /\ Resulting(i, c, res)
      /\ Exiting(i, c, res, dia, run)
  BY <1>0 DEF OutcomeOf
<1>2. PICK e1 : e1 = [c EXCEPT !.stdout = c.result]  OBVIOUS
<1>3. PICK e : e = [e1 EXCEPT !.stderr = c.report]  OBVIOUS
<1>4. /\ e1 \in EdgeState /\ e1.result = c.result /\ e1.hungUp = c.hungUp /\ e1.frame = c.frame
      /\ e1.report = c.report /\ e1.failed = c.failed /\ e1.exit = c.exit /\ e1.stdout = c.result
  BY <1>0, <1>2 DEF EdgeState
<1>5. /\ e \in EdgeState /\ e.result = c.result /\ e.hungUp = c.hungUp /\ e.frame = c.frame
      /\ e.report = c.report /\ e.failed = c.failed /\ e.exit = "none" /\ e.stdout = c.result
      /\ e.stderr = c.report
  BY <1>0, <1>3, <1>4 DEF EdgeState
<1>51. PICK u : u = [v EXCEPT !.st.cli.stdout = c.result, !.st.cli.stderr = c.report]
  OBVIOUS
<1>52. w = IF ~(/\ u.st.cli.hungUp /\ u.st.cli.frame = <<>>
                /\ ~HasInput(u, "diagnostic") /\ ~HasInput(u, "runtime"))
           THEN u
           ELSE [u EXCEPT !.st.cli.exit = IF u.st.cli.failed THEN "failed" ELSE "done"]
  BY <1>51 DEF Told
<1>6. u = OnEdge(v, e)
  <2>1. PICK s : s = [v EXCEPT !.st.cli.stdout = c.result]  OBVIOUS
  <2>2. s = OnEdge(v, e1)  BY <1>0, <1>2, <2>1 DEF Record, OnEdge
  <2>3. Record(s) /\ s.st.cli = e1  BY <1>0, <2>2, OtherEdge
  <2>4. u = [s EXCEPT !.st.cli.stderr = c.report]  BY <1>51, <2>1
  <2>5. u = OnEdge(s, e)  BY <1>3, <2>3, <2>4 DEF Record, OnEdge
  <2>6. Record(v)  BY <1>0
  <2>7. OnEdge(OnEdge(v, e1), e) = OnEdge(v, e)  BY <2>6, OtherEdge
  <2> QED BY <2>2, <2>5, <2>7
<1>7. Record(u) /\ u.st.cli = e /\ u.ch = v.ch
  <2>1. u.ch = v.ch  BY <1>0, <1>6 DEF Record, OnEdge
  <2>2. Record(v)  BY <1>0
  <2>3. Record(OnEdge(v, e)) /\ OnEdge(v, e).st.cli = e  BY <2>2, OtherEdge
  <2> QED BY <1>6, <2>1, <2>3
<1>8. PICK g \in EdgeState :
         /\ w = OnEdge(v, g)
         /\ g.result = c.result /\ g.hungUp = c.hungUp /\ g.frame = c.frame
         /\ g.report = c.report /\ g.failed = c.failed /\ g.stdout = c.result
         /\ g.stderr = c.report
         /\ g.exit # "none" =>
                /\ c.hungUp /\ c.frame = <<>> /\ dia.data = <<>> /\ run.data = <<>>
                /\ c.failed => g.exit = "failed"
                /\ ~c.failed => g.exit = "done"
  <2>1. CASE /\ u.st.cli.hungUp /\ u.st.cli.frame = <<>>
             /\ ~HasInput(u, "diagnostic") /\ ~HasInput(u, "runtime")
    <3>1. PICK x : x = IF c.failed THEN "failed" ELSE "done"  OBVIOUS
    <3>2. PICK g : g = [e EXCEPT !.exit = x]  OBVIOUS
    <3>3. x \in {"failed", "done"}  BY <3>1
    <3>4. /\ g \in EdgeState /\ g.result = c.result /\ g.hungUp = c.hungUp /\ g.frame = c.frame
          /\ g.report = c.report /\ g.failed = c.failed /\ g.stdout = c.result
          /\ g.stderr = c.report /\ g.exit = x
      BY <1>5, <3>2, <3>3 DEF EdgeState
    <3>5. w = OnEdge(u, g)
      <4>1. x = IF u.st.cli.failed THEN "failed" ELSE "done"  BY <1>5, <1>7, <3>1
      <4>2. w = [u EXCEPT !.st.cli.exit = x]  BY <1>52, <2>1, <4>1
      <4> QED BY <1>7, <3>2, <4>2 DEF Record, OnEdge
    <3>6. w = OnEdge(v, g)
      <4>1. Record(v)  BY <1>0
      <4>2. OnEdge(OnEdge(v, e), g) = OnEdge(v, g)  BY <4>1, OtherEdge
      <4> QED BY <1>6, <3>5, <4>2
    <3>7. c.hungUp /\ c.frame = <<>> /\ dia.data = <<>> /\ run.data = <<>>
      BY <1>5, <1>7, <2>1 DEF HasInput
    <3>8. /\ c.failed => g.exit = "failed"
          /\ ~c.failed => g.exit = "done"
      BY <3>1, <3>4
    <3> QED BY <3>4, <3>6, <3>7, <3>8
  <2>2. CASE ~(/\ u.st.cli.hungUp /\ u.st.cli.frame = <<>>
               /\ ~HasInput(u, "diagnostic") /\ ~HasInput(u, "runtime"))
    <3>1. w = u  BY <1>52, <2>2
    <3> QED BY <1>5, <1>6, <3>1
  <2> QED BY <2>1, <2>2
<1>9. /\ Typed(w) /\ w.ch = v.ch
      /\ w.st.graph = graph /\ w.st.early = v.st.early /\ w.st.source = v.st.source
      /\ w.st.delay = v.st.delay /\ w.st.sent = v.st.sent
      /\ w.st.first = f /\ w.st.isolate = i /\ w.st.cli = g
  <2>1. w = OnEdge(v, g)  BY <1>8
  <2>2. Typed(v) /\ g \in EdgeState  BY <1>0, <1>8
  <2>3. LET y == OnEdge(v, g)
        IN  /\ Typed(y) /\ y.ch = v.ch
            /\ y.st.graph = v.st.graph /\ y.st.early = v.st.early /\ y.st.source = v.st.source
            /\ y.st.delay = v.st.delay /\ y.st.sent = v.st.sent
            /\ y.st.first = v.st.first /\ y.st.isolate = v.st.isolate /\ y.st.cli = g
    BY <2>2, WithEdge
  <2> QED BY <2>1, <2>3
<1> HIDE DEF i, f, c, dia, run, res, graph
<1>10. Diagnosed(graph, f, i, g, dia, run)  BY <1>1, <1>8 DEF Diagnosed, Telling
<1>11. Resulting(i, g, res)  BY <1>1, <1>8 DEF Resulting
<1>12. Exiting(i, g, res, dia, run)  BY <1>1, <1>8 DEF Exiting
<1> USE DEF i, f, c, dia, run, res, graph
<1> QED BY <1>9, <1>10, <1>11, <1>12, EdgeFlows

\* The whole step.
LEMMA EdgeKeeps ==
    ASSUME NEW v, GraphInv(v), NEW w, w = Cli(v)
    PROVE  GraphInv(w)
<1>1. CASE v.st.cli.exit # "none"
  <2>1. w = v  BY <1>1 DEF Cli
  <2> QED BY <2>1
<1>2. CASE v.st.cli.exit = "none"
  <2>1. PICK s : s = StageResult(v)  OBVIOUS
  <2>2. GraphInv(s) /\ s.st.cli.exit = "none"  BY <1>2, <2>1, ResultKeeps
  <2>3. PICK c : c = IF s.st.cli.report = <<>> THEN take_diagnostic(s, "diagnostic") ELSE s
    OBVIOUS
  <2>4. GraphInv(c) /\ c.st.cli.exit = "none"
    <3>1. CASE s.st.cli.report = <<>>
      <4>1. c = take_diagnostic(s, "diagnostic")  BY <2>3, <3>1
      <4> QED BY <2>2, <3>1, <4>1, TakeKeeps
    <3>2. CASE s.st.cli.report # <<>>  BY <2>2, <2>3, <3>2
    <3> QED BY <3>1, <3>2
  <2>5. PICK r : r = IF s.st.cli.report = <<>> /\ c.st.cli.report = <<>>
                     THEN take_diagnostic(c, "runtime") ELSE c
    OBVIOUS
  <2>6. GraphInv(r) /\ r.st.cli.exit = "none"
    <3>1. CASE s.st.cli.report = <<>> /\ c.st.cli.report = <<>>
      <4>1. r = take_diagnostic(c, "runtime")  BY <2>5, <3>1
      <4> QED BY <2>4, <3>1, <4>1, TakeKeeps
    <3>2. CASE ~(s.st.cli.report = <<>> /\ c.st.cli.report = <<>>)  BY <2>4, <2>5, <3>2
    <3> QED BY <3>1, <3>2
  <2>7. w = Told(r)  BY <1>2, <2>1, <2>3, <2>5 DEF Cli
  <2> QED BY <2>6, <2>7, EdgeWrites
<1> QED BY <1>1, <1>2

\* The clock turns over between rounds, and nothing looks at it.
LEMMA BeatKeeps ==
    ASSUME NEW v, GraphInv(v), NEW s, s = [v.st EXCEPT !.beat = ~@],
           NEW w, w = [st |-> s, ch |-> v.ch]
    PROVE  GraphInv(w)
<1>1. Typed(v) /\ SourceIn(v) /\ ImageOn(v) /\ OutcomeOf(v) /\ AllRead(v) /\ InTime(v, 0)
  BY DEF GraphInv, Flows
<1>2. v.st \in GraphState  BY <1>1 DEF Typed
<1>3. /\ s \in GraphState
      /\ s.graph = v.st.graph /\ s.early = v.st.early /\ s.source = v.st.source
      /\ s.delay = v.st.delay /\ s.sent = v.st.sent /\ s.first = v.st.first
      /\ s.isolate = v.st.isolate /\ s.cli = v.st.cli
  BY <1>2 DEF GraphState
<1>4. w.st = s /\ w.ch = v.ch /\ w = [st |-> w.st, ch |-> w.ch]  OBVIOUS
<1>5. Typed(w)
  <2>1. v.ch \in [Channels -> Channel] /\ \A c \in Channels : v.ch[c].data \in StreamOf(c)
    BY <1>1 DEF Typed
  <2> QED BY <1>3, <1>4, <2>1 DEF Typed
<1>6. /\ w.st.graph = v.st.graph /\ w.st.early = v.st.early /\ w.st.source = v.st.source
      /\ w.st.delay = v.st.delay /\ w.st.sent = v.st.sent /\ w.st.first = v.st.first
      /\ w.st.isolate = v.st.isolate /\ w.st.cli = v.st.cli
      /\ w.ch["source"] = v.ch["source"] /\ w.ch["image"] = v.ch["image"]
      /\ w.ch["result"] = v.ch["result"] /\ w.ch["diagnostic"] = v.ch["diagnostic"]
      /\ w.ch["runtime"] = v.ch["runtime"]
  BY <1>3, <1>4
<1>7. SourceIn(w)  BY <1>1, <1>6, SourceStays
<1>8. ImageOn(w)  BY <1>1, <1>6, ImageStays
<1>9. OutcomeOf(w)  BY <1>1, <1>6, OutcomeStays
<1>10. InTime(w, 0)  BY <1>1, <1>6, TimeStays
<1>11. AllRead(w)  BY <1>1, <1>6 DEF AllRead
<1> QED BY <1>5, <1>7, <1>8, <1>9, <1>10, <1>11 DEF GraphInv, Flows

\* A round is the producer's step, the first module's, the isolate's and the
\* edge's.
LEMMA RoundKeeps ==
    ASSUME Patience, NEW v, GraphInv(v), NEW a \in 1 .. FrameCells, NEW b \in 1 .. FrameCells,
           NEW w, w = Cli(Isolate(First(Producer(v), a), b))
    PROVE  GraphInv(w)
<1>0. a \in Nat \ {0} /\ b \in Nat \ {0}  BY DEF FrameCells
<1>1. PICK p : p = Producer(v)  OBVIOUS
<1>2. Flows(p) /\ Produced(p) /\ InTime(p, 0)  BY <1>1, ProducerKeeps
<1>3. PICK f : f = First(p, a)  OBVIOUS
<1>4. Flows(f) /\ AllRead(f) /\ InTime(f, 1)  BY <1>0, <1>2, <1>3, FirstKeeps
<1>5. PICK i : i = Isolate(f, b)  OBVIOUS
<1>6. GraphInv(i)  BY <1>0, <1>4, <1>5, IsolateKeeps DEF GraphInv
<1>7. w = Cli(i)  BY <1>1, <1>3, <1>5
<1> QED BY <1>6, <1>7, EdgeKeeps

\* Where a run starts.
LEMMA StartsSound ==
    ASSUME Patience, NEW graph \in Graphs, NEW early \in Early, NEW source \in Sources,
           NEW delay \in 0 .. MaxDelay,
           NEW v, v = [st |-> Start(graph, early, source, delay), ch |-> Quiet]
    PROVE  GraphInv(v)
<1>0. /\ MaxDelay \in Nat /\ CompileWait \in Nat /\ IsolateWait \in Nat /\ SourceCells \in Nat \ {0}
      /\ early \in BOOLEAN /\ graph \in {"compile", "link"} /\ source.cells \in Nat
      /\ delay \in Nat /\ delay <= MaxDelay
  BY PipelineAssumption
<1>1. PICK f : f = [phase |-> "stage", waited |-> 0, got |-> <<>>, overflowed |-> FALSE,
                    failed |-> FALSE, left |-> <<>>, diagnostic |-> <<>>, exit |-> "none"]
  OBVIOUS
<1>2. PICK i : i = [phase |-> "stage", waited |-> 0, got |-> <<>>, ran |-> <<>>,
                    failed |-> FALSE, left |-> <<>>, diagnostic |-> <<>>]
  OBVIOUS
<1>3. PICK c : c = [result |-> <<>>, hungUp |-> FALSE, frame |-> <<>>, report |-> <<>>,
                    failed |-> FALSE, stdout |-> <<>>, stderr |-> <<>>, exit |-> "none"]
  OBVIOUS
<1>4. PICK k : k = [data |-> <<>>, written |-> FALSE, closed |-> FALSE]  OBVIOUS
<1>5. /\ v = [st |-> v.st, ch |-> v.ch]
      /\ v.st = [graph |-> graph, early |-> early, source |-> source, delay |-> delay,
                 sent |-> 0, beat |-> FALSE, first |-> f, isolate |-> i, cli |-> c]
      /\ v.ch = [d \in Channels |-> k]
  BY <1>1, <1>2, <1>3, <1>4 DEF Start, Quiet
<1>6. f \in FirstState /\ i \in IsolateState /\ c \in EdgeState /\ k \in Channel
  <2>1. \A S : <<>> \in Seq(S)  OBVIOUS
  <2>2. f \in FirstState  BY <1>1, <2>1 DEF FirstState
  <2>3. i \in IsolateState  BY <1>2, <2>1 DEF IsolateState
  <2>4. c \in EdgeState  BY <1>3, <2>1 DEF EdgeState
  <2>5. k \in Channel  BY <1>4, <2>1 DEF Channel
  <2> QED BY <2>2, <2>3, <2>4, <2>5
<1>7. /\ v.st.graph = graph /\ v.st.early = early /\ v.st.source = source /\ v.st.delay = delay
      /\ v.st.sent = 0 /\ v.st.first = f /\ v.st.isolate = i /\ v.st.cli = c
      /\ \A d \in Channels : v.ch[d] = k
  BY <1>5
<1>8. Typed(v)
  <2>1. v.st \in GraphState
    <3>1. PICK s : s = [graph |-> graph, early |-> early, source |-> source, delay |-> delay,
                        sent |-> 0, beat |-> FALSE, first |-> f, isolate |-> i, cli |-> c]
      OBVIOUS
    <3>2. graph \in Graphs /\ early \in Early /\ source \in Sources /\ delay \in Nat  BY <1>0
    <3>3. f \in FirstState /\ i \in IsolateState /\ c \in EdgeState  BY <1>6
    <3>4. s \in GraphState  BY ONLY <3>1, <3>2, <3>3 DEF GraphState
    <3> QED BY <1>5, <3>1, <3>4
  <2>2. v.ch \in [Channels -> Channel]  BY <1>5, <1>6
  <2>3. ASSUME NEW d \in Channels PROVE v.ch[d].data \in StreamOf(d)
    <3>1. v.ch[d].data = <<>>  BY <1>4, <1>7
    <3>2. PICK x : x = Of(d)  OBVIOUS
    <3>3. <<>> \in Seq({x})  OBVIOUS
    <3> QED BY <3>1, <3>2, <3>3 DEF StreamOf
  <2> QED BY <1>5, <2>1, <2>2, <2>3 DEF Typed
<1>9. /\ v.ch["source"] = k /\ v.ch["image"] = k /\ v.ch["result"] = k
      /\ v.ch["diagnostic"] = k /\ v.ch["runtime"] = k
  BY <1>7 DEF Channels
<1>10. Len(<<>>) = 0  OBVIOUS
<1>11. /\ f.phase = "stage" /\ f.waited = 0 /\ f.got = <<>> /\ ~f.overflowed /\ ~f.failed
       /\ f.left = <<>> /\ f.diagnostic = <<>> /\ f.exit = "none"
  BY <1>1
<1>12. /\ i.phase = "stage" /\ i.waited = 0 /\ i.got = <<>> /\ i.ran = <<>> /\ ~i.failed
       /\ i.left = <<>> /\ i.diagnostic = <<>>
  BY <1>2
<1>13. /\ c.result = <<>> /\ ~c.hungUp /\ c.frame = <<>> /\ c.report = <<>> /\ ~c.failed
       /\ c.exit = "none"
  BY <1>3
<1>14. k.data = <<>> /\ ~k.written /\ ~k.closed  BY <1>4
<1>15. Reading(f, k, source.cells, 0, delay)
  BY <1>0, <1>10, <1>11, <1>14 DEF Reading
<1>16. Imaging(f, i, k)  BY <1>10, <1>11, <1>12, <1>14 DEF Imaging
<1>17. Diagnosed(graph, f, i, c, k, k) /\ Resulting(i, c, k) /\ Exiting(i, c, k, k, k)
  <2>1. Diagnosed(graph, f, i, c, k, k)  BY <1>11, <1>12, <1>13, <1>14 DEF Diagnosed, Refused
  <2>2. Resulting(i, c, k)  BY <1>10, <1>12, <1>13, <1>14 DEF Resulting
  <2>3. Exiting(i, c, k, k, k)  BY <1>13 DEF Exiting
  <2> QED BY <2>1, <2>2, <2>3
<1>18. SourceIn(v) /\ ImageOn(v) /\ OutcomeOf(v) /\ AllRead(v)
  BY <1>7, <1>9, <1>14, <1>15, <1>16, <1>17 DEF SourceIn, ImageOn, OutcomeOf, AllRead
<1>19. InTime(v, 0)
  <2>1. PICK r : r = Remaining(f, source.cells, 0, delay)  OBVIOUS
  <2>2. Counted(r, f, source.cells, 0, delay)  BY <1>0, <1>6, <1>11, <2>1, RemainingIs
  <2>3. PICK n \in Nat : n = source.cells  BY <1>0
  <2>4. (n > 0 => r = delay + (n - 0) + 5) /\ (n = 0 => r = (CompileWait - 0) + 5)
    BY <1>11, <2>2, <2>3 DEF Counted
  <2>5. r \in Nat  BY <2>2 DEF Counted
  <2>6. /\ early /\ n = 0 => CompileWait + 2 + 3 <= IsolateWait
        /\ early /\ n > 0 => MaxDelay + n + 2 + 3 <= IsolateWait
    <3>1. ASSUME early
          PROVE  (IF source.cells = 0 THEN CompileWait ELSE MaxDelay + source.cells) + 2 + 3
                     <= IsolateWait
      <4>1. TRUE \in Early  BY <1>0, <3>1
      <4> QED BY <4>1 DEF Patience, FrameCells
    <3>2. early /\ n = 0 => CompileWait + 2 + 3 <= IsolateWait  BY <2>3, <3>1
    <3>3. early /\ n > 0 => MaxDelay + n + 2 + 3 <= IsolateWait  BY <2>3, <3>1
    <3> QED BY <3>2, <3>3
  <2>7. early => 0 + (0 + r) <= IsolateWait  BY <1>0, <2>3, <2>4, <2>5, <2>6
  <2>8. early => i.waited + (0 + r) <= IsolateWait  BY <1>12, <2>7
  <2>9. Outlasts(early, k, i, 0 + r)  BY <2>8 DEF Outlasts
  <2> QED BY <1>7, <1>9, <2>1, <2>9 DEF InTime
<1> QED BY <1>8, <1>18, <1>19 DEF GraphInv, Flows

\* What the invariant says of the outcome.
LEMMA InvTells == ASSUME GraphInv(Now) PROVE EdgeTellsTheOutcome
<1> DEFINE f == st.first
           i == st.isolate
           c == st.cli
           n == st.source.cells
<1>0. Now.st = st /\ Now.ch = ch  BY DEF Now
<1>1. Typed(Now) /\ SourceIn(Now) /\ ImageOn(Now) /\ OutcomeOf(Now)  BY DEF GraphInv, Flows
<1>2. f \in FirstState /\ i \in IsolateState /\ c \in EdgeState /\ n \in Nat
  BY <1>0, <1>1, Parts
<1>3. /\ f.got \in Seq({"source"}) /\ f.failed \in BOOLEAN
      /\ i.ran \in Seq({"image"}) /\ i.left \in Seq({"result"}) /\ i.failed \in BOOLEAN
      /\ c.result \in Seq({"result"}) /\ c.failed \in BOOLEAN
  BY <1>2 DEF FirstState, IsolateState, EdgeState
<1>4. /\ Reading(f, ch["source"], n, st.sent, st.delay) /\ Imaging(f, i, ch["image"])
      /\ Diagnosed(st.graph, f, i, c, ch["diagnostic"], ch["runtime"])
      /\ Resulting(i, c, ch["result"])
      /\ Exiting(i, c, ch["result"], ch["diagnostic"], ch["runtime"])
  BY <1>0, <1>1 DEF SourceIn, ImageOn, OutcomeOf
<1> HIDE DEF f, i, c, n
<1>5. i.ran # <<>> => Len(i.ran) = 2 /\ ~f.failed /\ f.phase = "done" /\ i.phase # "stage"
  BY <1>4 DEF Imaging, ImageCells
<1>6. f.phase = "done" /\ ~f.failed => Len(f.got) = n  BY <1>4 DEF Reading
<1>7. WholeProgramRuns
  <2>1. ASSUME i.ran # <<>>
        PROVE  i.ran = Line("image", 2) /\ f.got = Line("source", n)
    <3>1. Len(i.ran) = 2 /\ Len(f.got) = n  BY <1>5, <1>6, <2>1
    <3>2. i.ran = Line("image", Len(i.ran)) /\ f.got = Line("source", Len(f.got))
      BY <1>3, LineOf
    <3> QED BY <3>1, <3>2
  <2> QED BY <2>1 DEF WholeProgramRuns, ImageCells, i, f, n
<1>8. CompiledRuns
  <2>1. i.phase = "done" /\ f.exit = "done" => i.ran # <<>>  BY <1>4 DEF Imaging
  <2> QED BY <2>1 DEF CompiledRuns, i, f
<1>9. ASSUME st.graph = "compile", c.exit # "none"
      PROVE  /\ (c.exit = "failed") = (f.failed \/ i.failed)
             /\ c.stderr = IF f.failed THEN Line("compile", FrameCells)
                           ELSE IF i.failed THEN Line("isolate", FrameCells) ELSE <<>>
             /\ c.exit = "done" => c.stdout = Line("result", 1)
  <2>1. /\ c.hungUp /\ c.frame = <<>> /\ ch["diagnostic"].data = <<>> /\ ch["runtime"].data = <<>>
        /\ c.stdout = c.result /\ c.stderr = c.report /\ (c.failed <=> c.report # <<>>)
        /\ (c.failed => c.exit = "failed") /\ (~c.failed => c.exit = "done")
        /\ i.phase = "done" /\ ch["result"].data = <<>>
    BY <1>4, <1>9 DEF Exiting
  <2>2. i.left = <<>> /\ i.diagnostic = <<>>  BY <1>4, <2>1 DEF Resulting
  <2>3. f.phase = "done" /\ (f.failed \/ i.ran # <<>>)  BY <1>4, <2>1 DEF Imaging
  <2>4. f.diagnostic = <<>>  BY <1>4, <2>3 DEF Imaging
  <2>5. ASSUME NEW who, NEW k, Telling(c, who, k, <<>>), k.data = <<>>
        PROVE  c.report = Line(who, FrameCells)
    <3>1. ASSUME c.report = <<>>, Len(c.frame) < FrameCells,
                 Len(c.frame) + Len(k.data) + Len(<<>>) = FrameCells
          PROVE  FALSE
      <4>1. Len(c.frame) = 0 /\ Len(k.data) = 0 /\ Len(<<>>) = 0 /\ FrameCells = 2
        BY <2>1, <2>5 DEF FrameCells
      <4> QED BY <3>1, <4>1
    <3> QED BY <2>5, <3>1 DEF Telling
  <2>6. Refused(st.graph, f) <=> f.failed  BY <1>9 DEF Refused
  <2>7. Line("compile", FrameCells) # <<>> /\ Line("isolate", FrameCells) # <<>>
    <3>1. FrameCells \in Nat /\ FrameCells = 2  BY DEF FrameCells
    <3>2. Len(Line("compile", FrameCells)) = 2 /\ Len(Line("isolate", FrameCells)) = 2
      BY <3>1, LineOf
    <3>3. Len(<<>>) = 0  OBVIOUS
    <3> QED BY <3>2, <3>3
  <2>8. f.failed => c.report = Line("compile", FrameCells)
    BY <1>4, <2>1, <2>4, <2>5, <2>6 DEF Diagnosed
  <2>9. i.failed => c.report = Line("isolate", FrameCells) /\ ~f.failed
    BY <1>4, <2>1, <2>2, <2>5, <2>6 DEF Diagnosed
  <2>10. ~f.failed /\ ~i.failed => c.report = <<>>  BY <1>4, <2>6 DEF Diagnosed
  <2>11. c.failed <=> f.failed \/ i.failed  BY <2>1, <2>7, <2>8, <2>9, <2>10
  <2>12. c.exit = "failed" <=> f.failed \/ i.failed  BY <2>1, <2>11
  <2>13. c.stderr = IF f.failed THEN Line("compile", FrameCells)
                    ELSE IF i.failed THEN Line("isolate", FrameCells) ELSE <<>>
    BY <2>1, <2>8, <2>9, <2>10
  <2>14. ASSUME c.exit = "done" PROVE c.stdout = Line("result", 1)
    <3>1. ~f.failed /\ ~i.failed  BY <2>12, <2>14
    <3>2. i.ran # <<>>  BY <2>3, <3>1
    <3>3. Len(c.result) + Len(ch["result"].data) + Len(i.left) = 1
      BY <1>4, <3>1, <3>2 DEF Resulting
    <3>4. Len(ch["result"].data) = 0 /\ Len(i.left) = 0  BY <2>1, <2>2
    <3>5. PICK m \in Nat : m = Len(c.result)  BY <1>3, NoneOf
    <3>6. m = 1  BY <3>3, <3>4, <3>5
    <3>7. c.result = Line("result", Len(c.result))  BY <1>3, LineOf
    <3> QED BY <2>1, <3>5, <3>6, <3>7
  <2> QED BY <1>3, <2>12, <2>13, <2>14
<1>10. OutcomeTold  BY <1>9 DEF OutcomeTold, f, i, c
<1> QED BY <1>7, <1>8, <1>10 DEF EdgeTellsTheOutcome

\* What leaves the command graph is the outcome of the phase that decided it,
\* the isolate runs the image of the whole source or nothing, and what was
\* compiled is run: however the channels cut what is written, and wherever the
\* isolate's patience outlasts the compiler's (module_step of phasor_compile,
\* phasor_link, phasor_isolate and phasor_cli).
THEOREM EdgeTellsTheOutcomeCorrect ==
    ASSUME Patience PROVE PipelineSpec => []EdgeTellsTheOutcome
<1>1. PipelineInit => GraphInv(Now)
  <2>1. SUFFICES ASSUME PipelineInit PROVE GraphInv(Now)  OBVIOUS
  <2>2. PICK graph \in Graphs, early \in Early, source \in Sources, delay \in 0 .. MaxDelay :
            st = Start(graph, early, source, delay)
    BY <2>1 DEF PipelineInit
  <2>3. Now = [st |-> Start(graph, early, source, delay), ch |-> Quiet]
    BY <2>1, <2>2 DEF PipelineInit, Now
  <2> QED BY <2>3, StartsSound
<1>2. GraphInv(Now) /\ [PipelineNext]_gvars => GraphInv(Now)'
  <2>1. SUFFICES ASSUME GraphInv(Now), [PipelineNext]_gvars PROVE GraphInv(Now)'  OBVIOUS
  <2>2. CASE UNCHANGED gvars
    <3>1. Now' = Now  BY <2>2 DEF gvars, Now
    <3> QED BY <2>1, <3>1
  <2>3. CASE Round
    <3>1. PICK a \in 1 .. FrameCells, b \in 1 .. FrameCells :
              LET v == Cli(Isolate(First(Producer([st |-> st, ch |-> ch]), a), b))
              IN  /\ st' = [v.st EXCEPT !.beat = ~@] /\ ch' = v.ch
      BY <2>3 DEF Round
    <3>2. PICK v : v = Cli(Isolate(First(Producer(Now), a), b))  OBVIOUS
    <3>3. st' = [v.st EXCEPT !.beat = ~@] /\ ch' = v.ch  BY <3>1, <3>2 DEF Now
    <3>4. GraphInv(v)  BY <2>1, <3>2, RoundKeeps
    <3>5. PICK w : w = [st |-> st', ch |-> ch']  OBVIOUS
    <3>6. GraphInv(w)  BY <3>3, <3>4, <3>5, BeatKeeps
    <3>7. w = Now'  BY <3>5 DEF Now
    <3> QED BY <3>6, <3>7
  <2> QED BY <2>1, <2>2, <2>3 DEF PipelineNext
<1>3. GraphInv(Now) => EdgeTellsTheOutcome  BY InvTells
<1> QED BY <1>1, <1>2, <1>3, PTL DEF PipelineSpec
=============================================================================
