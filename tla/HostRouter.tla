------------------------------ MODULE HostRouter ------------------------------
(***************************************************************************)
(* The host router (modules/app/phasor_host_router/mod.rs, with the stream *)
(* helpers of modules/common/wire.rs): it takes an isolate's calls off one *)
(* stream, forwards each to the adapter that serves it, matches the        *)
(* adapters' answers to the calls and puts them on the isolate's stream.   *)
(*                                                                         *)
(* A stream carries cells.  A record of a frame of F cells and a payload   *)
(* of n is the cells 1..F+n of that record, and a reader takes cells and   *)
(* not records, so a reader that loses its place is a state of the model.  *)
(* module_step runs to its end before another module runs, so RouterStep   *)
(* is one action: a composition of the functions the code calls in order.  *)
(***************************************************************************)
EXTENDS Integers, Sequences, FiniteSets

CONSTANTS
    TableSize,       \* IN_FLIGHT: calls that may be outstanding at once
    PayloadBytes,    \* PAYLOAD_BYTES: cells of payload behind one frame
    StageFrames,     \* STAGE: frames with payload a staging buffer holds
    CallFrame,       \* cells of a call's frame
    CompletionFrame, \* cells of a completion's frame
    Bindings,        \* binding indexes the isolate calls
    Methods,         \* method numbers of the register
    MethodOf,        \* per binding, the leg and method it goes to: one, or none
    Wired,           \* the legs the graph wired
    Trace,           \* the trace every call of the isolate carries
    Traces,          \* traces an adapter may answer under
    PayloadLengths,  \* payload lengths the isolate and the adapters send
    Capacity,        \* cells a channel of the graph holds
    MaxCalls,        \* bound on the calls the isolate makes
    MaxStray         \* bound on the answers an adapter makes up or repeats

Legs == {0, 1}      \* LEGS: adapters one router can sit in front of

RouterAssumption ==
    /\ TableSize \in Nat \ {0} /\ PayloadBytes \in Nat /\ StageFrames \in Nat \ {0}
    /\ CallFrame \in Nat \ {0} /\ CompletionFrame \in Nat \ {0}
    /\ Capacity \in Nat \ {0} /\ MaxCalls \in Nat /\ MaxStray \in Nat
    /\ MethodOf \in [Bindings -> SUBSET [leg : Legs, method : Methods]]
    /\ \A b \in Bindings : \A m, n \in MethodOf[b] : m = n
    /\ Wired \subseteq Legs /\ Trace \in Traces /\ PayloadLengths \subseteq Nat

\* Nobody sends a payload over the profile's bound: the code cuts one that is.
PayloadsFit == \A n \in PayloadLengths : n <= PayloadBytes

Outcomes == {"Fulfilled", "Denied", "Busy", "Malformed"}

Requests == 1 .. MaxCalls

Call       == [request : Requests, trace : Traces, binding : Bindings \cup Methods,
               length : PayloadLengths]
Completion == [request : Requests, trace : Traces, outcome : Outcomes,
               length : PayloadLengths \cup {0}]
NoRecord   == [length |-> 0]

Slots == 1 .. TableSize
Free  == [live |-> FALSE]

LegBuffer        == (CallFrame + PayloadBytes) * StageFrames
CompletionBuffer == (CompletionFrame + PayloadBytes) * StageFrames

VARIABLES
    router,       \* the module's own state, and the history of what it did
    wires,        \* the streams between the isolate, the router and the adapters
    made,         \* calls the isolate made so far, which number them
    to_send,      \* the cells of the isolate's calls not written yet
    asked,        \* per leg, the calls its adapter took and has not answered
    answering,    \* per leg, the cells of its adapter's answers not written yet
    stray         \* answers made up or repeated so far

environment == <<made, to_send, asked, answering, stray>>
rvars       == <<router, wires, environment>>

----------------------------------------------------------------------------
(* Cells and streams.                                                      *)

Cells(record, frame) ==
    [n \in 1 .. frame + record.length |-> [of |-> record, frame |-> frame, at |-> n]]

\* A frame decodes to its record when the reader is in its place.
Decode(cells, frame) ==
    IF \A n \in 1 .. frame : /\ cells[n].of = cells[1].of
                             /\ cells[n].frame = frame /\ cells[n].at = n
    THEN cells[1].of ELSE NoRecord

Least(m, n) == IF m < n THEN m ELSE n

\* How many cells of a stream a buffer filled so far can take up to want.
Readable(buffer, stream, want) ==
    IF Len(buffer) < want THEN Least(want - Len(buffer), Len(stream)) ELSE 0

\* The cells that make a record whole: its frame, then what the frame says is
\* behind it, cut to the profile's bound.
Wanted(buffer, frame) ==
    IF Len(buffer) < frame THEN frame
    ELSE frame + Least(Decode(buffer, frame).length, PayloadBytes)

\* take_frame and then take_payload, as far as the stream goes.
Taken(buffer, stream, frame) ==
    LET n == Readable(buffer, stream, frame)
        framed == buffer \o SubSeq(stream, 1, n)
        m == IF Len(framed) < frame THEN 0
             ELSE Readable(framed, SubSeq(stream, n + 1, Len(stream)), Wanted(framed, frame))
    IN  [buffer |-> buffer \o SubSeq(stream, 1, n + m),
         stream |-> SubSeq(stream, n + m + 1, Len(stream))]

Whole(buffer, frame) == Len(buffer) >= frame /\ Len(buffer) >= Wanted(buffer, frame)

\* push_staged: what the channel has room for leaves, and the staging buffer
\* is emptied only once all of it has.
Pushed(staged, written, stream) ==
    LET n == Least(Len(staged) - written, Capacity - Len(stream))
    IN  [stream  |-> stream \o SubSeq(staged, written + 1, written + n),
         staged  |-> IF written + n = Len(staged) THEN <<>> ELSE staged,
         written |-> IF written + n = Len(staged) THEN 0 ELSE written + n]

----------------------------------------------------------------------------
(* The functions module_step calls, on the router's state r.               *)

\* A completion is staged with the cells it answers with, if both fit.
StageCompletion(r, record, payload) ==
    IF Len(r.completions) + CompletionFrame + payload <= CompletionBuffer
    THEN [r EXCEPT !.completions = @ \o SubSeq(Cells(record, CompletionFrame), 1,
                                               CompletionFrame + payload),
                   !.told[record.request] = @ + 1]
    ELSE r

Refuse(r, c, cause) ==
    StageCompletion(r, [request |-> c.request, trace |-> c.trace,
                        outcome |-> cause, length |-> 0], 0)

FreeSlots(r) == {s \in Slots : ~r.table[s].live}

\* A call is refused where nothing serves it, the table is full or the leg's
\* staging is; otherwise it is staged for its leg and a slot waits for it.
Route(r, c, payload) ==
    LET served == {m \in MethodOf[c.binding] : m.leg \in Wired}
        fits(l) == Len(r.legs[l].requests) + CallFrame + payload <= LegBuffer
    IN  IF served = {} THEN Refuse(r, c, "Denied")
        ELSE IF FreeSlots(r) = {} THEN Refuse(r, c, "Busy")
        ELSE LET m == CHOOSE m \in served : TRUE
                 s == CHOOSE s \in FreeSlots(r) : \A t \in FreeSlots(r) : s <= t
                 forwarded == [c EXCEPT !.binding = m.method]
             IN  IF ~fits(m.leg) THEN Refuse(r, c, "Busy")
                 ELSE [r EXCEPT
                        !.legs[m.leg].requests =
                            @ \o SubSeq(Cells(forwarded, CallFrame), 1, CallFrame + payload),
                        !.table[s] = [live |-> TRUE, request |-> c.request,
                                      trace |-> c.trace]]

\* An answer to something nobody asked is not routed; one under the wrong
\* trace frees the slot and the caller hears that it was malformed.
CorrelateKeepsSlot(r, c, payload) ==
    LET found == {s \in Slots : r.table[s].live /\ r.table[s].request = c.request}
    IN  IF found = {} THEN r ELSE StageCompletion(r, c, payload)

Correlate(r, c, payload) ==
    LET found == {s \in Slots : r.table[s].live /\ r.table[s].request = c.request}
    IN  IF found = {} THEN r
        ELSE LET s == CHOOSE s \in found : \A t \in found : s <= t
                 trace == r.table[s].trace
                 freed == [r EXCEPT !.table[s] = Free]
             IN  IF trace # c.trace
                 THEN StageCompletion(freed, [request |-> c.request, trace |-> trace,
                                              outcome |-> "Malformed", length |-> 0], 0)
                 ELSE StageCompletion(freed, c, payload)

\* A call is taken only when there is room to answer it and room to forward it
\* on any leg, and routed once its payload is here.
RoomToTake(r) ==
    /\ Len(r.completions) + CompletionFrame <= CompletionBuffer
    /\ \A l \in Legs : Len(r.legs[l].requests) + CallFrame + PayloadBytes <= LegBuffer

TakeCall(v) ==
    LET t == Taken(v.r.call, v.w.call_in, CallFrame)
        c == Decode(t.buffer, CallFrame)
        w == [v.w EXCEPT !.call_in = t.stream]
    IN  IF ~RoomToTake(v.r) THEN v
        ELSE IF ~Whole(t.buffer, CallFrame)
             THEN [r |-> [v.r EXCEPT !.call = t.buffer], w |-> w]
             ELSE LET r == [v.r EXCEPT !.call = <<>>]
                  IN  [r |-> IF c = NoRecord THEN r
                             ELSE Route([r EXCEPT !.taken = @ \cup {c.request}], c,
                                        Len(t.buffer) - CallFrame),
                       w |-> w]

RoomToSpare(r) ==
    Len(r.completions) + CompletionFrame + PayloadBytes < CompletionBuffer

\* An adapter's answer is taken only when there is room for the largest one.
RoomToAnswer(r) ==
    Len(r.completions) + CompletionFrame + PayloadBytes <= CompletionBuffer

TakeReply(v, l) ==
    LET t == Taken(v.r.legs[l].reply, v.w.reply_in[l], CompletionFrame)
        c == Decode(t.buffer, CompletionFrame)
        w == [v.w EXCEPT !.reply_in[l] = t.stream]
    IN  IF ~RoomToAnswer(v.r) \/ l \notin Wired THEN v
        ELSE IF ~Whole(t.buffer, CompletionFrame)
             THEN [r |-> [v.r EXCEPT !.legs[l].reply = t.buffer], w |-> w]
             ELSE LET r == [v.r EXCEPT !.legs[l].reply = <<>>]
                  IN  [r |-> IF c = NoRecord THEN r
                             ELSE Correlate(r, c, Len(t.buffer) - CompletionFrame),
                       w |-> w]

PushRequests(v, l) ==
    LET p == Pushed(v.r.legs[l].requests, v.r.legs[l].written, v.w.request_out[l])
    IN  IF l \notin Wired THEN v
        ELSE [r |-> [v.r EXCEPT !.legs[l].requests = p.staged, !.legs[l].written = p.written],
              w |-> [v.w EXCEPT !.request_out[l] = p.stream]]

PushCompletions(v) ==
    LET p == Pushed(v.r.completions, v.r.written, v.w.completion_out)
    IN  [r |-> [v.r EXCEPT !.completions = p.staged, !.written = p.written],
         w |-> [v.w EXCEPT !.completion_out = p.stream]]

\* The router is finished when the isolate has hung up and nothing is staged
\* or part way in.
Finished(v) ==
    /\ v.w.closed /\ v.r.completions = <<>> /\ v.r.call = <<>>
    /\ \A l \in Legs : v.r.legs[l].requests = <<>>

\* One step: a call, then each leg's answer and its calls, then the answers.
Stepped ==
    LET a == TakeCall([r |-> router, w |-> wires])
        b == TakeReply(a, 0)
        c == PushRequests(b, 0)
        d == TakeReply(c, 1)
        e == PushRequests(d, 1)
        f == PushCompletions(e)
    IN  [f EXCEPT !.r.finished = Finished(f)]

RouterStep ==
    /\ ~router.finished
    /\ \E v \in {Stepped} : router' = v.r /\ wires' = v.w
    /\ UNCHANGED environment

----------------------------------------------------------------------------
(* The modules around the router, as far as their streams show.            *)

RouterInit ==
    /\ router = [table |-> [s \in Slots |-> Free], call |-> <<>>,
                 legs |-> [l \in Legs |-> [reply |-> <<>>, requests |-> <<>>, written |-> 0]],
                 completions |-> <<>>, written |-> 0, finished |-> FALSE,
                 taken |-> {}, told |-> [q \in Requests |-> 0]]
    /\ wires = [call_in |-> <<>>, closed |-> FALSE, completion_out |-> <<>>,
                request_out |-> [l \in Legs |-> <<>>], reply_in |-> [l \in Legs |-> <<>>]]
    /\ made = 0 /\ to_send = <<>>
    /\ asked = [l \in Legs |-> {}] /\ answering = [l \in Legs |-> <<>>]
    /\ stray = 0

\* The isolate stages a call under the next identifier.
IsolateCalls(b, length) ==
    /\ ~wires.closed /\ made < MaxCalls
    /\ made' = made + 1
    /\ to_send' = to_send \o Cells([request |-> made + 1, trace |-> Trace,
                                    binding |-> b, length |-> length], CallFrame)
    /\ UNCHANGED <<router, wires, asked, answering, stray>>

\* It writes as much of what it staged as its channel takes.
IsolateWrites ==
    /\ ~wires.closed
    /\ \E n \in 1 .. Least(Len(to_send), Capacity - Len(wires.call_in)) :
          /\ wires' = [wires EXCEPT !.call_in = @ \o SubSeq(to_send, 1, n)]
          /\ to_send' = SubSeq(to_send, n + 1, Len(to_send))
    /\ UNCHANGED <<router, made, asked, answering, stray>>

IsolateReads ==
    /\ wires.completion_out # <<>>
    /\ wires' = [wires EXCEPT !.completion_out = <<>>]
    /\ UNCHANGED <<router, environment>>

\* A task that ends leaves what it had not written.
IsolateHangsUp ==
    /\ ~wires.closed
    /\ wires' = [wires EXCEPT !.closed = TRUE]
    /\ UNCHANGED <<router, environment>>

\* An adapter takes a cell; the last of a call makes the call whole.
AdapterTakes(l) ==
    /\ wires.request_out[l] # <<>>
    /\ wires' = [wires EXCEPT !.request_out[l] = Tail(@)]
    /\ LET cell == Head(wires.request_out[l])
       IN  asked' = [asked EXCEPT ![l] = IF cell.at = CallFrame + cell.of.length
                                         THEN @ \cup {cell.of} ELSE @]
    /\ UNCHANGED <<router, made, to_send, answering, stray>>

\* It answers each call it took once, and may besides answer what nobody asked,
\* twice, or under another trace.
AdapterAnswers(l) ==
    /\ \E c \in asked[l], n \in PayloadLengths :
          /\ asked' = [asked EXCEPT ![l] = @ \ {c}]
          /\ answering' = [answering EXCEPT ![l] = @ \o
                Cells([request |-> c.request, trace |-> c.trace,
                       outcome |-> "Fulfilled", length |-> n], CompletionFrame)]
    /\ UNCHANGED <<router, wires, made, to_send, stray>>

AdapterStrays(l) ==
    /\ stray < MaxStray
    /\ stray' = stray + 1
    /\ \E q \in Requests, t \in Traces :
          answering' = [answering EXCEPT ![l] = @ \o
                Cells([request |-> q, trace |-> t, outcome |-> "Fulfilled",
                       length |-> 0], CompletionFrame)]
    /\ UNCHANGED <<router, wires, made, to_send, asked>>

AdapterWrites(l) ==
    /\ \E n \in 1 .. Least(Len(answering[l]), Capacity - Len(wires.reply_in[l])) :
          /\ wires' = [wires EXCEPT !.reply_in[l] = @ \o SubSeq(answering[l], 1, n)]
          /\ answering' = [answering EXCEPT ![l] = SubSeq(@, n + 1, Len(@))]
    /\ UNCHANGED <<router, made, to_send, asked, stray>>

AdapterStep(l) ==
    AdapterTakes(l) \/ AdapterAnswers(l) \/ AdapterStrays(l) \/ AdapterWrites(l)

RouterNext ==
    \/ RouterStep
    \/ \E b \in Bindings, n \in PayloadLengths : IsolateCalls(b, n)
    \/ IsolateWrites
    \/ IsolateReads
    \/ IsolateHangsUp
    \/ \E l \in Legs : AdapterStep(l)

RouterIdle == router.finished \/ Stepped = [r |-> router, w |-> wires]

\* Every module of the graph is stepped for ever (for the router: again and
\* again it has nothing to do or does something, which is what WF says); an
\* adapter that answers is an assumption of its own.
RouterFairness ==
    /\ []<>RouterIdle \/ []<><<RouterStep>>_rvars
    /\ WF_rvars(IsolateWrites \/ IsolateReads)
    /\ \A l \in Legs : WF_rvars(AdapterTakes(l) \/ AdapterAnswers(l) \/ AdapterWrites(l))

RouterSpec == RouterInit /\ [][RouterNext]_rvars /\ RouterFairness

----------------------------------------------------------------------------
\* Every buffer is within its size with its count of what has left within it,
\* and a record part way in is short of the largest one.
RouterOK ==
    /\ router.table \in [Slots -> {Free} \cup [live : {TRUE}, request : Requests,
                                              trace : Traces]]
    /\ Len(router.call) < CallFrame + PayloadBytes
    /\ Len(router.completions) <= CompletionBuffer
    /\ router.written <= Len(router.completions)
    /\ \A l \in Legs :
          /\ Len(router.legs[l].reply) < CompletionFrame + PayloadBytes
          /\ Len(router.legs[l].requests) <= LegBuffer
          /\ router.legs[l].written <= Len(router.legs[l].requests)
          /\ Len(wires.request_out[l]) <= Capacity /\ Len(wires.reply_in[l]) <= Capacity
    /\ Len(wires.call_in) <= Capacity /\ Len(wires.completion_out) <= Capacity
    /\ router.taken \subseteq Requests /\ router.finished \in BOOLEAN
    /\ made \in 0 .. MaxCalls /\ stray \in 0 .. MaxStray

LiveFor(q) == {s \in Slots : router.table[s].live /\ router.table[s].request = q}

\* Every call the router took is waited on in one slot or was answered once,
\* whatever the adapters answer: none is dropped for want of space, none is
\* told twice, and none is told that was not taken.
ToldOnce ==
    \A q \in Requests :
        router.told[q] + Cardinality(LiveFor(q)) = IF q \in router.taken THEN 1 ELSE 0

\* Cells follow each other as they were written: the next of the same record,
\* or the first of another after the last of one.
InOrder(cells) ==
    \A n \in 1 .. Len(cells) - 1 :
        IF cells[n].at < cells[n].frame + cells[n].of.length
        THEN cells[n + 1] = [cells[n] EXCEPT !.at = @ + 1]
        ELSE cells[n + 1].at = 1

Unwritten(staged, written) == SubSeq(staged, written + 1, Len(staged))

\* No record is cut and no two are mixed, on any stream, across reads and
\* writes that take part of one: a reader between records is at a frame.
RecordsWhole ==
    /\ InOrder(router.call \o wires.call_in \o to_send)
    /\ router.call # <<>> => router.call[1].at = 1
    /\ InOrder(wires.completion_out \o Unwritten(router.completions, router.written))
    /\ \A l \in Legs :
          /\ InOrder(wires.request_out[l] \o
                     Unwritten(router.legs[l].requests, router.legs[l].written))
          /\ InOrder(router.legs[l].reply \o wires.reply_in[l] \o answering[l])
          /\ router.legs[l].reply # <<>> => router.legs[l].reply[1].at = 1

\* Every call taken is waited on once or was answered once, no record is cut and
\* no two are mixed, and no table or buffer is overrun.
OneAnswer == RouterOK /\ ToldOnce /\ RecordsWhole

\* A call the router took is answered, where every adapter answers and the
\* isolate stays: a full table, a full channel and a full staging buffer on
\* either side never leave it waiting on itself.
TakenIsTold ==
    \A q \in Requests : q \in router.taken ~> router.told[q] = 1 \/ wires.closed
============================================================================
