----------------------------- MODULE NetAdapter -------------------------------
(***************************************************************************)
(* modules/app/phasor_net: stream connections through a network stack whose *)
(* lane other modules share.  A connect is a dial held until the stack     *)
(* answers it; a receive is held until its connection has bytes or has     *)
(* ended.  A data frame for a connection without room stays on the lane    *)
(* and holds everything behind it.                                         *)
(*                                                                         *)
(* A byte is the connection it came over and its place in that stream; the *)
(* stack (env) is external.                                                *)
(***************************************************************************)
EXTENDS AdapterPort

CONSTANTS
    Connections,   \* CONNECTIONS: connections held at once
    Pending,       \* PENDING: calls held at once
    BufferCells,   \* BUFFER_BYTES, in cells: bytes buffered for a connection
    CommandCells,  \* COMMAND_BYTES: commands staged for the stack
    MaxEvents      \* bound on what the stack says unasked

Gone == [live |-> FALSE, id |-> 0, buffer |-> <<>>, closed |-> FALSE]
NoCall == [live |-> FALSE, request |-> 0, method |-> "none", slot |-> 0, id |-> 0]

\* env: the lane to the adapter, the commands the stack has not acted on, the
\* connections it opened (whose dial each answered, the bytes sent over it,
\* whether it ended), and what went wrong: an answer that found no room, a
\* dial while another was out or with nobody waiting, a close under a receive.
NetInit ==
    /\ PortInit
    /\ \E quota \in Quotas :
          state = Staging @@ [quota |-> quota, answered |-> 0, commands |-> <<>>,
                              connections |-> [i \in 1 .. Connections |-> Gone],
                              held |-> [i \in 1 .. Pending |-> NoCall]]
    /\ env = [lane |-> <<>>, dials |-> <<>>, opened |-> <<>>, events |-> 0,
              cut |-> FALSE, crossed |-> FALSE, stranded |-> FALSE]

FirstFree(slots) == CHOOSE i \in slots : \A j \in slots : i <= j
FreeHeld(s) == {i \in 1 .. Pending : ~s.held[i].live}
FreeConnections(s) == {i \in 1 .. Connections : ~s.connections[i].live}
SlotOf(s, id) == {i \in 1 .. Connections : s.connections[i].live /\ s.connections[i].id = id}

\* v is the adapter's state s and the stack e.  A reply that finds no room is
\* dropped, and the call it answers with it: cut, where the step had looked
\* for room first.
LaneReply(v, request, outcome, data, id) ==
    LET staged == Reply(v.s, Completion(request, outcome, data) @@ [id |-> id])
    IN  IF staged = v.s THEN v ELSE [v EXCEPT !.s = [staged EXCEPT !.answered = @ + 1]]
NetReply(v, request, outcome, data, id) ==
    LET w == LaneReply(v, request, outcome, data, id)
    IN  [w EXCEPT !.e.cut = @ \/ w.s = v.s]

Hold(v, call, slot) ==
    [v EXCEPT !.s.held[FirstFree(FreeHeld(v.s))] =
        [live |-> TRUE, request |-> call.request, method |-> call.method, slot |-> slot,
         id |-> IF slot = 0 THEN 0 ELSE v.s.connections[slot].id]]

----------------------------------------------------------------------------
(* Receives.                                                               *)

\* A held receive that its connection can answer, with room for the answer.
CanReceive(s, i) ==
    LET h == s.held[i]
    IN  /\ h.live /\ h.method = "receive" /\ s.connections[h.slot].live
        /\ s.connections[h.slot].buffer # <<>> \/ s.connections[h.slot].closed
        /\ Room(s, PayloadCells)

Taking(buffer) == SubSeq(buffer, 1, IF Len(buffer) < PayloadCells THEN Len(buffer) ELSE PayloadCells)
Leaving(buffer) == SubSeq(buffer, Len(Taking(buffer)) + 1, Len(buffer))

ServeReceives(v) ==
    FoldLeft(LAMBDA w, i :
                IF ~CanReceive(w.s, i) THEN w
                ELSE LET h == w.s.held[i]
                         c == w.s.connections[h.slot]
                     IN  NetReply([w EXCEPT !.s.held[i] = NoCall,
                                            !.s.connections[h.slot].buffer = Leaving(@)],
                                  h.request, "fulfilled", Taking(c.buffer), h.id),
             v, [i \in 1 .. Pending |-> i])

----------------------------------------------------------------------------
(* Calls.                                                                  *)

HasCommandRoom(s) == Len(s.commands) < CommandCells

\* connect: refused with every connection taken, a dial otherwise.
Connect(v, call) ==
    IF FreeConnections(v.s) = {} \/ ~HasCommandRoom(v.s)
    THEN NetReply(v, call.request, "Busy", <<>>, 0)
    ELSE LET w == [v EXCEPT !.s.commands = Append(@, [kind |-> "connect", request |-> call.request])]
         IN  IF FreeHeld(w.s) = {} THEN NetReply([w EXCEPT !.e.crossed = TRUE], call.request, "Busy", <<>>, 0)
             ELSE [Hold(w, call, 0) EXCEPT !.e.crossed = @ \/ \E i \in 1 .. Pending :
                        v.s.held[i].live /\ v.s.held[i].method = "connect"]

Send(v, call) ==
    IF ~HasCommandRoom(v.s) THEN NetReply(v, call.request, "Busy", <<>>, 0)
    ELSE NetReply([v EXCEPT !.s.commands = Append(@, [kind |-> "send", request |-> call.request])],
                  call.request, "fulfilled", <<>>, 0)

Receive(v, call) ==
    IF FreeHeld(v.s) = {} THEN NetReply(v, call.request, "Busy", <<>>, 0)
    ELSE ServeReceives(Hold(v, call, call.slot))

\* close: the stack is told when there is room to tell it, the slot is free.
Close(v, call) ==
    NetReply([v EXCEPT !.s.commands = IF HasCommandRoom(v.s)
                            THEN Append(@, [kind |-> "close", request |-> call.request]) ELSE @,
                       !.s.connections[call.slot] = Gone,
                       !.e.stranded = @ \/ \E i \in 1 .. Pending :
                            v.s.held[i].live /\ v.s.held[i].slot = call.slot],
             call.request, "fulfilled", <<>>, 0)

\* Only a connect is refused for the quota, which every answer counts towards.
Serve(v, call) ==
    CASE call.method = "connect" /\ Spent(v.s) -> NetReply(v, call.request, "Denied", <<>>, 0)
      [] call.method = "malformed" -> NetReply(v, call.request, "Malformed", <<>>, 0)
      [] call.method = "connect" /\ ~Spent(v.s) -> Connect(v, call)
      [] call.method = "endpoint"  -> NetReply(v, call.request, "fulfilled", <<>>, 0)
      [] ~v.s.connections[call.slot].live -> NetReply(v, call.request, "Malformed", <<>>, 0)
      [] call.method = "send"      -> Send(v, call)
      [] call.method = "receive"   -> Receive(v, call)
      [] OTHER                     -> Close(v, call)

----------------------------------------------------------------------------
(* What the stack says.                                                    *)

\* room_for: only a data frame for a connection that is full is held back.
RoomFor(s, frame) ==
    frame.kind = "data" =>
        \A i \in SlotOf(s, frame.id) : Len(s.connections[i].buffer) < BufferCells

\* The first connect of the table has the connection, if one waits and a
\* slot is free; another module's is not looked at.
ApplyConnected(v, frame) ==
    LET waiting == {i \in 1 .. Pending : v.s.held[i].live /\ v.s.held[i].method = "connect"}
        h       == v.s.held[FirstFree(waiting)]
        slot    == FirstFree(FreeConnections(v.s))
    IN  IF ~frame.mine \/ waiting = {} \/ FreeConnections(v.s) = {} THEN v
        ELSE LaneReply([v EXCEPT !.s.connections[slot] = [Gone EXCEPT !.live = TRUE, !.id = frame.id],
                                !.s.held[FirstFree(waiting)] = NoCall],
                      h.request, "connected", <<>>, frame.id)

\* Data the buffer cannot take is not taken at all.
ApplyData(v, frame) ==
    IF SlotOf(v.s, frame.id) = {} THEN v
    ELSE LET i == FirstFree(SlotOf(v.s, frame.id))
         IN  IF Len(v.s.connections[i].buffer) >= BufferCells THEN v
             ELSE [v EXCEPT !.s.connections[i].buffer = Append(@, frame.byte)]

ApplyClosed(v, frame) ==
    IF SlotOf(v.s, frame.id) = {} THEN v
    ELSE [v EXCEPT !.s.connections[FirstFree(SlotOf(v.s, frame.id))].closed = TRUE]

\* An error tells everything that was waiting.
ApplyError(v, frame) ==
    IF ~frame.mine THEN v
    ELSE FoldLeft(LAMBDA w, i :
                    IF ~w.s.held[i].live THEN w
                    ELSE LaneReply([w EXCEPT !.s.held[i] = NoCall],
                                  w.s.held[i].request, "Unavailable", <<>>, 0),
                  v, [i \in 1 .. Pending |-> i])

Apply(v, frame) ==
    CASE frame.kind = "connected" -> ApplyConnected(v, frame)
      [] frame.kind = "data"      -> ApplyData(v, frame)
      [] frame.kind = "closed"    -> ApplyClosed(v, frame)
      [] OTHER                    -> ApplyError(v, frame)

\* Frames are applied in order until one has no room.
Drain(v) ==
    FoldLeft(LAMBDA w, n :
                IF w.e.lane = <<>> \/ ~RoomFor(w.s, Head(w.e.lane)) THEN w
                ELSE Apply([w EXCEPT !.e.lane = Tail(@)], Head(w.e.lane)),
             v, [n \in 1 .. Len(v.e.lane) |-> n])

NetTakes(s) == calls # <<>> /\ Room(s, PayloadCells)

FinishNet(s) ==
    [s EXCEPT !.phase = IF hung /\ s.staged = <<>> /\ \A i \in 1 .. Pending : ~s.held[i].live
                        THEN 1 ELSE @]

\* The stack takes what is staged for it, or not yet.
Commands(v) ==
    \E pushes \in IF v.s.commands = <<>> THEN {TRUE} ELSE BOOLEAN :
        /\ env' = [v.e EXCEPT !.dials = IF pushes
                       THEN @ \o SelectSeq(v.s.commands, LAMBDA c : c.kind = "connect") ELSE @]
        /\ Pushing([v.s EXCEPT !.commands = IF pushes THEN <<>> ELSE @], FinishNet)

\* A call is taken where an answer has room, then what was held is served.
TakeCall(v) ==
    /\ Commands(ServeReceives(IF NetTakes(v.s) THEN Serve(v, Head(calls)) ELSE v))
    /\ calls' = IF NetTakes(v.s) THEN Tail(calls) ELSE calls

NetStep ==
    /\ state.phase = 0
    /\ TakeCall(Drain([s |-> state, e |-> env]))
    /\ UNCHANGED <<made, hung>>

NetCalls ==
    [method : {"connect", "endpoint"}, slot : {0}]
    \cup [method : {"send", "receive", "close"}, slot : 1 .. Connections]

----------------------------------------------------------------------------
(* The stack.                                                              *)

Say(frame, e) == [e EXCEPT !.lane = Append(@, frame)]

\* It answers the dial it took first, or fails it.
StackAnswers ==
    /\ env.dials # <<>>
    /\ \/ env' = Say([kind |-> "connected", id |-> Len(env.opened) + 1, mine |-> TRUE],
                     [env EXCEPT !.dials = Tail(@),
                        !.opened = Append(@, [dial |-> Head(env.dials).request, bytes |-> 0, ended |-> FALSE])])
       \/ env' = Say([kind |-> "error", id |-> 0, mine |-> TRUE], [env EXCEPT !.dials = Tail(@)])
    /\ UNCHANGED <<state, calls, made, hung, sent>>

\* Bytes, and the end of a connection.
StackSends ==
    /\ env.events < MaxEvents
    /\ \E id \in DOMAIN env.opened :
          /\ ~env.opened[id].ended
          /\ \/ env' = Say([kind |-> "data", id |-> id, byte |-> <<id, env.opened[id].bytes + 1>>],
                           [env EXCEPT !.opened[id].bytes = @ + 1, !.events = @ + 1])
             \/ env' = Say([kind |-> "closed", id |-> id],
                           [env EXCEPT !.opened[id].ended = TRUE, !.events = @ + 1])
    /\ UNCHANGED <<state, calls, made, hung, sent>>

\* What it says to another module.
StackSaysElsewhere ==
    /\ env.events < MaxEvents
    /\ \E kind \in {"connected", "error"} :
          env' = Say([kind |-> kind, id |-> 99, mine |-> FALSE], [env EXCEPT !.events = @ + 1])
    /\ UNCHANGED <<state, calls, made, hung, sent>>

NetNext ==
    \/ NetStep \/ MakeCall(NetCalls) \/ HangUp
    \/ StackAnswers \/ StackSends \/ StackSaysElsewhere

----------------------------------------------------------------------------

\* Bytes are handed over in the order they were sent, with none left out: for
\* a connection the adapter holds, what was received, what is buffered and
\* what is still on the lane are all that was sent.
StreamWhole ==
    \A i \in 1 .. Connections :
        LET c == state.connections[i]
            given == SelectSeq(FlattenSeq([n \in DOMAIN Told |-> Told[n].data]), LAMBDA b : b[1] = c.id)
            coming == SelectSeq(env.lane, LAMBDA f : f.kind = "data" /\ f.id = c.id)
            all == given \o c.buffer \o [n \in DOMAIN coming |-> coming[n].byte]
        IN  c.live /\ c.id \in DOMAIN env.opened =>
                all = [n \in 1 .. env.opened[c.id].bytes |-> <<c.id, n>>]

\* A receive has bytes of the connection its handle named when it was made,
\* unless that connection was closed under it.
OwnBytesReceived ==
    ~env.stranded => \A n \in DOMAIN Told : \A b \in Range(Told[n].data) : b[1] = Told[n].id

\* A connection goes to the call that dialled it, while one dial is out at a
\* time: not to another module's, and not to a call that came later.
OwnDialAnswered ==
    ~env.crossed => \A n \in DOMAIN Told :
        Told[n].outcome = "connected" =>
            Told[n].id \in DOMAIN env.opened /\ env.opened[Told[n].id].dial = Told[n].request

\* A step that looked for room has it: no answer it makes itself is dropped,
\* however many receives it serves after the call.
ServedIsTold == ~env.cut

\* While one dial is out at a time, no more connections are handed out than
\* the quota admits.
ConnectionsWithinQuota ==
    ~env.crossed /\ state.quota # 0 =>
        Cardinality({n \in DOMAIN Told : Told[n].outcome = "connected"}) <= state.quota

===============================================================================
