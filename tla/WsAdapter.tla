------------------------------ MODULE WsAdapter -------------------------------
(***************************************************************************)
(* modules/app/phasor_ws: links a provider opens, one message at a time.   *)
(* What became of a link and the messages that came over it reach the      *)
(* adapter on two streams; a message stays on its stream until the program *)
(* has taken the one before.                                               *)
(*                                                                         *)
(* A message is the link it came over and its place on that link; the      *)
(* provider (env) is external.                                             *)
(***************************************************************************)
EXTENDS AdapterPort

CONSTANTS
    Links,        \* LINKS: links claimed at once
    WsPending,    \* PENDING: calls held at once
    FrameRoom,    \* FRAME_BYTES: frames staged for the provider
    MaxMessages   \* bound on the messages that come over the links

NoLink == [live |-> FALSE, open |-> FALSE, closed |-> FALSE, message |-> <<>>]
Idle == [live |-> FALSE, request |-> 0, method |-> "none", slot |-> 0]

\* A frame staged is a message the program sends or the close of a link.
\* env: the two streams to the adapter, the opens the provider has not
\* decided, the links it has up and the messages it sent over each, and what
\* went wrong: an answer that found no room, an open refused after it was
\* staged.
WsInit ==
    /\ PortInit
    /\ state = Staging @@ [links |-> [i \in 1 .. Links |-> NoLink],
                           held |-> [i \in 1 .. WsPending |-> Idle],
                           opens |-> <<>>, frames |-> <<>>]
    /\ env = [events |-> <<>>, messages |-> <<>>, asked |-> {}, up |-> {},
              count |-> [i \in 1 .. Links |-> 0], cut |-> FALSE, orphaned |-> FALSE]

\* v is the adapter's state s and the provider e.
WsReply(v, request, outcome, data, slot) ==
    LET staged == Reply(v.s, Completion(request, outcome, data) @@ [slot |-> slot])
    IN  [v EXCEPT !.s = staged, !.e.cut = @ \/ staged = v.s]

LeastOf(slots) == CHOOSE i \in slots : \A j \in slots : i <= j

----------------------------------------------------------------------------
(* Receives: the message that waits, or the end of the link.               *)

Receivable(s, i) ==
    LET link == s.links[s.held[i].slot]
    IN  IF link.message # <<>> THEN "message" ELSE IF link.closed THEN "close" ELSE "none"

ServeReceives(v) ==
    FoldLeft(LAMBDA w, i :
        LET h == w.s.held[i]
        IN  CASE ~h.live \/ h.method # "receive" \/ Receivable(w.s, i) = "none" -> w
              [] h.live /\ h.method = "receive" /\ Receivable(w.s, i) = "message" ->
                    WsReply([w EXCEPT !.s.held[i] = Idle, !.s.links[h.slot].message = <<>>],
                            h.request, "message", w.s.links[h.slot].message, h.slot)
              [] OTHER -> WsReply([w EXCEPT !.s.held[i] = Idle], h.request, "close", <<>>, h.slot),
             v, [i \in 1 .. WsPending |-> i])

----------------------------------------------------------------------------
(* What the provider says.                                                 *)

\* settle: an open waiting on the link is answered with it, or refused and
\* the link let go; then a receive may be answered by the ending.
Settle(v, slot, event) ==
    ServeReceives(FoldLeft(LAMBDA w, i :
        LET h == w.s.held[i]
        IN  CASE ~h.live \/ h.slot # slot \/ h.method # "open" -> w
              [] h.live /\ h.slot = slot /\ h.method = "open" /\ event = "open" ->
                    WsReply([w EXCEPT !.s.held[i] = Idle], h.request, "fulfilled", <<>>, slot)
              [] OTHER -> WsReply([w EXCEPT !.s.held[i] = Idle, !.s.links[slot] = NoLink],
                                  h.request, "Unavailable", <<>>, 0),
             v, [i \in 1 .. WsPending |-> i]))

ApplyEvent(v, record) ==
    Settle(IF record.event = "open" THEN [v EXCEPT !.s.links[record.slot].open = TRUE]
           ELSE [v EXCEPT !.s.links[record.slot].closed = TRUE, !.s.links[record.slot].open = FALSE],
           record.slot, record.event)

DrainEvents(v) == FoldLeft(ApplyEvent, [v EXCEPT !.e.events = <<>>], v.e.events)

\* A message is placed on its link, dropped when the link is gone, and left
\* where it is, with all behind it, while the last one waits.
Waiting(s, frame) == s.links[frame[1]].live /\ s.links[frame[1]].message # <<>>

ApplyFrame(v, frame) ==
    IF ~v.s.links[frame[1]].live THEN v
    ELSE ServeReceives([v EXCEPT !.s.links[frame[1]].message = <<frame>>])

DrainMessages(v) ==
    FoldLeft(LAMBDA w, n :
                IF w.e.messages = <<>> \/ Waiting(w.s, Head(w.e.messages)) THEN w
                ELSE ApplyFrame([w EXCEPT !.e.messages = Tail(@)], Head(w.e.messages)),
             v, [n \in 1 .. Len(v.e.messages) |-> n])

----------------------------------------------------------------------------
(* Calls.                                                                  *)

\* open: the first link not claimed is, while the provider decides.  The open
\* is staged before a place is looked for, and stays staged without one.
OpenLink(v, call) ==
    LET free == {i \in 1 .. Links : ~v.s.links[i].live}
        places == {i \in 1 .. WsPending : ~v.s.held[i].live}
        slot == LeastOf(free)
    IN  CASE free = {} -> WsReply(v, call.request, "Busy", <<>>, 0)
          [] free # {} /\ places = {} ->
                WsReply([v EXCEPT !.s.links[slot] = NoLink, !.s.opens = Append(@, slot),
                                  !.e.orphaned = TRUE],
                        call.request, "Busy", <<>>, 0)
          [] OTHER ->
                [v EXCEPT !.s.links[slot] = [NoLink EXCEPT !.live = TRUE],
                          !.s.opens = Append(@, slot),
                          !.s.held[LeastOf(places)] = [live |-> TRUE, request |-> call.request,
                                                       method |-> "open", slot |-> slot]]

FrameFits(s) == Len(s.frames) < FrameRoom

SendMessage(v, call) ==
    CASE ~v.s.links[call.slot].open -> WsReply(v, call.request, "Malformed", <<>>, 0)
      [] v.s.links[call.slot].open /\ ~FrameFits(v.s) -> WsReply(v, call.request, "Busy", <<>>, 0)
      [] OTHER -> WsReply([v EXCEPT !.s.frames = Append(@, [slot |-> call.slot, kind |-> "message"])],
                          call.request, "fulfilled", <<>>, 0)

ReceiveMessage(v, call) ==
    LET places == {i \in 1 .. WsPending : ~v.s.held[i].live}
    IN  IF places = {} THEN WsReply(v, call.request, "Busy", <<>>, 0)
        ELSE ServeReceives([v EXCEPT !.s.held[LeastOf(places)] =
                [live |-> TRUE, request |-> call.request, method |-> "receive", slot |-> call.slot]])

\* close: the provider is asked to, if there is room to ask it, and never
\* otherwise; the call is fulfilled and the link stays claimed either way.
Closing(v, call) ==
    LET link == v.s.links[call.slot]
    IN  IF link.open /\ ~link.closed /\ FrameFits(v.s)
        THEN [v EXCEPT !.s.frames = Append(@, [slot |-> call.slot, kind |-> "close"])] ELSE v

\* Mutant: the link is let go at once.
CloseFreeing(v, call) ==
    WsReply([Closing(v, call) EXCEPT !.s.links[call.slot] = NoLink], call.request, "fulfilled", <<>>, 0)
CloseLink(v, call) == WsReply(Closing(v, call), call.request, "fulfilled", <<>>, 0)

Dispatch(v, call) ==
    CASE call.method = "open"   -> OpenLink(v, call)
      [] call.method = "origin" -> WsReply(v, call.request, "fulfilled", <<>>, 0)
      [] ~v.s.links[call.slot].live -> WsReply(v, call.request, "Malformed", <<>>, 0)
      [] call.method = "send"    -> SendMessage(v, call)
      [] call.method = "receive" -> ReceiveMessage(v, call)
      [] OTHER                   -> CloseLink(v, call)

WsTakes(s) == calls # <<>> /\ Room(s, PayloadCells)

FinishWs(s) ==
    [s EXCEPT !.phase = IF hung /\ s.staged = <<>> /\ \A i \in 1 .. WsPending : ~s.held[i].live
                        THEN 1 ELSE @]

\* The links the frames the provider takes ask it to close.
Closed(frames) == {f.slot : f \in {g \in Range(frames) : g.kind = "close"}}

\* The provider takes what is staged for it, or not yet; a frame of a link
\* that is no longer up comes to nothing.
Asks(v) ==
    \E takes \in IF v.s.frames = <<>> THEN {TRUE} ELSE BOOLEAN :
        LET down == SetToSeq(IF takes THEN Closed(v.s.frames) \cap v.e.up ELSE {})
        IN  /\ env' = [v.e EXCEPT !.asked = @ \cup Range(v.s.opens), !.up = @ \ Range(down),
                                  !.events = @ \o [i \in DOMAIN down |->
                                                     [slot |-> down[i], event |-> "closed"]]]
            /\ Pushing([v.s EXCEPT !.opens = <<>>, !.frames = IF takes THEN <<>> ELSE @], FinishWs)

\* A call is taken where an answer has room, then what was held is served.
TakeCall(v) ==
    /\ Asks(ServeReceives(IF WsTakes(v.s) THEN Dispatch(v, Head(calls)) ELSE v))
    /\ calls' = IF WsTakes(v.s) THEN Tail(calls) ELSE calls

WsStep ==
    /\ state.phase = 0
    /\ TakeCall(DrainMessages(DrainEvents([s |-> state, e |-> env])))
    /\ UNCHANGED <<made, hung>>

WsCalls ==
    [method : {"open"}, slot : {0}] \cup [method : {"send", "receive", "close"}, slot : 1 .. Links]

----------------------------------------------------------------------------
(* The provider: it decides an open, sends messages over a link that is up, *)
(* and ends it.                                                            *)

LinkDecides ==
    /\ \E slot \in env.asked, event \in {"open", "failed"} :
          env' = [env EXCEPT !.asked = @ \ {slot}, !.up = IF event = "open" THEN @ \cup {slot} ELSE @,
                             !.events = Append(@, [slot |-> slot, event |-> event])]
    /\ UNCHANGED <<state, calls, made, hung, sent>>

LinkSends ==
    /\ \E slot \in env.up :
          \/ /\ FoldSeq(+, 0, env.count) < MaxMessages
             /\ env' = [env EXCEPT !.count[slot] = @ + 1,
                                   !.messages = Append(@, <<slot, env.count[slot] + 1>>)]
          \/ env' = [env EXCEPT !.up = @ \ {slot},
                                !.events = Append(@, [slot |-> slot, event |-> "closed"])]
    /\ UNCHANGED <<state, calls, made, hung, sent>>

WsNext == WsStep \/ MakeCall(WsCalls) \/ HangUp \/ LinkDecides \/ LinkSends

----------------------------------------------------------------------------

\* Every message a link carried is with the program, on the link or still on
\* its stream, in the order it was sent, unless an answer found no room or an
\* open was refused after it was staged.
MessagesKept ==
    ~env.cut /\ ~env.orphaned => \A slot \in 1 .. Links :
        LET given  == FlattenSeq([n \in DOMAIN Told |-> Told[n].data])
            all    == given \o state.links[slot].message \o env.messages
            mine   == SelectSeq(all, LAMBDA m : m[1] = slot)
        IN  mine = [n \in 1 .. env.count[slot] |-> <<slot, n>>]

\* No link is handed out while the provider still has it up: not after a
\* close the provider has not acted on or was never told, not after one that
\* failed.  An open refused after it was staged is of no claimed link.
LinkIsOneLink ==
    ~env.orphaned => \A slot \in 1 .. Links : slot \in env.up => state.links[slot].live

===============================================================================
