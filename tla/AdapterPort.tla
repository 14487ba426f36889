---------------------------- MODULE AdapterPort -------------------------------
(***************************************************************************)
(* What every adapter behind the host router shares: a stream of calls, a  *)
(* buffer of completions staged for the reply port, and the helpers of     *)
(* modules/common/wire.rs that move them.  An adapter keeps its State in   *)
(* one record and is stepped by the loader; a step is one action.          *)
(*                                                                         *)
(* A call is one record here; how frames and payloads are cut on a stream  *)
(* is modelled in HostRouter.                                              *)
(***************************************************************************)
EXTENDS Integers, Sequences, FiniteSets, SequencesExt

CONSTANTS
    MaxCalls,     \* bound on the calls the program makes
    MaxQueue,     \* bound on the calls waiting in the stream
    StageCells,   \* cells of the staging buffer: one a frame, one a unit of payload
    PayloadCells, \* PAYLOAD_BYTES: the most a completion carries, in cells
    Quotas        \* what a deployment may set quota to; 0 is none

VARIABLES
    state,  \* the adapter's State
    calls,  \* calls written to the stream and not yet taken
    made,   \* the calls made so far, which number them
    hung,   \* the isolate's end of the stream has hung up
    sent,   \* the completions the reply port took, in order
    env     \* what the adapter reaches: a clock, a provider, a network

\* The part of State the helpers work on.
Staging == [staged |-> <<>>, written |-> 0, phase |-> 0]

\* The quota is spent: answered counts what an adapter's own rule counts.
Spent(s) == s.quota # 0 /\ s.answered >= s.quota

Completion(request, outcome, data) == [request |-> request, outcome |-> outcome, data |-> data]

Cells(replies) == FoldSeq(LAMBDA c, n : n + 1 + Len(c.data), 0, replies)

RoomForPayload(s, payload) == Cells(s.staged) + payload <= StageCells

\* Room for a frame and as much payload behind it.
Room(s, payload) == Cells(s.staged) + 1 + payload <= StageCells

\* A completion and its bytes are staged whole, or not at all.
Reply(s, completion) ==
    IF Cells(s.staged) + 1 + Len(completion.data) <= StageCells
    THEN [s EXCEPT !.staged = Append(@, completion)]
    ELSE s

\* push_staged: the port takes the next n; the buffer is empty again only
\* when it has taken everything.
PushStaged(s, n) ==
    IF s.written + n >= Len(s.staged)
    THEN [s EXCEPT !.staged = <<>>, !.written = 0]
    ELSE [s EXCEPT !.written = @ + n]

\* The end of a step: the port takes some of what is staged, and the adapter
\* looks whether it is finished.
Pushing(s, Finish(_)) ==
    \E n \in 0 .. Len(s.staged) - s.written :
        /\ state' = Finish(PushStaged(s, n))
        /\ sent' = sent \o SubSeq(s.staged, s.written + 1, s.written + n)

\* The program makes one of the calls of a set, through the router.
MakeCall(Asked) ==
    /\ ~hung /\ made < MaxCalls /\ Len(calls) < MaxQueue
    /\ \E call \in Asked : calls' = Append(calls, call @@ [request |-> made + 1])
    /\ made' = made + 1
    /\ UNCHANGED <<state, hung, sent, env>>

HangUp ==
    /\ ~hung
    /\ hung' = TRUE
    /\ UNCHANGED <<state, calls, made, sent, env>>

PortInit ==
    /\ calls = <<>> /\ made = 0 /\ hung = FALSE /\ sent = <<>>

pvars == <<state, calls, made, hung, sent, env>>

----------------------------------------------------------------------------

\* The completions so far, in order, taken by the port or staged for it, and
\* the calls they answer.
Told == sent \o SubSeq(state.staged, state.written + 1, Len(state.staged))
Answered == {c.request : c \in Range(Told)}

\* A call is answered once, whatever was held, retried or refused, and one
\* still held has no answer yet.
AnsweredOnce(held) ==
    /\ \A i, j \in DOMAIN Told : i # j => Told[i].request # Told[j].request
    /\ \A i \in DOMAIN Told : Told[i].request <= made
    /\ held \cap Answered = {}

\* No call is lost either: each is in the stream, held or answered.
Accounted(held) ==
    AnsweredOnce(held) /\ 1 .. made = Answered \cup held \cup {c.request : c \in Range(calls)}

\* Calls answered before the rest are refused: the first quota answers may be
\* of any kind, and every later one is a refusal, but those a rule exempts.
WithinQuota(Exempt(_)) ==
    state.quota # 0 =>
        \A n \in state.quota + 1 .. Len(Told) : Told[n].outcome = "Denied" \/ Exempt(Told[n])

===============================================================================
