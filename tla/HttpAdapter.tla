----------------------------- MODULE HttpAdapter ------------------------------
(***************************************************************************)
(* modules/app/phasor_http: one exchange at a time with a provider that    *)
(* sends no more of a body than it was given credit for.  The handle a     *)
(* send answers with is always the same; status, headers and read are held *)
(* until the response can answer them.  A response closed before its end   *)
(* is aborted, and the policy that admits an authority only narrows.       *)
(*                                                                         *)
(* A byte is the exchange it belongs to and its place in the body; the     *)
(* provider (env) is external.                                             *)
(***************************************************************************)
EXTENDS AdapterPort

CONSTANTS
    HttpPending,  \* PENDING: calls held at once
    BodyCells,    \* BODY_BYTES: the credit a request opens with
    MaxBody,      \* bound on the bytes of a body
    Authorities   \* what a request or a policy may name

NoResponse == [live |-> FALSE, head |-> FALSE, status |-> FALSE, body |-> <<>>,
               complete |-> FALSE, aborted |-> FALSE]
Unheld == [live |-> FALSE, request |-> 0, method |-> "none", id |-> 0]
NoRecord == [kind |-> "none", id |-> 0, credit |-> 0]
\* An empty list is no policy; one of nothing but an empty entry admits none.
NoPolicy == [policy |-> FALSE, admits |-> {}]

\* env: the records on their way to the provider and back; the exchange the provider
\* performs, its credit and the bytes it sent; and what went wrong: a request
\* while it was performing another, a body past the buffer, a close under a
\* held call.
HttpInit ==
    /\ PortInit
    /\ \E origins \in {NoPolicy} \cup [policy : {TRUE}, admits : SUBSET Authorities \ {{}}], quota \in Quotas :
          state = Staging @@ [quota |-> quota, answered |-> 0, response |-> NoResponse, held |-> [i \in 1 .. HttpPending |-> Unheld],
                              outbound |-> FALSE, control |-> NoRecord, credit_owed |-> 0,
                              abort_owed |-> 0, corr |-> 0, origins |-> origins]
    /\ env = [inbox |-> <<>>, lane |-> <<>>, performing |-> 0, headed |-> FALSE, credit |-> 0, bytes |-> <<>>, whole |-> {},
              doubled |-> FALSE, overrun |-> FALSE, stranded |-> FALSE]

HttpReply(v, request, outcome, data, id) ==
    [v EXCEPT !.s = Reply(@, Completion(request, outcome, data) @@ [id |-> id])]

Granted(origins, authority) == ~origins.policy \/ authority \in origins.admits

----------------------------------------------------------------------------
(* Calls that wait on the response.                                        *)

\* status and headers wait for the head, read for bytes or the end.
CanServe(s, i) ==
    LET r == s.response
    IN  /\ s.held[i].live /\ Room(s, PayloadCells)
        /\ IF s.held[i].method = "read" THEN r.body # <<>> \/ r.aborted \/ r.complete ELSE r.head

ReadAnswer(r) == IF r.body = <<>> /\ r.aborted THEN "failed" ELSE "read"

Portion(body) == SubSeq(body, 1, IF Len(body) < PayloadCells THEN Len(body) ELSE PayloadCells)

\* Room a read makes is credit owed, while more may come.
Owed(r, taken) == IF r.complete THEN 0 ELSE Len(taken)

ServeHeld(v) ==
    FoldLeft(LAMBDA w, i :
        IF ~CanServe(w.s, i) THEN w
        ELSE LET h     == w.s.held[i]
                 r     == w.s.response
                 taken == IF h.method = "read" THEN Portion(r.body) ELSE <<>>
             IN  HttpReply([w EXCEPT !.s.held[i] = Unheld,
                                     !.s.response.body = SubSeq(@, Len(taken) + 1, Len(@)),
                                     !.s.credit_owed = @ + Owed(r, taken)],
                           h.request,
                           IF h.method = "read" THEN ReadAnswer(r)
                           ELSE IF r.status THEN "fulfilled" ELSE "failed",
                           taken, h.id),
             v, [i \in 1 .. HttpPending |-> i])

----------------------------------------------------------------------------
(* Calls.                                                                  *)

\* narrow: what both lists admit; with no policy before, what the new one
\* does.  A list that names something and admits nothing is a policy.
Narrowed(origins, list) ==
    LET admits == IF origins.policy THEN list \cap origins.admits ELSE list
    IN  IF list = {} THEN NoPolicy ELSE [policy |-> TRUE, admits |-> admits]

Narrow(v, call) ==
    HttpReply([v EXCEPT !.s.origins = Narrowed(@, call.list)], call.request, "fulfilled", <<>>, 0)

Free(s) ==
    ~s.response.live /\ ~s.outbound /\ s.control.kind = "none" /\ s.abort_owed = 0

\* send: one request in flight at a time, and no more than the quota admits;
\* its head is held for the port and the handle answered at once.
SendRequest(v, call) ==
    CASE Spent(v.s) -> HttpReply(v, call.request, "Denied", <<>>, 0)
      [] ~Spent(v.s) /\ ~Free(v.s) -> HttpReply(v, call.request, "Busy", <<>>, 0)
      [] ~Spent(v.s) /\ Free(v.s) /\ ~Granted(v.s.origins, call.authority) ->
            HttpReply(v, call.request, "Denied", <<>>, 0)
      [] OTHER ->
            HttpReply([v EXCEPT !.s.corr = @ + 1, !.s.outbound = TRUE, !.s.credit_owed = 0,
                                !.s.answered = @ + 1,
                                !.s.response = [NoResponse EXCEPT !.live = TRUE],
                                !.e.bytes = Append(@, 0)],
                      call.request, "fulfilled", <<>>, v.s.corr + 1)

\* close: a request that never left is forgotten, one still answering is
\* aborted.
CloseResponse(v, call) ==
    LET r == v.s.response
    IN  HttpReply([v EXCEPT !.s.outbound = FALSE,
                            !.s.abort_owed = IF ~v.s.outbound /\ ~r.complete /\ ~r.aborted
                                             THEN v.s.corr ELSE @,
                            !.s.credit_owed = 0, !.s.response = NoResponse,
                            !.e.stranded = @ \/ \E i \in 1 .. HttpPending : v.s.held[i].live],
                  call.request, "fulfilled", <<>>, 0)

HoldCall(v, call) ==
    LET free == {i \in 1 .. HttpPending : ~v.s.held[i].live}
    IN  IF free = {} THEN HttpReply(v, call.request, "Busy", <<>>, 0)
        ELSE ServeHeld([v EXCEPT !.s.held[CHOOSE i \in free : \A j \in free : i <= j] =
                [live |-> TRUE, request |-> call.request, method |-> call.method, id |-> v.s.corr]])

HttpServe(v, call) ==
    CASE call.method = "narrow" -> Narrow(v, call)
      [] call.method = "origins" -> HttpReply(v, call.request, "fulfilled", <<>>, 0)
      [] call.method = "send"   -> SendRequest(v, call)
      [] ~v.s.response.live     -> HttpReply(v, call.request, "Malformed", <<>>, 0)
      [] call.method = "close"  -> CloseResponse(v, call)
      [] OTHER                  -> HoldCall(v, call)

----------------------------------------------------------------------------
(* Records from the provider.                                              *)

GiveUp(v) == [v EXCEPT !.s.response.head = TRUE, !.s.response.aborted = TRUE, !.s.credit_owed = 0]

\* Bytes past the buffer break the exchange.
TakeBody(v, bytes, more) ==
    IF Len(v.s.response.body) + Len(bytes) > BodyCells
    THEN [GiveUp(v) EXCEPT !.s.abort_owed = v.s.corr, !.e.overrun = TRUE]
    ELSE [v EXCEPT !.s.response.body = @ \o bytes, !.s.response.complete = @ \/ ~more]

\* A record for another exchange, or for one that is over, is a tail.
Applies(s, record) ==
    /\ s.response.live /\ ~s.response.complete /\ ~s.response.aborted
    /\ record.id = s.corr

ApplyRecord(v, record) ==
    CASE ~Applies(v.s, record) -> v
      [] record.kind = "raised" ->
            [GiveUp(v) EXCEPT !.s.abort_owed = IF record.more THEN v.s.corr ELSE @]
      [] record.kind = "head" /\ ~v.s.response.head ->
            TakeBody([v EXCEPT !.s.response.head = TRUE, !.s.response.status = TRUE],
                     record.data, record.more)
      [] record.kind = "body" /\ v.s.response.head -> TakeBody(v, record.data, record.more)
      [] record.kind = "abort" -> GiveUp(v)
      [] OTHER -> v

----------------------------------------------------------------------------
(* The step, and what it places on the provider's port.                    *)

\* The provider reads a request, a credit or an abort.
ProviderTakes(e, record) ==
    CASE record.kind = "head" ->
            [e EXCEPT !.doubled = @ \/ e.performing # 0, !.performing = record.id,
                      !.headed = FALSE, !.credit = BodyCells]
      [] record.kind = "credit" /\ record.id = e.performing -> [e EXCEPT !.credit = @ + record.credit]
      [] record.kind = "abort" /\ record.id = e.performing -> [e EXCEPT !.performing = 0]
      [] OTHER -> e

\* The control record owed next: an abort before credit.
NextControl(s) ==
    CASE s.abort_owed # 0 -> [kind |-> "abort", id |-> s.abort_owed, credit |-> 0]
      [] s.abort_owed = 0 /\ s.credit_owed > 0 /\ s.response.live ->
            [kind |-> "credit", id |-> s.corr, credit |-> s.credit_owed]
      [] OTHER -> NoRecord

Owing(s) ==
    CASE s.abort_owed # 0 -> [s EXCEPT !.control = NextControl(s), !.abort_owed = 0]
      [] NextControl(s).kind = "credit" -> [s EXCEPT !.control = NextControl(s), !.credit_owed = 0]
      [] OTHER -> s

Places(s) == s.outbound \/ s.control.kind # "none" \/ NextControl(s).kind # "none"

\* The head first, then the control record held, then the one owed: each is
\* placed or stays, and nothing passes one that stays.
Flush(v, head, held, owed) ==
    LET a == IF v.s.outbound /\ head
             THEN [v EXCEPT !.s.outbound = FALSE,
                            !.e.inbox = Append(@, [kind |-> "head", id |-> v.s.corr, credit |-> BodyCells])] ELSE v
        b == IF ~a.s.outbound /\ a.s.control.kind # "none" /\ held
             THEN [a EXCEPT !.s.control = NoRecord, !.e.inbox = Append(@, a.s.control)] ELSE a
        c == IF ~b.s.outbound /\ b.s.control.kind = "none" THEN [b EXCEPT !.s = Owing(@)] ELSE b
    IN  IF c.s.control # b.s.control /\ owed
        THEN [c EXCEPT !.s.control = NoRecord, !.e.inbox = Append(@, c.s.control)] ELSE c

HttpTakes(s) == calls # <<>> /\ Room(s, PayloadCells)
NeverFinishes(s) == s

\* The provider takes the head and the record behind it, the head alone, or
\* nothing.
Sends(v) ==
    \E takes \in IF Places(v.s) THEN {<<TRUE, TRUE>>, <<TRUE, FALSE>>, <<FALSE, FALSE>>}
                ELSE {<<TRUE, TRUE>>} :
        LET placed == Flush(v, takes[1], takes[1], takes[2])
        IN  Pushing(placed.s, NeverFinishes) /\ env' = placed.e

TakeCall(v) ==
    /\ Sends(IF HttpTakes(v.s) THEN HttpServe(v, Head(calls)) ELSE v)
    /\ calls' = IF HttpTakes(v.s) THEN Tail(calls) ELSE calls

HttpStep ==
    /\ TakeCall(ServeHeld(FoldLeft(ApplyRecord, [s |-> state, e |-> [env EXCEPT !.lane = <<>>]], env.lane)))
    /\ UNCHANGED <<made, hung>>

HttpCalls ==
    [method : {"status", "read", "close", "origins"}]
    \cup [method : {"send"}, authority : Authorities]
    \cup [method : {"narrow"}, list : SUBSET Authorities]

----------------------------------------------------------------------------
(* The provider: a head, or a failure it raised; bodies within its credit;  *)
(* an end, or an abort of its own.                                         *)

Record(kind, data, more) == [kind |-> kind, id |-> env.performing, data |-> data, more |-> more]

ProviderSends ==
    /\ env.performing # 0
    /\ \E kind \in {"head", "body", "raised", "abort"}, n \in 0 .. 1, more \in BOOLEAN :
          LET x    == env.performing
              data == IF n = 1 THEN <<<<x, env.bytes[x] + 1>>>> ELSE <<>>
          IN  /\ kind \in {"raised", "abort"} => n = 0
              /\ kind = "abort" => ~more
              /\ kind = "body" => n = 1 /\ env.headed
              /\ kind \in {"head", "raised"} => ~env.headed
              /\ n <= env.credit /\ env.bytes[x] + n <= MaxBody /\ Len(env.lane) < 2
              /\ env' = [env EXCEPT !.lane = Append(@, Record(kind, data, more)),
                                    !.bytes[x] = @ + n, !.credit = @ - n, !.headed = TRUE,
                                    !.whole = IF kind \in {"head", "body"} /\ ~more THEN @ \cup {x} ELSE @,
                                    !.performing = IF more THEN @ ELSE 0]
    /\ UNCHANGED <<state, calls, made, hung, sent>>

ProviderReads ==
    /\ env.inbox # <<>>
    /\ env' = ProviderTakes([env EXCEPT !.inbox = Tail(@)], Head(env.inbox))
    /\ UNCHANGED <<state, calls, made, hung, sent>>

HttpNext == HttpStep \/ MakeCall(HttpCalls) \/ HangUp \/ ProviderReads \/ ProviderSends

----------------------------------------------------------------------------

\* Credit is never more than there is room for: what is buffered, on the way,
\* owed and still with the provider is what the request opened with, so a
\* provider that keeps to its credit never overruns the buffer.
CreditCovers ==
    LET r == state.response
        coming == SelectSeq(env.lane, LAMBDA record : record.id = state.corr)
        onTheWay == Len(FlattenSeq([n \in DOMAIN coming |-> coming[n].data]))
        granting == FoldSeq(LAMBDA record, n :
                                IF record.id = state.corr THEN n + record.credit ELSE n,
                            0, Append(env.inbox, state.control))
    IN  /\ ~env.overrun
        /\ r.live /\ ~r.complete /\ ~r.aborted /\ env.performing = state.corr /\ ~state.outbound
           => Len(r.body) + onTheWay + state.credit_owed + granting + env.credit = BodyCells

\* The provider is not given a request while it performs another: one that a
\* program closed early was aborted before the next head.
OneExchange == ~env.doubled

\* What is buffered is of the exchange in flight, not the tail of one closed
\* before it, and a read has bytes of the response its call was made on, in
\* order and none left out, unless that response was closed under a held call.
OwnBodyRead ==
    /\ \A i \in DOMAIN state.response.body : state.response.body[i][1] = state.corr
    /\ ~env.stranded =>
        \A x \in DOMAIN env.bytes :
            LET mine == SelectSeq(Told, LAMBDA c : c.id = x)
                all  == FlattenSeq([n \in DOMAIN mine |-> mine[n].data])
            IN  all = [n \in 1 .. Len(all) |-> <<x, n>>]

\* A read that is answered with nothing tells the reader it has the body, and
\* then it does: the provider sent the last of it and all was handed over.
EmptyMeansWhole ==
    ~env.stranded =>
        \A n \in DOMAIN Told :
            LET c == Told[n]
                before == SelectSeq(SubSeq(Told, 1, n), LAMBDA d : d.id = c.id /\ d.data # <<>>)
            IN  c.outcome = "read" /\ c.data = <<>> =>
                    c.id \in env.whole /\ Len(before) = env.bytes[c.id]

\* The provider is given no more requests than the quota admits; one that was
\* refused for another reason is not counted.
RequestsWithinQuota == state.quota # 0 => Len(env.bytes) <= state.quota

===============================================================================
