--------------------------- MODULE SampleAdapters -----------------------------
(***************************************************************************)
(* modules/app/phasor_time: a call for the time is answered from a sample, *)
(* a sleep is held in a table until the clock passes the reading it is due *)
(* at.  With the table full a sleep is answered at once, as a call for the *)
(* time is.                                                                *)
(*                                                                         *)
(* modules/app/phasor_entropy: each call is answered with a seed, until a  *)
(* quota of calls is spent.  A source that fails spends the quota too, and *)
(* is told apart from a seed.                                              *)
(***************************************************************************)
EXTENDS AdapterPort

CONSTANTS
    Sleepers,     \* SLEEPERS: calls held at once
    Delays,       \* the delays a program asks for
    WaitCeiling,  \* WAIT_CEILING: the longest a call is held
    MaxClock      \* bound on the monotonic clock

----------------------------------------------------------------------------
(* phasor_time.                                                            *)

Awake == [live |-> FALSE, request |-> 0, due |-> 0]

\* env: the clock, and for each sleep the earliest reading it may end at.
TimeInit ==
    /\ PortInit
    /\ \E quota \in Quotas :
          state = Staging @@ [quota |-> quota, answered |-> 0, hung_up |-> FALSE,
                              sleepers |-> [i \in 1 .. Sleepers |-> Awake]]
    /\ env = [clock |-> 0, earliest |-> <<>>, crowded |-> {}]

Ceiling(delay) == IF delay < WaitCeiling THEN delay ELSE WaitCeiling

FreeSlots(s) == {i \in 1 .. Sleepers : ~s.sleepers[i].live}
FirstOf(slots) == CHOOSE i \in slots : \A j \in slots : i <= j

Hold(s, call) ==
    [s EXCEPT !.sleepers[FirstOf(FreeSlots(s))] =
        [live |-> TRUE, request |-> call.request, due |-> env.clock + Ceiling(call.delay)]]

\* Answered now, from a sample or with a refusal.
Answer(s, call) ==
    [Reply(s, Completion(call.request, IF Spent(s) THEN "Denied" ELSE "fulfilled", <<>>)
                  @@ [value |-> env.clock, slept |-> FALSE])
        EXCEPT !.answered = @ + 1]

Held(s, call) == call.method = "sleep" /\ call.delay > 0 /\ FreeSlots(s) # {}

TakesCall == calls # <<>> /\ Room(state, 0)

AfterCall ==
    IF ~TakesCall THEN state
    ELSE IF Held(state, Head(calls)) THEN Hold(state, Head(calls))
    ELSE Answer(state, Head(calls))

IsDue(s, i) == s.sleepers[i].live /\ env.clock >= s.sleepers[i].due /\ Room(s, 0)

\* The due ones are answered in the order of their slots, while there is room.
Wake(s) ==
    FoldLeft(LAMBDA t, i :
                IF IsDue(t, i)
                THEN [Reply(t, Completion(t.sleepers[i].request, "fulfilled", <<>>)
                                   @@ [value |-> env.clock, slept |-> TRUE])
                        EXCEPT !.sleepers[i] = Awake, !.answered = @ + 1]
                ELSE t,
             s, [i \in 1 .. Sleepers |-> i])

\* A hang-up is noticed once nobody sleeps, and ends the adapter once
\* everything staged is gone.
Finish(s) ==
    LET up == s.hung_up \/ (hung /\ \A i \in 1 .. Sleepers : ~s.sleepers[i].live)
    IN  [s EXCEPT !.hung_up = up, !.phase = IF up /\ s.staged = <<>> THEN 1 ELSE @]

TimeStep ==
    /\ state.phase = 0
    /\ Pushing(Wake(AfterCall), Finish)
    /\ calls' = IF TakesCall THEN Tail(calls) ELSE calls
    /\ env' = IF TakesCall /\ Head(calls).method = "sleep" /\ FreeSlots(state) = {}
              THEN [env EXCEPT !.crowded = @ \cup {Head(calls).request}] ELSE env
    /\ UNCHANGED <<made, hung>>

\* The program asks for the time or for a sleep that ends within the bound.
TimeCall ==
    /\ ~hung /\ made < MaxCalls /\ Len(calls) < MaxQueue
    /\ \E method \in {"now", "sleep"}, delay \in Delays :
          /\ method = "now" => delay = 0
          /\ env.clock + Ceiling(delay) <= MaxClock
          /\ calls' = Append(calls, [request |-> made + 1, method |-> method, delay |-> delay])
          /\ env' = [env EXCEPT !.earliest = Append(@, env.clock + Ceiling(delay))]
    /\ made' = made + 1
    /\ UNCHANGED <<state, hung, sent>>

Tick ==
    /\ env.clock < MaxClock
    /\ env' = [env EXCEPT !.clock = @ + 1]
    /\ UNCHANGED <<state, calls, made, hung, sent>>

TimeNext == TimeStep \/ TimeCall \/ Tick \/ HangUp

----------------------------------------------------------------------------

Asleep == {state.sleepers[i].request : i \in {j \in 1 .. Sleepers : state.sleepers[j].live}}

\* No sleep ends before its delay has passed, counted from when the program
\* asked: not one that waited in the stream, not one whose slot another had.
\* Only a sleep that found the table full is answered early.
NoEarlyWake ==
    \A c \in Range(sent) \cup Range(state.staged) :
        c.value >= env.earliest[c.request] \/ c.request \in env.crowded \/ c.outcome = "Denied"

\* The adapter does not end under a sleep it holds: a program that hangs up
\* while it sleeps is still answered.
EndsWithNobodyAsleep == state.phase = 1 => Asleep = {}

\* Past the quota no call has a reading of the clock, but a sleep that was
\* held: one is held, and woken, whatever the quota says.
TimeWithinQuota == WithinQuota(LAMBDA c : c.slept)

----------------------------------------------------------------------------
(* phasor_entropy.                                                         *)

\* env: the seeds the source gave, in order, and the calls it failed.
EntropyInit ==
    /\ PortInit
    /\ \E quota \in Quotas : state = Staging @@ [quota |-> quota, answered |-> 0, hung_up |-> FALSE]
    /\ env = [seeds |-> 0, failed |-> {}]

EntropyAnswer(s, request, filled) ==
    CASE Spent(s) -> Completion(request, "Denied", <<>>) @@ [seed |-> 0]
      [] ~Spent(s) /\ ~filled -> Completion(request, "Unavailable", <<>>) @@ [seed |-> 0]
      [] OTHER -> Completion(request, "fulfilled", <<>>) @@ [seed |-> env.seeds + 1]

EntropyTakes == calls # <<>> /\ Room(state, 0)

FinishEntropy(s) ==
    LET up == s.hung_up \/ hung
    IN  [s EXCEPT !.hung_up = up, !.phase = IF up /\ s.staged = <<>> THEN 1 ELSE @]

EntropyStep ==
    /\ state.phase = 0
    /\ \E filled \in BOOLEAN :
          LET reply == EntropyAnswer(state, Head(calls).request, filled)
              s == IF EntropyTakes THEN [Reply(state, reply) EXCEPT !.answered = @ + 1] ELSE state
          IN  /\ Pushing(s, FinishEntropy)
              /\ env' = IF EntropyTakes /\ ~Spent(state)
                        THEN IF filled THEN [env EXCEPT !.seeds = @ + 1]
                             ELSE [env EXCEPT !.failed = @ \cup {Head(calls).request}]
                        ELSE env
    /\ calls' = IF EntropyTakes THEN Tail(calls) ELSE calls
    /\ UNCHANGED <<made, hung>>

EntropyNext == EntropyStep \/ MakeCall([method : {"seed"}]) \/ HangUp

----------------------------------------------------------------------------

\* A program draws no more than its quota: the first calls have a seed each,
\* no two the same one, a failed one counts, and every later one is refused.
QuotaIsSpentOnce ==
    \A n \in DOMAIN Told :
        LET c == Told[n]
        IN  /\ c.outcome = "Denied" <=> state.quota # 0 /\ n > state.quota
            /\ c.outcome = "Unavailable" <=> c.request \in env.failed
            /\ \A k \in 1 .. n - 1 : c.seed = 0 \/ Told[k].seed # c.seed

===============================================================================
