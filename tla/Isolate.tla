-------------------------------- MODULE Isolate -------------------------------
(***************************************************************************)
(* The isolate module (modules/app/phasor_isolate/mod.rs): one task, from  *)
(* the image that arrives to the outcome that leaves.  module_step is one  *)
(* action per way it goes; the parts of advance are operators on the       *)
(* machine's state m, each giving the set of states it may leave, and the  *)
(* step takes them in the order the code does.                             *)
(*                                                                         *)
(* What the program does in a slice is any of what a program may do: make  *)
(* a call, queue a job, settle what the task's result waits on, end, throw *)
(* or exhaust a limit.                                                     *)
(***************************************************************************)
EXTENDS Integers, FiniteSets

CONSTANTS
    Sources,       \* where the image comes from: "stream", "copied", "mapped"
    ImageLengths,  \* lengths of the image, in cells of the stream
    ImageKinds,    \* what it is: "good", "ungranted", "refused", "unlinked"
    ImageCapacity, \* IMAGE_CAPACITY
    EmptyWait,     \* empty_wait: steps an empty hung-up stream is "not yet"
    BuildStages,   \* stages of the realm
    SeedWords,     \* words of the seed, or none for a task that draws none
    ModuleCount,   \* modules of the image
    PendingCount,  \* PENDING_COUNT: calls outstanding at once
    JobCount,      \* JOB_COUNT
    WireFrames,    \* call frames the port side stages
    CallWait,      \* call_wait: silent steps before calls are timed out
    Graphs,        \* the graphs the module may be part of
    Budgeted,      \* COLLECTION_BUDGET: a collection may span steps
    OutputCells,   \* cells of a result or a diagnostic, of which a port holds one
    MaxCalls,      \* bound on the calls the program makes
    MaxAnswers     \* bound on the completions that arrive

IsolateAssumption ==
    /\ Sources \subseteq {"stream", "copied", "mapped"}
    /\ ImageLengths \subseteq Nat /\ ImageCapacity \in Nat
    /\ {EmptyWait, BuildStages, SeedWords, JobCount, WireFrames, CallWait, MaxCalls,
        MaxAnswers} \subseteq Nat
    /\ {ModuleCount, PendingCount, OutputCells} \subseteq Nat \ {0}
    /\ Graphs \subseteq [surface : BOOLEAN, wired : BOOLEAN, diagnostic : BOOLEAN]
    /\ Budgeted \in BOOLEAN

Requests == 1 .. MaxCalls
Ports    == {"result", "diagnostic", "exit"}

Images == [source : Sources, total : ImageLengths, kind : ImageKinds,
           unsent : Nat, waiting : Nat, hung_up : BOOLEAN,
           length : Nat, overflowed : BOOLEAN, empty_waited : 0 .. EmptyWait]
Boots  == [built : 0 .. BuildStages, taken : 0 .. SeedWords, asked : BOOLEAN,
           done : BOOLEAN, answer : {"none", "word", "refused", "stray"}]
Machines ==
    [body : {"runs", "done"}, current : 1 .. ModuleCount,
     result : {"none", "waiting", "value", "rejected"}, jobs : 0 .. JobCount,
     pending : SUBSET Requests, outbox : SUBSET Requests, unwritten : SUBSET Requests,
     waited : 0 .. CallWait, collecting : BOOLEAN, made : 0 .. MaxCalls,
     progressed : BOOLEAN, outcome : {"Running", "Done", "Rejected", "Failed"},
     diagnostic : BOOLEAN, settled : [Requests -> Nat]]

VARIABLES
    graph,    \* whether the task is a host's event loop, and the call and the
              \* diagnostic ports are wired
    phase,    \* 0 staging, 1 advancing, 2 publishing, 3 done
    image,    \* what is staged of the image, and what its producer still has
    boot,     \* the realm's stages and the seed
    stop,     \* a cancel was asked for, or the deadline has passed
    m,        \* the task's machine, with the port side's frames and its history
    ready,    \* the completion that has arrived whole, if one has
    arrived,  \* completions that arrived so far
    ended,    \* how the task ended
    written,  \* cells of the outcome written, per port
    held      \* cells a port holds that its reader has not taken

ivars == <<graph, phase, image, boot, stop, m, ready, arrived, ended, written, held>>
output == <<written, held>>

TypeOK ==
    /\ graph \in Graphs /\ phase \in 0 .. 3
    /\ image \in Images /\ boot \in Boots /\ stop \in BOOLEAN
    /\ m \in Machines
    /\ Cardinality(m.pending) <= PendingCount /\ Cardinality(m.unwritten) <= WireFrames
    /\ ready \subseteq Requests /\ Cardinality(ready) <= 1 /\ arrived \in 0 .. MaxAnswers
    /\ ended \in [failed : BOOLEAN, rejected : BOOLEAN, diagnostic : BOOLEAN,
                  length : {0, OutputCells}]
    /\ written \in [Ports -> 0 .. OutputCells] /\ held \in [Ports -> 0 .. 1]

\* An image before its first cell; one that is copied shows its size at once.
Arriving(s, n, k, early) ==
    [source |-> s, total |-> n, kind |-> k,
     unsent |-> IF s = "stream" THEN n ELSE 0, waiting |-> 0, hung_up |-> early,
     length |-> IF s = "mapped" THEN n ELSE 0,
     overflowed |-> s = "copied" /\ n > ImageCapacity, empty_waited |-> 0]

Unbooted ==
    [built |-> 0, taken |-> 0, asked |-> FALSE, done |-> SeedWords = 0, answer |-> "none"]

NewMachine ==
    [body |-> "runs", current |-> 1, result |-> "none", jobs |-> 0,
     pending |-> {}, outbox |-> {}, unwritten |-> {}, waited |-> 0,
     collecting |-> FALSE, made |-> 0, progressed |-> FALSE, outcome |-> "Running",
     diagnostic |-> FALSE, settled |-> [q \in Requests |-> 0]]

Init ==
    /\ graph \in Graphs
    /\ phase = 0
    /\ \E s \in Sources, n \in ImageLengths, k \in ImageKinds, early \in BOOLEAN :
          /\ early => s = "stream"
          /\ image = Arriving(s, n, k, early)
    /\ boot = Unbooted
    /\ stop = FALSE
    /\ m = NewMachine
    /\ ready = {} /\ arrived = 0
    /\ ended = [failed |-> FALSE, rejected |-> FALSE, diagnostic |-> FALSE, length |-> 0]
    /\ written = [p \in Ports |-> 0] /\ held = [p \in Ports |-> 0]

Least(a, b) == IF a < b THEN a ELSE b

----------------------------------------------------------------------------
(* Phase 0: the image, the realm, the seed, the start.                     *)

\* The task is over before it began, with or without a reason.
Refuse(diagnostic) ==
    /\ phase' = 2
    /\ ended' = [ended EXCEPT !.failed = TRUE, !.diagnostic = diagnostic]
    /\ UNCHANGED <<image, stop, m, ready, arrived, output>>

\* stage_stream: what waits is read into the room that is left; with none left
\* it is discarded and the image is over its size.
ReadImage ==
    /\ phase = 0 /\ image.source = "stream" /\ image.waiting > 0
    /\ LET room == ImageCapacity - image.length
           n == Least(room, image.waiting)
       IN  image' = IF room = 0
                    THEN [image EXCEPT !.overflowed = TRUE, !.waiting = 0]
                    ELSE [image EXCEPT !.length = @ + n, !.waiting = @ - n]
    /\ UNCHANGED <<phase, boot, stop, m, ready, arrived, ended, output>>

\* load_program, copying a chunk a step; one that ends short is refused.
CopyProgram ==
    /\ phase = 0 /\ image.source = "copied" /\ ~image.overflowed
    /\ image.length < image.total
    /\ \/ /\ image' = [image EXCEPT !.length = @ + 1]
          /\ UNCHANGED <<phase, boot, stop, m, ready, arrived, ended, output>>
       \/ Refuse(TRUE) /\ UNCHANGED boot

\* Nothing waits and the producer hung up, or all of it is in hand.
ImageComplete ==
    CASE image.source = "stream"  -> image.waiting = 0 /\ image.hung_up
      [] image.source = "copied"  -> image.overflowed \/ image.length = image.total
      [] image.source = "mapped" -> TRUE

RefuseImage ==
    /\ phase = 0 /\ ImageComplete
    /\ image.overflowed \/ (image.kind = "ungranted" /\ image.length > 0)
    /\ Refuse(TRUE)
    /\ UNCHANGED boot

\* A hang-up on an empty stream may be one its producer has not written to.
WaitForImage ==
    /\ phase = 0 /\ ImageComplete /\ ~image.overflowed /\ image.length = 0
    /\ IF image.empty_waited < EmptyWait
       THEN /\ image' = [image EXCEPT !.empty_waited = @ + 1]
            /\ UNCHANGED phase
       ELSE /\ phase' = 2
            /\ UNCHANGED image
    /\ UNCHANGED <<boot, stop, m, ready, arrived, ended, output>>

StagedAnyhow ==
    /\ phase = 0 /\ ImageComplete /\ image.length > 0
    /\ image.kind # "ungranted"

Staged ==
    /\ phase = 0 /\ ImageComplete /\ ~image.overflowed /\ image.length > 0
    /\ image.kind # "ungranted"

BuildRealm ==
    /\ Staged /\ boot.built < BuildStages
    /\ \/ /\ boot' = [boot EXCEPT !.built = @ + 1]
          /\ UNCHANGED <<phase, image, stop, m, ready, arrived, ended, output>>
       \/ Refuse(FALSE) /\ UNCHANGED boot

\* draw_seed: one word asked for and awaited at a time; an answer to something
\* else is dropped.
DrawSeed ==
    /\ Staged /\ boot.built = BuildStages /\ ~boot.done /\ boot.taken < SeedWords
    /\ \/ /\ ~boot.asked
          /\ boot' = [boot EXCEPT !.asked = TRUE]
       \/ /\ boot.asked /\ boot.answer = "word"
          /\ boot' = [boot EXCEPT !.asked = FALSE, !.answer = "none", !.taken = @ + 1]
       \/ /\ boot.asked /\ boot.answer = "stray"
          /\ boot' = [boot EXCEPT !.answer = "none"]
    /\ UNCHANGED <<phase, image, stop, m, ready, arrived, ended, output>>

\* start, in the step the seed is complete or refused: admission, the imports
\* and the first module.  A script the verifier refuses leaves its report; any
\* other refusal leaves none.
Start ==
    /\ Staged /\ boot.built = BuildStages
    /\ \/ /\ boot.done \/ boot.taken = SeedWords
          /\ boot' = [boot EXCEPT !.done = TRUE]
       \/ /\ boot.asked /\ boot.answer = "refused"
          /\ boot' = [boot EXCEPT !.asked = FALSE, !.answer = "none", !.taken = 0,
                                  !.done = TRUE]
    /\ \/ /\ image.kind = "good"
          /\ phase' = 1
          /\ UNCHANGED <<image, stop, m, ready, arrived, ended, output>>
       \/ image.kind = "refused" /\ Refuse(TRUE)
       \/ image.kind = "unlinked" /\ Refuse(FALSE)

----------------------------------------------------------------------------
(* Phase 1: the parts of advance.                                          *)

End(s, outcome, diagnostic) == [s EXCEPT !.outcome = outcome, !.diagnostic = diagnostic]
Fail(s, diagnostic)         == End(s, "Failed", diagnostic)
Moved(s)                    == [s EXCEPT !.progressed = TRUE]

\* What a promise the result waits on may become when something settles.
Outcomes(result) == IF result = "waiting" THEN {"waiting", "value", "rejected"} ELSE {result}

SettleUnchecked(s, qs) ==
    {[s EXCEPT !.pending = @ \ qs,
               !.settled = [q \in Requests |-> @[q] + (IF q \in qs THEN 1 ELSE 0)]]}

\* A call that is answered: its promise settles, a reaction may be queued, and
\* the result may have been waiting on it.
Answered(s, hit, j, r) ==
    [s EXCEPT !.pending = @ \ hit, !.jobs = j, !.result = r,
              !.settled = [q \in Requests |-> @[q] + (IF q \in hit THEN 1 ELSE 0)]]

\* apply_completion: only for a call that is outstanding.
Settle(s, qs) ==
    LET hit == qs \cap s.pending
    IN  IF hit = {} THEN {s}
        ELSE {Answered(s, hit, j, r) :
                j \in s.jobs .. Least(JobCount, s.jobs + Cardinality(hit)), r \in Outcomes(s.result)}

ApplyCompletion(s, qs) == IF qs = {} THEN {s} ELSE {Moved(t) : t \in Settle(s, qs)}

\* A host call, under the next number.
Called(s) ==
    [s EXCEPT !.made = @ + 1, !.pending = @ \cup {s.made + 1}, !.outbox = @ \cup {s.made + 1}]
Makes(s) ==
    {s} \cup (IF s.made < MaxCalls /\ Cardinality(s.pending) < PendingCount THEN {Called(s)} ELSE {})

\* Program code: it may make a call, where there is room for one, and queue a
\* job.  Every call it makes is a safe point, where a stop that was asked for
\* ends it (check_control).
Effects(s) ==
    IF stop THEN {s}
    ELSE {[t EXCEPT !.jobs = j] : t \in Makes(s), j \in s.jobs .. Least(JobCount, s.jobs + 1)}

\* Whether a collection is left open at the end of the slice.
Pauses == {FALSE, Budgeted}

NextModule(s)     == [s EXCEPT !.current = @ + 1]
BodyDone(s, r)    == [s EXCEPT !.body = "done", !.result = r]
Collecting(s, c)  == [s EXCEPT !.collecting = c]

\* A module ends: the next one starts or cannot be, or the body is done.
ModuleEnds(s) ==
    IF s.current < ModuleCount
    THEN {NextModule(t) : t \in Effects(s)} \cup {Fail(s, s.diagnostic)}
    ELSE {BodyDone(t, r) : t \in Effects(s), r \in {"waiting", "value", "rejected"}}

\* Code that loops meets a safe point, so with a stop asked for it does not run on.
RunsOn(s) == IF stop THEN {} ELSE {Collecting(t, c) : t \in Effects(s), c \in Pauses}

\* A slice of the body: it stops, ends its module or runs on.
RunBody(s) ==
    IF s.body = "done" THEN {s}
    ELSE {Fail(Moved(s), TRUE)} \cup ModuleEnds(Moved(s)) \cup RunsOn(Moved(s))

\* The machine once some of the queue has run, which may have settled the result.
Ran(s, j, r, c) == [Moved(s) EXCEPT !.jobs = j, !.result = r, !.collecting = c]

\* It stops with a collection open only where jobs are left.
QueueRuns(s) ==
    {t \in UNION {Effects(Ran(s, j, r, c)) :
                     j \in 0 .. s.jobs - 1, r \in Outcomes(s.result), c \in Pauses} :
        t.collecting => t.jobs > 0}

\* run_jobs: some of the queue, unless a collection opens first or stays open.
RunJobs(s) ==
    IF s.outcome # "Running" \/ s.jobs = 0 THEN {s}
    ELSE {Fail(s, TRUE)} \cup {Collecting(s, c) : c \in Pauses \ {FALSE}} \cup QueueRuns(s)

\* With no call port the calls are answered as unavailable at once.
AnswerUnavailable(s) ==
    IF s.outcome # "Running" \/ graph.wired \/ s.outbox = {} THEN {s}
    ELSE {Moved(t) : t \in Settle([s EXCEPT !.outbox = {}], s.outbox)}

\* With one they are staged, all or none.
StageCalls(s) ==
    IF \/ s.outcome # "Running" \/ ~graph.wired \/ s.outbox = {}
       \/ Cardinality(s.unwritten) + Cardinality(s.outbox) > WireFrames
    THEN s
    ELSE Moved([s EXCEPT !.unwritten = @ \cup s.outbox, !.outbox = {}])

TimeOutForgets(s) ==
    IF s.outcome = "Running" /\ ~s.progressed /\ s.pending # {} /\ s.waited < CallWait
    THEN {[s EXCEPT !.waited = @ + 1]}
    ELSE {[s EXCEPT !.waited = 0]}

\* Silent steps with a call outstanding are counted, and after call_wait of
\* them every outstanding call is answered as timed out.
TimeOut(s) ==
    IF s.outcome = "Running" /\ ~s.progressed /\ s.pending # {}
    THEN IF s.waited < CallWait THEN {[s EXCEPT !.waited = @ + 1]}
         ELSE Settle([s EXCEPT !.waited = 0], s.pending)
    ELSE {IF s.progressed THEN [s EXCEPT !.waited = 0] ELSE s}

\* The task is finished when its body has run, nothing is queued, and its
\* result waits on nothing; rendering it may fail, which says nothing of why.
Finish(s) ==
    IF \/ s.outcome # "Running" \/ s.body # "done" \/ s.jobs > 0
       \/ (graph.surface /\ s.pending # {}) \/ s.result = "waiting"
    THEN {s}
    ELSE IF s.result = "value"
         THEN {End(s, "Done", s.diagnostic), Fail(s, s.diagnostic)}
         ELSE {End(s, "Rejected", TRUE), Fail(s, TRUE)}

\* push_calls before the machine runs, as far as the port takes frames.
Pushed(s, u) == [s EXCEPT !.unwritten = u, !.progressed = FALSE]
PushCalls(s) == {Pushed(s, u) : u \in {s.unwritten, {}}}

\* What the step leaves: phase 2 unless the task is still running.
Leave(s) ==
    /\ m' = s
    /\ phase' = IF s.outcome = "Running" THEN 1 ELSE 2
    /\ \E n \in {0, OutputCells} :
          ended' = IF s.outcome = "Running" THEN ended
                   ELSE [failed |-> s.outcome = "Failed", rejected |-> s.outcome = "Rejected",
                         diagnostic |-> s.diagnostic, length |-> n]

\* A collection the last step left open is carried on first, and nothing else
\* happens unless it finishes.
CollectStep ==
    /\ phase = 1 /\ m.collecting
    /\ UNCHANGED <<image, boot, stop, ready, arrived, output>>
    /\ \E s \in PushCalls(m) : Leave(s) \/ Leave(Fail(s, TRUE))

AdvanceStep ==
    /\ phase = 1
    /\ ready' = {}
    /\ UNCHANGED <<image, boot, stop, arrived, output>>
    /\ \E a \in PushCalls(Collecting(m, FALSE)) :
       \E b \in ApplyCompletion(a, ready) :
       \E c \in RunBody(b) :
       \E d \in RunJobs(c) :
       \E e \in AnswerUnavailable(d) :
       \E f \in TimeOut(StageCalls(e)) :
       \E g \in Finish(f) : Leave(g)

----------------------------------------------------------------------------
(* Phase 2: the outcome leaves.                                            *)

Length(port) ==
    CASE port = "result"     -> ended.length
      [] port = "diagnostic" -> IF ended.diagnostic THEN OutputCells ELSE 0
      [] port = "exit"       -> 1

\* push_progress and push_exit: what the port has room for, of what is left.
Push(o, port) ==
    LET n == Least(1 - o.held[port], Length(port) - o.written[port])
    IN  [written |-> [o.written EXCEPT ![port] = @ + n], held |-> [o.held EXCEPT ![port] = @ + n]]

Whole(o, port) == o.written[port] = Length(port)

\* A diagnostic nothing is wired for is not waited for.
PushDiagnostic(o) == IF graph.diagnostic THEN Push(o, "diagnostic") ELSE o

PublishedAnyhow(o) ==
    LET a == Push(o, "result")
        b == PushDiagnostic(a)
    IN  IF ~Whole(a, "result") THEN a
        ELSE IF ~Whole(b, "diagnostic") THEN b
        ELSE Push(b, "exit")

PublishedExitEarly(o) ==
    LET a == Push(o, "result")
        b == PushDiagnostic(a)
    IN  IF ~Whole(a, "result") THEN a ELSE Push(b, "exit")

\* The result, then the diagnostic where a port is wired for it, then the exit
\* status, each only once the one before it has left whole.
Published(o) ==
    LET a == Push(o, "result")
        b == PushDiagnostic(a)
    IN  IF ~Whole(a, "result") THEN a
        ELSE IF graph.diagnostic /\ ~Whole(b, "diagnostic") THEN b
        ELSE Push(b, "exit")

PublishStep ==
    /\ phase = 2
    /\ LET o == Published([written |-> written, held |-> held])
       IN  /\ written' = o.written
           /\ held' = o.held
           /\ phase' = IF Whole(o, "exit") THEN 3 ELSE 2
    /\ UNCHANGED <<image, boot, stop, m, ready, arrived, ended>>

\* A module that is done answers so for ever.
DoneStep == phase = 3 /\ UNCHANGED ivars

StagingStep ==
    \/ ReadImage \/ CopyProgram \/ RefuseImage \/ WaitForImage \/ BuildRealm
    \/ DrawSeed \/ Start

ModuleStep == StagingStep \/ CollectStep \/ AdvanceStep \/ PublishStep \/ DoneStep

----------------------------------------------------------------------------
(* Around the isolate: the image's producer, the control port and the      *)
(* loader, the adapters behind the call port, and the readers of its ports.*)

\* A producer that has not written yet may show as hung up; one that has
\* written hangs up when it is done.
ProducerWrites ==
    /\ image.source = "stream" /\ image.unsent > 0
    /\ \E n \in 1 .. image.unsent :
          image' = [image EXCEPT !.unsent = @ - n, !.waiting = @ + n, !.hung_up = FALSE]
    /\ UNCHANGED <<phase, boot, stop, m, ready, arrived, ended, output>>

ProducerHangsUp ==
    /\ image.source = "stream" /\ image.unsent = 0 /\ ~image.hung_up
    /\ image' = [image EXCEPT !.hung_up = TRUE]
    /\ UNCHANGED <<phase, boot, stop, m, ready, arrived, ended, output>>

SeedAnswered ==
    /\ boot.asked /\ boot.answer = "none"
    /\ \E a \in {"word", "refused", "stray"} : boot' = [boot EXCEPT !.answer = a]
    /\ UNCHANGED <<phase, image, stop, m, ready, arrived, ended, output>>

\* A cancel on the control port, or a deadline the reported time has reached.
Stopped ==
    /\ ~stop /\ phase < 3
    /\ stop' = TRUE
    /\ UNCHANGED <<phase, image, boot, m, ready, arrived, ended, output>>

\* module_drain: a cancel, and a task that has not started ends now.
Drain ==
    /\ ~stop \/ phase = 0
    /\ stop' = TRUE
    /\ IF phase = 0
       THEN /\ phase' = 2
            /\ ended' = [ended EXCEPT !.failed = TRUE, !.diagnostic = TRUE]
       ELSE UNCHANGED <<phase, ended>>
    /\ UNCHANGED <<image, boot, m, ready, arrived, output>>

\* A completion arrives: an answer in time, late, repeated, or to nothing asked.
CompletionArrives(q) ==
    /\ phase = 1 /\ graph.wired /\ ready = {} /\ arrived < MaxAnswers
    /\ ready' = {q} /\ arrived' = arrived + 1
    /\ UNCHANGED <<phase, image, boot, stop, m, ended, output>>

PortRead(p) ==
    /\ held[p] = 1
    /\ held' = [held EXCEPT ![p] = 0]
    /\ UNCHANGED <<phase, image, boot, stop, m, ready, arrived, ended, written>>

Next ==
    /\ \/ ModuleStep
       \/ ProducerWrites \/ ProducerHangsUp
       \/ SeedAnswered
       \/ Stopped \/ Drain
       \/ \E q \in Requests : CompletionArrives(q)
       \/ \E p \in Ports : PortRead(p)
    /\ UNCHANGED graph

\* The scheduler steps the module for ever, a collection has finitely many
\* slices, and the image's producer and the readers of its ports are modules it
\* steps as well.  Nothing is assumed of what answers its calls.
Fairness ==
    /\ WF_ivars((StagingStep \/ PublishStep) /\ UNCHANGED graph)
    /\ WF_ivars(AdvanceStep /\ UNCHANGED graph)
    /\ WF_ivars(ProducerWrites /\ UNCHANGED graph)
    /\ WF_ivars(ProducerHangsUp /\ UNCHANGED graph)
    /\ \A p \in Ports : WF_ivars(PortRead(p) /\ UNCHANGED graph)

Spec == Init /\ [][Next]_ivars /\ Fairness

----------------------------------------------------------------------------
\* A call's promise is settled at most once, and only for a call that was made:
\* a timeout and the answer that comes late, or an answer that comes twice,
\* never settle it again, and the tables of calls and jobs keep to their limits.
SettledOnce ==
    /\ TypeOK
    /\ \A q \in Requests : m.settled[q] + (IF q \in m.pending THEN 1 ELSE 0)
                              = IF q <= m.made THEN 1 ELSE 0

\* What runs is the whole image: one cell over the buffer, a stream that showed
\* as hung up before its first byte and a program section that ended short are
\* never run as the prefix that was staged.
WholeImageRuns == phase = 1 => image.length = image.total /\ image.kind = "good"

\* Staging comes to an end: the image runs or is refused, an empty one and one
\* over its size too, unless a word of the seed is awaited.
StagingEnds == phase = 0 ~> phase # 0 \/ boot.asked

\* The exit status is the last thing said: a reader that sees it has the whole
\* result and, where it is wired, the whole diagnostic.
ExitIsLast ==
    written["exit"] = 1 =>
        /\ written["result"] = Length("result")
        /\ graph.diagnostic => written["diagnostic"] = Length("diagnostic")

\* A task with a call outstanding moves or times it out, whatever the adapters
\* do: no step sequence is silent for ever.
SilentCallsEnd ==
    phase = 1 /\ m.pending # {} ~> m.pending = {} \/ m.progressed \/ phase # 1

\* An outcome that is reached is published and the module is done.
OutcomePublished == phase = 2 ~> phase = 3

\* Neither phase that waits on others holds the task for ever.
PhasesEnd == StagingEnds /\ OutcomePublished

\* "Asked to drain ... the task ends as a cancel ends it: at the machine's next
\* safe point, with its outcome sent, and the step after that answers Done".
StopEnds == stop ~> phase = 3
============================================================================
