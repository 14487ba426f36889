------------------------------- MODULE Shell ----------------------------------
(***************************************************************************)
(* The shell (modules/app/phasor_shell/mod.rs): one session over one realm *)
(* that reads its command line, draws a seed, runs the standard surface,   *)
(* and then runs a script, a source given, or lines as they are typed.     *)
(*                                                                         *)
(* Step is the whole of module_step.  The interpreter is what one slice of *)
(* it may do (Slice), text is the item it is a part of, and a command line *)
(* is a sequence of words.  Grants are kinds; the answer to a clock        *)
(* request is the time at which it was given.                              *)
(***************************************************************************)
EXTENDS Naturals, Sequences, FiniteSets, SequencesExt

CONSTANTS
    None,           \* a model value: nothing
    Sessions,       \* a command line, the keys typed, the surface the graph wires, and
                    \* the calls, prints and slices of a body that bound a behaviour
    Wired,          \* the kinds a session is granted
    SeedWords,      \* words of a whole seed (8)
    CallWait,       \* CALL_WAIT: idle steps before calls are timed out
    ArgvWait,       \* ARGV_WAIT: steps to wait for the command line
    OutCells,       \* items standard output has room for
    WireCells,      \* calls one wire has room for
    MaxBindings,    \* MAX_BINDINGS
    MaxUnits,       \* MAX_UNITS
    MaxNow          \* the last time a clock shows

VARIABLES
    s,     \* the module's State
    m,     \* the machine it brings up
    env    \* standard input and output, the providers, the time

shvars == <<s, m, env>>

Own == 0            \* u64::MAX: the shell's own request
Kinds == {"clock", "entropy", "store", "fs", "net", "http", "ws"}
Narrowed == {"http", "ws", "net"}
\* The members of each interface: the names in the usage text.
Members(kind) == CASE kind = "clock" -> 2 [] kind = "entropy" -> 1
                   [] kind \in {"net", "ws"} -> 5 [] OTHER -> 6

EmptyWire == [staged |-> <<>>, ready |-> None, own |-> None]

ShellInit ==
    /\ s = [phase |-> "args", waited |-> 0, mode |-> "script", bare |-> FALSE,
            grants |-> <<>>, origins |-> None, sent |-> FALSE,
            wires |-> [k \in Wired |-> EmptyWire],
            facadeDone |-> FALSE, runningFacade |-> FALSE, surfaceReady |-> FALSE,
            seedTaken |-> 0, seedAsked |-> FALSE, seedDone |-> FALSE,
            snapReady |-> FALSE, snapAsked |-> FALSE, snapValue |-> None, taskClock |-> None,
            line |-> 0, source |-> 0, complete |-> FALSE, closed |-> FALSE,
            promptDue |-> FALSE, continuing |-> FALSE,
            out |-> <<>>, units |-> 0, realm |-> FALSE,
            running |-> FALSE, starting |-> FALSE, bodyDone |-> FALSE,
            result |-> None, callWaited |-> 0, failed |-> FALSE]
    /\ m = [next |-> 1, calls |-> <<>>, live |-> {}, printed |-> <<>>,
            slices |-> 0, jobs |-> FALSE, seeded |-> FALSE, said |-> 0, now |-> None]
    /\ \E session \in Sessions :
          env = [bound |-> session, beat |-> FALSE, argv |-> session.argv, keys |-> session.keys, surface |-> session.surface,
                 hungUp |-> FALSE, now |-> 0, asked |-> [k \in Wired |-> <<>>],
                 replies |-> [k \in Wired |-> <<>>], narrowedBy |-> [k \in Wired |-> None],
                 stdout |-> <<>>, last |-> None, exit |-> None,
                 ends |-> [facades |-> 0, inputs |-> FALSE, how |-> "done"], denied |-> FALSE]

----------------------------------------------------------------------------
(* Output: a text leaves whole or not at all.                              *)

emit(v, item) == IF Len(v.s.out) < OutCells
                 THEN [v EXCEPT !.s.out = Append(@, [text |-> item, n |-> 0])] ELSE v

\* Standard output takes everything or nothing this step.
flush_out(v, takes) == IF ~takes THEN v
                       ELSE IF v.s.out = <<>> THEN v
                       ELSE [v EXCEPT !.s.out = <<>>, !.env.last = Last(v.s.out).text,
                                      !.env.stdout = @ \o SelectSeq(v.s.out, LAMBDA t : t.n > 0)]

Refuse(v) == [emit(v, "refusal") EXCEPT !.s.failed = TRUE, !.s.phase = "finish"]

----------------------------------------------------------------------------
(* The command line.                                                       *)

\* One --grant word: the kind, and the origins it is qualified with.  There
\* is one list of origins, whatever grant it came with.
Grant(v, word) ==
    IF \/ word.kind \notin Kinds
       \/ word.tail /\ word.kind \notin Narrowed
    THEN Refuse(v)
    ELSE [v EXCEPT
            !.s.origins = IF word.tail THEN word.kind ELSE @,
            !.s.grants = IF Contains(@, word.kind) THEN @ ELSE Append(@, word.kind)]

read_word(v, word) ==
    IF v.s.phase # "args" THEN v
    ELSE CASE word.is = "help"  -> [emit(v, "help") EXCEPT !.s.phase = "finish"]
           [] word.is = "repl"  -> [v EXCEPT !.s.mode = "repl"]
           [] word.is = "bare"  -> [v EXCEPT !.s.bare = TRUE]
           [] word.is = "eval"  -> [v EXCEPT !.s.mode = "eval", !.s.complete = TRUE]
           [] word.is = "grant" -> Grant(v, word)
           [] OTHER             -> Refuse(v)

read_argv(v) == FoldLeft(read_word, v, v.env.argv)

\* The step that reads the command line, or gives up waiting for one.
Arguments(v, arrives) ==
    IF ~arrives /\ v.s.waited + 1 < ArgvWait
    THEN [v EXCEPT !.s.waited = @ + 1]
    ELSE LET r == IF arrives THEN read_argv(v) ELSE v
         IN  IF r.s.phase # "args" THEN r
             ELSE [(IF r.s.grants = <<>> THEN r ELSE emit(r, "granted"))
                     EXCEPT !.s.phase = "run", !.s.promptDue = r.s.mode = "repl"]

----------------------------------------------------------------------------
(* The ports: a wire carries the program's calls and the shell's own.      *)

Held(v, kind) == Contains(v.s.grants, kind)
Staged(v, kind) == Len(v.s.wires[kind].staged)

\* The narrowing goes once to every adapter that reaches an authority.
push_grant_narrowing(v) ==
    IF v.s.sent \/ v.s.origins = None THEN v
    ELSE [v EXCEPT !.s.sent = TRUE,
                   !.env.narrowedBy = [k \in Wired |-> IF Held(v, k) /\ k \in Narrowed
                                                        THEN v.s.origins ELSE @[k]]]

\* Mutant: the narrowing is left for the next step.
push_calls_unnarrowed(v) ==
    push_grant_narrowing([v EXCEPT !.env.asked = [k \in Wired |-> @[k] \o v.s.wires[k].staged],
                                   !.s.wires = [k \in Wired |-> [@[k] EXCEPT !.staged = <<>>]],
                                   !.s.sent = @ \/ \A k \in Wired : v.s.wires[k].staged = <<>>])

push_calls(v) ==
    LET n == push_grant_narrowing(v)
    IN  [n EXCEPT !.env.asked = [k \in Wired |-> @[k] \o n.s.wires[k].staged],
                  !.s.wires = [k \in Wired |-> [@[k] EXCEPT !.staged = <<>>]]]

\* One reply from each wire whose slot is free, routed by who asked.
Arrived(v) == {k \in Wired : /\ Held(v, k)
                             /\ v.s.wires[k].ready = None
                             /\ v.env.replies[k] # <<>>}

pull_replies(v) ==
    LET from == Arrived(v)
        mine == {k \in from : Head(v.env.replies[k]).to = Own}
    IN  [v EXCEPT
           !.env.replies = [k \in Wired |-> IF k \in from THEN Tail(@[k]) ELSE @[k]],
           !.s.wires = [k \in Wired |->
               IF k \in mine THEN [@[k] EXCEPT !.own = Head(v.env.replies[k])]
               ELSE IF k \in from THEN [@[k] EXCEPT !.ready = Head(v.env.replies[k])]
               ELSE @[k]],
           !.s.snapReady = IF from \ mine # {} THEN FALSE ELSE @]

\* The seed, a word at a time.  v.s.seedDone says whether the drawing is over.
AskWord(v) ==
    IF v.s.seedAsked \/ Staged(v, "entropy") >= WireCells THEN v
    ELSE [v EXCEPT !.s.wires["entropy"].staged = Append(@, Own), !.s.seedAsked = TRUE]

TakeWord(v) ==
    LET reply == v.s.wires["entropy"].own
        w     == [v EXCEPT !.s.wires["entropy"].own = None, !.s.seedAsked = FALSE]
    IN  IF reply = None THEN v
        ELSE IF ~reply.ok
             THEN [w EXCEPT !.s.seedTaken = 0, !.s.seedDone = TRUE]
        ELSE [w EXCEPT !.s.seedTaken = @ + 1, !.s.seedDone = v.s.seedTaken + 1 = SeedWords]
draw_seed(v) ==
    IF ~Held(v, "entropy") THEN [v EXCEPT !.s.seedDone = TRUE]
    ELSE LET a == AskWord(v)
         IN  IF ~a.s.seedAsked THEN v ELSE TakeWord(pull_replies(push_calls(a)))

\* The clock's readings: asked for all the time, latched at a boundary.
collect_snapshot(v) ==
    LET reply == v.s.wires["clock"].own
    IN  IF reply = None THEN v
        ELSE [v EXCEPT !.s.wires["clock"].own = None, !.s.snapAsked = FALSE,
                       !.s.snapValue = IF reply.ok THEN reply ELSE @]
stage_snapshot(v) ==
    IF v.s.snapAsked \/ Staged(v, "clock") >= WireCells THEN v
    ELSE [v EXCEPT !.s.wires["clock"].staged = Append(@, Own), !.s.snapAsked = TRUE]

poll_snapshot(v) ==
    IF ~Held(v, "clock") THEN v
    ELSE LET c == collect_snapshot(v)
         IN  IF c.s.snapAsked THEN c ELSE push_calls(stage_snapshot(c))

take_snapshot(v) ==
    LET a == stage_snapshot(collect_snapshot(v))
        p == collect_snapshot(pull_replies(push_calls(a)))
    IN  IF ~Held(v, "clock") THEN [v EXCEPT !.s.snapReady = TRUE]
        ELSE IF ~a.s.snapAsked THEN [a EXCEPT !.s.snapReady = TRUE]
        ELSE IF p.s.snapValue = None THEN p
        ELSE [p EXCEPT !.s.taskClock = p.s.snapValue, !.s.snapReady = TRUE]

----------------------------------------------------------------------------
(* Units and tasks.                                                        *)

\* What the front end said of a source, or that no unit is left for it.
Compiled(v, said) == IF said = "ok" /\ v.s.units >= MaxUnits THEN "bad" ELSE said

begin_task(v) ==
    [v EXCEPT !.s.units = @ + 1, !.s.starting = TRUE, !.s.running = TRUE,
              !.s.bodyDone = FALSE, !.s.callWaited = 0, !.s.result = None]

start_input(v, said) ==
    IF Compiled(v, said) = "ok" THEN begin_task(v)
    ELSE [emit(v, "diagnostic") EXCEPT !.s.failed = TRUE, !.s.phase = "finish"]

\* The grants with a member among the first MaxBindings: later ones are
\* defined in their namespace and admitted nowhere.
Before(v, i) == FoldLeft(LAMBDA n, k : n + Members(k), 0, SubSeq(v.s.grants, 1, i - 1))
Callable(v) == {v.s.grants[i] : i \in {j \in DOMAIN v.s.grants : Before(v, j) < MaxBindings}}

\* What one slice may do: how the body and the reactions end, a call made, a
\* text printed, what becomes of the promise of its value, which nothing need
\* ever settle.  What cannot happen in this slice has one name.
Slices(v) ==
    LET bodies == {"value", "promise", "throw", "exhausted"}
                     \cup (IF v.m.slices < v.env.bound.slices THEN {"running"} ELSE {})
    IN  IF ~v.s.running
        THEN [body : {"value"}, jobs : {"ok"}, call : {None}, prints : {FALSE}, settles : {"pending"}]
        ELSE {c \in [body : IF v.s.bodyDone THEN {"value"} ELSE bodies,
                     jobs : {"ok", "throw"},
                     call : {None} \cup (IF v.m.next <= v.env.bound.calls THEN Callable(v) ELSE {}),
                     prints : {FALSE} \cup {v.m.said < v.env.bound.prints},
                     settles : {"pending", "fulfilled", "rejected"}] :
                "promise" \in {v.s.result, c.body} \/ c.settles = "pending"}

\* The first slice of a task brings it up; each one reads the task's clock.
bring_up(v) ==
    [v EXCEPT !.m.now = IF Held(v, "clock") THEN v.s.taskClock ELSE @,
              !.m.seeded = IF v.s.realm THEN @ ELSE v.s.seedTaken = SeedWords,
              !.m.slices = IF v.s.starting THEN 0 ELSE @,
              !.s.starting = FALSE, !.s.realm = TRUE]

\* Answers that arrived settle their promises before anything runs.
Ready(v) == {k \in ToSet(v.s.grants) : v.s.wires[k].ready # None}
apply_answers(v) ==
    LET answered == {v.s.wires[k].ready.to : k \in Ready(v)} \cap v.m.live
    IN  [v EXCEPT !.m.live = @ \ answered,
                  !.m.jobs = @ \/ answered # {},
                  !.s.wires = [k \in Wired |-> [@[k] EXCEPT !.ready = None]]]

\* The body and the reactions run, and with them what settles a promise.
Runs(v) == ~v.s.bodyDone \/ v.m.jobs
Fate(v, c) == IF v.s.result = "promise" /\ c.settles # "pending"
              THEN [v EXCEPT !.s.result = c.settles] ELSE v
resume(v, c) ==
    LET b == IF v.s.bodyDone THEN v
             ELSE [v EXCEPT !.m.slices = @ + 1,
                            !.s.bodyDone = c.body # "running",
                            !.s.result = IF c.body \in {"value", "promise"} THEN c.body ELSE @]
        d == IF ~Runs(v) \/ c.call = None THEN b
             ELSE [b EXCEPT !.m.calls = Append(@, [id |-> b.m.next, kind |-> c.call]),
                            !.m.live = @ \cup {b.m.next}, !.m.next = @ + 1]
        f == IF Runs(v) THEN Fate(d, c) ELSE d
    IN  IF ~Runs(v) \/ ~c.prints THEN f
        ELSE [f EXCEPT !.m.said = @ + 1, !.m.printed = Append(@, [text |-> "printed", n |-> f.m.said + 1])]

Fits(v, call) == /\ Held(v, call.kind)
                 /\ Staged(v, call.kind) < WireCells
\* A call whose wire has no room is passed over, and forgotten if another is
\* staged.
stage_calls(v) ==
    IF ~\E i \in DOMAIN v.m.calls : Fits(v, v.m.calls[i]) THEN v
    ELSE [v EXCEPT !.m.calls = <<>>,
                   !.s.wires = [k \in Wired |-> [@[k] EXCEPT !.staged =
                        LET ids == [i \in DOMAIN SelectSeq(v.m.calls, LAMBDA c : c.kind = k)
                                      |-> SelectSeq(v.m.calls, LAMBDA c : c.kind = k)[i].id]
                            room == IF Held(v, k) THEN WireCells - Staged(v, k) ELSE 0
                        IN  @ \o SubSeq(ids, 1, IF Len(ids) < room THEN Len(ids) ELSE room)]]]

take_printed(v) ==
    IF v.m.printed = <<>> \/ Len(v.s.out) + Len(v.m.printed) > OutCells THEN v
    ELSE [v EXCEPT !.s.out = @ \o v.m.printed, !.m.printed = <<>>]

time_out(v, progressed) ==
    IF progressed THEN [v EXCEPT !.s.callWaited = 0]
    ELSE IF v.m.live = {} THEN v
    ELSE IF v.s.callWaited < CallWait THEN [v EXCEPT !.s.callWaited = @ + 1]
    ELSE [v EXCEPT !.s.callWaited = 0, !.m.live = {}, !.m.jobs = TRUE]

EndTask(v, ended) ==
    [v EXCEPT !.s.failed = ended = "failed", !.s.running = FALSE, !.s.bodyDone = TRUE,
              !.s.result = None,
              !.env.ends = [facades |-> @.facades + (IF v.s.runningFacade THEN 1 ELSE 0),
                            inputs |-> @.inputs \/ ~v.s.runningFacade, how |-> ended]]

\* The value of a task that is over, and the text that says it.  A promise
\* nothing has settled is no value: the task goes on.
settle(v) ==
    CASE ~v.s.bodyDone \/ v.m.jobs \/ v.s.result = "promise" -> v
      [] v.s.bodyDone /\ ~v.m.jobs /\ v.s.result = "rejected" -> EndTask(emit(v, "uncaught"), "failed")
      [] OTHER -> EndTask(IF v.s.runningFacade THEN v ELSE emit(v, "value"), "done")

advance(v, c) ==
    LET u == apply_answers(bring_up(v))
        r == resume(u, c)
        j == [r EXCEPT !.m.jobs = FALSE]
        p == take_printed(j)
        t == stage_calls(p)
    IN  IF c.body = "exhausted" THEN EndTask(emit(v, "exhausted"), "failed")
        ELSE IF ~u.s.bodyDone /\ c.body = "throw"
             THEN EndTask(take_printed(emit(r, "uncaught")), "failed")
        ELSE IF r.m.jobs /\ c.jobs = "throw"
             THEN EndTask(take_printed(emit(j, "uncaught")), "failed")
        ELSE settle(time_out(t, ~u.s.bodyDone \/ u.m.jobs \/ t.m.calls # p.m.calls
                                \/ Ready(v) # {}))

----------------------------------------------------------------------------
(* The REPL and the step.                                                  *)

\* Keys up to the end of a line: <<keys left, line, source, closed, ended>>.
read_key(k, key) ==
    IF k.ended \/ k.closed THEN [k EXCEPT !.left = Append(@, key)]
    ELSE CASE key = "enter" -> [k EXCEPT !.ended = TRUE]
           [] key = "erase" -> [k EXCEPT !.line = IF @ > 0 THEN @ - 1 ELSE 0]
           [] key = "eof"   -> [k EXCEPT !.closed = k.line = 0 /\ k.source = 0]
           [] key = "abort" -> [k EXCEPT !.line = 0, !.source = 0, !.aborted = TRUE]
           [] OTHER         -> [k EXCEPT !.line = @ + 1]
read_line(v) ==
    FoldLeft(read_key, [left |-> <<>>, line |-> v.s.line, source |-> v.s.source,
                        closed |-> FALSE, ended |-> FALSE, aborted |-> FALSE], v.env.keys)

repl_idle(v, said) ==
    LET p == IF v.s.promptDue /\ Len(v.s.out) < OutCells
             THEN [emit(v, IF v.s.continuing THEN "more" ELSE "prompt")
                     EXCEPT !.s.promptDue = FALSE] ELSE v
        k == read_line(p)
        w == [p EXCEPT !.env.keys = k.left, !.s.line = k.line, !.s.source = k.source,
                       !.s.closed = k.closed \/ (v.env.keys = <<>> /\ v.env.hungUp),
                       !.s.continuing = @ /\ ~k.aborted, !.s.promptDue = @ \/ k.aborted]
        g == [w EXCEPT !.s.line = 0, !.s.source = @ + k.line]
        n == [g EXCEPT !.s.source = 0, !.s.continuing = FALSE]
    IN  IF p.s.promptDue THEN p
        ELSE IF ~k.ended
             THEN IF w.s.closed THEN [w EXCEPT !.s.phase = "finish"] ELSE w
        ELSE IF g.s.source = 0 THEN [g EXCEPT !.s.promptDue = TRUE]
        ELSE IF Compiled(g, said) = "ok" THEN begin_task(n)
        ELSE IF said = "more" THEN [g EXCEPT !.s.continuing = TRUE, !.s.promptDue = TRUE]
        ELSE [emit(n, "diagnostic") EXCEPT !.s.promptDue = TRUE]

\* The standard surface, before anything a person typed.
Facade(v, arrives, said) ==
    CASE v.env.surface = "none" -> [v EXCEPT !.s.facadeDone = TRUE]
      [] v.env.surface # "none" /\ ~arrives -> v
      [] v.env.surface = "large" /\ arrives -> Refuse(v)
      [] v.env.surface = "empty" /\ arrives -> [v EXCEPT !.s.facadeDone = TRUE]
      [] OTHER -> IF Compiled(v, said) = "ok"
                  THEN begin_task([v EXCEPT !.s.facadeDone = TRUE, !.s.runningFacade = TRUE])
                  ELSE Refuse([v EXCEPT !.s.facadeDone = TRUE])

\* One slice of the task, and where the session goes when it is over.
Task(v, c) ==
    LET t == IF v.s.snapReady THEN v ELSE take_snapshot(v)
        a == advance(t, c)
    IN  IF ~t.s.snapReady THEN t
        ELSE IF a.s.running THEN a
        ELSE [a EXCEPT !.s.snapReady = FALSE, !.s.runningFacade = FALSE,
                       !.s.promptDue = @ \/ v.s.mode = "repl",
                       !.s.phase = IF v.s.runningFacade \/ v.s.mode = "repl" THEN @ ELSE "finish"]

Run(v, c) ==
    IF ~v.s.seedDone /\ ~draw_seed(v).s.seedDone THEN draw_seed(v)
    ELSE LET d == IF v.s.seedDone THEN v ELSE draw_seed(v)
             p == poll_snapshot(pull_replies(push_calls(d)))
         IN  IF ~d.s.facadeDone /\ ~d.s.bare /\ ~d.s.running
             THEN Facade(d, c.arrives, c.said)
             ELSE IF p.s.running THEN Task(p, c.slice)
             ELSE IF p.s.mode = "repl" THEN repl_idle(p, c.said)
             ELSE IF p.s.complete THEN start_input(p, c.said)
             ELSE IF ~p.env.hungUp THEN p
             ELSE start_input([p EXCEPT !.s.complete = TRUE], c.said)

\* module_step, with standard output taking what it has or not.
module_step(v, takes, c) ==
    LET f == flush_out(v, takes)
        drained == f.s.out = <<>>
    IN  CASE v.s.phase = "args" -> Arguments(f, c.arrives)
          [] v.s.phase = "run" ->
                IF ~drained /\ Len(f.s.out) * 4 > OutCells * 3 THEN f ELSE Run(f, c)
          [] v.s.phase = "finish" ->
                IF ~drained THEN f
                ELSE [f EXCEPT !.s.phase = "done",
                               !.env.exit = IF v.s.failed THEN "failed" ELSE "done"]
          [] OTHER -> f

Step(takes, arrives) ==
    \E said \in {"ok", "more", "bad"}, c \in Slices([s |-> s, m |-> m, env |-> env]) :
        /\ s.phase # "done"
        \* a choice that makes no difference to this step is made one way
        /\ takes \/ (s.out # <<>> /\ env.bound.prints > 0)
        /\ arrives \/ s.phase = "args" \/ (s.phase = "run" /\ ~s.facadeDone)
        /\ s.running \/ s.phase = "args" => said = "ok"
        /\ said = "more" => s.mode = "repl"
        /\ LET v == module_step([s |-> s, m |-> m, env |-> env], takes,
                                [arrives |-> arrives, said |-> said, slice |-> c])
           IN  /\ s' = v.s /\ m' = v.m
               /\ env' = [v.env EXCEPT !.beat = IF takes /\ arrives THEN ~@ ELSE @]

\* A provider answers any call it has, in any order: the clock with the time,
\* the others with a number or a refusal.
Answer(kind) ==
    \E i \in DOMAIN env.asked[kind], ok \in BOOLEAN :
        LET to == env.asked[kind][i]
        IN  /\ kind = "clock" => ok
            /\ env' = [env EXCEPT !.asked[kind] = RemoveAt(@, i),
                                  !.denied = @ \/ (kind = "entropy" /\ to = Own /\ ~ok),
                                  !.replies[kind] = Append(@,
                                      [to |-> to, ok |-> ok, at |-> IF kind = "clock" THEN env.now ELSE 0])]
            /\ UNCHANGED <<s, m>>

Tick == env.now < MaxNow /\ env' = [env EXCEPT !.now = @ + 1] /\ UNCHANGED <<s, m>>

HangUp == ~env.hungUp /\ env' = [env EXCEPT !.hungUp = TRUE] /\ UNCHANGED <<s, m>>

ShellNext ==
    \/ \E takes, arrives \in BOOLEAN : Step(takes, arrives)
    \/ \E kind \in Wired : Answer(kind)
    \/ Tick
    \/ HangUp

\* A step the scheduler owes the module turns env.beat over.
Beat == env'.beat # env.beat

----------------------------------------------------------------------------
(* Properties.                                                             *)

\* A wire carries the program's calls and the shell's own: no reading and no
\* word of the seed is an answer to a program's call, and no answer to the
\* shell is handed to the program (pull_replies routes by who asked).
OwnAnswers ==
    /\ \A k \in Wired : s.wires[k].ready # None => s.wires[k].ready.to # Own
    /\ \A k \in Wired : s.wires[k].own # None => s.wires[k].own.to = Own
    /\ s.snapValue # None => s.snapValue.to = Own

\* A task whose value is a promise that nothing is left to settle: its body is
\* over, no reaction waits and no call is out that could time out (advance).
Stranded ==
    s.running /\ s.bodyDone /\ s.result = "promise" /\ ~m.jobs /\ m.live = {}

\* Replies to the program that this step took from a wire.
Taken(k) == {i \in DOMAIN env.replies[k] : /\ i <= Len(env.replies[k]) - Len(env.replies'[k])
                                           /\ env.replies[k][i].to # Own}

\* The surface is in place, or has failed to be, before anything a person
\* asked for starts, and it runs once (module_step).
SurfaceFirst ==
    LET offered == env.surface = "source" /\ ~s.bare
    IN  /\ offered /\ (env.ends.inputs \/ (s.running /\ ~s.runningFacade)) => env.ends.facades = 1
        /\ env.ends.facades <= (IF offered THEN 1 ELSE 0)

\* The realm's generator is keyed with a whole seed or not at all: one
\* refusal of the entropy provider leaves the fixed sequence (draw_seed).
WholeSeedOrNone == s.realm => m.seeded = (Contains(s.grants, "entropy") /\ ~env.denied)

\* What a program prints leaves once and in the order it was printed, however
\* the port takes it, and what has not left is still kept (advance).
PrintedInOrder ==
    LET texts == SelectSeq(env.stdout \o s.out \o m.printed, LAMBDA t : t.n > 0)
    IN  texts = [i \in 1..m.said |-> [text |-> "printed", n |-> i]]

\* The status is the last thing to leave and says whether the last task
\* failed, or that the session ended at a refusal (module_step, advance).
ExitTold ==
    env.exit # None =>
        /\ s.out = <<>>
        /\ (env.exit = "failed") = (env.ends.how = "failed" \/ env.last \in {"refusal", "diagnostic"})

\* The origins a person narrowed a grant to have reached every adapter they
\* apply to before any of the program's calls can (push_grant_narrowing).
NarrowedFirst ==
    s.origins # None =>
        \A k \in Wired \cap Narrowed :
            Held([s |-> s], k) /\ env.asked[k] # <<>> => env.narrowedBy[k] = s.origins

===============================================================================
