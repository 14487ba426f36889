------------------------------ MODULE Pipeline --------------------------------
(***************************************************************************)
(* The command graph: the compiler (modules/app/phasor_compile/mod.rs) or  *)
(* the linker's stage (phasor_link/mod.rs), the isolate as its neighbours  *)
(* see it (phasor_isolate/mod.rs: stages an image, runs it, writes a       *)
(* result or a diagnostic) and the edge (phasor_cli/mod.rs), joined by     *)
(* channels.  The scheduler steps each module once a round, in the order   *)
(* of the graph; a channel takes and gives what it has room for.           *)
(*                                                                         *)
(* A source, an image, a result and a diagnostic frame are sequences of    *)
(* cells, each naming the stream it is of.  Where "early" holds a source   *)
(* or image channel reports a hang-up before its producer has written, as  *)
(* on bcm2712; the edge, which has no wait for it, runs elsewhere.         *)
(***************************************************************************)
EXTENDS Naturals, Sequences, FiniteSets, SequencesExt

CONSTANTS
    Graphs,         \* "compile" or "link": what stands before the isolate
    Early,          \* values of early a run takes
    Sources,        \* [cells, says]: a source and what becomes of it
    CompileWait, IsolateWait,   \* empty_wait of the compiler and the isolate
    SourceCells,    \* SOURCE_CAPACITY
    MaxDelay        \* rounds the source may be late

ASSUME PipelineAssumption ==
    /\ Graphs \subseteq {"compile", "link"} /\ Early \subseteq BOOLEAN
    /\ Sources \subseteq [cells : Nat, says : {"value", "refused", "throws"}]
    /\ {CompileWait, IsolateWait, MaxDelay} \subseteq Nat /\ SourceCells \in Nat \ {0}

VARIABLES st, ch

gvars == <<st, ch>>

Channels == {"source", "image", "diagnostic", "result", "runtime"}
FrameCells == 2
ImageCells == 2
Line(of, n) == [i \in 1..n |-> of]

Start(graph, early, source, delay) ==
    [graph |-> graph, early |-> early, source |-> source, delay |-> delay,
     sent |-> 0, beat |-> FALSE,
     first |-> [phase |-> "stage", waited |-> 0, got |-> <<>>, overflowed |-> FALSE,
                failed |-> FALSE, left |-> <<>>, diagnostic |-> <<>>, exit |-> "none"],
     isolate |-> [phase |-> "stage", waited |-> 0, got |-> <<>>, ran |-> <<>>,
                  failed |-> FALSE, left |-> <<>>, diagnostic |-> <<>>],
     cli |-> [result |-> <<>>, hungUp |-> FALSE, frame |-> <<>>, report |-> <<>>,
              failed |-> FALSE, stdout |-> <<>>, stderr |-> <<>>, exit |-> "none"]]
Quiet == [c \in Channels |-> [data |-> <<>>, written |-> FALSE, closed |-> FALSE]]

PipelineInit ==
    /\ \E graph \in Graphs, early \in Early, source \in Sources, delay \in 0..MaxDelay :
          st = Start(graph, early, source, delay)
    /\ ch = Quiet

----------------------------------------------------------------------------
(* Channels, and the ways of common/wire.rs to use them.                   *)

HasInput(v, c) == v.ch[c].data # <<>>
HungUp(v, c) ==
    /\ v.ch[c].data = <<>>
    /\ v.ch[c].closed \/ (v.st.early /\ ~v.ch[c].written /\ c \in {"source", "image"})
Take(v, c, n) == SubSeq(v.ch[c].data, 1, IF n < Len(v.ch[c].data) THEN n ELSE Len(v.ch[c].data))
OnChannel(v, c, channel) == [v EXCEPT !.ch = [v.ch EXCEPT ![c] = channel]]
Drop(v, c, n) == OnChannel(v, c, [v.ch[c] EXCEPT !.data = SubSeq(@, Len(Take(v, c, n)) + 1, Len(@))])
Put(v, c, cells) == IF cells = <<>> THEN v
                    ELSE OnChannel(v, c, [v.ch[c] EXCEPT !.data = @ \o cells, !.written = TRUE])
Close(v, cs) ==
    [v EXCEPT !.ch = [c \in Channels |-> [v.ch[c] EXCEPT !.closed = v.ch[c].closed \/ c \in cs]]]

\* What a write of all that is left may move: the port takes some of it.
push_progress(v, c, left, takes) ==
    LET n == IF takes < Len(left) THEN takes ELSE Len(left)
    IN  [v |-> Put(v, c, SubSeq(left, 1, n)), left |-> SubSeq(left, n + 1, Len(left))]

\* The source's producer writes a cell a round once its delay is over, and
\* hangs up after the last.
Producer(v) ==
    IF v.st.delay > 0 THEN [v EXCEPT !.st.delay = @ - 1]
    ELSE IF v.st.sent < v.st.source.cells
         THEN [Put(v, "source", Line("source", 1)) EXCEPT !.st.sent = @ + 1]
    ELSE Close(v, {"source"})

----------------------------------------------------------------------------
(* The compiler, and the linker's stage: stage, work, write, exit.         *)

\* Mutant: a hung-up empty stream is always "not yet".
StagePatient(v) ==
    LET room == SourceCells - Len(v.st.first.got)
    IN  IF HasInput(v, "source")
        THEN IF room = 0 THEN [Drop(v, "source", 1) EXCEPT !.st.first.overflowed = TRUE]
             ELSE [Drop(v, "source", room) EXCEPT
                     !.st.first.got = @ \o Take(v, "source", room)]
        ELSE IF HungUp(v, "source") /\ v.st.first.got # <<>>
             THEN [v EXCEPT !.st.first.phase = "work"] ELSE v

Stage(v) ==
    LET room == SourceCells - Len(v.st.first.got)
    IN  IF HasInput(v, "source")
        THEN IF room = 0 THEN [Drop(v, "source", 1) EXCEPT !.st.first.overflowed = TRUE]
             ELSE [Drop(v, "source", room) EXCEPT
                     !.st.first.got = @ \o Take(v, "source", room)]
        ELSE IF ~HungUp(v, "source") THEN v
        \* the compiler reads a hung-up empty stream as "not yet" for a while
        ELSE IF /\ v.st.graph = "compile" /\ v.st.first.got = <<>>
                /\ v.st.first.waited < CompileWait
             THEN [v EXCEPT !.st.first.waited = @ + 1]
        ELSE [v EXCEPT !.st.first.phase = "work"]

\* compile or link: the image whole, or a failure the compiler has a
\* diagnostic for and the linker has not.
Work(v) ==
    LET fails == \/ v.st.first.overflowed \/ v.st.source.says = "refused"
                 \/ v.st.graph = "link" /\ v.st.first.got = <<>>
    IN  [v EXCEPT !.st.first.phase = "write", !.st.first.failed = fails,
                  !.st.first.left = IF fails THEN <<>> ELSE Line("image", ImageCells),
                  !.st.first.diagnostic = IF fails /\ v.st.graph = "compile"
                                          THEN Line("compile", FrameCells) ELSE <<>>]

WriteImage(v, takes) ==
    LET f == v.st.first
        d == push_progress(v, "diagnostic", f.diagnostic, takes)
        i == push_progress(v, "image", f.left, takes)
        r == IF f.failed THEN [d.v EXCEPT !.st.first.diagnostic = d.left]
             ELSE [i.v EXCEPT !.st.first.left = i.left]
    IN  IF r.st.first.diagnostic # <<>> \/ r.st.first.left # <<>> THEN r
        ELSE [r EXCEPT !.st.first.phase = "exit"]

First(v, takes) ==
    CASE v.st.first.phase = "stage" -> LET s == Stage(v)
                                       IN  IF s.st.first.phase = "work" THEN Work(s) ELSE s
      [] v.st.first.phase = "write" -> WriteImage(v, takes)
      [] v.st.first.phase = "exit" ->
            Close([v EXCEPT !.st.first.phase = "done",
                            !.st.first.exit = IF v.st.first.failed THEN "failed" ELSE "done"],
                  {"image", "diagnostic"})
      [] OTHER -> v

----------------------------------------------------------------------------
(* The isolate, as its neighbours see it.                                  *)

StageImage(v) ==
    IF HasInput(v, "image")
    THEN [Drop(v, "image", ImageCells) EXCEPT !.st.isolate.got = @ \o Take(v, "image", ImageCells)]
    ELSE IF ~HungUp(v, "image") THEN v
    ELSE IF v.st.isolate.got = <<>> /\ v.st.isolate.waited < IsolateWait
         THEN [v EXCEPT !.st.isolate.waited = @ + 1]
    ELSE IF v.st.isolate.got = <<>> THEN [v EXCEPT !.st.isolate.phase = "write"]
    ELSE [v EXCEPT !.st.isolate.phase = "write", !.st.isolate.ran = v.st.isolate.got,
                   !.st.isolate.failed = v.st.source.says = "throws",
                   !.st.isolate.left = IF v.st.source.says = "throws" THEN <<>> ELSE Line("result", 1),
                   !.st.isolate.diagnostic = IF v.st.source.says = "throws"
                                             THEN Line("isolate", FrameCells) ELSE <<>>]

Isolate(v, takes) ==
    LET r == push_progress(v, "result", v.st.isolate.left, takes)
        d == push_progress(r.v, "runtime", v.st.isolate.diagnostic, takes)
    IN  CASE v.st.isolate.phase = "stage" -> StageImage(v)
          [] v.st.isolate.phase = "write" ->
                IF r.left # <<>> THEN [r.v EXCEPT !.st.isolate.left = r.left]
                ELSE IF d.left # <<>>
                     THEN [d.v EXCEPT !.st.isolate.left = <<>>, !.st.isolate.diagnostic = d.left]
                ELSE Close([d.v EXCEPT !.st.isolate.phase = "done", !.st.isolate.left = <<>>,
                                       !.st.isolate.diagnostic = <<>>], {"result", "runtime"})
          [] OTHER -> v

----------------------------------------------------------------------------
(* The edge: results pass, the first diagnostic is said in words.          *)

\* Mutant: how much of a frame has been read is forgotten between steps.
take_diagnostic_forgets(v, c) ==
    IF ~HasInput(v, c) THEN v
    ELSE IF Len(Take(v, c, FrameCells)) < FrameCells THEN Drop(v, c, FrameCells)
    ELSE [Drop(v, c, FrameCells) EXCEPT !.st.cli.report = Take(v, c, FrameCells),
                                        !.st.cli.failed = TRUE]

\* A whole frame is what will be said, and a failure.
Reported(v, frame) ==
    [v EXCEPT !.st.cli.frame = <<>>, !.st.cli.report = frame, !.st.cli.failed = TRUE]

take_diagnostic(v, c) ==
    LET want == FrameCells - Len(v.st.cli.frame)
        frame == v.st.cli.frame \o Take(v, c, want)
    IN  IF ~HasInput(v, c) THEN v
        ELSE IF Len(frame) < FrameCells THEN [Drop(v, c, want) EXCEPT !.st.cli.frame = frame]
        ELSE Reported(Drop(v, c, want), frame)

StageResult(v) ==
    IF v.st.cli.hungUp THEN v
    ELSE IF HasInput(v, "result")
         THEN [Drop(v, "result", 1) EXCEPT !.st.cli.result = @ \o Take(v, "result", 1)]
    ELSE [v EXCEPT !.st.cli.hungUp = HungUp(v, "result")]

\* What the edge has is written, and when all of it has come it exits.
Told(v) ==
    LET w == [v EXCEPT !.st.cli.stdout = v.st.cli.result, !.st.cli.stderr = v.st.cli.report]
        finished == /\ w.st.cli.hungUp /\ w.st.cli.frame = <<>>
                    /\ ~HasInput(w, "diagnostic") /\ ~HasInput(w, "runtime")
    IN  IF ~finished THEN w
        ELSE [w EXCEPT !.st.cli.exit = IF w.st.cli.failed THEN "failed" ELSE "done"]

Cli(v) ==
    LET s == StageResult(v)
        c == IF s.st.cli.report = <<>> THEN take_diagnostic(s, "diagnostic") ELSE s
        r == IF s.st.cli.report = <<>> /\ c.st.cli.report = <<>>
             THEN take_diagnostic(c, "runtime") ELSE c
    IN  IF v.st.cli.exit # "none" THEN v ELSE Told(r)

Unfinished == st.cli.exit = "none" \/ st.first.phase # "done"

\* One round of the scheduler.  A reader takes what its port has every round,
\* so a port always has room for some of what is left.
Round ==
    \E a, b \in 1..FrameCells :
        LET v == Cli(Isolate(First(Producer([st |-> st, ch |-> ch]), a), b))
        IN  /\ Unfinished
            /\ st' = [v.st EXCEPT !.beat = ~@] /\ ch' = v.ch

PipelineNext == Round

PipelineSpec == PipelineInit /\ [][PipelineNext]_gvars

\* A round is possible until every module is done, and turns st.beat over.
Beat == st'.beat # st.beat

----------------------------------------------------------------------------
(* Properties.                                                             *)

\* The isolate runs the image of the whole source or nothing: no prefix of
\* either is taken for the whole (module_step of each, stage_stream).
WholeProgramRuns ==
    st.isolate.ran # <<>> =>
        /\ st.isolate.ran = Line("image", ImageCells)
        /\ st.first.got = Line("source", st.source.cells)

\* "A program that fails says why ... and exits non-zero": what leaves the
\* edge is the outcome of the phase that decided it, however the frames were
\* cut, and a success says nothing on standard error (docs/guides/running.md).
OutcomeTold ==
    st.graph = "compile" /\ st.cli.exit # "none" =>
        /\ (st.cli.exit = "failed") = (st.first.failed \/ st.isolate.failed)
        /\ st.cli.stderr = IF st.first.failed THEN Line("compile", FrameCells)
                           ELSE IF st.isolate.failed THEN Line("isolate", FrameCells) ELSE <<>>
        /\ st.cli.exit = "done" => st.cli.stdout = Line("result", 1)

\* A program that was compiled is run: the isolate's patience with a channel
\* that reports hung-up before it is written outlasts the compiler
\* (EMPTY_WAIT_STEPS of both).
CompiledRuns == st.isolate.phase = "done" /\ st.first.exit = "done" => st.isolate.ran # <<>>

\* The image of the whole source runs, or nothing; a program that was compiled
\* is run; and what leaves the edge is the outcome of the phase that decided.
EdgeTellsTheOutcome == WholeProgramRuns /\ CompiledRuns /\ OutcomeTold

\* What a graph with early channels must give the two (empty_wait of both): the
\* compiler waits longer than a source is late, and the isolate longer than the
\* compiler, the source and a diagnostic together take.  The isolate need not
\* outlast the compiler's wait, its equal by default, unless a source is empty.
Patience ==
    TRUE \in Early =>
        /\ MaxDelay < CompileWait
        /\ \A source \in Sources :
              (IF source.cells = 0 THEN CompileWait ELSE MaxDelay + source.cells) + FrameCells + 3
                  <= IsolateWait

===============================================================================
