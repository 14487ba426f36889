----------------------------- MODULE MCPipeline -------------------------------
(***************************************************************************)
(* The command modules: the shell, the linker, the graph of compiler,      *)
(* isolate and edge, the expression evaluator, and the router in front of  *)
(* the adapters.  A behaviour is one of the part chosen at the start; the  *)
(* variables of the others stand still.  The properties of the router,     *)
(* the linker and the graph are checked as their modules state them.       *)
(***************************************************************************)
EXTENDS HostRouter, Linker, Pipeline, TLC

CONSTANTS
    Parts,        \* the parts a run checks
    Adapters, SeedWords, CallWait, ArgvWait, OutCells, WireCells, MaxBindings, MaxUnits, MaxNow,
    MaxImports,
    Digits, MaxInt, Fuel, TextCells, MaxText

VARIABLES
    part,         \* the one this behaviour is of
    s, m, env,
    text, source, overflow, stage, outcome, pending, wrote

W(x) == [is |-> x]
G(k, t) == [is |-> "grant", kind |-> k, tail |-> t]
Session(argv, keys, surface, calls, prints, slices) ==
    [argv |-> argv, keys |-> keys, surface |-> surface,
     calls |-> calls, prints |-> prints, slices |-> slices]
Sessions == {
    Session(<<W("eval"), G("clock", FALSE), G("http", TRUE)>>, <<>>, "none", 1, 0, 2),
    Session(<<W("repl"), W("bare"), G("clock", FALSE)>>, <<"x", "enter">>, "source", 1, 0, 1),
    Session(<<G("entropy", FALSE)>>, <<>>, "source", 1, 0, 1),
    Session(<<W("repl")>>, <<"x", "abort", "x", "erase", "enter", "x", "enter", "eof">>,
            "source", 0, 2, 1),
    Session(<<W("bad")>>, <<>>, "none", 0, 0, 1),
    Session(<<W("help")>>, <<>>, "none", 0, 0, 1),
    Session(<<G("fs", TRUE)>>, <<>>, "none", 0, 0, 1),
    Session(<<>>, <<>>, "large", 0, 0, 1),
    Session(<<>>, <<>>, "empty", 0, 3, 2)}

\* Any shape of up to three modules over namespaces, and the same with one
\* export asked for, there or not, or with one name carried twice.
Plain(f) == [i \in DOMAIN f |->
    [name |-> i, exports |-> {},
     imports |-> [n \in DOMAIN f[i] |-> [from |-> f[i][n], name |-> None]]]]
Shapes == UNION {[1..n -> SeqOf(Names, MaxImports)] : n \in 1..Cardinality(Names)}
Asking == {<<[name |-> 1, exports |-> {}, imports |-> <<[from |-> 2, name |-> "a"]>>],
             [name |-> n, exports |-> e, imports |-> <<>>]>> : n \in {1, 2}, e \in SUBSET Exports}
Doubled == <<[name |-> 1, exports |-> {}, imports |-> <<>>], [name |-> 1, exports |-> {}, imports |-> <<>>]>>
SomeStreams == {Plain(f) : f \in Shapes} \cup Asking \cup {Doubled}

SomeSources == [cells : 0..3, says : {"value", "refused", "throws"}]

Texts == SeqOf(Digits \cup {"+", "-", " "}, MaxText)
            \cup {<<"1", "x">>, <<"1", "+", "1", "+", "1", "1">>}

\* What the router's bindings go to: the host call and one grant, each on a leg,
\* and one the router has no adapter for.
Served == 0 :> {[leg |-> 0, method |-> 0]} @@ 1 :> {[leg |-> 1, method |-> 0]} @@ 2 :> {}

Shell     == INSTANCE Shell WITH Wired <- Adapters
Evaluator == INSTANCE Evaluator WITH SourceCells <- TextCells, phase <- stage

ASSUME GraphConstants == RouterAssumption /\ PayloadsFit /\ Patience

shellVars     == <<s, m, env>>
linkerVars    == lvars
pipelineVars  == gvars
evaluatorVars == <<text, source, overflow, stage, outcome, pending, wrote>>
vars == <<part, shellVars, linkerVars, pipelineVars, evaluatorVars, rvars>>

Init ==
    /\ part \in Parts
    /\ IF part = "shell" THEN Shell!ShellInit ELSE s = None /\ m = None /\ env = None
    /\ IF part = "linker" THEN LinkerInit
       ELSE stream = None /\ reg = None /\ walk = None /\ phase = None /\ closure = None
    /\ IF part = "pipeline" THEN PipelineInit
       ELSE st = Start("link", FALSE, [cells |-> 0, says |-> "value"], 0) /\ ch = Quiet
    /\ IF part = "evaluator" THEN Evaluator!EvaluatorInit
       ELSE /\ text = None /\ source = None /\ overflow = None /\ stage = None
            /\ outcome = None /\ pending = None /\ wrote = None
    /\ RouterInit

Next ==
    /\ \/ /\ part = "shell" /\ Shell!ShellNext
          /\ UNCHANGED <<linkerVars, pipelineVars, evaluatorVars, rvars>>
       \/ /\ part = "linker" /\ LinkerNext
          /\ UNCHANGED <<shellVars, pipelineVars, evaluatorVars, rvars>>
       \/ /\ part = "pipeline" /\ PipelineNext
          /\ UNCHANGED <<shellVars, linkerVars, evaluatorVars, rvars>>
       \/ /\ part = "evaluator" /\ Evaluator!EvaluatorNext
          /\ UNCHANGED <<shellVars, linkerVars, pipelineVars, rvars>>
       \/ /\ part = "router" /\ RouterNext
          /\ UNCHANGED <<shellVars, linkerVars, pipelineVars, evaluatorVars>>
    /\ UNCHANGED part

Safety == Init /\ [][Next]_vars

\* The fairness of the two parts that have any, stated once for both: what
\* Shell's ShellFair and Pipeline's PipelineFair say.
Ended == CASE part = "shell" -> s.phase = "done"
           [] part = "pipeline" -> ~Unfinished
           [] OTHER -> TRUE
Beats == CASE part = "shell" -> Shell!Beat
          [] part = "pipeline" -> Beat
          [] OTHER -> FALSE
Others == UNCHANGED <<part, linkerVars, pipelineVars, evaluatorVars, rvars>>

\* What HostRouter's RouterFairness says.
Idle == part = "router" => RouterIdle
Routes == part = "router" /\ RouterStep
Elsewhere == UNCHANGED <<part, shellVars, linkerVars, pipelineVars, evaluatorVars>>

Spec ==
    /\ Safety
    /\ (<>[]Ended) \/ ([]<><<Beats>>_vars)
    /\ WF_vars(part = "shell" /\ Shell!Answer("clock") /\ Others)
    /\ WF_vars(part = "shell" /\ Shell!Answer("entropy") /\ Others)
    /\ WF_vars(part = "shell" /\ Shell!HangUp /\ Others)
    /\ ([]<>Idle) \/ ([]<><<Routes>>_vars)
    /\ WF_vars(part = "router" /\ (IsolateWrites \/ IsolateReads) /\ Elsewhere)
    /\ \A l \in Legs :
          WF_vars(/\ part = "router"
                  /\ AdapterTakes(l) \/ AdapterAnswers(l) \/ AdapterWrites(l)
                  /\ Elsewhere)

----------------------------------------------------------------------------

\* Shell: the program's answers and the shell's own are never mixed, a whole
\* seed keys the generator or none does, the surface runs once before anything
\* a person asked for, a narrowed grant reaches its adapter before a call does,
\* and what is printed leaves once, in order, with the status last.
SessionInOrder ==
    part = "shell" =>
        /\ Shell!OwnAnswers /\ Shell!WholeSeedOrNone
        /\ Shell!SurfaceFirst /\ Shell!NarrowedFirst
        /\ Shell!PrintedInOrder /\ Shell!ExitTold

\* Evaluator: the value of the sum or an error, and of the whole source only.
EvaluatesTheSum == part = "evaluator" => Evaluator!EvaluatesTheSum /\ Evaluator!PrefixIsNoSource

\* Shell: neither a silent provider nor a program holds the session open, but a
\* task whose value is a promise nothing is left to settle, which runs for
\* ever (the None of advance).  Pipeline: the edge comes to an exit status.
CommandsEnd ==
    /\ <>(part = "shell" => s.phase = "done" \/ Shell!Stranded)
    /\ <>(part = "pipeline" => st.cli.exit # "none")
===============================================================================
