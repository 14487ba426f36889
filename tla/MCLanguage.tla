----------------------------- MODULE MCLanguage -------------------------------
(***************************************************************************)
(* The language: statements lowered, admitted and run; a closure's modules *)
(* imported; generators resumed.  A behaviour is one of the part chosen at *)
(* the start; the variables of the others stand still.                     *)
(***************************************************************************)
EXTENDS Naturals, Sequences, FiniteSets

CONSTANTS
    Parts,          \* the parts a run checks
    None,
    MaxFinalisers, MaxOutcomes, MaxThrows,
    Handler,        \* only the program innermost_handler is about
    MaxImports, Shapes,
    MaxRequests

VARIABLES
    part,           \* the one this behaviour is of
    p, u, r, outcomes, trace,
    g, v, imports,
    b, gen, asked, jobs, awaits

----------------------------------------------------------------------------
(* Programs: every leaf under one or two statements around it.             *)

S == INSTANCE Lowering
Leaves == {S!Act(1), S!Break(""), S!Continue(""), S!Break("L"), S!Return(2), S!Throw(3), S!Yield}
\* Statements an exit leaves without running anything.
Plain(s) == {
    S!While(s), S!DoWhile(s), S!For("none", s), S!For("let", s), S!Each(FALSE, "own", s),
    S!Block(<<s, S!Act(4)>>, TRUE), S!Try(s, S!Act(6), S!Absent), S!If(s, S!Act(8)),
    S!Label("M", S!Block(<<s>>, FALSE)),
    S!Switch(<<[default |-> FALSE, list |-> <<s>>], [default |-> TRUE, list |-> <<S!Act(4)>>]>>, TRUE)}
\* Statements that run something on the way out.
Finalised(s) == {
    S!Each(TRUE, "assign", s), S!Each(TRUE, "let", s), S!Each(TRUE, "own", s),
    S!Block(<<S!Use(5), s>>, TRUE), S!For("using", s),
    S!Try(s, S!Absent, S!Act(7)), S!Try(s, S!Act(6), S!Act(7)), S!Try(S!Act(1), s, S!Act(7))}
\* Exits out of a finaliser itself.
Finalising(s) == {S!Try(S!Act(1), S!Absent, s)}

Over(F(_), T) == UNION {F(s) : s \in T}
\* A return in a try within a try with a finaliser is what the run
\* innermost_handler shows.
Catches(s) == s.k = "try" /\ s.catch # S!Absent
Apart(T) == {s \in T : s.k = "try" /\ s.finally # S!Absent => ~Catches(s.body)}
Tame == Over(Plain, Leaves) \cup Over(Finalised, Leaves)
            \cup Over(Plain, Over(Plain, Leaves)) \cup Over(Plain, Over(Finalised, Leaves))
            \cup Over(Finalised, {s \in Over(Plain, Leaves) : ~Catches(s)})
Wild == Over(Finalising, Leaves) \cup Over(Plain, Over(Finalising, Leaves))
            \cup Apart(Over(Finalised, Over(Finalised, Leaves)))
            \cup Apart(Over(Finalised, {s \in Over(Plain, Leaves) : Catches(s)}))
Body(s) == <<S!Label("L", S!While(S!Block(<<s, S!Act(9)>>, FALSE)))>>
OfDepth(T) == [list : {Body(s) : s \in T}, script : BOOLEAN, tame : {T = Tame}]
Programs ==
    IF Handler
    THEN {[list |-> <<S!Try(S!Try(S!Return(2), S!Act(6), S!Absent), S!Absent, S!Act(7))>>,
           script |-> FALSE, tame |-> FALSE]}
    ELSE OfDepth(Tame) \cup OfDepth(Wild)

----------------------------------------------------------------------------
(* Closures: shapes of three modules, with one at least that awaits.       *)

E(m) == [to |-> m, how |-> "eager"]
D(m) == [to |-> m, how |-> "defer"]
Host(m) == [to |-> m, how |-> "host"]
Poison(m) == [to |-> m, how |-> "poison"]
Rows == [
    chain   |-> << <<E(2)>>, <<E(3)>>, <<>> >>,
    cycle   |-> << <<E(2), E(3)>>, <<E(1)>>, <<>> >>,
    ring    |-> << <<E(2)>>, <<E(3)>>, <<E(1)>> >>,
    defers  |-> << <<D(2)>>, <<E(3)>>, <<>> >>,
    shares  |-> << <<E(2), D(3)>>, <<>>, <<E(2)>> >>,
    turns   |-> << <<E(2)>>, <<D(3)>>, <<E(1)>> >>,
    behind  |-> << <<E(2), E(3)>>, <<>>, <<D(2)>> >>,
    gated   |-> << <<E(2), E(3)>>, <<D(3)>>, <<>> >>,
    refused |-> << <<E(2), D(3)>>, <<>>, <<Host(3)>> >>,
    broken  |-> << <<E(2), E(3)>>, <<>>, <<Poison(3)>> >>]
Kinds == {k \in [1..3 -> {"ok", "throw", "async"}] : \E m \in 1..3 : k[m] = "async"}
Graphs == [rows : {Rows[x] : x \in Shapes}, kind : Kinds, reads : {TRUE}]
            \cup [rows : {Rows[x] : x \in Shapes \cap {"defers", "shares"}}, kind : Kinds, reads : {FALSE}]

----------------------------------------------------------------------------
(* Bodies of generators: two steps of every kind, and asynchronous ones    *)
(* that ask their own generator.                                           *)

Step(do, ok, keeps) == [do |-> do, ok |-> ok, keeps |-> keeps]
Steps == {Step(d, o, k) : d \in {"yield", "await"}, o \in BOOLEAN, k \in {"none", "catch", "both"}}
            \cup {Step("throw", TRUE, k) : k \in {"none", "catch"}}
            \cup {Step("return", o, k) : o \in BOOLEAN, k \in {"none", "both"}}
Sync == {s \in Steps : s.ok /\ s.do # "await"}
Bodies ==
    [async : {TRUE}, steps : {<<s, t>> : s \in Steps, t \in Steps}]
    \cup [async : {TRUE}, steps : {<<Step(a, TRUE, "none"), s, Step("yield", TRUE, "none")>> :
                                    a \in {"ask", "quit"}, s \in Steps}]
    \cup [async : {FALSE}, steps : {<<s, t>> : s \in Sync, t \in Sync}]
Requests == {[op |-> o, ok |-> k] : o \in {"next", "throw", "return"}, k \in {TRUE}}
                \cup {[op |-> "return", ok |-> FALSE]}

----------------------------------------------------------------------------
Frame      == INSTANCE Machine
Evaluation == INSTANCE ModuleGraph
Generator  == INSTANCE Generators

frameVars     == <<p, u, r, outcomes, trace>>
moduleVars    == <<g, v, imports>>
generatorVars == <<b, gen, asked, jobs, awaits>>
vars == <<part, frameVars, moduleVars, generatorVars>>

Init ==
    /\ part \in Parts
    /\ IF part = "frame" THEN Frame!FrameInit
       ELSE p = None /\ u = None /\ r = None /\ outcomes = None /\ trace = None
    /\ IF part = "modules" THEN Evaluation!ModuleInit ELSE g = None /\ v = None /\ imports = None
    /\ IF part = "generator" THEN Generator!GeneratorInit
       ELSE b = None /\ gen = None /\ asked = None /\ jobs = None /\ awaits = None

Next ==
    /\ \/ /\ part = "frame" /\ Frame!FrameStep
          /\ UNCHANGED <<moduleVars, generatorVars>>
       \/ /\ part = "modules" /\ Evaluation!ModuleNext
          /\ UNCHANGED <<frameVars, generatorVars>>
       \/ /\ part = "generator" /\ Generator!GeneratorNext
          /\ UNCHANGED <<frameVars, moduleVars>>
    /\ UNCHANGED part

\* The fairness of the two parts that have any, stated once for both: what
\* ModuleGraph's Works and Generators's GeneratorWorks say.
Idle == CASE part = "modules" -> Evaluation!Idle
          [] part = "generator" -> Generator!Idle
          [] OTHER -> TRUE
Worked == CASE part = "modules" -> Evaluation!Worked
            [] part = "generator" -> Generator!Worked
            [] OTHER -> FALSE
Spec == Init /\ [][Next]_vars /\ (<>[]Idle \/ []<><<Worked>>_vars)

----------------------------------------------------------------------------

\* Lowering: the code does what the program means.
RunsAsWritten == part = "frame" => Frame!RunsAsWritten
\* Lowering: the verifier admits the code of tame programs, it does what the
\* program means, and a name is looked up in the scopes it was resolved in.
LoweredAsWritten ==
    part = "frame" => Frame!LoweredIsAdmitted /\ Frame!RunsAsWritten /\ Frame!ResolvedInItsScope
\* Modules: a body runs once, only when asked for and after those of what it
\* imports have begun; a cycle shares its error; and a program's first import
\* settles after what it waits on.
EvaluatedInOrder ==
    part = "modules" =>
        /\ Evaluation!RunOnce /\ Evaluation!OnlyWhatWasAsked /\ Evaluation!DependenciesBegin
        /\ Evaluation!CycleSharesError /\ Evaluation!FirstSettlesLast
\* Generators: each request is answered with what the body says of it, and those
\* of an async generator settle in turn.
AnsweredInTurn == part = "generator" => Generator!AnsweredAsAsked /\ Generator!SettledInTurn
\* Modules: every import settles.  Generators: nobody is left waiting.
NobodyWaits ==
    /\ []<>(part = "modules" => Evaluation!Settled)
    /\ []<>(part = "generator" => Generator!Quiet)
===============================================================================
