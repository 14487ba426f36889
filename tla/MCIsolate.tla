----------------------------- MODULE MCIsolate -----------------------------
(***************************************************************************)
(* The isolate, as a task whose one-cell image is mapped and that makes    *)
(* calls, its seed given to it and no diagnostic port wired, and as one    *)
(* behind every image that may arrive, short, whole and over the buffer,   *)
(* that makes none.  A behaviour is one of the part chosen at the start;   *)
(* the properties are Isolate's.                                           *)
(***************************************************************************)
EXTENDS Isolate

CONSTANTS
    Parts,      \* the parts a run checks
    Hosted      \* whether the task may be a host's event loop as well

ASSUME IsolateAssumption

VARIABLE part   \* the one this behaviour is of

\* An isolate with its call port wired, one with its diagnostic port as well,
\* and a host's event loop on a graph that wired neither.
Calling    == [surface |-> FALSE, wired |-> TRUE, diagnostic |-> FALSE]
Diagnosing == [Calling EXCEPT !.diagnostic = TRUE]
Surface    == [surface |-> TRUE, wired |-> FALSE, diagnostic |-> FALSE]
Wirings    == {Calling, Diagnosing} \cup (IF Hosted THEN {Surface} ELSE {})

SuiteInit ==
    /\ part \in Parts
    /\ Init
    /\ IF part = "calls" THEN graph # Diagnosing /\ image = Arriving("mapped", 1, "good", FALSE)
       ELSE graph = Diagnosing

SuiteNext ==
    /\ Next
    /\ IF part = "calls" THEN boot'.answer \in {"none", "word"}
       ELSE m'.made = 0 /\ arrived' = 0
    /\ UNCHANGED part

SuiteSpec == SuiteInit /\ [][SuiteNext]_<<ivars, part>> /\ Fairness
============================================================================
