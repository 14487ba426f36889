------------------------------ MODULE MCBindings ------------------------------
(***************************************************************************)
(* What becomes of a program's calls inside its isolate: the capability    *)
(* table that admits and numbers them, and the staging that carries them   *)
(* to the call port.  A behaviour is one of the part chosen at the start;  *)
(* the variables of the other stand still.                                 *)
(*                                                                         *)
(* Two bindings and two pending or resource slots are enough for a full    *)
(* table, a binding at its limit while the table has room, an identifier   *)
(* that saturates, and a slot released and taken again.  Three cells of    *)
(* arguments and five of frames are enough for a call that waits.          *)
(***************************************************************************)
EXTENDS Bindings, CallStaging

CONSTANT Parts   \* the parts a run checks
VARIABLE part    \* the one this behaviour is of

SuiteInit ==
    /\ part \in Parts
    /\ Init
    /\ StagingInit

SuiteNext ==
    /\ \/ part = "table" /\ Next /\ UNCHANGED svars
       \/ part = "staging" /\ StagingNext /\ UNCHANGED bvars
    /\ UNCHANGED part

\* The properties are those of Bindings and CallStaging.
SuiteSpec == SuiteInit /\ [][SuiteNext]_<<part, bvars, svars>>
============================================================================
