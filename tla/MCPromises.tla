------------------------------ MODULE MCPromises ------------------------------
(***************************************************************************)
(* The ring that holds a task's jobs, and the promises whose reactions     *)
(* become jobs, over the queue that ring implements.  A behaviour is one   *)
(* of the part chosen at the start; the variables of the other stand       *)
(* still.  Promises that differ only in name are interchangeable: which of *)
(* them is created next does not matter.  The properties are those of      *)
(* Promises.                                                               *)
(***************************************************************************)
EXTENDS Promises

CONSTANT Parts   \* the parts a run checks

ASSUME PromisesAssumption

VARIABLE part    \* the one this behaviour is of

Interchangeable == Permutations(Promise)

SuiteInit ==
    /\ part \in Parts
    /\ RingInit
    /\ Init

SuiteNext ==
    /\ \/ part = "ring" /\ RingNext /\ UNCHANGED pvars
       \/ part = "promises" /\ Next /\ UNCHANGED qvars
    /\ UNCHANGED part

SuiteSpec == SuiteInit /\ [][SuiteNext]_<<part, qvars, pvars>>
============================================================================
