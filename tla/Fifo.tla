--------------------------------- MODULE Fifo ---------------------------------
(***************************************************************************)
(* What the job queue promises: a bounded first-in first-out queue that    *)
(* answers every push and every pop.                                       *)
(***************************************************************************)
EXTENDS Integers, Sequences

CONSTANTS Jobs, Capacity

VARIABLES
    items,   \* the jobs waiting, oldest first
    answer   \* what the last operation answered

fvars == <<items, answer>>

Init == items = <<>> /\ answer = "none"

\* A push is refused exactly when the queue is full, and changes nothing then.
Push(job) ==
    \/ /\ Len(items) < Capacity
       /\ items' = Append(items, job)
       /\ answer' = "ok"
    \/ /\ Len(items) >= Capacity
       /\ answer' = "full"
       /\ UNCHANGED items

\* A pop gives the oldest job, or says there is none.
Pop ==
    \/ /\ items # <<>>
       /\ answer' = Head(items)
       /\ items' = Tail(items)
    \/ /\ items = <<>>
       /\ answer' = "none"
       /\ UNCHANGED items

Next == Pop \/ \E job \in Jobs : Push(job)

Spec == Init /\ [][Next]_fvars
============================================================================
