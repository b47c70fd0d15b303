------------------------------ MODULE JobOrder ------------------------------
(***************************************************************************)
(* What the worker promises the code that enqueues jobs (src/ApiWorker.h): *)
(* every job runs, one at a time, in the order of submission, and when the *)
(* worker is destroyed none is left.                                       *)
(***************************************************************************)
EXTENDS Naturals, Sequences

CONSTANT Job

VARIABLES
    submitted,  \* the jobs ever enqueued, in order
    executed,   \* the jobs that have run
    open        \* the worker still exists

vars == <<submitted, executed, open>>

Init == submitted = <<>> /\ executed = <<>> /\ open = TRUE

Submit(j) ==
    /\ open
    /\ submitted' = Append(submitted, j)
    /\ UNCHANGED <<executed, open>>

Execute ==
    /\ open
    /\ Len(executed) < Len(submitted)
    /\ executed' = Append(executed, submitted[Len(executed) + 1])
    /\ UNCHANGED <<submitted, open>>

Destroy ==
    /\ open
    /\ executed = submitted
    /\ open' = FALSE
    /\ UNCHANGED <<submitted, executed>>

Next == Destroy \/ Execute \/ \E j \in Job : Submit(j)

Spec == Init /\ [][Next]_vars /\ WF_vars(Execute)
=============================================================================
