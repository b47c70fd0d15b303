----------------------------- MODULE ApiWorker -----------------------------
(***************************************************************************)
(* The one background thread of the client, its job queue and its shutdown *)
(* (src/ApiWorker.cpp). The render thread enqueues and, when App goes  *)
(* away, destroys the worker; the worker waits on a condition variable.    *)
(*                                                                         *)
(* The mutex is the worker's while it is in one of WorkerLocked, and the   *)
(* render thread's only inside Enqueue's block, which is one step here: it *)
(* touches nothing but the queue. The worker's own critical section is not *)
(* one step, because the destructor sets m_stop without the mutex.         *)
(***************************************************************************)
EXTENDS Naturals, Sequences

CONSTANTS
    Job,        \* what can be enqueued
    MaxJobs     \* bound: how many submissions an instance makes

ASSUME MaxJobsAssumption == MaxJobs \in Nat

VARIABLES
    queue,      \* m_queue
    stop,       \* m_stop
    owner,      \* where the render thread is
    worker,     \* where the worker thread is
    current,    \* the job the worker took: <<>> or <<job>>
    submitted,  \* history: the jobs enqueued
    executed    \* history: the jobs that ran to their end

vars == <<queue, stop, owner, worker, current, submitted, executed>>

OwnerAt == {"idle", "notify_one", "notify_all", "joining", "gone"}
WorkerAt == {"lock", "test", "block", "asleep", "take", "run", "done"}
WorkerLocked == {"test", "block", "take"}

Init ==
    /\ queue = <<>> /\ stop = FALSE
    /\ owner = "idle" /\ worker = "lock"
    /\ current = <<>>
    /\ submitted = <<>> /\ executed = <<>>

-----------------------------------------------------------------------------
(* The render thread.                                                      *)

(* Mutant: the push is not protected by the mutex; the worker's test and   *)
(* its sleep are no longer one step to it.                                 *)
EnqueueUnlocked(j) ==
    /\ owner = "idle" /\ Len(submitted) < MaxJobs
    /\ queue' = Append(queue, j)
    /\ submitted' = Append(submitted, j)
    /\ owner' = "notify_one"
    /\ UNCHANGED <<stop, worker, current, executed>>

Enqueue(j) ==
    /\ owner = "idle" /\ Len(submitted) < MaxJobs
    /\ worker \notin WorkerLocked
    /\ queue' = Append(queue, j)
    /\ submitted' = Append(submitted, j)
    /\ owner' = "notify_one"
    /\ UNCHANGED <<stop, worker, current, executed>>

(* Wakes the worker if it is asleep, and is lost if it is not.             *)
Wake == worker' = IF worker = "asleep" THEN "lock" ELSE worker

NotifyOne ==
    /\ owner = "notify_one"
    /\ Wake
    /\ owner' = "idle"
    /\ UNCHANGED <<queue, stop, current, submitted, executed>>

SetStop ==
    /\ owner = "idle"
    /\ stop' = TRUE
    /\ owner' = "notify_all"
    /\ UNCHANGED <<queue, worker, current, submitted, executed>>

NotifyAll ==
    /\ owner = "notify_all"
    /\ Wake
    /\ owner' = "joining"
    /\ UNCHANGED <<queue, stop, current, submitted, executed>>

Join ==
    /\ owner = "joining" /\ worker = "done"
    /\ owner' = "gone"
    /\ UNCHANGED <<queue, stop, worker, current, submitted, executed>>

-----------------------------------------------------------------------------
(* The worker thread.                                                      *)

Lock ==
    /\ worker = "lock"
    /\ worker' = "test"
    /\ UNCHANGED <<queue, stop, owner, current, submitted, executed>>

(* Mutant: the predicate forgets m_stop.                                   *)
TestQueueOnly ==
    /\ worker = "test"
    /\ worker' = IF queue # <<>> THEN "take" ELSE "block"
    /\ UNCHANGED <<queue, stop, owner, current, submitted, executed>>

(* The predicate of wait.                                                  *)
TestPredicate ==
    /\ worker = "test"
    /\ worker' = IF stop \/ queue # <<>> THEN "take" ELSE "block"
    /\ UNCHANGED <<queue, stop, owner, current, submitted, executed>>

(* The mutex is released and the thread put to sleep in one step; only now *)
(* can a notification reach it.                                            *)
Block ==
    /\ worker = "block"
    /\ worker' = "asleep"
    /\ UNCHANGED <<queue, stop, owner, current, submitted, executed>>

SpuriousWakeup ==
    /\ worker = "asleep"
    /\ worker' = "lock"
    /\ UNCHANGED <<queue, stop, owner, current, submitted, executed>>

(* Mutant: the thread leaves as soon as it is told to stop.                *)
TakeOrLeaveAtOnce ==
    /\ worker = "take"
    /\ \/ /\ stop
          /\ worker' = "done"
          /\ UNCHANGED <<queue, current>>
       \/ /\ ~stop
          /\ current' = <<Head(queue)>>
          /\ queue' = Tail(queue)
          /\ worker' = "run"
    /\ UNCHANGED <<stop, owner, submitted, executed>>

(* Mutant: the newest job is taken first.                                  *)
TakeNewest ==
    /\ worker = "take"
    /\ \/ /\ stop /\ queue = <<>>
          /\ worker' = "done"
          /\ UNCHANGED <<queue, current>>
       \/ /\ queue # <<>>
          /\ current' = <<queue[Len(queue)]>>
          /\ queue' = SubSeq(queue, 1, Len(queue) - 1)
          /\ worker' = "run"
    /\ UNCHANGED <<stop, owner, submitted, executed>>

TakeOrLeave ==
    /\ worker = "take"
    /\ \/ /\ stop /\ queue = <<>>
          /\ worker' = "done"
          /\ UNCHANGED <<queue, current>>
       \/ /\ queue # <<>>
          /\ current' = <<Head(queue)>>
          /\ queue' = Tail(queue)
          /\ worker' = "run"
    /\ UNCHANGED <<stop, owner, submitted, executed>>

(* The job runs outside the lock, to its end.                              *)
RunJob ==
    /\ worker = "run"
    /\ executed' = executed \o current
    /\ current' = <<>>
    /\ worker' = "lock"
    /\ UNCHANGED <<queue, stop, owner, submitted>>

-----------------------------------------------------------------------------
Owner ==
    \/ \E j \in Job : Enqueue(j)
    \/ NotifyOne \/ SetStop \/ NotifyAll \/ Join

Worker == Lock \/ TestPredicate \/ Block \/ TakeOrLeave \/ RunJob

Next == Owner \/ Worker \/ SpuriousWakeup

(* Both threads are scheduled: the worker's steps, and the steps the       *)
(* render thread is committed to once it is inside Enqueue or the          *)
(* destructor. It need not ever enqueue, nor destroy the worker, and no    *)
(* wakeup is owed to a sleeping thread.                                    *)
Fairness ==
    /\ WF_vars(Worker)
    /\ WF_vars(NotifyOne \/ NotifyAll \/ Join)

Spec == Init /\ [][Next]_vars /\ Fairness

-----------------------------------------------------------------------------
(* Properties.                                                             *)

(* Every variable stays in its type, and a job is in hand exactly while    *)
(* one runs.                                                               *)
TypeOK ==
    /\ queue \in Seq(Job) /\ stop \in BOOLEAN
    /\ owner \in OwnerAt /\ worker \in WorkerAt
    /\ current \in {<<>>} \cup {<<j>> : j \in Job}
    /\ worker = "run" <=> current # <<>>
    /\ submitted \in Seq(Job) /\ executed \in Seq(Job)

(* ApiWorker.h: jobs run strictly in submission order, none skipped and    *)
(* none twice; what has not run is in hand or in the queue.                *)
SubmissionOrder == submitted = executed \o current \o queue

(* App.h: when the destructor returns, every job has run to its end and    *)
(* the thread is out of Run, so that the members the jobs use can go.      *)
DrainedWhenDestroyed == owner = "gone" => executed = submitted /\ worker = "done"

(* Every job that is enqueued runs, whatever the render thread does next:  *)
(* the wakeup it gives is never lost with a job in the queue.              *)
EveryJobRuns ==
    \A n \in 1 .. MaxJobs : Len(submitted) >= n ~> Len(executed) >= n

(* The destructor returns when its notification does not fall between the  *)
(* worker's test and its sleep.                                            *)
JoinReturnsUnlessMissed ==
    (owner = "joining" /\ worker \notin {"block", "asleep"}) ~> owner = "gone"

(* The queue implements the promise of JobOrder, liveness included.        *)
Order == INSTANCE JobOrder WITH open <- owner # "gone"
KeepsOrder == Order!Spec

(* App.h: the destructor blocks until the queue is drained and the thread  *)
(* has stopped; it is expected to return.                                  *)
DestructorReturns == owner = "joining" ~> owner = "gone"
=============================================================================
