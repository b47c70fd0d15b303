-------------------------- MODULE ApiWorkerProofs --------------------------
(***************************************************************************)
(* What ApiWorker.tla promises of its queue and its destructor, for every  *)
(* set of jobs and every number of submissions: jobs run in the order of   *)
(* submission, none is left when the worker is gone, and each step is one  *)
(* of JobOrder or a stutter. Liveness is left to the model checker.        *)
(***************************************************************************)
EXTENDS ApiWorker, SequenceTheorems, TLAPS

(* Where the two threads can be together.                                  *)
Phase ==
    /\ stop <=> owner \in {"notify_all", "joining", "gone"}
    /\ worker = "take" => stop \/ queue # <<>>
    /\ worker = "done" => stop /\ queue = <<>>
    /\ owner = "gone" => worker = "done"

IInv == TypeOK /\ SubmissionOrder /\ Phase

-----------------------------------------------------------------------------
(* Appending at the end of a concatenation.                                *)
LEMMA AppendConcat ==
    ASSUME NEW s \in Seq(Job), NEW t \in Seq(Job), NEW e \in Job
    PROVE  Append(s \o t, e) = s \o Append(t, e)
<1>1. Append(t, e) = t \o <<e>> /\ Append(s \o t, e) = (s \o t) \o <<e>>
  BY AppendIsConcat, ConcatProperties
<1>2. <<e>> \in Seq(Job)
  OBVIOUS
<1> QED
  BY <1>1, <1>2, ConcatAssociative

(* Taking the head of the second sequence to the end of the first.         *)
LEMMA HeadMoves ==
    ASSUME NEW S, NEW s \in Seq(S), NEW t \in Seq(S), t # <<>>
    PROVE  s \o t = (s \o <<Head(t)>>) \o Tail(t)
<1>1. Head(t) \in S /\ Tail(t) \in Seq(S) /\ <<Head(t)>> \in Seq(S)
  BY HeadTailProperties
<1>2. t = <<Head(t)>> \o Tail(t)
  BY HeadTailProperties, ConcatProperties, SeqEqual, <1>1
<1>3. (s \o <<Head(t)>>) \o Tail(t) = s \o (<<Head(t)>> \o Tail(t))
  BY <1>1, ConcatAssociative
<1> QED
  BY <1>2, <1>3

(* What the worker has in hand is a sequence of at most one job.           *)
LEMMA HandIsSeq == TypeOK => current \in Seq(Job)
<1> SUFFICES ASSUME TypeOK PROVE current \in Seq(Job)
  OBVIOUS
<1>1. CASE current = <<>>
  BY <1>1
<1>2. CASE current # <<>>
  <2>1. PICK j \in Job : current = <<j>>
    BY <1>2 DEF TypeOK
  <2> QED
    BY <2>1
<1> QED
  BY <1>1, <1>2

(* The initial state satisfies the invariant.                              *)
LEMMA InitInv == Init => IInv
  BY ConcatEmptySeq, EmptySeq
  DEF Init, IInv, TypeOK, SubmissionOrder, Phase, OwnerAt, WorkerAt

(* Every step keeps the types.                                             *)
LEMMA TypeStep == IInv /\ [Next]_vars => TypeOK'
<1> SUFFICES ASSUME IInv, [Next]_vars PROVE TypeOK'
  OBVIOUS
<1> USE DEF IInv, TypeOK, OwnerAt, WorkerAt
<1>1. ASSUME NEW j \in Job, Enqueue(j) PROVE TypeOK'
  BY <1>1, AppendProperties DEF Enqueue
<1>2. CASE NotifyOne
  BY <1>2 DEF NotifyOne, Wake
<1>3. CASE SetStop
  BY <1>3 DEF SetStop
<1>4. CASE NotifyAll
  BY <1>4 DEF NotifyAll, Wake
<1>5. CASE Join
  BY <1>5 DEF Join
<1>6. CASE Lock
  BY <1>6 DEF Lock
<1>7. CASE TestPredicate
  BY <1>7 DEF TestPredicate
<1>8. CASE Block
  BY <1>8 DEF Block
<1>9. CASE TakeOrLeave
  <2>1. CASE queue = <<>>
    BY <1>9, <2>1 DEF TakeOrLeave
  <2>2. CASE queue # <<>>
    <3>1. Head(queue) \in Job /\ Tail(queue) \in Seq(Job)
      BY <2>2, HeadTailProperties
    <3>2. current' = <<Head(queue)>> /\ queue' = Tail(queue) /\ worker' = "run"
      BY <1>9, <2>2 DEF TakeOrLeave
    <3>3. current' \in {<<j>> : j \in Job} /\ current' # <<>>
      BY <3>1, <3>2
    <3> QED
      BY <1>9, <3>1, <3>2, <3>3 DEF TakeOrLeave
  <2> QED
    BY <2>1, <2>2
<1>10. CASE RunJob
  <2>1. current \in Seq(Job)
    BY HandIsSeq
  <2>2. executed \o current \in Seq(Job)
    BY <2>1, ConcatProperties
  <2> QED
    BY <1>10, <2>2 DEF RunJob
<1>11. CASE SpuriousWakeup
  BY <1>11 DEF SpuriousWakeup
<1>12. CASE UNCHANGED vars
  BY <1>12 DEF vars
<1> QED
  BY <1>1, <1>2, <1>3, <1>4, <1>5, <1>6, <1>7, <1>8, <1>9, <1>10, <1>11, <1>12
  DEF Next, Owner, Worker

(* Every step keeps the order: a job goes from the queue into the worker's *)
(* hand and from there to the jobs that have run.                          *)
LEMMA OrderStep == IInv /\ [Next]_vars => SubmissionOrder'
<1> SUFFICES ASSUME IInv, [Next]_vars PROVE SubmissionOrder'
  OBVIOUS
<1> USE DEF IInv, TypeOK, SubmissionOrder
<1>0. current \in Seq(Job) /\ executed \o current \in Seq(Job)
  <2>1. current \in Seq(Job)
    BY HandIsSeq
  <2> QED
    BY <2>1, ConcatProperties
<1>1. ASSUME NEW j \in Job, Enqueue(j) PROVE SubmissionOrder'
  <2>1. Append((executed \o current) \o queue, j) = (executed \o current) \o Append(queue, j)
    <3> DEFINE ran == executed \o current
    <3>1. ran \in Seq(Job) /\ queue \in Seq(Job) /\ j \in Job
      BY <1>0
    <3> HIDE DEF ran
    <3>2. Append(ran \o queue, j) = ran \o Append(queue, j)
      BY ONLY <3>1, AppendConcat
    <3> QED
      BY <3>2 DEF ran
  <2> QED
    BY <1>1, <2>1 DEF Enqueue
<1>2. CASE TakeOrLeave
  <2>1. CASE queue = <<>>
    BY <1>2, <2>1 DEF TakeOrLeave
  <2>2. CASE queue # <<>>
    <3>1. current = <<>> /\ executed \o current = executed
      BY <1>2, ConcatEmptySeq DEF TakeOrLeave
    <3>2. executed \o queue = (executed \o <<Head(queue)>>) \o Tail(queue)
      BY <2>2, HeadMoves
    <3>3. current' = <<Head(queue)>> /\ queue' = Tail(queue)
      BY <1>2, <2>2 DEF TakeOrLeave
    <3> QED
      BY <1>2, <3>1, <3>2, <3>3 DEF TakeOrLeave
  <2> QED
    BY <2>1, <2>2
<1>3. CASE RunJob
  <2>1. (executed \o current) \o <<>> = executed \o current
    BY <1>0, ConcatEmptySeq
  <2> QED
    BY <1>3, <2>1 DEF RunJob
<1>4. CASE UNCHANGED <<queue, current, submitted, executed>>
  BY <1>4
<1> QED
  BY <1>1, <1>2, <1>3, <1>4
  DEF Next, Owner, Worker, NotifyOne, SetStop, NotifyAll, Join, Lock,
      TestPredicate, Block, SpuriousWakeup, vars

(* Every step keeps the two threads' phases together.                      *)
LEMMA PhaseStep == IInv /\ [Next]_vars => Phase'
<1> SUFFICES ASSUME IInv, [Next]_vars PROVE Phase'
  OBVIOUS
<1> USE DEF IInv, TypeOK, Phase, OwnerAt, WorkerAt
<1>1. ASSUME NEW j \in Job, Enqueue(j) PROVE Phase'
  <2>1. queue' # <<>>
    BY <1>1, AppendProperties DEF Enqueue
  <2> QED
    BY <1>1, <2>1 DEF Enqueue
<1>2. CASE NotifyOne
  BY <1>2 DEF NotifyOne, Wake
<1>3. CASE SetStop
  BY <1>3 DEF SetStop
<1>4. CASE NotifyAll
  BY <1>4 DEF NotifyAll, Wake
<1>5. CASE Join
  BY <1>5 DEF Join
<1>6. CASE Lock
  BY <1>6 DEF Lock
<1>7. CASE TestPredicate
  BY <1>7 DEF TestPredicate
<1>8. CASE Block
  BY <1>8 DEF Block
<1>9. CASE TakeOrLeave
  BY <1>9 DEF TakeOrLeave
<1>10. CASE RunJob
  BY <1>10 DEF RunJob
<1>11. CASE SpuriousWakeup
  BY <1>11 DEF SpuriousWakeup
<1>12. CASE UNCHANGED vars
  BY <1>12 DEF vars
<1> QED
  BY <1>1, <1>2, <1>3, <1>4, <1>5, <1>6, <1>7, <1>8, <1>9, <1>10, <1>11, <1>12
  DEF Next, Owner, Worker

(* The strengthened invariant of the specification.                        *)
THEOREM Invariance == Spec => []IInv
<1>1. IInv /\ [Next]_vars => IInv'
  BY TypeStep, OrderStep, PhaseStep DEF IInv
<1> QED
  BY InitInv, <1>1, PTL DEF Spec

(* Types are kept, for any set of jobs.                                    *)
THEOREM TypeCorrect == Spec => []TypeOK
<1>1. IInv => TypeOK
  BY DEF IInv
<1> QED
  BY Invariance, <1>1, PTL

(* Jobs run strictly in submission order, each once.                       *)
THEOREM RunsInSubmissionOrder == Spec => []SubmissionOrder
<1>1. IInv => SubmissionOrder
  BY DEF IInv
<1> QED
  BY Invariance, <1>1, PTL

(* Nothing is left to run, and nothing running, when the destructor        *)
(* returns.                                                                *)
THEOREM DestructorDrains == Spec => []DrainedWhenDestroyed
<1>1. IInv => DrainedWhenDestroyed
  <2> SUFFICES ASSUME IInv, owner = "gone" PROVE executed = submitted /\ worker = "done"
    BY DEF DrainedWhenDestroyed
  <2>1. worker = "done" /\ queue = <<>> /\ current = <<>>
    BY DEF IInv, Phase, TypeOK
  <2>2. executed \o <<>> = executed
    BY ConcatEmptySeq DEF IInv, TypeOK
  <2> QED
    BY <2>1, <2>2 DEF IInv, SubmissionOrder
<1> QED
  BY Invariance, <1>1, PTL

-----------------------------------------------------------------------------
(* Every step of the worker and its owner is a step of JobOrder, or none.  *)
LEMMA OrderRefined == IInv /\ IInv' /\ [Next]_vars => [Order!Next]_(Order!vars)
<1> SUFFICES ASSUME IInv, IInv', [Next]_vars PROVE [Order!Next]_(Order!vars)
  OBVIOUS
<1> USE DEF IInv, TypeOK, Order!vars
<1>1. ASSUME NEW j \in Job, Enqueue(j) PROVE Order!Submit(j)
  BY <1>1 DEF Enqueue, Order!Submit
<1>2. ASSUME RunJob PROVE Order!Execute
  <2>1. PICK j \in Job : current = <<j>>
    BY <1>2 DEF RunJob
  <2>2. submitted = (executed \o <<j>>) \o queue
    BY <2>1 DEF SubmissionOrder
  <2>3. Len(executed \o <<j>>) = Len(executed) + 1 /\ (executed \o <<j>>) \in Seq(Job)
    OBVIOUS
  <2>4. Len(submitted) = Len(executed) + 1 + Len(queue)
    BY <2>2, <2>3
  <2>5. submitted[Len(executed) + 1] = j
    BY <2>2, <2>3
  <2>6. executed' = Append(executed, j)
    BY <1>2, <2>1, AppendIsConcat DEF RunJob
  <2>7. Len(executed) < Len(submitted)
    BY <2>4, LenProperties
  <2> QED
    BY <1>2, <2>5, <2>6, <2>7 DEF RunJob, Order!Execute, Phase
<1>3. ASSUME Join PROVE Order!Destroy
  <2>1. executed = submitted
    <3>1. queue = <<>> /\ current = <<>>
      BY <1>3 DEF Join, Phase
    <3>2. executed \o <<>> = executed
      BY ConcatEmptySeq
    <3> QED
      BY <3>1, <3>2 DEF SubmissionOrder
  <2> QED
    BY <1>3, <2>1 DEF Join, Order!Destroy
<1>4. CASE UNCHANGED <<submitted, executed, owner # "gone">>
  BY <1>4
<1>5. \/ NotifyOne \/ SetStop \/ NotifyAll \/ Lock \/ TestPredicate \/ Block
      \/ TakeOrLeave \/ SpuriousWakeup \/ UNCHANGED vars
      => UNCHANGED <<submitted, executed, owner # "gone">>
  BY DEF NotifyOne, SetStop, NotifyAll, Lock, TestPredicate, Block,
         TakeOrLeave, SpuriousWakeup, vars
<1> QED
  BY <1>1, <1>2, <1>3, <1>4, <1>5 DEF Next, Owner, Worker, Order!Next

(* The safety part of KeepsOrder: to the code that enqueues, the worker    *)
(* behaves as the queue of JobOrder.                                       *)
THEOREM KeepsSubmissionOrder == Spec => Order!Init /\ [][Order!Next]_(Order!vars)
<1>1. Init => Order!Init
  BY DEF Init, Order!Init
<1> QED
  BY <1>1, OrderRefined, Invariance, PTL DEF Spec
=============================================================================
