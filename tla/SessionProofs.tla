--------------------------- MODULE SessionProofs ---------------------------
(***************************************************************************)
(* Proofs about Session, for any processes, tokens, batch size and number  *)
(* of sessions and samples.                                                *)
(***************************************************************************)
EXTENDS Session, SequenceTheorems, FiniteSetTheorems, WellFoundedInduction, TLAPS

IsStart(j) == j.kind = "start"
IsCall(j) == j.kind \in {"samples", "end"}

(* The buffer holds samples that were taken.                               *)
BufferTaken == buffer <= taken

(* The boost phase's two records, as they are while nothing is boosted.    *)
Recorded == PrioritiesRecorded /\ PowerRecorded

(* The server has given out the first c sessions.                          *)
UsedUpTo(c) == \A s \in SessionId : server[s] = "none" <=> s > c

(* At most one start is in the queue or the mailbox, as m_sessionStarting  *)
(* says; and there are no more sessions than starts, fewer while one       *)
(* waits.                                                                  *)
Starts ==
    /\ \A i, k \in DOMAIN jobs : IsStart(jobs[i]) /\ IsStart(jobs[k]) => i = k
    /\ starting <=> (\E k \in DOMAIN jobs : IsStart(jobs[k])) \/ startBox # <<>>
    /\ startBox # <<>> => \A k \in DOMAIN jobs : ~IsStart(jobs[k])
    /\ starting => ~active
    /\ \E c \in Nat : UsedUpTo(c) /\ c <= starts
                       /\ ((\E k \in DOMAIN jobs : IsStart(jobs[k])) => c < starts)

(* Every call that waits is for an open session, and none waits behind the *)
(* end of its session.                                                     *)
Calls ==
    /\ \A k \in DOMAIN jobs : IsCall(jobs[k]) => server[jobs[k].session] = "open"
    /\ \A i, k \in DOMAIN jobs :
          i < k /\ jobs[i].kind = "end" /\ IsCall(jobs[k]) => jobs[i].session # jobs[k].session
    /\ active => /\ server[session] = "open"
                 /\ \A k \in DOMAIN jobs : jobs[k].kind = "end" => jobs[k].session # session
    /\ startBox # <<>> /\ startBox[1] # None =>
          /\ server[startBox[1]] = "open"
          /\ \A k \in DOMAIN jobs : IsCall(jobs[k]) => jobs[k].session # startBox[1]
    /\ NoStrayCall

Inv == TypeOK /\ BufferTaken /\ Recorded /\ Starts /\ Calls

-----------------------------------------------------------------------------
(* What a step can do to the queue and to what goes with it, and what it   *)
(* can do to the machine.                                                  *)
line == <<jobs, server, starts, starting, startBox, active, session, stray>>

Aside == UNCHANGED line

Answered ==
    /\ startBox # <<>> /\ startBox' = <<>> /\ starting' = FALSE
    /\ \/ startBox[1] # None /\ session' = startBox[1] /\ active' = TRUE
       \/ startBox[1] = None /\ UNCHANGED <<session, active>>
    /\ UNCHANGED <<jobs, server, starts, stray>>

Asked ==
    /\ device # <<>> /\ ~active /\ ~starting
    /\ starts < MaxSessions /\ starts' = starts + 1 /\ starting' = TRUE
    /\ jobs' = Append(jobs, [kind |-> "start", token |-> device[1]])
    /\ UNCHANGED <<server, startBox, active, session, stray>>

Flushed ==
    /\ device # <<>> /\ active /\ taken < MaxSamples
    /\ jobs' = Append(jobs, Call("samples", buffer + 1))
    /\ UNCHANGED <<server, starts, starting, startBox, active, session, stray>>

Stopped ==
    /\ device # <<>> /\ active
    /\ jobs' = Append(jobs, Call("end", buffer))
    /\ active' = FALSE /\ session' = None
    /\ UNCHANGED <<server, starts, starting, startBox, stray>>

Submitted ==
    /\ jobs' = Append(jobs, [kind |-> "register"])
    /\ UNCHANGED <<server, starts, starting, startBox, active, session, stray>>

machine == <<adjusted, priority, powerBy, powerChanged, stuckPower>>

Left ==
    /\ UNCHANGED machine
    /\ phase' = phase \/ (phase # "Active" /\ phase' # "Active")

Boosted ==
    /\ phase # "Active" /\ phase' = "Active"
    /\ \E S \in SUBSET Process : BeginForPid(S)
    /\ BeginHighPerformancePower
    /\ UNCHANGED stuckPower

Restored == End /\ EndHighPerformancePower /\ phase' = "Idle"

SwitchedBack == EndHighPerformancePower /\ UNCHANGED <<adjusted, priority, phase>>

-----------------------------------------------------------------------------
LEMMA BoostSteps ==
    ASSUME BoostAndStart, phase # "Active", UNCHANGED <<boxes, remote>>
    PROVE  (Aside \/ Asked) /\ Boosted
<1>1. Aside \/ Asked
  BY DEF BoostAndStart, StartSession, Aside, Asked, line, boxes, remote
<1>2. Boosted
  BY DEF BoostAndStart, Boosted
<1> QED
  BY <1>1, <1>2

LEMMA RequestSteps ==
    ASSUME RequestStartSession, UNCHANGED <<boxes, remote>>
    PROVE  (Aside \/ Asked) /\ (Boosted \/ Left)
<1>1. CASE BoostAndStart /\ phase = "Idle"
  BY <1>1, BoostSteps
<1>2. CASE phase' = "CountingDown" /\ phase = "Idle" /\ UNCHANGED <<starting, active, session, tweaks, jobs, counts>>
  BY <1>2 DEF Aside, line, boxes, remote, counts, tweaks, Left, machine
<1> QED
  BY <1>1, <1>2 DEF RequestStartSession

LEMMA StopSteps ==
    ASSUME StopSession, UNCHANGED <<boxes, remote, starting, counts>>
    PROVE  (Aside \/ Stopped) /\ (Left \/ Restored)
<1>1. CASE active /\ device # <<>>
  BY <1>1 DEF StopSession, Stopped, Restored, boxes, remote, counts
<1>2. CASE ~(active /\ device # <<>>)
  BY <1>2 DEF StopSession, Aside, line, boxes, remote, counts, Left, machine, tweaks
<1> QED
  BY <1>1, <1>2

(* Every step is one of these, but the worker's for the queue.             *)
LEMMA Steps ==
    ASSUME [Next]_vars
    PROVE  /\ Aside \/ Answered \/ Asked \/ Flushed \/ Stopped \/ Submitted \/ RunJob
           /\ Left \/ Boosted \/ Restored \/ SwitchedBack
<1> DEFINE P == /\ Aside \/ Answered \/ Asked \/ Flushed \/ Stopped \/ Submitted \/ RunJob
                /\ Left \/ Boosted \/ Restored \/ SwitchedBack
<1>1. CASE TakeLicenseResult
  BY <1>1 DEF TakeLicenseResult, Aside, line, Left, machine, tweaks, remote, counts
<1>2. CASE TakeStartResult
  <2>1. Aside \/ Answered
    BY <1>2 DEF TakeStartResult, Aside, Answered, line, boxes, remote, counts
  <2>2. Left
    BY <1>2 DEF TakeStartResult, Left, machine, tweaks
  <2> QED
    BY <2>1, <2>2
<1>3. CASE Countdown
  <2>1. CASE phase = "CountingDown" /\ BoostAndStart
    BY <1>3, <2>1, BoostSteps DEF Countdown
  <2>2. CASE UNCHANGED <<app, tweaks, jobs, counts>>
    BY <1>3, <2>2 DEF Countdown, Aside, line, app, boxes, remote, counts, Left, machine, tweaks
  <2> QED
    BY <1>3, <2>1, <2>2 DEF Countdown
<1>4. CASE AutoStart
  <2>1. CASE RequestStartSession
    BY <1>4, <2>1, RequestSteps DEF AutoStart
  <2>2. CASE UNCHANGED <<app, tweaks, jobs, counts>>
    BY <1>4, <2>2 DEF AutoStart, Aside, line, app, boxes, remote, counts, Left, machine, tweaks
  <2> QED
    BY <1>4, <2>1, <2>2 DEF AutoStart
<1>5. CASE SampleTick
  <2>1. Aside \/ Flushed
    BY <1>5 DEF SampleTick, Aside, Flushed, line, boxes, remote, counts
  <2>2. Left
    BY <1>5 DEF SampleTick, Left, machine, tweaks
  <2> QED
    BY <2>1, <2>2
<1>6. CASE LookOnly
  BY <1>6 DEF LookOnly, Draw, Aside, line, app, boxes, remote, counts, Left, machine, tweaks
<1>7. CASE SubmitLicenseKey
  BY <1>7 DEF SubmitLicenseKey, Draw, Submitted, boxes, remote, counts, Left, machine, tweaks
<1>8. CASE PressStart
  BY <1>8, RequestSteps DEF PressStart, Draw
<1>9. CASE StartFromGameCard
  BY <1>9, BoostSteps DEF StartFromGameCard, Draw
<1>10. CASE PressCancel
  BY <1>10 DEF PressCancel, CancelStartRequest, Draw, Aside, line, boxes, remote, counts,
     Left, machine, tweaks
<1>11. CASE PressStop
  BY <1>11, StopSteps DEF PressStop, Draw
<1>12. CASE Unlink
  BY <1>12, StopSteps DEF Unlink, Draw
<1>13. CASE TogglePerformance
  <2>1. Aside
    BY <1>13 DEF TogglePerformance, Draw, Aside, line, boxes, remote, counts
  <2>2. Left \/ SwitchedBack
    BY <1>13 DEF TogglePerformance, Left, machine, SwitchedBack
  <2> QED
    BY <2>1, <2>2
<1>14. CASE Close
  BY <1>14 DEF Close, Aside, line, app, boxes, remote, counts, Left, machine, tweaks
<1>15. CASE RunJob
  BY <1>15 DEF RunJob, app, Left, machine, tweaks
<1>16. CASE UNCHANGED vars
  BY <1>16 DEF vars, Aside, line, app, boxes, remote, counts, Left, machine, tweaks
<1> QED
  BY <1>1, <1>2, <1>3, <1>4, <1>5, <1>6, <1>7, <1>8, <1>9, <1>10, <1>11, <1>12, <1>13,
     <1>14, <1>15, <1>16 DEF Next, Update, Buttons

-----------------------------------------------------------------------------
(* Positions in the queue before and after a job is put in or taken out.   *)
LEMMA AppendToEmpty == ASSUME NEW x PROVE Append(<<>>, x) = <<x>>
<1>1. <<>> \in Seq({x}) /\ <<x>> \in Seq({x}) /\ x \in {x}
  OBVIOUS
<1>2. Append(<<>>, x) = <<>> \o <<x>>
  BY <1>1, AppendIsConcat
<1> QED
  BY <1>1, <1>2, ConcatEmptySeq

LEMMA AppendFacts ==
    ASSUME NEW q \in Seq(Job), NEW j \in Job, NEW r, r = Append(q, j)
    PROVE  /\ r \in Seq(Job)
           /\ \E last \in DOMAIN r :
                 /\ r[last] = j /\ last \notin DOMAIN q
                 /\ \A k \in DOMAIN q : k < last /\ k \in DOMAIN r /\ r[k] = q[k]
                 /\ \A k \in DOMAIN r : k = last \/ k \in DOMAIN q
<1>1. r \in Seq(Job) /\ Len(r) = Len(q) + 1 /\ r[Len(q) + 1] = j
      /\ \A k \in 1 .. Len(q) : r[k] = q[k]
  BY AppendProperties
<1>2. DOMAIN r = 1 .. (Len(q) + 1) /\ DOMAIN q = 1 .. Len(q) /\ Len(q) \in Nat
  BY <1>1
<1> DEFINE last == Len(q) + 1
<1>3. last \in DOMAIN r /\ r[last] = j /\ last \notin DOMAIN q
  BY <1>1, <1>2
<1>4. \A k \in DOMAIN q : k < last /\ k \in DOMAIN r /\ r[k] = q[k]
  BY <1>1, <1>2
<1>5. \A k \in DOMAIN r : k = last \/ k \in DOMAIN q
  BY <1>2
<1> QED
  BY <1>1, <1>3, <1>4, <1>5

(* Every position of r is the one after it in q, and all but the first of  *)
(* q are in r.                                                             *)
Shifted(q, r) ==
    /\ DOMAIN r \subseteq Nat \ {0} /\ DOMAIN q \subseteq Nat \ {0}
    /\ \A k \in DOMAIN r : \E m \in DOMAIN q : m = k + 1 /\ r[k] = q[m]
    /\ \A m \in DOMAIN q : m = 1 \/ \E k \in DOMAIN r : m = k + 1 /\ r[k] = q[m]

LEMMA TailFacts ==
    ASSUME NEW q \in Seq(Job), q # <<>>, NEW r, r = Tail(q)
    PROVE  /\ r \in Seq(Job)
           /\ Head(q) \in Job /\ Head(q) = q[1] /\ 1 \in DOMAIN q
           /\ Shifted(q, r)
<1>1. /\ Head(q) = q[1] /\ r \in Seq(Job) /\ Len(r) = Len(q) - 1
      /\ Len(q) \in Nat \ {0}
  BY HeadTailProperties, EmptySeq
<1>2. \A k \in 1 .. Len(r) : r[k] = q[k + 1]
  BY HeadTailProperties
<1>3. DOMAIN r = 1 .. (Len(q) - 1) /\ DOMAIN q = 1 .. Len(q)
  BY <1>1
<1>4. q[1] \in Job /\ 1 \in DOMAIN q
  BY <1>1, <1>3
<1>5. \A k \in DOMAIN r : k + 1 \in DOMAIN q /\ r[k] = q[k + 1]
  BY <1>1, <1>2, <1>3
<1>6. ASSUME NEW m \in DOMAIN q, m # 1
      PROVE  \E k \in DOMAIN r : m = k + 1 /\ r[k] = q[m]
  <2>1. m - 1 \in DOMAIN r /\ m = (m - 1) + 1
    BY <1>1, <1>3, <1>6
  <2>2. r[m - 1] = q[m]
    BY <1>5, <2>1
  <2> QED
    BY <2>1, <2>2
<1>7. DOMAIN r \subseteq Nat \ {0} /\ DOMAIN q \subseteq Nat \ {0}
  BY <1>1, <1>3
<1> QED
  BY <1>1, <1>4, <1>5, <1>6, <1>7 DEF Shifted

LEMMA LastIsJob ==
    ASSUME NEW q \in Seq(Job), NEW j, Append(q, j) \in Seq(Job)
    PROVE  j \in Job
<1>1. Len(q) \in Nat /\ Len(Append(q, j)) = Len(q) + 1 /\ Append(q, j)[Len(q) + 1] = j
  OBVIOUS
<1> QED
  BY <1>1

LEMMA JobFacts ==
    ASSUME NEW j \in Job
    PROVE  /\ IsCall(j) => j.session \in SessionId /\ j.n \in 0 .. MaxSamples
           /\ j.kind \in {"register", "start", "samples", "end"}
BY DEF Job, IsCall
-----------------------------------------------------------------------------
(* Initially everything is as it should be.                                *)
LEMMA Initially == Init => Inv
<1> SUFFICES ASSUME Init PROVE Inv
  OBVIOUS
<1>1. TypeOK
  <2>1. jobs \in Seq(Job) /\ \A p \in Process : adjusted[p] \in Seq({"own", "changed"})
    BY EmptySeq DEF Init
  <2>2. adjusted \in [Process -> Seq({"own", "changed"})] /\ buffer \in 0 .. (Batch - 1)
    BY <2>1, BoundsAssumption DEF Init
  <2>3. /\ server \in [SessionId -> {"none", "open", "ended"}]
        /\ starts \in 0 .. MaxSessions /\ taken \in 0 .. MaxSamples /\ sent \in Nat
    BY BoundsAssumption DEF Init
  <2> QED
    BY <2>1, <2>2, <2>3 DEF Init, TypeOK, Frame, None
<1>2. BufferTaken
  BY DEF Init, BufferTaken
<1>3. Recorded
  BY DEF Init, Recorded, PrioritiesRecorded, PowerRecorded
<1>4. DOMAIN jobs = {}
  BY DEF Init
<1>5. Starts
  <2>1. UsedUpTo(0)
    BY BoundsAssumption DEF Init, UsedUpTo, SessionId
  <2> QED
    BY <1>4, <2>1 DEF Init, Starts
<1>6. Calls
  BY <1>4 DEF Init, Calls, NoStrayCall
<1> QED
  BY <1>1, <1>2, <1>3, <1>5, <1>6 DEF Inv

(* The buffer is emptied with every batch, start and end, and otherwise    *)
(* grows with what is taken.                                               *)
LEMMA BufferStep == TypeOK /\ BufferTaken /\ [Next]_vars => BufferTaken' /\ buffer' \in 0 .. (Batch - 1)
<1> SUFFICES ASSUME TypeOK, BufferTaken, [Next]_vars
             PROVE  BufferTaken' /\ buffer' \in 0 .. (Batch - 1)
  OBVIOUS
<1>a. /\ buffer \in Nat /\ taken \in Nat /\ Batch \in Nat \ {0}
      /\ buffer <= taken /\ buffer <= Batch - 1
  BY BoundsAssumption DEF TypeOK, BufferTaken
<1>b. CASE buffer' = buffer /\ taken' = taken
  BY <1>a, <1>b DEF BufferTaken
<1>c. CASE buffer' = 0 /\ taken' = taken
  BY <1>a, <1>c DEF BufferTaken
<1>d. CASE SampleTick
  BY <1>a, <1>b, <1>d DEF SampleTick, BufferTaken
<1>e. ASSUME BoostAndStart PROVE taken' = taken /\ (buffer' = buffer \/ buffer' = 0)
  BY <1>e DEF BoostAndStart, StartSession
<1>f. ASSUME RequestStartSession PROVE taken' = taken /\ (buffer' = buffer \/ buffer' = 0)
  BY <1>e, <1>f DEF RequestStartSession, counts
<1>g. CASE Countdown \/ AutoStart \/ PressStart \/ StartFromGameCard
  BY <1>b, <1>c, <1>e, <1>f, <1>g
  DEF Countdown, AutoStart, PressStart, StartFromGameCard, app, counts
<1>h. CASE PressStop \/ Unlink
  BY <1>b, <1>c, <1>h DEF PressStop, Unlink, StopSession, counts
<1>i. CASE TakeLicenseResult \/ TakeStartResult \/ LookOnly \/ SubmitLicenseKey \/ PressCancel
           \/ TogglePerformance \/ Close \/ RunJob \/ UNCHANGED vars
  BY <1>b, <1>i DEF TakeLicenseResult, TakeStartResult, LookOnly, SubmitLicenseKey, PressCancel,
     CancelStartRequest, TogglePerformance, Close, RunJob, app, counts, vars
<1> QED
  BY <1>d, <1>g, <1>h, <1>i DEF Next, Update, Buttons

(* What is put in the queue is a job, and the queue stays one of jobs.     *)
LEMMA QueueStep == TypeOK /\ BufferTaken /\ [Next]_vars => jobs' \in Seq(Job)
<1> SUFFICES ASSUME TypeOK, BufferTaken, [Next]_vars PROVE jobs' \in Seq(Job)
  OBVIOUS
<1>a. jobs \in Seq(Job) /\ device \in {<<>>} \cup {<<t>> : t \in Token}
  BY DEF TypeOK
<1>b. device # <<>> => device[1] \in Token
  BY <1>a
<1>c. active => session \in SessionId
  BY DEF TypeOK
<1>1. CASE Aside \/ Answered
  BY <1>1, <1>a DEF Aside, line, Answered
<1>2. CASE Asked
  <2>1. [kind |-> "start", token |-> device[1]] \in Job
    BY <1>2, <1>b DEF Asked, Job
  <2> QED
    BY <1>2, <1>a, <2>1, AppendFacts DEF Asked
<1>3. CASE Flushed
  <2>1. buffer + 1 \in 0 .. MaxSamples
    BY <1>3, BoundsAssumption DEF Flushed, TypeOK, BufferTaken
  <2>2. Call("samples", buffer + 1) \in Job
    BY <1>3, <1>b, <1>c, <2>1 DEF Flushed, Job, Call
  <2> QED
    BY <1>3, <1>a, <2>2, AppendFacts DEF Flushed
<1>4. CASE Stopped
  <2>1. buffer \in 0 .. MaxSamples
    BY BoundsAssumption DEF TypeOK, BufferTaken
  <2>2. Call("end", buffer) \in Job
    BY <1>4, <1>b, <1>c, <2>1 DEF Stopped, Job, Call
  <2> QED
    BY <1>4, <1>a, <2>2, AppendFacts DEF Stopped
<1>5. CASE Submitted
  <2>1. [kind |-> "register"] \in Job
    BY DEF Job
  <2> QED
    BY <1>5, <1>a, <2>1, AppendFacts DEF Submitted
<1>6. CASE RunJob
  BY <1>6, <1>a, TailFacts DEF RunJob
<1> QED
  BY <1>1, <1>2, <1>3, <1>4, <1>5, <1>6, Steps

(* A priority is recorded before it is changed, and put back from the      *)
(* record.                                                                 *)
LEMMA MachineStep ==
    TypeOK /\ Recorded /\ [Next]_vars =>
        /\ Recorded'
        /\ adjusted' \in [Process -> Seq({"own", "changed"})]
        /\ priority' \in [Process -> {"own", "changed"}]
        /\ powerBy' \in {"user", "nasaki"} /\ powerChanged' \in BOOLEAN
        /\ stuckPower' \in BOOLEAN
<1> SUFFICES ASSUME TypeOK, Recorded, [Next]_vars
             PROVE  /\ Recorded'
                    /\ adjusted' \in [Process -> Seq({"own", "changed"})]
                    /\ priority' \in [Process -> {"own", "changed"}]
                    /\ powerBy' \in {"user", "nasaki"} /\ powerChanged' \in BOOLEAN
                    /\ stuckPower' \in BOOLEAN
  OBVIOUS
<1> DEFINE Priority == {"own", "changed"}
           Fits == /\ adjusted' \in [Process -> Seq(Priority)]
                   /\ priority' \in [Process -> Priority]
           PowerFits == /\ powerBy' \in {"user", "nasaki"} /\ powerChanged' \in BOOLEAN
                        /\ stuckPower' \in BOOLEAN
<1>a. /\ adjusted \in [Process -> Seq(Priority)] /\ priority \in [Process -> Priority]
      /\ powerBy \in {"user", "nasaki"} /\ powerChanged \in BOOLEAN /\ stuckPower \in BOOLEAN
      /\ PrioritiesRecorded /\ PowerRecorded
  BY DEF TypeOK, Recorded
<1>b. <<>> \in Seq(Priority) /\ <<"own">> \in Seq(Priority)
  BY EmptySeq
<1>1. CASE Left
  <2>1. Fits /\ PowerFits
    BY <1>1, <1>a DEF Left, machine
  <2>2. PrioritiesRecorded' /\ PowerRecorded'
    BY <1>1, <1>a DEF Left, machine, PrioritiesRecorded, PowerRecorded
  <2> QED
    BY <2>1, <2>2 DEF Recorded
<1>2. CASE Boosted
  <2>1. \A p \in Process : priority[p] = "own" /\ adjusted[p] = <<>>
    BY <1>2, <1>a DEF Boosted, PrioritiesRecorded
  <2>2. PICK S \in SUBSET Process : BeginForPid(S)
    BY <1>2 DEF Boosted
  <2>3. Append(<<>>, "own") = <<"own">>
    BY AppendToEmpty
  <2>4. \A p \in Process : IF p \in S THEN priority'[p] = "changed" /\ adjusted'[p] = <<"own">>
                           ELSE priority'[p] = "own" /\ adjusted'[p] = <<>>
    BY <2>1, <2>2, <2>3 DEF BeginForPid
  <2>5. Fits
    BY <1>b, <2>2, <2>4 DEF BeginForPid
  <2>6. PowerFits
    BY <1>2, <1>a DEF Boosted, BeginHighPerformancePower
  <2>7. phase' = "Active"
    BY <1>2 DEF Boosted
  <2>8. PrioritiesRecorded'
    BY <2>4, <2>7 DEF PrioritiesRecorded
  <2>9. PowerRecorded'
    BY <1>2, <1>a, <2>7 DEF Boosted, BeginHighPerformancePower, PowerRecorded
  <2> QED
    BY <2>5, <2>6, <2>8, <2>9 DEF Recorded
<1>3. ASSUME EndHighPerformancePower
      PROVE  PowerFits /\ PowerRecorded'
  <2>1. PowerFits
    BY <1>3, <1>a DEF EndHighPerformancePower
  <2>2. PowerRecorded'
    BY <1>3, <1>a DEF EndHighPerformancePower, PowerRecorded
  <2> QED
    BY <2>1, <2>2
<1>4. CASE Restored
  <2>1. \A p \in Process : priority'[p] = "own" /\ adjusted'[p] = <<>>
    <3> SUFFICES ASSUME NEW p \in Process PROVE priority'[p] = "own" /\ adjusted'[p] = <<>>
      OBVIOUS
    <3>1. /\ priority'[p] = IF adjusted[p] = <<>> THEN priority[p] ELSE adjusted[p][Len(adjusted[p])]
          /\ adjusted'[p] = <<>>
      BY <1>4 DEF Restored, End
    <3>2. Len(<<"own">>) = 1 /\ <<"own">>[1] = "own" /\ <<"own">> # <<>>
      OBVIOUS
    <3>3. CASE priority[p] = "changed"
      BY <1>a, <3>1, <3>2, <3>3 DEF PrioritiesRecorded
    <3>4. CASE priority[p] # "changed"
      BY <1>a, <3>1, <3>4 DEF PrioritiesRecorded
    <3> QED
      BY <3>3, <3>4
  <2>2. Fits
    BY <1>4, <1>b, <2>1 DEF Restored, End
  <2>3. PrioritiesRecorded'
    BY <2>1 DEF PrioritiesRecorded
  <2> QED
    BY <1>3, <1>4, <2>2, <2>3 DEF Restored, Recorded
<1>5. CASE SwitchedBack
  <2>1. Fits /\ PrioritiesRecorded'
    BY <1>5, <1>a DEF SwitchedBack, PrioritiesRecorded
  <2> QED
    BY <1>3, <1>5, <2>1 DEF SwitchedBack, Recorded
<1> QED
  BY <1>1, <1>2, <1>4, <1>5, Steps
-----------------------------------------------------------------------------
(* The new session is one that was not in use, and not beyond the starts   *)
(* asked for.                                                              *)
LEMMA NextIsUnused ==
    ASSUME TypeOK, NEW c \in Nat, UsedUpTo(c), c < starts
    PROVE  NextSession = c + 1 /\ c + 1 \in SessionId
<1>1. starts \in 0 .. MaxSessions /\ MaxSessions \in Nat
  BY BoundsAssumption DEF TypeOK
<1>2. c + 1 \in SessionId
  BY <1>1 DEF SessionId
<1> DEFINE Unused(s) == server[s] = "none" /\ \A r \in 1 .. (s - 1) : server[r] # "none"
<1>3. Unused(c + 1)
  BY <1>1 DEF UsedUpTo, SessionId
<1>4. ASSUME NEW s \in SessionId, Unused(s) PROVE s = c + 1
  <2>1. s \in Nat /\ s > c /\ s <= MaxSessions
    BY <1>4 DEF UsedUpTo, SessionId
  <2>2. ~(c + 1 < s)
    <3>1. server[c + 1] = "none"
      BY <1>3
    <3>2. c + 1 < s => c + 1 \in 1 .. (s - 1)
      BY <2>1
    <3> QED
      BY <1>4, <3>1, <3>2
  <2> QED
    BY <2>1, <2>2
<1>5. NextSession = CHOOSE s \in SessionId : Unused(s)
  BY DEF NextSession
<1> HIDE DEF Unused
<1> QED
  BY <1>2, <1>3, <1>4, <1>5

(* A job that runs leaves the rest of the queue in place.                  *)
LEMMA StartsStep == Inv /\ [Next]_vars => Starts'
<1> SUFFICES ASSUME Inv, [Next]_vars PROVE Starts'
  OBVIOUS
<1>a. /\ TypeOK /\ Starts /\ jobs \in Seq(Job) /\ SessionId \subseteq Nat /\ starts \in Nat
      /\ starting \in BOOLEAN /\ active \in BOOLEAN
  BY BoundsAssumption DEF Inv, TypeOK, SessionId
<1>b. \A k \in DOMAIN jobs : jobs[k] \in Job
  BY <1>a
<1>c. ASSUME server' = server PROVE \A c : UsedUpTo(c)' <=> UsedUpTo(c)
  BY <1>c DEF UsedUpTo
<1>1. CASE Aside
  <2>1. UNCHANGED <<jobs, server, starts, starting, startBox, active>>
    BY <1>1 DEF Aside, line
  <2> QED
    BY <1>a, <1>c, <2>1 DEF Starts
<1>2. CASE Answered
  <2>1. UNCHANGED <<jobs, server, starts>> /\ ~starting' /\ startBox # <<>> /\ startBox' = <<>>
    BY <1>2 DEF Answered
  <2>2. \A k \in DOMAIN jobs : ~IsStart(jobs[k])
    BY <1>a, <2>1 DEF Starts
  <2> QED
    BY <1>a, <1>c, <2>1, <2>2 DEF Starts
<1>3. CASE Asked
  <2> DEFINE j == [kind |-> "start", token |-> device[1]]
  <2>1. j \in Job /\ IsStart(j)
    BY <1>3 DEF Asked, TypeOK, Inv, Job, IsStart
  <2>2. PICK last \in DOMAIN jobs' :
              /\ jobs'[last] = j /\ last \notin DOMAIN jobs
              /\ \A k \in DOMAIN jobs : k < last /\ k \in DOMAIN jobs' /\ jobs'[k] = jobs[k]
              /\ \A k \in DOMAIN jobs' : k = last \/ k \in DOMAIN jobs
    BY <1>3, <1>a, <2>1, AppendFacts DEF Asked
  <2> HIDE DEF j
  <2>3. startBox = <<>> /\ \A k \in DOMAIN jobs : ~IsStart(jobs[k])
    BY <1>3, <1>a DEF Asked, Starts
  <2>4. \A k \in DOMAIN jobs' : IsStart(jobs'[k]) <=> k = last
    BY <2>1, <2>2, <2>3
  <2>5. PICK c \in Nat : UsedUpTo(c) /\ c <= starts
    BY <1>a DEF Starts
  <2>6. UsedUpTo(c)' /\ c < starts' /\ c <= starts'
    BY <1>3, <1>a, <2>5 DEF Asked, UsedUpTo
  <2>7. starting' /\ ~active' /\ startBox' = <<>>
    BY <1>3, <2>3 DEF Asked
  <2> QED
    BY <2>2, <2>4, <2>6, <2>7 DEF Starts
<1>4. ASSUME NEW j \in Job, ~IsStart(j), jobs' = Append(jobs, j), active' => active,
             UNCHANGED <<server, starts, starting, startBox>>
      PROVE  Starts'
  <2>1. PICK last \in DOMAIN jobs' :
              /\ jobs'[last] = j /\ last \notin DOMAIN jobs
              /\ \A k \in DOMAIN jobs : k < last /\ k \in DOMAIN jobs' /\ jobs'[k] = jobs[k]
              /\ \A k \in DOMAIN jobs' : k = last \/ k \in DOMAIN jobs
    BY <1>4, <1>a, AppendFacts
  <2>2. \A k \in DOMAIN jobs' : IsStart(jobs'[k]) => k \in DOMAIN jobs /\ IsStart(jobs[k])
    BY <1>4, <2>1
  <2>3. \A k \in DOMAIN jobs : IsStart(jobs[k]) => k \in DOMAIN jobs' /\ IsStart(jobs'[k])
    BY <2>1
  <2>4. \A c : UsedUpTo(c)' <=> UsedUpTo(c)
    BY <1>4 DEF UsedUpTo
  <2> QED
    BY <1>4, <1>a, <2>2, <2>3, <2>4 DEF Starts
<1>5. CASE Flushed
  <2>1. jobs' \in Seq(Job)
    BY QueueStep DEF Inv
  <2>2. PICK j : jobs' = Append(jobs, j) /\ j = Call("samples", buffer + 1)
    BY <1>5 DEF Flushed
  <2>3. j \in Job
    BY <1>a, <2>1, <2>2, LastIsJob
  <2> QED
    BY <1>4, <1>5, <2>2, <2>3 DEF Flushed, Call, IsStart
<1>6. CASE Stopped
  <2>1. jobs' \in Seq(Job)
    BY QueueStep DEF Inv
  <2>2. PICK j : jobs' = Append(jobs, j) /\ j = Call("end", buffer)
    BY <1>6 DEF Stopped
  <2>3. j \in Job
    BY <1>a, <2>1, <2>2, LastIsJob
  <2> QED
    BY <1>4, <1>6, <2>2, <2>3 DEF Stopped, Call, IsStart
<1>7. CASE Submitted
  <2>1. [kind |-> "register"] \in Job /\ ~IsStart([kind |-> "register"])
    BY DEF Job, IsStart
  <2> QED
    BY <1>4, <1>7, <2>1 DEF Submitted
<1>8. CASE RunJob
  <2>0. jobs # <<>> /\ jobs' = Tail(jobs)
    BY <1>8 DEF RunJob
  <2>1. /\ Head(jobs) \in Job /\ Head(jobs) = jobs[1] /\ 1 \in DOMAIN jobs
        /\ Shifted(jobs, jobs')
    BY ONLY <1>a, <2>0, TailFacts
  <2>2. UNCHANGED <<starts, starting, active>>
    BY <1>8 DEF RunJob, app, counts
  <2>3. \A i, k \in DOMAIN jobs' : IsStart(jobs'[i]) /\ IsStart(jobs'[k]) => i = k
    BY <1>a, <2>1 DEF Starts, Shifted
  <2>4. (\E k \in DOMAIN jobs' : IsStart(jobs'[k]))
            => ~IsStart(jobs[1])
    <3> SUFFICES ASSUME NEW k \in DOMAIN jobs', IsStart(jobs'[k]) PROVE ~IsStart(jobs[1])
      OBVIOUS
    <3>1. PICK m \in DOMAIN jobs : m = k + 1 /\ jobs'[k] = jobs[m]
      BY <2>1 DEF Shifted
    <3>2. m # 1
      BY <2>1, <3>1 DEF Shifted
    <3> QED
      BY <1>a, <2>1, <3>1, <3>2 DEF Starts
  <2>5. CASE SessionStart(Head(jobs))
    <3>1. IsStart(jobs[1])
      BY <2>1, <2>5 DEF SessionStart, IsStart
    <3>2. startBox' # <<>> /\ starting
      BY <1>a, <2>1, <2>5, <3>1 DEF SessionStart, Starts
    <3>3. PICK c \in Nat : UsedUpTo(c) /\ c < starts
      BY <1>a, <2>1, <3>1 DEF Starts
    <3>4. NextSession = c + 1 /\ c + 1 \in SessionId /\ c + 1 <= starts
      BY <1>a, <3>3, NextIsUnused
    <3>5. UsedUpTo(c)' \/ UsedUpTo(c + 1)'
      <4>1. CASE server' = server
        BY <3>3, <4>1 DEF UsedUpTo
      <4>2. CASE server' = [server EXCEPT ![c + 1] = "open"]
        BY <1>a, <3>3, <3>4, <4>2 DEF UsedUpTo, TypeOK
      <4> QED
        BY <2>5, <3>4, <4>1, <4>2 DEF SessionStart
    <3>6. \E d \in Nat : UsedUpTo(d)' /\ d <= starts
      BY <3>3, <3>4, <3>5, <1>a
    <3>7. \A k \in DOMAIN jobs' : ~IsStart(jobs'[k])
      BY <2>4, <3>1
    <3> QED
      BY <1>a, <2>2, <3>2, <3>6, <3>7 DEF Starts
  <2>6. CASE ~IsStart(Head(jobs)) /\ startBox' = startBox
             /\ \A s \in SessionId : server[s] = "none" <=> server'[s] = "none"
    <3>1. (\E k \in DOMAIN jobs' : IsStart(jobs'[k])) <=> (\E m \in DOMAIN jobs : IsStart(jobs[m]))
      BY <2>1, <2>6 DEF Shifted
    <3>2. \A c : UsedUpTo(c)' <=> UsedUpTo(c)
      BY <2>6 DEF UsedUpTo
    <3> QED
      BY <1>a, <2>2, <2>3, <2>6, <3>1, <3>2 DEF Starts
  <2>7. CASE Register(Head(jobs))
    BY <2>6, <2>7 DEF Register, IsStart, remote
  <2>8. CASE SendSamples(Head(jobs))
    BY <2>6, <2>8 DEF SendSamples, IsStart, boxes
  <2>9. CASE SessionEnd(Head(jobs))
    <3>1. Head(jobs).session \in SessionId /\ server[Head(jobs).session] = "open"
      BY <2>1, <2>9, JobFacts DEF SessionEnd, Inv, Calls, IsCall
    <3> QED
      BY <1>a, <2>6, <2>9, <3>1 DEF SessionEnd, IsStart, boxes, TypeOK
  <2> QED
    BY <1>8, <2>5, <2>7, <2>8, <2>9 DEF RunJob
<1> QED
  BY <1>1, <1>2, <1>3, <1>5, <1>6, <1>7, <1>8, Steps

(* A stop puts the end behind the calls of its session, and after it no    *)
(* call of that session is made.                                           *)
LEMMA CallsStep == Inv /\ [Next]_vars => Calls'
<1> SUFFICES ASSUME Inv, [Next]_vars PROVE Calls'
  OBVIOUS
<1>a. /\ TypeOK /\ Starts /\ Calls /\ jobs \in Seq(Job)
      /\ server \in [SessionId -> {"none", "open", "ended"}]
      /\ active \in BOOLEAN /\ session \in SessionId \cup {None} /\ (active <=> session # None)
      /\ startBox \in {<<>>} \cup {<<s>> : s \in SessionId \cup {None}}
      /\ \A s \in SessionId : s # None
  BY BoundsAssumption DEF Inv, TypeOK, SessionId, None
<1>b. \A k \in DOMAIN jobs : jobs[k] \in Job
  BY <1>a
<1>c. \A k \in DOMAIN jobs : IsCall(jobs[k]) => jobs[k].session \in SessionId
  BY <1>b, JobFacts
<1>1. CASE Aside
  <2>1. UNCHANGED <<jobs, server, startBox, active, session, stray>>
    BY <1>1 DEF Aside, line
  <2> QED
    BY <1>a, <2>1 DEF Calls, NoStrayCall
<1>2. CASE Answered
  <2>1. UNCHANGED <<jobs, server, stray>> /\ startBox # <<>> /\ startBox' = <<>>
    BY <1>2 DEF Answered
  <2>2. \A k \in DOMAIN jobs : jobs[k].kind = "end" => IsCall(jobs[k])
    BY DEF IsCall
  <2>3. active' => /\ server[session'] = "open"
                   /\ \A k \in DOMAIN jobs : jobs[k].kind = "end" => jobs[k].session # session'
    BY <1>2, <1>a, <2>1, <2>2 DEF Answered, Calls
  <2> QED
    BY <1>a, <2>1, <2>3 DEF Calls, NoStrayCall
<1>3. ASSUME NEW j \in Job, ~IsCall(j), jobs' = Append(jobs, j),
             UNCHANGED <<server, startBox, active, session, stray>>
      PROVE  Calls'
  <2>1. PICK last \in DOMAIN jobs' :
              /\ jobs'[last] = j /\ last \notin DOMAIN jobs
              /\ \A k \in DOMAIN jobs : k < last /\ k \in DOMAIN jobs' /\ jobs'[k] = jobs[k]
              /\ \A k \in DOMAIN jobs' : k = last \/ k \in DOMAIN jobs
    BY <1>3, <1>a, AppendFacts
  <2>2. \A k \in DOMAIN jobs' : IsCall(jobs'[k]) => k \in DOMAIN jobs /\ jobs'[k] = jobs[k]
    BY <1>3, <2>1
  <2>3. \A k \in DOMAIN jobs' : jobs'[k].kind = "end" => IsCall(jobs'[k])
    BY DEF IsCall
  <2> QED
    BY <1>3, <1>a, <2>2, <2>3 DEF Calls, NoStrayCall
<1>4. CASE Asked
  <2>1. [kind |-> "start", token |-> device[1]] \in Job
        /\ ~IsCall([kind |-> "start", token |-> device[1]])
    BY <1>4 DEF Asked, TypeOK, Inv, Job, IsCall
  <2> QED
    BY <1>3, <1>4, <2>1 DEF Asked
<1>5. CASE Submitted
  <2>1. [kind |-> "register"] \in Job /\ ~IsCall([kind |-> "register"])
    BY DEF Job, IsCall
  <2> QED
    BY <1>3, <1>5, <2>1 DEF Submitted
<1>6. ASSUME NEW j \in Job, IsCall(j), j.session = session, active, jobs' = Append(jobs, j),
             UNCHANGED <<server, startBox, stray>>,
             \/ j.kind = "samples" /\ UNCHANGED <<active, session>>
             \/ j.kind = "end" /\ ~active'
      PROVE  Calls'
  <2>1. PICK last \in DOMAIN jobs' :
              /\ jobs'[last] = j /\ last \notin DOMAIN jobs
              /\ \A k \in DOMAIN jobs : k < last /\ k \in DOMAIN jobs' /\ jobs'[k] = jobs[k]
              /\ \A k \in DOMAIN jobs' : k = last \/ k \in DOMAIN jobs
    BY <1>6, <1>a, AppendFacts
  <2>2. DOMAIN jobs \subseteq Nat /\ last \in Nat
    <3>1. jobs' \in Seq(Job)
      BY QueueStep DEF Inv
    <3> QED
      BY <1>a, <3>1
  <2>3. \A k \in DOMAIN jobs : ~(last < k)
    BY <2>1, <2>2
  <2>4. \A k \in DOMAIN jobs' : IsCall(jobs'[k]) => server'[jobs'[k].session] = "open"
    BY <1>6, <1>a, <2>1 DEF Calls
  <2>5. ASSUME NEW i \in DOMAIN jobs', NEW k \in DOMAIN jobs', i < k,
               jobs'[i].kind = "end", IsCall(jobs'[k])
        PROVE  jobs'[i].session # jobs'[k].session
    <3>1. i \in DOMAIN jobs
      BY <2>1, <2>2, <2>3, <2>5
    <3>2. CASE k \in DOMAIN jobs
      BY <1>a, <2>1, <2>5, <3>1, <3>2 DEF Calls
    <3>3. CASE k = last
      BY <1>6, <1>a, <2>1, <2>5, <3>1, <3>3 DEF Calls
    <3> QED
      BY <2>1, <3>2, <3>3
  <2>6. active' => /\ server'[session'] = "open"
                   /\ \A k \in DOMAIN jobs' : jobs'[k].kind = "end" => jobs'[k].session # session'
    BY <1>6, <1>a, <2>1 DEF Calls
  <2>7. startBox = <<>>
    BY <1>6, <1>a DEF Starts
  <2> QED
    BY <1>6, <1>a, <2>4, <2>5, <2>6, <2>7 DEF Calls, NoStrayCall
<1>7. CASE Flushed
  <2>1. jobs' \in Seq(Job)
    BY QueueStep DEF Inv
  <2>2. PICK j : jobs' = Append(jobs, j) /\ j = Call("samples", buffer + 1)
    BY <1>7 DEF Flushed
  <2>3. j \in Job /\ j.kind = "samples" /\ j.session = session
    BY <1>a, <2>1, <2>2, LastIsJob DEF Call
  <2> QED
    BY <1>6, <1>7, <2>2, <2>3 DEF Flushed, IsCall
<1>8. CASE Stopped
  <2>1. jobs' \in Seq(Job)
    BY QueueStep DEF Inv
  <2>2. PICK j : jobs' = Append(jobs, j) /\ j = Call("end", buffer)
    BY <1>8 DEF Stopped
  <2>3. j \in Job /\ j.kind = "end" /\ j.session = session
    BY <1>a, <2>1, <2>2, LastIsJob DEF Call
  <2> QED
    BY <1>6, <1>8, <2>2, <2>3 DEF Stopped, IsCall
<1>9. CASE RunJob
  <2>0. jobs # <<>> /\ jobs' = Tail(jobs)
    BY <1>9 DEF RunJob
  <2>1. /\ Head(jobs) \in Job /\ Head(jobs) = jobs[1] /\ 1 \in DOMAIN jobs
        /\ Shifted(jobs, jobs')
    BY ONLY <1>a, <2>0, TailFacts
  <2>2. UNCHANGED <<active, session>>
    BY <1>9 DEF RunJob, app
  <2>3. \A i, k \in DOMAIN jobs' :
          i < k /\ jobs'[i].kind = "end" /\ IsCall(jobs'[k]) => jobs'[i].session # jobs'[k].session
    <3> SUFFICES ASSUME NEW i \in DOMAIN jobs', NEW k \in DOMAIN jobs', i < k,
                        jobs'[i].kind = "end", IsCall(jobs'[k])
                 PROVE  jobs'[i].session # jobs'[k].session
      OBVIOUS
    <3>1. PICK m \in DOMAIN jobs : m = i + 1 /\ jobs'[i] = jobs[m]
      BY <2>1 DEF Shifted
    <3>2. PICK n \in DOMAIN jobs : n = k + 1 /\ jobs'[k] = jobs[n]
      BY <2>1 DEF Shifted
    <3>3. m < n
      BY <2>1, <3>1, <3>2 DEF Shifted
    <3> QED
      BY <1>a, <3>1, <3>2, <3>3 DEF Calls
  <2>4. ASSUME NEW k \in DOMAIN jobs', IsCall(jobs'[k])
        PROVE  /\ jobs'[k].session \in SessionId /\ server[jobs'[k].session] = "open"
               /\ jobs[1].kind = "end" => jobs[1].session # jobs'[k].session
               /\ startBox # <<>> /\ startBox[1] # None => jobs'[k].session # startBox[1]
    <3>1. PICK m \in DOMAIN jobs : m = k + 1 /\ jobs'[k] = jobs[m]
      BY <2>1 DEF Shifted
    <3>2. 1 < m
      BY <2>1, <3>1 DEF Shifted
    <3> QED
      BY <1>a, <1>c, <2>1, <2>4, <3>1, <3>2 DEF Calls
  <2>5. \A k \in DOMAIN jobs' : active /\ jobs'[k].kind = "end" => jobs'[k].session # session
    BY <1>a, <2>1 DEF Calls, Shifted
  <2>6. \A k \in DOMAIN jobs' : jobs'[k].kind = "end" => IsCall(jobs'[k])
    BY DEF IsCall
  <2>7. CASE Register(Head(jobs))
    <3>1. UNCHANGED <<server, startBox, stray>>
      BY <2>7 DEF Register, remote
    <3> QED
      BY <1>a, <2>2, <2>3, <2>4, <2>5, <3>1 DEF Calls, NoStrayCall
  <2>8. CASE SendSamples(Head(jobs))
    <3>1. IsCall(jobs[1])
      BY <2>1, <2>8 DEF SendSamples, IsCall
    <3>a. server[Head(jobs).session] = "open" /\ stray = FALSE
      BY <1>a, <2>1, <3>1 DEF Calls, NoStrayCall, Inv, TypeOK
    <3>2. UNCHANGED <<server, startBox, stray>>
      BY <2>8, <3>a DEF SendSamples, boxes
    <3> QED
      BY <1>a, <2>2, <2>3, <2>4, <2>5, <3>2 DEF Calls, NoStrayCall
  <2>9. CASE SessionEnd(Head(jobs))
    <3>1. IsCall(jobs[1]) /\ jobs[1].kind = "end"
      BY <2>1, <2>9 DEF SessionEnd, IsCall
    <3>a. server[Head(jobs).session] = "open" /\ stray = FALSE
      BY <1>a, <2>1, <3>1 DEF Calls, NoStrayCall, Inv, TypeOK
    <3>2. UNCHANGED startBox /\ stray' = stray
      BY <2>9, <3>a DEF SessionEnd, boxes
    <3>3. \A s \in SessionId : s # jobs[1].session => server'[s] = server[s]
      BY <1>a, <2>1, <2>9 DEF SessionEnd
    <3>4. \A k \in DOMAIN jobs' : IsCall(jobs'[k]) => server'[jobs'[k].session] = "open"
      BY <2>4, <3>1, <3>3
    <3>5. active => jobs[1].session # session
      BY <1>a, <2>1, <3>1 DEF Calls
    <3>6. active => server'[session] = "open"
      BY <1>a, <3>3, <3>5 DEF Calls
    <3>7. ASSUME startBox # <<>>, startBox[1] # None
          PROVE  server'[startBox[1]] = "open"
      <4>1. startBox[1] \in SessionId /\ server[startBox[1]] = "open"
        BY <1>a, <3>7 DEF Calls
      <4>2. jobs[1].session # startBox[1]
        BY <1>a, <2>1, <3>1, <3>7 DEF Calls
      <4> QED
        BY <3>3, <4>1, <4>2
    <3> QED
      BY <1>a, <2>2, <2>3, <2>4, <2>5, <3>2, <3>4, <3>6, <3>7 DEF Calls, NoStrayCall
  <2>10. CASE SessionStart(Head(jobs))
    <3>1. IsStart(jobs[1])
      BY <2>1, <2>10 DEF SessionStart, IsStart
    <3>2. ~active
      BY <1>a, <2>1, <3>1 DEF Starts
    <3>3. PICK c \in Nat : UsedUpTo(c) /\ c < starts
      BY <1>a, <2>1, <3>1 DEF Starts
    <3>4. NextSession = c + 1 /\ c + 1 \in SessionId
      BY <1>a, <3>3, NextIsUnused
    <3>5. server[NextSession] = "none" /\ NextSession \in SessionId
      BY <3>3, <3>4 DEF UsedUpTo
    <3>6. \A k \in DOMAIN jobs' : IsCall(jobs'[k]) => jobs'[k].session # NextSession
      BY <2>4, <3>5
    <3>7. \A s \in SessionId : s # NextSession => server'[s] = server[s]
      BY <1>a, <2>10 DEF SessionStart
    <3>8. \A k \in DOMAIN jobs' : IsCall(jobs'[k]) => server'[jobs'[k].session] = "open"
      BY <2>4, <3>6, <3>7
    <3>9. startBox' # <<>> /\ startBox'[1] # None =>
              startBox'[1] = NextSession /\ server'[NextSession] = "open"
      BY <1>a, <2>10, <3>5 DEF SessionStart
    <3>10. stray' = stray
      BY <2>10 DEF SessionStart
    <3> QED
      BY <1>a, <2>2, <2>3, <3>2, <3>6, <3>8, <3>9, <3>10 DEF Calls, NoStrayCall
  <2> QED
    BY <1>9, <2>7, <2>8, <2>9, <2>10 DEF RunJob
<1> QED
  BY <1>1, <1>2, <1>4, <1>5, <1>7, <1>8, <1>9, Steps

(* Each part of the state keeps its type.                                  *)
LEMMA TypeStep == Inv /\ [Next]_vars => TypeOK'
<1> SUFFICES ASSUME Inv, [Next]_vars PROVE TypeOK'
  OBVIOUS
<1>a. TypeOK /\ BufferTaken /\ Recorded /\ Starts /\ Calls
  BY DEF Inv
<1>b. \A s \in SessionId : s # None
  BY BoundsAssumption DEF SessionId, None
<1>1. buffer' \in 0 .. (Batch - 1)
  BY <1>a, BufferStep
<1>2. jobs' \in Seq(Job)
  BY <1>a, QueueStep
<1>3. /\ adjusted' \in [Process -> Seq({"own", "changed"})]
      /\ priority' \in [Process -> {"own", "changed"}]
      /\ powerBy' \in {"user", "nasaki"} /\ powerChanged' \in BOOLEAN
      /\ stuckPower' \in BOOLEAN
  BY <1>a, MachineStep
<1> DEFINE LineOK == /\ starting \in BOOLEAN /\ active \in BOOLEAN
                     /\ session \in SessionId \cup {None} /\ (active <=> session # None)
                     /\ startBox \in {<<>>} \cup {<<s>> : s \in SessionId \cup {None}}
                     /\ server \in [SessionId -> {"none", "open", "ended"}]
                     /\ starts \in 0 .. MaxSessions
                     /\ stray \in BOOLEAN
<1>4. LineOK
  BY <1>a DEF TypeOK
<1>5. LineOK'
  <2>1. CASE Aside
    BY <1>4, <2>1 DEF Aside, line
  <2>2. CASE Answered
    <3>1. starting' = FALSE /\ startBox' = <<>> /\ UNCHANGED <<server, starts, stray>>
      BY <2>2 DEF Answered
    <3>2. session' \in SessionId \cup {None} /\ active' \in BOOLEAN /\ (active' <=> session' # None)
      <4>1. CASE startBox[1] # None /\ session' = startBox[1] /\ active' = TRUE
        BY <1>4, <2>2, <4>1 DEF Answered
      <4>2. CASE UNCHANGED <<session, active>>
        BY <1>4, <4>2
      <4> QED
        BY <2>2, <4>1, <4>2 DEF Answered
    <3> QED
      BY <1>4, <3>1, <3>2
  <2>3. CASE Asked
    BY <1>4, <2>3, BoundsAssumption DEF Asked
  <2>4. CASE Flushed
    BY <1>4, <2>4 DEF Flushed
  <2>5. CASE Stopped
    BY <1>4, <2>5 DEF Stopped
  <2>6. CASE Submitted
    BY <1>4, <2>6 DEF Submitted
  <2>7. CASE RunJob
    <3>0. jobs # <<>> /\ jobs' = Tail(jobs) /\ jobs \in Seq(Job)
      BY <1>a, <2>7 DEF RunJob, TypeOK
    <3>1. Head(jobs) \in Job /\ Head(jobs) = jobs[1] /\ 1 \in DOMAIN jobs
      BY ONLY <3>0, TailFacts
    <3>2. UNCHANGED <<starting, active, session, starts>>
      BY <2>7 DEF RunJob, app, counts
    <3>3. CASE Register(Head(jobs))
      BY <1>4, <3>2, <3>3 DEF Register, remote
    <3>4. CASE SendSamples(Head(jobs))
      BY <1>4, <3>2, <3>4 DEF SendSamples, boxes
    <3>5. CASE SessionEnd(Head(jobs))
      BY <1>4, <3>2, <3>5 DEF SessionEnd, boxes
    <3>6. CASE SessionStart(Head(jobs))
      <4>1. PICK c \in Nat : UsedUpTo(c) /\ c < starts
        BY <1>a, <3>1, <3>6 DEF SessionStart, Starts, IsStart
      <4>2. NextSession \in SessionId
        BY <1>a, <4>1, NextIsUnused
      <4> QED
        BY <1>4, <3>2, <3>6, <4>2 DEF SessionStart
    <3> QED
      BY <2>7, <3>3, <3>4, <3>5, <3>6 DEF RunJob
  <2> QED
    BY <2>1, <2>2, <2>3, <2>4, <2>5, <2>6, <2>7, Steps
<1> DEFINE RestOK == /\ frame \in Frame
                     /\ device \in {<<>>} \cup {<<t>> : t \in Token}
                     /\ activating \in BOOLEAN
                     /\ licenseBox \in {<<>>, <<"refused">>} \cup {<<t>> : t \in Token}
                     /\ phase \in {"Idle", "CountingDown", "Active"}
                     /\ perf \in BOOLEAN
                     /\ taken \in 0 .. MaxSamples
<1>6. RestOK /\ sent \in Nat
  BY <1>a DEF TypeOK
<1>7. ASSUME BoostAndStart
      PROVE  phase' = "Active" /\ UNCHANGED <<device, activating, perf, taken>>
  BY <1>7 DEF BoostAndStart
<1>8. ASSUME RequestStartSession
      PROVE  phase' \in {"Active", "CountingDown"} /\ UNCHANGED <<device, activating, perf, taken>>
  BY <1>7, <1>8 DEF RequestStartSession, counts
<1>9. ASSUME StopSession
      PROVE  phase' \in {"Idle", phase}
  BY <1>9 DEF StopSession
<1>10. RestOK'
  <2>1. CASE TakeLicenseResult
    <3>1. licenseBox # <<>> /\ licenseBox[1] \in Token => licenseBox \in {<<t>> : t \in Token}
      BY <1>6
    <3> QED
      BY <1>6, <2>1, <3>1 DEF TakeLicenseResult, counts, Frame
  <2>2. CASE TakeStartResult
    BY <1>6, <2>2 DEF TakeStartResult, counts, Frame
  <2>3. CASE Countdown
    BY <1>6, <1>7, <2>3 DEF Countdown, app, counts, boxes, Frame
  <2>4. CASE AutoStart
    BY <1>6, <1>8, <2>4 DEF AutoStart, app, counts, boxes, Frame
  <2>5. CASE SampleTick
    BY <1>6, <2>5, BoundsAssumption DEF SampleTick, boxes, Frame
  <2>6. CASE LookOnly
    BY <1>6, <2>6 DEF LookOnly, Draw, app, counts, boxes, Frame
  <2>7. CASE SubmitLicenseKey
    BY <1>6, <2>7 DEF SubmitLicenseKey, Draw, counts, boxes, Frame
  <2>8. CASE PressStart
    BY <1>6, <1>8, <2>8 DEF PressStart, Draw, boxes, Frame
  <2>9. CASE StartFromGameCard
    BY <1>6, <1>7, <2>9 DEF StartFromGameCard, Draw, boxes, Frame
  <2>10. CASE PressCancel
    BY <1>6, <2>10 DEF PressCancel, CancelStartRequest, Draw, counts, boxes, Frame
  <2>11. CASE PressStop
    BY <1>6, <1>9, <2>11 DEF PressStop, Draw, counts, boxes, Frame
  <2>12. CASE Unlink
    BY <1>6, <1>9, <2>12 DEF Unlink, Draw, counts, boxes, Frame
  <2>13. CASE TogglePerformance
    BY <1>6, <2>13 DEF TogglePerformance, Draw, counts, boxes, Frame
  <2>14. CASE Close
    BY <1>6, <2>14 DEF Close, app, counts, boxes, Frame
  <2>15. CASE RunJob
    BY <1>6, <2>15 DEF RunJob, Register, SessionStart, SendSamples, SessionEnd, app, counts, boxes
  <2>16. CASE UNCHANGED vars
    BY <1>6, <2>16 DEF vars, app, counts, boxes
  <2> QED
    BY <2>1, <2>2, <2>3, <2>4, <2>5, <2>6, <2>7, <2>8, <2>9, <2>10, <2>11, <2>12, <2>13,
       <2>14, <2>15, <2>16 DEF Next, Update, Buttons
<1>11. sent' \in Nat
  <2>1. CASE RunJob
    <3>0. jobs # <<>> /\ jobs \in Seq(Job)
      BY <1>a, <2>1 DEF RunJob, TypeOK
    <3>1. Head(jobs) \in Job
      BY ONLY <3>0, TailFacts
    <3>2. IsCall(Head(jobs)) => Head(jobs).n \in Nat
      BY <3>1, JobFacts, BoundsAssumption
    <3> QED
      BY <1>6, <2>1, <3>2 DEF RunJob, Register, SessionStart, SendSamples, SessionEnd, remote, IsCall
  <2>2. CASE ~RunJob
    BY <1>6, <2>2 DEF Next, Update, Buttons, vars, TakeLicenseResult, TakeStartResult, Countdown,
       AutoStart, SampleTick, LookOnly, SubmitLicenseKey, PressStart, StartFromGameCard,
       PressCancel, PressStop, Unlink, TogglePerformance, Close, Draw, remote
  <2> QED
    BY <2>1, <2>2
<1> QED
  BY <1>1, <1>2, <1>3, <1>5, <1>10, <1>11 DEF TypeOK

-----------------------------------------------------------------------------
LEMMA Always == Spec => []Inv
<1>1. Inv /\ [Next]_vars => Inv'
  BY TypeStep, BufferStep, MachineStep, StartsStep, CallsStep DEF Inv
<1> QED
  BY Initially, <1>1, PTL DEF Spec

(* Every variable stays in its type, a batch is never more than full, and  *)
(* m_sessionId is set exactly while m_sessionActive is (App.cpp 410-467).  *)
THEOREM TypeCorrect == Spec => []TypeOK
<1>1. Inv => TypeOK
  BY DEF Inv
<1> QED
  BY <1>1, Always, PTL

(* A process Nasaki has changed has exactly its own priority on record, in *)
(* the boost phase only (ProcessBoost.cpp, App.cpp StopSession).           *)
THEOREM PrioritiesAreRecorded == Spec => []PrioritiesRecorded
<1>1. Inv => PrioritiesRecorded
  BY DEF Inv, Recorded
<1> QED
  BY <1>1, Always, PTL

(* The performance scheme is on only in the boost phase, and will be       *)
(* switched back, unless that has failed (WinTweaks.cpp).                  *)
THEOREM PowerIsRecorded == Spec => []PowerRecorded
<1>1. Inv => PowerRecorded
  BY DEF Inv, Recorded
<1> QED
  BY <1>1, Always, PTL

(* At most one start is on its way, exactly while m_sessionStarting says   *)
(* so, and none while a session is active (App.cpp StartSession).          *)
THEOREM OneStartAtATime == Spec => []OneStart
<1>1. Inv => OneStart
  <2> SUFFICES ASSUME Inv PROVE OneStart
    OBVIOUS
  <2> DEFINE Waiting == {k \in DOMAIN jobs : jobs[k].kind = "start"}
  <2>a. Starts /\ starting \in BOOLEAN
        /\ startBox \in {<<>>} \cup {<<s>> : s \in SessionId \cup {None}}
    BY DEF Inv, TypeOK
  <2>1. startBox = <<>> => Len(startBox) = 0
    OBVIOUS
  <2>2. startBox # <<>> => Len(startBox) = 1
    BY <2>a
  <2>b. StartsOnTheWay = Cardinality(Waiting) + Len(startBox)
    BY DEF StartsOnTheWay
  <2>c. starting => ~active
    BY <2>a DEF Starts
  <2>3. CASE Waiting = {}
    <3>1. Cardinality(Waiting) = 0
      BY <2>3, FS_EmptySet
    <3>2. starting <=> startBox # <<>>
      BY <2>a, <2>3 DEF Starts, IsStart
    <3> HIDE DEF Waiting
    <3> QED
      BY <2>a, <2>b, <2>c, <2>1, <2>2, <3>1, <3>2 DEF OneStart
  <2>4. CASE Waiting # {}
    <3>1. PICK k \in Waiting : TRUE
      BY <2>4
    <3>2. Waiting = {k}
      BY <2>a, <3>1 DEF Starts, IsStart
    <3>3. Cardinality(Waiting) = 1
      BY <3>2, FS_Singleton
    <3>4. starting /\ startBox = <<>>
      BY <2>a, <3>1 DEF Starts, IsStart
    <3> HIDE DEF Waiting
    <3> QED
      BY <2>a, <2>b, <2>c, <2>1, <3>3, <3>4 DEF OneStart
  <2> QED
    BY <2>3, <2>4
<1> QED
  BY <1>1, Always, PTL

(* Samples and ends reach the server only for a session that is open       *)
(* (ApiClient.cpp SendSamples and EndSession).                             *)
THEOREM NoCallIsStray == Spec => []NoStrayCall
<1>1. Inv => NoStrayCall
  BY DEF Inv, Calls
<1> QED
  BY <1>1, Always, PTL
-----------------------------------------------------------------------------
(* What the queue holds in all. A set of naturals that is not empty has a  *)
(* least element, so one that has 0 and every successor is all of them:    *)
(* this is induction, with a set in the place of a predicate.              *)
LEMMA LeastNatural ==
    ASSUME NEW T, T \subseteq Nat, T # {}
    PROVE  \E x \in T : \A y \in T : x <= y
<1> DEFINE Less == {ss \in Nat \X Nat : ss[1] < ss[2]}
<1>1. IsWellFoundedOn(Less, Nat)
  BY NatLessThanWellFounded DEF OpToRel
<1> HIDE DEF Less
<1>2. PICK x \in T : \A y \in T : ~(<<y, x>> \in Less)
  BY <1>1, WFMin
<1> USE DEF Less
<1>3. \A y \in T : ~(y < x)
  <2>1. SUFFICES ASSUME NEW y \in T, y < x PROVE FALSE
    OBVIOUS
  <2>2. <<y, x>> \in Less
    BY <2>1
  <2> QED
    BY <2>2, <1>2
<1> QED
  BY <1>3

LEMMA SetInduction ==
    ASSUME NEW S, 0 \in S, \A n \in Nat : n \in S => n + 1 \in S
    PROVE  Nat \subseteq S
<1> SUFFICES ASSUME Nat \ S # {} PROVE FALSE
  OBVIOUS
<1>1. PICK x \in Nat \ S : \A y \in Nat \ S : x <= y
  BY LeastNatural
<1>2. x # 0 /\ x - 1 \in Nat
  BY <1>1
<1>3. x - 1 \in S
  BY <1>1, <1>2
<1>4. (x - 1) + 1 \in S
  BY <1>2, <1>3
<1> QED
  BY <1>1, <1>4

(* f is the function of running sums of h up to m.                         *)
Sums(f, h, m) == f = [k \in 0 .. m |-> IF k = 0 THEN 0 ELSE f[k - 1] + h[k]]

(* They exist, by induction over how far they go.                          *)
LEMMA SumsExist ==
    ASSUME NEW m \in Nat, NEW h
    PROVE  \E f : Sums(f, h, m)
<1> DEFINE S == {n \in Nat : \E f : Sums(f, h, n)}
<1>1. 0 \in S
  <2> DEFINE f == [k \in 0 .. 0 |-> 0]
  <2>1. f = [k \in 0 .. 0 |-> IF k = 0 THEN 0 ELSE f[k - 1] + h[k]]
    OBVIOUS
  <2>2. Sums(f, h, 0)
    BY <2>1 DEF Sums
  <2> QED
    BY <2>2
<1>2. ASSUME NEW n \in Nat, n \in S PROVE n + 1 \in S
  <2>1. PICK f : Sums(f, h, n)
    BY <1>2
  <2> DEFINE g == [k \in 0 .. (n + 1) |-> IF k = n + 1 THEN f[n] + h[n + 1] ELSE f[k]]
  <2>2. \A k \in 0 .. n : f[k] = IF k = 0 THEN 0 ELSE f[k - 1] + h[k]
    BY <2>1 DEF Sums
  <2>3. \A k \in 0 .. (n + 1) : g[k] = IF k = 0 THEN 0 ELSE g[k - 1] + h[k]
    <3> SUFFICES ASSUME NEW k \in 0 .. (n + 1)
                 PROVE  g[k] = IF k = 0 THEN 0 ELSE g[k - 1] + h[k]
      OBVIOUS
    <3>1. CASE k = n + 1
      BY <3>1
    <3>2. CASE k = 0
      BY <2>2, <3>2
    <3>3. CASE k \in 1 .. n
      <4>1. g[k] = f[k] /\ g[k - 1] = f[k - 1] /\ f[k] = f[k - 1] + h[k]
        BY <2>2, <3>3
      <4> QED
        BY <3>3, <4>1
    <3> QED
      BY <3>1, <3>2, <3>3
  <2>4. Sums(g, h, n + 1)
    <3> DEFINE e == [k \in 0 .. (n + 1) |-> IF k = 0 THEN 0 ELSE g[k - 1] + h[k]]
    <3>1. DOMAIN g = DOMAIN e /\ \A k \in DOMAIN g : g[k] = e[k]
      BY <2>3
    <3>2. g = e
      BY <3>1
    <3> QED
      BY <3>2 DEF Sums
  <2> HIDE DEF g
  <2> QED
    BY <2>4
<1>3. Nat \subseteq S
  <2> HIDE DEF S
  <2> QED
    BY <1>1, <1>2, SetInduction
<1> QED
  BY <1>3

(* f is what the first jobs of q carry, the running sums in Queued.        *)
RunningOf(f, q) == f = [k \in 0 .. Len(q) |-> IF k = 0 THEN 0 ELSE f[k - 1] + Carried(q[k])]

(* The function that Queued defines exists, and its last value is the sum. *)
LEMMA QueuedIsLast ==
    ASSUME NEW q \in Seq(Job)
    PROVE  \E f : RunningOf(f, q) /\ Queued(q) = f[Len(q)]
<1> DEFINE h == [k \in 1 .. Len(q) |-> Carried(q[k])]
           f == CHOOSE f : RunningOf(f, q)
<1>1. Len(q) \in Nat
  OBVIOUS
<1>2. PICK g : Sums(g, h, Len(q))
  BY <1>1, SumsExist
<1>3. g = [k \in 0 .. Len(q) |-> IF k = 0 THEN 0 ELSE g[k - 1] + h[k]]
  BY <1>2 DEF Sums
<1>4. RunningOf(g, q)
  <2>1. \A k \in 0 .. Len(q) : k # 0 => h[k] = Carried(q[k])
    BY <1>1
  <2> HIDE DEF h
  <2> QED
    BY <1>3, <2>1 DEF RunningOf
<1>5. RunningOf(f, q)
  BY <1>4
<1>6. Queued(q) = f[Len(q)]
  BY DEF Queued, RunningOf
<1> QED
  BY <1>5, <1>6

(* Running sums of naturals are naturals.                                  *)
LEMMA RunningNat ==
    ASSUME NEW q \in Seq(Job), NEW f, RunningOf(f, q), MaxSamples \in Nat
    PROVE  \A k \in 0 .. Len(q) : f[k] \in Nat
<1> DEFINE S == {n \in Nat : n \in 0 .. Len(q) => f[n] \in Nat}
<1>1. \A k \in 0 .. Len(q) : f[k] = IF k = 0 THEN 0 ELSE f[k - 1] + Carried(q[k])
  BY DEF RunningOf
<1>2. \A k \in 1 .. Len(q) : Carried(q[k]) \in Nat
  BY DEF Carried, Job
<1>3. 0 \in S
  BY <1>1
<1>4. ASSUME NEW n \in Nat, n \in S PROVE n + 1 \in S
  BY <1>1, <1>2, <1>4
<1> HIDE DEF S
<1>5. Nat \subseteq S
  BY <1>3, <1>4, SetInduction
<1> QED
  BY <1>5 DEF S

LEMMA QueuedNat ==
    ASSUME NEW q \in Seq(Job) PROVE Queued(q) \in Nat
<1>1. PICK f : RunningOf(f, q) /\ Queued(q) = f[Len(q)]
  BY QueuedIsLast
<1>2. \A k \in 0 .. Len(q) : f[k] \in Nat
  BY <1>1, RunningNat, BoundsAssumption
<1> QED
  BY <1>1, <1>2

LEMMA QueuedEmpty == Queued(<<>>) = 0
<1> DEFINE q == <<>>
<1>a. q \in Seq(Job) /\ Len(q) = 0
  OBVIOUS
<1> HIDE DEF q
<1>1. PICK f : RunningOf(f, q) /\ Queued(q) = f[0]
  BY <1>a, QueuedIsLast
<1> QED
  BY <1>a, <1>1 DEF RunningOf, q

(* A job put in adds what it carries, and one taken out takes it along.    *)
LEMMA QueuedAppend ==
    ASSUME NEW q \in Seq(Job), NEW j \in Job
    PROVE  Queued(Append(q, j)) = Queued(q) + Carried(j)
<1> DEFINE r == Append(q, j)
           m == Len(q)
<1>1. r \in Seq(Job) /\ Len(r) = m + 1 /\ m \in Nat /\ r[m + 1] = j
      /\ \A k \in 1 .. m : r[k] = q[k]
  OBVIOUS
<1>2. PICK f : RunningOf(f, q) /\ Queued(q) = f[m]
  BY QueuedIsLast
<1>3. PICK g : RunningOf(g, r) /\ Queued(r) = g[Len(r)]
  BY <1>1, QueuedIsLast
<1> DEFINE S == {n \in Nat : n \in 0 .. m => g[n] = f[n]}
<1> HIDE DEF r
<1>4. /\ \A k \in 0 .. m : f[k] = IF k = 0 THEN 0 ELSE f[k - 1] + Carried(q[k])
      /\ \A k \in 0 .. (m + 1) : g[k] = IF k = 0 THEN 0 ELSE g[k - 1] + Carried(r[k])
  BY <1>1, <1>2, <1>3 DEF RunningOf
<1> HIDE DEF m
<1>5. 0 \in S
  BY <1>1, <1>4
<1>6. ASSUME NEW n \in Nat, n \in S PROVE n + 1 \in S
  <2> SUFFICES ASSUME n + 1 \in 0 .. m PROVE g[n + 1] = f[n + 1]
    OBVIOUS
  <2>1. g[n] = f[n] /\ r[n + 1] = q[n + 1]
    BY <1>1, <1>6
  <2>2. n + 1 \in 0 .. (m + 1) /\ n + 1 # 0 /\ (n + 1) - 1 = n
    BY <1>1
  <2>3. f[n + 1] = f[n] + Carried(q[n + 1])
    BY <1>4, <2>2
  <2>4. g[n + 1] = g[n] + Carried(r[n + 1])
    BY <1>4, <2>2
  <2> QED
    BY <2>1, <2>3, <2>4
<1> HIDE DEF S
<1>7. Nat \subseteq S
  BY <1>5, <1>6, SetInduction
<1>8. g[m] = f[m]
  BY <1>1, <1>7 DEF S
<1>9. g[m + 1] = g[m] + Carried(r[m + 1])
  <2>1. m + 1 \in 0 .. (m + 1) /\ m + 1 # 0 /\ (m + 1) - 1 = m
    BY <1>1
  <2> QED
    BY <1>4, <2>1
<1> QED
  BY <1>1, <1>2, <1>3, <1>8, <1>9 DEF r

LEMMA QueuedTail ==
    ASSUME NEW q \in Seq(Job), q # <<>>
    PROVE  Queued(q) = Carried(Head(q)) + Queued(Tail(q))
<1> DEFINE r == Tail(q)
           m == Len(r)
           c == Carried(q[1])
<1>1. r \in Seq(Job) /\ Len(q) = m + 1 /\ m \in Nat /\ Head(q) = q[1]
      /\ \A k \in 1 .. m : r[k] = q[k + 1]
  OBVIOUS
<1>2. PICK f : RunningOf(f, q) /\ Queued(q) = f[Len(q)]
  BY QueuedIsLast
<1>3. PICK g : RunningOf(g, r) /\ Queued(r) = g[m]
  BY <1>1, QueuedIsLast
<1>a. c \in Nat
  BY <1>1, BoundsAssumption DEF Carried, Job
<1>b. /\ \A k \in 0 .. Len(q) : f[k] \in Nat
      /\ \A k \in 0 .. m : g[k] \in Nat
  BY <1>1, <1>2, <1>3, RunningNat, BoundsAssumption
<1>c. \A k \in 1 .. m : Carried(r[k]) \in Nat
  BY <1>1, BoundsAssumption DEF Carried, Job
<1> DEFINE S == {n \in Nat : n \in 0 .. m => f[n + 1] = c + g[n]}
<1> HIDE DEF r
<1>4. /\ \A k \in 0 .. (m + 1) : f[k] = IF k = 0 THEN 0 ELSE f[k - 1] + Carried(q[k])
      /\ \A k \in 0 .. m : g[k] = IF k = 0 THEN 0 ELSE g[k - 1] + Carried(r[k])
  BY <1>1, <1>2, <1>3 DEF RunningOf
<1> HIDE DEF m
<1>5. 0 \in S
  BY <1>1, <1>4, <1>a
<1> HIDE DEF c
<1>6. ASSUME NEW n \in Nat, n \in S PROVE n + 1 \in S
  <2> SUFFICES ASSUME n + 1 \in 0 .. m PROVE f[(n + 1) + 1] = c + g[n + 1]
    OBVIOUS
  <2>1. f[n + 1] = c + g[n] /\ r[n + 1] = q[(n + 1) + 1]
    BY <1>1, <1>6
  <2>2. /\ n + 1 \in 0 .. m /\ n + 1 # 0 /\ (n + 1) - 1 = n
        /\ (n + 1) + 1 \in 0 .. (m + 1) /\ (n + 1) + 1 # 0 /\ ((n + 1) + 1) - 1 = n + 1
    BY <1>1
  <2>3. f[(n + 1) + 1] = f[n + 1] + Carried(q[(n + 1) + 1])
    BY <1>4, <2>2
  <2>4. g[n + 1] = g[n] + Carried(r[n + 1])
    BY <1>4, <2>2
  <2>5. Carried(r[n + 1]) \in Nat /\ g[n] \in Nat
    BY <1>b, <1>c, <2>2, <1>1
  <2> QED
    BY <1>a, <2>1, <2>3, <2>4, <2>5
<1> HIDE DEF S
<1>7. Nat \subseteq S
  BY <1>5, <1>6, SetInduction
<1>8. f[m + 1] = c + g[m]
  BY <1>1, <1>7 DEF S
<1> QED
  BY <1>1, <1>2, <1>3, <1>8 DEF c, r
-----------------------------------------------------------------------------
(* Where the samples are. Only a session that is active has some in the    *)
(* buffer.                                                                 *)
EmptyOutside == active \/ buffer = 0
flow == <<jobs, buffer, taken, sent>>

Kept == UNCHANGED flow /\ active' \in {active, TRUE}
Asking ==
    /\ ~active /\ UNCHANGED <<taken, sent, active>> /\ buffer' = 0
    /\ jobs' = Append(jobs, [kind |-> "start", token |-> device[1]])
Registering == jobs' = Append(jobs, [kind |-> "register"]) /\ UNCHANGED <<buffer, taken, sent, active>>
Sampling == taken' = taken + 1 /\ buffer' = buffer + 1 /\ active /\ UNCHANGED <<jobs, sent, active>>
Flushing ==
    /\ active /\ taken' = taken + 1 /\ buffer' = 0 /\ UNCHANGED <<sent, active>>
    /\ jobs' = Append(jobs, Call("samples", buffer + 1))
Stopping ==
    /\ buffer' = 0 /\ jobs' = Append(jobs, Call("end", buffer)) /\ UNCHANGED <<taken, sent>>
Sending ==
    /\ jobs # <<>> /\ jobs' = Tail(jobs) /\ sent' = sent + Carried(Head(jobs))
    /\ UNCHANGED <<buffer, taken, active>>

(* What a step does to the samples.                                        *)
LEMMA FlowSteps ==
    ASSUME [Next]_vars, TypeOK
    PROVE  Kept \/ Asking \/ Registering \/ Sampling \/ Flushing \/ Stopping \/ Sending
<1> DEFINE P == Kept \/ Asking \/ Registering \/ Sampling \/ Flushing \/ Stopping \/ Sending
<1>a. ASSUME BoostAndStart, UNCHANGED remote PROVE P
  BY <1>a DEF BoostAndStart, StartSession, Kept, Asking, flow, remote
<1>b. ASSUME RequestStartSession, UNCHANGED remote PROVE P
  BY <1>a, <1>b DEF RequestStartSession, Kept, flow, remote, counts
<1>c. ASSUME StopSession, UNCHANGED <<remote, counts>> PROVE P
  BY <1>c DEF StopSession, Kept, Stopping, flow, remote, counts
<1>1. CASE Countdown \/ AutoStart \/ PressStart \/ StartFromGameCard
  BY <1>1, <1>a, <1>b
  DEF Countdown, AutoStart, PressStart, StartFromGameCard, Draw, Kept, flow, app, remote, counts
<1>2. CASE PressStop \/ Unlink
  BY <1>2, <1>c DEF PressStop, Unlink, Draw
<1>3. CASE TakeLicenseResult \/ TakeStartResult \/ LookOnly \/ PressCancel \/ TogglePerformance
           \/ Close \/ UNCHANGED vars
  BY <1>3 DEF TakeLicenseResult, TakeStartResult, LookOnly, PressCancel, CancelStartRequest, Draw,
     TogglePerformance, Close, Kept, flow, app, remote, counts, vars
<1>4. CASE SubmitLicenseKey
  BY <1>4 DEF SubmitLicenseKey, Registering, Draw, remote, counts
<1>5. CASE SampleTick
  BY <1>5 DEF SampleTick, Sampling, Flushing, Kept, flow, remote
<1>6. CASE RunJob
  <2>1. ASSUME NEW j, j \in Job, Register(j) \/ SessionStart(j) \/ SendSamples(j) \/ SessionEnd(j)
        PROVE  sent' = sent + Carried(j)
    BY <2>1 DEF Register, SessionStart, SendSamples, SessionEnd, Carried, remote, TypeOK
  <2>2. Head(jobs) \in Job
    BY <1>6, TailFacts DEF RunJob, TypeOK
  <2>3. sent' = sent + Carried(Head(jobs))
    BY <1>6, <2>1, <2>2 DEF RunJob
  <2> QED
    BY <1>6, <2>3 DEF RunJob, Sending, app, counts
<1> QED
  BY <1>1, <1>2, <1>3, <1>4, <1>5, <1>6 DEF Next, Update, Buttons

LEMMA SamplesStep ==
    Inv /\ Inv' /\ EmptyOutside /\ SamplesConserved /\ [Next]_vars
        => EmptyOutside' /\ SamplesConserved'
<1> SUFFICES ASSUME Inv, Inv', EmptyOutside, SamplesConserved, [Next]_vars
             PROVE  EmptyOutside' /\ SamplesConserved'
  OBVIOUS
<1> DEFINE all == Queued(jobs)
<1>1. /\ buffer \in Nat /\ taken \in Nat /\ sent \in Nat /\ jobs \in Seq(Job)
      /\ jobs' \in Seq(Job) /\ active \in BOOLEAN
  BY DEF Inv, TypeOK
<1>2. all \in Nat /\ taken = sent + all + buffer
  BY <1>1, QueuedNat DEF SamplesConserved
<1>3. ASSUME NEW j, jobs' = Append(jobs, j) PROVE Queued(jobs') = all + Carried(j)
  <2>1. j \in Job
    BY <1>1, <1>3, LastIsJob
  <2> QED
    BY <1>1, <1>3, <2>1, QueuedAppend
<1>4. CASE Kept
  BY <1>4 DEF Kept, flow, EmptyOutside, SamplesConserved
<1>5. CASE Asking
  <2>1. Queued(jobs') = all + 0
    BY <1>3, <1>5 DEF Asking, Carried
  <2>2. buffer = 0
    BY <1>5 DEF Asking, EmptyOutside
  <2> HIDE DEF all
  <2>3. taken' = sent' + Queued(jobs') + buffer'
    BY <1>1, <1>2, <1>5, <2>1, <2>2 DEF Asking
  <2> QED
    BY <1>5, <2>3 DEF Asking, EmptyOutside, SamplesConserved
<1>6. CASE Registering
  <2>1. Queued(jobs') = all + 0
    BY <1>3, <1>6 DEF Registering, Carried
  <2> HIDE DEF all
  <2>2. taken' = sent' + Queued(jobs') + buffer'
    BY <1>1, <1>2, <1>6, <2>1 DEF Registering
  <2> QED
    BY <1>6, <2>2 DEF Registering, EmptyOutside, SamplesConserved
<1>7. CASE Sampling
  <2> HIDE DEF all
  <2>1. Queued(jobs') = all
    BY <1>7 DEF Sampling, all
  <2>2. taken' = sent' + Queued(jobs') + buffer'
    BY <1>1, <1>2, <1>7, <2>1 DEF Sampling
  <2> QED
    BY <1>7, <2>2 DEF Sampling, EmptyOutside, SamplesConserved
<1>8. CASE Flushing
  <2>1. Queued(jobs') = all + (buffer + 1)
    BY <1>3, <1>8 DEF Flushing, Carried, Call
  <2> HIDE DEF all
  <2>2. taken' = sent' + Queued(jobs') + buffer'
    BY <1>1, <1>2, <1>8, <2>1 DEF Flushing
  <2> QED
    BY <1>8, <2>2 DEF Flushing, EmptyOutside, SamplesConserved
<1>9. CASE Stopping
  <2>1. Queued(jobs') = all + buffer
    BY <1>3, <1>9 DEF Stopping, Carried, Call
  <2> HIDE DEF all
  <2>2. taken' = sent' + Queued(jobs') + buffer'
    BY <1>1, <1>2, <1>9, <2>1 DEF Stopping
  <2> QED
    BY <1>9, <2>2 DEF Stopping, EmptyOutside, SamplesConserved
<1>10. CASE Sending
  <2>1. all = Carried(Head(jobs)) + Queued(jobs')
    BY <1>1, <1>10, QueuedTail DEF Sending
  <2>2. Queued(jobs') \in Nat
    BY <1>1, QueuedNat
  <2>3. Carried(Head(jobs)) \in Nat
    <3>1. Head(jobs) \in Job
      BY <1>1, <1>10, TailFacts DEF Sending
    <3> QED
      BY <3>1, BoundsAssumption DEF Carried, Job
  <2> HIDE DEF all
  <2>4. taken' = sent' + Queued(jobs') + buffer'
    BY <1>1, <1>2, <1>10, <2>1, <2>2, <2>3 DEF Sending
  <2> QED
    BY <1>10, <2>4 DEF Sending, EmptyOutside, SamplesConserved
<1> QED
  BY <1>4, <1>5, <1>6, <1>7, <1>8, <1>9, <1>10, FlowSteps DEF Inv

(* Every sample that was taken was handed to the server's call once, or is *)
(* still in the queue or in the buffer (App.cpp SampleTick, StopSession).  *)
THEOREM SamplesAreConserved == Spec => []SamplesConserved
<1>1. Init => EmptyOutside /\ SamplesConserved
  <2> SUFFICES ASSUME Init PROVE EmptyOutside /\ SamplesConserved
    OBVIOUS
  <2>1. Queued(jobs) = 0
    BY QueuedEmpty DEF Init
  <2> QED
    BY <2>1 DEF Init, EmptyOutside, SamplesConserved
<1> QED
  BY Always, <1>1, SamplesStep, PTL DEF Spec
=============================================================================
