------------------------------- MODULE Session -------------------------------
(***************************************************************************)
(* A play session from the button to the server and back: App's session    *)
(* lifecycle (src/App.cpp), what it changes on the machine meanwhile       *)
(* (src/ProcessBoost.cpp, src/WinTweaks.cpp), the device it belongs to,    *)
(* and the calls the worker makes for it (src/ApiClient.cpp).              *)
(*                                                                         *)
(* The render thread runs App::Update and then draws; Update is cut at     *)
(* the two mailboxes it empties, because the worker can fill one between   *)
(* any two of its parts. At most one button is pressed in a frame. Time is *)
(* abstracted: a countdown or a timer has run out in this frame, or not.   *)
(***************************************************************************)
EXTENDS Integers, Sequences, FiniteSets

CONSTANTS
    Token,      \* device tokens the server can issue
    Process,    \* the game and the background programs that can be adjusted
    Answers,    \* what a call to the server can come to: "ok", "refused", "lost"
    Batch,      \* samples in a full batch: 30 in SampleTick
    MaxSessions,\* bound: starts asked of the server
    MaxSamples  \* bound: samples recorded

ASSUME AnswersAssumption == Answers \subseteq {"ok", "refused", "lost"}
ASSUME BoundsAssumption == MaxSessions \in Nat /\ MaxSamples \in Nat /\ Batch \in Nat \ {0}

VARIABLES
    frame,      \* where the render thread is
    device,     \* m_device: <<>> or <<token>>
    activating, \* m_activating
    licenseBox, \* m_pendingLicenseResult: <<>>, or what came of it
    phase,      \* m_boostPhase
    starting,   \* m_sessionStarting
    active,     \* m_sessionActive
    session,    \* m_sessionId
    startBox,   \* m_pendingSessionStartResult: <<>>, <<id>> or <<0>>
    buffer,     \* how many samples m_sampleBuffer holds
    perf,       \* m_highPerformancePower, the toggle
    adjusted,   \* g_adjusted: the original priorities recorded, per process
    priority,   \* each process's priority class: "own" or "changed"
    powerBy,    \* who chose the power scheme in force
    powerChanged, \* g_powerChanged
    jobs,       \* the worker's queue
    server,     \* each session at the server: "none", "open" or "ended"
    (* history variables *)
    starts, taken, sent, \* starts asked, samples recorded, samples handed over
    stray,      \* a call was made for a session that was not open
    stuckPower  \* switching the scheme back failed

app == <<device, activating, phase, starting, active, session, buffer, perf>>
boxes == <<licenseBox, startBox>>
tweaks == <<adjusted, priority, powerBy, powerChanged, stuckPower>>
remote == <<server, sent, stray>>
counts == <<starts, taken>>
vars == <<frame, app, boxes, tweaks, jobs, remote, counts>>

Frame == {"license", "start", "countdown", "auto", "sample", "draw", "closed"}
None == 0
SessionId == 1 .. MaxSessions
Job == [kind : {"register"}]
       \cup [kind : {"start"}, token : Token]
       \cup [kind : {"samples", "end"}, token : Token, session : SessionId, n : 0 .. MaxSamples]

Init ==
    /\ frame = "license"
    /\ device \in {<<>>} \cup {<<t>> : t \in Token}
    /\ activating = FALSE /\ licenseBox = <<>>
    /\ phase = "Idle" /\ starting = FALSE /\ active = FALSE
    /\ session = None /\ startBox = <<>> /\ buffer = 0
    /\ perf = TRUE
    /\ adjusted = [p \in Process |-> <<>>]
    /\ priority = [p \in Process |-> "own"]
    /\ powerBy = "user" /\ powerChanged = FALSE /\ stuckPower = FALSE
    /\ jobs = <<>>
    /\ server = [s \in SessionId |-> "none"]
    /\ starts = 0 /\ taken = 0 /\ sent = 0 /\ stray = FALSE

-----------------------------------------------------------------------------
(* ProcessBoost and WinTweaks.                                             *)

(* Some of the processes can be opened and adjusted: the game unless the   *)
(* toggle is off, the allowlisted ones unless that toggle is off.          *)
BeginForPid(S) ==
    /\ adjusted' = [p \in Process |-> IF p \in S THEN Append(adjusted[p], priority[p])
                                      ELSE adjusted[p]]
    /\ priority' = [p \in Process |-> IF p \in S THEN "changed" ELSE priority[p]]

(* In the order they were recorded, so the last one of a process stays.    *)
End ==
    /\ priority' = [p \in Process |-> IF adjusted[p] = <<>> THEN priority[p]
                                      ELSE adjusted[p][Len(adjusted[p])]]
    /\ adjusted' = [p \in Process |-> <<>>]

BeginHighPerformancePower ==
    \/ perf /\ ~powerChanged /\ powerBy' = "nasaki" /\ powerChanged' = TRUE
    \/ UNCHANGED <<powerBy, powerChanged>>    \* off, already on, or refused

(* The result of the switch back is not looked at.                         *)
EndHighPerformancePower ==
    /\ powerChanged' = FALSE
    /\ \/ powerBy' = (IF powerChanged THEN "user" ELSE powerBy) /\ UNCHANGED stuckPower
       \/ powerChanged /\ stuckPower' = TRUE /\ UNCHANGED powerBy

-----------------------------------------------------------------------------
(* The session lifecycle.                                                  *)

StartSession ==
    IF device # <<>> /\ ~active /\ ~starting
    THEN /\ starts < MaxSessions /\ starts' = starts + 1
         /\ starting' = TRUE /\ buffer' = 0
         /\ jobs' = Append(jobs, [kind |-> "start", token |-> device[1]])
    ELSE UNCHANGED <<starts, starting, buffer, jobs>>

(* Boost, switch the power scheme and start: the common end of the fast    *)
(* path, of the countdown and of a game card.                              *)
BoostAndStart ==
    /\ \E S \in SUBSET Process : BeginForPid(S)
    /\ BeginHighPerformancePower
    /\ phase' = "Active"
    /\ StartSession
    /\ UNCHANGED <<device, activating, active, session, perf, stuckPower, taken>>

(* Mutant: asked for again while a session is on.                          *)
RequestStartAnyway ==
    /\ device # <<>> /\ phase # "CountingDown"
    /\ BoostAndStart

(* A known game is running and starts at once, or the countdown begins.    *)
RequestStartSession ==
    /\ device # <<>> /\ ~active /\ phase = "Idle"
    /\ \/ BoostAndStart
       \/ /\ phase' = "CountingDown"
          /\ UNCHANGED <<device, activating, starting, active, session, buffer, perf, tweaks,
                         jobs, counts>>

CancelStartRequest ==
    /\ phase = "CountingDown"
    /\ phase' = "Idle"
    /\ UNCHANGED <<device, activating, starting, active, session, buffer, perf, tweaks,
                   jobs, counts>>

Call(kind, n) == [kind |-> kind, token |-> device[1], session |-> session, n |-> n]

(* Mutant: the samples still in the buffer are not sent.                   *)
StopSessionDropping ==
    IF active /\ device # <<>>
    THEN /\ End /\ EndHighPerformancePower
         /\ phase' = "Idle"
         /\ jobs' = Append(jobs, Call("end", 0))
         /\ buffer' = 0
         /\ active' = FALSE /\ session' = None
    ELSE UNCHANGED <<tweaks, phase, jobs, buffer, active, session>>

(* Mutant: the machine is left as it is.                                   *)
StopSessionKeepingBoost ==
    IF active /\ device # <<>>
    THEN /\ UNCHANGED tweaks
         /\ phase' = "Idle"
         /\ jobs' = Append(jobs, Call("end", buffer))
         /\ buffer' = 0
         /\ active' = FALSE /\ session' = None
    ELSE UNCHANGED <<tweaks, phase, jobs, buffer, active, session>>

(* One job sends what is left in the buffer and ends the session.          *)
StopSession ==
    IF active /\ device # <<>>
    THEN /\ End /\ EndHighPerformancePower
         /\ phase' = "Idle"
         /\ jobs' = Append(jobs, Call("end", buffer))
         /\ buffer' = 0
         /\ active' = FALSE /\ session' = None
    ELSE UNCHANGED <<tweaks, phase, jobs, buffer, active, session>>

-----------------------------------------------------------------------------
(* App::Update, part by part.                                              *)

TakeLicenseResult ==
    /\ frame = "license" /\ frame' = "start"
    /\ \/ /\ licenseBox # <<>>
          /\ licenseBox' = <<>> /\ activating' = FALSE
          /\ device' = IF licenseBox[1] \in Token THEN licenseBox ELSE device
       \/ licenseBox = <<>> /\ UNCHANGED <<licenseBox, activating, device>>
    /\ UNCHANGED <<phase, starting, active, session, buffer, perf, startBox, tweaks,
                   jobs, remote, counts>>

(* Mutant: a start that failed leaves m_sessionStarting set.               *)
TakeStartResultKeeping ==
    /\ frame = "start" /\ frame' = "countdown"
    /\ \/ /\ startBox # <<>> /\ startBox' = <<>>
          /\ \/ /\ startBox[1] # None /\ session' = startBox[1]
                /\ active' = TRUE /\ starting' = FALSE
             \/ startBox[1] = None /\ UNCHANGED <<starting, session, active>>
       \/ startBox = <<>> /\ UNCHANGED <<startBox, starting, session, active>>
    /\ UNCHANGED <<device, activating, phase, buffer, perf, licenseBox, tweaks,
                   jobs, remote, counts>>

TakeStartResult ==
    /\ frame = "start" /\ frame' = "countdown"
    /\ \/ /\ startBox # <<>>
          /\ startBox' = <<>> /\ starting' = FALSE
          /\ \/ startBox[1] # None /\ session' = startBox[1] /\ active' = TRUE
             \/ startBox[1] = None /\ UNCHANGED <<session, active>>
       \/ startBox = <<>> /\ UNCHANGED <<startBox, starting, session, active>>
    /\ UNCHANGED <<device, activating, phase, buffer, perf, licenseBox, tweaks,
                   jobs, remote, counts>>

Countdown ==
    /\ frame = "countdown" /\ frame' = "auto"
    /\ \/ phase = "CountingDown" /\ BoostAndStart
       \/ UNCHANGED <<app, tweaks, jobs, counts>>
    /\ UNCHANGED <<boxes, remote>>

(* With the option on, every few seconds a known game starts a session.    *)
AutoStart ==
    /\ frame = "auto" /\ frame' = "sample"
    /\ \/ RequestStartSession
       \/ UNCHANGED <<app, tweaks, jobs, counts>>
    /\ UNCHANGED <<boxes, remote>>

SampleTick ==
    /\ frame = "sample" /\ frame' = "draw"
    /\ \/ /\ device # <<>> /\ active /\ taken < MaxSamples
          /\ taken' = taken + 1
          /\ \/ buffer + 1 < Batch /\ buffer' = buffer + 1 /\ UNCHANGED jobs
             \/ /\ buffer + 1 >= Batch /\ buffer' = 0
                /\ jobs' = Append(jobs, Call("samples", buffer + 1))
       \/ UNCHANGED <<taken, buffer, jobs>>
    /\ UNCHANGED <<device, activating, phase, starting, active, session, perf, boxes,
                   tweaks, remote, starts>>

-----------------------------------------------------------------------------
(* App::Draw: at most one button. Without a device only the license page   *)
(* is shown.                                                               *)

Draw == frame = "draw" /\ frame' = "license" /\ UNCHANGED <<boxes, remote>>

LookOnly == Draw /\ UNCHANGED <<app, tweaks, jobs, counts>>

SubmitLicenseKey ==
    /\ Draw /\ device = <<>> /\ ~activating
    /\ activating' = TRUE
    /\ jobs' = Append(jobs, [kind |-> "register"])
    /\ UNCHANGED <<device, phase, starting, active, session, buffer, perf, tweaks, counts>>

PressStart == Draw /\ RequestStartSession

(* A game card starts a session for that game's process.                   *)
StartFromGameCard == Draw /\ device # <<>> /\ phase = "Idle" /\ ~active /\ BoostAndStart

PressCancel == Draw /\ device # <<>> /\ CancelStartRequest

(* The button is there when a session is active or the boost is.           *)
PressStop ==
    /\ Draw /\ device # <<>> /\ phase # "CountingDown" /\ (active \/ phase = "Active")
    /\ StopSession
    /\ UNCHANGED <<device, activating, starting, perf, counts>>

Unlink ==
    /\ Draw /\ device # <<>>
    /\ StopSession
    /\ device' = <<>>
    /\ UNCHANGED <<activating, starting, perf, counts>>

(* Switched off, the scheme goes back at once; switched on, nothing        *)
(* happens before the next session.                                        *)
TogglePerformance ==
    /\ Draw /\ device # <<>>
    /\ perf' = ~perf
    /\ \/ perf /\ EndHighPerformancePower
       \/ ~perf /\ UNCHANGED <<powerBy, powerChanged, stuckPower>>
    /\ UNCHANGED <<device, activating, phase, starting, active, session, buffer, adjusted,
                   priority, jobs, counts>>

(* The window is closed: App's destructor drains the worker and does       *)
(* nothing else.                                                           *)
Close ==
    /\ frame = "draw" /\ frame' = "closed"
    /\ UNCHANGED <<app, boxes, tweaks, jobs, remote, counts>>

-----------------------------------------------------------------------------
(* The worker and the server. A lost answer leaves the server changed.     *)

NextSession == CHOOSE s \in SessionId :
                   server[s] = "none" /\ \A r \in 1 .. (s - 1) : server[r] # "none"

Register(j) ==
    /\ j.kind = "register"
    /\ licenseBox' \in {<<t>> : t \in Token} \cup {<<"refused">>}
    /\ UNCHANGED <<startBox, remote>>

SessionStart(j) ==
    /\ j.kind = "start"
    /\ \E answer \in Answers :
          /\ server' = IF answer = "refused" THEN server
                       ELSE [server EXCEPT ![NextSession] = "open"]
          /\ startBox' = IF answer = "ok" THEN <<NextSession>> ELSE <<None>>
    /\ UNCHANGED <<licenseBox, sent, stray>>

SendSamples(j) ==
    /\ j.kind = "samples"
    /\ sent' = sent + j.n
    /\ stray' = (stray \/ server[j.session] # "open")
    /\ UNCHANGED <<boxes, server>>

(* Mutant: the session is ended before its last samples are sent.          *)
SessionEndFirst(j) ==
    /\ j.kind = "end"
    /\ sent' = sent + j.n
    /\ stray' = (stray \/ j.n > 0)
    /\ \E answer \in Answers :
          server' = IF answer = "refused" THEN server ELSE [server EXCEPT ![j.session] = "ended"]
    /\ UNCHANGED boxes

SessionEnd(j) ==
    /\ j.kind = "end"
    /\ sent' = sent + j.n
    /\ stray' = (stray \/ server[j.session] # "open")
    /\ \E answer \in Answers :
          server' = IF answer = "refused" THEN server ELSE [server EXCEPT ![j.session] = "ended"]
    /\ UNCHANGED boxes

RunJob ==
    /\ jobs # <<>>
    /\ jobs' = Tail(jobs)
    /\ \/ Register(Head(jobs)) \/ SessionStart(Head(jobs))
       \/ SendSamples(Head(jobs)) \/ SessionEnd(Head(jobs))
    /\ UNCHANGED <<frame, app, tweaks, counts>>

-----------------------------------------------------------------------------
Update == TakeLicenseResult \/ TakeStartResult \/ Countdown \/ AutoStart \/ SampleTick

Buttons ==
    \/ SubmitLicenseKey \/ PressStart \/ StartFromGameCard \/ PressCancel
    \/ PressStop \/ Unlink \/ TogglePerformance \/ Close

Next == Update \/ LookOnly \/ Buttons \/ RunJob

(* The render loop goes round until the window is closed, and the worker   *)
(* runs its jobs, also from App's destructor.                              *)
Fairness == WF_vars(Update \/ LookOnly \/ Buttons) /\ WF_vars(RunJob)

Spec == Init /\ [][Next]_vars /\ Fairness

(* A user who presses the stop button whenever it keeps being there.       *)
InsistentSpec == Spec /\ SF_vars(PressStop)

-----------------------------------------------------------------------------
(* Properties.                                                             *)

(* Every variable stays in its type; a batch is never more than full, and  *)
(* a session id is held exactly while a session is active.                 *)
TypeOK ==
    /\ frame \in Frame
    /\ device \in {<<>>} \cup {<<t>> : t \in Token}
    /\ activating \in BOOLEAN /\ starting \in BOOLEAN /\ active \in BOOLEAN
    /\ licenseBox \in {<<>>, <<"refused">>} \cup {<<t>> : t \in Token}
    /\ phase \in {"Idle", "CountingDown", "Active"}
    /\ session \in SessionId \cup {None} /\ (active <=> session # None)
    /\ startBox \in {<<>>} \cup {<<s>> : s \in SessionId \cup {None}}
    /\ buffer \in 0 .. (Batch - 1)
    /\ perf \in BOOLEAN
    /\ adjusted \in [Process -> Seq({"own", "changed"})]
    /\ priority \in [Process -> {"own", "changed"}]
    /\ powerBy \in {"user", "nasaki"} /\ powerChanged \in BOOLEAN
    /\ jobs \in Seq(Job)
    /\ server \in [SessionId -> {"none", "open", "ended"}]
    /\ starts \in 0 .. MaxSessions /\ taken \in 0 .. MaxSamples /\ sent \in Nat
    /\ stray \in BOOLEAN /\ stuckPower \in BOOLEAN

(* ProcessBoost is never begun twice: every priority Nasaki changed has    *)
(* its one original recorded, so End puts back exactly that one; and none  *)
(* is changed outside the boost phase.                                     *)
PrioritiesRecorded ==
    \A p \in Process :
        IF priority[p] = "changed" THEN adjusted[p] = <<"own">> /\ phase = "Active"
        ELSE adjusted[p] = <<>>

(* The power scheme is Nasaki's only in the boost phase, and then it will  *)
(* be switched back, unless a switch back has failed.                      *)
PowerRecorded ==
    powerBy = "nasaki" /\ ~stuckPower => powerChanged /\ phase = "Active"

StartsOnTheWay ==
    Cardinality({k \in DOMAIN jobs : jobs[k].kind = "start"}) + Len(startBox)

(* One start at a time is waiting for the server or for Update, exactly    *)
(* while m_sessionStarting says so, whatever is pressed meanwhile: the     *)
(* mailbox is never overwritten and the answer never meets another session *)
(* that is active.                                                         *)
OneStart ==
    /\ StartsOnTheWay = (IF starting THEN 1 ELSE 0)
    /\ starting => ~active

(* Samples and the end of a session reach the server while that session is *)
(* open: after its start was answered and before its end, through flushes, *)
(* stops, unlinking and linking again.                                     *)
NoStrayCall == ~stray

(* Every sample recorded is handed to the server once, is in the buffer,   *)
(* or waits in the queue: a batch, a stop or a restart drops none and      *)
(* sends none twice.                                                       *)
Carried(j) == IF j.kind \in {"samples", "end"} THEN j.n ELSE 0
Queued(q) ==
    LET upTo[k \in 0 .. Len(q)] == IF k = 0 THEN 0 ELSE upTo[k - 1] + Carried(q[k])
    IN  upTo[Len(q)]
SamplesConserved == taken = sent + Queued(jobs) + buffer

(* A start is answered, and with the answer the card can be used again.    *)
StartAnswered == starting ~> (~starting \/ frame = "closed")

-----------------------------------------------------------------------------
(* What the documents and comments say, and the code does not do.          *)

(* ProcessBoost.h: a Begin is paired with an End. The user wants the       *)
(* session ended, and keeps pressing the button for it.                    *)
BoostIsPaired ==
    (phase = "Active" /\ device # <<>>)
        ~> (phase # "Active" \/ device = <<>> \/ frame = "closed")
=============================================================================
