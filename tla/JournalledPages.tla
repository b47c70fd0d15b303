-------------------------- MODULE JournalledPages --------------------------
(***************************************************************************)
(* The two pages whose changes go through the backup journal without being *)
(* optimizations: programs started with Windows                            *)
(* (src/optim/StartupEntries.cpp) and the active power plan                *)
(* (src/optim/PowerPlans.cpp). Their jobs run one at a time on the worker  *)
(* thread. Meanwhile the user and other programs write the same values,    *)
(* and on the render thread a session switches the power plan as well      *)
(* (src/WinTweaks.cpp), with a memory of its own. What a crash does to the *)
(* journal is the subject of RegistryOptimization and left out here.       *)
(***************************************************************************)
EXTENDS FiniteSets

CONSTANTS
    Program,    \* names of values under the user's Run key
    Command,    \* command lines they can hold
    Scheme,     \* the place that holds the active power plan
    Plan,       \* the installed power plans
    HighPerformance, \* the one a session switches to
    Absent,     \* the value does not exist
    NoEntry     \* no backup entry; also a plan that could not be read

Place == Program \cup {Scheme}
Party == {"user", "nasaki", "session"}
Possible(p) == IF p = Scheme THEN Plan ELSE Command \cup {Absent}
Snapshot == Command \cup Plan \cup {Absent}
(* A value with, as history, who wrote it last: "nasaki" for the two       *)
(* pages, "session" for the switch of a session.                           *)
Cell == [value: Snapshot, by: Party]
UserCells(p) == [value: Possible(p), by: {"user"}]

ASSUME PlaceAssumption == Scheme \notin Program
ASSUME PlanAssumption == HighPerformance \in Plan
ASSUME ValueAssumption ==
    /\ Absent \notin Command \cup Plan
    /\ NoEntry \notin Snapshot \cup Cell

VARIABLES
    live,       \* the Run key and the active scheme
    entries,    \* BackupStore::m_entries, for the two pages
    listed,     \* m_startupEntries: how each program is shown
    step,       \* where the worker is in its job
    kind, place, want, \* the job, and the value it wants at its place
    result,     \* the Error::Code it has come to
    previous,   \* g_previousScheme; NoEntry while no session needs it
    session,    \* WinTweaks: "off", "reading" or "on" (g_powerChanged)
    (* history variables *)
    disturbed,  \* someone else wrote the place of the running job
    misread,    \* a check passed on a failed read
    mixed       \* a job on the plan met a session's, running or left over

vars == <<live, entries, listed, step, kind, place, want, result, previous,
          session, disturbed, misread, mixed>>
job == <<kind, place, want>>
power == <<previous, session>>
history == <<disturbed, misread, mixed>>

Init ==
    /\ live \in [Place -> [value: Snapshot, by: {"user"}]]
    /\ \A p \in Place : live[p] \in UserCells(p)
    /\ entries = [p \in Place |-> NoEntry]
    /\ listed = [p \in Program |-> "no"]
    /\ step = "idle" /\ kind = "refresh" /\ place = Scheme /\ want = NoEntry
    /\ result = "none"
    /\ previous = NoEntry /\ session = "off"
    /\ disturbed = FALSE /\ misread = FALSE /\ mixed = FALSE

-----------------------------------------------------------------------------
(* The worker takes a job; the button exists for what the page shows.      *)

Start(k, p, v, s) ==
    /\ step = "idle"
    /\ kind' = k /\ place' = p /\ want' = v /\ step' = s
    /\ result' = "none"
    /\ mixed' = (mixed \/ /\ p = Scheme /\ k # "refresh"
                          /\ session # "off" \/ live[Scheme].by = "session")
    /\ UNCHANGED <<live, entries, listed, power, disturbed, misread>>

StartRefresh(p) == Start("refresh", p, NoEntry, "scan")
StartRemove(n) == listed[n] = "live" /\ Start("change", n, Absent, "read")

(* The page hides the button of the plan it shows as active, which need    *)
(* not be the active one any more.                                         *)
StartActivate(g) == Start("change", Scheme, g, "read")

(* "removed" is shown only with an entry, so Find finds one.               *)
StartRestore(p) ==
    /\ IF p = Scheme THEN entries[p] # NoEntry ELSE listed[p] = "removed"
    /\ Start("restore", p, entries[p].value, "write")

Return(code) == step' = "scan" /\ result' = code

-----------------------------------------------------------------------------
(* StartupManager::Remove and PowerPlanManager::Activate, then Restore and *)
(* RestoreOriginal.                                                        *)

(* Mutant: the newest value is recorded as the original.                   *)
CaptureAlways(es, p, original) == [es EXCEPT ![p] = original]

CaptureIfAbsent(es, p, original) ==
    IF es[p] # NoEntry THEN es ELSE [es EXCEPT ![p] = original]

(* The value is read and recorded, unless it cannot be read, is not there, *)
(* or is the plan already.                                                 *)
ReadBefore ==
    /\ step = "read"
    /\ \/ /\ live[place].value # want
          /\ entries' = CaptureIfAbsent(entries, place, live[place])
          /\ step' = "write" /\ UNCHANGED result
       \/ /\ Return(IF live[place].value = want /\ place = Scheme THEN "Ok" ELSE "ReadFailed")
          /\ UNCHANGED entries
       \/ Return("ReadFailed") /\ UNCHANGED entries
    /\ UNCHANGED <<live, listed, job, power, history>>

(* Writing what is there already leaves it whose it is.                    *)
Goal ==
    IF kind = "restore" THEN entries[place]
    ELSE IF live[place].value = want THEN live[place]
    ELSE [value |-> want, by |-> "nasaki"]

(* The call succeeds, reports a success that a policy undoes, or fails.    *)
Write ==
    /\ step = "write"
    /\ \/ /\ \/ live' = [live EXCEPT ![place] = Goal]
             \/ live[place].value # want /\ UNCHANGED live
          /\ step' = "check" /\ UNCHANGED result
       \/ Return("WriteFailed") /\ UNCHANGED live
    /\ UNCHANGED <<entries, listed, job, power, history>>

(* A failed read looks like an absent value, or like no plan at all.       *)
Reading(p) == {live[p].value, IF p = Scheme THEN NoEntry ELSE Absent}

(* Mutant: every entry of the page goes.                                   *)
ForgetPage(es, p) ==
    [q \in Place |-> IF (q = Scheme) = (p = Scheme) THEN NoEntry ELSE es[q]]

ForgetValue(es, p) == [es EXCEPT ![p] = NoEntry]

Settled == entries' = IF kind = "restore" THEN ForgetValue(entries, place) ELSE entries

(* Mutant: the value is not read again.                                    *)
CheckNothing ==
    /\ step = "check"
    /\ Return("Ok") /\ Settled
    /\ UNCHANGED <<live, listed, job, power, history>>

(* The entry is dropped when a restore is confirmed, and only then.        *)
Check ==
    /\ step = "check"
    /\ \E seen \in Reading(place) :
          \/ /\ seen = want
             /\ Return("Ok") /\ Settled
             /\ misread' = (seen # live[place].value)
          \/ /\ seen # want
             /\ Return("VerifyMismatch")
             /\ UNCHANGED <<entries, misread>>
    /\ UNCHANGED <<live, listed, job, power, disturbed, mixed>>

(* Mutant: only what is in the Run key is listed.                          *)
ListOfLive(S) == [n \in Program |-> IF n \in S THEN "live" ELSE "no"]

(* Every job ends with a new list of its page. That of the programs is     *)
(* what could be read of the Run key and, from the journal, what Nasaki    *)
(* can put back.                                                           *)
ListOf(S) == [n \in Program |-> IF n \in S THEN "live"
                                ELSE IF entries[n] # NoEntry THEN "removed" ELSE "no"]

Scan ==
    /\ step = "scan"
    /\ \/ place = Scheme /\ UNCHANGED listed
       \/ /\ place # Scheme
          /\ \E S \in SUBSET {n \in Program : live[n].value # Absent} : listed' = ListOf(S)
    /\ step' = "idle" /\ kind' = "refresh" /\ place' = Scheme /\ want' = NoEntry
    /\ result' = "none" /\ disturbed' = FALSE /\ misread' = FALSE
    /\ UNCHANGED <<live, entries, power, mixed>>

-----------------------------------------------------------------------------
(* The others: the user and other programs, and the session's own switch   *)
(* on the render thread, whose results are not looked at.                  *)

Disturbs(p) == disturbed' = (disturbed \/ (step # "idle" /\ place = p))

OtherWrites(p) ==
    /\ \E c \in UserCells(p) \ {live[p]} : live' = [live EXCEPT ![p] = c]
    /\ Disturbs(p)
    /\ UNCHANGED <<entries, listed, step, job, result, power, misread, mixed>>

SessionReads ==
    /\ session = "off"
    /\ session' = "reading" /\ previous' = live[Scheme]
    /\ mixed' = (mixed \/ (step # "idle" /\ place = Scheme /\ kind # "refresh"))
    /\ UNCHANGED <<live, entries, listed, step, job, result, disturbed, misread>>

SessionSwitches ==
    /\ session = "reading"
    /\ \/ /\ session' = "on" /\ UNCHANGED previous
          /\ live' = [live EXCEPT ![Scheme] =
                          IF @.value = HighPerformance THEN @
                          ELSE [value |-> HighPerformance, by |-> "session"]]
          /\ Disturbs(Scheme)
       \/ /\ session' = "off" /\ previous' = NoEntry     \* no such plan here
          /\ UNCHANGED <<live, disturbed>>
    /\ UNCHANGED <<entries, listed, step, job, result, misread, mixed>>

SessionEnds ==
    /\ session = "on"
    /\ session' = "off" /\ previous' = NoEntry
    /\ live' \in {live, [live EXCEPT ![Scheme] = previous]}
    /\ Disturbs(Scheme)
    /\ UNCHANGED <<entries, listed, step, job, result, misread, mixed>>

Next ==
    \/ \E p \in Place : StartRefresh(p) \/ StartRestore(p) \/ OtherWrites(p)
    \/ \E n \in Program : StartRemove(n)
    \/ \E g \in Plan : StartActivate(g)
    \/ ReadBefore \/ Write \/ Check \/ Scan
    \/ SessionReads \/ SessionSwitches \/ SessionEnds

Spec == Init /\ [][Next]_vars

-----------------------------------------------------------------------------
(* Properties.                                                             *)

(* Every variable stays in its type; an entry of these pages is always a   *)
(* value that existed, a command line or a plan, that can be put back.     *)
TypeOK ==
    /\ live \in [Place -> Cell]
    /\ \A p \in Place : live[p].value \in Possible(p)
    /\ entries \in [Place -> [value: Command \cup Plan, by: Party] \cup {NoEntry}]
    /\ listed \in [Program -> {"no", "live", "removed"}]
    /\ step \in {"idle", "read", "write", "check", "scan"}
    /\ kind \in {"refresh", "change", "restore"} /\ place \in Place
    /\ want \in Snapshot \cup {NoEntry}
    /\ result \in {"none", "Ok", "ReadFailed", "WriteFailed", "VerifyMismatch"}
    /\ previous \in Cell \cup {NoEntry} /\ session \in {"off", "reading", "on"}
    /\ disturbed \in BOOLEAN /\ misread \in BOOLEAN /\ mixed \in BOOLEAN

(* A program Nasaki removed and a plan it activated can be put back: their *)
(* entry is there, whatever failed since and whichever other entry of the  *)
(* page was restored. The plan is excepted once a job on it has met a      *)
(* session's switch.                                                       *)
ChangesRecorded ==
    \A p \in Place : live[p].by = "nasaki" /\ ~(p = Scheme /\ mixed) => entries[p] # NoEntry

(* What an entry holds is the user's: activating one plan after another    *)
(* keeps the first. The same exception.                                    *)
OriginalIsUsers ==
    \A p \in Place : entries[p] # NoEntry /\ ~(p = Scheme /\ mixed) => entries[p].by = "user"

(* A removal, an activation or a restore that reports Ok is in force, also *)
(* when a policy undid the call, unless someone else wrote the value       *)
(* during the job or the removal's check could not read it.                *)
ChangeVerified ==
    step = "scan" /\ result = "Ok" /\ ~disturbed /\ ~misread => live[place].value = want

(* Between jobs every program Nasaki removed is on the page with its       *)
(* button to put it back, after failed jobs and failed scans too.          *)
RemovalsAreListed ==
    step = "idle" => \A n \in Program : live[n].by = "nasaki" => listed[n] = "removed"

(* The two pages keep the promise of RollbackContract, where a session     *)
(* counts as one of the others: for every program always, for the plan     *)
(* until a job on it meets a session. Nothing is saved and no process ends *)
(* here.                                                                   *)
OthersAreUsers(c) == [value |-> c.value, by |-> IF c.by = "session" THEN "user" ELSE c.by]
Contract == INSTANCE RollbackContract WITH
    live <- [p \in Place |-> OthersAreUsers(live[p])],
    record <- [p \in Place |-> IF entries[p] = NoEntry THEN NoEntry
                               ELSE OthersAreUsers(entries[p])],
    saved <- [p \in Place |-> NoEntry], up <- TRUE,
    void <- IF mixed THEN {Scheme} ELSE {}, Shared <- {Scheme}
RefinesContract == Contract!Spec

-----------------------------------------------------------------------------
(* What the comments say, and the code does not do.                        *)

(* StartupEntries.cpp: the exact value is captured before it is deleted,   *)
(* so what is deleted is what would be put back.                           *)
DeletesWhatItCaptured ==
    step = "write" /\ kind = "change" /\ place # Scheme /\ ~disturbed =>
        entries[place].value = live[place].value

(* PowerPlans.h: the plan to go back to is the one from before Nasaki      *)
(* changed anything.                                                       *)
OriginalPlanIsUsers == entries[Scheme] # NoEntry => entries[Scheme].by = "user"
=============================================================================
