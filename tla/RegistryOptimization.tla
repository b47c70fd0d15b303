------------------------ MODULE RegistryOptimization ------------------------
(***************************************************************************)
(* One optimization at a time being applied or restored by the worker      *)
(* thread (src/optim/RegistryOptimization.cpp), the registry it writes     *)
(* (src/optim/RegistryValue.cpp), the backup journal in memory and on disk *)
(* (src/optim/BackupStore.cpp), and what can happen between two of its     *)
(* steps: the user or Windows writes the same value, a call fails, a       *)
(* policy discards a write that reported success, the process dies and is  *)
(* started again.                                                          *)
(***************************************************************************)
EXTENDS Integers, Sequences

CONSTANTS
    Id,         \* the optimizations of the catalog
    Place,      \* the registry values and SPI settings they change
    Targets,    \* Targets[o]: the places of optimization o, in order
    Supported,  \* the optimizations this Windows build has
    Immediate,  \* those that verify each value as soon as it is put back
    Value,      \* the data a place can hold
    Absent,     \* the value does not exist
    Wanted,     \* Wanted[p]: the value Apply writes to p
    NoEntry     \* no backup entry

Snapshot == Value \cup {Absent}
Party == {"user", "nasaki"}
(* A snapshot with, as history, who wrote it last.                         *)
Cell == [value: Snapshot, by: Party]
UserCell == [value: Snapshot, by: {"user"}]
Entry == Cell \cup {NoEntry}

ASSUME TargetsAssumption ==
    /\ Targets \in [Id -> Seq(Place)]
    /\ \A o \in Id : Targets[o] # <<>>
    /\ \A o, q \in Id : \A i \in DOMAIN Targets[o], j \in DOMAIN Targets[q] :
           Targets[o][i] = Targets[q][j] => o = q /\ i = j
ASSUME KindAssumption == Supported \subseteq Id /\ Immediate \subseteq Id
ASSUME ValueAssumption == Absent \notin Value /\ Wanted \in [Place -> Value]
ASSUME NoEntryAssumption == NoEntry \notin Cell

VARIABLES
    live,       \* the registry
    entries,    \* BackupStore::m_entries
    journal,    \* what Load would read from backups.json
    saveOk,     \* the last Save wrote the whole file
    op, cur,    \* the job: "apply" or "restore", and of which optimization
    step, i,    \* where the worker is in it
    then,       \* where it goes after the Save it is in
    restoredAny,\* Restore's local
    result,     \* the Error::Code returned
    (* history variables *)
    disturbed,  \* a place of the running job was written by someone else
    lost        \* the places whose entry Nasaki needs and has not got: a
                \* crash met a journal without it, or its check passed on a
                \* failed read

vars == <<live, entries, journal, saveOk, op, cur, step, i, then,
          restoredAny, result, disturbed, lost>>

store == <<entries, journal, saveOk>>
job == <<op, cur>>
history == <<disturbed, lost>>

Step == {"idle", "capture", "write", "verify", "putback", "check", "forget",
         "open", "flush", "record", "down"}
Code == {"none", "Ok", "NotSupported", "ReadFailed", "WriteFailed",
         "VerifyMismatch", "NoBackup"}

NoEntries == [p \in Place |-> NoEntry]
TargetsOf(o) == {Targets[o][k] : k \in DOMAIN Targets[o]}
N == Len(Targets[cur])
T == Targets[cur][i]

Init ==
    /\ live \in [Place -> UserCell]
    /\ entries = NoEntries
    /\ journal = NoEntries
    /\ saveOk = TRUE
    /\ op = "apply" /\ cur \in Id
    /\ step = "idle" /\ i = 1 /\ then = "idle"
    /\ restoredAny = FALSE
    /\ result = "none"
    /\ disturbed = FALSE /\ lost = {}

-----------------------------------------------------------------------------
(* BackupStore: the operations on m_entries, and Save in its two steps.    *)

(* Mutant: the newest value is recorded as the original.                   *)
CaptureAlways(es, p, original) == [es EXCEPT ![p] = original]

CaptureIfAbsent(es, p, original) ==
    IF es[p] # NoEntry THEN es ELSE [es EXCEPT ![p] = original]

Forget(es, o) == [p \in Place |-> IF p \in TargetsOf(o) THEN NoEntry ELSE es[p]]

(* std::ofstream(path, trunc): the old journal is gone from here on, or    *)
(* the file cannot be opened and nothing happens. Every caller ignores     *)
(* the result.                                                             *)
SaveOpen ==
    /\ step = "open"
    /\ \/ /\ journal' = NoEntries
          /\ step' = "flush"
          /\ UNCHANGED saveOk
       \/ /\ saveOk' = FALSE
          /\ step' = then
          /\ UNCHANGED journal
    /\ UNCHANGED <<live, entries, job, i, then, restoredAny, result, history>>

(* The dump reaches the file, or the write fails and leaves it torn.       *)
SaveFlush ==
    /\ step = "flush"
    /\ \/ /\ journal' = entries
          /\ saveOk' = TRUE
       \/ /\ saveOk' = FALSE
          /\ UNCHANGED journal
    /\ step' = then
    /\ UNCHANGED <<live, entries, job, i, then, restoredAny, result, history>>

-----------------------------------------------------------------------------
(* The worker takes the next job.                                          *)

(* Supported() is also false while no parent key of the targets exists,    *)
(* so no value either, and a setting of SystemParametersInfo is not there  *)
(* when its first read fails.                                              *)
Unavailable(o) ==
    \/ o \notin Supported \/ o \in Immediate
    \/ \A p \in TargetsOf(o) : live[p].value = Absent

StartApply(o) ==
    /\ step = "idle"
    /\ op' = "apply" /\ cur' = o /\ i' = 1
    /\ \/ o \in Supported /\ step' = "capture" /\ result' = "none"
       \/ Unavailable(o) /\ step' = "record" /\ result' = "NotSupported"
    /\ restoredAny' = FALSE
    /\ disturbed' = FALSE
    /\ UNCHANGED <<live, store, then, lost>>

StartRestore(o) ==
    /\ step = "idle"
    /\ op' = "restore" /\ cur' = o /\ i' = 1
    /\ step' = "putback" /\ result' = "none"
    /\ restoredAny' = FALSE
    /\ disturbed' = FALSE
    /\ UNCHANGED <<live, store, then, lost>>

(* An early return: the rest of the operation is skipped.                  *)
Return(code) == step' = "record" /\ i' = 1 /\ result' = code /\ UNCHANGED then

(* Go on to the next target of the same loop, or leave the loop.           *)
NextTarget == i < N /\ i' = i + 1 /\ UNCHANGED <<step, then, result>>
LeaveLoop(s) == i = N /\ i' = 1 /\ step' = s

-----------------------------------------------------------------------------
(* Apply: capture every original, save, write every target, read back.     *)

(* Mutant: a value that cannot be read is skipped.                         *)
CaptureSkipsUnreadable ==
    /\ step = "capture"
    /\ entries' \in {entries, CaptureIfAbsent(entries, T, live[T])}
    /\ NextTarget \/ (LeaveLoop("open") /\ then' = "write" /\ UNCHANGED result)
    /\ UNCHANGED <<live, journal, saveOk, job, restoredAny, history>>

(* Mutant: no Save between capturing and writing.                          *)
CaptureWithoutSave ==
    /\ step = "capture"
    /\ entries' = CaptureIfAbsent(entries, T, live[T])
    /\ NextTarget \/ (LeaveLoop("write") /\ UNCHANGED <<then, result>>)
    /\ UNCHANGED <<live, journal, saveOk, job, restoredAny, history>>

CaptureTarget ==
    /\ step = "capture"
    /\ \/ /\ entries' = CaptureIfAbsent(entries, T, live[T])
          /\ \/ NextTarget
             \/ LeaveLoop("open") /\ then' = "write" /\ UNCHANGED result
       \/ /\ Return("ReadFailed")
          /\ UNCHANGED entries
    /\ UNCHANGED <<live, journal, saveOk, job, restoredAny, history>>

(* Writing the value that is there already leaves it the user's.           *)
Written(p) == IF live[p].value = Wanted[p] THEN live[p]
              ELSE [value |-> Wanted[p], by |-> "nasaki"]

WriteTarget ==
    /\ step = "write"
    /\ \/ /\ \/ live' = [live EXCEPT ![T] = Written(T)]
             \/ UNCHANGED live            \* a policy keeps the old value
          /\ \/ NextTarget
             \/ LeaveLoop("verify") /\ UNCHANGED <<then, result>>
       \/ /\ Return("WriteFailed")
          /\ UNCHANGED live
    /\ UNCHANGED <<store, job, restoredAny, history>>

(* Mutant: only the first target is read back.                             *)
VerifyFirstOnly ==
    /\ step = "verify"
    /\ \/ live[T].value = Wanted[T] /\ step' = "record" /\ result' = "Ok"
          /\ UNCHANGED <<i, then>>
       \/ Return("VerifyMismatch")
    /\ UNCHANGED <<live, store, job, restoredAny, history>>

VerifyTarget ==
    /\ step = "verify"
    /\ \/ /\ live[T].value = Wanted[T]
          /\ \/ NextTarget
             \/ LeaveLoop("record") /\ result' = "Ok" /\ UNCHANGED then
       \/ Return("VerifyMismatch")           \* another value, or no answer
    /\ UNCHANGED <<live, store, job, restoredAny, history>>

-----------------------------------------------------------------------------
(* Restore: put back every value that has an entry, check, forget, save.   *)

(* After the last target of the loop that writes.                          *)
AllPutBack(any) ==
    \/ any /\ LeaveLoop(IF cur \in Immediate THEN "forget" ELSE "check")
           /\ UNCHANGED <<then, result>>
    \/ ~any /\ i = N /\ Return("NoBackup")

PutBackTarget ==
    /\ step = "putback"
    /\ \/ /\ entries[T] = NoEntry
          /\ NextTarget \/ AllPutBack(restoredAny)
          /\ UNCHANGED <<live, restoredAny>>
       \/ /\ entries[T] # NoEntry
          /\ \/ live' = [live EXCEPT ![T] = entries[T]]
             \/ live[T].value # entries[T].value /\ UNCHANGED live  \* a policy
          /\ restoredAny' = TRUE
          /\ \/ /\ cur \in Immediate
                /\ step' = "check"
                /\ UNCHANGED <<i, then, result>>
             \/ /\ cur \notin Immediate
                /\ NextTarget \/ AllPutBack(TRUE)
       \/ /\ entries[T] # NoEntry
          /\ Return("WriteFailed")
          /\ UNCHANGED <<live, restoredAny>>
    /\ UNCHANGED <<store, job, history>>

(* reg::Read reports a failed read as an absent value, and the caller does *)
(* not look at systemError.                                                *)
ReadBack(p) == {live[p].value, Absent}

Checked ==
    \/ LeaveLoop("forget") /\ UNCHANGED <<then, result>>
    \/ cur \notin Immediate /\ NextTarget
    \/ /\ cur \in Immediate /\ i < N
       /\ i' = i + 1 /\ step' = "putback" /\ UNCHANGED <<then, result>>

(* Mutant: a value that does not match does not stop the restore.          *)
CheckIgnored ==
    /\ step = "check"
    /\ Checked
    /\ UNCHANGED <<live, store, job, restoredAny, history>>

CheckTarget ==
    /\ step = "check"
    /\ \/ entries[T] = NoEntry /\ Checked /\ UNCHANGED lost
       \/ /\ entries[T] # NoEntry
          /\ \E seen \in ReadBack(T) :
                \/ /\ seen = entries[T].value
                   /\ Checked
                   /\ lost' = IF seen = live[T].value THEN lost ELSE lost \cup {T}
                \/ /\ seen # entries[T].value
                   /\ Return("VerifyMismatch")
                   /\ UNCHANGED lost
    /\ UNCHANGED <<live, store, job, restoredAny, disturbed>>

ForgetAll ==
    /\ step = "forget"
    /\ entries' = Forget(entries, cur)
    /\ result' = "Ok"
    /\ step' = "open" /\ then' = "record"
    /\ UNCHANGED <<live, journal, saveOk, job, i, restoredAny, history>>

(* The end of the job in OptimizationService: history record, then Save.   *)
RecordOutcome ==
    /\ step = "record"
    /\ step' = "open" /\ then' = "idle"
    /\ restoredAny' = FALSE /\ result' = "none" /\ disturbed' = FALSE
    /\ UNCHANGED <<live, store, job, i, lost>>

-----------------------------------------------------------------------------
(* The environment.                                                        *)

OtherWrites(p) ==
    /\ \E c \in UserCell \ {live[p]} : live' = [live EXCEPT ![p] = c]
    /\ disturbed' = (disturbed \/ (step \notin {"idle", "down"} /\ p \in TargetsOf(cur)))
    /\ UNCHANGED <<store, job, step, i, then, restoredAny, result, lost>>

(* The process dies anywhere, and with it the job and m_entries.           *)
Crash ==
    /\ step # "down"
    /\ entries' = NoEntries
    /\ lost' = lost \cup {p \in Place : live[p].by = "nasaki" /\ journal[p] = NoEntry}
    /\ step' = "down" /\ then' = "idle" /\ i' = 1
    /\ saveOk' = TRUE /\ restoredAny' = FALSE /\ result' = "none"
    /\ disturbed' = FALSE
    /\ UNCHANGED <<live, journal, job>>

(* It is started again. BackupStore::Load reads the journal, or starts     *)
(* empty from a missing or corrupt file and leaves that as it is.          *)
Load ==
    /\ step = "down" /\ step' = "idle"
    /\ entries' = journal
    /\ UNCHANGED <<live, journal, saveOk, job, i, then, restoredAny, result, history>>

Worker ==
    \/ SaveOpen \/ SaveFlush
    \/ CaptureTarget \/ WriteTarget \/ VerifyTarget
    \/ PutBackTarget \/ CheckTarget \/ ForgetAll
    \/ RecordOutcome

Next ==
    \/ \E o \in Id : StartApply(o) \/ StartRestore(o)
    \/ Worker
    \/ \E p \in Place : OtherWrites(p)
    \/ Crash \/ Load

Spec == Init /\ [][Next]_vars

-----------------------------------------------------------------------------
(* Properties.                                                             *)

(* Every variable stays in its type, and the target index inside the       *)
(* running optimization.                                                   *)
TypeOK ==
    /\ live \in [Place -> Cell]
    /\ entries \in [Place -> Entry] /\ journal \in [Place -> Entry]
    /\ saveOk \in BOOLEAN
    /\ op \in {"apply", "restore"} /\ cur \in Id
    /\ step \in Step /\ i \in DOMAIN Targets[cur]
    /\ then \in {"idle", "write", "record"}
    /\ restoredAny \in BOOLEAN
    /\ result \in Code
    /\ disturbed \in BOOLEAN /\ lost \subseteq Place

Covered(es) == \A p \in Place \ lost : live[p].by = "nasaki" => es[p] # NoEntry

(* While the process runs, a value that is Nasaki's has an entry to put    *)
(* back, at every point of every Apply and Restore, failed ones included,  *)
(* and across restarts, unless its own entry was lost: a value is captured *)
(* before it is written and its entry outlives it.                         *)
RollbackRecorded == step # "down" => Covered(entries)

(* The journal on disk covers every value that is Nasaki's, so a crash     *)
(* here costs nothing, except while a Save is between its truncation and   *)
(* its write and after a Save that failed.                                 *)
JournalDurable == saveOk /\ step # "flush" => Covered(journal)

(* What an entry holds is the user's value, never one of Nasaki's own:     *)
(* applying twice, or after a failed or interrupted job, does not record   *)
(* Nasaki's value as the original, except where an entry was lost.         *)
OriginalIsUsers ==
    \A p \in Place \ lost : entries[p] # NoEntry => entries[p].by = "user"

(* Until the process restarts, an entry is not replaced by another: it     *)
(* stays the first original captured, or is dropped.                       *)
FirstOriginalKept ==
    [][~Load =>
          \A p \in Place : entries[p] # NoEntry => entries'[p] \in {entries[p], NoEntry}]_vars

(* Entries are dropped, all those of the optimization together, only when  *)
(* each value is back to what its entry says: one value that failed to be  *)
(* written or to be confirmed keeps the entries of them all. Excepted: a   *)
(* value whose check could not read (lost) and a write by someone else     *)
(* meanwhile.                                                              *)
ForgetIsVerified ==
    step = "forget" /\ ~disturbed =>
        \A p \in TargetsOf(cur) \ lost :
            entries[p] # NoEntry => live[p].value = entries[p].value

(* Apply reports Ok only when every value it wants is in force, although a *)
(* policy may have discarded a write that reported success, and can be put *)
(* back, unless someone else wrote one of them during the job.             *)
AppliedIsVerified ==
    step = "record" /\ op = "apply" /\ result = "Ok" /\ ~disturbed =>
        \A p \in TargetsOf(cur) : live[p].value = Wanted[p] /\ entries[p] # NoEntry

(* The framework keeps the promise of RollbackContract; its record is the  *)
(* journal in memory, and what is saved the journal on disk.               *)
Contract == INSTANCE RollbackContract WITH
    record <- entries, saved <- journal, up <- (step # "down"),
    void <- lost, Shared <- {}
RefinesContract == Contract!Spec

-----------------------------------------------------------------------------
(* What the comments and documents say, and the code does not do.          *)

(* BackupStore.h: a backup never records Nasaki's own value as the         *)
(* original, whatever happened before.                                     *)
OwnValueNeverOriginal ==
    \A p \in Place : entries[p] # NoEntry => entries[p].by = "user"

=============================================================================
