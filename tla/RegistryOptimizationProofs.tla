--------------------- MODULE RegistryOptimizationProofs ---------------------
(***************************************************************************)
(* Proofs about RegistryOptimization, for every catalog, every number of *)
(* targets and every set of values.                                      *)
(***************************************************************************)
EXTENDS RegistryOptimization, TLAPS

(* A place whose value is the user's again, and one that was at least    *)
(* written to: what is there is the user's, or visibly not what the entry  *)
(* says, so that the check will find it.                                 *)
Settled(p) == p \in lost \/ live[p].by = "user"
Handled(p) ==
    Settled(p) \/ (entries[p] # NoEntry /\ live[p].value # entries[p].value)

Before(k) == k \in DOMAIN Targets[cur] /\ k < i

(* Every target has an entry before the first one is written, in the     *)
(* journal too if the Save between the two loops succeeded.              *)
CapturedFirst ==
    /\ step = "capture" => \A k \in DOMAIN Targets[cur] :
           k < i => entries[Targets[cur][k]] # NoEntry
    /\ step \in {"open", "flush"} /\ then = "write" =>
           \A p \in TargetsOf(cur) : entries[p] # NoEntry
    /\ step = "write" =>
           \A p \in TargetsOf(cur) :
               entries[p] # NoEntry /\ (saveOk => journal[p] # NoEntry)

(* How far Restore is: which targets were put back, which were checked.  *)
PutBackFirst ==
    /\ step = "putback" =>
           \A k \in DOMAIN Targets[cur] : k < i =>
               IF cur \in Immediate THEN Settled(Targets[cur][k]) ELSE Handled(Targets[cur][k])
    /\ step = "check" =>
           /\ \A k \in DOMAIN Targets[cur] : k < i => Settled(Targets[cur][k])
           /\ Handled(T)
           /\ cur \notin Immediate => \A p \in TargetsOf(cur) : Handled(p)
    /\ step = "forget" => \A p \in TargetsOf(cur) : Settled(p)

JournalIsUsers ==
    \A p \in Place \ lost : journal[p] # NoEntry => journal[p].by = "user"

(* What the next start will find.                                        *)
StoppedDurable == step = "down" => Covered(journal)

IInv ==
    /\ TypeOK
    /\ RollbackRecorded
    /\ JournalDurable
    /\ OriginalIsUsers
    /\ JournalIsUsers
    /\ CapturedFirst
    /\ PutBackFirst
    /\ StoppedDurable

-----------------------------------------------------------------------------
(* The targets of an optimization are a non-empty sequence of places.    *)
LEMMA TargetFacts ==
    ASSUME NEW o \in Id
    PROVE  /\ Len(Targets[o]) \in Nat \ {0}
           /\ DOMAIN Targets[o] = 1 .. Len(Targets[o])
           /\ \A k \in DOMAIN Targets[o] : Targets[o][k] \in Place
           /\ TargetsOf(o) \subseteq Place
<1>1. Targets[o] \in Seq(Place) /\ Targets[o] # <<>>
  BY TargetsAssumption
<1>2. QED
  BY <1>1 DEF TargetsOf

(* The target the worker is at is a place, the index after it is one too,  *)
(* and the first is always there.                                        *)
LEMMA CurrentTarget ==
    ASSUME TypeOK
    PROVE  /\ T \in Place /\ T \in TargetsOf(cur)
           /\ N \in Nat \ {0} /\ i \in 1 .. N
           /\ DOMAIN Targets[cur] = 1 .. N
           /\ 1 \in DOMAIN Targets[cur]
           /\ i < N => i + 1 \in DOMAIN Targets[cur]
<1>1. cur \in Id /\ i \in DOMAIN Targets[cur]
  BY DEF TypeOK
<1>2. QED
  BY <1>1, TargetFacts DEF T, N, TargetsOf

LEMMA TypeInit == Init => TypeOK
<1> SUFFICES ASSUME Init PROVE TypeOK
  OBVIOUS
<1>1. cur \in Id /\ 1 \in DOMAIN Targets[cur]
  BY TargetFacts DEF Init
<1>2. live \in [Place -> Cell]
  BY DEF Init, UserCell, Cell, Party
<1>3. QED
  BY <1>1, <1>2 DEF Init, TypeOK, NoEntries, Entry, Step, Code

LEMMA TypeStep == TypeOK /\ [Next]_vars => TypeOK'
<1> SUFFICES ASSUME TypeOK, [Next]_vars PROVE TypeOK'
  OBVIOUS
<1>0. /\ T \in Place /\ T \in TargetsOf(cur)
      /\ N \in Nat \ {0} /\ i \in 1 .. N
      /\ DOMAIN Targets[cur] = 1 .. N
      /\ 1 \in DOMAIN Targets[cur]
      /\ i < N => i + 1 \in DOMAIN Targets[cur]
  BY CurrentTarget
<1> USE DEF TypeOK, Step, Code, store, job, history
<1>1. ASSUME NEW o \in Id, StartApply(o) PROVE TypeOK'
  <2>1. 1 \in DOMAIN Targets[o]
    BY TargetFacts
  <2>2. QED
    BY <1>1, <2>1 DEF StartApply
<1>2. ASSUME NEW o \in Id, StartRestore(o) PROVE TypeOK'
  <2>1. 1 \in DOMAIN Targets[o]
    BY TargetFacts
  <2>2. QED
    BY <1>2, <2>1 DEF StartRestore
<1>3. CASE SaveOpen
  BY <1>3 DEF SaveOpen, NoEntries, Entry
<1>4. CASE SaveFlush
  BY <1>4 DEF SaveFlush
<1>5. CASE CaptureTarget
  BY <1>0, <1>5 DEF CaptureTarget, CaptureIfAbsent, Entry, Return, NextTarget, LeaveLoop
<1>6. CASE WriteTarget
  <2>1. Written(T) \in Cell
    BY <1>0, ValueAssumption DEF Written, Cell, Party, Snapshot
  <2>2. QED
    BY <1>0, <1>6, <2>1 DEF WriteTarget, Return, NextTarget, LeaveLoop
<1>7. CASE VerifyTarget
  BY <1>0, <1>7 DEF VerifyTarget, Return, NextTarget, LeaveLoop
<1>8. CASE PutBackTarget
  <2>1. live' \in [Place -> Cell] /\ restoredAny' \in BOOLEAN
    BY <1>0, <1>8 DEF PutBackTarget, Entry
  <2>2. \/ NextTarget \/ Return("WriteFailed")
        \/ \E any \in BOOLEAN : AllPutBack(any)
        \/ step' = "check" /\ UNCHANGED <<i, then, result>>
    BY <1>8, Zenon DEF PutBackTarget
  <2>3. /\ i' \in DOMAIN Targets[cur]
        /\ step' \in Step /\ then' \in {"idle", "write", "record"} /\ result' \in Code
    BY <1>0, <2>2 DEF AllPutBack, Return, NextTarget, LeaveLoop
  <2>4. QED
    BY <1>8, <2>1, <2>3 DEF PutBackTarget
<1>9. CASE CheckTarget
  <2>1. Checked \/ Return("VerifyMismatch")
    BY <1>9 DEF CheckTarget
  <2>2. /\ i' \in DOMAIN Targets[cur]
        /\ step' \in Step /\ then' = then /\ result' \in Code
    BY <1>0, <2>1 DEF Checked, Return, NextTarget, LeaveLoop
  <2>3. lost' \subseteq Place
    BY <1>0, <1>9 DEF CheckTarget
  <2>4. QED
    BY <1>9, <2>2, <2>3 DEF CheckTarget
<1>10. CASE ForgetAll
  BY <1>0, <1>10 DEF ForgetAll, Forget, Entry
<1>11. CASE RecordOutcome
  BY <1>11 DEF RecordOutcome
<1>12. ASSUME NEW p \in Place, OtherWrites(p) PROVE TypeOK'
  BY <1>12 DEF OtherWrites, UserCell, Cell, Party
<1>13. CASE Crash
  BY <1>0, <1>13 DEF Crash, NoEntries, Entry
<1>14. CASE Load
  BY <1>14 DEF Load
<1>15. CASE UNCHANGED vars
  BY <1>15 DEF vars
<1>16. QED
  BY <1>1, <1>2, <1>3, <1>4, <1>5, <1>6, <1>7, <1>8, <1>9, <1>10, <1>11, <1>12, <1>13, <1>14, <1>15
  DEF Next, Worker

(* Every variable stays in its type.                                     *)
THEOREM TypeCorrect == Spec => []TypeOK
<1>1. QED
  BY TypeInit, TypeStep, PTL DEF Spec

-----------------------------------------------------------------------------
LEMMA InvInit == Init => IInv
<1> SUFFICES ASSUME Init PROVE IInv
  OBVIOUS
<1>1. \A p \in Place : live[p].by = "user" /\ entries[p] = NoEntry /\ journal[p] = NoEntry
  BY DEF Init, UserCell, NoEntries
<1>2. QED
  BY <1>1, TypeInit DEF Init, IInv, RollbackRecorded, JournalDurable, Covered, OriginalIsUsers,
     JournalIsUsers, CapturedFirst, PutBackFirst, StoppedDurable

LEMMA InvStep == IInv /\ [Next]_vars => IInv'
<1> SUFFICES ASSUME IInv, [Next]_vars PROVE IInv'
  OBVIOUS
<1> USE DEF IInv
<1>0. /\ TypeOK /\ TypeOK'
      /\ T \in Place /\ T \in TargetsOf(cur)
      /\ N \in Nat \ {0} /\ i \in 1 .. N
      /\ DOMAIN Targets[cur] = 1 .. N
      /\ TargetsOf(cur) \subseteq Place
      /\ T = Targets[cur][i]
  BY CurrentTarget, TypeStep, TargetFacts DEF T, TypeOK
<1> DEFINE Conjuncts == /\ RollbackRecorded /\ JournalDurable /\ OriginalIsUsers
                        /\ JournalIsUsers /\ CapturedFirst /\ PutBackFirst /\ StoppedDurable
<1> SUFFICES Conjuncts'
  BY <1>0
<1> USE DEF RollbackRecorded, JournalDurable, Covered, OriginalIsUsers, JournalIsUsers,
            CapturedFirst, PutBackFirst, StoppedDurable, store, job, history
<1>1. ASSUME NEW o \in Id, StartApply(o) PROVE Conjuncts'
  <2>1. \A k \in DOMAIN Targets[o] : ~(k < 1)
    BY TargetFacts
  <2>2. QED
    BY <1>0, <1>1, <2>1 DEF StartApply, TypeOK
<1>2. ASSUME NEW o \in Id, StartRestore(o) PROVE Conjuncts'
  <2>1. \A k \in DOMAIN Targets[o] : ~(k < 1)
    BY TargetFacts
  <2>2. QED
    BY <1>0, <1>2, <2>1 DEF StartRestore, TypeOK
<1>3. CASE SaveOpen
  BY <1>0, <1>3 DEF SaveOpen, NoEntries, TypeOK, TargetsOf
<1>4. CASE SaveFlush
  BY <1>0, <1>4 DEF SaveFlush, TypeOK, TargetsOf
<1>5. CASE CaptureTarget
  <2>1. CASE Return("ReadFailed") /\ UNCHANGED entries
    BY <1>0, <1>5, <2>1 DEF CaptureTarget, Return, TypeOK
  <2>2. CASE /\ entries' = CaptureIfAbsent(entries, T, live[T])
             /\ NextTarget \/ (LeaveLoop("open") /\ then' = "write")
    <3>1. /\ entries'[T] # NoEntry
          /\ \A p \in Place : entries[p] # NoEntry => entries'[p] = entries[p]
      BY <1>0, <2>2, NoEntryAssumption DEF CaptureIfAbsent, TypeOK
    <3>2. \A p \in Place \ lost : entries'[p] # NoEntry => entries'[p].by = "user"
      <4>1. T \notin lost /\ entries[T] = NoEntry => live[T].by = "user"
        BY <1>0, <1>5 DEF CaptureTarget, TypeOK, Cell, Party
      <4>2. QED
        BY <1>0, <2>2, <4>1 DEF CaptureIfAbsent, TypeOK
    <3>3. CASE NextTarget
      <4>1. step' = "capture" /\ i' = i + 1
        BY <1>5, <3>3 DEF CaptureTarget, NextTarget
      <4>2. \A k \in DOMAIN Targets[cur] : k < i + 1 => k < i \/ Targets[cur][k] = T
        BY <1>0
      <4>3. \A k \in DOMAIN Targets[cur] : k < i + 1 => entries'[Targets[cur][k]] # NoEntry
        BY <1>0, <1>5, <3>1, <4>2 DEF CaptureTarget, TargetsOf
      <4>4. QED
        BY <1>5, <3>1, <3>2, <4>1, <4>3 DEF CaptureTarget
    <3>4. CASE LeaveLoop("open") /\ then' = "write"
      <4>1. \A p \in TargetsOf(cur) : entries'[p] # NoEntry
        BY <1>0, <1>5, <3>1, <3>4 DEF CaptureTarget, TargetsOf, LeaveLoop
      <4>2. QED
        BY <1>5, <3>1, <3>2, <3>4, <4>1 DEF CaptureTarget, LeaveLoop, TargetsOf
    <3>5. QED
      BY <2>2, <3>3, <3>4
  <2>3. QED
    BY <1>5, <2>1, <2>2 DEF CaptureTarget
<1>6. CASE WriteTarget
  BY <1>0, <1>6 DEF WriteTarget, Written, Return, NextTarget, LeaveLoop, TypeOK, TargetsOf
<1>7. CASE VerifyTarget
  BY <1>0, <1>7 DEF VerifyTarget, Return, NextTarget, LeaveLoop
<1>8. CASE PutBackTarget
  <2>1. /\ \A q \in Place \ {T} : live'[q] = live[q]
        /\ UNCHANGED <<entries, journal, saveOk, cur, lost>>
        /\ live'[T] = live[T] \/ (entries[T] # NoEntry /\ live'[T] = entries[T])
    BY <1>0, <1>8 DEF PutBackTarget, TypeOK
  <2>2. \A q \in Place \ lost : live'[q].by = "nasaki" => live[q].by = "nasaki"
    BY <1>0, <2>1
  <2>3. step = "putback" /\ step' \in {"putback", "check", "forget", "record"}
    BY <1>8 DEF PutBackTarget, AllPutBack, Return, NextTarget, LeaveLoop
  <2>4. PutBackFirst'
    <3>1. /\ \A q \in Place : Settled(q) => Settled(q)'
          /\ \A q \in Place : Handled(q) => Handled(q)'
      BY <1>0, <2>1 DEF Settled, Handled
    <3>2. ASSUME NEW q \in Place, q = T, step' # "record"
          PROVE  /\ Handled(q)'
                 /\ entries[q] = NoEntry => Settled(q)'
      <4>1. T \notin lost /\ entries[T] = NoEntry => live[T].by = "user"
        BY <1>0, <2>3 DEF TypeOK, Cell, Party
      <4>2. T \notin lost /\ entries[T] # NoEntry => entries[T].by = "user"
        BY <1>0
      <4>3. \/ entries[T] = NoEntry
            \/ live'[T] = entries[T]
            \/ live'[T] = live[T] /\ live[T].value # entries[T].value
        BY <1>0, <1>8, <2>1, <3>2 DEF PutBackTarget, Return, TypeOK
      <4>4. QED
        BY <2>1, <3>2, <4>1, <4>2, <4>3 DEF Settled, Handled
    <3>3. \A k \in DOMAIN Targets[cur] : Targets[cur][k] \in Place
      BY <1>0 DEF TargetsOf
    <3>4. CASE cur \in Immediate
      <4>1. \A k \in DOMAIN Targets[cur] : k < i => Settled(Targets[cur][k])'
        BY <1>0, <2>1, <2>3, <3>1, <3>3, <3>4
      <4>2. \/ step' = "check" /\ i' = i
            \/ entries[T] = NoEntry /\ step' = "putback" /\ i' = i + 1
            \/ entries[T] = NoEntry /\ step' = "forget" /\ i = N
            \/ step' = "record"
        BY <1>8, <3>4, <2>3 DEF PutBackTarget, AllPutBack, Return, NextTarget, LeaveLoop
      <4>3. CASE step' = "check" /\ i' = i
        <5>1. T' = T
          BY <2>1, <4>3 DEF T
        <5>2. QED
          BY <1>0, <2>1, <3>2, <3>4, <4>1, <4>3, <5>1 DEF TargetsOf
      <4>4. CASE entries[T] = NoEntry /\ step' = "putback" /\ i' = i + 1
        BY <1>0, <2>1, <3>2, <3>3, <3>4, <4>1, <4>4
      <4>5. CASE entries[T] = NoEntry /\ step' = "forget" /\ i = N
        BY <1>0, <2>1, <3>2, <3>3, <4>1, <4>5 DEF TargetsOf
      <4>6. QED
        BY <4>2, <4>3, <4>4, <4>5
    <3>5. CASE cur \notin Immediate
      <4>1. \A k \in DOMAIN Targets[cur] : k < i => Handled(Targets[cur][k])'
        BY <1>0, <2>1, <2>3, <3>1, <3>3, <3>5
      <4>2. \/ step' = "putback" /\ i' = i + 1
            \/ step' = "check" /\ i = N /\ i' = 1
            \/ step' = "record"
        BY <1>8, <3>5, <2>3 DEF PutBackTarget, AllPutBack, Return, NextTarget, LeaveLoop
      <4>3. CASE step' = "putback" /\ i' = i + 1
        BY <1>0, <2>1, <3>2, <3>3, <3>5, <4>1, <4>3
      <4>4. CASE step' = "check" /\ i = N /\ i' = 1
        <5>1. \A p \in TargetsOf(cur) : Handled(p)'
          BY <1>0, <2>1, <3>2, <3>3, <4>1, <4>4 DEF TargetsOf
        <5>2. T' \in TargetsOf(cur)
          BY <1>0, <2>1, <4>4 DEF T, TargetsOf
        <5>3. QED
          BY <1>0, <2>1, <4>4, <5>1, <5>2 DEF TargetsOf
      <4>5. QED
        BY <4>2, <4>3, <4>4
    <3>6. QED
      BY <3>4, <3>5
  <2>5. QED
    BY <1>0, <2>1, <2>2, <2>3, <2>4
<1>9. CASE CheckTarget
  <2>1. /\ step = "check" /\ step' \in {"putback", "check", "forget", "record"}
        /\ UNCHANGED <<live, entries, journal, saveOk, cur>>
        /\ lost \subseteq lost'
    <3>1. step = "check" /\ UNCHANGED <<live, entries, journal, saveOk, cur>>
      BY <1>9 DEF CheckTarget
    <3>2. Checked \/ Return("VerifyMismatch")
      BY <1>9 DEF CheckTarget
    <3>3. step' \in {"putback", "check", "forget", "record"}
      BY <3>1, <3>2 DEF Checked, Return, NextTarget, LeaveLoop
    <3>4. lost \subseteq lost'
      BY <1>9 DEF CheckTarget
    <3>5. QED
      BY <3>1, <3>3, <3>4
  <2>2. ASSUME step' # "record" PROVE PutBackFirst'
    <3>1. /\ \A q \in Place : Settled(q) => Settled(q)'
          /\ \A q \in Place : Handled(q) => Handled(q)'
      BY <2>1 DEF Settled, Handled
    <3>2. \A q \in Place : q = T => Settled(q)'
      <4>1. T \in lost' \/ (entries[T] # NoEntry => entries[T].value = live[T].value)
        BY <1>0, <1>9, <2>2 DEF CheckTarget, Return
      <4>2. Handled(T)
        BY <2>1
      <4>3. QED
        BY <2>1, <4>1, <4>2 DEF Handled, Settled
    <3>3. \A k \in DOMAIN Targets[cur] : k <= i => Settled(Targets[cur][k])'
      BY <1>0, <2>1, <3>1, <3>2 DEF TargetsOf
    <3>4. \/ step' = "forget" /\ i = N
          \/ cur \notin Immediate /\ step' = "check" /\ i' = i + 1
          \/ cur \in Immediate /\ step' = "putback" /\ i' = i + 1
      BY <1>9, <2>1, <2>2 DEF CheckTarget, Checked, Return, NextTarget, LeaveLoop
    <3>5. CASE step' = "forget" /\ i = N
      BY <1>0, <2>1, <3>3, <3>5 DEF TargetsOf
    <3>6. CASE cur \notin Immediate /\ step' = "check" /\ i' = i + 1
      <4>1. \A p \in TargetsOf(cur) : Handled(p)'
        BY <1>0, <2>1, <3>1, <3>6
      <4>2. T' \in TargetsOf(cur)
        BY <1>0, <2>1 DEF T, TargetsOf, TypeOK
      <4>3. QED
        BY <1>0, <2>1, <3>3, <3>6, <4>1, <4>2 DEF TargetsOf
    <3>7. CASE cur \in Immediate /\ step' = "putback" /\ i' = i + 1
      BY <1>0, <2>1, <3>3, <3>7
    <3>8. QED
      BY <3>4, <3>5, <3>6, <3>7
  <2>3. QED
    BY <1>0, <2>1, <2>2
<1>10. CASE ForgetAll
  BY <1>0, <1>10 DEF ForgetAll, Forget, TargetsOf, Settled, Handled
<1>11. CASE RecordOutcome
  BY <1>0, <1>11 DEF RecordOutcome, TypeOK
<1>12. ASSUME NEW p \in Place, OtherWrites(p) PROVE Conjuncts'
  <2>1. /\ \A q \in Place : live'[q] = live[q] \/ live'[q].by = "user"
        /\ UNCHANGED <<store, job, step, i, then, lost>>
    BY <1>0, <1>12 DEF OtherWrites, UserCell, TypeOK
  <2>2. /\ \A q \in Place : Settled(q) => Settled(q)'
        /\ \A q \in Place : Handled(q) => Handled(q)'
        /\ T' = T /\ TargetsOf(cur)' = TargetsOf(cur)
    BY <2>1 DEF Settled, Handled, T, TargetsOf
  <2>3. PutBackFirst'
    BY <1>0, <2>1, <2>2 DEF TargetsOf
  <2>4. QED
    BY <1>0, <2>1, <2>2, <2>3
<1>13. CASE Crash
  BY <1>0, <1>13 DEF Crash, TypeOK, NoEntries
<1>14. CASE Load
  BY <1>0, <1>14 DEF Load, TypeOK
<1>15. CASE UNCHANGED vars
  BY <1>15 DEF vars, T, TargetsOf, Settled, Handled
<1>16. QED
  BY <1>1, <1>2, <1>3, <1>4, <1>5, <1>6, <1>7, <1>8, <1>9, <1>10, <1>11, <1>12, <1>13, <1>14, <1>15
  DEF Next, Worker

THEOREM Invariance == Spec => []IInv
<1>1. QED
  BY InvInit, InvStep, PTL DEF Spec

(* Whatever the catalog, a value that is Nasaki's has an entry: neither a  *)
(* failing call nor a write by someone else nor a restart in between can *)
(* leave one without, short of the destruction of the journal.           *)
THEOREM RollbackAlwaysRecorded == Spec => []RollbackRecorded
<1>1. IInv => RollbackRecorded
  BY DEF IInv
<1>2. QED
  BY <1>1, Invariance, PTL

(* The journal on disk is enough to survive a crash, outside a Save and  *)
(* when the last one succeeded.                                          *)
THEOREM JournalIsDurable == Spec => []JournalDurable
<1>1. IInv => JournalDurable
  BY DEF IInv
<1>2. QED
  BY <1>1, Invariance, PTL

(* Applying again never records Nasaki's own value as the original.      *)
THEOREM OriginalsAreUsers == Spec => []OriginalIsUsers
<1>1. IInv => OriginalIsUsers
  BY DEF IInv
<1>2. QED
  BY <1>1, Invariance, PTL

(* No step but a restart replaces an entry by another.                   *)
THEOREM FirstOriginalIsKept == Spec => FirstOriginalKept
<1> DEFINE Kept == \A p \in Place : entries[p] # NoEntry => entries'[p] \in {entries[p], NoEntry}
<1>1. TypeOK /\ [Next]_vars => [~Load => Kept]_vars
  <2> SUFFICES ASSUME TypeOK, [Next]_vars, ~Load
               PROVE  Kept
    OBVIOUS
  <2>1. CASE CaptureTarget
    BY <2>1 DEF CaptureTarget, CaptureIfAbsent, TypeOK
  <2>2. CASE ForgetAll
    BY <2>2 DEF ForgetAll, Forget
  <2>3. CASE Crash
    BY <2>3 DEF Crash, NoEntries
  <2>4. CASE UNCHANGED entries
    BY <2>4
  <2>5. QED
    BY <2>1, <2>2, <2>3, <2>4
    DEF Next, Worker, StartApply, StartRestore, SaveOpen, SaveFlush, WriteTarget, VerifyTarget,
        PutBackTarget, CheckTarget, RecordOutcome, OtherWrites, vars, store
<1>2. QED
  BY <1>1, TypeCorrect, PTL DEF Spec, FirstOriginalKept

-----------------------------------------------------------------------------
(* The second argument: how far the two verification loops are.          *)

Matches(p) == p \in lost \/ (entries[p] # NoEntry => live[p].value = entries[p].value)
InForce(p) == live[p].value = Wanted[p] /\ entries[p] # NoEntry

CheckedFirst ==
    ~disturbed =>
    /\ step = "putback" /\ cur \in Immediate =>
           \A k \in DOMAIN Targets[cur] : k < i => Matches(Targets[cur][k])
    /\ step = "check" => \A k \in DOMAIN Targets[cur] : k < i => Matches(Targets[cur][k])
    /\ step = "forget" => \A p \in TargetsOf(cur) : Matches(p)

VerifiedFirst ==
    /\ step = "verify" => \A p \in TargetsOf(cur) : entries[p] # NoEntry
    /\ step = "verify" /\ ~disturbed =>
           \A k \in DOMAIN Targets[cur] : k < i => InForce(Targets[cur][k])
    /\ step = "record" /\ op = "apply" /\ result = "Ok" /\ ~disturbed =>
           \A p \in TargetsOf(cur) : InForce(p)

(* Ok is only ever the result of a finished loop of the right operation. *)
ResultIsFresh ==
    /\ step \in {"capture", "write", "verify"} => op = "apply" /\ result = "none"
    /\ step \in {"putback", "check", "forget"} => op = "restore"
    /\ step \in {"open", "flush"} =>
           \/ then = "write" /\ op = "apply" /\ result = "none"
           \/ then = "record" /\ op = "restore"
           \/ then = "idle"
    /\ then \in {"idle", "write", "record"}

VInv == CheckedFirst /\ VerifiedFirst /\ ResultIsFresh

LEMMA VInvInit == Init => VInv
BY DEF Init, VInv, CheckedFirst, VerifiedFirst, ResultIsFresh

LEMMA VInvStep == IInv /\ VInv /\ [Next]_vars => VInv'
<1> SUFFICES ASSUME IInv, VInv, [Next]_vars PROVE VInv'
  OBVIOUS
<1>0. /\ TypeOK /\ TypeOK'
      /\ T \in Place /\ T \in TargetsOf(cur)
      /\ N \in Nat \ {0} /\ i \in 1 .. N
      /\ DOMAIN Targets[cur] = 1 .. N
      /\ TargetsOf(cur) \subseteq Place
      /\ T = Targets[cur][i]
      /\ \A k \in DOMAIN Targets[cur] : k # i => Targets[cur][k] \in Place \ {T}
  BY CurrentTarget, TypeStep, TargetFacts, TargetsAssumption DEF T, TypeOK, IInv
<1> USE DEF VInv, CheckedFirst, VerifiedFirst, ResultIsFresh, store, job, history
<1>1. ASSUME NEW o \in Id, StartApply(o) \/ StartRestore(o) PROVE VInv'
  <2>1. \A k \in DOMAIN Targets[o] : ~(k < 1)
    BY TargetFacts
  <2>2. QED
    BY <1>1, <2>1 DEF StartApply, StartRestore
<1>2. CASE SaveOpen
  BY <1>2 DEF SaveOpen
<1>3. CASE SaveFlush
  BY <1>3 DEF SaveFlush
<1>4. CASE CaptureTarget
  BY <1>4 DEF CaptureTarget, Return, NextTarget, LeaveLoop
<1>5. CASE WriteTarget
  <2>1. \A p \in TargetsOf(cur) : entries[p] # NoEntry
    BY <1>5 DEF WriteTarget, IInv, CapturedFirst
  <2>2. \/ step' = "write"
        \/ step' = "verify" /\ i' = 1
        \/ step' = "record" /\ result' = "WriteFailed"
    BY <1>5 DEF WriteTarget, Return, NextTarget, LeaveLoop
  <2>3. \A k \in DOMAIN Targets[cur] : ~(k < 1)
    BY <1>0
  <2>4. step' \in {"write", "verify"} => result' = result
    BY <1>5 DEF WriteTarget, Return, NextTarget, LeaveLoop
  <2>5. UNCHANGED <<store, job, history, then>>
    BY <1>5 DEF WriteTarget, Return, NextTarget, LeaveLoop
  <2>6. step = "write"
    BY <1>5 DEF WriteTarget
  <2>7. QED
    BY <2>1, <2>2, <2>3, <2>4, <2>5, <2>6 DEF TargetsOf
<1>6. CASE VerifyTarget
  <2>1. UNCHANGED <<live, store, job, history>> /\ step = "verify"
    BY <1>6 DEF VerifyTarget
  <2>2. \/ live[T].value = Wanted[T] /\ NextTarget
        \/ live[T].value = Wanted[T] /\ LeaveLoop("record") /\ UNCHANGED then
        \/ Return("VerifyMismatch")
    BY <1>6 DEF VerifyTarget
  <2>3. \A p \in Place : InForce(p)' = InForce(p)
    BY <2>1 DEF InForce
  <2>4. CASE live[T].value = Wanted[T]
    <3>1. ~disturbed => \A k \in DOMAIN Targets[cur] : k <= i => InForce(Targets[cur][k])
      BY <1>0, <2>1, <2>4 DEF InForce
    <3>2. QED
      BY <1>0, <2>1, <2>2, <2>3, <3>1 DEF NextTarget, LeaveLoop, Return, TargetsOf
  <2>5. CASE Return("VerifyMismatch")
    BY <2>1, <2>5 DEF Return
  <2>6. QED
    BY <2>2, <2>4, <2>5
<1>7. CASE PutBackTarget
  <2>1. /\ \A q \in Place \ {T} : Matches(q) => Matches(q)'
        /\ UNCHANGED <<entries, cur, op, lost, disturbed>>
    BY <1>0, <1>7 DEF PutBackTarget, TypeOK, Matches
  <2>2. step = "putback" /\ op = "restore"
    BY <1>7 DEF PutBackTarget
  <2>3. CASE cur \notin Immediate
    <3>1. \/ step' = "putback" /\ then' = then
          \/ step' = "check" /\ i' = 1 /\ then' = then
          \/ step' = "record" /\ then' = then
      BY <1>7, <2>2, <2>3 DEF PutBackTarget, AllPutBack, Return, NextTarget, LeaveLoop
    <3>2. \A k \in DOMAIN Targets[cur] : ~(k < 1)
      BY <1>0
    <3>3. QED
      BY <2>1, <2>2, <2>3, <3>1, <3>2
  <2>4. CASE cur \in Immediate
    <3>1. /\ then' = then
          /\ \/ step' = "check" /\ i' = i
             \/ entries[T] = NoEntry /\ step' = "putback" /\ i' = i + 1
             \/ entries[T] = NoEntry /\ step' = "forget" /\ i = N
             \/ step' = "record"
      BY <1>7, <2>2, <2>4 DEF PutBackTarget, AllPutBack, Return, NextTarget, LeaveLoop
    <3>2. ~disturbed =>
             \A k \in DOMAIN Targets[cur] : k < i => Matches(Targets[cur][k])'
      BY <1>0, <2>1, <2>2, <2>4
    <3>3. \A q \in Place : q = T /\ entries[q] = NoEntry => Matches(q)'
      BY <2>1 DEF Matches
    <3>4. QED
      BY <1>0, <2>1, <2>2, <3>1, <3>2, <3>3 DEF TargetsOf
  <2>5. QED
    BY <2>3, <2>4
<1>8. CASE CheckTarget
  <2>1. /\ step = "check" /\ op = "restore"
        /\ UNCHANGED <<live, entries, op, cur, disturbed>>
    BY <1>8 DEF CheckTarget
  <2>2. \A q \in Place : Matches(q) => Matches(q)'
    BY <1>8, <2>1 DEF Matches, CheckTarget
  <2>3. Checked \/ Return("VerifyMismatch")
    BY <1>8 DEF CheckTarget
  <2>4. /\ then' = then
        /\ \/ step' = "forget" /\ i = N
           \/ step' = "check" /\ i' = i + 1
           \/ step' = "putback" /\ i' = i + 1
           \/ step' = "record"
    BY <2>1, <2>3 DEF Checked, Return, NextTarget, LeaveLoop
  <2>5. CASE ~disturbed /\ step' # "record"
    <3>1. T \in lost' \/ (entries[T] # NoEntry => live[T].value = entries[T].value)
      BY <1>0, <1>8, <2>5 DEF CheckTarget, Return
    <3>2. \A q \in Place : q = T => Matches(q)'
      BY <2>1, <3>1 DEF Matches
    <3>3. \A k \in DOMAIN Targets[cur] : k <= i => Matches(Targets[cur][k])'
      BY <1>0, <2>1, <2>2, <2>5, <3>2
    <3>4. QED
      BY <1>0, <2>1, <2>4, <2>5, <3>3 DEF TargetsOf
  <2>6. QED
    BY <2>1, <2>4, <2>5
<1>9. CASE ForgetAll
  BY <1>9 DEF ForgetAll
<1>10. CASE RecordOutcome
  BY <1>10 DEF RecordOutcome
<1>11. ASSUME NEW p \in Place, OtherWrites(p) PROVE VInv'
  <2>1. UNCHANGED <<entries, op, cur, step, i, then, result, lost>>
    BY <1>11 DEF OtherWrites
  <2>2. CASE p \in TargetsOf(cur)
    BY <1>11, <2>1, <2>2 DEF OtherWrites, TargetsOf
  <2>3. CASE p \notin TargetsOf(cur)
    <3>1. \A q \in TargetsOf(cur) : Matches(q)' = Matches(q) /\ InForce(q)' = InForce(q)
      BY <1>0, <1>11, <2>1, <2>3 DEF OtherWrites, Matches, InForce, TypeOK
    <3>2. disturbed' = disturbed
      BY <1>0, <1>11, <2>3 DEF OtherWrites, TypeOK
    <3>3. \A k \in DOMAIN Targets[cur] : Targets[cur][k] \in TargetsOf(cur)
      BY DEF TargetsOf
    <3>4. QED
      BY <2>1, <3>1, <3>2, <3>3 DEF TargetsOf
  <2>4. QED
    BY <2>2, <2>3
<1>12. CASE Crash \/ Load
  BY <1>12 DEF Crash, Load
<1>13. CASE UNCHANGED vars
  BY <1>13 DEF vars, TargetsOf, Matches, InForce
<1>14. QED
  BY <1>1, <1>2, <1>3, <1>4, <1>5, <1>6, <1>7, <1>8, <1>9, <1>10, <1>11, <1>12, <1>13
  DEF Next, Worker

THEOREM VerificationInvariance == Spec => []VInv
<1>1. QED
  BY VInvInit, VInvStep, Invariance, PTL DEF Spec

(* Restore drops its entries only once every value is back.              *)
THEOREM ForgetsOnlyVerified == Spec => []ForgetIsVerified
<1>1. VInv => ForgetIsVerified
  BY DEF VInv, CheckedFirst, Matches, ForgetIsVerified
<1>2. QED
  BY <1>1, VerificationInvariance, PTL

(* Apply says Ok only once every value is in force.                      *)
THEOREM AppliesOnlyVerified == Spec => []AppliedIsVerified
<1>1. VInv => AppliedIsVerified
  BY DEF VInv, VerifiedFirst, InForce, AppliedIsVerified
<1>2. QED
  BY <1>1, VerificationInvariance, PTL

-----------------------------------------------------------------------------
(* Every step of the code is a step of the contract, or changes nothing of *)
(* what the contract speaks about.                                       *)
LEMMA ContractInit == Init => Contract!Init
BY DEF Init, Contract!Init, Contract!Nothing, NoEntries, UserCell, Contract!UserCell, Snapshot

LEMMA ContractStep ==
    ASSUME IInv, IInv', [Next]_vars
    PROVE  [Contract!Next]_(Contract!vars)
<1> USE DEF IInv
<1> DEFINE Stutter == UNCHANGED <<live, entries, journal, lost, step>>
<1>0. /\ T \in Place /\ T \in TargetsOf(cur) /\ TargetsOf(cur) \subseteq Place
  BY CurrentTarget, TargetFacts DEF TypeOK
<1>1. /\ UserCell = Contract!UserCell /\ NoEntries = Contract!Nothing
      /\ Contract!Held = Place \ lost
      /\ entries' \in Contract!Records
  BY DEF UserCell, Contract!UserCell, NoEntries, Contract!Nothing, Contract!Held, Contract!Records,
     Contract!Cell, Contract!Party, Cell, Party, Snapshot, TypeOK, Entry
<1>2. ASSUME UNCHANGED <<live, entries, journal, lost>>, (step' = "down") = (step = "down")
      PROVE  [Contract!Next]_(Contract!vars)
  BY <1>2 DEF Contract!vars
<1>3. CASE SaveOpen \/ SaveFlush
  <2>1. /\ journal' \in {journal, entries, NoEntries}
        /\ UNCHANGED <<live, entries, lost>> /\ step # "down"
    BY <1>3 DEF SaveOpen, SaveFlush, history
  <2>2. step' # "down"
    BY <1>3 DEF SaveOpen, SaveFlush, TypeOK
  <2>3. CASE journal' = journal
    BY <1>2, <2>1, <2>2, <2>3
  <2>4. CASE journal' \in {entries, NoEntries}
    <3>1. Contract!Save
      BY <1>1, <2>1, <2>2, <2>4 DEF Contract!Save
    <3>2. QED
      BY <3>1 DEF Contract!Next
  <2>5. QED
    BY <2>1, <2>3, <2>4
<1>4. CASE CaptureTarget
  <2>1. /\ step # "down" /\ step' # "down"
        /\ UNCHANGED <<live, journal, lost>>
        /\ entries' = entries \/ entries' = CaptureIfAbsent(entries, T, live[T])
    BY <1>4 DEF CaptureTarget, Return, NextTarget, LeaveLoop, history
  <2>2. \A p \in Place : entries'[p] # entries[p] =>
            p = T /\ entries[p] = NoEntry /\ entries'[p] = live[p]
    BY <1>0, <2>1 DEF CaptureIfAbsent, TypeOK
  <2>3. \A p \in Place \ lost : entries[p] = NoEntry => live[p].by = "user"
    BY <2>1 DEF RollbackRecorded, Covered, TypeOK, Cell, Party
  <2>4. Contract!Record
    BY <1>1, <2>1, <2>2, <2>3 DEF Contract!Record
  <2>5. QED
    BY <2>4 DEF Contract!Next
<1>5. CASE WriteTarget
  <2>1. /\ step # "down" /\ step' # "down"
        /\ UNCHANGED <<entries, journal, lost>>
        /\ live' = live \/ live' = [live EXCEPT ![T] = Written(T)]
    BY <1>5 DEF WriteTarget, Return, NextTarget, LeaveLoop, store, history
  <2>2. entries[T] # NoEntry /\ Wanted[T] \in Snapshot
    BY <1>0, <1>5, ValueAssumption DEF WriteTarget, CapturedFirst, Snapshot
  <2>3. CASE live' = live
    BY <1>2, <2>1, <2>3
  <2>4. CASE live' # live
    <3>1. live' = [live EXCEPT ![T] = [value |-> Wanted[T], by |-> "nasaki"]]
      BY <1>0, <2>1, <2>4 DEF Written, TypeOK
    <3>2. Contract!Change(T)
      BY <2>1, <2>2, <3>1 DEF Contract!Change
    <3>3. QED
      BY <1>0, <3>2 DEF Contract!Next
  <2>5. QED
    BY <2>3, <2>4
<1>6. CASE PutBackTarget
  <2>1. /\ step # "down" /\ step' # "down"
        /\ UNCHANGED <<entries, journal, lost>>
        /\ live' = live \/ (entries[T] # NoEntry /\ live' = [live EXCEPT ![T] = entries[T]])
    BY <1>6 DEF PutBackTarget, AllPutBack, Return, NextTarget, LeaveLoop, store, history
  <2>2. CASE live' = live
    BY <1>2, <2>1, <2>2
  <2>3. CASE live' # live
    <3>1. Contract!PutBack(T)
      BY <2>1, <2>3 DEF Contract!PutBack
    <3>2. QED
      BY <1>0, <3>1 DEF Contract!Next
  <2>4. QED
    BY <2>2, <2>3
<1>7. CASE CheckTarget
  <2>1. /\ step # "down" /\ UNCHANGED <<live, entries, journal>>
        /\ \/ lost' = lost
           \/ entries[T] # NoEntry /\ live[T].value # entries[T].value /\ lost' = lost \cup {T}
    BY <1>7 DEF CheckTarget, store
  <2>2. step' # "down"
    <3>1. Checked \/ Return("VerifyMismatch")
      BY <1>7 DEF CheckTarget
    <3>2. QED
      BY <2>1, <3>1 DEF Checked, Return, NextTarget, LeaveLoop
  <2>3. CASE lost' = lost
    BY <1>2, <2>1, <2>2, <2>3
  <2>4. CASE lost' # lost
    <3>1. Contract!Misjudge(T)
      BY <2>1, <2>2, <2>4 DEF Contract!Misjudge
    <3>2. QED
      BY <1>0, <3>1 DEF Contract!Next
  <2>5. QED
    BY <2>3, <2>4
<1>8. CASE ForgetAll
  <2>1. /\ step # "down" /\ step' # "down"
        /\ UNCHANGED <<live, journal, lost>>
        /\ entries' = Forget(entries, cur)
    BY <1>8 DEF ForgetAll, history
  <2>2. \A p \in TargetsOf(cur) \ lost : live[p].by = "user"
    BY <1>8 DEF ForgetAll, PutBackFirst, Settled
  <2>3. \A p \in Place \ lost : entries'[p] # entries[p] =>
            entries'[p] = NoEntry /\ live[p].by = "user"
    BY <2>1, <2>2 DEF Forget
  <2>4. Contract!Settle
    BY <1>1, <2>1, <2>3 DEF Contract!Settle
  <2>5. QED
    BY <2>4 DEF Contract!Next
<1>9. ASSUME NEW p \in Place, OtherWrites(p) PROVE [Contract!Next]_(Contract!vars)
  <2>1. Contract!UserWrites
    BY <1>1, <1>9 DEF OtherWrites, Contract!UserWrites, store
  <2>2. QED
    BY <2>1 DEF Contract!Next
<1>10. CASE Crash
  <2>1. Contract!Stop
    BY <1>1, <1>10 DEF Crash, Contract!Stop, Contract!Unsaved
  <2>2. QED
    BY <2>1 DEF Contract!Next
<1>11. CASE Load
  <2>1. Contract!Start
    BY <1>11 DEF Load, Contract!Start, history
  <2>2. QED
    BY <2>1 DEF Contract!Next
<1>12. CASE UNCHANGED vars
  BY <1>2, <1>12 DEF vars
<1>13. CASE \/ \E o \in Id : StartApply(o) \/ StartRestore(o)
            \/ VerifyTarget \/ RecordOutcome
  <2>1. /\ UNCHANGED <<live, entries, journal, lost>>
        /\ step # "down" /\ step' # "down"
    BY <1>13 DEF StartApply, StartRestore, VerifyTarget, RecordOutcome, Return, NextTarget,
       LeaveLoop, store, history
  <2>2. QED
    BY <1>2, <2>1
<1>14. QED
  BY <1>3, <1>4, <1>5, <1>6, <1>7, <1>8, <1>9, <1>10, <1>11, <1>12, <1>13 DEF Next, Worker

(* The framework keeps its promise.                                      *)
THEOREM KeepsContract == Spec => RefinesContract
<1>1. QED
  BY ContractInit, ContractStep, Invariance, PTL DEF Spec, Contract!Spec, RefinesContract

-----------------------------------------------------------------------------
(* What the service takes from a job: whether the optimization is in the *)
(* journal afterwards, and whether the operation succeeded.              *)

HeldBy(o) == \E p \in TargetsOf(o) : entries[p] # NoEntry

(* OptimizationService!ApplyResults and RestoreResults: an Apply that    *)
(* succeeded leaves an entry; a Restore leaves none exactly if it        *)
(* succeeded or had nothing to put back.                                 *)
JobResults ==
    step = "record" =>
        /\ op = "apply" /\ result = "Ok" => HeldBy(cur)
        /\ op = "restore" => (HeldBy(cur) <=> result \notin {"Ok", "NoBackup"})

(* restoredAny says what the loop has met; what is checked and forgotten *)
(* had an entry.                                                         *)
RestoreMeets ==
    /\ step = "putback" =>
          (restoredAny <=> \E k \in DOMAIN Targets[cur] :
                               k < i /\ entries[Targets[cur][k]] # NoEntry)
    /\ step = "check" => HeldBy(cur) /\ (cur \in Immediate => restoredAny /\ entries[T] # NoEntry)
    /\ step = "forget" => HeldBy(cur)
    /\ step \in {"open", "flush"} /\ then = "record" => ~HeldBy(cur) /\ result = "Ok"

(* Together the two survive every step.                                  *)
JInv == RestoreMeets /\ JobResults

(* No job runs at the start.                                             *)
LEMMA JInvInit == Init => JInv
BY DEF Init, JInv, RestoreMeets, JobResults

(* Every step of the code keeps them; what remains to be seen is mostly  *)
(* the putting back, value by value.                                     *)
LEMMA JInvStep == IInv /\ VInv /\ JInv /\ [Next]_vars => JInv'
<1> SUFFICES ASSUME IInv, VInv, JInv, [Next]_vars PROVE JInv'
  OBVIOUS
<1>0. /\ TypeOK
      /\ T \in Place /\ T \in TargetsOf(cur)
      /\ N \in Nat \ {0} /\ i \in 1 .. N
      /\ DOMAIN Targets[cur] = 1 .. N
      /\ T = Targets[cur][i] /\ cur \in Id
      /\ TargetsOf(cur) \subseteq Place
  BY CurrentTarget, TargetFacts DEF IInv, T, TypeOK
<1>a. TargetsOf(cur) = {Targets[cur][k] : k \in 1 .. N}
  BY <1>0 DEF TargetsOf
<1>b. RestoreMeets /\ JobResults /\ ResultIsFresh
  BY DEF JInv, VInv
<1>c. step = "verify" => HeldBy(cur)
  BY <1>0 DEF VInv, VerifiedFirst, HeldBy
<1> USE DEF JInv, store, job, history
<1>1. ASSUME NEW o \in Id, StartApply(o) PROVE JInv'
  BY <1>1 DEF StartApply, RestoreMeets, JobResults
<1>2. ASSUME NEW o \in Id, StartRestore(o) PROVE JInv'
  <2>1. \A k \in DOMAIN Targets[o] : ~(k < 1)
    BY TargetFacts
  <2>2. QED
    BY <1>2, <2>1 DEF StartRestore, RestoreMeets, JobResults
<1>3. CASE SaveOpen
  <2>1. HeldBy(cur)' <=> HeldBy(cur)
    BY <1>3 DEF SaveOpen, HeldBy, TargetsOf
  <2>2. CASE then = "record"
    BY <1>3, <1>b, <2>1, <2>2 DEF SaveOpen, RestoreMeets, JobResults, ResultIsFresh
  <2>3. CASE then # "record"
    BY <1>3, <1>b, <2>1, <2>3 DEF SaveOpen, RestoreMeets, JobResults, ResultIsFresh
  <2>4. QED
    BY <2>2, <2>3
<1>4. CASE SaveFlush
  <2>1. HeldBy(cur)' <=> HeldBy(cur)
    BY <1>4 DEF SaveFlush, HeldBy, TargetsOf
  <2>2. QED
    BY <1>4, <1>b, <2>1 DEF SaveFlush, RestoreMeets, JobResults, ResultIsFresh
<1>5. CASE CaptureTarget
  <2>1. op = "apply" /\ step' \in {"capture", "open", "record"}
        /\ (step' = "record" => result' = "ReadFailed") /\ (step' = "open" => then' = "write")
        /\ op' = op
    BY <1>5, <1>b DEF CaptureTarget, Return, NextTarget, LeaveLoop, ResultIsFresh
  <2>2. QED
    BY <2>1 DEF RestoreMeets, JobResults
<1>6. CASE WriteTarget
  <2>1. op = "apply" /\ step' \in {"write", "verify", "record"}
        /\ (step' = "record" => result' = "WriteFailed") /\ op' = op
    BY <1>6, <1>b DEF WriteTarget, Return, NextTarget, LeaveLoop, ResultIsFresh
  <2>2. QED
    BY <2>1 DEF RestoreMeets, JobResults
<1>7. CASE VerifyTarget
  <2>1. op = "apply" /\ step' \in {"verify", "record"} /\ op' = op
    BY <1>7, <1>b DEF VerifyTarget, Return, NextTarget, LeaveLoop, ResultIsFresh
  <2>2. HeldBy(cur)'
    BY <1>7, <1>c DEF VerifyTarget, HeldBy, TargetsOf
  <2>3. QED
    BY <2>1, <2>2 DEF RestoreMeets, JobResults
<1>8. CASE PutBackTarget
  <2>1. step = "putback" /\ op = "restore" /\ op' = op /\ cur' = cur /\ entries' = entries
    BY <1>8, <1>b DEF PutBackTarget, ResultIsFresh
  <2>2. /\ HeldBy(cur)' <=> HeldBy(cur)
        /\ restoredAny \/ entries[T] # NoEntry => HeldBy(cur)
    BY <1>0, <1>b, <2>1 DEF RestoreMeets, HeldBy, TargetsOf
  <2>3. CASE /\ NextTarget \/ AllPutBack(restoredAny)
             /\ entries[T] = NoEntry /\ restoredAny' = restoredAny
    <3>1. CASE NextTarget
      <4>1. step' = "putback" /\ i' = i + 1
        BY <2>1, <3>1 DEF NextTarget
      <4>2. restoredAny <=> \E k \in 1 .. N : k < i + 1 /\ entries[Targets[cur][k]] # NoEntry
        BY <1>0, <1>b, <2>1, <2>3 DEF RestoreMeets
      <4>3. QED
        BY <1>0, <2>1, <2>3, <4>1, <4>2 DEF RestoreMeets, JobResults
    <3>2. CASE restoredAny /\ AllPutBack(restoredAny)
      <4>1. /\ step' \in {"check", "forget"}
            /\ step' = "check" => cur \notin Immediate
        BY <3>2 DEF AllPutBack, LeaveLoop
      <4>2. QED
        BY <2>1, <2>2, <3>2, <4>1 DEF RestoreMeets, JobResults
    <3>3. CASE ~restoredAny /\ AllPutBack(restoredAny)
      <4>1. i = N /\ step' = "record" /\ result' = "NoBackup"
        BY <3>3 DEF AllPutBack, Return
      <4>2. \A k \in 1 .. N : k < N => entries[Targets[cur][k]] = NoEntry
        BY <1>0, <1>b, <2>1, <3>3, <4>1 DEF RestoreMeets
      <4>3. \A k \in 1 .. N : entries[Targets[cur][k]] = NoEntry
        BY <1>0, <2>3, <4>1, <4>2
      <4>4. ~HeldBy(cur)
        BY <1>a, <4>3 DEF HeldBy
      <4>5. QED
        BY <2>1, <2>2, <4>1, <4>4 DEF RestoreMeets, JobResults
    <3>4. QED
      BY <2>3, <3>1, <3>2, <3>3
  <2>4. CASE entries[T] # NoEntry /\ cur \in Immediate /\ step' = "check" /\ i' = i /\ restoredAny'
    <3>1. T' = T
      BY <2>1, <2>4 DEF T
    <3>2. QED
      BY <2>1, <2>2, <2>4, <3>1 DEF RestoreMeets, JobResults
  <2>5. CASE /\ entries[T] # NoEntry /\ cur \notin Immediate /\ restoredAny'
             /\ NextTarget \/ AllPutBack(TRUE)
    <3>1. CASE NextTarget
      <4>1. step' = "putback" /\ i' = i + 1
        BY <2>1, <3>1 DEF NextTarget
      <4>2. \E k \in 1 .. N : k < i + 1 /\ entries[Targets[cur][k]] # NoEntry
        BY <1>0, <2>5
      <4>3. QED
        BY <1>0, <2>1, <2>5, <4>1, <4>2 DEF RestoreMeets, JobResults
    <3>2. CASE AllPutBack(TRUE)
      <4>1. step' = "check"
        BY <2>5, <3>2 DEF AllPutBack, LeaveLoop
      <4>2. QED
        BY <2>1, <2>2, <2>5, <4>1 DEF RestoreMeets, JobResults
    <3>3. QED
      BY <2>5, <3>1, <3>2
  <2>6. CASE entries[T] # NoEntry /\ Return("WriteFailed")
    BY <2>1, <2>2, <2>6 DEF Return, RestoreMeets, JobResults
  <2>7. QED
    BY <1>8, <2>3, <2>4, <2>5, <2>6 DEF PutBackTarget
<1>9. CASE CheckTarget
  <2>1. /\ step = "check" /\ op = "restore" /\ op' = op /\ cur' = cur /\ entries' = entries
        /\ restoredAny' = restoredAny
    BY <1>9, <1>b DEF CheckTarget, ResultIsFresh
  <2>2. /\ HeldBy(cur)' <=> HeldBy(cur)
        /\ HeldBy(cur) /\ (cur \in Immediate => restoredAny /\ entries[T] # NoEntry)
    BY <1>b, <2>1 DEF RestoreMeets, HeldBy, TargetsOf
  <2>3. CASE Return("VerifyMismatch")
    BY <2>1, <2>2, <2>3 DEF Return, RestoreMeets, JobResults
  <2>4. CASE LeaveLoop("forget")
    BY <2>1, <2>2, <2>4 DEF LeaveLoop, RestoreMeets, JobResults
  <2>5. CASE cur \notin Immediate /\ NextTarget
    BY <2>1, <2>2, <2>5 DEF NextTarget, RestoreMeets, JobResults
  <2>6. CASE cur \in Immediate /\ i' = i + 1 /\ step' = "putback"
    <3>1. \E k \in 1 .. N : k < i + 1 /\ entries[Targets[cur][k]] # NoEntry
      BY <1>0, <2>2, <2>6
    <3>2. QED
      BY <1>0, <2>1, <2>2, <2>6, <3>1 DEF RestoreMeets, JobResults
  <2>7. QED
    BY <1>9, <2>3, <2>4, <2>5, <2>6 DEF CheckTarget, Checked
<1>10. CASE ForgetAll
  <2>1. /\ \A p \in TargetsOf(cur) : entries'[p] = NoEntry
        /\ cur' = cur /\ step' = "open" /\ result' = "Ok"
    BY <1>0, <1>10 DEF ForgetAll, Forget
  <2>2. ~HeldBy(cur)'
    BY <2>1 DEF HeldBy, TargetsOf
  <2>3. QED
    BY <2>1, <2>2 DEF RestoreMeets, JobResults
<1>11. CASE RecordOutcome
  BY <1>11 DEF RecordOutcome, RestoreMeets, JobResults
<1>12. ASSUME NEW p \in Place, OtherWrites(p) PROVE JInv'
  <2>1. UNCHANGED <<entries, op, cur, step, i, then, restoredAny, result>>
    BY <1>12 DEF OtherWrites
  <2>2. QED
    BY <2>1, <1>b DEF RestoreMeets, JobResults, HeldBy, TargetsOf, T
<1>13. CASE Crash \/ Load
  BY <1>13 DEF Crash, Load, RestoreMeets, JobResults
<1>14. CASE UNCHANGED vars
  BY <1>14, <1>b DEF vars, RestoreMeets, JobResults, HeldBy, TargetsOf, T
<1>15. QED
  BY <1>1, <1>2, <1>3, <1>4, <1>5, <1>6, <1>7, <1>8, <1>9, <1>10, <1>11, <1>12, <1>13, <1>14
  DEF Next, Worker

(* Whatever fails on the way, what a job reports and what it leaves in the *)
(* journal go together as the service takes them to                      *)
(* (RegistryOptimization.cpp Apply and Restore, OptimizationService.cpp).  *)
THEOREM JobsReportTruly == Spec => []JobResults
<1>1. IInv /\ VInv /\ JInv /\ [Next]_vars => JInv'
  BY JInvStep
<1>2. JInv => JobResults
  BY DEF JInv
<1>3. QED
  BY <1>1, <1>2, JInvInit, Invariance, VerificationInvariance, PTL DEF Spec

(* While the process runs an optimization enters the journal only by its *)
(* own Apply and leaves it only by its own Restore, at the forgetting; no  *)
(* job touches the entries of another (BackupStore.cpp, whose entries are  *)
(* found by place).                                                      *)
EntersAndLeaves ==
    [][~Crash /\ ~Load => \A o \in Id : HeldBy(o)' # HeldBy(o) =>
          /\ o = cur /\ cur' = cur
          /\ IF HeldBy(o) THEN op = "restore" /\ step = "forget"
                          ELSE op = "apply" /\ step = "capture"]_vars

(* The entries of an optimization change hands only in its own job       *)
(* (BackupStore.cpp CaptureIfAbsent and Forget): the places of two       *)
(* optimizations are disjoint.                                           *)
THEOREM OnlyItsOwnJob == Spec => EntersAndLeaves
<1> DEFINE A == ~Crash /\ ~Load => \A o \in Id : HeldBy(o)' # HeldBy(o) =>
                   /\ o = cur /\ cur' = cur
                   /\ IF HeldBy(o) THEN op = "restore" /\ step = "forget"
                                   ELSE op = "apply" /\ step = "capture"
<1>1. IInv /\ VInv /\ [Next]_vars => [A]_vars
  <2> SUFFICES ASSUME IInv, VInv, [Next]_vars, ~Crash, ~Load, NEW o \in Id,
                      HeldBy(o)' # HeldBy(o)
               PROVE  /\ o = cur /\ cur' = cur
                      /\ IF HeldBy(o) THEN op = "restore" /\ step = "forget"
                                      ELSE op = "apply" /\ step = "capture"
    OBVIOUS
  <2>0. /\ TypeOK /\ cur \in Id /\ T \in TargetsOf(cur)
        /\ TargetsOf(cur) \subseteq Place /\ TargetsOf(o) \subseteq Place
        /\ ResultIsFresh
    BY CurrentTarget, TargetFacts DEF IInv, VInv, TypeOK
  <2>a. o # cur => TargetsOf(o) \cap TargetsOf(cur) = {}
    BY <2>0, TargetsAssumption DEF TargetsOf
  <2>b. HeldBy(o)' = (\E p \in TargetsOf(o) : entries'[p] # NoEntry)
    BY Zenon DEF HeldBy, TargetsOf
  <2>1. CASE CaptureTarget
    <3>1. /\ \A p \in Place : p # T => entries'[p] = entries[p]
          /\ \A p \in Place : entries[p] # NoEntry => entries'[p] = entries[p]
          /\ cur' = cur /\ step = "capture" /\ op = "apply"
      BY <2>0, <2>1 DEF CaptureTarget, CaptureIfAbsent, TypeOK, ResultIsFresh, job
    <3>2. o = cur
      <4> SUFFICES ASSUME o # cur PROVE FALSE
        OBVIOUS
      <4>1. \A p \in TargetsOf(o) : entries'[p] = entries[p]
        BY <2>0, <2>a, <3>1
      <4>2. QED
        BY <2>b, <4>1, Zenon DEF HeldBy
    <3>3. HeldBy(o) => HeldBy(o)'
      BY <2>0, <2>b, <3>1, Zenon DEF HeldBy
    <3>4. ~HeldBy(o)
      BY <3>3 DEF HeldBy
    <3>5. QED
      BY <3>1, <3>2, <3>4
  <2>2. CASE ForgetAll
    <3>1. /\ \A p \in Place : entries'[p] = IF p \in TargetsOf(cur) THEN NoEntry ELSE entries[p]
          /\ cur' = cur /\ step = "forget" /\ op = "restore"
      BY <2>0, <2>2 DEF ForgetAll, Forget, ResultIsFresh, job
    <3>2. o = cur
      <4> SUFFICES ASSUME o # cur PROVE FALSE
        OBVIOUS
      <4>1. \A p \in TargetsOf(o) : entries'[p] = entries[p]
        BY <2>0, <2>a, <3>1
      <4>2. QED
        BY <2>b, <4>1, Zenon DEF HeldBy
    <3>3. HeldBy(o)
      <4>1. ~HeldBy(o)'
        BY <2>0, <2>b, <3>1, <3>2
      <4>2. QED
        BY <4>1 DEF HeldBy
    <3>4. QED
      BY <3>1, <3>2, <3>3
  <2>3. CASE UNCHANGED entries
    BY <2>3, <2>b, Zenon DEF HeldBy
  <2>4. QED
    BY <2>1, <2>2, <2>3
    DEF Next, Worker, StartApply, StartRestore, SaveOpen, SaveFlush, WriteTarget, VerifyTarget,
        PutBackTarget, CheckTarget, RecordOutcome, OtherWrites, vars, store
<1>2. [][A]_vars => EntersAndLeaves
  BY DEF EntersAndLeaves
<1>3. QED
  BY <1>1, <1>2, Invariance, VerificationInvariance, PTL DEF Spec

=============================================================================
