----------------------- MODULE JournalledPagesProofs -----------------------
(***************************************************************************)
(* Proofs about JournalledPages, for any programs, command lines and plans *)
(* and any interleaving with other writers and with sessions.              *)
(***************************************************************************)
EXTENDS JournalledPages, TLAPS

(* What Nasaki did to a program is to delete it; sessions leave programs   *)
(* alone.                                                                  *)
ProgramCells ==
    \A n \in Program :
        /\ live[n].by = "nasaki" => live[n].value = Absent
        /\ live[n].by # "session"

(* A job that writes holds an entry, and a restore the entry it wants.     *)
JobHasEntry ==
    /\ step \in {"write", "check"} => kind # "refresh" /\ entries[place] # NoEntry
    /\ step \in {"write", "check"} /\ kind = "restore" => want = entries[place].value
    /\ step = "read" => kind = "change"
    /\ kind = "change" => IF place = Scheme THEN want \in Plan ELSE want = Absent
    /\ \A p \in Place : entries[p] # NoEntry => entries[p].value \in Possible(p)

(* Until a job on the plan meets a session, no session holds the plan      *)
(* while such a job runs, and the plan is not one a session left.          *)
Apart ==
    ~mixed /\ step # "idle" /\ kind # "refresh" /\ place = Scheme =>
        session = "off" /\ live[Scheme].by # "session"

(* What a session will put back is covered by the journal as well.         *)
PreviousRecorded ==
    /\ session # "off" => previous \in Cell /\ previous.value \in Plan
    /\ ~mixed /\ session # "off" /\ previous.by = "nasaki" => entries[Scheme] # NoEntry

(* A restored value that looks right is the user's.                        *)
RestoredIsUsers ==
    step = "check" /\ kind = "restore" /\ live[place].value = want
        /\ ~(place = Scheme /\ mixed) => live[place].by = "user"

(* Of the programs only the one being worked on can be listed wrongly.     *)
RemovedIsListed ==
    \A n \in Program :
        live[n].by = "nasaki" => listed[n] = "removed" \/ (step # "idle" /\ place = n)

(* What is shown as removed can be put back, between two jobs.              *)
ListedHasEntry ==
    \A n \in Program :
        listed[n] = "removed" => entries[n] # NoEntry \/ (step = "scan" /\ place = n)

IInv ==
    /\ TypeOK
    /\ ChangesRecorded
    /\ OriginalIsUsers
    /\ ProgramCells
    /\ JobHasEntry
    /\ Apart
    /\ PreviousRecorded
    /\ RestoredIsUsers
    /\ RemovedIsListed
    /\ ListedHasEntry

-----------------------------------------------------------------------------
LEMMA Facts ==
    /\ Scheme \in Place /\ Program \subseteq Place
    /\ \A p \in Place : p # Scheme => p \in Program
    /\ Scheme \notin Program
    /\ \A p \in Place : Possible(p) \subseteq Snapshot
    /\ Absent \notin Command \cup Plan /\ NoEntry \notin Snapshot /\ NoEntry \notin Cell
    /\ Absent \in Snapshot
BY PlaceAssumption, ValueAssumption DEF Place, Possible, Snapshot

LEMMA InitInvariant == Init => IInv
<1> SUFFICES ASSUME Init PROVE IInv
  OBVIOUS
<1> USE Facts DEF Init
<1>1. live \in [Place -> Cell] /\ \A p \in Place : live[p].by = "user" /\ live[p].value \in Possible(p)
  BY DEF Cell, Party, UserCells
<1>2. TypeOK
  BY <1>1 DEF TypeOK
<1>3. QED
  BY <1>1, <1>2 DEF IInv, ChangesRecorded, OriginalIsUsers, ProgramCells, JobHasEntry, Apart,
     PreviousRecorded, RestoredIsUsers, RemovedIsListed, ListedHasEntry

(* The jobs the buttons ask for.                                           *)
Asked(k, p, v, s) ==
    \/ k = "refresh" /\ s = "scan" /\ v = NoEntry
    \/ k = "change" /\ s = "read" /\ p = Scheme /\ v \in Plan
    \/ k = "change" /\ s = "read" /\ p # Scheme /\ v = Absent
    \/ k = "restore" /\ s = "write" /\ entries[p] # NoEntry /\ v = entries[p].value

(* Taking a job changes nothing but the job.                               *)
LEMMA StartInvariant ==
    ASSUME IInv, NEW k, NEW p \in Place, NEW v, NEW s, Start(k, p, v, s), Asked(k, p, v, s)
    PROVE  IInv'
<1>0. v \in Snapshot \cup {NoEntry}
  BY Facts DEF Asked, IInv, JobHasEntry, Snapshot
<1> USE DEF IInv, Start, power, Asked
<1>1. TypeOK'
  BY <1>0 DEF TypeOK
<1>2. (ChangesRecorded /\ OriginalIsUsers /\ ProgramCells)'
  BY DEF ChangesRecorded, OriginalIsUsers, ProgramCells, TypeOK
<1>3. JobHasEntry'
  BY DEF JobHasEntry
<1>4. Apart'
  BY DEF Apart
<1>5. PreviousRecorded'
  BY DEF PreviousRecorded, TypeOK
<1>6. RestoredIsUsers'
  BY DEF RestoredIsUsers
<1>7. RemovedIsListed' /\ ListedHasEntry'
  BY DEF RemovedIsListed, ListedHasEntry
<1>8. QED
  BY <1>1, <1>2, <1>3, <1>4, <1>5, <1>6, <1>7

(* A value is recorded when it is there, and only where nothing was.       *)
LEMMA ReadInvariant == ASSUME IInv, ReadBefore PROVE IInv'
<1> USE Facts DEF IInv, ReadBefore, Return, job, power, history
<1>1. kind = "change" /\ place \in Place /\ live[place] \in Cell
      /\ live[place].value \in Possible(place) /\ entries' \in {entries, CaptureIfAbsent(entries, place, live[place])}
  BY DEF JobHasEntry, TypeOK
<1>2. /\ entries' # entries =>
            /\ entries[place] = NoEntry /\ live[place].value # want
            /\ entries' = [entries EXCEPT ![place] = live[place]]
      /\ step' = "write" => entries'[place] # NoEntry
      /\ \A p \in Place : entries[p] # NoEntry => entries'[p] = entries[p]
  BY <1>1 DEF CaptureIfAbsent, TypeOK
<1>3. live[place].value # want => live[place].value \in Command \cup Plan
  BY <1>1 DEF JobHasEntry, Possible
<1>4. TypeOK'
  <2>1. entries' \in [Place -> [value: Command \cup Plan, by: Party] \cup {NoEntry}]
    BY <1>1, <1>2, <1>3 DEF TypeOK, Cell
  <2>2. QED
    BY <2>1 DEF TypeOK
<1>5. ChangesRecorded'
  BY <1>2 DEF ChangesRecorded
<1>6. OriginalIsUsers'
  <2>1. entries' # entries /\ ~(place = Scheme /\ mixed) => live[place].by = "user"
    BY <1>1, <1>2 DEF ChangesRecorded, ProgramCells, Apart, Cell, Party
  <2>2. QED
    BY <1>1, <1>2, <2>1 DEF OriginalIsUsers, TypeOK
<1>7. ProgramCells' /\ RemovedIsListed' /\ ListedHasEntry'
  BY <1>2 DEF ProgramCells, RemovedIsListed, ListedHasEntry
<1>8. JobHasEntry'
  <2>1. \A p \in Place : entries'[p] # NoEntry => entries'[p].value \in Possible(p)
    BY <1>1, <1>2 DEF JobHasEntry, TypeOK
  <2>2. QED
    BY <1>1, <1>2, <2>1 DEF JobHasEntry
<1>9. Apart' /\ RestoredIsUsers'
  BY <1>1 DEF Apart, RestoredIsUsers
<1>10. PreviousRecorded'
  BY <1>2 DEF PreviousRecorded
<1>11. QED
  BY <1>4, <1>5, <1>6, <1>7, <1>8, <1>9, <1>10

(* What is written is covered by the entry of the place.                   *)
LEMMA WriteInvariant == ASSUME IInv, Write PROVE IInv'
<1> USE Facts DEF IInv, Write, Return, job, power, history
<1>1. /\ place \in Place /\ kind \in {"change", "restore"} /\ entries[place] # NoEntry
      /\ entries[place] \in [value: Command \cup Plan, by: Party]
      /\ live[place] \in Cell
  BY DEF JobHasEntry, TypeOK
<1>2. Goal \in Cell /\ Goal.value \in Possible(place)
  BY <1>1 DEF Goal, JobHasEntry, TypeOK, Cell, Party, Possible, Snapshot
<1>3. live' = live \/ live' = [live EXCEPT ![place] = Goal]
  OBVIOUS
<1>4. TypeOK'
  BY <1>1, <1>2, <1>3 DEF TypeOK
<1>5. ChangesRecorded'
  BY <1>1, <1>3 DEF ChangesRecorded, TypeOK
<1>6. OriginalIsUsers'
  BY DEF OriginalIsUsers
<1>7. ProgramCells'
  BY <1>1, <1>3 DEF ProgramCells, Goal, JobHasEntry, OriginalIsUsers, TypeOK
<1>8. JobHasEntry'
  BY <1>1 DEF JobHasEntry
<1>9. Apart'
  BY <1>1, <1>3 DEF Apart, Goal, OriginalIsUsers, TypeOK
<1>10. PreviousRecorded'
  BY DEF PreviousRecorded
<1>11. RestoredIsUsers'
  BY <1>1, <1>3 DEF RestoredIsUsers, Goal, OriginalIsUsers, TypeOK
<1>12. RemovedIsListed' /\ ListedHasEntry'
  BY <1>1, <1>3 DEF RemovedIsListed, ListedHasEntry, TypeOK
<1>13. QED
  BY <1>4, <1>5, <1>6, <1>7, <1>8, <1>9, <1>10, <1>11, <1>12

(* A check that passes on a restored value has read it: what is missing    *)
(* or unreadable is no command line and no plan.                           *)
LEMMA CheckedIsUsers ==
    ASSUME IInv, Check, entries' # entries
    PROVE  /\ entries' = [entries EXCEPT ![place] = NoEntry]
           /\ ~(place = Scheme /\ mixed) => live[place].by = "user"
<1> USE Facts DEF IInv, Check, Return, job, power
<1>1. step = "check" /\ kind = "restore" /\ want \in Reading(place)
      /\ entries' = [entries EXCEPT ![place] = NoEntry]
  BY DEF Settled, ForgetValue
<1>2. want \in Command \cup Plan
  BY <1>1 DEF JobHasEntry, TypeOK
<1>3. want # Absent /\ want # NoEntry
  BY <1>2 DEF Snapshot
<1>4. want = live[place].value
  BY <1>1, <1>3 DEF Reading
<1>5. QED
  BY <1>1, <1>4 DEF RestoredIsUsers

LEMMA CheckInvariant == ASSUME IInv, Check PROVE IInv'
<1> USE Facts DEF IInv, Check, Return, job, power
<1>1. /\ place \in Place /\ kind # "refresh" /\ step = "check" /\ step' = "scan"
      /\ UNCHANGED <<live, listed, kind, place, want, previous, session, disturbed, mixed>>
  BY DEF JobHasEntry, TypeOK
<1>2. \/ entries' = entries
      \/ /\ entries' = [entries EXCEPT ![place] = NoEntry]
         /\ ~(place = Scheme /\ mixed) => live[place].by = "user"
  BY CheckedIsUsers
<1>3. TypeOK'
  BY <1>1, <1>2 DEF TypeOK
<1>4. ChangesRecorded'
  BY <1>1, <1>2 DEF ChangesRecorded, TypeOK
<1>5. OriginalIsUsers'
  BY <1>1, <1>2 DEF OriginalIsUsers, TypeOK
<1>6. (ProgramCells /\ Apart /\ RestoredIsUsers /\ RemovedIsListed)'
  BY <1>1 DEF ProgramCells, Apart, RestoredIsUsers, RemovedIsListed
<1>7. JobHasEntry'
  BY <1>1, <1>2 DEF JobHasEntry, TypeOK
<1>8. PreviousRecorded'
  BY <1>1, <1>2 DEF PreviousRecorded, Apart, TypeOK
<1>9. ListedHasEntry'
  BY <1>1, <1>2 DEF ListedHasEntry, TypeOK
<1>10. QED
  BY <1>3, <1>4, <1>5, <1>6, <1>7, <1>8, <1>9

LEMMA ScanInvariant == ASSUME IInv, Scan PROVE IInv'
<1> USE Facts DEF IInv, Scan, power
<1>1. \/ place = Scheme /\ listed' = listed
      \/ \E S \in SUBSET {n \in Program : live[n].value # Absent} : listed' = ListOf(S)
  OBVIOUS
<1>2. TypeOK'
  BY <1>1 DEF TypeOK, ListOf
<1>3. (ChangesRecorded /\ OriginalIsUsers /\ ProgramCells)'
  BY DEF ChangesRecorded, OriginalIsUsers, ProgramCells
<1>4. (JobHasEntry /\ Apart /\ PreviousRecorded /\ RestoredIsUsers)'
  BY DEF JobHasEntry, Apart, PreviousRecorded, RestoredIsUsers
<1>5. RemovedIsListed' /\ ListedHasEntry'
  BY <1>1 DEF RemovedIsListed, ListedHasEntry, ListOf, ProgramCells, ChangesRecorded
<1>6. QED
  BY <1>2, <1>3, <1>4, <1>5

LEMMA OtherInvariant == ASSUME IInv, NEW p \in Place, OtherWrites(p) PROVE IInv'
<1> USE Facts DEF IInv, OtherWrites, Disturbs, job, power
<1>1. PICK c \in UserCells(p) : live' = [live EXCEPT ![p] = c]
  OBVIOUS
<1>2. c \in Cell /\ c.value \in Possible(p) /\ c.by = "user"
  BY DEF UserCells, Cell, Party
<1>3. TypeOK'
  BY <1>1, <1>2 DEF TypeOK
<1>4. (ChangesRecorded /\ OriginalIsUsers /\ ProgramCells)'
  BY <1>1, <1>2 DEF ChangesRecorded, OriginalIsUsers, ProgramCells, TypeOK
<1>5. (JobHasEntry /\ PreviousRecorded)'
  BY DEF JobHasEntry, PreviousRecorded
<1>6. (Apart /\ RestoredIsUsers /\ RemovedIsListed /\ ListedHasEntry)'
  BY <1>1, <1>2 DEF Apart, RestoredIsUsers, RemovedIsListed, ListedHasEntry, TypeOK
<1>7. QED
  BY <1>3, <1>4, <1>5, <1>6

(* The session: it writes the plan only, with its own value or with the    *)
(* one it found.                                                           *)
LEMMA SessionReadsInvariant == ASSUME IInv, SessionReads PROVE IInv'
<1> USE Facts DEF IInv, SessionReads, job
<1>1. TypeOK'
  BY DEF TypeOK
<1>2. (ChangesRecorded /\ OriginalIsUsers /\ ProgramCells)'
  BY DEF ChangesRecorded, OriginalIsUsers, ProgramCells
<1>3. (JobHasEntry /\ RestoredIsUsers /\ RemovedIsListed /\ ListedHasEntry)'
  BY DEF JobHasEntry, RestoredIsUsers, RemovedIsListed, ListedHasEntry
<1>4. Apart'
  BY DEF Apart, TypeOK
<1>5. PreviousRecorded'
  BY DEF PreviousRecorded, ChangesRecorded, TypeOK, Possible
<1>6. QED
  BY <1>1, <1>2, <1>3, <1>4, <1>5

(* The plan a session writes is its own, or the one it found, which the    *)
(* journal covers if it was Nasaki's.                                      *)
LEMMA SessionWrites ==
    ASSUME IInv, SessionSwitches \/ SessionEnds
    PROVE  \E c \in Cell : /\ live' = [live EXCEPT ![Scheme] = c]
                           /\ c.value \in Plan
                           /\ c.by = "nasaki" /\ ~mixed => entries[Scheme] # NoEntry
<1> USE Facts DEF IInv, SessionSwitches, SessionEnds
<1>1. live[Scheme] \in Cell /\ live[Scheme].value \in Plan
      /\ live = [live EXCEPT ![Scheme] = live[Scheme]]
      /\ (live[Scheme].by = "nasaki" /\ ~mixed => entries[Scheme] # NoEntry)
  BY DEF TypeOK, Possible, ChangesRecorded
<1>2. CASE live' = live
  BY <1>1, <1>2
<1>3. CASE SessionSwitches /\ live' # live
  <2>1. live' = [live EXCEPT ![Scheme] = [value |-> HighPerformance, by |-> "session"]]
    BY <1>1, <1>3
  <2>2. [value |-> HighPerformance, by |-> "session"] \in Cell
    BY PlanAssumption DEF Cell, Party, Snapshot
  <2>3. QED
    BY <2>1, <2>2, PlanAssumption
<1>4. CASE SessionEnds /\ live' # live
  BY <1>4 DEF PreviousRecorded
<1>5. QED
  BY <1>2, <1>3, <1>4

LEMMA SessionWritesInvariant == ASSUME IInv, SessionSwitches \/ SessionEnds PROVE IInv'
<1> USE Facts DEF IInv, SessionSwitches, SessionEnds, Disturbs, job
<1>1. PICK c \in Cell : /\ live' = [live EXCEPT ![Scheme] = c]
                        /\ c.value \in Plan
                        /\ c.by = "nasaki" /\ ~mixed => entries[Scheme] # NoEntry
  BY SessionWrites
<1>2. /\ session # "off" /\ previous' \in {previous, NoEntry} /\ session' \in {"on", "off"}
      /\ session' = "on" => previous' = previous
      /\ UNCHANGED <<entries, listed, step, kind, place, want, result, misread, mixed>>
      /\ disturbed' \in BOOLEAN
  BY DEF TypeOK
<1>3. TypeOK'
  BY <1>1, <1>2 DEF TypeOK, Possible
<1>4. (ChangesRecorded /\ OriginalIsUsers /\ ProgramCells)'
  BY <1>1, <1>2 DEF ChangesRecorded, OriginalIsUsers, ProgramCells, TypeOK
<1>5. (JobHasEntry /\ PreviousRecorded)'
  BY <1>2 DEF JobHasEntry, PreviousRecorded
<1>6. (Apart /\ RestoredIsUsers /\ RemovedIsListed /\ ListedHasEntry)'
  BY <1>1, <1>2 DEF Apart, RestoredIsUsers, RemovedIsListed, ListedHasEntry, TypeOK
<1>7. QED
  BY <1>3, <1>4, <1>5, <1>6

-----------------------------------------------------------------------------
LEMMA StepInvariant == IInv /\ [Next]_vars => IInv'
<1> SUFFICES ASSUME IInv, [Next]_vars PROVE IInv'
  OBVIOUS
<1>1. ASSUME NEW p \in Place, StartRefresh(p) PROVE IInv'
  <2>1. Asked("refresh", p, NoEntry, "scan")
    BY DEF Asked
  <2>2. QED
    BY <1>1, <2>1, StartInvariant DEF StartRefresh
<1>2. ASSUME NEW p \in Place, StartRestore(p) PROVE IInv'
  <2>1. entries[p] # NoEntry
    BY <1>2, Facts DEF StartRestore, Start, IInv, ListedHasEntry
  <2>2. Asked("restore", p, entries[p].value, "write")
    BY <2>1 DEF Asked
  <2>3. QED
    BY <1>2, <2>2, StartInvariant DEF StartRestore
<1>3. ASSUME NEW n \in Program, StartRemove(n) PROVE IInv'
  <2>1. n \in Place /\ Asked("change", n, Absent, "read")
    BY Facts DEF Asked
  <2>2. QED
    BY <1>3, <2>1, StartInvariant DEF StartRemove
<1>4. ASSUME NEW g \in Plan, StartActivate(g) PROVE IInv'
  <2>1. Scheme \in Place /\ Asked("change", Scheme, g, "read")
    BY Facts DEF Asked
  <2>2. QED
    BY <1>4, <2>1, StartInvariant DEF StartActivate
<1>5. CASE UNCHANGED vars
  BY <1>5 DEF vars, IInv, TypeOK, ChangesRecorded, OriginalIsUsers, ProgramCells, JobHasEntry,
     Apart, PreviousRecorded, RestoredIsUsers, RemovedIsListed, ListedHasEntry
<1>6. QED
  BY <1>1, <1>2, <1>3, <1>4, <1>5, ReadInvariant, WriteInvariant, CheckInvariant, ScanInvariant,
     OtherInvariant, SessionReadsInvariant, SessionWritesInvariant DEF Next

LEMMA Invariance == Spec => []IInv
BY InitInvariant, StepInvariant, PTL DEF Spec

(* Every variable stays in its type, for any programs and plans.           *)
THEOREM TypeCorrect == Spec => []TypeOK
<1>1. IInv => TypeOK
  BY DEF IInv
<1>2. QED
  BY <1>1, Invariance, PTL

(* What the pages changed has an entry to put back.                        *)
THEOREM ChangesAlwaysRecorded == Spec => []ChangesRecorded
<1>1. IInv => ChangesRecorded
  BY DEF IInv
<1>2. QED
  BY <1>1, Invariance, PTL

(* What the journal holds for the pages is the user's.                     *)
THEOREM OriginalsAreUsers == Spec => []OriginalIsUsers
<1>1. IInv => OriginalIsUsers
  BY DEF IInv
<1>2. QED
  BY <1>1, Invariance, PTL

(* Every program Nasaki removed is on its page.                            *)
THEOREM RemovalsAlwaysListed == Spec => []RemovalsAreListed
<1>1. IInv => RemovalsAreListed
  BY DEF IInv, RemovedIsListed, RemovalsAreListed
<1>2. QED
  BY <1>1, Invariance, PTL

(* A job that says Ok has done what it was asked to.                       *)
THEOREM ChangesVerified == Spec => []ChangeVerified
<1>1. Init => ChangeVerified
  BY DEF Init, ChangeVerified
<1>2. IInv /\ ChangeVerified /\ [Next]_vars => ChangeVerified'
  <2> SUFFICES ASSUME IInv, ChangeVerified, [Next]_vars PROVE ChangeVerified'
    OBVIOUS
  <2> USE Facts DEF ChangeVerified, Return, job, power, history
  <2>1. ASSUME NEW k, NEW q, NEW v, NEW s, Start(k, q, v, s) PROVE ChangeVerified'
    BY <2>1 DEF Start
  <2>2. CASE ReadBefore
    BY <2>2 DEF ReadBefore
  <2>3. CASE Write
    BY <2>3 DEF Write
  <2>4. CASE Check
    BY <2>4 DEF Check
  <2>5. CASE Scan
    BY <2>5 DEF Scan
  <2>6. ASSUME NEW q \in Place, OtherWrites(q) PROVE ChangeVerified'
    BY <2>6 DEF OtherWrites, Disturbs, IInv, TypeOK
  <2>7. CASE SessionReads
    BY <2>7 DEF SessionReads
  <2>8. CASE SessionSwitches \/ SessionEnds
    BY <2>8 DEF SessionSwitches, SessionEnds, Disturbs, IInv, TypeOK
  <2>9. CASE UNCHANGED vars
    BY <2>9 DEF vars
  <2>10. QED
    BY <2>1, <2>2, <2>3, <2>4, <2>5, <2>6, <2>7, <2>8, <2>9
    DEF Next, StartRefresh, StartRestore, StartRemove, StartActivate
<1>3. QED
  BY <1>1, <1>2, Invariance, PTL DEF Spec

-----------------------------------------------------------------------------
(* Every step of the pages, of a session or of anyone else is a step of    *)
(* the contract, where a session counts as anyone else.                    *)
LiveMap == [p \in Place |-> OthersAreUsers(live[p])]
RecordMap == [p \in Place |-> IF entries[p] = NoEntry THEN NoEntry ELSE OthersAreUsers(entries[p])]

LEMMA OthersFacts ==
    /\ \A c \in Cell : /\ OthersAreUsers(c) \in Contract!Cell
                       /\ OthersAreUsers(c) # NoEntry
                       /\ OthersAreUsers(c).by = "nasaki" <=> c.by = "nasaki"
                       /\ OthersAreUsers(c).by # "nasaki" => OthersAreUsers(c) \in Contract!UserCell
    /\ \A c \in Cell : c.by \in {"user", "nasaki"} => OthersAreUsers(c) = c
BY Facts DEF OthersAreUsers, Cell, Party, Contract!Cell, Contract!Party, Contract!UserCell

LEMMA MapTypes ==
    ASSUME IInv
    PROVE  /\ LiveMap \in [Place -> Contract!Cell]
           /\ RecordMap \in Contract!Records
           /\ \A p \in Place : RecordMap[p] = NoEntry <=> entries[p] = NoEntry
<1> USE DEF IInv, TypeOK, LiveMap, RecordMap, Contract!Records
<1>1. \A p \in Place : live[p] \in Cell /\ (entries[p] # NoEntry => entries[p] \in Cell)
  BY DEF Cell, Snapshot
<1>2. QED
  BY <1>1, OthersFacts

(* The same after a step.                                                  *)
LEMMA MapTypesAfter ==
    ASSUME IInv'
    PROVE  LiveMap' \in [Place -> Contract!Cell] /\ RecordMap' \in Contract!Records
<1> USE DEF IInv, TypeOK, LiveMap, RecordMap, Contract!Records
<1>1. \A p \in Place : live'[p] \in Cell /\ (entries'[p] # NoEntry => entries'[p] \in Cell)
  BY DEF Cell, Snapshot
<1>2. QED
  BY <1>1, OthersFacts

(* What the contract still holds the pages to.                             *)
LEMMA HeldPlaces ==
    Contract!Held = {p \in Place : ~(p = Scheme /\ mixed)}
BY Facts DEF Contract!Held

LEMMA ContractInit == IInv /\ Init => Contract!Init
<1> SUFFICES ASSUME IInv, Init PROVE Contract!Init
  OBVIOUS
<1>1. LiveMap \in [Place -> Contract!UserCell]
  <2>1. \A p \in Place : live[p] \in Cell /\ live[p].by = "user"
    BY DEF Init, IInv, TypeOK, UserCells
  <2>2. QED
    BY <2>1, OthersFacts DEF LiveMap
<1>2. RecordMap = [p \in Place |-> NoEntry]
  BY DEF Init, RecordMap
<1>3. QED
  BY <1>1, <1>2 DEF Init, Contract!Init, Contract!Nothing, LiveMap, RecordMap

(* One place gets a new value: the user's by anyone's write, Nasaki's only *)
(* where there is an entry, or on a plan that was given up.                *)
LEMMA WriteIsContract ==
    ASSUME IInv, IInv', mixed' = mixed, NEW p \in Place, NEW c \in Cell,
           live' = [live EXCEPT ![p] = c], entries' = entries,
           c.by = "nasaki" /\ ~(p = Scheme /\ mixed) => entries[p] # NoEntry
    PROVE  Contract!Next
<1> DEFINE m == OthersAreUsers(c)
<1>1. LiveMap' = [LiveMap EXCEPT ![p] = m]
  BY DEF LiveMap, IInv, TypeOK
<1>2. RecordMap' = RecordMap
  BY DEF RecordMap
<1>3. m.by # "nasaki" => m \in Contract!UserCell
  BY OthersFacts
<1>4. CASE m.by # "nasaki"
  <2>1. Contract!UserWrites
    BY <1>1, <1>2, <1>3, <1>4 DEF Contract!UserWrites, LiveMap, RecordMap
  <2>2. QED
    BY <2>1 DEF Contract!Next
<1>5. CASE m.by = "nasaki" /\ ~(p = Scheme /\ mixed)
  <2>1. RecordMap[p] # NoEntry
    BY <1>5, OthersFacts, MapTypes
  <2>2. m = [value |-> c.value, by |-> "nasaki"] /\ c.value \in Snapshot
    BY <1>5 DEF OthersAreUsers, Cell
  <2>3. Contract!Change(p)
    BY <1>1, <1>2, <2>1, <2>2 DEF Contract!Change, LiveMap, RecordMap
  <2>4. QED
    BY <2>3 DEF Contract!Next
<1>6. CASE p = Scheme /\ mixed
  <2>1. \A q \in Contract!Held : LiveMap'[q] = LiveMap[q] /\ RecordMap'[q] = RecordMap[q]
    BY <1>1, <1>2, <1>6, HeldPlaces, MapTypes
  <2>2. Contract!Adrift
    BY <2>1, MapTypesAfter DEF Contract!Adrift, LiveMap, RecordMap
  <2>3. QED
    BY <2>2 DEF Contract!Next
<1>7. QED
  BY <1>4, <1>5, <1>6

(* A job on the plan meets a session: nothing else happens in that step.   *)
LEMMA MeetingIsContract ==
    ASSUME UNCHANGED <<live, entries>>, mixed' = mixed \/ (~mixed /\ mixed')
    PROVE  [Contract!Next]_(Contract!vars)
<1>1. CASE mixed' = mixed
  BY <1>1 DEF Contract!vars
<1>2. CASE ~mixed /\ mixed'
  <2>1. Contract!Lapse(Scheme)
    BY <1>2 DEF Contract!Lapse
  <2>2. QED
    BY <2>1, Facts DEF Contract!Next
<1>3. QED
  BY <1>1, <1>2

(* Case by case over Next.                                                 *)
LEMMA ContractStep ==
    ASSUME IInv, IInv', [Next]_vars
    PROVE  [Contract!Next]_(Contract!vars)
<1>0. mixed' = mixed \/ (~mixed /\ mixed')
  BY DEF Next, StartRefresh, StartRestore, StartRemove, StartActivate, Start, ReadBefore,
     Write, Check, Scan, OtherWrites, SessionReads, SessionSwitches, SessionEnds, history, vars,
     IInv, TypeOK
<1>1. CASE UNCHANGED <<live, entries>>
  BY <1>0, <1>1, MeetingIsContract
<1>2. CASE ReadBefore /\ entries' # entries
  <2>1. /\ place \in Place /\ UNCHANGED <<live, mixed>>
        /\ entries[place] = NoEntry
        /\ entries' = [entries EXCEPT ![place] = live[place]]
    BY <1>2 DEF ReadBefore, CaptureIfAbsent, IInv, TypeOK, history
  <2>2. \A p \in Contract!Held : RecordMap'[p] # RecordMap[p] =>
            p = place /\ RecordMap[p] = NoEntry /\ RecordMap'[p] = LiveMap[p]
    BY <2>1, Facts, HeldPlaces DEF RecordMap, LiveMap, IInv, TypeOK
  <2>3. ~(place = Scheme /\ mixed) => LiveMap[place].by = "user"
    <3>1. ~(place = Scheme /\ mixed) => live[place].by # "nasaki"
      BY <2>1 DEF IInv, ChangesRecorded
    <3>2. QED
      BY <2>1, <3>1 DEF LiveMap, OthersAreUsers, IInv, TypeOK, Cell, Party
  <2>4. Contract!Record
    BY <2>1, <2>2, <2>3, HeldPlaces, MapTypesAfter DEF Contract!Record, LiveMap, RecordMap
  <2>5. QED
    BY <2>4 DEF Contract!Next
<1>3. CASE Write /\ live' # live
  <2>1. /\ place \in Place /\ entries[place] # NoEntry /\ UNCHANGED <<entries, mixed>>
        /\ live' = [live EXCEPT ![place] = Goal]
    BY <1>3 DEF Write, IInv, TypeOK, JobHasEntry, history
  <2>2. Goal \in Cell
    BY <1>3, Facts, <2>1 DEF Goal, Write, IInv, TypeOK, JobHasEntry, Cell, Party, Snapshot
  <2>3. QED
    BY <2>1, <2>2, WriteIsContract
<1>4. CASE Check /\ entries' # entries
  <2>1. /\ place \in Place /\ UNCHANGED <<live, mixed>>
        /\ entries' = [entries EXCEPT ![place] = NoEntry]
        /\ ~(place = Scheme /\ mixed) => live[place].by = "user"
    BY <1>4, CheckedIsUsers DEF Check, IInv, TypeOK
  <2>2. \A p \in Contract!Held : RecordMap'[p] # RecordMap[p] =>
            RecordMap'[p] = NoEntry /\ LiveMap[p].by = "user"
    BY <2>1, HeldPlaces DEF RecordMap, LiveMap, OthersAreUsers, IInv, TypeOK
  <2>3. Contract!Settle
    BY <2>1, <2>2, MapTypesAfter DEF Contract!Settle, LiveMap, RecordMap
  <2>4. QED
    BY <2>3 DEF Contract!Next
<1>5. ASSUME NEW p \in Place, OtherWrites(p) PROVE [Contract!Next]_(Contract!vars)
  <2>1. PICK c \in UserCells(p) : live' = [live EXCEPT ![p] = c]
    BY <1>5 DEF OtherWrites
  <2>2. c \in Cell /\ c.by = "user" /\ UNCHANGED <<entries, mixed>>
    BY <1>5, Facts DEF UserCells, Cell, Party, OtherWrites
  <2>3. QED
    BY <2>1, <2>2, WriteIsContract
<1>6. CASE SessionSwitches \/ SessionEnds
  <2>1. Scheme \in Place /\ UNCHANGED <<entries, mixed>>
    BY <1>6, Facts DEF SessionSwitches, SessionEnds
  <2>2. QED
    BY <1>6, <2>1, SessionWrites, WriteIsContract
<1>7. QED
  BY <1>1, <1>2, <1>3, <1>4, <1>5, <1>6
  DEF Next, StartRefresh, StartRestore, StartRemove, StartActivate, Start, Scan, SessionReads,
      ReadBefore, Write, Check, vars

(* The two pages keep the promise of the framework.                        *)
THEOREM KeepsContract == Spec => RefinesContract
<1>1. QED
  BY InitInvariant, ContractInit, ContractStep, Invariance, PTL
  DEF Spec, Contract!Spec, RefinesContract
=============================================================================
