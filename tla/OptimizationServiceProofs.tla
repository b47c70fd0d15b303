--------------------- MODULE OptimizationServiceProofs ---------------------
(***************************************************************************)
(* Proofs about OptimizationService, for any catalog, profiles and pages,  *)
(* and any number of presses. That the flags clear in the end (BusyClears) *)
(* stays with the model checker.                                           *)
(***************************************************************************)
EXTENDS OptimizationService, SequenceTheorems, FiniteSetTheorems, TLAPS

(* x is in the sequence s.                                                 *)
Among(x, s) == \E k \in DOMAIN s : s[k] = x

(* The job has dealt with an optimization.                                 *)
SeenTo(id) ==
    IF job.kind = "profile" THEN id \in failures \/ id \notin Supported \/ id \in backup
    ELSE id \in failures \/ id \notin backup

(* Every optimization of a profile or of a restore of everything is still  *)
(* to do or has been dealt with; the one to report on has.                 *)
WorkDone ==
    at # "idle" /\ job.kind \in {"profile", "restore-all"} =>
        /\ \A k \in DOMAIN job.ids : Among(job.ids[k], todo) \/ SeenTo(job.ids[k])
        /\ at = "report" => SeenTo(Cur)
        /\ job.kind = "profile" => todo \in Seq(Id \ Manual)

(* A card's own job works on that card.                                    *)
CardTodo ==
    at # "idle" /\ job.kind \in {"apply", "restore"} /\ todo # <<>> => todo = <<job.of>>

(* The last result of id in the mailbox is at position k.                  *)
LastOf(id, k) ==
    /\ k \in DOMAIN pending /\ pending[k].id = id
    /\ \A l \in DOMAIN pending : pending[l].id = id => l <= k

CardAtLast(id) ==
    \/ (\A k \in DOMAIN pending : pending[k].id # id) /\ states[id] = published[id]
    \/ \E k \in DOMAIN pending : LastOf(id, k) /\ pending[k].state = published[id]

(* What a card will show once the mailbox is emptied was published last.   *)
CardsAtLast == \A id \in Id : CardAtLast(id)

LastTold(k) ==
    /\ k \in DOMAIN pending /\ pending[k].outcome # <<>>
    /\ \A l \in DOMAIN pending : pending[l].outcome # <<>> => l <= k

(* The results for a card, and the outcomes, have a last one (which a step *)
(* that takes the results needs).                                          *)
LastKnown ==
    /\ \A id \in Id : (\A k \in DOMAIN pending : pending[k].id # id)
                      \/ \E k \in DOMAIN pending : LastOf(id, k)
    /\ (\A k \in DOMAIN pending : pending[k].outcome = <<>>)
       \/ \E k \in DOMAIN pending : LastTold(k)

(* A job that tells its outcome past the mailbox.                          *)
Direct(j) == j.kind \in {"profile", "restore-all"} \/ (j.kind = "page" /\ j.tell)

(* The last outcome in the mailbox, or the one already shown, is that of   *)
(* the operation ended last.                                               *)
OutcomeKept ==
    \/ (\A k \in DOMAIN pending : pending[k].outcome = <<>>) /\ lastOutcome = latest
    \/ \E k \in DOMAIN pending : LastTold(k) /\ pending[k].outcome[1] = latest

(* While only cards are used no job tells its outcome past the mailbox.    *)
OutcomeAtLast ==
    ~mixed =>
        /\ \A k \in DOMAIN queue : ~Direct(queue[k])
        /\ at # "idle" => ~Direct(job)
        /\ OutcomeKept

(* A job of the set J is waiting or running; there is at most one.         *)
Present(J) == (at # "idle" /\ job \in J) \/ \E k \in DOMAIN queue : queue[k] \in J
AtMostOne(J) ==
    /\ \A k, l \in DOMAIN queue : queue[k] \in J /\ queue[l] \in J => k = l
    /\ at # "idle" /\ job \in J => \A k \in DOMAIN queue : queue[k] \notin J

OfPage(pg) == {PageJob(pg, c) : c \in BOOLEAN}

Flags ==
    /\ AtMostOne({ScanJob}) /\ (scanning <=> Present({ScanJob}))
    /\ \A pg \in Page : AtMostOne(OfPage(pg)) /\ (pg \in pageBusy <=> Present(OfPage(pg)))

(* InFlight, by positions.                                                 *)
Owed(id) ==
    \/ \E k \in DOMAIN queue : queue[k] \in CardJob(id)
    \/ at # "idle" /\ job \in CardJob(id) /\ todo # <<>>
    \/ \E k \in DOMAIN pending :
          pending[k].id = id /\ pending[k].clearBusy /\ pending[k].outcome # <<>>
BusyOwed == \A id \in busy : Owed(id)

Inv ==
    /\ TypeOK /\ LastKnown /\ WorkDone /\ CardTodo /\ CardsAtLast /\ OutcomeAtLast /\ Flags
    /\ BusyOwed /\ BackupFlagIsCurrent

-----------------------------------------------------------------------------
(* Sequences.                                                              *)

LEMMA Appended ==
    ASSUME NEW S, NEW s \in Seq(S), NEW x \in S
    PROVE  /\ Append(s, x) \in Seq(S)
           /\ DOMAIN Append(s, x) = DOMAIN s \cup {Len(s) + 1}
           /\ Len(s) + 1 \notin DOMAIN s
           /\ Append(s, x)[Len(s) + 1] = x
           /\ \A k \in DOMAIN s : k \in Nat /\ k <= Len(s) /\ Append(s, x)[k] = s[k]
  OBVIOUS

(* The positions of a queue, seen from those of its tail.                  *)
LEMMA Shifted ==
    ASSUME NEW S, NEW s \in Seq(S), s # <<>>
    PROVE  /\ Head(s) \in S /\ Tail(s) \in Seq(S) /\ 1 \in DOMAIN s /\ s[1] = Head(s)
           /\ \A k \in DOMAIN Tail(s) : k + 1 \in DOMAIN s /\ Tail(s)[k] = s[k + 1]
           /\ \A k \in DOMAIN s : k # 1 => \E l \in DOMAIN Tail(s) : k = l + 1
<1>1. \A k \in DOMAIN s : k # 1 => k - 1 \in DOMAIN Tail(s) /\ k = (k - 1) + 1
  OBVIOUS
<1>2. \A k \in DOMAIN s : k # 1 => \E l \in DOMAIN Tail(s) : k = l + 1
  BY <1>1
<1>3. Head(s) \in S /\ Tail(s) \in Seq(S) /\ 1 \in DOMAIN s /\ s[1] = Head(s)
  OBVIOUS
<1>4. \A k \in DOMAIN Tail(s) : k + 1 \in DOMAIN s /\ Tail(s)[k] = s[k + 1]
  OBVIOUS
<1> QED
  BY <1>2, <1>3, <1>4

LEMMA AmongTail ==
    ASSUME NEW S, NEW s \in Seq(S), s # <<>>, NEW x, Among(x, s), x # Head(s)
    PROVE  Among(x, Tail(s))
<1>1. PICK k \in DOMAIN s : s[k] = x
  BY DEF Among
<1>2. k # 1
  BY <1>1, Shifted
<1>3. PICK l \in DOMAIN Tail(s) : k = l + 1
  BY <1>2, Shifted
<1>4. Tail(s)[l] = x
  BY <1>1, <1>3, Shifted
<1> QED
  BY <1>4 DEF Among

LEMMA LastIs ==
    ASSUME NEW P \in SUBSET Int, NEW k \in P, \A l \in P : l <= k
    PROVE  (CHOOSE m \in P : \A l \in P : l <= m) = k
<1> DEFINE Q(m) == m \in P /\ \A l \in P : l <= m
           last == CHOOSE m : Q(m)
<1>1. Q(k)
  OBVIOUS
<1>2. Q(last)
  <2> HIDE DEF Q
  <2> QED
    BY <1>1
<1>3. last <= k /\ k <= last /\ last \in Int
  BY <1>1, <1>2
<1>4. (CHOOSE m \in P : \A l \in P : l <= m) = last
  OBVIOUS
<1> HIDE DEF last
<1> QED
  BY <1>3, <1>4

LEMMA One == ASSUME NEW x PROVE <<x>> # <<>> /\ Head(<<x>>) = x /\ Tail(<<x>>) = <<>>
  OBVIOUS

-----------------------------------------------------------------------------
(* The jobs there are.                                                     *)
WellMade(j) ==
    /\ j.kind \in Kind /\ j.ids \in Seq(Id) /\ j.tell \in BOOLEAN
    /\ j.of \in Id \cup Profile \cup Page \cup {"all"}
    /\ j.kind \in {"apply", "restore"} =>
          j.of \in Id /\ j.ids = <<j.of>> /\ j \in CardJob(j.of)
    /\ j.kind = "profile" => j.ids \in Seq(Id \ Manual)
    /\ j.kind = "restore-all" => j.ids = Catalog
    /\ j.kind = "page" => j.of \in Page /\ j.ids = <<>> /\ j \in OfPage(j.of)
    /\ j.kind = "scan" => j = ScanJob

LEMMA JobKinds == ASSUME NEW j \in Jobs PROVE WellMade(j)
<1>1. CASE j = ScanJob
  BY <1>1, CatalogAssumption DEF ScanJob, Job, Kind, WellMade
<1>2. CASE j = Job("restore-all", "all", Catalog)
  BY <1>2, CatalogAssumption DEF Job, Kind, WellMade
<1>3. CASE \E kind \in {"apply", "restore"}, id \in Id : j = Job(kind, id, <<id>>)
  <2>1. PICK kind \in {"apply", "restore"}, id \in Id : j = Job(kind, id, <<id>>)
    BY <1>3
  <2>2. j.kind = kind /\ j.of = id /\ j.ids = <<id>> /\ j.tell = TRUE
    BY <2>1 DEF Job
  <2>3. <<id>> \in Seq(Id)
    OBVIOUS
  <2>4. j \in CardJob(id)
    BY <2>1 DEF CardJob
  <2> QED
    BY <2>2, <2>3, <2>4 DEF Kind, WellMade
<1>4. CASE \E p \in Profile : j = Job("profile", p, Members[p])
  <2>1. PICK p \in Profile : j = Job("profile", p, Members[p])
    BY <1>4
  <2>2. j.kind = "profile" /\ j.of = p /\ j.ids = Members[p] /\ j.tell = TRUE
    BY <2>1 DEF Job
  <2>3. Members[p] \in Seq(Id \ Manual)
    BY ProfileAssumption
  <2>4. Members[p] \in Seq(Id)
    BY <2>3
  <2> QED
    BY <2>2, <2>3, <2>4 DEF Kind, WellMade
<1>5. CASE \E pg \in Page, c \in BOOLEAN : j = PageJob(pg, c)
  <2>1. PICK pg \in Page, c \in BOOLEAN : j = PageJob(pg, c)
    BY <1>5
  <2>2. j.kind = "page" /\ j.of = pg /\ j.ids = <<>> /\ j.tell = c
    BY <2>1 DEF PageJob, Job
  <2>3. j \in OfPage(pg)
    BY <2>1 DEF OfPage
  <2> QED
    BY <2>2, <2>3 DEF Kind, WellMade
<1>6. \/ j = ScanJob \/ j = Job("restore-all", "all", Catalog)
      \/ \E kind \in {"apply", "restore"}, id \in Id : j = Job(kind, id, <<id>>)
      \/ \E p \in Profile : j = Job("profile", p, Members[p])
      \/ \E pg \in Page, c \in BOOLEAN : j = PageJob(pg, c)
  BY DEF Jobs
<1> QED
  BY <1>1, <1>2, <1>3, <1>4, <1>5, <1>6, Zenon

LEMMA CardJobs ==
    ASSUME NEW id \in Id, NEW j \in CardJob(id)
    PROVE  j \in Jobs /\ j.kind \in {"apply", "restore"} /\ j.of = id /\ j.ids = <<id>>
  BY DEF CardJob, Job, Jobs

LEMMA PageJobs ==
    ASSUME NEW pg \in Page, NEW j \in OfPage(pg)
    PROVE  j \in Jobs /\ j.kind = "page" /\ j.of = pg /\ j.ids = <<>>
  BY DEF OfPage, PageJob, Job, Jobs

LEMMA ScanJobIs == ScanJob \in Jobs /\ ScanJob.kind = "scan" /\ ScanJob.ids = Catalog
  BY DEF ScanJob, Job, Jobs

-----------------------------------------------------------------------------
(* What the steps of the render thread do to the queue and the flags.      *)
Pressed(j) ==
    /\ Click(j)
    /\ UNCHANGED <<pending, states, lastOutcome, hasBackup>>
    /\ \/ j.kind = "scan" /\ ~scanning /\ scanning' = TRUE /\ UNCHANGED <<busy, pageBusy>>
       \/ /\ j.kind \in {"apply", "restore"} /\ busy' = busy \cup {j.of}
          /\ UNCHANGED <<scanning, pageBusy>>
       \/ j.kind \in {"profile", "restore-all"} /\ UNCHANGED <<busy, scanning, pageBusy>>
       \/ /\ j.kind = "page" /\ j.of \notin pageBusy
          /\ pageBusy' = pageBusy \cup {j.of} /\ UNCHANGED <<busy, scanning>>

LEMMA UserSteps == ASSUME User PROVE \E j \in Jobs : Pressed(j)
<1>1. CASE RefreshAsync
  BY <1>1, ScanJobIs DEF RefreshAsync, Pressed, mailbox
<1>2. CASE RestoreEverythingAsync
  <2>1. Job("restore-all", "all", Catalog) \in Jobs
        /\ Job("restore-all", "all", Catalog).kind = "restore-all"
    BY DEF Jobs, Job
  <2> QED
    BY <1>2, <2>1 DEF RestoreEverythingAsync, Pressed, mailbox, flags
<1>3. CASE \E id \in Id : ApplyAsync(id)
  <2>1. PICK id \in Id : ApplyAsync(id)
    BY <1>3
  <2>2. Job("apply", id, <<id>>) \in CardJob(id) /\ Job("apply", id, <<id>>).kind = "apply"
    BY DEF CardJob, Job
  <2> QED
    BY <2>1, <2>2, CardJobs DEF ApplyAsync, Pressed, flags
<1>4. CASE \E id \in Id : RestoreAsync(id)
  <2>1. PICK id \in Id : RestoreAsync(id)
    BY <1>4
  <2>2. Job("restore", id, <<id>>) \in CardJob(id) /\ Job("restore", id, <<id>>).kind = "restore"
    BY DEF CardJob, Job
  <2> QED
    BY <2>1, <2>2, CardJobs DEF RestoreAsync, Pressed, flags
<1>5. CASE \E p \in Profile : ApplyProfileAsync(p)
  <2>1. PICK p \in Profile : ApplyProfileAsync(p)
    BY <1>5
  <2>2. Job("profile", p, Members[p]) \in Jobs
    BY DEF Jobs
  <2>4. Job("profile", p, Members[p]).kind = "profile"
    BY DEF Job
  <2>3. Click(Job("profile", p, Members[p])) /\ UNCHANGED <<mailbox, flags>>
    BY <2>1 DEF ApplyProfileAsync
  <2> QED
    BY <2>2, <2>3, <2>4 DEF Pressed, mailbox, flags
<1>6. CASE \E pg \in Page, changes \in BOOLEAN : PageAsync(pg, changes)
  <2>1. PICK pg \in Page, changes \in BOOLEAN : PageAsync(pg, changes)
    BY <1>6
  <2>2. PageJob(pg, changes) \in OfPage(pg)
    BY DEF OfPage
  <2> QED
    BY <2>1, <2>2, PageJobs DEF PageAsync, Pressed, mailbox
<1> QED
  BY <1>1, <1>2, <1>3, <1>4, <1>5, <1>6 DEF User
-----------------------------------------------------------------------------
(* The worker's step at an optimization.                                   *)
Worked ==
    /\ at = "work" /\ at' = "report" /\ UNCHANGED <<job, todo, service, history>>
    /\ \E state \in State, ok \in BOOLEAN : found' = <<state, ok>>
    /\ failures \subseteq failures' /\ failures' \subseteq failures \cup {Cur}
    /\ \A x : x # Cur => (x \in backup' <=> x \in backup)
    /\ backup' \subseteq backup \cup {Cur}
    /\ job.kind = "profile" /\ Cur \notin Manual =>
          backup \subseteq backup' /\ (Cur \in failures' \/ Cur \in backup')
    /\ job.kind = "restore-all" =>
          backup' \subseteq backup /\ (Cur \in failures' \/ Cur \notin backup')

LEMMA ApplyPairs ==
    ASSUME NEW x, NEW r \in ApplyResults(x)
    PROVE  \E held, ok \in BOOLEAN : r = <<held, ok>>
<1> DEFINE here == x \in backup
<1>1. here \in BOOLEAN
  OBVIOUS
<1>2. \/ r \in {<<here, ok>> : ok \in BOOLEAN} \/ r \in {<<here, FALSE>>}
      \/ r \in {<<TRUE, TRUE>>, <<TRUE, FALSE>>, <<here, FALSE>>}
  BY Zenon DEF ApplyResults
<1> HIDE DEF here
<1> QED
  BY <1>1, <1>2

LEMMA RestorePairs ==
    ASSUME NEW x, NEW r \in RestoreResults(x)
    PROVE  \E held, ok \in BOOLEAN : r = <<held, ok>>
<1> DEFINE here == x \in backup
<1>1. here \in BOOLEAN
  OBVIOUS
<1>2. r \in {<<here, FALSE>>} \/ r \in {<<~ok, ok>> : ok \in BOOLEAN}
  BY Zenon DEF RestoreResults
<1> HIDE DEF here
<1> QED
  BY <1>1, <1>2

LEMMA Pairs == ASSUME NEW x, NEW kind, NEW r \in Results(kind, x) PROVE r[2] \in BOOLEAN
<1>1. CASE r \in ApplyResults(x)
  BY <1>1, ApplyPairs
<1>2. CASE r \in RestoreResults(x)
  BY <1>2, RestorePairs
<1>3. CASE r \in {<<x \in backup, TRUE>>}
  <2> DEFINE here == x \in backup
  <2>1. r = <<here, TRUE>>
    BY <1>3
  <2> HIDE DEF here
  <2> QED
    BY <2>1
<1>4. r \in ApplyResults(x) \/ r \in RestoreResults(x) \/ r \in {<<x \in backup, TRUE>>}
  BY Zenon DEF Results
<1> QED
  BY <1>1, <1>2, <1>3, <1>4

LEMMA WorkSteps == ASSUME Work PROVE Worked
<1> DEFINE id == Cur
<1>1. PICK r \in Results(job.kind, id) :
        /\ backup' = IF r[1] THEN backup \cup {id} ELSE backup \ {id}
        /\ \E state \in IF r[2] THEN Read(id) ELSE {"Failed"} : found' = <<state, r[2]>>
        /\ failures' = IF r[2] THEN failures ELSE failures \cup {id}
  BY DEF Work
<1>2. at = "work" /\ ~Skipped /\ at' = "report" /\ UNCHANGED <<job, todo, service, history>>
  BY DEF Work
<1>3. PICK state \in IF r[2] THEN Read(id) ELSE {"Failed"} : found' = <<state, r[2]>>
  BY <1>1
<1>4. state \in State
  <2>1. Read(id) \subseteq State
    BY DEF Read, State
  <2> QED
    BY <2>1, <1>3 DEF State
<1>5. r[2] \in BOOLEAN
  BY <1>1, Pairs
<1>6. ASSUME job.kind = "profile", id \notin Manual
      PROVE  backup \subseteq backup' /\ (id \in failures' \/ id \in backup')
  <2>1. id \in Supported
    BY <1>2, <1>6 DEF Skipped
  <2>2. r \in {<<TRUE, TRUE>>, <<TRUE, FALSE>>, <<id \in backup, FALSE>>}
    BY <1>1, <1>6, <2>1 DEF Results, ApplyResults
  <2>3. CASE r = <<TRUE, TRUE>>
    BY <2>3, <1>1
  <2>4. CASE r = <<TRUE, FALSE>>
    BY <2>4, <1>1
  <2>5. CASE r = <<id \in backup, FALSE>>
    BY <2>5, <1>1
  <2> QED
    BY <2>2, <2>3, <2>4, <2>5
<1>7. ASSUME job.kind = "restore-all"
      PROVE  backup' \subseteq backup /\ (id \in failures' \/ id \notin backup')
  <2>1. id \in backup
    BY <1>2, <1>7 DEF Skipped
  <2>2. r \in {<<id \in backup, FALSE>>} \cup {<<~ok, ok>> : ok \in BOOLEAN}
    BY <1>1, <1>7 DEF Results, RestoreResults
  <2>3. CASE r = <<id \in backup, FALSE>>
    BY <2>1, <2>3, <1>1
  <2>4. CASE r \in {<<~ok, ok>> : ok \in BOOLEAN}
    <3>1. r = <<FALSE, TRUE>> \/ r = <<TRUE, FALSE>>
      BY <2>4
    <3>2. CASE r = <<FALSE, TRUE>>
      BY <2>1, <3>2, <1>1
    <3>3. CASE r = <<TRUE, FALSE>>
      BY <2>1, <3>3, <1>1
    <3> QED
      BY <3>1, <3>2, <3>3
  <2> QED
    BY <2>2, <2>3, <2>4
<1>8. /\ failures \subseteq failures' /\ failures' \subseteq failures \cup {id}
      /\ \A x : x # id => (x \in backup' <=> x \in backup)
      /\ backup' \subseteq backup \cup {id}
  <2> HIDE DEF id
  <2> QED
    BY <1>1
<1> QED
  BY <1>2, <1>3, <1>4, <1>5, <1>6, <1>7, <1>8 DEF Worked

LEMMA Advanced ==
    ASSUME TypeOK, todo # <<>>, Advance
    PROVE  /\ todo' \in Seq(Id) /\ at' \in {"work", "finish"} /\ (at' = "work" <=> todo' # <<>>)
           /\ Cur \in Id
  BY DEF TypeOK, Advance, Cur

LEMMA TypeStep == ASSUME TypeOK, LastKnown, [Next]_vars PROVE TypeOK'
<1>1. CASE User
  <2>1. PICK j \in Jobs : Pressed(j)
    BY <1>1, UserSteps
  <2>2. queue' \in Seq(Jobs) /\ requests' \in 0..MaxRequests /\ frame' = "clicked"
        /\ mixed' \in BOOLEAN
    BY <2>1, MaxRequestsAssumption DEF TypeOK, Pressed, Click
  <2>3. UNCHANGED <<backup, job, at, todo, found, failures, history, pending, states,
                    lastOutcome, hasBackup>>
    BY <2>1 DEF Pressed, Click
  <2>4. busy' \subseteq Id /\ scanning' \in BOOLEAN /\ pageBusy' \subseteq Page
    <3>1. WellMade(j)
      BY JobKinds
    <3> QED
      BY <2>1, <3>1 DEF Pressed, WellMade, TypeOK
  <2> QED
    BY <2>2, <2>3, <2>4 DEF TypeOK, history
<1>2. CASE Pump
  <2>1. states' \in [Id -> State]
    <3>1. \A id \in Id : states'[id] \in State
      <4> SUFFICES ASSUME NEW id \in Id PROVE states'[id] \in State
        OBVIOUS
      <4> DEFINE mine == {k \in DOMAIN pending : pending[k].id = id}
                 last == CHOOSE k \in mine : \A l \in mine : l <= k
      <4>1. states'[id] = IF mine = {} THEN states[id] ELSE pending[last].state
        BY <1>2 DEF Pump
      <4>2. CASE mine = {}
        BY <4>1, <4>2 DEF TypeOK
      <4>3. CASE mine # {}
        <5>1. last \in mine
          <6>1. PICK k \in DOMAIN pending : LastOf(id, k)
            BY <4>3 DEF LastKnown
          <6>2. k \in mine /\ \A l \in mine : l <= k
            BY <6>1 DEF LastOf
          <6>3. mine \subseteq Int
            BY DEF TypeOK
          <6> QED
            BY <6>2, <6>3, LastIs
        <5>2. pending[last] \in Result
          BY <5>1 DEF TypeOK
        <5> QED
          BY <4>1, <4>3, <5>2 DEF Result
      <4> QED
        BY <4>2, <4>3
    <3> QED
      BY <1>2, <3>1 DEF Pump
  <2>2. busy' \subseteq busy
    BY <1>2 DEF Pump
  <2>3. lastOutcome' \in Outcome
    <3> DEFINE told == {k \in DOMAIN pending : pending[k].outcome # <<>>}
               last == CHOOSE k \in told : \A l \in told : l <= k
    <3>1. lastOutcome' = IF told = {} THEN lastOutcome ELSE pending[last].outcome[1]
      BY <1>2 DEF Pump
    <3>2. CASE told = {}
      BY <3>1, <3>2 DEF TypeOK
    <3>3. CASE told # {}
      <4>1. last \in told
        <5>1. PICK k \in DOMAIN pending : LastTold(k)
          BY <3>3 DEF LastKnown
        <5>2. k \in told /\ \A l \in told : l <= k
          BY <5>1 DEF LastTold
        <5>3. told \subseteq Int
          BY DEF TypeOK
        <5> QED
          BY <5>2, <5>3, LastIs
      <4>2. pending[last] \in Result /\ pending[last].outcome # <<>>
        BY <4>1 DEF TypeOK
      <4>3. PICK o \in Outcome : pending[last].outcome = <<o>>
        BY <4>2 DEF Result
      <4> QED
        BY <3>1, <3>3, <4>3
    <3> QED
      BY <3>2, <3>3
  <2>4. pending' = <<>> /\ frame' = "pumped"
        /\ UNCHANGED <<backup, queue, job, at, todo, found, failures, flags, requests, history, mixed>>
    BY <1>2 DEF Pump
  <2> QED
    BY <2>1, <2>2, <2>3, <2>4 DEF TypeOK, flags, history
<1>3. CASE TakeJob
  <2>1. Head(queue) \in Jobs /\ Tail(queue) \in Seq(Jobs)
    BY <1>3, Shifted DEF TakeJob, TypeOK
  <2>2. Head(queue).ids \in Seq(Id)
    BY <2>1, JobKinds DEF WellMade
  <2>3. job' = Head(queue) /\ queue' = Tail(queue) /\ todo' = Head(queue).ids /\ failures' = {}
        /\ at = "idle" /\ UNCHANGED <<backup, found, mailbox, flags, render, history>>
    BY <1>3 DEF TakeJob
  <2>4. at' = IF Head(queue).ids = <<>> THEN "finish" ELSE "work"
    BY <1>3 DEF TakeJob
  <2> HIDE <1>3
  <2> QED
    BY <2>1, <2>2, <2>3, <2>4 DEF TypeOK, mailbox, flags, render, history
<1>4. CASE Skip
  <2>1. /\ todo' \in Seq(Id) /\ at' \in {"work", "finish"} /\ (at' = "work" <=> todo' # <<>>)
    BY <1>4, Advanced DEF Skip, TypeOK
  <2>2. at = "work" /\ UNCHANGED <<backup, job, found, failures, service, history>>
    BY <1>4 DEF Skip
  <2> QED
    BY <2>1, <2>2 DEF TypeOK, service, mailbox, flags, render, history
<1>5. CASE Work
  <2>1. Worked /\ Cur \in Id
    BY <1>5, WorkSteps DEF TypeOK, Worked, Cur
  <2>2. PICK state \in State, ok \in BOOLEAN : found' = <<state, ok>>
    BY <2>1 DEF Worked
  <2>3. found' \in State \X BOOLEAN /\ found' # <<>>
    BY <2>2
  <2>4. backup' \subseteq Id \cup Journalled /\ failures' \subseteq Id
    BY <2>1 DEF Worked, TypeOK
  <2>5. at = "work" /\ at' = "report" /\ UNCHANGED <<job, todo, service, history>>
    BY <2>1 DEF Worked
  <2> QED
    BY <2>3, <2>4, <2>5 DEF TypeOK, service, mailbox, flags, render, history
<1>6. CASE Report
  <2> DEFINE clear == job.kind # "scan"
  <2>1. Publish(clear, FlagsNow) /\ clear \in BOOLEAN
    BY <1>6 DEF Report
  <2> HIDE DEF clear
  <2>2. todo # <<>> /\ Cur \in Id /\ found \in State \X BOOLEAN /\ job \in Jobs
    BY <2>1 DEF Publish, TypeOK, Cur
  <2>3. todo' \in Seq(Id) /\ at' \in {"work", "finish"} /\ (at' = "work" <=> todo' # <<>>)
    BY <2>1, <2>2, Advanced DEF Publish
  <2>4. [kind |-> job.kind, of |-> job.of, ok |-> found[2]] \in Outcome
    <3>1. WellMade(job)
      BY <2>2, JobKinds
    <3>2. found[2] \in BOOLEAN
      BY <2>2
    <3> QED
      BY <3>1, <3>2 DEF WellMade, Outcome
  <2>5. pending' \in Seq(Result) /\ latest' \in Outcome
    <3> DEFINE outcome == [kind |-> job.kind, of |-> job.of, ok |-> found[2]]
               single == job.kind \in {"apply", "restore"}
               result == [id |-> Cur, state |-> found[1], clearBusy |-> clear,
                          outcome |-> IF single THEN <<outcome>> ELSE <<>>]
    <3>1. pending' = Append(pending, result) /\ latest' = IF single THEN outcome ELSE latest
      BY <2>1 DEF Publish
    <3>2. result \in Result
      <4> HIDE DEF outcome, single
      <4>1. found[1] \in State /\ outcome \in Outcome
        BY <2>2, <2>4 DEF outcome
      <4>2. (IF single THEN <<outcome>> ELSE <<>>) \in {<<>>} \cup {<<o>> : o \in Outcome}
        BY <4>1
      <4> QED
        BY <2>1, <2>2, <4>1, <4>2 DEF Result
    <3>3. pending' \in Seq(Result)
      <4> HIDE DEF result
      <4> QED
        BY <3>1, <3>2 DEF TypeOK
    <3>4. latest' \in Outcome
      BY <3>1, <2>4 DEF TypeOK
    <3> QED
      BY <3>3, <3>4
  <2>6. hasBackup' \subseteq Id /\ published' \in [Id -> State] /\ found' = <<>>
    BY <2>1, <2>2 DEF Publish, FlagsNow, TypeOK
  <2>7. UNCHANGED <<backup, queue, job, failures, states, busy, lastOutcome, scanning,
                    pageBusy, render>>
    BY <2>1 DEF Publish
  <2> QED
    BY <2>3, <2>5, <2>6, <2>7 DEF TypeOK, render
<1>7. ASSUME NEW ok \in BOOLEAN, Tell(ok) PROVE lastOutcome' \in Outcome /\ latest' \in Outcome
  <2>1. WellMade(job)
    BY JobKinds DEF TypeOK
  <2> QED
    BY <1>7, <2>1 DEF Tell, WellMade, Outcome
<1>8. CASE FinishCatalogJob
  <2>1. lastOutcome' \in Outcome /\ latest' \in Outcome
    <3>1. CASE job.kind \in {"profile", "restore-all"}
      BY <1>8, <3>1, <1>7 DEF FinishCatalogJob
    <3>2. CASE job.kind \notin {"profile", "restore-all"}
      BY <1>8, <3>2 DEF FinishCatalogJob, TypeOK
    <3> QED
      BY <3>1, <3>2
  <2>2. scanning' \in BOOLEAN
    BY <1>8 DEF FinishCatalogJob, TypeOK
  <2>3. at = "finish" /\ at' = "idle"
        /\ UNCHANGED <<backup, queue, job, todo, found, failures, pending, states, busy,
                       hasBackup, pageBusy, render, published>>
    BY <1>8 DEF FinishCatalogJob
  <2> QED
    BY <2>1, <2>2, <2>3 DEF TypeOK, render
<1>9. CASE FinishPageJob
  <2>1. lastOutcome' \in Outcome /\ latest' \in Outcome
    <3>1. CASE job.tell
      BY <1>9, <3>1, <1>7 DEF FinishPageJob
    <3>2. CASE ~job.tell
      BY <1>9, <3>2 DEF FinishPageJob, TypeOK
    <3> QED
      BY <3>1, <3>2
  <2>2. backup' \subseteq Id \cup Journalled /\ pageBusy' \subseteq Page
    BY <1>9 DEF FinishPageJob, TypeOK
  <2>3. at = "finish" /\ at' = "idle"
        /\ UNCHANGED <<queue, job, todo, found, failures, pending, states, busy,
                       hasBackup, scanning, render, published>>
    BY <1>9 DEF FinishPageJob
  <2> QED
    BY <2>1, <2>2, <2>3 DEF TypeOK, render
<1>10. CASE UNCHANGED vars
  BY <1>10 DEF TypeOK, vars
<1> QED
  BY <1>1, <1>2, <1>3, <1>4, <1>5, <1>6, <1>8, <1>9, <1>10 DEF Next, Worker
-----------------------------------------------------------------------------
(* The mailbox.                                                            *)
Posted(result) ==
    /\ at = "report" /\ todo # <<>> /\ Cur \in Id
    /\ pending' = Append(pending, result)
    /\ result.id = Cur
    /\ published' = [published EXCEPT ![Cur] = result.state]
    /\ result.clearBusy = (job.kind # "scan")
    /\ \/ /\ job.kind \in {"apply", "restore"}
          /\ result.outcome # <<>> /\ latest' = result.outcome[1]
       \/ job.kind \notin {"apply", "restore"} /\ result.outcome = <<>> /\ latest' = latest
    /\ UNCHANGED <<backup, queue, job, failures, states, busy, lastOutcome, scanning,
                   pageBusy, render>>

LEMMA ReportSteps == ASSUME TypeOK, Report PROVE \E result \in Result : Posted(result)
<1> DEFINE clear == job.kind # "scan"
           single == job.kind \in {"apply", "restore"}
           outcome == [kind |-> job.kind, of |-> job.of, ok |-> found[2]]
           result == [id |-> Cur, state |-> found[1], clearBusy |-> clear,
                      outcome |-> IF single THEN <<outcome>> ELSE <<>>]
<1>1. /\ at = "report" /\ pending' = Append(pending, result)
      /\ latest' = IF single THEN outcome ELSE latest
      /\ published' = [published EXCEPT ![Cur] = found[1]]
      /\ UNCHANGED <<backup, queue, job, failures, states, busy, lastOutcome, scanning,
                     pageBusy, render>>
  BY DEF Report, Publish
<1>2. todo # <<>> /\ Cur \in Id /\ found \in State \X BOOLEAN /\ job \in Jobs
  BY <1>1 DEF TypeOK, Cur
<1>3. clear \in BOOLEAN /\ single \in BOOLEAN
  OBVIOUS
<1>4. found[1] \in State /\ found[2] \in BOOLEAN
  BY <1>2
<1>5. outcome \in Outcome
  <2>1. WellMade(job)
    BY <1>2, JobKinds
  <2> QED
    BY <1>4, <2>1 DEF WellMade, Outcome
<1>6. /\ result.id = Cur /\ result.state = found[1] /\ result.clearBusy = clear
      /\ result.outcome = IF single THEN <<outcome>> ELSE <<>>
  BY Zenon
<1>7. result \in Result
  <2> HIDE DEF outcome, single, clear
  <2>1. (IF single THEN <<outcome>> ELSE <<>>) \in {<<>>} \cup {<<o>> : o \in Outcome}
    BY <1>5
  <2> QED
    BY <1>2, <1>3, <1>4, <2>1 DEF Result
<1>8. \/ single /\ result.outcome # <<>> /\ latest' = result.outcome[1]
      \/ ~single /\ result.outcome = <<>> /\ latest' = latest
  <2> HIDE DEF outcome, result, single
  <2> QED
    BY <1>1, <1>6
<1>9. Posted(result)
  <2> HIDE DEF outcome, result
  <2> QED
    BY <1>1, <1>2, <1>6, <1>8 DEF Posted
<1> QED
  BY <1>7, <1>9

(* Every step empties the mailbox, posts to it, or leaves it and the cards.*)
LEMMA MailboxSteps ==
    ASSUME TypeOK, [Next]_vars
    PROVE  \/ Pump \/ \E result \in Result : Posted(result)
           \/ UNCHANGED <<pending, states, published>>
<1>1. CASE User
  BY <1>1, UserSteps DEF Pressed, Click, history
<1>2. CASE TakeJob
  BY <1>2 DEF TakeJob, mailbox, history
<1>3. CASE Skip
  BY <1>3 DEF Skip, service, mailbox, history
<1>4. CASE Work
  BY <1>4 DEF Work, service, mailbox, history
<1>5. CASE Report
  BY <1>5, ReportSteps
<1>6. CASE FinishCatalogJob
  BY <1>6 DEF FinishCatalogJob
<1>7. CASE FinishPageJob
  BY <1>7 DEF FinishPageJob
<1>8. CASE UNCHANGED vars
  BY <1>8 DEF vars
<1> QED
  BY <1>1, <1>2, <1>3, <1>4, <1>5, <1>6, <1>7, <1>8 DEF Next, Worker

(* A result posted is at a position after all the others.                  *)
Added(n, result) ==
    /\ n \in DOMAIN pending' /\ n \notin DOMAIN pending /\ pending'[n] = result
    /\ \A k \in DOMAIN pending' : k <= n /\ (k \in DOMAIN pending \/ k = n)
    /\ \A k \in DOMAIN pending : k \in DOMAIN pending' /\ pending'[k] = pending[k]

LEMMA LastPosted ==
    ASSUME TypeOK, NEW result \in Result, Posted(result)
    PROVE  \E n : Added(n, result)
<1>1. pending \in Seq(Result) /\ pending' = Append(pending, result)
  BY DEF TypeOK, Posted
<1> DEFINE n == Len(pending) + 1
<1>2. /\ DOMAIN pending' = DOMAIN pending \cup {n} /\ n \notin DOMAIN pending
      /\ pending'[n] = result
      /\ \A k \in DOMAIN pending : k <= Len(pending) /\ k <= n /\ pending'[k] = pending[k]
      /\ n <= n
  BY <1>1, Appended
<1> HIDE DEF n
<1>3. Added(n, result)
  BY <1>2 DEF Added
<1> QED
  BY <1>3

LEMMA LastKnownStep == ASSUME TypeOK, LastKnown, [Next]_vars PROVE LastKnown'
<1>1. CASE Pump
  <2>1. DOMAIN pending' = {}
    BY <1>1 DEF Pump
  <2> QED
    BY <2>1 DEF LastKnown
<1>2. CASE \E result \in Result : Posted(result)
  <2>1. PICK result \in Result : Posted(result)
    BY <1>2
  <2>2. PICK n : Added(n, result)
    BY <2>1, LastPosted
  <2>3. ASSUME NEW id \in Id
        PROVE  (\A k \in DOMAIN pending' : pending'[k].id # id)
               \/ \E k \in DOMAIN pending' : LastOf(id, k)'
    <3>1. CASE result.id = id
      BY <2>2, <3>1 DEF Added, LastOf
    <3>2. CASE result.id # id
      <4>1. CASE \A k \in DOMAIN pending : pending[k].id # id
        BY <2>2, <3>2, <4>1 DEF Added
      <4>2. CASE \E k \in DOMAIN pending : LastOf(id, k)
        BY <2>2, <3>2, <4>2 DEF Added, LastOf
      <4> QED
        BY <4>1, <4>2 DEF LastKnown
    <3> QED
      BY <3>1, <3>2
  <2>4. (\A k \in DOMAIN pending' : pending'[k].outcome = <<>>)
        \/ \E k \in DOMAIN pending' : LastTold(k)'
    <3>1. CASE result.outcome # <<>>
      BY <2>2, <3>1 DEF Added, LastTold
    <3>2. CASE result.outcome = <<>>
      <4>1. CASE \A k \in DOMAIN pending : pending[k].outcome = <<>>
        BY <2>2, <3>2, <4>1 DEF Added
      <4>2. CASE \E k \in DOMAIN pending : LastTold(k)
        BY <2>2, <3>2, <4>2 DEF Added, LastTold
      <4> QED
        BY <4>1, <4>2 DEF LastKnown
    <3> QED
      BY <3>1, <3>2
  <2> QED
    BY <2>3, <2>4 DEF LastKnown
<1>3. CASE UNCHANGED <<pending, states, published>>
  BY <1>3 DEF LastKnown, LastOf, LastTold
<1> QED
  BY <1>1, <1>2, <1>3, MailboxSteps

(* What the emptying of the mailbox leaves a card with.                    *)
LEMMA PumpCard ==
    ASSUME TypeOK, Pump, NEW id \in Id
    PROVE  /\ (\A k \in DOMAIN pending : pending[k].id # id) => states'[id] = states[id]
           /\ \A k \in DOMAIN pending : LastOf(id, k) => states'[id] = pending[k].state
<1> DEFINE mine == {k \in DOMAIN pending : pending[k].id = id}
           last == CHOOSE k \in mine : \A l \in mine : l <= k
<1>1. states'[id] = IF mine = {} THEN states[id] ELSE pending[last].state
  BY DEF Pump
<1>2. (\A k \in DOMAIN pending : pending[k].id # id) => mine = {}
  OBVIOUS
<1>3. ASSUME NEW k \in DOMAIN pending, LastOf(id, k) PROVE states'[id] = pending[k].state
  <2>1. k \in mine /\ \A l \in mine : l <= k
    BY <1>3 DEF LastOf
  <2>2. mine \subseteq Int
    BY DEF TypeOK
  <2>3. last = k
    BY <2>1, <2>2, LastIs
  <2> HIDE DEF last
  <2> QED
    BY <1>1, <2>1, <2>3
<1> QED
  BY <1>1, <1>2, <1>3

LEMMA CardsStep == ASSUME TypeOK, CardsAtLast, [Next]_vars PROVE CardsAtLast'
<1> SUFFICES ASSUME NEW id \in Id PROVE CardAtLast(id)'
  BY DEF CardsAtLast
<1>0. CardAtLast(id)
  BY DEF CardsAtLast
<1>1. CASE Pump
  <2>1. DOMAIN pending' = {} /\ published' = published
    BY <1>1 DEF Pump, history
  <2>2. states'[id] = published[id]
    BY <1>0, <1>1, PumpCard DEF CardAtLast
  <2> QED
    BY <2>1, <2>2 DEF CardAtLast
<1>2. CASE \E result \in Result : Posted(result)
  <2>1. PICK result \in Result : Posted(result)
    BY <1>2
  <2>2. PICK n : Added(n, result)
    BY <2>1, LastPosted
  <2>3. /\ result.id = Cur /\ published' = [published EXCEPT ![Cur] = result.state]
        /\ states' = states /\ published \in [Id -> State]
    BY <2>1 DEF Posted, TypeOK
  <2>4. CASE id = Cur
    <3>1. published'[id] = result.state
      BY <2>3, <2>4
    <3>2. LastOf(id, n)' /\ pending'[n].state = result.state
      BY <2>2, <2>3, <2>4 DEF Added, LastOf
    <3> QED
      BY <3>1, <3>2 DEF CardAtLast, LastOf
  <2>5. CASE id # Cur
    <3>1. published'[id] = published[id] /\ states'[id] = states[id]
      BY <2>3, <2>5
    <3>2. CASE \A k \in DOMAIN pending : pending[k].id # id
      <4>1. \A k \in DOMAIN pending' : pending'[k].id # id
        BY <2>2, <2>3, <2>5, <3>2 DEF Added
      <4>2. states[id] = published[id]
        BY <1>0, <3>2 DEF CardAtLast, LastOf
      <4> QED
        BY <3>1, <4>1, <4>2 DEF CardAtLast
    <3>3. CASE \E k \in DOMAIN pending : pending[k].id = id
      <4>1. PICK k \in DOMAIN pending : LastOf(id, k) /\ pending[k].state = published[id]
        BY <1>0, <3>3 DEF CardAtLast
      <4>2. LastOf(id, k)' /\ pending'[k].state = published[id]
        BY <2>2, <2>3, <2>5, <4>1 DEF Added, LastOf
      <4> QED
        BY <3>1, <4>2 DEF CardAtLast, LastOf
    <3> QED
      BY <3>2, <3>3
  <2> QED
    BY <2>4, <2>5
<1>3. CASE UNCHANGED <<pending, states, published>>
  BY <1>0, <1>3 DEF CardAtLast, LastOf
<1> QED
  BY <1>1, <1>2, <1>3, MailboxSteps

LEMMA OutcomeStep == ASSUME TypeOK, OutcomeAtLast, [Next]_vars PROVE OutcomeAtLast'
<1> SUFFICES ASSUME ~mixed'
             PROVE  /\ \A k \in DOMAIN queue' : ~Direct(queue'[k])
                    /\ at' # "idle" => ~Direct(job')
                    /\ OutcomeKept'
  BY DEF OutcomeAtLast, Direct
<1>1. CASE User
  <2>1. PICK j \in Jobs : Pressed(j)
    BY <1>1, UserSteps
  <2>2. ~mixed /\ ~Direct(j)
    BY <2>1 DEF Pressed, Click, Direct
  <2>3. \A k \in DOMAIN queue' : ~Direct(queue'[k])
    <3>1. queue \in Seq(Jobs) /\ queue' = Append(queue, j)
      BY <2>1 DEF TypeOK, Pressed, Click
    <3>2. \A k \in DOMAIN queue' : k \in DOMAIN queue \/ k = Len(queue) + 1
      BY <3>1, Appended
    <3>3. queue'[Len(queue) + 1] = j /\ \A k \in DOMAIN queue : queue'[k] = queue[k]
      BY <3>1, Appended
    <3> QED
      BY <2>2, <3>2, <3>3 DEF OutcomeAtLast
  <2>4. OutcomeKept' /\ (at' # "idle" => ~Direct(job'))
    <3>1. UNCHANGED <<pending, lastOutcome, latest, at, job>>
      BY <2>1 DEF Pressed, Click, history
    <3> QED
      BY <2>2, <3>1 DEF OutcomeAtLast, OutcomeKept, LastTold, Direct
  <2> QED
    BY <2>3, <2>4
<1>2. CASE Pump
  <2>1. UNCHANGED <<mixed, queue, at, job, latest>> /\ pending' = <<>>
    BY <1>2 DEF Pump, history
  <2>2. lastOutcome' = latest
    <3> DEFINE told == {k \in DOMAIN pending : pending[k].outcome # <<>>}
               last == CHOOSE k \in told : \A l \in told : l <= k
    <3>1. lastOutcome' = IF told = {} THEN lastOutcome ELSE pending[last].outcome[1]
      BY <1>2 DEF Pump
    <3>2. CASE \A k \in DOMAIN pending : pending[k].outcome = <<>>
      BY <2>1, <3>1, <3>2 DEF OutcomeAtLast, OutcomeKept, LastTold
    <3>3. CASE \E k \in DOMAIN pending : pending[k].outcome # <<>>
      <4>1. PICK k \in DOMAIN pending : LastTold(k) /\ pending[k].outcome[1] = latest
        BY <2>1, <3>3 DEF OutcomeAtLast, OutcomeKept
      <4>2. k \in told /\ \A l \in told : l <= k
        BY <4>1 DEF LastTold
      <4>3. told \subseteq Int
        BY DEF TypeOK
      <4>4. last = k
        BY <4>2, <4>3, LastIs
      <4> HIDE DEF last
      <4> QED
        BY <3>1, <4>1, <4>2, <4>4
    <3> QED
      BY <3>2, <3>3
  <2>3. OutcomeKept'
    BY <2>1, <2>2 DEF OutcomeKept
  <2> QED
    BY <2>1, <2>3 DEF OutcomeAtLast, Direct
<1>3. CASE TakeJob
  <2>1. /\ queue # <<>> /\ job' = Head(queue) /\ queue' = Tail(queue) /\ queue \in Seq(Jobs)
        /\ UNCHANGED <<mixed, pending, lastOutcome, latest>>
    BY <1>3 DEF TakeJob, TypeOK, mailbox, render, history
  <2>2. ~Direct(job')
    BY <2>1, Shifted DEF OutcomeAtLast
  <2>3. \A k \in DOMAIN queue' : ~Direct(queue'[k])
    BY <2>1, Shifted DEF OutcomeAtLast
  <2> QED
    BY <2>1, <2>2, <2>3 DEF OutcomeAtLast, OutcomeKept, LastTold
<1>4. CASE Skip \/ Work
  <2>1. UNCHANGED <<mixed, queue, job, pending, lastOutcome, latest>> /\ at # "idle"
    BY <1>4 DEF Skip, Work, service, mailbox, render, history
  <2> QED
    BY <2>1 DEF OutcomeAtLast, OutcomeKept, LastTold, Direct
<1>5. CASE Report
  <2>1. PICK result \in Result : Posted(result)
    BY <1>5, ReportSteps
  <2>2. PICK n : Added(n, result)
    BY <2>1, LastPosted
  <2>3. at # "idle" /\ UNCHANGED <<mixed, queue, job, lastOutcome>>
    BY <2>1 DEF Posted, render
  <2>4. OutcomeKept'
    <3>1. CASE result.outcome # <<>>
      <4>1. latest' = result.outcome[1]
        BY <2>1, <3>1 DEF Posted
      <4>2. LastTold(n)'
        BY <2>2, <3>1 DEF Added, LastTold
      <4>3. n \in DOMAIN pending' /\ pending'[n].outcome[1] = latest'
        BY <2>2, <4>1 DEF Added
      <4> QED
        BY <4>2, <4>3 DEF OutcomeKept
    <3>2. CASE result.outcome = <<>>
      <4>1. latest' = latest /\ ~mixed
        BY <2>1, <2>3, <3>2 DEF Posted
      <4>2. CASE (\A k \in DOMAIN pending : pending[k].outcome = <<>>) /\ lastOutcome = latest
        BY <2>2, <2>3, <3>2, <4>1, <4>2 DEF Added, OutcomeKept
      <4>3. CASE \E k \in DOMAIN pending : LastTold(k) /\ pending[k].outcome[1] = latest
        <5>1. PICK k \in DOMAIN pending : LastTold(k) /\ pending[k].outcome[1] = latest
          BY <4>3
        <5>2. LastTold(k)' /\ k \in DOMAIN pending' /\ pending'[k] = pending[k]
          BY <2>2, <3>2, <5>1 DEF Added, LastTold
        <5> QED
          BY <4>1, <5>1, <5>2 DEF OutcomeKept
      <4> QED
        BY <4>1, <4>2, <4>3 DEF OutcomeAtLast, OutcomeKept
    <3> QED
      BY <3>1, <3>2
  <2> QED
    BY <2>3, <2>4 DEF OutcomeAtLast, Direct
<1>6. CASE FinishCatalogJob
  <2>1. UNCHANGED <<mixed, queue, pending>> /\ at' = "idle" /\ at # "idle"
    BY <1>6 DEF FinishCatalogJob, render
  <2>2. job.kind \notin {"profile", "restore-all"}
    BY <2>1 DEF OutcomeAtLast, Direct
  <2>3. UNCHANGED <<lastOutcome, latest>>
    BY <1>6, <2>2 DEF FinishCatalogJob
  <2> QED
    BY <2>1, <2>3 DEF OutcomeAtLast, OutcomeKept, LastTold, Direct
<1>7. CASE FinishPageJob
  <2>1. UNCHANGED <<mixed, queue, pending>> /\ at' = "idle" /\ at # "idle" /\ job.kind = "page"
    BY <1>7 DEF FinishPageJob, render
  <2>2. ~job.tell
    BY <2>1 DEF OutcomeAtLast, Direct
  <2>3. UNCHANGED <<lastOutcome, latest>>
    BY <1>7, <2>2 DEF FinishPageJob
  <2> QED
    BY <2>1, <2>3 DEF OutcomeAtLast, OutcomeKept, LastTold, Direct
<1>8. CASE UNCHANGED vars
  BY <1>8 DEF vars, OutcomeAtLast, OutcomeKept, LastTold, Direct
<1> QED
  BY <1>1, <1>2, <1>3, <1>4, <1>5, <1>6, <1>7, <1>8 DEF Next, Worker
-----------------------------------------------------------------------------
(* The job.                                                                *)

(* Leaving an optimization behind that has been dealt with.                *)
LEMMA WorkAdvanced ==
    ASSUME TypeOK, WorkDone, at \in {"work", "report"}, SeenTo(Cur), Advance,
           UNCHANGED <<backup, job, failures>>
    PROVE  WorkDone'
<1> SUFFICES ASSUME job.kind \in {"profile", "restore-all"}
             PROVE  /\ \A k \in DOMAIN job.ids : Among(job.ids[k], todo') \/ SeenTo(job.ids[k])'
                    /\ job.kind = "profile" => todo' \in Seq(Id \ Manual)
  BY DEF WorkDone, Advance, SeenTo, Among
<1>1. todo # <<>> /\ todo \in Seq(Id) /\ todo' = Tail(todo)
  BY DEF TypeOK, Advance
<1>2. ASSUME NEW k \in DOMAIN job.ids PROVE Among(job.ids[k], todo') \/ SeenTo(job.ids[k])'
  <2>1. Among(job.ids[k], todo) \/ SeenTo(job.ids[k])
    BY DEF WorkDone
  <2>2. \A x : SeenTo(x) => SeenTo(x)'
    BY DEF SeenTo
  <2>3. job.ids[k] = Cur => SeenTo(job.ids[k])
    OBVIOUS
  <2>4. Among(job.ids[k], todo) /\ job.ids[k] # Cur => Among(job.ids[k], todo')
    BY <1>1, AmongTail DEF Cur
  <2> QED
    BY <2>1, <2>2, <2>3, <2>4
<1>3. job.kind = "profile" => todo' \in Seq(Id \ Manual)
  <2>1. job.kind = "profile" => todo \in Seq(Id \ Manual)
    BY DEF WorkDone
  <2> QED
    BY <1>1, <2>1, Shifted
<1> QED
  BY <1>2, <1>3

LEMMA WorkDoneStep == ASSUME TypeOK, WorkDone, [Next]_vars PROVE WorkDone'
<1>1. CASE TakeJob
  <2>1. job' \in Jobs /\ todo' = job'.ids /\ at' # "report"
    BY <1>1, Shifted DEF TakeJob, TypeOK
  <2>2. \A k \in DOMAIN job'.ids : Among(job'.ids[k], todo')
    BY <2>1 DEF Among
  <2>3. job'.kind = "profile" => todo' \in Seq(Id \ Manual)
    BY <2>1, JobKinds DEF WellMade
  <2> QED
    BY <2>1, <2>2, <2>3 DEF WorkDone, Among
<1>2. CASE Skip
  <2>1. at = "work" /\ Advance /\ UNCHANGED <<backup, job, failures>>
    BY <1>2 DEF Skip
  <2>2. SeenTo(Cur)
    BY <1>2 DEF Skip, Skipped, SeenTo
  <2> QED
    BY <2>1, <2>2, WorkAdvanced
<1>3. CASE Report
  <2>1. at = "report" /\ Advance /\ UNCHANGED <<backup, job, failures>>
    BY <1>3 DEF Report, Publish
  <2>2. CASE job.kind \in {"profile", "restore-all"}
    <3>1. SeenTo(Cur)
      BY <2>1, <2>2 DEF WorkDone
    <3> QED
      BY <2>1, <3>1, WorkAdvanced
  <2>3. CASE job.kind \notin {"profile", "restore-all"}
    BY <2>1, <2>3 DEF WorkDone
  <2> QED
    BY <2>2, <2>3
<1>4. CASE Work
  <2>0. Worked
    BY <1>4, WorkSteps
  <2> SUFFICES ASSUME job.kind \in {"profile", "restore-all"}
               PROVE  /\ \A k \in DOMAIN job.ids : Among(job.ids[k], todo)
                                                   \/ SeenTo(job.ids[k])'
                      /\ SeenTo(Cur)'
                      /\ job.kind = "profile" => todo \in Seq(Id \ Manual)
    BY <2>0 DEF Worked, WorkDone, Among
  <2>1. at = "work" /\ UNCHANGED <<job, todo>>
    BY <2>0 DEF Worked
  <2>2. job.kind = "profile" => todo \in Seq(Id \ Manual)
    BY <2>1 DEF WorkDone
  <2>3. todo # <<>> /\ todo \in Seq(Id)
    BY <2>1 DEF TypeOK
  <2>4. job.kind = "profile" => Cur \notin Manual
    BY <2>2, <2>3, Shifted DEF Cur
  <2>5. SeenTo(Cur)'
    <3>1. Cur' = Cur
      BY <2>1 DEF Cur
    <3>2. CASE job.kind = "profile"
      BY <2>0, <2>1, <2>4, <3>1, <3>2 DEF Worked, SeenTo
    <3>3. CASE job.kind = "restore-all"
      BY <2>0, <2>1, <3>1, <3>3 DEF Worked, SeenTo
    <3> QED
      BY <3>2, <3>3
  <2>6. ASSUME NEW x, Among(x, todo) \/ SeenTo(x) PROVE Among(x, todo) \/ SeenTo(x)'
    <3>1. CASE x = Cur
      <4>1. Among(Cur, todo)
        BY <2>3, Shifted DEF Among, Cur
      <4> QED
        BY <3>1, <4>1
    <3>2. CASE x # Cur
      BY <2>0, <2>1, <2>6, <3>2 DEF Worked, SeenTo
    <3> QED
      BY <3>1, <3>2
  <2>7. \A k \in DOMAIN job.ids : Among(job.ids[k], todo) \/ SeenTo(job.ids[k])
    BY <2>1 DEF WorkDone
  <2> QED
    BY <2>1, <2>2, <2>5, <2>6, <2>7
<1>5. CASE FinishCatalogJob \/ FinishPageJob
  BY <1>5 DEF FinishCatalogJob, FinishPageJob, WorkDone
<1>6. CASE User \/ Pump \/ UNCHANGED vars
  <2>1. UNCHANGED <<at, job, todo, failures, backup>>
    BY <1>6, UserSteps DEF Pressed, Click, Pump, vars
  <2> QED
    BY <2>1 DEF WorkDone, SeenTo, Among, Cur
<1> QED
  BY <1>1, <1>2, <1>3, <1>4, <1>5, <1>6 DEF Next, Worker

LEMMA CardTodoStep == ASSUME TypeOK, CardTodo, [Next]_vars PROVE CardTodo'
<1>1. CASE TakeJob
  <2>1. job' \in Jobs /\ todo' = job'.ids
    BY <1>1, Shifted DEF TakeJob, TypeOK
  <2> QED
    BY <2>1, JobKinds DEF CardTodo, WellMade
<1>2. CASE Skip \/ Report
  <2>1. at \in {"work", "report"} /\ Advance /\ job' = job
    BY <1>2 DEF Skip, Report, Publish
  <2>2. todo # <<>> /\ todo' = Tail(todo)
    BY <2>1 DEF TypeOK, Advance
  <2> QED
    BY <2>1, <2>2, One DEF CardTodo
<1>3. CASE Work
  BY <1>3 DEF Work, CardTodo
<1>4. CASE FinishCatalogJob \/ FinishPageJob
  BY <1>4 DEF FinishCatalogJob, FinishPageJob, CardTodo
<1>5. CASE User \/ Pump \/ UNCHANGED vars
  <2>1. UNCHANGED <<at, job, todo>>
    BY <1>5, UserSteps DEF Pressed, Click, Pump, vars
  <2> QED
    BY <2>1 DEF CardTodo
<1> QED
  BY <1>1, <1>2, <1>3, <1>4, <1>5 DEF Next, Worker
-----------------------------------------------------------------------------
(* The flags.                                                              *)

LEMMA JobSets ==
    ASSUME NEW j \in Jobs
    PROVE  /\ j \in {ScanJob} <=> j.kind = "scan"
           /\ \A pg \in Page : j \in OfPage(pg) <=> j.kind = "page" /\ j.of = pg
<1>1. WellMade(j)
  BY JobKinds
<1>2. j \in {ScanJob} <=> j.kind = "scan"
  BY <1>1, ScanJobIs DEF WellMade
<1>3. \A pg \in Page : j \in OfPage(pg) => j.kind = "page" /\ j.of = pg
  BY PageJobs
<1>4. \A pg \in Page : j.kind = "page" /\ j.of = pg => j \in OfPage(pg)
  BY <1>1 DEF WellMade
<1> QED
  BY <1>2, <1>3, <1>4

LEMMA Enqueued ==
    ASSUME TypeOK, NEW J, NEW j \in Jobs, queue' = Append(queue, j), UNCHANGED <<at, job>>
    PROVE  /\ j \notin J /\ AtMostOne(J) => AtMostOne(J)'
           /\ j \notin J => (Present(J)' <=> Present(J))
           /\ j \in J => Present(J)'
           /\ j \in J /\ ~Present(J) => AtMostOne(J)'
<1> DEFINE n == Len(queue) + 1
<1>1. /\ DOMAIN queue' = DOMAIN queue \cup {n} /\ queue'[n] = j
      /\ \A k \in DOMAIN queue : queue'[k] = queue[k]
  BY Appended DEF TypeOK
<1> HIDE DEF n
<1>2. j \notin J /\ AtMostOne(J) => AtMostOne(J)'
  BY <1>1 DEF AtMostOne
<1>3. j \notin J => (Present(J)' <=> Present(J))
  BY <1>1 DEF Present
<1>4. j \in J => Present(J)'
  BY <1>1 DEF Present
<1>5. j \in J /\ ~Present(J) => AtMostOne(J)'
  BY <1>1 DEF Present, AtMostOne
<1> QED
  BY <1>2, <1>3, <1>4, <1>5

LEMMA Taken ==
    ASSUME TypeOK, NEW J, TakeJob
    PROVE  (AtMostOne(J) => AtMostOne(J)') /\ (Present(J)' <=> Present(J))
<1>1. /\ queue # <<>> /\ queue \in Seq(Jobs) /\ job' = Head(queue) /\ queue' = Tail(queue)
      /\ at = "idle" /\ at' # "idle"
  BY DEF TakeJob, TypeOK
<1>2. /\ 1 \in DOMAIN queue /\ queue[1] = job'
      /\ \A k \in DOMAIN queue' : k + 1 \in DOMAIN queue /\ queue'[k] = queue[k + 1]
      /\ \A k \in DOMAIN queue : k # 1 => \E l \in DOMAIN queue' : k = l + 1
      /\ \A k \in DOMAIN queue' : k \in Nat /\ k + 1 # 1
  <2>1. \A k \in DOMAIN queue' : k \in Nat /\ k # 0
    BY <1>1
  <2>2. \A k \in DOMAIN queue' : k \in Nat /\ k + 1 # 1
    BY <2>1
  <2> QED
    BY <1>1, <2>2, Shifted
<1>3. ASSUME AtMostOne(J) PROVE AtMostOne(J)'
  <2>1. ASSUME NEW k \in DOMAIN queue', NEW l \in DOMAIN queue', queue'[k] \in J, queue'[l] \in J
        PROVE  k = l
    <3>1. k + 1 = l + 1
      <4>1. k + 1 \in DOMAIN queue /\ l + 1 \in DOMAIN queue
            /\ queue[k + 1] \in J /\ queue[l + 1] \in J
        BY <1>2, <2>1
      <4> QED
        BY <4>1, <1>3 DEF AtMostOne
    <3> QED
      BY <1>2, <3>1
  <2>2. ASSUME job' \in J, NEW k \in DOMAIN queue' PROVE queue'[k] \notin J
    BY <1>2, <1>3, <2>2 DEF AtMostOne
  <2> QED
    BY <2>1, <2>2 DEF AtMostOne
<1>4. Present(J)' <=> Present(J)
  BY <1>1, <1>2 DEF Present
<1> QED
  BY <1>3, <1>4

LEMMA Kept ==
    ASSUME NEW J, UNCHANGED <<queue, job>>, at = at' \/ (at # "idle" /\ at' # "idle")
    PROVE  (AtMostOne(J) => AtMostOne(J)') /\ (Present(J)' <=> Present(J))
  BY DEF AtMostOne, Present

LEMMA Finished ==
    ASSUME NEW J, UNCHANGED queue, at # "idle", at' = "idle", AtMostOne(J)
    PROVE  AtMostOne(J)' /\ (Present(J)' <=> Present(J) /\ job \notin J)
  BY DEF AtMostOne, Present

LEMMA FlagsStep == ASSUME TypeOK, Flags, [Next]_vars PROVE Flags'
<1> DEFINE ScanFlag == AtMostOne({ScanJob}) /\ (scanning <=> Present({ScanJob}))
           PageFlag(pg) == AtMostOne(OfPage(pg)) /\ (pg \in pageBusy <=> Present(OfPage(pg)))
<1> SUFFICES ScanFlag' /\ \A pg \in Page : PageFlag(pg)'
  BY DEF Flags
<1>0. ScanFlag /\ \A pg \in Page : PageFlag(pg)
  BY DEF Flags
<1>1. CASE User
  <2>1. PICK j \in Jobs : Pressed(j)
    BY <1>1, UserSteps
  <2>2. queue' = Append(queue, j) /\ UNCHANGED <<at, job>>
    BY <2>1 DEF Pressed, Click
  <2>3. /\ j \in {ScanJob} => ~scanning /\ scanning'
        /\ j \notin {ScanJob} => scanning' = scanning
    BY <2>1, JobSets DEF Pressed
  <2>4. ScanFlag'
    <3>1. /\ j \notin {ScanJob} /\ AtMostOne({ScanJob}) => AtMostOne({ScanJob})'
          /\ j \notin {ScanJob} => (Present({ScanJob})' <=> Present({ScanJob}))
          /\ j \in {ScanJob} => Present({ScanJob})'
          /\ j \in {ScanJob} /\ ~Present({ScanJob}) => AtMostOne({ScanJob})'
      BY <2>2, Enqueued
    <3> QED
      BY <1>0, <2>3, <3>1
  <2>5. ASSUME NEW pg \in Page PROVE PageFlag(pg)'
    <3> DEFINE J == OfPage(pg)
    <3>1. /\ j \in J => pg \notin pageBusy /\ pg \in pageBusy'
          /\ j \notin J => (pg \in pageBusy' <=> pg \in pageBusy)
      <4>1. WellMade(j)
        BY JobKinds
      <4> QED
        BY <2>1, <4>1, JobSets DEF Pressed, WellMade
    <3>2. /\ j \notin J /\ AtMostOne(J) => AtMostOne(J)'
          /\ j \notin J => (Present(J)' <=> Present(J))
          /\ j \in J => Present(J)'
          /\ j \in J /\ ~Present(J) => AtMostOne(J)'
      BY <2>2, Enqueued
    <3> QED
      BY <1>0, <3>1, <3>2
  <2> QED
    BY <2>4, <2>5
<1>2. CASE TakeJob
  <2>1. UNCHANGED <<scanning, pageBusy>>
    BY <1>2 DEF TakeJob, flags
  <2>2. AtMostOne({ScanJob})' /\ (Present({ScanJob})' <=> Present({ScanJob}))
    BY <1>0, <1>2, Taken
  <2>3. \A pg \in Page : AtMostOne(OfPage(pg))' /\ (Present(OfPage(pg))' <=> Present(OfPage(pg)))
    BY <1>0, <1>2, Taken
  <2> QED
    BY <1>0, <2>1, <2>2, <2>3
<1>3. CASE Pump \/ Skip \/ Work \/ Report \/ UNCHANGED vars
  <2>1. /\ UNCHANGED <<queue, job, scanning, pageBusy>>
        /\ at = at' \/ (at # "idle" /\ at' # "idle")
    BY <1>3 DEF Pump, Skip, Work, Report, Publish, Advance, vars, flags, service, render
  <2>2. AtMostOne({ScanJob})' /\ (Present({ScanJob})' <=> Present({ScanJob}))
    BY <1>0, <2>1, Kept
  <2>3. \A pg \in Page : AtMostOne(OfPage(pg))' /\ (Present(OfPage(pg))' <=> Present(OfPage(pg)))
    BY <1>0, <2>1, Kept
  <2> QED
    BY <1>0, <2>1, <2>2, <2>3
<1>4. CASE FinishCatalogJob \/ FinishPageJob
  <2>1. UNCHANGED queue /\ at # "idle" /\ at' = "idle" /\ job \in Jobs
    BY <1>4 DEF FinishCatalogJob, FinishPageJob, TypeOK
  <2>2. /\ scanning' <=> scanning /\ job \notin {ScanJob}
        /\ \A pg \in Page : pg \in pageBusy' <=> pg \in pageBusy /\ job \notin OfPage(pg)
    <3>1. CASE FinishCatalogJob
      BY <2>1, <3>1, JobSets DEF FinishCatalogJob, TypeOK
    <3>2. CASE FinishPageJob
      BY <2>1, <3>2, JobSets DEF FinishPageJob
    <3> QED
      BY <1>4, <3>1, <3>2
  <2>3. AtMostOne({ScanJob})'
        /\ (Present({ScanJob})' <=> Present({ScanJob}) /\ job \notin {ScanJob})
    BY <1>0, <2>1, Finished
  <2>4. \A pg \in Page : AtMostOne(OfPage(pg))'
           /\ (Present(OfPage(pg))' <=> Present(OfPage(pg)) /\ job \notin OfPage(pg))
    BY <1>0, <2>1, Finished
  <2> QED
    BY <1>0, <2>2, <2>3, <2>4
<1> QED
  BY <1>1, <1>2, <1>3, <1>4 DEF Next, Worker

LEMMA BusyStep == ASSUME TypeOK, CardTodo, BusyOwed, [Next]_vars PROVE BusyOwed'
<1> SUFFICES ASSUME NEW id \in busy' PROVE Owed(id)'
  BY DEF BusyOwed
<1>0. id \in busy => Owed(id)
  BY DEF BusyOwed
<1>1. CASE User
  <2>1. PICK j \in Jobs : Pressed(j)
    BY <1>1, UserSteps
  <2>2. /\ queue \in Seq(Jobs) /\ queue' = Append(queue, j)
        /\ UNCHANGED <<at, job, todo, pending>>
    BY <2>1 DEF Pressed, Click, TypeOK
  <2>3. /\ Len(queue) + 1 \in DOMAIN queue' /\ queue'[Len(queue) + 1] = j
        /\ \A k \in DOMAIN queue : k \in DOMAIN queue' /\ queue'[k] = queue[k]
    BY <2>2, Appended
  <2>4. CASE id \in busy
    BY <1>0, <2>2, <2>3, <2>4 DEF Owed
  <2>5. CASE id \notin busy
    <3>1. j \in CardJob(id)
      <4>1. j.kind \in {"apply", "restore"} /\ j.of = id
        BY <2>1, <2>5 DEF Pressed
      <4> QED
        BY <4>1, JobKinds DEF WellMade
    <3> QED
      BY <2>3, <3>1 DEF Owed
  <2> QED
    BY <2>4, <2>5
<1>2. CASE Pump
  <2>1. /\ id \in busy /\ \A k \in DOMAIN pending : pending[k].id = id => ~pending[k].clearBusy
        /\ UNCHANGED <<queue, at, job, todo>>
    BY <1>2 DEF Pump
  <2> QED
    BY <1>0, <2>1 DEF Owed
<1>3. CASE TakeJob
  <2>1. /\ queue \in Seq(Jobs) /\ queue # <<>> /\ job' = Head(queue) /\ queue' = Tail(queue)
        /\ todo' = job'.ids /\ at = "idle" /\ at' # "idle" /\ UNCHANGED <<pending, busy>>
    BY <1>3 DEF TakeJob, TypeOK, mailbox
  <2>2. Owed(id)
    BY <1>0, <2>1
  <2>3. CASE \E k \in DOMAIN queue : queue[k] \in CardJob(id)
    <3>1. PICK k \in DOMAIN queue : queue[k] \in CardJob(id)
      BY <2>3
    <3>2. CASE k = 1
      <4>1. job' \in CardJob(id)
        BY <2>1, <3>1, <3>2, Shifted
      <4>2. todo' # <<>>
        <5>1. id \in Id
          BY <2>1 DEF TypeOK
        <5> QED
          BY <2>1, <4>1, <5>1, CardJobs
      <4> QED
        BY <2>1, <4>1, <4>2 DEF Owed
    <3>3. CASE k # 1
      <4>1. PICK l \in DOMAIN queue' : k = l + 1
        BY <2>1, <3>3, Shifted
      <4>2. queue'[l] = queue[k]
        BY <2>1, <4>1, Shifted
      <4> QED
        BY <3>1, <4>1, <4>2 DEF Owed
    <3> QED
      BY <3>2, <3>3
  <2>4. CASE \A k \in DOMAIN queue : queue[k] \notin CardJob(id)
    BY <2>1, <2>2, <2>4 DEF Owed
  <2> QED
    BY <2>3, <2>4
<1>4. CASE Skip
  <2>1. UNCHANGED <<queue, pending, busy>> /\ job.kind \notin {"apply", "restore"}
    BY <1>4 DEF Skip, Skipped, service, mailbox
  <2>2. id \in Id
    BY <2>1 DEF TypeOK
  <2> QED
    BY <1>0, <2>1, <2>2, CardJobs DEF Owed
<1>5. CASE Work
  BY <1>0, <1>5 DEF Work, service, mailbox, Owed
<1>6. CASE Report
  <2>1. PICK result \in Result : Posted(result)
    BY <1>6, ReportSteps
  <2>2. PICK n : Added(n, result)
    BY <2>1, LastPosted
  <2>3. UNCHANGED <<queue, busy>> /\ at = "report" /\ id \in Id
    BY <2>1 DEF Posted, TypeOK
  <2>4. CASE job \in CardJob(id) /\ todo # <<>>
    <3>1. job.kind \in {"apply", "restore"} /\ job.of = id
      BY <2>3, <2>4, CardJobs
    <3>2. Cur = id
      BY <2>3, <2>4, <3>1, One DEF CardTodo, Cur
    <3>3. result.id = id /\ result.clearBusy /\ result.outcome # <<>>
      BY <2>1, <3>1, <3>2 DEF Posted
    <3> QED
      BY <2>2, <3>3 DEF Added, Owed
  <2>5. CASE \E k \in DOMAIN queue : queue[k] \in CardJob(id)
    BY <2>3, <2>5 DEF Owed
  <2>6. CASE \E k \in DOMAIN pending :
               pending[k].id = id /\ pending[k].clearBusy /\ pending[k].outcome # <<>>
    BY <2>2, <2>6 DEF Added, Owed
  <2> QED
    BY <1>0, <2>3, <2>4, <2>5, <2>6 DEF Owed
<1>7. CASE FinishCatalogJob \/ FinishPageJob
  <2>1. UNCHANGED <<queue, pending, busy>> /\ todo = <<>>
    BY <1>7 DEF FinishCatalogJob, FinishPageJob, TypeOK
  <2> QED
    BY <1>0, <2>1 DEF Owed
<1>8. CASE UNCHANGED vars
  BY <1>0, <1>8 DEF vars, Owed
<1> QED
  BY <1>1, <1>2, <1>3, <1>4, <1>5, <1>6, <1>7, <1>8 DEF Next, Worker

LEMMA BackupFlagStep ==
    ASSUME TypeOK, BackupFlagIsCurrent, [Next]_vars PROVE BackupFlagIsCurrent'
<1> SUFFICES ASSUME NEW id \in Id, published'[id] # "Unknown", ~(at' = "report" /\ Cur' = id)
             PROVE  id \in hasBackup' <=> id \in backup'
  BY DEF BackupFlagIsCurrent
<1>0. published[id] # "Unknown" /\ ~(at = "report" /\ Cur = id) =>
         (id \in hasBackup <=> id \in backup)
  BY DEF BackupFlagIsCurrent
<1>1. CASE User \/ Pump \/ UNCHANGED vars
  <2>1. UNCHANGED <<published, at, todo, hasBackup, backup>>
    BY <1>1, UserSteps DEF Pressed, Click, Pump, vars, flags, history
  <2> QED
    BY <1>0, <2>1 DEF Cur
<1>2. CASE TakeJob \/ Skip \/ FinishCatalogJob
  BY <1>0, <1>2 DEF TakeJob, Skip, FinishCatalogJob, service, flags, history
<1>3. CASE Work
  <2>1. Worked
    BY <1>3, WorkSteps
  <2>2. at # "report" /\ at' = "report" /\ Cur' = Cur /\ UNCHANGED <<published, hasBackup>>
    BY <2>1 DEF Worked, service, flags, history, Cur
  <2>3. id # Cur
    BY <2>2
  <2>4. id \in backup' <=> id \in backup
    BY <2>1, <2>3 DEF Worked
  <2> QED
    BY <1>0, <2>2, <2>4
<1>4. CASE Report
  <2>1. hasBackup' = FlagsNow /\ backup' = backup
        /\ published' = [published EXCEPT ![Cur] = found[1]]
    BY <1>4 DEF Report, Publish
  <2>2. CASE id = Cur
    BY <2>1, <2>2 DEF FlagsNow
  <2>3. CASE id # Cur
    <3>1. published'[id] = published[id]
      BY <2>1, <2>3 DEF TypeOK
    <3>2. id \in hasBackup' <=> id \in hasBackup
      BY <2>1, <2>3 DEF FlagsNow
    <3> QED
      BY <1>0, <2>1, <2>3, <3>1, <3>2
  <2> QED
    BY <2>2, <2>3
<1>5. CASE FinishPageJob
  <2>1. at # "report" /\ UNCHANGED <<published, hasBackup>>
    BY <1>5 DEF FinishPageJob
  <2>2. job.of \in Page
    <3>1. job \in Jobs /\ job.kind = "page"
      BY <1>5 DEF FinishPageJob, TypeOK
    <3> QED
      BY <3>1, JobKinds DEF WellMade
  <2>3. id \in backup' <=> id \in backup
    BY <1>5, <2>2, PageAssumption DEF FinishPageJob
  <2> QED
    BY <1>0, <2>1, <2>3
<1> QED
  BY <1>1, <1>2, <1>3, <1>4, <1>5 DEF Next, Worker
-----------------------------------------------------------------------------
(* The start: the catalog's scan and the reads of the constructor's pages. *)

LEMMA StartQueue ==
    ASSUME Init
    PROVE  /\ queue \in Seq(Jobs) /\ 1 \in DOMAIN queue /\ queue[1] = ScanJob
           /\ \A k \in DOMAIN AtStart : k \in Nat /\ k + 1 \in DOMAIN queue
                                        /\ queue[k + 1] = PageJob(AtStart[k], FALSE)
           /\ \A k \in DOMAIN queue : k # 1 => \E l \in DOMAIN AtStart : k = l + 1
<1> DEFINE pages == [k \in DOMAIN AtStart |-> PageJob(AtStart[k], FALSE)]
<1>1. AtStart \in Seq(Page)
  BY PageAssumption
<1>2. \A k \in DOMAIN AtStart : AtStart[k] \in Page
  BY <1>1
<1>3. \A k \in DOMAIN AtStart : PageJob(AtStart[k], FALSE) \in Jobs
  <2> SUFFICES ASSUME NEW k \in DOMAIN AtStart PROVE PageJob(AtStart[k], FALSE) \in Jobs
    OBVIOUS
  <2>1. PageJob(AtStart[k], FALSE) \in OfPage(AtStart[k])
    BY DEF OfPage
  <2> QED
    BY <1>2, <2>1, PageJobs
<1>4. pages \in Seq(Jobs) /\ DOMAIN pages = 1 .. Len(AtStart) /\ Len(pages) = Len(AtStart)
  <2>1. DOMAIN AtStart = 1 .. Len(AtStart) /\ Len(AtStart) \in Nat
    BY <1>1
  <2>2. pages \in [1 .. Len(AtStart) -> Jobs]
    <3>1. pages \in [DOMAIN AtStart -> Jobs]
      BY ONLY <1>3
    <3> HIDE DEF pages
    <3> QED
      BY ONLY <2>1, <3>1
  <2> HIDE DEF pages
  <2>3. pages \in Seq(Jobs)
    BY ONLY <2>1, <2>2
  <2> QED
    BY ONLY <2>1, <2>2, <2>3
<1>5. <<ScanJob>> \in Seq(Jobs) /\ Len(<<ScanJob>>) = 1 /\ <<ScanJob>>[1] = ScanJob
  BY ScanJobIs
<1>6. \A k \in DOMAIN AtStart : pages[k] = PageJob(AtStart[k], FALSE)
  OBVIOUS
<1>7. queue = <<ScanJob>> \o pages
  BY DEF Init
<1> HIDE DEF pages
<1>8. /\ queue \in Seq(Jobs) /\ Len(queue) = 1 + Len(pages)
      /\ \A i \in 1 .. 1 + Len(pages) :
            queue[i] = IF i <= 1 THEN <<ScanJob>>[i] ELSE pages[i - 1]
  <2> DEFINE scan == <<ScanJob>>
  <2>1. scan \in Seq(Jobs) /\ Len(scan) = 1 /\ queue = scan \o pages
    BY <1>5, <1>7
  <2> HIDE DEF scan
  <2>a. pages \in Seq(Jobs)
    BY <1>4
  <2>2. /\ queue \in Seq(Jobs) /\ Len(queue) = Len(scan) + Len(pages)
        /\ \A i \in 1 .. Len(scan) + Len(pages) :
              queue[i] = IF i <= Len(scan) THEN scan[i] ELSE pages[i - Len(scan)]
    <3>1. /\ scan \o pages \in Seq(Jobs) /\ Len(scan \o pages) = Len(scan) + Len(pages)
          /\ \A i \in 1 .. Len(scan) + Len(pages) :
                (scan \o pages)[i] = IF i <= Len(scan) THEN scan[i] ELSE pages[i - Len(scan)]
      BY ONLY <2>1, <2>a, ConcatProperties, Zenon
    <3> QED
      BY ONLY <2>1, <3>1
  <2>3. /\ queue \in Seq(Jobs) /\ Len(queue) = 1 + Len(pages)
        /\ \A i \in 1 .. 1 + Len(pages) :
              queue[i] = IF i <= 1 THEN scan[i] ELSE pages[i - 1]
    BY <2>1, <2>2
  <2> QED
    BY <2>3 DEF scan
<1>9. DOMAIN queue = 1 .. 1 + Len(AtStart) /\ Len(AtStart) \in Nat
      /\ DOMAIN AtStart = 1 .. Len(AtStart)
  BY <1>1, <1>4, <1>8
<1>10. 1 \in DOMAIN queue /\ queue[1] = ScanJob
  BY <1>4, <1>5, <1>8, <1>9
<1>11. ASSUME NEW k \in DOMAIN AtStart
       PROVE  k \in Nat /\ k + 1 \in DOMAIN queue
              /\ queue[k + 1] = PageJob(AtStart[k], FALSE)
  <2>1. k \in Nat /\ k + 1 \in DOMAIN queue /\ ~(k + 1 <= 1) /\ (k + 1) - 1 = k
    BY <1>9
  <2>2. queue[k + 1] = pages[(k + 1) - 1]
    BY <1>4, <1>8, <1>9, <2>1
  <2> QED
    BY <1>6, <2>1, <2>2
<1>12. ASSUME NEW k \in DOMAIN queue, k # 1 PROVE \E l \in DOMAIN AtStart : k = l + 1
  <2>1. k - 1 \in DOMAIN AtStart /\ k = (k - 1) + 1
    BY <1>9, <1>12
  <2> QED
    BY <2>1
<1> QED
  BY <1>8, <1>10, <1>11, <1>12

LEMMA InitialInv == ASSUME Init PROVE Inv
<1> DEFINE pages == {AtStart[k] : k \in DOMAIN AtStart}
<1>1. \A k \in DOMAIN AtStart : AtStart[k] \in Page
  BY PageAssumption
<1>2. /\ queue \in Seq(Jobs) /\ at = "idle" /\ todo = <<>> /\ pending = <<>> /\ busy = {}
      /\ job = ScanJob /\ found = <<>> /\ failures = {} /\ hasBackup = {} /\ scanning = TRUE
      /\ pageBusy = pages /\ lastOutcome = NoOutcome /\ latest = NoOutcome
      /\ frame = "clicked" /\ requests = 0 /\ mixed = FALSE
      /\ states = [id \in Id |-> "Unknown"] /\ published = [id \in Id |-> "Unknown"]
      /\ backup \subseteq Id \cup Journalled
  BY StartQueue, CatalogAssumption DEF Init
<1>3. TypeOK
  <2>1. NoOutcome \in Outcome
    BY DEF NoOutcome, Outcome, Kind
  <2>2. states \in [Id -> State] /\ published \in [Id -> State]
    BY <1>2 DEF State
  <2>3. todo \in Seq(Id) /\ pending \in Seq(Result)
    BY <1>2
  <2>4. pageBusy \subseteq Page /\ requests \in 0 .. MaxRequests
    BY <1>1, <1>2, MaxRequestsAssumption
  <2>5. job \in Jobs
    BY <1>2, ScanJobIs
  <2> QED
    BY <1>2, <2>1, <2>2, <2>3, <2>4, <2>5 DEF TypeOK
<1>4. LastKnown /\ WorkDone /\ CardTodo /\ BusyOwed
  BY <1>2 DEF LastKnown, WorkDone, CardTodo, BusyOwed
<1>5. CardsAtLast
  BY <1>2 DEF CardsAtLast, CardAtLast
<1>6. OutcomeAtLast
  <2>1. OutcomeKept
    BY <1>2 DEF OutcomeKept
  <2>2. \A pg \in Page : ~Direct(PageJob(pg, FALSE))
    BY DEF Direct, PageJob, Job
  <2>3. ~Direct(ScanJob)
    BY DEF Direct, ScanJob, Job
  <2>4. ASSUME NEW k \in DOMAIN queue PROVE ~Direct(queue[k])
    <3>1. CASE k = 1
      BY <2>3, <3>1, StartQueue
    <3>2. CASE k # 1
      <4>1. PICK l \in DOMAIN AtStart : k = l + 1
        BY <3>2, StartQueue
      <4> QED
        BY <1>1, <2>2, <4>1, StartQueue
    <3> QED
      BY <3>1, <3>2
  <2> QED
    BY <1>2, <2>1, <2>4 DEF OutcomeAtLast
<1>7. Flags
  <2>0. /\ \A k \in DOMAIN queue : queue[k] \in {ScanJob} <=> k = 1
        /\ \A pg \in Page : \A k \in DOMAIN queue :
              queue[k] \in OfPage(pg) => \E l \in DOMAIN AtStart : k = l + 1 /\ AtStart[l] = pg
    <3>1. \A l \in DOMAIN AtStart : queue[l + 1] \in OfPage(AtStart[l])
      BY StartQueue DEF OfPage
    <3>2. ASSUME NEW k \in DOMAIN queue, k # 1
          PROVE  /\ queue[k] \notin {ScanJob}
                 /\ \A pg \in Page : queue[k] \in OfPage(pg) =>
                       \E l \in DOMAIN AtStart : k = l + 1 /\ AtStart[l] = pg
      <4>1. PICK l \in DOMAIN AtStart : k = l + 1
        BY <3>2, StartQueue
      <4>2. queue[k].kind = "page" /\ queue[k].of = AtStart[l]
        BY <1>1, <3>1, <4>1, PageJobs
      <4>3. queue[k] \in Jobs
        BY <1>2
      <4> QED
        BY <4>1, <4>2, <4>3, JobSets, ScanJobIs
    <3>3. queue[1] = ScanJob /\ \A pg \in Page : ScanJob \notin OfPage(pg)
      BY StartQueue, ScanJobIs, JobSets
    <3> QED
      BY <3>2, <3>3
  <2>1. AtMostOne({ScanJob}) /\ Present({ScanJob})
    BY <1>2, <2>0, StartQueue DEF AtMostOne, Present
  <2>2. ASSUME NEW pg \in Page
        PROVE  AtMostOne(OfPage(pg)) /\ (pg \in pageBusy <=> Present(OfPage(pg)))
    <3>1. AtMostOne(OfPage(pg))
      <4>1. ASSUME NEW k \in DOMAIN queue, NEW m \in DOMAIN queue,
                   queue[k] \in OfPage(pg), queue[m] \in OfPage(pg)
            PROVE  k = m
        <5>1. PICK l \in DOMAIN AtStart : k = l + 1 /\ AtStart[l] = pg
          BY <2>0, <4>1
        <5>2. PICK n \in DOMAIN AtStart : m = n + 1 /\ AtStart[n] = pg
          BY <2>0, <4>1
        <5> QED
          BY <5>1, <5>2, PageAssumption
      <4> QED
        BY <1>2, <4>1 DEF AtMostOne
    <3>2. pg \in pageBusy => Present(OfPage(pg))
      <4> SUFFICES ASSUME pg \in pageBusy PROVE Present(OfPage(pg))
        OBVIOUS
      <4>1. PICK l \in DOMAIN AtStart : AtStart[l] = pg
        BY <1>2
      <4>2. l + 1 \in DOMAIN queue /\ queue[l + 1] \in OfPage(pg)
        BY <4>1, StartQueue DEF OfPage
      <4> QED
        BY <4>2 DEF Present
    <3>3. Present(OfPage(pg)) => pg \in pageBusy
      BY <1>2, <2>0 DEF Present
    <3> QED
      BY <3>1, <3>2, <3>3
  <2> QED
    BY <1>2, <2>1, <2>2 DEF Flags
<1>8. BackupFlagIsCurrent
  BY <1>2 DEF BackupFlagIsCurrent
<1> QED
  BY <1>3, <1>4, <1>5, <1>6, <1>7, <1>8 DEF Inv

-----------------------------------------------------------------------------
(* The theorems.                                                           *)

(* The invariant behind all of them.                                       *)
THEOREM Always == Spec => []Inv
<1>1. Init => Inv
  BY InitialInv
<1>2. Inv /\ [Next]_vars => Inv'
  <2> SUFFICES ASSUME Inv, [Next]_vars PROVE Inv'
    OBVIOUS
  <2>1. TypeOK' /\ LastKnown' /\ WorkDone' /\ CardTodo'
    BY TypeStep, LastKnownStep, WorkDoneStep, CardTodoStep DEF Inv
  <2>2. CardsAtLast' /\ OutcomeAtLast' /\ Flags'
    BY CardsStep, OutcomeStep, FlagsStep DEF Inv
  <2>3. BusyOwed' /\ BackupFlagIsCurrent'
    BY BusyStep, BackupFlagStep DEF Inv
  <2> QED
    BY <2>1, <2>2, <2>3 DEF Inv
<1> QED
  BY <1>1, <1>2, PTL DEF Spec

(* Every variable stays in its type (OptimizationService.h).               *)
THEOREM TypeCorrect == Spec => []TypeOK
<1>1. Inv => TypeOK
  BY DEF Inv
<1> QED
  BY <1>1, Always, PTL

(* A card that is busy has its own apply or restore queued, running or     *)
(* answered, so that the next Pump that takes the answer clears it         *)
(* (OptimizationService.cpp ApplyAsync, RestoreAsync and Pump).            *)
THEOREM BusyCardIsOwed == Spec => []BusyIsOwed
<1>1. Inv => BusyIsOwed
  <2> SUFFICES ASSUME Inv, NEW id \in busy PROVE InFlight(id)
    BY DEF BusyIsOwed
  <2>1. Owed(id)
    BY DEF Inv, BusyOwed
  <2>2. CASE \E k \in DOMAIN queue : queue[k] \in CardJob(id)
    BY <2>2 DEF InFlight, Waiting
  <2>3. CASE at # "idle" /\ job \in CardJob(id) /\ todo # <<>>
    BY <2>3 DEF InFlight, Running
  <2>4. CASE \E k \in DOMAIN pending :
               pending[k].id = id /\ pending[k].clearBusy /\ pending[k].outcome # <<>>
    BY <2>4 DEF InFlight, Answered
  <2> QED
    BY <2>1, <2>2, <2>3, <2>4 DEF Owed
<1> QED
  BY <1>1, Always, PTL

(* A set with at most one element has as many as it says.                  *)
LEMMA CountOne ==
    ASSUME NEW S, \A x, y \in S : x = y
    PROVE  Cardinality(S) = IF S = {} THEN 0 ELSE 1
<1>1. CASE S = {}
  BY <1>1, FS_EmptySet
<1>2. CASE S # {}
  <2>1. PICK x \in S : TRUE
    BY <1>2
  <2>2. S = {x}
    BY <2>1
  <2> QED
    BY <1>2, <2>2, FS_Singleton
<1> QED
  BY <1>1, <1>2

(* A scan, and a read or change of a page, is queued or running exactly    *)
(* while its flag is set, and once (RefreshAsync and the pages' async      *)
(* calls in OptimizationService.cpp, started by App's constructor).        *)
THEOREM OneJobForAFlag == Spec => []OneJobPerFlag
<1>1. Inv => OneJobPerFlag
  <2> SUFFICES ASSUME Inv PROVE OneJobPerFlag
    OBVIOUS
  <2>0. Flags /\ scanning \in BOOLEAN
    BY DEF Inv, TypeOK
  <2>1. Cardinality(Waiting(ScanJob)) + (IF Running(ScanJob) THEN 1 ELSE 0)
        = (IF scanning THEN 1 ELSE 0)
    <3> DEFINE W == Waiting(ScanJob)
    <3>1. \A k, l \in W : k = l
      BY <2>0 DEF Flags, AtMostOne, Waiting
    <3>2. Cardinality(W) = IF W = {} THEN 0 ELSE 1
      BY <3>1, CountOne
    <3>3. Running(ScanJob) => W = {}
      BY <2>0 DEF Flags, AtMostOne, Waiting, Running
    <3>4. scanning <=> Running(ScanJob) \/ W # {}
      BY <2>0 DEF Flags, Present, Waiting, Running
    <3> HIDE DEF W
    <3>5. Cardinality(W) + (IF Running(ScanJob) THEN 1 ELSE 0) = (IF scanning THEN 1 ELSE 0)
      BY <3>2, <3>3, <3>4
    <3> QED
      BY <3>5 DEF W
  <2>2. ASSUME NEW pg \in Page
        PROVE  Cardinality(UNION {Waiting(PageJob(pg, c)) : c \in BOOLEAN})
               + (IF \E c \in BOOLEAN : Running(PageJob(pg, c)) THEN 1 ELSE 0)
               = (IF pg \in pageBusy THEN 1 ELSE 0)
    <3> DEFINE W == UNION {Waiting(PageJob(pg, c)) : c \in BOOLEAN}
               R == \E c \in BOOLEAN : Running(PageJob(pg, c))
    <3>0. AtMostOne(OfPage(pg)) /\ (pg \in pageBusy <=> Present(OfPage(pg)))
      BY <2>0 DEF Flags
    <3>a. W = {k \in DOMAIN queue : queue[k] \in OfPage(pg)}
      BY DEF Waiting, OfPage
    <3>b. R <=> at # "idle" /\ job \in OfPage(pg)
      BY DEF Running, OfPage
    <3> HIDE DEF W, R
    <3>1. \A k, l \in W : k = l
      BY <3>0, <3>a DEF AtMostOne
    <3>2. Cardinality(W) = IF W = {} THEN 0 ELSE 1
      BY <3>1, CountOne
    <3>3. R => W = {}
      BY <3>0, <3>a, <3>b DEF AtMostOne
    <3>4. pg \in pageBusy <=> R \/ W # {}
      BY <3>0, <3>a, <3>b DEF Present
    <3>5. Cardinality(W) + (IF R THEN 1 ELSE 0) = (IF pg \in pageBusy THEN 1 ELSE 0)
      BY <3>2, <3>3, <3>4
    <3> QED
      BY <3>5 DEF W, R
  <2> QED
    BY <2>1, <2>2 DEF OneJobPerFlag
<1> QED
  BY <1>1, Always, PTL

(* With an empty mailbox the cards show what the worker found last         *)
(* (OptimizationService.cpp Pump and PublishState).                        *)
THEOREM CardsShowTheLatest == Spec => []CardsCatchUp
<1>1. Inv => CardsCatchUp
  <2> SUFFICES ASSUME Inv, pending = <<>> PROVE states = published
    BY DEF CardsCatchUp
  <2>1. \A id \in Id : states[id] = published[id]
    BY DEF Inv, CardsAtLast, CardAtLast
  <2> QED
    BY <2>1 DEF Inv, TypeOK
<1> QED
  BY <1>1, Always, PTL

(* While only cards are used the status line shows the operation that      *)
(* ended last (OptimizationService.cpp Pump).                              *)
THEOREM OutcomesInOrder == Spec => []CardOutcomesInOrder
<1>1. Inv => CardOutcomesInOrder
  BY DEF Inv, OutcomeAtLast, OutcomeKept, CardOutcomesInOrder
<1> QED
  BY <1>1, Always, PTL

(* The Restore button's flag is the journal's, whichever jobs ran          *)
(* (OptimizationService.cpp PublishState and HasBackup).                   *)
THEOREM BackupFlagStaysCurrent == Spec => []BackupFlagIsCurrent
<1>1. Inv => BackupFlagIsCurrent
  BY DEF Inv
<1> QED
  BY <1>1, Always, PTL

(* A profile that ended without a failure has every member of it that this *)
(* machine supports in the journal (OptimizationService.cpp                *)
(* ApplyProfileAsync).                                                     *)
THEOREM ProfileCanBeRestored == Spec => []ProfileIsRestorable
<1>1. Inv => ProfileIsRestorable
  <2> SUFFICES ASSUME Inv, at = "finish", job.kind = "profile", failures = {},
                      NEW k \in DOMAIN job.ids, job.ids[k] \in Supported
               PROVE  job.ids[k] \in backup
    BY DEF ProfileIsRestorable
  <2>1. todo = <<>>
    BY DEF Inv, TypeOK
  <2>2. Among(job.ids[k], todo) \/ SeenTo(job.ids[k])
    BY DEF Inv, WorkDone
  <2> QED
    BY <2>1, <2>2 DEF Among, SeenTo
<1> QED
  BY <1>1, Always, PTL

(* A restore of everything that ended without a failure leaves nothing of  *)
(* the catalog in the journal (OptimizationService.cpp                     *)
(* RestoreEverythingAsync).                                                *)
THEOREM EverythingIsRestored == Spec => []CatalogAllRestored
<1>1. Inv => CatalogAllRestored
  <2> SUFFICES ASSUME Inv, at = "finish", job.kind = "restore-all", failures = {},
                      NEW id \in Id
               PROVE  id \notin backup
    BY DEF CatalogAllRestored
  <2>1. todo = <<>> /\ job \in Jobs
    BY DEF Inv, TypeOK
  <2>2. job.ids = Catalog
    BY <2>1, JobKinds DEF WellMade
  <2>3. PICK k \in DOMAIN job.ids : job.ids[k] = id
    BY <2>2, CatalogAssumption
  <2>4. Among(job.ids[k], todo) \/ SeenTo(job.ids[k])
    BY DEF Inv, WorkDone
  <2> QED
    BY <2>1, <2>3, <2>4 DEF Among, SeenTo
<1> QED
  BY <1>1, Always, PTL
=============================================================================
