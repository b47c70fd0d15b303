------------------------ MODULE OptimizationService ------------------------
(***************************************************************************)
(* The service between the render loop and the optimizations               *)
(* (src/optim/OptimizationService.cpp). The render thread marks a card     *)
(* busy and enqueues a job; the worker runs the jobs in order (JobOrder)   *)
(* and answers through a mailbox that the render thread empties once a     *)
(* frame, and, for some of what it has to say, directly under the mutex.   *)
(*                                                                         *)
(* What one Apply or Restore does inside is RegistryOptimization's         *)
(* subject; here it is one step with every result it can have.             *)
(***************************************************************************)
EXTENDS Integers, Sequences, FiniteSets

CONSTANTS
    Id,         \* the catalog's optimizations
    Catalog,    \* their order in the catalog
    Supported,  \* those this Windows build has
    Manual,     \* the guides: Apply opens a Settings page and changes nothing
    Profile,
    Members,    \* Members[p]: the optimizations of profile p, in order
    Page,       \* the startup, power, storage and application pages
    Journalled, \* the pages whose changes are kept in the same backup journal
    AtStart,    \* the pages App's constructor reads
    MaxRequests \* bound: how many buttons the user presses

ASSUME CatalogAssumption ==
    /\ Catalog \in Seq(Id) /\ \A id \in Id : \E k \in DOMAIN Catalog : Catalog[k] = id
    /\ Supported \subseteq Id /\ Manual \subseteq Supported
ASSUME ProfileAssumption == Members \in [Profile -> Seq(Id \ Manual)]
ASSUME PageAssumption ==
    /\ AtStart \in Seq(Page) /\ Journalled \subseteq Page /\ Id \cap Page = {}
    /\ \A k, l \in DOMAIN AtStart : AtStart[k] = AtStart[l] => k = l
ASSUME MaxRequestsAssumption == MaxRequests \in Nat

VARIABLES
    backup,     \* the ids and pages with an entry in the backup journal
    queue,      \* the jobs waiting for the worker
    job, at,    \* the job the worker runs, and where it is in it
    todo,       \* the optimizations of the job still to do
    found,      \* the result of the one just done, not yet published
    failures,   \* the optimizations of the job that failed
    pending,    \* m_pending, the mailbox
    states,     \* m_states
    busy,       \* the ids with m_busy set
    hasBackup,  \* the ids with m_hasBackup set
    scanning,   \* m_scanning
    pageBusy,   \* the pages whose busy flag is set
    lastOutcome,\* m_lastOutcome
    frame,      \* the render loop: "pumped" before a click, "clicked" after
    requests,   \* history: buttons pressed
    latest,     \* history: the outcome of the operation that ended last
    published,  \* history: the status last sent for each optimization
    mixed       \* history: a profile, a restore of everything or a page change
                \* was ever asked for

vars == <<backup, queue, job, at, todo, found, failures, pending, states,
          busy, hasBackup, scanning, pageBusy, lastOutcome, frame, requests,
          latest, published, mixed>>

mailbox == <<pending, states, busy, lastOutcome>>
flags == <<hasBackup, scanning, pageBusy>>
history == <<latest, published>>
render == <<frame, requests, mixed>>

State == {"Unknown", "Applied", "NotApplied", "Unsupported", "Failed", "Manual"}
Kind == {"scan", "apply", "restore", "profile", "restore-all", "page"}
Outcome == [kind : Kind, of : Id \cup Profile \cup Page \cup {"all"}, ok : BOOLEAN]
NoOutcome == [kind |-> "scan", of |-> "all", ok |-> TRUE]

Job(kind, of, ids) == [kind |-> kind, of |-> of, ids |-> ids, tell |-> TRUE]
ScanJob == Job("scan", "all", Catalog)
PageJob(pg, changes) == [Job("page", pg, <<>>) EXCEPT !.tell = changes]
Jobs ==
    {ScanJob, Job("restore-all", "all", Catalog)}
    \cup {Job(kind, id, <<id>>) : kind \in {"apply", "restore"}, id \in Id}
    \cup {Job("profile", p, Members[p]) : p \in Profile}
    \cup {PageJob(pg, changes) : pg \in Page, changes \in BOOLEAN}
CardJob(id) == {Job("apply", id, <<id>>), Job("restore", id, <<id>>)}

(* An optimization's result in the mailbox; outcome is <<>> when it carries *)
(* none.                                                                   *)
Result == [id : Id, state : State, clearBusy : BOOLEAN, outcome : {<<>>} \cup {<<o>> : o \in Outcome}]

-----------------------------------------------------------------------------
(* The optimizations, seen from the service.                               *)

(* What the machine holds is not this service's: any program can change it *)
(* between two reads.                                                      *)
Read(id) ==
    CASE id \in Manual -> {"Manual"}
      [] id \notin Supported -> {"Unsupported"}
      [] OTHER -> {"Applied", "NotApplied", "Failed"}

(* Has it an entry afterwards, and did it succeed.                         *)
ApplyResults(id) ==
    LET held == id \in backup
    IN  CASE id \in Manual -> {<<held, ok>> : ok \in BOOLEAN}
          [] id \notin Supported -> {<<held, FALSE>>}
          [] OTHER -> {<<TRUE, TRUE>>, <<TRUE, FALSE>>, <<held, FALSE>>}

RestoreResults(id) ==
    IF id \in Manual \/ id \notin backup THEN {<<id \in backup, FALSE>>}
    ELSE {<<~ok, ok>> : ok \in BOOLEAN}

Results(kind, id) ==
    CASE kind \in {"apply", "profile"} -> ApplyResults(id)
      [] kind \in {"restore", "restore-all"} -> RestoreResults(id)
      [] OTHER -> {<<id \in backup, TRUE>>}

-----------------------------------------------------------------------------
Init ==
    /\ backup \in SUBSET ((Supported \ Manual) \cup Journalled)
    /\ queue = <<ScanJob>> \o [k \in DOMAIN AtStart |-> PageJob(AtStart[k], FALSE)]
    /\ job = ScanJob /\ at = "idle" /\ todo = <<>>
    /\ found = <<>> /\ failures = {}
    /\ pending = <<>>
    /\ states = [id \in Id |-> "Unknown"]
    /\ busy = {} /\ hasBackup = {}
    /\ scanning = TRUE
    /\ pageBusy = {AtStart[k] : k \in DOMAIN AtStart}
    /\ lastOutcome = NoOutcome
    /\ frame = "clicked" /\ requests = 0
    /\ latest = NoOutcome
    /\ published = [id \in Id |-> "Unknown"]
    /\ mixed = FALSE

-----------------------------------------------------------------------------
(* The render thread. A click follows a Pump: one of each in a frame.      *)

Click(j) ==
    /\ frame = "pumped" /\ requests < MaxRequests
    /\ frame' = "clicked" /\ requests' = requests + 1
    /\ mixed' = (mixed \/ j.kind \in {"profile", "restore-all"} \/ (j.kind = "page" /\ j.tell))
    /\ queue' = Append(queue, j)
    /\ UNCHANGED <<backup, job, at, todo, found, failures, history>>

RefreshAsync ==
    /\ ~scanning
    /\ Click(ScanJob)
    /\ scanning' = TRUE
    /\ UNCHANGED <<mailbox, hasBackup, pageBusy>>

(* The card offers Apply, or for a guide the Settings page.                *)
ApplyAsync(id) ==
    /\ id \notin busy
    /\ states[id] \in {"NotApplied", "Failed", "Manual"}
    /\ Click(Job("apply", id, <<id>>))
    /\ busy' = busy \cup {id}
    /\ UNCHANGED <<pending, states, lastOutcome, flags>>

RestoreAsync(id) ==
    /\ id \notin busy
    /\ states[id] = "Applied" /\ id \in hasBackup
    /\ Click(Job("restore", id, <<id>>))
    /\ busy' = busy \cup {id}
    /\ UNCHANGED <<pending, states, lastOutcome, flags>>

(* Offered when some member is neither applied nor unsupported.            *)
ApplyProfileAsync(p) ==
    /\ \E k \in DOMAIN Members[p] : states[Members[p][k]] \notin {"Applied", "Unsupported"}
    /\ Click(Job("profile", p, Members[p]))
    /\ UNCHANGED <<mailbox, flags>>

RestoreEverythingAsync ==
    /\ hasBackup # {}
    /\ Click(Job("restore-all", "all", Catalog))
    /\ UNCHANGED <<mailbox, flags>>

(* Reading a page again, or changing something on it.                      *)
PageAsync(pg, changes) ==
    /\ pg \notin pageBusy
    /\ Click(PageJob(pg, changes))
    /\ pageBusy' = pageBusy \cup {pg}
    /\ UNCHANGED <<mailbox, hasBackup, scanning>>

(* Mutant: the results are taken newest first.                             *)
PumpNewestFirst ==
    /\ states' = [id \in Id |->
           LET mine == {k \in DOMAIN pending : pending[k].id = id}
           IN  IF mine = {} THEN states[id]
               ELSE pending[CHOOSE k \in mine : \A l \in mine : k <= l].state]
    /\ busy' = busy \ {pending[k].id : k \in {l \in DOMAIN pending : pending[l].clearBusy}}
    /\ lastOutcome' = lastOutcome
    /\ pending' = <<>> /\ frame' = "pumped"
    /\ UNCHANGED <<backup, queue, job, at, todo, found, failures, flags, requests, history, mixed>>

(* Once a frame: the results are taken in order, so the last one of an     *)
(* optimization, and the last outcome, stay.                               *)
Pump ==
    LET latestOf(S) == CHOOSE k \in S : \A l \in S : l <= k
        mine(id) == {k \in DOMAIN pending : pending[k].id = id}
        told == {k \in DOMAIN pending : pending[k].outcome # <<>>}
    IN  /\ states' = [id \in Id |-> IF mine(id) = {} THEN states[id]
                                    ELSE pending[latestOf(mine(id))].state]
        /\ busy' = {id \in busy : \A k \in mine(id) : ~pending[k].clearBusy}
        /\ lastOutcome' = IF told = {} THEN lastOutcome ELSE pending[latestOf(told)].outcome[1]
        /\ pending' = <<>> /\ frame' = "pumped"
        /\ UNCHANGED <<backup, queue, job, at, todo, found, failures, flags,
                       requests, history, mixed>>

-----------------------------------------------------------------------------
(* The worker.                                                             *)

service == <<queue, mailbox, flags, render>>

TakeJob ==
    /\ at = "idle" /\ queue # <<>>
    /\ job' = Head(queue) /\ queue' = Tail(queue)
    /\ todo' = Head(queue).ids
    /\ at' = IF Head(queue).ids = <<>> THEN "finish" ELSE "work"
    /\ failures' = {}
    /\ UNCHANGED <<backup, found, mailbox, flags, render, history>>

Cur == Head(todo)

(* A profile leaves out what this machine does not have, a restore of      *)
(* everything what has no backup.                                          *)
Skipped ==
    \/ job.kind = "profile" /\ Cur \notin Supported
    \/ job.kind = "restore-all" /\ Cur \notin backup

Advance == /\ todo' = Tail(todo)
           /\ at' = IF Tail(todo) = <<>> THEN "finish" ELSE "work"

Skip ==
    /\ at = "work" /\ Skipped
    /\ Advance
    /\ UNCHANGED <<backup, job, found, failures, service, history>>

(* Mutant: a failed item is not counted.                                   *)
WorkUncounted ==
    /\ at = "work" /\ ~Skipped
    /\ \E r \in Results(job.kind, Cur) :
          /\ backup' = IF r[1] THEN backup \cup {Cur} ELSE backup \ {Cur}
          /\ \E state \in IF r[2] THEN Read(Cur) ELSE {"Failed"} : found' = <<state, r[2]>>
    /\ at' = "report"
    /\ UNCHANGED <<job, todo, failures, service, history>>

(* Apply, Restore or nothing, and then Read: what the card will show.      *)
Work ==
    /\ at = "work" /\ ~Skipped
    /\ \E r \in Results(job.kind, Cur) :
          /\ backup' = IF r[1] THEN backup \cup {Cur} ELSE backup \ {Cur}
          /\ \E state \in IF r[2] THEN Read(Cur) ELSE {"Failed"} : found' = <<state, r[2]>>
          /\ failures' = IF r[2] THEN failures ELSE failures \cup {Cur}
    /\ at' = "report"
    /\ UNCHANGED <<job, todo, service, history>>

(* Under the mutex: the result goes to the mailbox, the backup flags are   *)
(* set at once. Only a card's own job carries its outcome in the result.   *)
Publish(clear, marked) ==
    /\ at = "report"
    /\ LET single == job.kind \in {"apply", "restore"}
           outcome == [kind |-> job.kind, of |-> job.of, ok |-> found[2]]
       IN  /\ pending' = Append(pending, [id |-> Cur, state |-> found[1], clearBusy |-> clear,
                                outcome |-> IF single THEN <<outcome>> ELSE <<>>])
           /\ latest' = IF single THEN outcome ELSE latest
    /\ hasBackup' = marked
    /\ published' = [published EXCEPT ![Cur] = found[1]]
    /\ found' = <<>>
    /\ Advance
    /\ UNCHANGED <<backup, queue, job, failures, states, busy, lastOutcome, scanning,
                   pageBusy, render>>

FlagsNow == IF Cur \in backup THEN hasBackup \cup {Cur} ELSE hasBackup \ {Cur}

(* Mutant: the backup flag of a card is left to the next start.            *)
ReportWithoutBackup == Publish(job.kind # "scan", hasBackup)

(* Mutant: an apply or restore does not clear the busy flag.               *)
ReportStillBusy == Publish(FALSE, FlagsNow)

(* Only a scan leaves the busy flag alone.                                 *)
Report == Publish(job.kind # "scan", FlagsNow)

(* The outcome of a whole profile, restore or page change is not sent      *)
(* through the mailbox.                                                    *)
Tell(ok) ==
    /\ lastOutcome' = [kind |-> job.kind, of |-> job.of, ok |-> ok]
    /\ latest' = lastOutcome'

FinishCatalogJob ==
    /\ at = "finish" /\ job.kind # "page"
    /\ at' = "idle"
    /\ scanning' = IF job.kind = "scan" THEN FALSE ELSE scanning
    /\ IF job.kind \in {"profile", "restore-all"} THEN Tell(failures = {})
       ELSE UNCHANGED <<lastOutcome, latest>>
    /\ UNCHANGED <<backup, queue, job, todo, found, failures, pending, states, busy,
                   hasBackup, pageBusy, render, published>>

(* Mutant: a page that was only read stays busy.                           *)
FinishPageOnChange ==
    /\ at = "finish" /\ job.kind = "page"
    /\ at' = "idle"
    /\ pageBusy' = IF job.tell THEN pageBusy \ {job.of} ELSE pageBusy
    /\ IF job.tell THEN \E ok \in BOOLEAN : Tell(ok) ELSE UNCHANGED <<lastOutcome, latest>>
    /\ UNCHANGED <<backup, queue, job, todo, found, failures, pending, states, busy,
                   hasBackup, scanning, render, published>>

(* What the page's manager does with the journal is its own subject: an    *)
(* entry can come or go.                                                   *)
FinishPageJob ==
    /\ at = "finish" /\ job.kind = "page"
    /\ at' = "idle"
    /\ pageBusy' = pageBusy \ {job.of}
    /\ \/ job.tell /\ \E ok \in BOOLEAN : Tell(ok)
       \/ ~job.tell /\ UNCHANGED <<lastOutcome, latest>>
    /\ backup' \in IF job.tell /\ job.of \in Journalled
                   THEN {backup \cup {job.of}, backup \ {job.of}} ELSE {backup}
    /\ UNCHANGED <<queue, job, todo, found, failures, pending, states, busy,
                   hasBackup, scanning, render, published>>

-----------------------------------------------------------------------------
User ==
    \/ RefreshAsync \/ RestoreEverythingAsync
    \/ \E id \in Id : ApplyAsync(id) \/ RestoreAsync(id)
    \/ \E p \in Profile : ApplyProfileAsync(p)
    \/ \E pg \in Page, changes \in BOOLEAN : PageAsync(pg, changes)

Worker == TakeJob \/ Skip \/ Work \/ Report \/ FinishCatalogJob \/ FinishPageJob

Next == User \/ Pump \/ Worker

(* The worker thread runs its jobs and the render loop draws its frames;   *)
(* nobody has to press a button.                                           *)
Spec == Init /\ [][Next]_vars /\ WF_vars(Worker) /\ WF_vars(Pump)

-----------------------------------------------------------------------------
(* Properties.                                                             *)

(* Every variable stays in its type, and the worker is at an optimization  *)
(* exactly while one of the job is left.                                   *)
TypeOK ==
    /\ backup \subseteq Id \cup Journalled
    /\ queue \in Seq(Jobs) /\ job \in Jobs
    /\ at \in {"idle", "work", "report", "finish"}
    /\ todo \in Seq(Id) /\ (at \in {"work", "report"} <=> todo # <<>>)
    /\ found \in {<<>>} \cup (State \X BOOLEAN) /\ (at = "report" <=> found # <<>>)
    /\ failures \subseteq Id
    /\ pending \in Seq(Result)
    /\ states \in [Id -> State] /\ published \in [Id -> State]
    /\ busy \subseteq Id /\ hasBackup \subseteq Id
    /\ scanning \in BOOLEAN /\ pageBusy \subseteq Page
    /\ lastOutcome \in Outcome /\ latest \in Outcome
    /\ frame \in {"pumped", "clicked"} /\ requests \in 0 .. MaxRequests
    /\ mixed \in BOOLEAN

Running(j) == at # "idle" /\ job = j
Waiting(j) == {k \in DOMAIN queue : queue[k] = j}
Answered(id) == {k \in DOMAIN pending : pending[k].id = id /\ pending[k].clearBusy}

(* A card's own apply or restore on its way: waiting, running and not yet  *)
(* published, or in the mailbox.                                           *)
InFlight(id) ==
    \/ \E j \in CardJob(id) : Waiting(j) # {} \/ (Running(j) /\ todo # <<>>)
    \/ \E k \in Answered(id) : pending[k].outcome # <<>>

(* A busy card always has an answer on its way that clears it: no sequence *)
(* of profiles, restores and scans leaves a card without its buttons.      *)
BusyIsOwed == \A id \in busy : InFlight(id)

(* A scan, and a read or a change of a page, is on its way exactly while   *)
(* its flag says so, and one at a time.                                    *)
OneJobPerFlag ==
    /\ Cardinality(Waiting(ScanJob)) + (IF Running(ScanJob) THEN 1 ELSE 0)
       = (IF scanning THEN 1 ELSE 0)
    /\ \A pg \in Page :
          Cardinality(UNION {Waiting(PageJob(pg, c)) : c \in BOOLEAN})
          + (IF \E c \in BOOLEAN : Running(PageJob(pg, c)) THEN 1 ELSE 0)
          = (IF pg \in pageBusy THEN 1 ELSE 0)

(* Once the mailbox is empty a card shows the status the worker found      *)
(* last, whichever of its jobs found it.                                   *)
CardsCatchUp == pending = <<>> => states = published

(* The backup flag of a card that was ever reported is that of the journal *)
(* whenever the worker is not at that very optimization, although the flag *)
(* and the card's state travel different ways.                             *)
BackupFlagIsCurrent ==
    \A id \in Id :
        published[id] # "Unknown" /\ ~(at = "report" /\ Cur = id) =>
            (id \in hasBackup <=> id \in backup)

(* A profile that reports no failure can be rolled back as a whole: every  *)
(* member this machine has is in the journal.                              *)
ProfileIsRestorable ==
    at = "finish" /\ job.kind = "profile" /\ failures = {} =>
        \A k \in DOMAIN job.ids : job.ids[k] \in Supported => job.ids[k] \in backup

(* A restore of everything that reports no failure leaves no optimization  *)
(* with a backup.                                                          *)
CatalogAllRestored ==
    at = "finish" /\ job.kind = "restore-all" /\ failures = {} => backup \cap Id = {}

(* While only cards are used, the status line shows the operation that     *)
(* ended last, once the mailbox is empty.                                  *)
CardOutcomesInOrder == ~mixed /\ pending = <<>> => lastOutcome = latest

(* Once the presses stop (their number is bounded), every card, every page *)
(* and the scan gets its buttons back, and keeps them.                     *)
BusyClears == <>[](busy = {} /\ pageBusy = {} /\ ~scanning)

=============================================================================
