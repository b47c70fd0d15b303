# Nasaki Client in TLA+

Specifications of the Nasaki Client (a Windows C++ program that tunes Windows
settings, keeps a journal so that they can be put back, and runs play sessions
against a server), with the configurations that check them with TLC and proofs
that TLAPS checks. Paths below are relative to the repository root; comments in
the modules name the C++ files they translate.

## 1. Inventory

Two threads run the program: the render thread (window loop, `App::Update`,
`App::Draw`, every button) and one worker thread (`ApiWorker`). Everything slow
is a job on the worker's queue; answers come back in mailboxes, each behind a
mutex, that the render thread empties once a frame.

| Component (files) | State | Operations | Talks to | Hard behaviour | What makes it correct |
| --- | --- | --- | --- | --- | --- |
| Worker (`ApiWorker`) | queue, stop flag, mutex, condition variable | Enqueue, Run, destructor | every other component's jobs | the lock-free stop flag, wakeups that come early, late or for nothing | jobs run once, in order; none is left when the destructor returns; the destructor returns |
| Optimization (`optim/RegistryOptimization`, `optim/RegistryValue`) | none of its own: the Windows registry | Read, Apply, Restore | journal, registry | several values per optimization, any call fails, policies that discard writes, other writers | what Nasaki changed can be put back; success is reported only when verified |
| Journal (`optim/BackupStore`) | entries, history, `backups.json` | CaptureIfAbsent, Find, Has, Forget, Save, Load | optimizations, startup and power pages | truncation before writing, ignored results, restarts | an entry is the user's value, stays the first one, and is durable before the write it covers |
| Optimization service (`optim/OptimizationService`) | busy, backup and scanning flags, cached states, mailbox, last outcome | Refresh, Apply, Restore, profiles, restore-all, four pages, Pump | worker, optimizations, `App` | two ways from the worker to the cards, whole-catalog jobs beside single ones | no card stays busy, no job runs twice, the cards show the machine in the end |
| Session (`App`, `ProcessBoost`, `WinTweaks`) | boost phase, starting, active, session id, sample buffer, recorded priorities and scheme | request, countdown, cancel, start, stop, sample, unlink, auto-start | worker, server client | late and lost answers, unlinking and closing at any moment | one boost at a time, put back with what was recorded; samples reach their session |
| Server client (`ApiClient`) | none | RegisterDevice, SessionStart, SendSamples, SessionEnd | server | lost answers, refusals | calls for a session only while it is open |
| License and device (`LicenseStore`, `App`) | the field, the job, the device, `config.json` | type, submit, take the answer, Load, Save, Clear | worker, server client, sessions | the key edited while its answer is on the way; a Save cut short or refused | stored key and token belong together; the next start loads the device of now |
| Startup programs (`optim/StartupEntries`) | Run keys and startup folders | Scan, Remove, Restore | journal | an entry that comes back under the same name | a removed entry comes back as it was |
| Power plans (`optim/PowerPlans`) | the active scheme | Enumerate, Activate, RestoreOriginal | journal; `WinTweaks` writes the same scheme | a session's switch between two of its steps | the scheme recorded is the user's |
| Storage cleanup (`optim/StorageCleanup`) | the files; targets and preview in the service | Analyze, Preview, Clean (of the files, of the recycle bin) | service, journal's history | files that appear, change, age or go between analysis, preview and deletion | only what is old and in its place is deleted, all that was counted and listed, and the report says so |
| Installed applications (`optim/InstalledApps`) | the list in the service | Scan, LaunchUninstaller | service | keys that cannot be opened, duplicates, ids that repeat, a list that is older than the button | no program that was read is lost, none is listed twice |
| Inventory and statistics (`SystemInventory`, `SystemStats`) | counters of the last sample | ReadSystemInventory, Sample | catalog, `App`, sessions | queries that fail; unsigned differences, wrapping, counters not read at one moment | no advice from an answer that was not given; the load is the share of time not idle |
| Game library (`GameLibrary`, `ProcessBoost`) | list, ids of running games | Scan, Launch, FindProcessUnderPath | `App`, worker, process boost | list and ids of different moments; ids given to other processes | the process boosted is the pressed card's game |
| Catalog, profiles (`Catalog`, `Profiles`) | built once from the inventory | BuildCatalog, BuildProfiles, PreviewProfile | service | entries that come and go with the machine | no two entries write one value; a profile names what exists and can be rolled back |
| Manual guides (`ManualGuide`) | none | Apply opens a Settings page | service | | |
| Start with Windows (`Autostart`) | one registry value | IsEnabled, SetEnabled | `App` | | |
| Window loop, widgets, theme (`main`, `UI`, `Theme`) | - | - | `App` | closing; occlusion | |

## 2. Plan

Modules in the order of importance; all of them exist.

1. `RollbackContract` (abstract: what the framework promises) and
   `RegistryOptimization` (optimization, registry, journal, crashes), with
   `RegistryOptimizationProofs`.
2. `JobOrder` (abstract: FIFO that is drained) and `ApiWorker`, with
   `ApiWorkerProofs`.
3. `OptimizationService`: the service on top of an ordered worker, each Apply or
   Restore one step with the results `RegistryOptimization` gives it, with
   `OptimizationServiceProofs`.
4. `Session`: `App`'s session lifecycle with process boost, power scheme, worker
   and server, with `SessionProofs`.
5. `JournalledPages`: startup entries and power plans over one journal, the
   power plans composed with the session's own switch, with
   `JournalledPagesProofs`.
6. `StorageCleanup`: what was counted, what was shown and what the deletion meets,
   with `StorageCleanupProofs`.
7. The parts that share no state with one another: `SystemStats`, `SystemInventory`
   and `Catalog`, with `MachineProofs`; `License`, `InstalledApps` and `Games`, with
   `PagesProofs`; composed for checking in `MCParts`.

Composition: `OptimizationService` uses what `JobOrder` guarantees (its worker
takes jobs in order, one at a time), and its `ApplyResults`/`RestoreResults` are
the results `RegistryOptimization` can reach (`JobsReportTruly` proves that a job
reports and leaves nothing else, `OnlyItsOwnJob` that it changes no other
optimization's entries); `Session` uses the same worker;
`Catalog` is what satisfies the assumption of `RegistryOptimization` that no place
belongs to two optimizations, and that of `OptimizationService` that a profile names
optimizations that can be rolled back (checked by `CatalogFits`, proved for every machine
by `CatalogSuitsFramework`).

## 3. The modules

### RegistryOptimization

One job at a time, as on the worker. `step` is the place in `Apply`
(`capture`, `write`, `verify`) or `Restore` (`putback`, `check`, `forget`), `i`
the loop index, `then` the step after a `Save`, which is two steps: `SaveOpen`
truncates the file, `SaveFlush` writes it. Each step has every way it can fail
and every early return of the code. The three kinds of optimization differ in
one thing the model keeps: whether each value is verified as soon as it is put
back (`Immediate`: the text values, and the SPI setting as the case of one
value) or all are checked after the loop. The environment writes any value at
any time (`OtherWrites`), discards a write that reported success, and kills the
process (`Crash`); it is "down" until it is started again and reads `journal` (`Load`).

Abstracted: a value is a member of a small set or `Absent`; with it, as history,
who wrote it last. The catalog's keys are `Targets`; that no place belongs to
two optimizations is an assumption that `Catalog` checks of the real tables.

Two history variables name the exceptions of the properties, so that they can
be read off: `disturbed` (somebody else wrote a value of the running job while
it ran, which no check can rule out) and `lost` (an entry that was needed is
gone: the places where the process died with a journal that lacked it, or a failed
read was taken for an absent value; both can happen in the code, section 7). The
properties except a place that is in `lost`, and that place only.

### RollbackContract

What the machine holds (`live`), what Nasaki can put back (`record`), what a restart would
find (`saved`), whether the process runs (`up`), and the places for which the promise could
not be kept (`void`). The record of a place is added only where there is none, with the value
that is there and is the user's (`Record`); it is never replaced; it is dropped only where
the value is the user's again (`Settle`). A place is written only with a record, with a value
of Nasaki's or with the recorded one (`Change`, `PutBack`). The end of the process is the
only moment at which a record goes otherwise (`Stop`), and the next start gives exactly what
was saved (`Start`). A place is given up in three ways, each with its condition: the process
ends while Nasaki's value is there and nothing is saved for it; a value that is not the
recorded one is taken for it (`Misjudge`); another part of Nasaki writes it (`Lapse`, for
`Shared` places only). Nothing is promised of a place given up, and every other place keeps
the promise meanwhile (`Adrift`). `RegistryOptimization` implements it with `record <-
entries`, `saved <- journal`, `void <- lost` and no shared place; `JournalledPages` with the
plan shared.

### ApiWorker and JobOrder

Each line of `Run` and of the destructor that another thread can tell apart is
a step: locking, testing the predicate, going to sleep, taking a job, running
it; setting the flag, notifying, joining. `Enqueue`'s critical section is one
step, since it touches the queue only and the worker reads that under the same
mutex; the flag is not under the mutex, so the test and the sleep are two steps.
Spurious wakeups are modelled and get no fairness. `JobOrder` is what the header
comment promises: the jobs executed are a prefix of those submitted, and
destruction comes after the last. `ApiWorker` implements it.

### OptimizationService

`queue` holds jobs as the lambdas capture them: a kind, the card, profile or page,
and the ids to go through. The worker takes a job (`TakeJob`), then for every id
does the work (`Work`: Apply or Restore, then Read, with every result they can
have), publishes the result under the mutex (`Report`: mailbox and backup flag
in one step, as in the code), and finishes (`FinishCatalogJob`,
`FinishPageJob`). The render thread calls `Pump`, then handles at most one click
(`frame`); the conditions under which a button is drawn are guards. `pageBusy`
and `scanning` are the atomic flags that are taken by exchange.

`mixed` marks histories with whole-catalog jobs or page changes: in the code
these clear a busy flag they did not set and write the last outcome past the
mailbox, so `CardOutcomesInOrder` is claimed only without them, and `BusyIsOwed`,
`CardsCatchUp` and `BackupFlagIsCurrent` with them. `BusyIsOwed` says why a card is
never left without its buttons all the same: a busy card has an answer of its own
on the way. `Supported` is fixed for a behaviour, where the code asks Windows each
time; the keys it asks for come with the build and are written by nobody here.

### Session

`frame` is where the render thread is: the two mailboxes, the countdown, the
auto-start and the sampling of `Update`, then one button or none. Timers are
"run out or not". `adjusted` is `g_adjusted` per process, so that a second Begin
before an End would show: the originals are a sequence. The worker's jobs are
records with what the lambda captured; a call's answer is accepted, refused
or lost, and a lost answer has changed the server. History: what reached the
server (`sent`), a call outside an open session (`stray`), a failed switch back
(`stuckPower`).

### JournalledPages

The two pages that change something through the journal without being
optimizations do the same in the same order, so one set of actions models both:
`ReadBefore` (read, capture), `Write`, `Check` (read again, drop the entry after a
restore), `Scan` (the new list, with which every job ends). `StartupManager`'s
place is a value of the Run key and its change a deletion; `PowerPlanManager`'s
place is `Scheme`. They differ where the code does: a missing value is
`ReadFailed`, the plan that is active already is `Ok`; a failed read looks like an
absent value on one page and like no plan on the other (`Reading`); the list of
the programs contains what the journal has and the Run key lacks, and may miss
any live value (the enumeration stops at the first it cannot read).

Beside them the user and other programs write (`OtherWrites`), and the render
thread runs a session's switch (`SessionReads`, `SessionSwitches`,
`SessionEnds`), which remembers a plan in `g_previousScheme` and not in the
journal. `mixed` marks a job on the plan that met a session's switch, running
or left over by a failed switch back; from there on the plan is excepted, and
section 7 says what happens to it. `disturbed` and `misread` are as in
`RegistryOptimization`; crashes and the file are that module's subject. The
module implements `RollbackContract` too, with sessions counted among the others: for
every program always, for the plan until `mixed`.

### StorageCleanup

The worker's three jobs about the storage page (`Analyze`, `Preview`, `Clean`) walk
the temporary directory one file per step (`Visit`, in any order), and a clean
deletes one path in two steps, reading the size (`ReadSize`) and deleting
(`DeleteFile`), as the loop of `Clean` does with `FileSize` and `DeleteFileW`; the recycle
bin is measured, emptied and measured again. A directory whose `FindFirstFileW` fails, or
whose `FindNextFileW` does before the end, drops what it has not listed from the walk, which
goes on and reports nothing (`WalkEndsEarly`; any of the files to come, as the model does not
say which share a directory). Between any two steps other programs write, delete and create
files, fill or empty the bin, and a day passes. The page's buttons are those of the
copy a frame took (`Draw`). A file has an age in days up to the minimum, a size, a
folder, a depth and perhaps a junction before it. A personal folder is only
measured and has no button, so of it the model keeps that nothing deletes there.

History: what the clean deleted and its size (`removed`, `freed`, `unsure`), what the
last analysis counted and nobody touched since (`counted`), what was written after
the walk had come to it (`rewritten`). `counted` loses a file that a directory did not list
to the walk of a clean: such a file is neither deleted nor skipped.

### SystemInventory and Catalog

`SystemInventory` has no state: a machine is a record of the answers Windows gives,
any of which may be `Silent`, and the operators turn it into the inventory field by
field, and the inventory into the catalog's predicates (`LowMemory`, `FewCores`,
`DisplayBelowItsRefresh`, `SystemDriveLowOnSpace`). `Catalog` holds the real tables:
every entry with its id, the registry values or system parameter it writes, and the
advice; the profiles with their ids. A service is constructed on a machine and quits.
Texts are left out.

### SystemStats

The three counters of `GetSystemTimes` are unsigned (`Modulus`), start anywhere and
advance between samples, the idle one independently of the other two, because Windows
does not keep them at one moment. `Sample` is the code's: differences of unsigned
numbers, the division, the clamp; a failed call keeps the old baseline. History: the
true span since the last answered sample.

### InstalledApps

The three Uninstall keys are a function from key and subkey name to contents;
`Scan` filters, sorts by name and id, drops neighbours of the same name and version,
and publishes the list in any order (the code's order is by the size the installer
claims). Any of the entries may stay unread, as a key that cannot be opened, an entry that
cannot, or an enumeration that ends early leave them out without a word (`Entries`). The
page draws a copy; a press carries the id only, and the job looks for the first entry with
it (`Find`). The reading of the keys is one step: a program that changes in the middle of a
scan is one that changes before or after its entry is read.

### Games

The launchers' records and the running processes are the environment. A frame is
`Update` (take the scan's list, forget the ids, look for the processes when the timer
is due or forced) and a `Draw` with at most one click. Paths are abstracted to which
directories a program lies in; `libraryfolders.vdf` may spell the Steam folder in a
way of its own. History: the ids that changed hands since they were read.

### License

The field, the job, the answer, and `config.json` with the two steps of a Save whose
result is ignored; the program ends between any two steps and is started again
(`LoadDevice` is what it then finds). A token is known by the key it was issued for.
History: what the field was changed to during an activation, and whether the last
Save or Clear failed.

### MCParts

`MCParts` instantiates the six parts above, from `StorageCleanup` on, side by side: a
behaviour is one of any of them while the others rest in one initial state, so that their
states add up instead of multiplying.

## 4. Runs

| Run | Instance | What it shows |
| --- | --- | --- |
| `batch` | an optimization of two values beside one of a single value that verifies at once, two data (one and absent), at most one lost entry | every interleaving of failures, other writers and crashes keeps what is changed recoverable; refinement of the contract |
| `own_value` | an optimization of two values, three data | *violated*: BackupStore.h says a backup never records Nasaki's own value; a crash inside Save makes it so |
| `jobs` | four submissions, two job values, the destructor at any time | order, completeness and progress of the worker |
| `destructor` | one submission | *violated*: the destructor's lost wakeup |
| `service` | two optimizations, an unsupported one, a guide, a profile of the first three, the startup page (read at start, in the journal), two presses | flags and jobs agree, outcomes come in order, buttons come back; the cards show the machine and the journal; whole-catalog jobs report truthfully |
| `lifecycle` | two sessions, two tokens, two processes, three samples in batches of two | priorities, power scheme, samples and answers |
| `failed_start` | one session | *violated*: a refused start leaves the boost on |
| `pages` | two programs, two command lines, two plans, sessions without end; symmetry over the programs and over the command lines, of which no property tells one from another and none is about liveness | removals and activations stay recorded, verified and listed; refinement of the contract |
| `readded` | one program, two command lines | *violated*: "Capture the exact original first": a removal keeps the entry of an earlier one, with an older command line |
| `session_plan` | one program, two plans | *violated*: the plan RestoreOriginal goes back to can be the session's own |
| `unlisted` | the five files of `parts`, the page alone | *violated*: StorageCleanup.h says a clean "deletes only what Preview listed"; it deletes a file that became old after the preview |
| `parts` | 1890 machines; counters modulo 5; three Uninstall entries, two of one id, any of them unread; three game records, two directories, two processes; two keys, four activations or restarts; five files (two within reach and symmetric, one behind a junction, one too deep, one personal), a bin of at most one item, lists of one line | catalog and profiles fit on every machine and silence advises nothing; the load is honest; a scan loses no program it read; the pressed game; key and token, and what the next start loads; what a clean deletes is old and in its place, what was counted is deleted or reported as skipped, reports are true |

Why these bounds suffice. Two values make every loop of `RegistryOptimization`
have a first and a last element between which a failure falls, and a second
optimization meets the entries of the first in the same journal; a value that exists
and one that does not are told apart by who wrote them (`by`). The run has no bound on
the number of jobs, failures or crashes; only states in which two entries are lost are not
followed further (`OneEntryLost`), since every property is about the other places and a
place that is lost constrains none of them. In `JournalledPages`, two
programs show that one entry is dropped and not the other, two command lines and
two plans that a recorded value differs from the live one; it has no bound either. In `ApiWorker` a
queue of more than two jobs has the same head and tail behaviour as one of two;
four leaves room for two behind the one that runs. In the service, two
optimizations that can be applied let one member of a profile, or one entry of a restore of
everything, fail where the other succeeds; two presses (`MaxRequests`), beside the reads
that the start has queued, let any two jobs overlap on one card, one of them for the whole
catalog, and let a card be applied and then restored alone or with everything; the theorems
are for any number. In `Session`, two sessions are needed for a late
answer or sample to meet another session, three samples for a full batch and a
remainder. In `StorageCleanup` two files let a list of one line leave one out, one be
rewritten while the other is deleted, and an age of one day is the test's two sides
(`MinimumAge`; every age above it is equal to it for the code); nothing bounds the
number of jobs. A modulus of 5 with spans of at most 2 makes every counter wrap, with the
others and alone. Two entries of one id beside a third make the search by id ambiguous
and not; two changes of processes and library (`MaxEvents`) and one of the Uninstall
keys (`MaxChanges`) fall between any two steps of the page. The machines are all
combinations of the answers at which one of the catalog's predicates changes, with each
failing. `MaxJobs`, `MaxRequests`, `MaxSessions`, `MaxSamples`, `MaxBin`, `MaxStep`,
`MaxSpan`, `MaxTotal`, `MaxChanges`, `MaxEvents` and `MaxLinks` are the bounds; each is a
guard or the range of an input. `MaxDepth` and `MaxItems` are the code's own limits, made
small.

`CHECK_DEADLOCK FALSE` is set where the system may stop: the destroyed worker, the closed
window, the presses of the bound used up, and the bounded changes of `MCParts`.
`RegistryOptimization` and `JournalledPages` always have a next step and are checked for
deadlock.

## 5. Fairness

- `ApiWorker`: weak fairness of the worker's own steps and of the destructor once it
  has begun (the operating system schedules both threads, and a job ends); none
  for submissions, for starting the destructor or for spurious wakeups. That
  `JoinReturnsUnlessMissed` needs its condition is what `destructor` shows.
- `RegistryOptimization`, `JournalledPages`, `StorageCleanup` and the parts have
  safety properties only and no fairness.
- `OptimizationService`: weak fairness of the worker and of Pump, which the window loop
  calls every frame. Nobody has to press a button. The loop skips frames while the
  window is occluded, so liveness is meant for a window that is seen again.
- `Session`: weak fairness of the frame and of the worker; `InsistentSpec` adds a
  user who keeps pressing the stop button (strong fairness of `PressStop`), used only
  to show that even then the boost stays.

## 6. Proofs

`RegistryOptimizationProofs` proves for every catalog, every number of values
and every set of data, from the assumptions named in `RegistryOptimization`
(targets are disjoint and not empty, `Absent` is not a datum, `NoEntry` not an
entry):

- `TypeCorrect`.
- `Invariance`: an inductive strengthening of `RollbackRecorded`,
  `JournalDurable` and `OriginalIsUsers`. The three do not hold by themselves
  through a loop: the invariant adds how far Apply is (`CapturedFirst`: the targets
  before `i` have entries while it captures, all of them while it saves and
  writes, in the journal too if the Save succeeded), how far Restore is
  (`PutBackFirst`: which targets are the user's again, or visibly not what the
  entry says, so that the check will find them), and that the journal on disk, like
  the entries, holds the user's values (`JournalIsUsers`). From it
  `RollbackAlwaysRecorded`, `JournalIsDurable`, `OriginalsAreUsers`.
- `FirstOriginalIsKept`, an action property, from the same invariant.
- `VerificationInvariance`: which targets were checked or verified so far, with the
  history `disturbed`; from it `ForgetsOnlyVerified` and `AppliesOnlyVerified`.
- `JobsReportTruly`: what a job reports and whether it leaves an entry go together
  as the service takes them to. The invariant adds `RestoreMeets`: `restoredAny`
  says exactly whether the loop of a Restore has met an entry.
- `OnlyItsOwnJob`, an action property: while the process runs, an optimization enters
  the journal only at the capture of its own Apply and leaves it only at the
  forgetting of its own Restore; it needs that no place belongs to two optimizations.
- `KeepsContract`: initial states and steps of the framework are initial states and
  steps, or stuttering, of `RollbackContract`, one case per action. A capture records only
  the user's value because of `OriginalIsUsers` and `RollbackRecorded`, and the entries that
  are forgotten are of values that are the user's because of `PutBackFirst`.

`ApiWorkerProofs` proves for every set and number of jobs: `TypeCorrect`,
`RunsInSubmissionOrder` (executed, current and queued jobs are, in this order,
those submitted), `DestructorDrains`, and `KeepsSubmissionOrder`, the safety part
of the refinement of `JobOrder`.

`JournalledPagesProofs` proves for any programs, command lines and plans:
`TypeCorrect`, `ChangesAlwaysRecorded`, `OriginalsAreUsers`, `RemovalsAlwaysListed`,
`ChangesVerified` and `KeepsContract`. The inductive invariant adds to the
properties that a job which writes holds an entry, and a restore the value of that
entry (`JobHasEntry`); that, until they meet, no session holds the plan during a
job on it (`Apart`) and what a session will put back is covered (`PreviousRecorded`);
that a restored value which looks right is the user's, since what Nasaki does to a
program is to delete it (`RestoredIsUsers`, `ProgramCells`); and that only the
program being worked on can be listed wrongly (`RemovedIsListed`,
`ListedHasEntry`). `CheckedIsUsers` is the core: the check that drops an
entry cannot have passed on a failed read.

`OptimizationServiceProofs` proves for any catalog, profiles, pages and number of
presses: `TypeCorrect`, `BusyCardIsOwed`, `OneJobForAFlag`, `CardsShowTheLatest`,
`OutcomesInOrder`, `BackupFlagStaysCurrent`, `ProfileCanBeRestored` and
`EverythingIsRestored`. The inductive invariant `Inv` has to say what the mailbox and
the job under way will still do: the last result of each card in the mailbox, or the
card when there is none, is what was published last (`CardsAtLast`), and so for the
outcomes while no job of another kind is about (`OutcomeAtLast`); every optimization
of a profile or of a restore of everything is still to do or has been dealt with
(`WorkDone`); a card's own job works on that card (`CardTodo`); of the jobs of each
flag at most one is queued or running, and one is exactly if the flag is set
(`Flags`). `LastKnown`, that the results in the mailbox have a last one, is carried
along as a part of the invariant, which is shorter here than an induction over the
sequence. From the assumptions: the pages read at start are different ones and are not
ids of optimizations, and a profile names no guide.

`SessionProofs` proves for any number of sessions, samples and processes:
`TypeCorrect`, `PrioritiesAreRecorded`, `PowerIsRecorded`, `OneStartAtATime`,
`NoCallIsStray` and `SamplesAreConserved`. The invariant is `TypeOK`, `BufferTaken`
(what is in the buffer was taken before), `Recorded` (what is changed has its
original, by phase), `Starts` (a start is queued, or answered and not taken, exactly
while `starting`) and `Calls`: going through the queue in order, each call finds its
session open, which depends on which session the calls before it leave open
(`UsedUpTo`). For `SamplesAreConserved` it is joined by `EmptyOutside` (the buffer is
empty while no session is active: every way out of a session empties it first), and
what the samples in the queue amount to is a sum over a sequence: `QueuedAppend` and
`QueuedTail` say how it changes with a job added or taken. They are proved by
induction, in the form of `SetInduction`: a set of naturals that is closed under
successors is all of them, since one outside it would have a least (`LeastNatural`,
from the library's `WFMin`).

`StorageCleanupProofs` proves for any files, folders, sizes and limits: `TypeCorrect`,
`AnalysisIsCovered`, `OnlyOldTempFilesAreDeleted` and `ReportsAreTrue`. The invariant follows a job through
its walk (`JobAndPhase`, `WalkIsOver`, `NothingDone`), says of what the walk found that it
was old unless rewritten (`FoundAreOld`), of the deletion that the size read
is the one freed (`SizeIsCurrent`), that no file is deleted twice (`DeletedOnce`) and what
the counts of the result are (`Reported`), and of the counted files that they are among
those still to come, found, deleted or skipped (`CountedAreOld`, `Covered`).

`MachineProofs` has two parts. For counters of any width it proves `LoadsArePercentages`
and `LoadIsHonest`, from `BaselineBehind`: the difference modulo `Modulus` of counter and
baseline is the true span, since a span fits into half of the range (`NoWrapAssumption`).
For any set of machines, of which it assumes only that every query has an answer, if a
failed one (`MachineAssumption`), it proves `CatalogAlwaysFits`, `SilenceIsNoAdvice` and
`CatalogSuitsFramework`. The invariant is that catalog and profiles are those built for the
machine (`CatalogInv`); the work is in what the tables are. `BuiltCatalog`: a catalog is
fourteen standard entries and, on a display below its best rate, a fifteenth; each has the
id of its number, writes only values of its number, and is recommended for the reasons
`Advised` names. `BuiltProfiles`: the ids of each profile are those of entries between 1
and 12, each once. Ids and values of different numbers differ, so nothing overlaps.
`MutedIsQuieter`: an inventory with one answer less satisfies no predicate of advice that
the full one does not, but for the graphics', and only a battery that is unknown makes a
laptop. `CatalogSuitsFramework` states of these tables
what `RegistryOptimization` assumes of `Targets` and `OptimizationService` of `Members`, so
that their theorems are about this catalog and not about none.

`PagesProofs` has three. For any keys and any number of activations: `LicenseTypeCorrect`,
`StoredKeyIsTokens` and `DeviceSurvivesRestart`; the invariant adds that at most one
activation is under way and which text the field may hold meanwhile (`OneActivation`,
`FieldHolds`). For any finite Uninstall keys: `AppsTypeCorrect` and
`NoReadProgramIsLost` (whatever stays unread, the list of a scan has a row for every program
that was read, no entry twice and none invented: before the first of a run of equal
neighbours there is no equal one, `UniqueKeepsOne`). For any games, directories
and processes: `IdsMatchCards` (every card has its place among the ids, and an id on a card
is that of a process in its game's directory or in `reused`), which is inductive as it
stands, and `ItsGameIsBoosted` from it.

Every safety and action property that a passing run checks is stated by one of these
theorems, and of the refinement of `JobOrder` its safety part. Only model-checked are the
liveness properties (`EveryJobRuns`, `JoinReturnsUnlessMissed`, `BusyClears`,
`StartAnswered`) and `JobOrder`'s fairness: temporal reasoning under fairness and ENABLED
are beyond the prover. Not proved either is what `Games`' scan returns, whose order is that
of an operator of the library with an operator as its argument; the theorems about the
games hold whatever list it is.

## 7. What the models exhibit

The six *violated* runs are recorded as findings. The models contain, and the
properties therefore name as exceptions, these further behaviours of the code:

- a read that fails during Restore's check is taken for an absent value
  (`ReadBack`, history `lost`);
- the entry of an Apply that failed outlives a change the user makes afterwards, and the
  next Apply keeps it: a restore goes back past that change (`CaptureIfAbsent`;
  `OriginalIsUsers` asks only that the value is one of the user's);
- Save's result is ignored by every caller (`saveOk` in `JournalDurable`);
- whole-catalog jobs clear busy flags they did not set and set the last outcome
  past the mailbox (`mixed`);
- restoring everything goes through the catalog only (`CatalogAllRestored` speaks
  of `Id`, not of journalled pages);
- switching the power scheme back can fail unnoticed (`stuckPower`);
- a program's removal passes its check on a failed read (`misread`);
- a plan activated, or put back, during a session is undone by the session's end, and
  after a RestoreOriginal during a session the end can bring Nasaki's plan back with no
  entry left for it (`mixed`);
- closing the window during a session leaves priorities and power scheme changed, since
  `App` has no destructor of its own (`Close`; the properties of the boost do not speak
  about a closed window);
- a directory that cannot be listed to its end is taken for one with nothing more in it:
  what the analysis counted there is neither deleted by the clean nor reported as skipped
  (`WalkEndsEarly`; `CleanCoversAnalysis` excepts these files);
- a file written between the walk and its deletion is deleted (`rewritten`), and its size
  may be counted as it was (`unsure`);
- a graphics adapter nobody could ask counts as an integrated one, which is a
  recommendation, though `SystemInventory.h` says that nothing is guessed
  (`SilenceAdvisesNothing` excepts `vram`);
- when the idle counter has run ahead of the others the load of an idle machine is shown
  as 100 (`PercentIsHonest` says so);
- a battery of which Windows knows nothing (a flag of 255) counts as a battery, so that a
  desktop may be offered the profile for machines with one, though `docs/OPTIMIZATIONS.md`
  offers it "only ... on machines with a battery" (`SilenceAdvisesNothing` excepts this
  profile);
- a key or an entry that cannot be opened is not on the list of programs, and nothing says so;
- two Uninstall keys with entries of the same id: the uninstaller of the other one may be
  started (`Find`; no run checks which, since nothing tells the code which one is meant);
  entries of the same name and version with another between them both stay on the list;
- a running game's id is not looked for again until the next check, also after the page was
  left and returned to, so an id may have passed to another process (`reused`); a Steam
  folder spelled differently in its own list has its games twice;
- the key stored with a device is the text in the field when the answer arrives
  (`retyped`), and the results of Save and Clear are ignored (`failed`).

## 8. Not modelled

Drawing, theme, fonts and icons, which hold no protocol: the conditions under which a
button exists are guards of the modules' actions. Direct3D. HTTP and JSON encoding (a call
is accepted, refused or lost), the JSON of the device record. `Autostart`: one registry
value written and read. The reading of names (`SystemInfo`, the texts of the inventory), the
matching of process names, the parsing of the launchers' files (kept: what is recorded and
what cannot be read). The journal's history list and its cap of 500, which are only shown.
The probe of a manual guide's current value. The folders that the storage page only
measures. Vendored code. `PROJECT.json` lists every component with its state, and
every hazard with the properties that would show it, or why none does.
