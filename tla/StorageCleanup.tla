--------------------------- MODULE StorageCleanup ---------------------------
(***************************************************************************)
(* The storage page: src/optim/StorageCleanup.cpp, its jobs in the service *)
(* (src/optim/OptimizationService.cpp) and its buttons (src/App.cpp). A    *)
(* job of the worker walks the temporary directory file by file and, for a *)
(* clean, deletes file by file, while other programs write and delete the  *)
(* same files and time passes; the buttons on the screen are those of the  *)
(* state a frame copied. Deleting cannot be rolled back, so what a clean   *)
(* deletes has to be what was shown, old, and truly reported. Sizes are    *)
(* small numbers; the recycle bin is a number of items of size one.        *)
(***************************************************************************)
EXTENDS FiniteSets, Integers

CONSTANTS
    File,       \* files of the user's directories
    Folder,     \* f \in File -> the directory it is in
    Depth,      \* f \in File -> how deep below it
    Behind,     \* files behind a reparse point
    Size,       \* sizes a file can have
    MaxBin,     \* bound: items in the recycle bin
    MaxDepth,   \* the depth at which Walk gives up (24)
    MaxItems,   \* lines of a preview (200)
    MinimumAge, \* kMinimumAgeDays (7)
    Gone        \* the file does not exist

(* Days since the last write; 0 for one in the future as well, to which    *)
(* OldEnoughToDelete answers the same.                                     *)
Age == 0..MinimumAge
FileContent == [age : Age, size : Size]
CleanupTarget == {"temp", "bin"}    \* the targets with a button

ASSUME SizeAssumption == Size \subseteq Nat
ASSUME BoundAssumption ==
    /\ MaxBin \in Nat /\ MaxDepth \in Nat /\ MaxItems \in Nat
    /\ MinimumAge \in Nat \ {0}
ASSUME FolderAssumption ==
    /\ IsFiniteSet(File)
    /\ Folder \in [File -> {"temp", "downloads"}]
    /\ Depth \in [File -> Nat]
    /\ Behind \subseteq File
ASSUME GoneAssumption == Gone \notin FileContent /\ Gone \notin File

VARIABLES
    disk,       \* what is in each file
    bin,        \* items in the recycle bin
    job,        \* "none", "analyze", "preview" or "clean"
    target,     \* what the job is about
    phase,      \* where the job is
    pending,    \* files its walk has not come to
    found,      \* deletablePaths of the walk
    current,    \* the path about to be deleted and the size read for it
    result,     \* Error and CleanupResult the job has come to
    targets,    \* m_storageTargets: deletableFileCount of each; -1 before
    preview,    \* m_storagePreview
    recorded,   \* the clean under way is in the journal's history
    frame,      \* the button the last frame drew for each target
    (* history variables *)
    removed,    \* files the clean under way deleted
    freed,      \* their size, or that of the items of the bin
    counted,    \* files the last analysis counted, untouched since, but for
                \* those a directory of the clean's own walk did not list
    rewritten,  \* files others touched since the walk came to them
    unsure      \* a number of the report was read when it was not the true one

disks == <<disk, bin>>
walk == <<pending, found>>
work == <<job, target, phase, walk, current, result, recorded>>
shared == <<targets, preview>>
deeds == <<removed, freed, unsure>>
ghosts == <<deeds, counted, rewritten>>
storageVars == <<disks, work, shared, frame, ghosts>>

NoPath == [file |-> Gone, size |-> 0]
NoPreview == [target |-> "none", lines |-> {}, truncated |-> FALSE]
NoResult == [success |-> TRUE, bytesFreed |-> 0, filesDeleted |-> 0, filesSkipped |-> 0]
NoFrame == [t \in CleanupTarget |-> "none"]

StorageInit ==
    /\ disk \in [File -> FileContent \cup {Gone}] /\ bin \in 0..MaxBin
    /\ job = "none" /\ target = "none" /\ phase = "idle"
    /\ pending = {} /\ found = {} /\ current = NoPath /\ result = NoResult
    /\ targets = [t \in CleanupTarget |-> -1]
    /\ preview = NoPreview /\ recorded = FALSE /\ frame = NoFrame
    /\ removed = {} /\ freed = 0 /\ counted = {} /\ rewritten = {}
    /\ unsure = FALSE

-----------------------------------------------------------------------------
(* Walk: which files it comes to and which of them it collects.            *)

(* Mutant: junctions are followed.                                         *)
ReachesThroughLinks(f) == Folder[f] = "temp" /\ Depth[f] <= MaxDepth

Reaches(f) == Folder[f] = "temp" /\ Depth[f] <= MaxDepth /\ f \notin Behind

OldEnoughToDelete(content) == content.age >= MinimumAge

StartWalk == pending' = {f \in File : Reaches(f)} /\ found' = {}

(* The analysis, and a preview, of no directory when GetTempPath fails.    *)
StartAnalysis == found' = {} /\ pending' \in {{f \in File : Reaches(f)}, {}}

(* Mutant: a clean stops where the list did.                               *)
RoomAsShown(paths) == Cardinality(paths) < MaxItems

(* A preview collects one more than it shows, to know that there are more. *)
Room(paths) == job # "preview" \/ Cardinality(paths) < MaxItems + 1

(* The walk comes to a file, in an order that is the directory's.          *)
Visit(f) ==
    /\ phase \in {"walk", "recount"} /\ f \in pending
    /\ pending' = pending \ {f}
    /\ found' = IF disk[f] # Gone /\ OldEnoughToDelete(disk[f]) /\ Room(found)
                THEN found \cup {f} ELSE found
    /\ rewritten' = rewritten \ {f}
    /\ UNCHANGED <<disks, job, target, phase, current, result, recorded, shared,
                   frame, deeds, counted>>

(* A directory that cannot be listed, or not to its end, is taken for one  *)
(* with no more in it: the walk goes on, and nobody is told. Which files   *)
(* are in one directory is left open.                                      *)
WalkEndsEarly(unlisted) ==
    /\ phase \in {"walk", "recount"} /\ unlisted # {} /\ unlisted \subseteq pending
    /\ pending' = pending \ unlisted
    /\ counted' = IF job = "clean" /\ phase = "walk" THEN counted \ unlisted ELSE counted
    /\ UNCHANGED <<disks, job, target, phase, found, current, result, recorded, shared,
                   frame, deeds, rewritten>>

(* The answer of SHQueryRecycleBin, or a 0 when it fails.                  *)
BinReadings == {bin, 0}

-----------------------------------------------------------------------------
(* The worker takes a job up.                                              *)

Begin ==
    /\ phase = "queued"
    /\ \/ /\ job = "analyze" \/ (job = "preview" /\ target = "temp")
          /\ phase' = "walk" /\ StartAnalysis /\ UNCHANGED result
       \/ /\ job = "clean" /\ target = "temp"
          /\ phase' = "walk" /\ StartWalk /\ UNCHANGED result
       \/ /\ job = "clean" /\ target = "temp"    \* GetTempPath fails
          /\ result' = [result EXCEPT !.success = FALSE]
          /\ phase' = "recount" /\ StartAnalysis
       \/ /\ job # "analyze" /\ target = "bin"
          /\ phase' = IF job = "clean" THEN "measure" ELSE "walk"
          /\ UNCHANGED <<walk, result>>
    /\ UNCHANGED <<disks, job, target, current, recorded, shared, frame, ghosts>>

Walked(kind) == job = kind /\ phase = "walk" /\ pending = {}

(* What the end of a clean leaves of the list.                             *)
PreviewAfter == IF job = "clean" THEN NoPreview ELSE preview

Finish ==
    /\ job' = "none" /\ target' = "none" /\ phase' = "idle"
    /\ pending' = {} /\ found' = {} /\ result' = NoResult
    /\ removed' = {} /\ freed' = 0 /\ unsure' = FALSE /\ recorded' = FALSE
    /\ rewritten' = {}
    /\ UNCHANGED current

(* The end of Analyze: the targets, and with a clean the outcome and no    *)
(* list any more, appear under one lock that also ends m_storageBusy.      *)
PublishTargets ==
    /\ Walked("analyze") \/ (phase = "recount" /\ pending = {})
    /\ \E n \in BinReadings :
          targets' = [t \in CleanupTarget |-> IF t = "bin" THEN n ELSE Cardinality(found)]
    /\ counted' = found \ rewritten
    /\ preview' = PreviewAfter
    /\ Finish
    /\ UNCHANGED <<disks, frame>>

(* The first lines of what was collected; for the bin two sentences, or    *)
(* none when it cannot be queried.                                         *)
PublishPreview ==
    /\ Walked("preview")
    /\ \E lines \in IF target = "temp" THEN SUBSET found ELSE {{}, {"items"}} :
          /\ target = "temp" => Cardinality(lines) =
                IF Cardinality(found) > MaxItems THEN MaxItems ELSE Cardinality(found)
          /\ preview' = [target |-> target, lines |-> lines,
                         truncated |-> target = "temp" /\ Cardinality(found) > MaxItems]
    /\ Finish
    /\ UNCHANGED <<disks, targets, frame, counted>>

-----------------------------------------------------------------------------
(* StorageCleaner::Clean of the temporary files: read the size, then       *)
(* delete or skip.                                                         *)

ReadSize(f) ==
    /\ Walked("clean") /\ current = NoPath /\ f \in found
    /\ \E size \in {IF disk[f] = Gone THEN 0 ELSE disk[f].size, 0} :
          /\ current' = [file |-> f, size |-> size]
          /\ unsure' = (unsure \/ (disk[f] # Gone /\ size # disk[f].size))
    /\ found' = found \ {f}
    /\ UNCHANGED <<disks, job, target, phase, pending, result, recorded, shared, frame,
                   removed, freed, counted, rewritten>>

(* Mutant: the size is added before it is known whether the file goes.     *)
SkipAddingSize(r) == [r EXCEPT !.filesSkipped = @ + 1, !.bytesFreed = @ + current.size]

Skip(r) == [r EXCEPT !.filesSkipped = @ + 1]

(* A file that is gone, in use or protected is skipped.                    *)
DeleteFile ==
    /\ current # NoPath
    /\ current' = NoPath
    /\ \/ /\ disk[current.file] # Gone
          /\ disk' = [disk EXCEPT ![current.file] = Gone]
          /\ result' = [result EXCEPT !.filesDeleted = @ + 1,
                                      !.bytesFreed = @ + current.size]
          /\ removed' = removed \cup {current.file}
          /\ freed' = freed + disk[current.file].size
       \/ /\ result' = Skip(result)
          /\ UNCHANGED <<disk, removed, freed>>
    /\ UNCHANGED <<bin, job, target, phase, walk, recorded, shared, frame, counted,
                   rewritten, unsure>>

(* RecordHistory and Save, whose failure nobody looks at; then Analyze.    *)
RecordClean ==
    /\ \/ Walked("clean") /\ current = NoPath /\ found = {}
       \/ phase = "record"
    /\ recorded' = TRUE
    /\ phase' = "recount" /\ StartAnalysis
    /\ UNCHANGED <<disks, job, target, current, result, shared, frame, ghosts>>

-----------------------------------------------------------------------------
(* Clean of the recycle bin: two queries before it, one after it.          *)

MeasureBin ==
    /\ phase = "measure"
    /\ \E size, items \in BinReadings :
          /\ result' = [result EXCEPT !.bytesFreed = size, !.filesDeleted = items]
          /\ unsure' = (unsure \/ size # bin \/ items # bin)
    /\ phase' = "empty"
    /\ UNCHANGED <<disks, job, target, walk, current, recorded, shared, frame,
                   removed, freed, counted, rewritten>>

(* A failure may leave a part of the items, and is not recorded.           *)
EmptyBin ==
    /\ phase = "empty"
    /\ \/ /\ bin' = 0 /\ phase' = "measured"
          /\ UNCHANGED <<result, walk>>
       \/ /\ bin' \in 0..bin /\ phase' = "recount" /\ StartAnalysis
          /\ result' = [NoResult EXCEPT !.success = FALSE]
    /\ freed' = freed + (bin - bin')
    /\ UNCHANGED <<disk, job, target, current, recorded, shared, frame, removed, unsure,
                   counted, rewritten>>

FreedBytes(before, after) == IF before > after THEN before - after ELSE 0

MeasureAfter ==
    /\ phase = "measured"
    /\ \E after \in BinReadings :
          result' = [result EXCEPT !.bytesFreed = FreedBytes(@, after)]
    /\ phase' = "record"
    /\ UNCHANGED <<disks, job, target, walk, current, recorded, shared, frame, ghosts>>

-----------------------------------------------------------------------------
(* The page. A frame copies the targets and the list and draws from them;  *)
(* a button is pressed on what was drawn. A press while m_storageBusy is   *)
(* set does nothing.                                                       *)

Button(t) == CASE targets[t] <= 0 -> "none"
               [] targets[t] > 0 /\ preview.target = t /\ preview.lines # {} -> "clean"
               [] OTHER -> "preview"

Draw ==
    /\ frame' = [t \in CleanupTarget |-> Button(t)]
    /\ frame' # frame
    /\ UNCHANGED <<disks, work, shared, ghosts>>

Enqueue(kind, t) ==
    /\ job = "none"
    /\ job' = kind /\ target' = t /\ phase' = "queued"
    /\ UNCHANGED <<disks, walk, current, result, recorded, shared, frame, ghosts>>

RefreshStorageAsync == Enqueue("analyze", "none")

RequestStoragePreviewAsync(t) == frame[t] = "preview" /\ Enqueue("preview", t)

CleanStorageAsync(t) == frame[t] = "clean" /\ Enqueue("clean", t)

ClearStoragePreview ==
    /\ \E t \in CleanupTarget : frame[t] = "clean"
    /\ preview' = NoPreview
    /\ UNCHANGED <<disks, work, targets, frame, ghosts>>

-----------------------------------------------------------------------------
(* The others: programs and the user, and time.                            *)

Touch(f, content) ==
    /\ disk[f] # content
    /\ disk' = [disk EXCEPT ![f] = content]
    /\ counted' = counted \ {f}
    /\ rewritten' = IF job = "none" THEN {} ELSE rewritten \cup {f}
    /\ unsure' = (unsure \/ f = current.file)
    /\ UNCHANGED <<bin, work, shared, frame, removed, freed>>

(* Files the walk does not reach are left alone here: nothing depends on   *)
(* them but that they stay.                                                *)
OtherWrites(f) ==
    /\ Reaches(f)
    /\ \E size \in Size : Touch(f, [age |-> 0, size |-> size])

OtherDeletes(f) == Reaches(f) /\ Touch(f, Gone)

OtherBin(n) ==
    /\ n # bin
    /\ bin' = n
    /\ unsure' = (unsure \/ phase \in {"empty", "measured"})
    /\ UNCHANGED <<disk, work, shared, frame, removed, freed, counted, rewritten>>

DayPasses ==
    /\ disk' = [f \in File |-> IF disk[f] # Gone /\ disk[f].age < MinimumAge
                               THEN [disk[f] EXCEPT !.age = @ + 1] ELSE disk[f]]
    /\ disk' # disk
    /\ UNCHANGED <<bin, work, shared, frame, ghosts>>

-----------------------------------------------------------------------------
StorageNext ==
    \/ Begin \/ PublishTargets \/ PublishPreview
    \/ \E unlisted \in SUBSET pending : WalkEndsEarly(unlisted)
    \/ \E f \in File : Visit(f) \/ ReadSize(f) \/ OtherWrites(f) \/ OtherDeletes(f)
    \/ DeleteFile \/ RecordClean \/ MeasureBin \/ EmptyBin \/ MeasureAfter
    \/ Draw \/ RefreshStorageAsync \/ ClearStoragePreview
    \/ \E t \in CleanupTarget : RequestStoragePreviewAsync(t) \/ CleanStorageAsync(t)
    \/ \E n \in 0..MaxBin : OtherBin(n)
    \/ DayPasses

StorageSpec == StorageInit /\ [][StorageNext]_storageVars

-----------------------------------------------------------------------------
Preview == [target : {"temp"}, lines : SUBSET File, truncated : BOOLEAN]
           \cup [target : {"bin", "none"}, lines : SUBSET {"items"}, truncated : BOOLEAN]
Result == [success : BOOLEAN, bytesFreed : Nat, filesDeleted : Nat, filesSkipped : Nat]

(* Every variable has its type.                                            *)
StorageTypeOK ==
    /\ disk \in [File -> FileContent \cup {Gone}] /\ bin \in 0..MaxBin
    /\ job \in {"none", "analyze", "preview", "clean"}
    /\ target \in CleanupTarget \cup {"none"}
    /\ phase \in {"idle", "queued", "walk", "recount", "measure",
                  "empty", "measured", "record"}
    /\ pending \in SUBSET File /\ found \in SUBSET File
    /\ current \in [file : File, size : Nat] \cup {NoPath}
    /\ result \in Result
    /\ targets \in [CleanupTarget -> Nat \cup {-1}]
    /\ preview \in Preview
    /\ recorded \in BOOLEAN
    /\ frame \in [CleanupTarget -> {"none", "preview", "clean"}]
    /\ removed \in SUBSET File /\ freed \in Nat
    /\ counted \in SUBSET File /\ rewritten \in SUBSET File
    /\ unsure \in BOOLEAN

(* "Files younger than this ... are never touched", nor is one of another  *)
(* folder, of a junction's target or below the depth the walk stops at: a  *)
(* file Nasaki deletes is an old file of the temporary directory, unless   *)
(* someone wrote it after the walk had come to it.                         *)
DeletesOldTempFiles ==
    [][\A f \in removed' \ removed :
          /\ Folder[f] = "temp" /\ f \notin Behind /\ Depth[f] <= MaxDepth
          /\ disk[f].age >= MinimumAge \/ f \in rewritten]_storageVars

(* The delete "must cover everything the analysis counted": when a clean   *)
(* is done deleting, each file the page counted that nobody has touched is *)
(* deleted or among those reported as skipped, though both walked the      *)
(* directory on their own; but for files that a directory did not list to  *)
(* the clean's walk, which are neither, and nothing says so.               *)
CleanCoversAnalysis ==
    job = "clean" /\ target = "temp" /\ result.success /\ phase = "recount" =>
        Cardinality(counted \ removed) <= result.filesSkipped

(* The outcome a clean shows says what it did: the files or items deleted  *)
(* and their size, unless a size was read of what someone then changed, or *)
(* could not be read. And the journal has a record of it.                  *)
ReportIsTrue ==
    [][job = "clean" /\ job' = "none" /\ result.success =>
          /\ target = "temp" => result.filesDeleted = Cardinality(removed)
          /\ ~unsure => result.bytesFreed = freed
          /\ recorded]_storageVars

(* StorageCleanup.h says of Clean: "Deletes only what Preview listed".     *)
(* While the list of a preview that had no more to show is the one on the  *)
(* page, a clean deletes no file that is not on it. This does not hold:    *)
(* Clean walks the directory again, and deletes what it finds then.        *)
DeletesWhatPreviewListed ==
    /\ job = "clean" /\ target = "temp"
    /\ preview.target = "temp" /\ preview.lines # {} /\ ~preview.truncated
    => removed \subseteq preview.lines
=============================================================================
