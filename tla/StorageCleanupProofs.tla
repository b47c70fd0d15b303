------------------------ MODULE StorageCleanupProofs ------------------------
(***************************************************************************)
(* Proofs about StorageCleanup, for any files, sizes and bounds and any    *)
(* interleaving with other programs, with the calendar and with the user.  *)
(***************************************************************************)
EXTENDS StorageCleanup, FiniteSetTheorems, TLAPS

(* Which job is in which phase, and that a walk is over before anything is *)
(* deleted.                                                                *)
JobAndPhase ==
    /\ job = "none" <=> phase = "idle"
    /\ job \in {"preview", "clean"} => target \in CleanupTarget
    /\ phase \in {"measure", "empty", "measured", "record"} => job = "clean" /\ target = "bin"
    /\ phase = "recount" => job = "clean"
    /\ job = "clean" /\ phase = "walk" => target = "temp"

Deleting == job = "clean" /\ target = "temp" /\ phase = "walk"

WalkIsOver ==
    /\ phase \notin {"walk", "recount"} => pending = {} /\ found = {}
    /\ current # NoPath => Deleting /\ pending = {} /\ current.file \notin found
    /\ found \cap pending = {}
    /\ job = "preview" /\ target = "bin" => pending = {} /\ found = {}

NothingDone ==
    /\ job # "clean" \/ phase = "queued" =>
          removed = {} /\ freed = 0 /\ result = NoResult /\ ~unsure
    /\ target = "bin" => removed = {}
    /\ job = "clean" /\ phase = "measure" => freed = 0 /\ ~unsure /\ result = NoResult

(* What a walk collected was old when it was found.                        *)
OldOrRewritten(f) ==
    Reaches(f) /\ (f \in rewritten \/ (disk[f] # Gone /\ OldEnoughToDelete(disk[f])))

FoundAreOld ==
    /\ \A f \in pending : Reaches(f)
    /\ \A f \in found : OldOrRewritten(f)
    /\ current # NoPath => OldOrRewritten(current.file)

-----------------------------------------------------------------------------
(* The report.                                                             *)

SizeIsCurrent ==
    current # NoPath /\ ~unsure /\ disk[current.file] # Gone =>
        current.size = disk[current.file].size

DeletedOnce ==
    /\ phase = "walk" /\ pending # {} => removed = {}
    /\ phase = "walk" => found \cap removed = {}
    /\ current # NoPath => current.file \notin removed

Reported ==
    /\ job = "clean" /\ target = "temp" /\ result.success =>
          result.filesDeleted = Cardinality(removed) /\ (~unsure => result.bytesFreed = freed)
    /\ ~unsure /\ phase = "empty" => result.bytesFreed = bin /\ freed = 0
    /\ ~unsure /\ phase = "measured" => result.bytesFreed = freed /\ bin = 0
    /\ ~unsure /\ result.success /\ phase \in {"record", "recount"} => result.bytesFreed = freed
    /\ result.success /\ phase = "recount" => recorded
    /\ phase \in {"empty", "measured", "record"} => result.success

-----------------------------------------------------------------------------
(* The analysis.                                                           *)

CountedAreOld ==
    \A f \in counted : Reaches(f) /\ (f \in removed \/ (disk[f] # Gone /\ OldEnoughToDelete(disk[f])))

(* Of the files the page counted and nobody touched, those that the clean  *)
(* has passed over.                                                        *)
PassedOver == counted \ (removed \cup pending \cup found \cup {current.file})

Covered ==
    /\ Deleting => Cardinality(PassedOver) <= result.filesSkipped
    /\ CleanCoversAnalysis

Inv == /\ StorageTypeOK /\ JobAndPhase /\ WalkIsOver /\ NothingDone /\ FoundAreOld
       /\ SizeIsCurrent /\ DeletedOnce /\ Reported /\ CountedAreOld /\ Covered
-----------------------------------------------------------------------------
(* Found files are finitely many.                                          *)
LEMMA FoundFinite ==
    ASSUME StorageTypeOK PROVE IsFiniteSet(found) /\ Cardinality(found) \in Nat
BY FolderAssumption, FS_Subset, FS_CardinalityType DEF StorageTypeOK

LEMMA TypeStep == Inv /\ [StorageNext]_storageVars => StorageTypeOK'
<1> SUFFICES ASSUME Inv, [StorageNext]_storageVars PROVE StorageTypeOK'
  OBVIOUS
<1> USE BoundAssumption, SizeAssumption, FolderAssumption, GoneAssumption
    DEF Inv, StorageTypeOK, Preview, Result, NoPreview, NoResult, NoPath, NoFrame, FileContent, Age,
        CleanupTarget, disks, walk, work, shared, deeds, ghosts
<1>1. CASE Begin
  <2>1. result' \in Result
    BY <1>1 DEF Begin, Result
  <2>2. pending' \in SUBSET File /\ found' \in SUBSET File
    BY <1>1 DEF Begin, StartWalk, StartAnalysis
  <2>3. phase' \in {"walk", "recount", "measure"}
    BY <1>1 DEF Begin
  <2> QED  BY <1>1, <2>1, <2>2, <2>3 DEF Begin
<1>2. CASE PublishTargets
  <2>1. targets' \in [CleanupTarget -> Nat \cup {-1}]
    <3>1. \A n \in BinReadings : n \in Nat
      BY BoundAssumption DEF BinReadings
    <3> QED  BY <1>2, <3>1, FoundFinite DEF PublishTargets
  <2>2. preview' \in Preview /\ counted' \in SUBSET File
    BY <1>2 DEF PublishTargets, PreviewAfter
  <2>3. result' \in Result /\ freed' \in Nat
    BY <1>2 DEF PublishTargets, Finish
  <2> QED  BY <1>2, <2>1, <2>2, <2>3 DEF PublishTargets, Finish
<1>3. CASE PublishPreview
  <2>1. preview' \in Preview
    <3>1. PICK lines \in IF target = "temp" THEN SUBSET found ELSE {{}, {"items"}} :
             preview' = [target |-> target, lines |-> lines,
                         truncated |-> target = "temp" /\ Cardinality(found) > MaxItems]
      BY <1>3 DEF PublishPreview
    <3>2. CASE target = "temp"
      BY <3>1, <3>2
    <3>3. CASE target = "bin"
      BY <3>1, <3>3
    <3>4. target \in CleanupTarget
      BY <1>3 DEF PublishPreview, Walked, JobAndPhase
    <3> QED  BY <3>2, <3>3, <3>4
  <2>2. result' \in Result /\ freed' \in Nat
    BY <1>3 DEF PublishPreview, Finish
  <2> QED  BY <1>3, <2>1, <2>2 DEF PublishPreview, Finish
<1>4. ASSUME NEW f \in File, Visit(f) PROVE StorageTypeOK'
  BY <1>4 DEF Visit
<1>5. ASSUME NEW f \in File, ReadSize(f) PROVE StorageTypeOK'
  <2>1. \A size \in {IF disk[f] = Gone THEN 0 ELSE disk[f].size, 0} : size \in Nat
    OBVIOUS
  <2>2. current' \in [file : File, size : Nat] /\ unsure' \in BOOLEAN
    BY <1>5, <2>1 DEF ReadSize
  <2> QED  BY <1>5, <2>2 DEF ReadSize
<1>6. ASSUME NEW f \in File, OtherWrites(f) PROVE StorageTypeOK'
  BY <1>6 DEF OtherWrites, Touch
<1>7. ASSUME NEW f \in File, OtherDeletes(f) PROVE StorageTypeOK'
  BY <1>7 DEF OtherDeletes, Touch
<1>8. CASE DeleteFile
  <2>1. CASE current.file \in File /\ current.size \in Nat /\ disk[current.file] # Gone
    <3>1. disk[current.file].size \in Nat
      BY <2>1
    <3>2. result' \in Result
      <4>1. [result EXCEPT !.filesDeleted = @ + 1, !.bytesFreed = @ + current.size] \in Result
        <5>1. result.filesDeleted + 1 \in Nat /\ result.bytesFreed + current.size \in Nat
          BY <2>1
        <5> QED  BY ONLY <5>1, StorageTypeOK DEF StorageTypeOK, Result
      <4>2. Skip(result) \in Result
        BY DEF Skip
      <4> HIDE DEF Result
      <4> QED  BY <1>8, <4>1, <4>2 DEF DeleteFile
    <3>3. disk' \in [File -> FileContent \cup {Gone}]
      BY <1>8 DEF DeleteFile
    <3>4. removed' \in SUBSET File /\ freed' \in Nat /\ current' = NoPath
      BY <1>8, <2>1, <3>1 DEF DeleteFile
    <3> QED  BY <1>8, <3>2, <3>3, <3>4 DEF DeleteFile
  <2>2. CASE disk[current.file] = Gone
    <3>1. result' \in Result
      BY <1>8, <2>2 DEF DeleteFile, Skip
    <3> QED  BY <1>8, <2>2, <3>1 DEF DeleteFile
  <2> QED  BY <1>8, <2>1, <2>2 DEF DeleteFile
<1>9. CASE RecordClean
  BY <1>9 DEF RecordClean, StartAnalysis, Walked
<1>10. CASE MeasureBin
  <2>1. \A n \in BinReadings : n \in Nat
    BY BoundAssumption DEF BinReadings
  <2>2. result' \in Result /\ unsure' \in BOOLEAN
    BY <1>10, <2>1 DEF MeasureBin
  <2> QED  BY <1>10, <2>2 DEF MeasureBin
<1>11. CASE EmptyBin
  <2>1. bin' \in 0..MaxBin /\ bin' \in 0..bin
    BY <1>11 DEF EmptyBin
  <2>2. freed' \in Nat
    BY <1>11, <2>1 DEF EmptyBin
  <2>3. result' \in Result
    <3>1. [NoResult EXCEPT !.success = FALSE] \in Result
      OBVIOUS
    <3> QED  BY <1>11, <3>1 DEF EmptyBin
  <2>4. pending' \in SUBSET File /\ found' \in SUBSET File
    BY <1>11 DEF EmptyBin, StartAnalysis
  <2> QED  BY <1>11, <2>1, <2>2, <2>3, <2>4 DEF EmptyBin
<1>12. CASE MeasureAfter
  BY <1>12 DEF MeasureAfter, BinReadings, FreedBytes
<1>13. CASE Draw
  <2>1. \A t \in CleanupTarget : Button(t) \in {"none", "preview", "clean"}
    BY DEF Button
  <2>2. frame' \in [CleanupTarget -> {"none", "preview", "clean"}]
    BY ONLY <1>13, <2>1 DEF Draw
  <2>3. UNCHANGED <<disks, work, shared, ghosts>>
    BY <1>13 DEF Draw
  <2> QED  BY <2>2, <2>3
<1>14. CASE RefreshStorageAsync
  BY <1>14 DEF RefreshStorageAsync, Enqueue
<1>15. CASE ClearStoragePreview
  BY <1>15 DEF ClearStoragePreview
<1>16. ASSUME NEW t \in CleanupTarget, RequestStoragePreviewAsync(t) PROVE StorageTypeOK'
  BY <1>16 DEF RequestStoragePreviewAsync, Enqueue
<1>17. ASSUME NEW t \in CleanupTarget, CleanStorageAsync(t) PROVE StorageTypeOK'
  BY <1>17 DEF CleanStorageAsync, Enqueue
<1>18. ASSUME NEW n \in 0..MaxBin, OtherBin(n) PROVE StorageTypeOK'
  BY <1>18 DEF OtherBin
<1>19. CASE DayPasses
  BY <1>19 DEF DayPasses
<1>20. CASE UNCHANGED storageVars
  BY <1>20 DEF storageVars
<1>21. ASSUME NEW unlisted \in SUBSET pending, WalkEndsEarly(unlisted) PROVE StorageTypeOK'
  BY <1>21 DEF WalkEndsEarly
<1> QED
  BY <1>1, <1>2, <1>3, <1>4, <1>5, <1>6, <1>7, <1>8, <1>9, <1>10,
     <1>11, <1>12, <1>13, <1>14, <1>15, <1>16, <1>17, <1>18, <1>19, <1>20, <1>21
  DEF StorageNext

LEMMA PhaseStep == Inv /\ [StorageNext]_storageVars => JobAndPhase'
<1> SUFFICES ASSUME Inv, [StorageNext]_storageVars PROVE JobAndPhase'
  OBVIOUS
<1> USE DEF Inv, JobAndPhase, WalkIsOver, CleanupTarget, disks, walk, work, shared, deeds, ghosts
<1>1. CASE Begin
  BY <1>1 DEF Begin, StartWalk, StartAnalysis
<1>2. CASE PublishTargets
  BY <1>2 DEF PublishTargets, Finish, PreviewAfter, Walked
<1>3. CASE PublishPreview
  BY <1>3 DEF PublishPreview, Finish, Walked
<1>4. ASSUME NEW f \in File, Visit(f) PROVE JobAndPhase'
  BY <1>4 DEF Visit
<1>5. ASSUME NEW f \in File, ReadSize(f) PROVE JobAndPhase'
  BY <1>5 DEF ReadSize, Walked
<1>6. ASSUME NEW f \in File, OtherWrites(f) PROVE JobAndPhase'
  BY <1>6 DEF OtherWrites, Touch
<1>7. ASSUME NEW f \in File, OtherDeletes(f) PROVE JobAndPhase'
  BY <1>7 DEF OtherDeletes, Touch
<1>8. CASE DeleteFile
  BY <1>8 DEF DeleteFile, Skip
<1>9. CASE RecordClean
  BY <1>9 DEF RecordClean, StartAnalysis, Walked
<1>10. CASE MeasureBin
  BY <1>10 DEF MeasureBin, BinReadings
<1>11. CASE EmptyBin
  BY <1>11 DEF EmptyBin, StartAnalysis
<1>12. CASE MeasureAfter
  BY <1>12 DEF MeasureAfter, BinReadings, FreedBytes
<1>13. CASE Draw
  BY <1>13 DEF Draw
<1>14. CASE RefreshStorageAsync
  BY <1>14 DEF RefreshStorageAsync, Enqueue
<1>15. CASE ClearStoragePreview
  BY <1>15 DEF ClearStoragePreview
<1>16. ASSUME NEW t \in CleanupTarget, RequestStoragePreviewAsync(t) PROVE JobAndPhase'
  BY <1>16 DEF RequestStoragePreviewAsync, Enqueue
<1>17. ASSUME NEW t \in CleanupTarget, CleanStorageAsync(t) PROVE JobAndPhase'
  BY <1>17 DEF CleanStorageAsync, Enqueue
<1>18. ASSUME NEW n \in 0..MaxBin, OtherBin(n) PROVE JobAndPhase'
  BY <1>18 DEF OtherBin
<1>19. CASE DayPasses
  BY <1>19 DEF DayPasses
<1>20. CASE UNCHANGED storageVars
  BY <1>20 DEF storageVars
<1>21. ASSUME NEW unlisted \in SUBSET pending, WalkEndsEarly(unlisted) PROVE JobAndPhase'
  BY <1>21 DEF WalkEndsEarly
<1> QED
  BY <1>1, <1>2, <1>3, <1>4, <1>5, <1>6, <1>7, <1>8, <1>9, <1>10,
     <1>11, <1>12, <1>13, <1>14, <1>15, <1>16, <1>17, <1>18, <1>19, <1>20, <1>21
  DEF StorageNext

LEMMA WalkStep == Inv /\ [StorageNext]_storageVars => WalkIsOver'
<1> SUFFICES ASSUME Inv, [StorageNext]_storageVars PROVE WalkIsOver'
  OBVIOUS
<1> USE FolderAssumption, GoneAssumption
    DEF Inv, StorageTypeOK, JobAndPhase, WalkIsOver, Deleting, NoPath, disks, walk, work, shared,
        deeds, ghosts
<1>1. CASE Begin
  BY <1>1 DEF Begin, StartWalk, StartAnalysis
<1>2. CASE PublishTargets
  BY <1>2 DEF PublishTargets, Finish, PreviewAfter, Walked
<1>3. CASE PublishPreview
  BY <1>3 DEF PublishPreview, Finish, Walked
<1>4. ASSUME NEW f \in File, Visit(f) PROVE WalkIsOver'
  BY <1>4 DEF Visit
<1>5. ASSUME NEW f \in File, ReadSize(f) PROVE WalkIsOver'
  BY <1>5 DEF ReadSize, Walked
<1>6. ASSUME NEW f \in File, OtherWrites(f) PROVE WalkIsOver'
  BY <1>6 DEF OtherWrites, Touch
<1>7. ASSUME NEW f \in File, OtherDeletes(f) PROVE WalkIsOver'
  BY <1>7 DEF OtherDeletes, Touch
<1>8. CASE DeleteFile
  BY <1>8 DEF DeleteFile, Skip
<1>9. CASE RecordClean
  BY <1>9 DEF RecordClean, StartAnalysis, Walked
<1>10. CASE MeasureBin
  BY <1>10 DEF MeasureBin, BinReadings
<1>11. CASE EmptyBin
  BY <1>11 DEF EmptyBin, StartAnalysis
<1>12. CASE MeasureAfter
  BY <1>12 DEF MeasureAfter, BinReadings, FreedBytes
<1>13. CASE Draw
  BY <1>13 DEF Draw
<1>14. CASE RefreshStorageAsync
  BY <1>14 DEF RefreshStorageAsync, Enqueue
<1>15. CASE ClearStoragePreview
  BY <1>15 DEF ClearStoragePreview
<1>16. ASSUME NEW t \in CleanupTarget, RequestStoragePreviewAsync(t) PROVE WalkIsOver'
  BY <1>16 DEF RequestStoragePreviewAsync, Enqueue
<1>17. ASSUME NEW t \in CleanupTarget, CleanStorageAsync(t) PROVE WalkIsOver'
  BY <1>17 DEF CleanStorageAsync, Enqueue
<1>18. ASSUME NEW n \in 0..MaxBin, OtherBin(n) PROVE WalkIsOver'
  BY <1>18 DEF OtherBin
<1>19. CASE DayPasses
  BY <1>19 DEF DayPasses
<1>20. CASE UNCHANGED storageVars
  BY <1>20 DEF storageVars
<1>21. ASSUME NEW unlisted \in SUBSET pending, WalkEndsEarly(unlisted) PROVE WalkIsOver'
  BY <1>21 DEF WalkEndsEarly
<1> QED
  BY <1>1, <1>2, <1>3, <1>4, <1>5, <1>6, <1>7, <1>8, <1>9, <1>10,
     <1>11, <1>12, <1>13, <1>14, <1>15, <1>16, <1>17, <1>18, <1>19, <1>20, <1>21
  DEF StorageNext

LEMMA NothingStep == Inv /\ [StorageNext]_storageVars => NothingDone'
<1> SUFFICES ASSUME Inv, [StorageNext]_storageVars PROVE NothingDone'
  OBVIOUS
<1> USE GoneAssumption
    DEF Inv, StorageTypeOK, JobAndPhase, WalkIsOver, NothingDone, Deleting, CleanupTarget,
        NoPath, NoResult,
        disks, walk, work, shared, deeds, ghosts
<1>1. CASE Begin
  BY <1>1 DEF Begin, StartWalk, StartAnalysis
<1>2. CASE PublishTargets
  BY <1>2 DEF PublishTargets, Finish, PreviewAfter, Walked
<1>3. CASE PublishPreview
  BY <1>3 DEF PublishPreview, Finish, Walked
<1>4. ASSUME NEW f \in File, Visit(f) PROVE NothingDone'
  BY <1>4 DEF Visit
<1>5. ASSUME NEW f \in File, ReadSize(f) PROVE NothingDone'
  BY <1>5 DEF ReadSize, Walked
<1>6. ASSUME NEW f \in File, OtherWrites(f) PROVE NothingDone'
  BY <1>6 DEF OtherWrites, Touch
<1>7. ASSUME NEW f \in File, OtherDeletes(f) PROVE NothingDone'
  BY <1>7 DEF OtherDeletes, Touch
<1>8. CASE DeleteFile
  BY <1>8 DEF DeleteFile, Skip
<1>9. CASE RecordClean
  BY <1>9 DEF RecordClean, StartAnalysis, Walked
<1>10. CASE MeasureBin
  BY <1>10 DEF MeasureBin, BinReadings
<1>11. CASE EmptyBin
  BY <1>11 DEF EmptyBin, StartAnalysis
<1>12. CASE MeasureAfter
  BY <1>12 DEF MeasureAfter, BinReadings, FreedBytes
<1>13. CASE Draw
  BY <1>13 DEF Draw
<1>14. CASE RefreshStorageAsync
  BY <1>14 DEF RefreshStorageAsync, Enqueue
<1>15. CASE ClearStoragePreview
  BY <1>15 DEF ClearStoragePreview
<1>16. ASSUME NEW t \in CleanupTarget, RequestStoragePreviewAsync(t) PROVE NothingDone'
  BY <1>16 DEF RequestStoragePreviewAsync, Enqueue
<1>17. ASSUME NEW t \in CleanupTarget, CleanStorageAsync(t) PROVE NothingDone'
  BY <1>17 DEF CleanStorageAsync, Enqueue
<1>18. ASSUME NEW n \in 0..MaxBin, OtherBin(n) PROVE NothingDone'
  BY <1>18 DEF OtherBin
<1>19. CASE DayPasses
  BY <1>19 DEF DayPasses
<1>20. CASE UNCHANGED storageVars
  BY <1>20 DEF storageVars
<1>21. ASSUME NEW unlisted \in SUBSET pending, WalkEndsEarly(unlisted) PROVE NothingDone'
  BY <1>21 DEF WalkEndsEarly
<1> QED
  BY <1>1, <1>2, <1>3, <1>4, <1>5, <1>6, <1>7, <1>8, <1>9, <1>10,
     <1>11, <1>12, <1>13, <1>14, <1>15, <1>16, <1>17, <1>18, <1>19, <1>20, <1>21
  DEF StorageNext

LEMMA FoundStep == Inv /\ [StorageNext]_storageVars => FoundAreOld'
<1> SUFFICES ASSUME Inv, [StorageNext]_storageVars PROVE FoundAreOld'
  OBVIOUS
<1> USE BoundAssumption, GoneAssumption
    DEF Inv, StorageTypeOK, JobAndPhase, WalkIsOver, FoundAreOld, OldOrRewritten,
        OldEnoughToDelete, Deleting, FileContent, Age, NoPath, disks, walk, work, shared, deeds, ghosts
<1>1. CASE Begin
  BY <1>1 DEF Begin, StartWalk, StartAnalysis
<1>2. CASE PublishTargets
  BY <1>2 DEF PublishTargets, Finish, PreviewAfter, Walked
<1>3. CASE PublishPreview
  BY <1>3 DEF PublishPreview, Finish, Walked
<1>4. ASSUME NEW f \in File, Visit(f) PROVE FoundAreOld'
  BY <1>4 DEF Visit
<1>5. ASSUME NEW f \in File, ReadSize(f) PROVE FoundAreOld'
  BY <1>5 DEF ReadSize, Walked
<1>6. ASSUME NEW f \in File, OtherWrites(f) PROVE FoundAreOld'
  BY <1>6 DEF OtherWrites, Touch
<1>7. ASSUME NEW f \in File, OtherDeletes(f) PROVE FoundAreOld'
  BY <1>7 DEF OtherDeletes, Touch
<1>8. CASE DeleteFile
  BY <1>8 DEF DeleteFile, Skip
<1>9. CASE RecordClean
  BY <1>9 DEF RecordClean, StartAnalysis, Walked
<1>10. CASE MeasureBin
  BY <1>10 DEF MeasureBin, BinReadings
<1>11. CASE EmptyBin
  BY <1>11 DEF EmptyBin, StartAnalysis
<1>12. CASE MeasureAfter
  BY <1>12 DEF MeasureAfter, BinReadings, FreedBytes
<1>13. CASE Draw
  BY <1>13 DEF Draw
<1>14. CASE RefreshStorageAsync
  BY <1>14 DEF RefreshStorageAsync, Enqueue
<1>15. CASE ClearStoragePreview
  BY <1>15 DEF ClearStoragePreview
<1>16. ASSUME NEW t \in CleanupTarget, RequestStoragePreviewAsync(t) PROVE FoundAreOld'
  BY <1>16 DEF RequestStoragePreviewAsync, Enqueue
<1>17. ASSUME NEW t \in CleanupTarget, CleanStorageAsync(t) PROVE FoundAreOld'
  BY <1>17 DEF CleanStorageAsync, Enqueue
<1>18. ASSUME NEW n \in 0..MaxBin, OtherBin(n) PROVE FoundAreOld'
  BY <1>18 DEF OtherBin
<1>19. CASE DayPasses
  BY <1>19 DEF DayPasses
<1>20. CASE UNCHANGED storageVars
  BY <1>20 DEF storageVars
<1>21. ASSUME NEW unlisted \in SUBSET pending, WalkEndsEarly(unlisted) PROVE FoundAreOld'
  BY <1>21 DEF WalkEndsEarly
<1> QED
  BY <1>1, <1>2, <1>3, <1>4, <1>5, <1>6, <1>7, <1>8, <1>9, <1>10,
     <1>11, <1>12, <1>13, <1>14, <1>15, <1>16, <1>17, <1>18, <1>19, <1>20, <1>21
  DEF StorageNext

LEMMA SubsetsSmaller ==
    ASSUME NEW S \in SUBSET File, NEW T \in SUBSET S
    PROVE  /\ Cardinality(S) \in Nat /\ Cardinality(T) \in Nat
           /\ Cardinality(T) <= Cardinality(S)
           /\ Cardinality(T) = Cardinality(S) => T = S
<1>1. IsFiniteSet(S) /\ IsFiniteSet(T)
  BY FolderAssumption, FS_Subset
<1> QED  BY <1>1, FS_Subset, FS_CardinalityType

LEMMA SizeStep == Inv /\ [StorageNext]_storageVars => SizeIsCurrent'
<1> SUFFICES ASSUME Inv, [StorageNext]_storageVars PROVE SizeIsCurrent'
  OBVIOUS
<1> USE GoneAssumption
    DEF Inv, StorageTypeOK, JobAndPhase, WalkIsOver, SizeIsCurrent, Deleting,
        FileContent, NoPath, disks, walk, work, shared, deeds, ghosts
<1>1. CASE Begin
  BY <1>1 DEF Begin, StartWalk, StartAnalysis
<1>2. CASE PublishTargets
  BY <1>2 DEF PublishTargets, Finish, PreviewAfter, Walked
<1>3. CASE PublishPreview
  BY <1>3 DEF PublishPreview, Finish, Walked
<1>4. ASSUME NEW f \in File, Visit(f) PROVE SizeIsCurrent'
  BY <1>4 DEF Visit
<1>5. ASSUME NEW f \in File, ReadSize(f) PROVE SizeIsCurrent'
  <2>1. PICK size \in Nat : /\ current' = [file |-> f, size |-> size]
                            /\ unsure' = (unsure \/ (disk[f] # Gone /\ size # disk[f].size))
    <3>1. disk[f] # Gone => disk[f].size \in Nat
      BY SizeAssumption
    <3> QED  BY <1>5, <3>1 DEF ReadSize
  <2>2. disk' = disk
    BY <1>5 DEF ReadSize
  <2> QED  BY <2>1, <2>2
<1>6. ASSUME NEW f \in File, OtherWrites(f) PROVE SizeIsCurrent'
  <2>1. current' = current /\ unsure' = (unsure \/ f = current.file)
    BY <1>6 DEF OtherWrites, Touch
  <2>2. \A g \in File \ {f} : disk'[g] = disk[g]
    BY <1>6 DEF OtherWrites, Touch
  <2> QED  BY <2>1, <2>2
<1>7. ASSUME NEW f \in File, OtherDeletes(f) PROVE SizeIsCurrent'
  BY <1>7 DEF OtherDeletes, Touch
<1>8. CASE DeleteFile
  BY <1>8 DEF DeleteFile, Skip
<1>9. CASE RecordClean
  BY <1>9 DEF RecordClean, StartAnalysis, Walked
<1>10. CASE MeasureBin
  BY <1>10 DEF MeasureBin, BinReadings
<1>11. CASE EmptyBin
  BY <1>11 DEF EmptyBin, StartAnalysis
<1>12. CASE MeasureAfter
  BY <1>12 DEF MeasureAfter, BinReadings, FreedBytes
<1>13. CASE Draw
  BY <1>13 DEF Draw
<1>14. CASE RefreshStorageAsync
  BY <1>14 DEF RefreshStorageAsync, Enqueue
<1>15. CASE ClearStoragePreview
  BY <1>15 DEF ClearStoragePreview
<1>16. ASSUME NEW t \in CleanupTarget, RequestStoragePreviewAsync(t) PROVE SizeIsCurrent'
  BY <1>16 DEF RequestStoragePreviewAsync, Enqueue
<1>17. ASSUME NEW t \in CleanupTarget, CleanStorageAsync(t) PROVE SizeIsCurrent'
  BY <1>17 DEF CleanStorageAsync, Enqueue
<1>18. ASSUME NEW n \in 0..MaxBin, OtherBin(n) PROVE SizeIsCurrent'
  BY <1>18 DEF OtherBin
<1>19. CASE DayPasses
  BY <1>19 DEF DayPasses
<1>20. CASE UNCHANGED storageVars
  BY <1>20 DEF storageVars
<1>21. ASSUME NEW unlisted \in SUBSET pending, WalkEndsEarly(unlisted) PROVE SizeIsCurrent'
  BY <1>21 DEF WalkEndsEarly
<1> QED
  BY <1>1, <1>2, <1>3, <1>4, <1>5, <1>6, <1>7, <1>8, <1>9, <1>10,
     <1>11, <1>12, <1>13, <1>14, <1>15, <1>16, <1>17, <1>18, <1>19, <1>20, <1>21
  DEF StorageNext

LEMMA OnceStep == Inv /\ [StorageNext]_storageVars => DeletedOnce'
<1> SUFFICES ASSUME Inv, [StorageNext]_storageVars PROVE DeletedOnce'
  OBVIOUS
<1> USE GoneAssumption
    DEF Inv, StorageTypeOK, JobAndPhase, WalkIsOver, NothingDone, DeletedOnce, Deleting, NoPath,
        disks, walk, work, shared, deeds, ghosts
<1>1. CASE Begin
  BY <1>1 DEF Begin, StartWalk, StartAnalysis
<1>2. CASE PublishTargets
  BY <1>2 DEF PublishTargets, Finish, PreviewAfter, Walked
<1>3. CASE PublishPreview
  BY <1>3 DEF PublishPreview, Finish, Walked
<1>4. ASSUME NEW f \in File, Visit(f) PROVE DeletedOnce'
  BY <1>4 DEF Visit
<1>5. ASSUME NEW f \in File, ReadSize(f) PROVE DeletedOnce'
  BY <1>5 DEF ReadSize, Walked
<1>6. ASSUME NEW f \in File, OtherWrites(f) PROVE DeletedOnce'
  BY <1>6 DEF OtherWrites, Touch
<1>7. ASSUME NEW f \in File, OtherDeletes(f) PROVE DeletedOnce'
  BY <1>7 DEF OtherDeletes, Touch
<1>8. CASE DeleteFile
  BY <1>8 DEF DeleteFile, Skip
<1>9. CASE RecordClean
  BY <1>9 DEF RecordClean, StartAnalysis, Walked
<1>10. CASE MeasureBin
  BY <1>10 DEF MeasureBin, BinReadings
<1>11. CASE EmptyBin
  BY <1>11 DEF EmptyBin, StartAnalysis
<1>12. CASE MeasureAfter
  BY <1>12 DEF MeasureAfter, BinReadings, FreedBytes
<1>13. CASE Draw
  BY <1>13 DEF Draw
<1>14. CASE RefreshStorageAsync
  BY <1>14 DEF RefreshStorageAsync, Enqueue
<1>15. CASE ClearStoragePreview
  BY <1>15 DEF ClearStoragePreview
<1>16. ASSUME NEW t \in CleanupTarget, RequestStoragePreviewAsync(t) PROVE DeletedOnce'
  BY <1>16 DEF RequestStoragePreviewAsync, Enqueue
<1>17. ASSUME NEW t \in CleanupTarget, CleanStorageAsync(t) PROVE DeletedOnce'
  BY <1>17 DEF CleanStorageAsync, Enqueue
<1>18. ASSUME NEW n \in 0..MaxBin, OtherBin(n) PROVE DeletedOnce'
  BY <1>18 DEF OtherBin
<1>19. CASE DayPasses
  BY <1>19 DEF DayPasses
<1>20. CASE UNCHANGED storageVars
  BY <1>20 DEF storageVars
<1>21. ASSUME NEW unlisted \in SUBSET pending, WalkEndsEarly(unlisted) PROVE DeletedOnce'
  BY <1>21 DEF WalkEndsEarly
<1> QED
  BY <1>1, <1>2, <1>3, <1>4, <1>5, <1>6, <1>7, <1>8, <1>9, <1>10,
     <1>11, <1>12, <1>13, <1>14, <1>15, <1>16, <1>17, <1>18, <1>19, <1>20, <1>21
  DEF StorageNext

LEMMA ReportedStep == Inv /\ [StorageNext]_storageVars => Reported'
<1> SUFFICES ASSUME Inv, [StorageNext]_storageVars PROVE Reported'
  OBVIOUS
<1> USE GoneAssumption
    DEF Inv, StorageTypeOK, JobAndPhase, WalkIsOver, NothingDone, SizeIsCurrent, DeletedOnce,
        Reported, Deleting, NoPath, NoResult, disks, walk, work, shared, deeds, ghosts
<1>1. CASE Begin
  BY <1>1 DEF Begin, StartWalk, StartAnalysis
<1>2. CASE PublishTargets
  BY <1>2 DEF PublishTargets, Finish, PreviewAfter, Walked
<1>3. CASE PublishPreview
  BY <1>3 DEF PublishPreview, Finish, Walked
<1>4. ASSUME NEW f \in File, Visit(f) PROVE Reported'
  BY <1>4 DEF Visit
<1>5. ASSUME NEW f \in File, ReadSize(f) PROVE Reported'
  BY <1>5 DEF ReadSize, Walked
<1>6. ASSUME NEW f \in File, OtherWrites(f) PROVE Reported'
  BY <1>6 DEF OtherWrites, Touch
<1>7. ASSUME NEW f \in File, OtherDeletes(f) PROVE Reported'
  BY <1>7 DEF OtherDeletes, Touch
<1>8. CASE DeleteFile
  <2>1. Deleting /\ current.file \in File /\ current.size \in Nat /\ current.file \notin removed
    BY <1>8 DEF DeleteFile
  <2>2. CASE /\ disk[current.file] # Gone
             /\ result' = [result EXCEPT !.filesDeleted = @ + 1, !.bytesFreed = @ + current.size]
             /\ removed' = removed \cup {current.file}
             /\ freed' = freed + disk[current.file].size
    <3>1. Cardinality(removed') = Cardinality(removed) + 1
      BY <2>1, <2>2, FolderAssumption, FS_Subset, FS_AddElement
    <3>2. result'.filesDeleted = result.filesDeleted + 1 /\ result'.success = result.success
          /\ result'.bytesFreed = result.bytesFreed + current.size
      BY <2>2 DEF Result
    <3>3. UNCHANGED <<job, target, phase, unsure>>
      BY <1>8 DEF DeleteFile
    <3> QED  BY <2>1, <2>2, <3>1, <3>2, <3>3
  <2>3. CASE result' = Skip(result) /\ UNCHANGED <<removed, freed>>
    <3>1. /\ result'.filesDeleted = result.filesDeleted /\ result'.success = result.success
          /\ result'.bytesFreed = result.bytesFreed
      BY <2>3 DEF Result, Skip
    <3>2. UNCHANGED <<job, target, phase, unsure>>
      BY <1>8 DEF DeleteFile
    <3> QED  BY <2>1, <2>3, <3>1, <3>2
  <2> QED  BY <1>8, <2>2, <2>3 DEF DeleteFile
<1>9. CASE RecordClean
  BY <1>9 DEF RecordClean, StartAnalysis, Walked
<1>10. CASE MeasureBin
  <2>1. PICK size \in BinReadings, items \in BinReadings :
           /\ result' = [result EXCEPT !.bytesFreed = size, !.filesDeleted = items]
           /\ unsure' = (unsure \/ size # bin \/ items # bin)
    BY <1>10 DEF MeasureBin
  <2>2. result'.bytesFreed = size /\ result'.success = result.success
    BY <2>1 DEF Result
  <2>3. /\ phase' = "empty" /\ bin' = bin /\ UNCHANGED <<job, target, freed>>
        /\ target = "bin" /\ freed = 0 /\ result.success
    BY <1>10 DEF MeasureBin
  <2> QED  BY <2>1, <2>2, <2>3
<1>11. CASE EmptyBin
  BY <1>11 DEF EmptyBin, StartAnalysis
<1>12. CASE MeasureAfter
  BY <1>12 DEF MeasureAfter, BinReadings, FreedBytes
<1>13. CASE Draw
  BY <1>13 DEF Draw
<1>14. CASE RefreshStorageAsync
  BY <1>14 DEF RefreshStorageAsync, Enqueue
<1>15. CASE ClearStoragePreview
  BY <1>15 DEF ClearStoragePreview
<1>16. ASSUME NEW t \in CleanupTarget, RequestStoragePreviewAsync(t) PROVE Reported'
  BY <1>16 DEF RequestStoragePreviewAsync, Enqueue
<1>17. ASSUME NEW t \in CleanupTarget, CleanStorageAsync(t) PROVE Reported'
  <2>1. phase' = "queued" /\ job' = "clean" /\ UNCHANGED <<removed, freed, result, unsure>>
    BY <1>17 DEF CleanStorageAsync, Enqueue
  <2>2. removed = {} /\ freed = 0 /\ result = NoResult
    BY <1>17 DEF CleanStorageAsync, Enqueue
  <2>3. Cardinality({}) = 0
    BY FS_EmptySet
  <2> QED  BY <2>1, <2>2, <2>3
<1>18. ASSUME NEW n \in 0..MaxBin, OtherBin(n) PROVE Reported'
  BY <1>18 DEF OtherBin
<1>19. CASE DayPasses
  BY <1>19 DEF DayPasses
<1>20. CASE UNCHANGED storageVars
  BY <1>20 DEF storageVars
<1>21. ASSUME NEW unlisted \in SUBSET pending, WalkEndsEarly(unlisted) PROVE Reported'
  BY <1>21 DEF WalkEndsEarly
<1> QED
  BY <1>1, <1>2, <1>3, <1>4, <1>5, <1>6, <1>7, <1>8, <1>9, <1>10,
     <1>11, <1>12, <1>13, <1>14, <1>15, <1>16, <1>17, <1>18, <1>19, <1>20, <1>21
  DEF StorageNext

LEMMA CountedStep == Inv /\ [StorageNext]_storageVars => CountedAreOld'
<1> SUFFICES ASSUME Inv, [StorageNext]_storageVars PROVE CountedAreOld'
  OBVIOUS
<1> USE BoundAssumption, GoneAssumption
    DEF Inv, StorageTypeOK, JobAndPhase, WalkIsOver, NothingDone, FoundAreOld, OldOrRewritten,
        CountedAreOld,
        OldEnoughToDelete, FileContent, Age, NoPath, disks, walk, work, shared, deeds, ghosts
<1>1. CASE Begin
  BY <1>1 DEF Begin, StartWalk, StartAnalysis
<1>2. CASE PublishTargets
  BY <1>2 DEF PublishTargets, Finish, PreviewAfter, Walked
<1>3. CASE PublishPreview
  BY <1>3 DEF PublishPreview, Finish, Walked
<1>4. ASSUME NEW f \in File, Visit(f) PROVE CountedAreOld'
  BY <1>4 DEF Visit
<1>5. ASSUME NEW f \in File, ReadSize(f) PROVE CountedAreOld'
  BY <1>5 DEF ReadSize, Walked
<1>6. ASSUME NEW f \in File, OtherWrites(f) PROVE CountedAreOld'
  BY <1>6 DEF OtherWrites, Touch
<1>7. ASSUME NEW f \in File, OtherDeletes(f) PROVE CountedAreOld'
  BY <1>7 DEF OtherDeletes, Touch
<1>8. CASE DeleteFile
  BY <1>8 DEF DeleteFile, Skip
<1>9. CASE RecordClean
  BY <1>9 DEF RecordClean, StartAnalysis, Walked
<1>10. CASE MeasureBin
  BY <1>10 DEF MeasureBin, BinReadings
<1>11. CASE EmptyBin
  BY <1>11 DEF EmptyBin, StartAnalysis
<1>12. CASE MeasureAfter
  BY <1>12 DEF MeasureAfter, BinReadings, FreedBytes
<1>13. CASE Draw
  BY <1>13 DEF Draw
<1>14. CASE RefreshStorageAsync
  BY <1>14 DEF RefreshStorageAsync, Enqueue
<1>15. CASE ClearStoragePreview
  BY <1>15 DEF ClearStoragePreview
<1>16. ASSUME NEW t \in CleanupTarget, RequestStoragePreviewAsync(t) PROVE CountedAreOld'
  BY <1>16 DEF RequestStoragePreviewAsync, Enqueue
<1>17. ASSUME NEW t \in CleanupTarget, CleanStorageAsync(t) PROVE CountedAreOld'
  BY <1>17 DEF CleanStorageAsync, Enqueue
<1>18. ASSUME NEW n \in 0..MaxBin, OtherBin(n) PROVE CountedAreOld'
  BY <1>18 DEF OtherBin
<1>19. CASE DayPasses
  BY <1>19 DEF DayPasses
<1>20. CASE UNCHANGED storageVars
  BY <1>20 DEF storageVars
<1>21. ASSUME NEW unlisted \in SUBSET pending, WalkEndsEarly(unlisted) PROVE CountedAreOld'
  BY <1>21 DEF WalkEndsEarly
<1> QED
  BY <1>1, <1>2, <1>3, <1>4, <1>5, <1>6, <1>7, <1>8, <1>9, <1>10,
     <1>11, <1>12, <1>13, <1>14, <1>15, <1>16, <1>17, <1>18, <1>19, <1>20, <1>21
  DEF StorageNext

(* What is passed over or not removed does not grow with a smaller set.    *)
LEMMA StaysCovered ==
    ASSUME StorageTypeOK, StorageTypeOK', Covered,
           job' = job, target' = target, phase' = phase, result' = result,
           removed' = removed, counted' \subseteq counted,
           Deleting => PassedOver' \subseteq PassedOver
    PROVE  Covered'
<1>1. Deleting => Cardinality(PassedOver') <= Cardinality(PassedOver)
      /\ Cardinality(PassedOver) \in Nat /\ Cardinality(PassedOver') \in Nat
  <2>1. PassedOver \in SUBSET File
    BY DEF PassedOver, StorageTypeOK
  <2> QED  BY <2>1, SubsetsSmaller
<1>2. Cardinality(counted' \ removed) <= Cardinality(counted \ removed)
      /\ Cardinality(counted \ removed) \in Nat /\ Cardinality(counted' \ removed) \in Nat
  <2>1. counted \ removed \in SUBSET File /\ counted' \ removed \subseteq counted \ removed
    BY DEF StorageTypeOK
  <2> QED  BY <2>1, SubsetsSmaller
<1>3. result.filesSkipped \in Nat
  BY DEF StorageTypeOK, Result
<1> QED  BY <1>1, <1>2, <1>3 DEF Covered, Deleting, CleanCoversAnalysis

LEMMA CoveredStep == Inv /\ [StorageNext]_storageVars => Covered'
<1> SUFFICES ASSUME Inv, [StorageNext]_storageVars PROVE Covered'
  OBVIOUS
<1> USE GoneAssumption, TypeStep
    DEF Inv, StorageTypeOK, JobAndPhase, WalkIsOver, NothingDone, CountedAreOld, Covered,
        CleanCoversAnalysis,
        Deleting, NoPath, NoResult, disks, walk, work, shared, deeds, ghosts
<1>1. CASE Begin
  <2>1. CASE Deleting'
    <3>1. pending' = {f \in File : Reaches(f)} /\ removed' = {} /\ counted' = counted
          /\ result' = result /\ result = NoResult
      BY <1>1, <2>1 DEF Begin, StartWalk
    <3>2. PassedOver' = {}
      BY <3>1 DEF PassedOver
    <3>3. Cardinality({}) = 0
      BY FS_EmptySet
    <3> QED  BY <2>1, <3>1, <3>2, <3>3
  <2>2. CASE ~Deleting'
    BY <1>1, <2>2 DEF Begin
  <2> QED  BY <2>1, <2>2
<1>2. CASE PublishTargets
  BY <1>2 DEF PublishTargets, Finish, PreviewAfter, Walked
<1>3. CASE PublishPreview
  BY <1>3 DEF PublishPreview, Finish, Walked
<1>4. ASSUME NEW f \in File, Visit(f) PROVE Covered'
  <2>1. /\ job' = job /\ target' = target /\ phase' = phase /\ result' = result
        /\ removed' = removed /\ counted' \subseteq counted
    BY <1>4 DEF Visit, Room
  <2>2. Deleting => PassedOver' \subseteq PassedOver
    BY <1>4 DEF Visit, Room, PassedOver
  <2> QED  BY <2>1, <2>2, TypeStep, StaysCovered
<1>5. ASSUME NEW f \in File, ReadSize(f) PROVE Covered'
  <2>1. /\ job' = job /\ target' = target /\ phase' = phase /\ result' = result
        /\ removed' = removed /\ counted' \subseteq counted
    BY <1>5 DEF ReadSize
  <2>2. PassedOver' \subseteq PassedOver
    BY <1>5 DEF ReadSize, PassedOver
  <2> QED  BY <2>1, <2>2, StaysCovered
<1>6. ASSUME NEW f \in File, OtherWrites(f) PROVE Covered'
  <2>1. /\ job' = job /\ target' = target /\ phase' = phase /\ result' = result
        /\ removed' = removed /\ counted' \subseteq counted
    BY <1>6 DEF OtherWrites, Touch
  <2>2. PassedOver' \subseteq PassedOver
    BY <1>6 DEF OtherWrites, Touch, PassedOver
  <2> QED  BY <2>1, <2>2, StaysCovered
<1>7. ASSUME NEW f \in File, OtherDeletes(f) PROVE Covered'
  <2>1. /\ job' = job /\ target' = target /\ phase' = phase /\ result' = result
        /\ removed' = removed /\ counted' \subseteq counted
    BY <1>7 DEF OtherDeletes, Touch
  <2>2. PassedOver' \subseteq PassedOver
    BY <1>7 DEF OtherDeletes, Touch, PassedOver
  <2> QED  BY <2>1, <2>2, StaysCovered
<1>8. CASE DeleteFile
  <2>1. Deleting /\ current.file \in File /\ current' = NoPath
    BY <1>8 DEF DeleteFile
  <2>2. UNCHANGED <<job, target, phase, pending, found, counted>>
    BY <1>8 DEF DeleteFile
  <2>3. PassedOver \in SUBSET File /\ PassedOver' \in SUBSET File
    BY TypeStep DEF PassedOver
  <2>4. CASE /\ result' = [result EXCEPT !.filesDeleted = @ + 1, !.bytesFreed = @ + current.size]
             /\ removed' = removed \cup {current.file}
    <3>1. result'.filesSkipped = result.filesSkipped
      BY <2>4 DEF Result
    <3>2. PassedOver' \subseteq PassedOver
      BY <2>1, <2>2, <2>4 DEF PassedOver
    <3>3. Cardinality(PassedOver') <= Cardinality(PassedOver)
          /\ Cardinality(PassedOver) \in Nat /\ Cardinality(PassedOver') \in Nat
      BY <2>3, <3>2, SubsetsSmaller
    <3>4. result.filesSkipped \in Nat
      BY DEF Result
    <3> QED  BY <2>1, <2>2, <3>1, <3>3, <3>4
  <2>5. CASE result' = Skip(result) /\ removed' = removed
    <3>1. result'.filesSkipped = result.filesSkipped + 1
      BY <2>5 DEF Result, Skip
    <3>2. PassedOver' \subseteq PassedOver \cup {current.file} /\ current.file \notin PassedOver
      BY <2>1, <2>2, <2>5 DEF PassedOver
    <3>3. Cardinality(PassedOver \cup {current.file}) = Cardinality(PassedOver) + 1
      BY <2>3, <3>2, FolderAssumption, FS_Subset, FS_AddElement
    <3>4. PassedOver \cup {current.file} \in SUBSET File
      BY <2>1, <2>3
    <3>5. Cardinality(PassedOver') <= Cardinality(PassedOver \cup {current.file})
          /\ Cardinality(PassedOver) \in Nat /\ Cardinality(PassedOver') \in Nat
      BY <2>3, <3>2, <3>4, SubsetsSmaller
    <3>6. result.filesSkipped \in Nat
      BY DEF Result
    <3> QED  BY <2>1, <2>2, <3>1, <3>3, <3>5, <3>6
  <2> QED  BY <1>8, <2>4, <2>5 DEF DeleteFile
<1>9. CASE RecordClean
  <2>1. UNCHANGED <<job, target, result, removed, counted>> /\ phase' = "recount"
    BY <1>9 DEF RecordClean
  <2> SUFFICES ASSUME target = "temp"
               PROVE  Cardinality(counted \ removed) <= result.filesSkipped
    BY <2>1
  <2>2. Deleting /\ pending = {} /\ found = {} /\ current = NoPath
    BY <1>9 DEF RecordClean, Walked
  <2>3. counted \ removed = PassedOver
    BY <2>2 DEF PassedOver
  <2> QED  BY <2>2, <2>3
<1>10. CASE MeasureBin
  BY <1>10 DEF MeasureBin, BinReadings
<1>11. CASE EmptyBin
  BY <1>11 DEF EmptyBin, StartAnalysis
<1>12. CASE MeasureAfter
  BY <1>12 DEF MeasureAfter, BinReadings, FreedBytes
<1>13. CASE Draw
  BY <1>13 DEF Draw, PassedOver
<1>14. CASE RefreshStorageAsync
  BY <1>14 DEF RefreshStorageAsync, Enqueue
<1>15. CASE ClearStoragePreview
  BY <1>15 DEF ClearStoragePreview, PassedOver
<1>16. ASSUME NEW t \in CleanupTarget, RequestStoragePreviewAsync(t) PROVE Covered'
  BY <1>16 DEF RequestStoragePreviewAsync, Enqueue
<1>17. ASSUME NEW t \in CleanupTarget, CleanStorageAsync(t) PROVE Covered'
  BY <1>17 DEF CleanStorageAsync, Enqueue
<1>18. ASSUME NEW n \in 0..MaxBin, OtherBin(n) PROVE Covered'
  BY <1>18 DEF OtherBin, PassedOver
<1>19. CASE DayPasses
  BY <1>19 DEF DayPasses, PassedOver
<1>20. CASE UNCHANGED storageVars
  BY <1>20 DEF storageVars, PassedOver
<1>21. ASSUME NEW unlisted \in SUBSET pending, WalkEndsEarly(unlisted) PROVE Covered'
  <2>1. /\ job' = job /\ target' = target /\ phase' = phase /\ result' = result
        /\ removed' = removed /\ counted' \subseteq counted
    BY <1>21 DEF WalkEndsEarly
  <2>2. Deleting => PassedOver' \subseteq PassedOver
    BY <1>21 DEF WalkEndsEarly, PassedOver
  <2> QED  BY <2>1, <2>2, TypeStep, StaysCovered
<1> QED
  BY <1>1, <1>2, <1>3, <1>4, <1>5, <1>6, <1>7, <1>8, <1>9, <1>10,
     <1>11, <1>12, <1>13, <1>14, <1>15, <1>16, <1>17, <1>18, <1>19, <1>20, <1>21
  DEF StorageNext

-----------------------------------------------------------------------------
(* The theorems.                                                           *)

LEMMA InitInv == StorageInit => Inv
<1> SUFFICES ASSUME StorageInit PROVE Inv
  OBVIOUS
<1> USE BoundAssumption, GoneAssumption DEF StorageInit
<1>1. StorageTypeOK
  BY DEF StorageTypeOK, Result, Preview, NoPath, NoPreview, NoResult, NoFrame, CleanupTarget
<1>2. JobAndPhase /\ WalkIsOver /\ NothingDone /\ FoundAreOld
  BY DEF JobAndPhase, WalkIsOver, NothingDone, FoundAreOld, NoPath
<1>3. SizeIsCurrent /\ DeletedOnce /\ Reported
  BY DEF SizeIsCurrent, DeletedOnce, Reported
<1>4. CountedAreOld /\ Covered
  BY DEF CountedAreOld, Covered, CleanCoversAnalysis, Deleting
<1> QED  BY <1>1, <1>2, <1>3, <1>4 DEF Inv

LEMMA Invariant == StorageSpec => []Inv
<1>1. Inv /\ [StorageNext]_storageVars => Inv'
  BY TypeStep, PhaseStep, WalkStep, NothingStep, FoundStep,
     SizeStep, OnceStep, ReportedStep, CountedStep, CoveredStep DEF Inv
<1> QED  BY InitInv, <1>1, PTL DEF StorageSpec

(* Every variable of the page and of its jobs keeps its type.              *)
THEOREM TypeCorrect == StorageSpec => []StorageTypeOK
<1>1. Inv => StorageTypeOK
  BY DEF Inv
<1> QED  BY Invariant, <1>1, PTL

(* Each counted file that nobody touched is deleted or reported as skipped.*)
THEOREM AnalysisIsCovered == StorageSpec => []CleanCoversAnalysis
<1>1. Inv => CleanCoversAnalysis
  BY DEF Inv, Covered
<1> QED  BY Invariant, <1>1, PTL

(* What is deleted is an old file of the temporary directory itself.       *)
THEOREM OnlyOldTempFilesAreDeleted == StorageSpec => DeletesOldTempFiles
<1> DEFINE Act == \A f \in removed' \ removed :
                     /\ Folder[f] = "temp" /\ f \notin Behind /\ Depth[f] <= MaxDepth
                     /\ disk[f].age >= MinimumAge \/ f \in rewritten
<1>1. Inv /\ [StorageNext]_storageVars => [Act]_storageVars
  <2> SUFFICES ASSUME Inv, [StorageNext]_storageVars, NEW f \in removed' \ removed
               PROVE  /\ Folder[f] = "temp" /\ f \notin Behind /\ Depth[f] <= MaxDepth
                      /\ disk[f].age >= MinimumAge \/ f \in rewritten
    BY DEF Act
  <2>1. DeleteFile
    BY DEF StorageNext, storageVars, Begin, PublishTargets, PublishPreview, Finish,
           Visit, WalkEndsEarly, ReadSize,
           OtherWrites, OtherDeletes, Touch, RecordClean, MeasureBin, EmptyBin, MeasureAfter,
           Draw, RefreshStorageAsync, ClearStoragePreview, RequestStoragePreviewAsync,
           CleanStorageAsync, Enqueue, OtherBin, DayPasses, deeds, ghosts
  <2>2. f = current.file /\ current # NoPath
    BY <2>1 DEF DeleteFile
  <2>3. OldOrRewritten(f)
    BY <2>2 DEF Inv, FoundAreOld
  <2> QED  BY <2>3 DEF OldOrRewritten, Reaches, OldEnoughToDelete
<1>2. StorageSpec => [][Act]_storageVars
  BY Invariant, <1>1, PTL DEF StorageSpec
<1> QED  BY <1>2 DEF DeletesOldTempFiles

(* The outcome of a clean says what it did, and the history has it.        *)
THEOREM ReportsAreTrue == StorageSpec => ReportIsTrue
<1> DEFINE Act == job = "clean" /\ job' = "none" /\ result.success =>
                     /\ target = "temp" => result.filesDeleted = Cardinality(removed)
                     /\ ~unsure => result.bytesFreed = freed
                     /\ recorded
<1>1. Inv /\ [StorageNext]_storageVars => [Act]_storageVars
  <2> SUFFICES ASSUME Inv, [StorageNext]_storageVars, job = "clean", job' = "none", result.success
               PROVE  /\ target = "temp" => result.filesDeleted = Cardinality(removed)
                      /\ ~unsure => result.bytesFreed = freed
                      /\ recorded
    BY DEF Act
  <2>1. phase = "recount"
    BY DEF StorageNext, storageVars, Begin, PublishTargets, PublishPreview, Walked,
           Visit, WalkEndsEarly, ReadSize,
           OtherWrites, OtherDeletes, Touch, DeleteFile, RecordClean, MeasureBin, EmptyBin,
           MeasureAfter, Draw, RefreshStorageAsync, ClearStoragePreview,
           RequestStoragePreviewAsync, CleanStorageAsync, Enqueue, OtherBin, DayPasses, work
  <2> QED  BY <2>1 DEF Inv, Reported, JobAndPhase
<1>2. StorageSpec => [][Act]_storageVars
  BY Invariant, <1>1, PTL DEF StorageSpec
<1> QED  BY <1>2 DEF ReportIsTrue
=============================================================================
