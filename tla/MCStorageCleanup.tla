-------------------------- MODULE MCStorageCleanup --------------------------
(* Two temporary files within reach, one behind a junction, one too deep   *)
(* and one of the personal folder.                                         *)
EXTENDS StorageCleanup, TLC

CONSTANTS t1, t2, junction, deep, own

MCFile == {t1, t2, junction, deep, own}
MCFolder == [f \in MCFile |-> IF f = own THEN "downloads" ELSE "temp"]
MCDepth == [f \in MCFile |-> IF f = deep THEN 1 ELSE 0]
MCInit == StorageInit /\ \A f \in {junction, deep, own} : disk[f] = [age |-> MinimumAge, size |-> 1]
Symmetry == Permutations({t1, t2})
MCSpec == MCInit /\ [][StorageNext]_storageVars
=============================================================================
