----------------------- MODULE MCRegistryOptimization -----------------------
(***************************************************************************)
(* Small instances of RegistryOptimization: an optimization of two values, *)
(* where a failure can fall between them, beside one of a single value     *)
(* that verifies at once.                                                  *)
(***************************************************************************)
EXTENDS RegistryOptimization, FiniteSets

CONSTANTS o1, o2, p1, p2, p3, a, u

MCTargets == [o \in Id |-> IF o = o1 THEN <<p1, p2>> ELSE <<p3>>]
MCWanted == [p \in Place |-> a]

(* Bound: what follows is explored as long as at most one entry is lost.   *)
OneEntryLost == Cardinality(lost) <= 1
=============================================================================
