----------------------- MODULE MCOptimizationService -----------------------
(***************************************************************************)
(* A small instance of OptimizationService: two optimizations that can be  *)
(* changed, so that one may fail where the other succeeds, one this        *)
(* machine does not have, a guide, one profile over the first three, and   *)
(* the page of the startup programs, which is read at start and has        *)
(* entries in the journal.                                                 *)
(***************************************************************************)
EXTENDS OptimizationService

CONSTANTS o1, o2, o3, o4, profile, startup

MCCatalog == <<o1, o2, o3, o4>>
MCMembers == [p \in Profile |-> <<o1, o2, o3>>]
MCAtStart == <<startup>>
=============================================================================
