------------------------- MODULE MCJournalledPages -------------------------
(* Instances of JournalledPages: two programs and two power plans.         *)
EXTENDS JournalledPages, TLC

CONSTANTS p1, p2, old, new, high, balanced

MCProgram == {p1, p2}
MCCommand == {old, new}
MCPlan == {high, balanced}
Symmetry == Permutations({p1, p2}) \cup Permutations({old, new})
=============================================================================
