--------------------------- MODULE MC_BlockBuilder ---------------------------
(* Model-checking instance of BlockBuilder: the bounds are given in the     *)
(* .cfg files; the scheduleBlockBuild slots are model values.               *)
EXTENDS BlockBuilder, TLC

CONSTANTS s1, s2

MC_SchedSlots == {s1, s2}

\* The scheduleBlockBuild goroutines are interchangeable.
MC_Symmetry == Permutations(MC_SchedSlots)

=============================================================================
