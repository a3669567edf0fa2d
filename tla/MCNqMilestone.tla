--------------------------- MODULE MCNqMilestone ---------------------------
(* NqMilestone for TLC: files may be exchanged for one another. *)
EXTENDS NqMilestone, TLC

FileSymmetry == Permutations(Files)

=============================================================================
