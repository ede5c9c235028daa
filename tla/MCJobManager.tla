---------------------------- MODULE MCJobManager ----------------------------
(* Small instances of JobManager for TLC. *)
EXTENDS JobManager, TLC

CONSTANTS byteMover, metadata, i1, i2

OneSlot == [c \in Class |-> 1]
IDSymmetry == Permutations(IDs)
=============================================================================
