----------------------------- MODULE MCNqFiles -----------------------------
(***************************************************************************)
(* NqFiles for TLC: one value of two bytes and one of a single byte, so    *)
(* that a write can be short and two values can mix.                       *)
(***************************************************************************)
EXTENDS NqFiles, TLC

CONSTANTS long, short

ASSUME ValuesGiven == Values = {long, short}

MCLength == [v \in Values |-> IF v = long THEN 2 ELSE 1]

Symmetry == Permutations(TempNames) \cup Permutations(Inodes)
              \cup Permutations(Procs \ PlainProcs)

\* States that differ only in what an unreferenced inode held are the same.
View ==
  <<dir, proc, [i \in Inodes |-> IF Fresh(i) THEN None ELSE content[i]]>>

==============================================================================
