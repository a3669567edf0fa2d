---------------------------- MODULE MCNqStrings ----------------------------
(***************************************************************************)
(* NqStrings for TLC.  A list starts with room for two instead of four.    *)
(***************************************************************************)
EXTENDS NqStrings, TLC

\* nq_growth with an initial capacity of 2: double, up to the limit.
RECURSIVE Double(_, _)
Double(c, need) ==
  IF c >= need THEN c
  ELSE Double(IF c > Limit - c THEN Limit ELSE 2 * c, need)
MCGrow(c, need) ==
  IF need <= c THEN c
  ELSE Double(IF c > 0 THEN c ELSE IF 2 < Limit THEN 2 ELSE Limit, need)

Symmetry == Permutations(Owners) \cup Permutations(Vars)

==============================================================================
