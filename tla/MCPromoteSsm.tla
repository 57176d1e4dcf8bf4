---------------------------- MODULE MCPromoteSsm ----------------------------
(* A small instance of PromoteSsm: two regions, a versioned and an         *)
(* unversioned template, two values.                                       *)
EXTENDS PromoteSsm, TLC

CONSTANTS r1, r2, tA, tB, v1, v2

MCRegions == {r1, r2}
MCTemplates == {tA, tB}
MCVersioned == {tA}
MCVals == {v1, v2}

MCSymmetry == Permutations(MCRegions) \cup Permutations(MCVals)
=============================================================================
