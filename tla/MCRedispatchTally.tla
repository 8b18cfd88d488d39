------------------------- MODULE MCRedispatchTally -------------------------
(* Instances of RedispatchTally.                                           *)
EXTENDS RedispatchTally, TLC

CONSTANTS i1, i2

Symmetry == Permutations({i1, i2})
=============================================================================
