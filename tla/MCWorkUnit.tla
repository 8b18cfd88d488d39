----------------------------- MODULE MCWorkUnit -----------------------------
(* Instances of WorkUnit: two issues, the second blocked by the first.      *)
EXTENDS WorkUnit, TLC

CONSTANTS a, b, none

Chain == (a :> {}) @@ (b :> {a})
Cycle == (a :> {b}) @@ (b :> {a})

ChainOrCycle == {Chain, Cycle}
ChainOnly    == {Chain}
=============================================================================
