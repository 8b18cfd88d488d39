------------------------------ MODULE MCCiGate ------------------------------
(* Two required checks, in this order.                                     *)
EXTENDS CiGate

CONSTANTS lint, test

LintThenTest == <<lint, test>>
=============================================================================
