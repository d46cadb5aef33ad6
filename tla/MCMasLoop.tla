----------------------------- MODULE MCMasLoop -----------------------------
(***************************************************************************)
(* Small instances of MasLoop.                                             *)
(***************************************************************************)
EXTENDS MasLoop, TLC

CONSTANTS e1, e2

Symmetry == Permutations({e1, e2})
=============================================================================
