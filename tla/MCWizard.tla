------------------------------ MODULE MCWizard ------------------------------
(* Small instances of Wizard for TLC.                                      *)
EXTENDS Wizard

CONSTANTS k1, k2, r1, r2

RowSymmetry == Permutations({r1, r2})
=============================================================================
