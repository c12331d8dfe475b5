----------------------------- MODULE MCCheckout -----------------------------
(* Small instances of Checkout for TLC.                                    *)
EXTENDS Checkout, TLC

CONSTANTS s1, s2

SelSymmetry == Permutations({s1, s2})
=============================================================================
