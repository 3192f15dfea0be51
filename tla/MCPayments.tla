----------------------------- MODULE MCPayments -----------------------------
(* Small instances of Payments.                                            *)
EXTENDS Payments, TLC

CONSTANTS b1, p1, p2, w1, w2

Symmetry == Permutations(Payments) \cup Permutations(Requests)
=============================================================================
