------------------------------ MODULE MCPlaces ------------------------------
(* Small instances of Places: one day, its two arrival slots, one variant  *)
(* unless a run says otherwise.                                            *)
EXTENDS Places, TLC

CONSTANTS v1, v2, noon, d1

OneLine(n, time) == {[variant |-> v1, n |-> n, time |-> time]}

NoBasket == {{}}
SessionBasket == {OneLine(1, noon)}
SmallBaskets == {{}, OneLine(1, noon)}
TimelessBaskets == {{}, OneLine(1, NoTime), OneLine(2, NoTime)}
TwoVariants == {{[variant |-> v1, n |-> 1, time |-> NoTime], [variant |-> v2, n |-> 1, time |-> NoTime]}}

Symmetry == Permutations(Tx)
=============================================================================
