-------------------------------- MODULE Sums --------------------------------
(***************************************************************************)
(* The sum of a function's values over a finite set: what reduce((a, b) => *)
(* a + b) and SQL's SUM add up.                                            *)
(***************************************************************************)
EXTENDS Integers, FiniteSetsExt

SumOf(S, f) == MapThenSumSet(LAMBDA x : f[x], S)
=============================================================================
