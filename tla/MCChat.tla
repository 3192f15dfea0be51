------------------------------- MODULE MCChat -------------------------------
(* Small instances of Chat.                                                *)
EXTENDS Chat, TLC

CONSTANTS v1, s1, s2, k1, c1, c2, m1, m2, h1, h2

Symmetry == Permutations(Staff) \cup Permutations(Handlers) \cup Permutations(Messages)
=============================================================================
