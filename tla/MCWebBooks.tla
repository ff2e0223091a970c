----------------------------- MODULE MCWebBooks -----------------------------
(* WebBooks for TLC: the slots for requests are interchangeable.             *)
EXTENDS WebBooks, TLC

CONSTANTS b1, q1, q2

Symmetry == Permutations(Req)
=============================================================================
