--------------------------- MODULE MCBookControl ---------------------------
(* BookControl for TLC: the books and the slots for requests are             *)
(* interchangeable.                                                          *)
EXTENDS BookControl, TLC

CONSTANTS b1, b2, q1, q2, q3

Symmetry == Permutations(Book) \cup Permutations(Req)
=============================================================================
