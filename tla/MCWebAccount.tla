---------------------------- MODULE MCWebAccount ----------------------------
(* Instances of WebAccount for TLC.                                         *)
EXTENDS WebAccount, TLC

Symmetry == Permutations(Account) \cup Permutations(Token)
==============================================================================
