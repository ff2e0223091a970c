------------------------------ MODULE MCAccounts ------------------------------
(* Instances of Accounts for TLC: the symmetry of its pools.                *)
EXTENDS Accounts, TLC

Symmetry ==
    Permutations(Established) \cup Permutations(User \ Established)
        \cup Permutations(Name) \cup Permutations(Email)
        \cup Permutations(Password) \cup Permutations(Session)
        \cup Permutations(Token) \cup Permutations(Req)
==============================================================================
