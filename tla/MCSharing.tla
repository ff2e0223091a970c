------------------------------ MODULE MCSharing ------------------------------
(* Instances of Sharing for TLC: the symmetry of its id pools.              *)
EXTENDS Sharing, TLC

Symmetry ==
    Permutations(User) \cup Permutations(Book \ {SrdBook})
        \cup Permutations(Campaign) \cup Permutations(Invite)
        \cup Permutations(Req)
==============================================================================
