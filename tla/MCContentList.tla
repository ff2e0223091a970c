--------------------------- MODULE MCContentList ---------------------------
(* ContentList for TLC: the first filter matches every row, the second all   *)
(* but the first.                                                            *)
EXTENDS ContentList, TLC

CONSTANTS all, some

MCMatching == all :> Row @@ some :> Row \ {1}
=============================================================================
