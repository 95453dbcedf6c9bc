--------------------------- MODULE MCGhostChain ---------------------------
(***************************************************************************)
(* GhostSync on three ranks in a chain: the first only sends, the last     *)
(* only receives, and the first can be several operations ahead of the     *)
(* last.  The tags are as for two ranks.                                   *)
(***************************************************************************)
EXTENDS GhostSync, TLC

CONSTANTS p1, p2, p3, stress, density

MCProc == {p1, p2, p3}
MCLinks == {<<p1, p2>>, <<p2, p3>>}
MCTags == {stress, density}
MCTagBits == stress :> 0 @@ density :> 0
===========================================================================
