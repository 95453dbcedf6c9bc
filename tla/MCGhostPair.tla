---------------------------- MODULE MCGhostPair ----------------------------
(***************************************************************************)
(* GhostSync on two ranks that hold ghosts of each other.  The two tags    *)
(* share their low bits and the count wraps after two, so that messages of *)
(* different synchronizations on a link often have the same MPI tag.       *)
(***************************************************************************)
EXTENDS GhostSync, TLC

CONSTANTS p1, p2, stress, density

MCProc == {p1, p2}
MCLinks == {<<p1, p2>>, <<p2, p1>>}
MCTags == {stress, density}
MCTagBits == stress :> 0 @@ density :> 0
===========================================================================
