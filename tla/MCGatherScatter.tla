-------------------------- MODULE MCGatherScatter --------------------------
(***************************************************************************)
(* Three ranks.  Rank 2 owns nothing at first, and a node of its own after *)
(* nodes were added, which also changes the numbers of the others.         *)
(***************************************************************************)
EXTENDS GatherScatter, TLC

CONSTANTS a, b, c, d

MCEntity == {a, b, c, d}
MCOwner == a :> 0 @@ b :> 1 @@ c :> 1 @@ d :> 2

MCLocal ==
  << 0 :> <<a, b>> @@ 1 :> <<c, a, b>> @@ 2 :> <<b>>,
     0 :> <<a, b, d>> @@ 1 :> <<c, a, b, d>> @@ 2 :> <<b, d>> >>

MCGid == << a :> 0 @@ b :> 1 @@ c :> 2 @@ d :> 3,
            a :> 1 @@ b :> 0 @@ c :> 3 @@ d :> 2 >>
============================================================================
