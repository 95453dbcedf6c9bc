---------------------------- MODULE MCGlobalIds ----------------------------
(***************************************************************************)
(* Four triangles around site 0, on ranks 0, 1, 2 and 1, and one of the    *)
(* sites around them, between the triangles of ranks 1 and 2.  The part of *)
(* rank 2 alone has cohesive elements of rank 1 only, and the master of    *)
(* site 0 is rank 0.                                                       *)
(***************************************************************************)
EXTENDS GlobalIds, TLC

CONSTANTS e0, e1, e2, e3

MCElement == {e0, e1, e2, e3}
MCHost == e0 :> 0 @@ e1 :> 1 @@ e2 :> 2 @@ e3 :> 1
MCAt == e0 :> {0} @@ e1 :> {0, 1} @@ e2 :> {0, 1} @@ e3 :> {0}
MCFacet == {{e0, e1}, {e1, e2}, {e2, e3}, {e3, e0}}
===========================================================================
