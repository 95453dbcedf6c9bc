---------------------------- MODULE MCFragments ----------------------------
(***************************************************************************)
(* Three quadrangles in a ring around a node, 1, 2 and 3, with cohesive    *)
(* elements 5, 6 and 7 between them, and an element 4 that shares with 3   *)
(* the facet with a node of 2.  Elements with a common node make ghosts of *)
(* each other, where nodes are those before cohesive elements are inserted:*)
(* the whole ring, and 4 with 2, 3 and 6, which is between them.  So a     *)
(* cohesive element is where both of the elements next to it are.          *)
(***************************************************************************)
EXTENDS Fragments, TLC

MCTypes == << <<1, 2, 3, 4>>, <<5, 6, 7>> >>
MCCohesive == {5, 6, 7}
MCFacets == {{1, 5}, {5, 2}, {2, 6}, {6, 3}, {3, 7}, {7, 1}, {3, 4}}
Ring == Element \ {4}
MCTouching == kSubset(2, Ring) \cup {{4, 2}, {4, 3}, {4, 6}}

Owners(w) == [e \in Element |-> w[e]]
MCPartitions ==
  {Owners(w) : w \in {<<0, 1, 1, 2, 1, 1, 0>>, <<0, 1, 2, 2, 0, 1, 0>>,
                      <<2, 1, 0, 0, 1, 1, 2>>, <<0, 0, 1, 2, 0, 1, 0>>,
                      <<1, 1, 1, 0, 1, 1, 1>>}}

(* The same mesh on one rank, where 4 is of another type, a triangle.      *)
MixedTypes == << <<1, 2, 3>>, <<4>>, <<5, 6, 7>> >>
OnOneRank == {[e \in Element |-> 0]}

MCCracks == {{}, {6}, {6, 7}, {5, 6}, {5, 6, 7}}
=============================================================================
