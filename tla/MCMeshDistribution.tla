------------------------- MODULE MCMeshDistribution -------------------------
(***************************************************************************)
(* A line of segments that branches at node 2, where there is a point too. *)
(* Node 3, the end of a segment with a node in its middle, is a periodic   *)
(* slave of node 0.                                                        *)
(***************************************************************************)
EXTENDS MeshDistribution, TLC

MCTypes == <<"point_1", "segment_2", "segment_3">>
MCDim == "point_1" :> 0 @@ "segment_2" :> 1 @@ "segment_3" :> 1
MCConnectivity ==
  "point_1" :> << <<2>> >> @@
  "segment_2" :> << <<0, 1>>, <<1, 2>>, <<2, 4>> >> @@
  "segment_3" :> << <<2, 3, 5>> >>
MCPeriodicMaster == 3 :> 0

(* The ranks of the three segments of the line and of the fourth one.      *)
PartitionOf(w) == [c \in Cell |-> IF c[1] = "segment_3" THEN w[4] ELSE w[c[2]]]

(* All on one rank, ranks without an element, ranks that miss the master   *)
(* of a periodic node, and node 2 on two and on three ranks.               *)
SomePartitions ==
  {PartitionOf(w) : w \in {<<0, 0, 0, 0>>, <<0, 0, 1, 2>>, <<2, 1, 0, 1>>, <<0, 1, 2, 0>>,
                           <<1, 0, 0, 2>>}}
PartitionsOfTwo == {PartitionOf(w) : w \in {<<0, 0, 1, 0>>, <<0, 0, 1, 1>>, <<0, 1, 1, 0>>}}

MCMesh == {[periodic |-> TRUE, tags |-> FALSE], [periodic |-> FALSE, tags |-> TRUE]}
PeriodicWithTags == {[periodic |-> TRUE, tags |-> TRUE]}
=============================================================================
