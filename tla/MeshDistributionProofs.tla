------------------------ MODULE MeshDistributionProofs ------------------------
(***************************************************************************)
(* The schemes and the owners that the distribution leaves are right, for  *)
(* any number of ranks, any mesh and any partition.                        *)
(*                                                                         *)
(* A rank does not see where the others are: messages of one kind have the *)
(* same tag for every rank, and tags come again.  What each rank ends with *)
(* is a function of the mesh and the partition, so the invariant says of   *)
(* each rank which part of it is there at its place, and of each channel   *)
(* that it holds what was sent and not taken, from the place of the taker  *)
(* to the place of the sender.  The first message is then the one that the *)
(* taker waits for.                                                        *)
(***************************************************************************)
EXTENDS MeshDistribution, FiniteInduction, SequenceTheorems

-----------------------------------------------------------------------------
(* What the distribution computes.                                         *)

NbTypes == Len(Types)

(* The elements of a rank, and after the first c types.                    *)
LocalOf == [p \in Rank |-> [t \in ToSet(Types) |-> LocalElements(p, t)]]
GhostOf == [p \in Rank |-> [t \in ToSet(Types) |-> GhostElements(p, t)]]
InfoOf == [p \in Rank |-> [t \in ToSet(Types) |-> PartitionInfo(p, t)]]
FirstTypes(c) == {Types[j] : j \in 1 .. c}

ElementsOf ==
  [p \in Rank |-> [c \in 0 .. NbTypes |-> [t \in ToSet(Types) |->
     IF t \in FirstTypes(c) THEN [local |-> LocalOf[p][t], ghost |-> GhostOf[p][t]]
     ELSE [local |-> <<>>, ghost |-> <<>>]]]]

NodesOf ==
  [p \in Rank |-> [c \in 0 .. NbTypes |->
     UNION {UNION {ToSet(Nodes(e)) : e \in ToSet(LocalOf[p][t] \o GhostOf[p][t])} :
              t \in FirstTypes(c)}]]

(* The elements that p sends to q, for a type and after the first c types. *)
Given(p, q, t) ==
  Among(All(t), {e \in ToSet(All(t)) : Partition(e) = p /\ q \in GhostParts(e)})

SchemeUpTo(p, q) ==
  LET f[c \in 0 .. NbTypes] ==
        IF c = 0 THEN <<>>
        ELSE IF Dim[Types[c]] = Dimension THEN f[c - 1] \o Given(p, q, Types[c]) ELSE f[c - 1]
  IN f
SchemeOf == [p \in Rank |-> [q \in Rank |-> SchemeUpTo(p, q)]]

(* The nodes of a rank, what it says of them, their owners, and what it is *)
(* told of them.                                                           *)
AllNodes == [p \in Rank |-> NodesOf[p][NbTypes]]
NodesIn(p, kind) ==
  UNION {UNION {ToSet(Nodes(e)) : e \in ToSet(ElementsOf[p][NbTypes][t][kind])} :
           t \in ToSet(Types)}

SaidOf ==
  [p \in Rank |-> [n \in AllNodes[p] |->
     IF n \notin NodesIn(p, "ghost") THEN "normal"
     ELSE IF n \in NodesIn(p, "local") THEN "master" ELSE "pure_ghost"]]

SayingOf(n, flag) == {p \in Rank : n \in AllNodes[p] /\ SaidOf[p][n] = flag}

OwnerOf ==
  [n \in Node |->
     IF SayingOf(n, "master") # {} THEN Min(SayingOf(n, "master"))
     ELSE Max(SayingOf(n, "normal"))]

FlagsOf ==
  [p \in Rank |-> [n \in AllNodes[p] |->
     IF SaidOf[p][n] = "master" /\ OwnerOf[n] # p THEN "slave" ELSE SaidOf[p][n]]]
PranksOf ==
  [p \in Rank |-> [n \in AllNodes[p] |-> IF FlagsOf[p][n] = "normal" THEN p ELSE OwnerOf[n]]]
ToOf ==
  [p \in Rank |-> [q \in Rank |->
     {n \in Node : q \in SayingOf(n, "master") \ {p} /\ OwnerOf[n] = p}]]

(* The periodic pairs of a rank, the nodes it misses, and what it is told. *)
PairsOf ==
  [p \in Rank |-> {<<n, PeriodicMaster[n]>> : n \in AllNodes[p] \cap DOMAIN PeriodicMaster}]
MissingOf == [p \in Rank |-> {pair[2] : pair \in PairsOf[p]} \ AllNodes[p]]
MissingInfoOf ==
  [p \in Rank |->
     [prank |-> [n \in MissingOf[p] |-> OwnerOf[n]],
      to |-> [q \in Rank |-> {n \in MissingOf[q] : OwnerOf[n] = p}]]]

(* What a rank has of its nodes, without and with those it misses.         *)
FlagsWithMissing ==
  [p \in Rank |-> [n \in AllNodes[p] \cup MissingOf[p] |->
     IF n \in AllNodes[p] THEN FlagsOf[p][n] ELSE "pure_ghost"]]
KeptPranks == [p \in Rank |-> [n \in Foreign(FlagsOf[p]) |-> PranksOf[p][n]]]
KeptWithMissing ==
  [p \in Rank |-> [n \in Foreign(FlagsOf[p]) \cup MissingOf[p] |->
     IF n \in MissingOf[p] THEN OwnerOf[n] ELSE PranksOf[p][n]]]
SendOf == [p \in Rank |-> [q \in Rank |-> Sorted(ToOf[p][q])]]
RecvOf == [p \in Rank |-> [q \in Rank |-> RecvNodes(p, FlagsOf[p], PranksOf[p], q)]]
SendWithMissing ==
  [p \in Rank |-> [q \in Rank |-> SendOf[p][q] \o Sorted(MissingInfoOf[p].to[q])]]
RecvWithMissing ==
  [p \in Rank |-> [q \in Rank |->
     RecvOf[p][q] \o Sorted({n \in MissingOf[p] : OwnerOf[n] = q})]]
-----------------------------------------------------------------------------
(* What is sent, and in which order.  A key is a number of types and the   *)
(* place at which a slave takes the message.                               *)

SlavePlace == {"sizes", "connectivities", "partitions", "tagNames", "tags", "groups", "nbNodes",
               "nodes", "nodeList", "coordinates", "flags", "types", "pranks", "masterInfo",
               "nodeGroups", "isPeriodic", "periodicPairs", "periodicNodes", "nodeTagNames",
               "nodeTags", "done"}
RootPlace == (SlavePlace \ {"coordinates", "pranks", "masterInfo"}) \cup {"missing"}

Key == (0 .. NbTypes) \X SlavePlace

DownMessage(q, c, place) ==
  CASE place = "sizes" -> Message(GenTag(root, c, "sizes"), ~(c = NbTypes))
    [] place = "connectivities" -> Message(GenTag(root, c, "connectivity"),
                              [local |-> LocalOf[q][Types[c + 1]],
                               ghost |-> GhostOf[q][Types[c + 1]]])
    [] place = "partitions" -> Message(GenTag(root, c, "partitions"), InfoOf[q][Types[c + 1]])
    [] place = "tagNames" -> Message(Broadcast, <<>>)
    [] place = "tags" -> Message(GenTag(root, c, "mesh_data"), <<>>)
    [] place = "groups" -> Message(GenTag(root, q, "element_group"), <<>>)
    [] place = "nbNodes" -> Message(Broadcast, <<>>)
    [] place = "coordinates" -> Message(GenTag(root, 0, "coordinates"), <<>>)
    [] place = "types" -> Message(GenTag(root, 0, "nodes_type"), FlagsOf[q])
    [] place = "pranks" -> Message(GenTag(root, 2, "nodes_type"), PranksOf[q])
    [] place = "masterInfo" -> Message(GenTag(root, 1, "nodes_type"), ToOf[q])
    [] place = "nodeGroups" -> Message(GenTag(root, q, "node_group"), <<>>)
    [] place = "isPeriodic" -> Message(Broadcast, <<>>)
    [] place = "periodicPairs" -> Message(GenTag(root, q, "periodic_slaves"), PairsOf[q])
    [] place = "periodicNodes" -> Message(GenTag(q, 1, "periodic_nodes"), MissingInfoOf[q])
    [] place = "nodeTagNames" -> Message(Broadcast, <<>>)
    [] place = "nodeTags" -> Message(GenTag(root, 0, "mesh_data"), Cardinality(AllNodes[q]))

Down == [q \in Rank |-> [k \in Key |-> DownMessage(q, k[1], k[2])]]

NextPlace(c, place) ==
  CASE place = "sizes" -> IF c = NbTypes THEN "nbNodes" ELSE "connectivities"
    [] place = "connectivities" -> "partitions"
    [] place = "partitions" -> IF mesh.tags THEN "tagNames" ELSE "groups"
    [] place = "tagNames" -> "tags"
    [] place = "tags" -> "groups"
    [] place = "groups" -> "sizes"
    [] place = "nbNodes" -> "coordinates"
    [] place = "coordinates" -> "types"
    [] place = "types" -> "pranks"
    [] place = "pranks" -> "masterInfo"
    [] place = "masterInfo" -> "nodeGroups"
    [] place = "nodeGroups" -> "isPeriodic"
    [] place = "isPeriodic" -> IF mesh.periodic THEN "periodicPairs" ELSE "nodeTagNames"
    [] place = "periodicPairs" -> "periodicNodes"
    [] place = "periodicNodes" -> "nodeTagNames"
    [] place = "nodeTagNames" -> IF mesh.tags THEN "nodeTags" ELSE "done"
    [] OTHER -> "done"

NextKey(c, place) ==
  <<IF place = "groups" /\ c # NbTypes THEN c + 1 ELSE c, NextPlace(c, place)>>

Succ == [k \in Key |-> NextKey(k[1], k[2])]

(* From a slave to the root, by the place at which the slave sends.        *)
UpKey == {"nodes", "nodeList", "flags", "periodicPairs", "end"}

UpMessage(q, place) ==
  [nodes |-> Message(GenTag(q, 0, "nb_nodes"), Cardinality(AllNodes[q])),
   nodeList |-> Message(GenTag(q, 0, "nodes"), AllNodes[q]),
   flags |-> Message(GenTag(q, 0, "nodes_type"), SaidOf[q]),
   periodicPairs |-> Message(GenTag(q, 0, "periodic_nodes"), MissingOf[q])][place]

Up == [q \in Rank |-> [k \in UpKey |-> UpMessage(q, k)]]
UpSucc ==
  [k \in UpKey |->
     [nodes |-> "nodeList", nodeList |-> "flags", flags |-> "periodicPairs",
      periodicPairs |-> "end", end |-> "end"][k]]

(* A channel holds the messages F[k] of the keys k from a up to b, without *)
(* b, in the order of N.                                                   *)
Flow(s, a, b, F, N) ==
  \E ks \in Seq(DOMAIN N) :
    /\ Len(ks) > 0 /\ ks[1] = a /\ ks[Len(ks)] = b
    /\ \A i \in 1 .. (Len(ks) - 1) : ks[i + 1] = N[ks[i]]
    /\ s = [i \in 1 .. (Len(ks) - 1) |-> F[ks[i]]]

SlaveDown(q) ==
  <<message_count[q],
    IF pc[q] \in {"nodes", "nodeList"} THEN "coordinates"
    ELSE IF pc[q] = "flags" THEN "types" ELSE pc[q]>>

RootDown(q) ==
  IF pc[root] = "sizes"
  THEN IF q < proc THEN Succ[<<message_count[root], "sizes">>] ELSE <<message_count[root], "sizes">>
  ELSE <<message_count[root],
         IF pc[root] \in {"nodes", "nodeList"}
         THEN IF q < proc THEN "types" ELSE "coordinates"
         ELSE IF pc[root] = "flags" THEN "types"
         ELSE IF pc[root] = "missing" THEN "periodicNodes" ELSE pc[root]>>

SlaveUp(q) ==
  IF pc[q] = "nodeList" THEN "nodeList"
  ELSE IF pc[q] \in {"coordinates", "flags"} THEN "flags"
  ELSE IF pc[q] \in {"types", "pranks", "masterInfo", "nodeGroups", "isPeriodic", "periodicPairs"}
  THEN "periodicPairs"
  ELSE IF pc[q] = "periodicNodes" THEN "end"
  ELSE IF pc[q] \in {"nodeTagNames", "nodeTags", "done"}
  THEN IF mesh.periodic THEN "end" ELSE "periodicPairs"
  ELSE "nodes"

RootUp(q) ==
  IF pc[root] = "nodes" THEN IF q < proc THEN "flags" ELSE "nodes"
  ELSE IF pc[root] = "nodeList"
  THEN IF q < proc THEN "flags" ELSE IF q = proc THEN "nodeList" ELSE "nodes"
  ELSE IF pc[root] = "flags" THEN IF q < proc THEN "periodicPairs" ELSE "flags"
  ELSE IF pc[root] \in {"types", "nodeGroups", "isPeriodic", "periodicPairs"} THEN "periodicPairs"
  ELSE IF pc[root] = "missing" THEN IF q < proc THEN "end" ELSE "periodicPairs"
  ELSE IF pc[root] = "periodicNodes" THEN "end"
  ELSE IF pc[root] \in {"nodeTagNames", "nodeTags", "done"}
  THEN IF mesh.periodic THEN "end" ELSE "periodicPairs"
  ELSE "nodes"

DownInv(q) == Flow(mail[root][q], SlaveDown(q), RootDown(q), Down[q], Succ)
UpInv(q) == Flow(mail[q][root], RootUp(q), SlaveUp(q), Up[q], UpSucc)
MailInv == \A q \in Slave : DownInv(q) /\ UpInv(q)
-----------------------------------------------------------------------------
(* What a rank has at its place.                                           *)

(* A value for each pair of ranks.                                         *)
Grid(f) == f = [p \in Rank |-> f[p]] /\ \A p \in Rank : f[p] = [q \in Rank |-> f[p][q]]

ShapeInv ==
  /\ mesh \in Mesh /\ part \in Partitions
  /\ pc = [p \in Rank |-> pc[p]]
  /\ message_count = [p \in Rank |-> message_count[p]]
  /\ proc \in 1 .. (NbProc - 1)
  /\ elements = [p \in Rank |-> elements[p]]
  /\ nodes_global_ids = [p \in Rank |-> nodes_global_ids[p]]
  /\ send_elements = [p \in Rank |-> send_elements[p]]
  /\ recv_elements = [p \in Rank |-> recv_elements[p]]
  /\ nodes_flags = [p \in Rank |-> nodes_flags[p]]
  /\ nodes_prank = [p \in Rank |-> nodes_prank[p]]
  /\ send_nodes = [p \in Rank |-> send_nodes[p]]
  /\ recv_nodes = [p \in Rank |-> recv_nodes[p]]
  /\ nodes_per_proc = [p \in Rank |-> nodes_per_proc[p]]
  /\ nodes_flags_per_proc = [p \in Rank |-> nodes_flags_per_proc[p]]
  /\ proc_missings = [p \in Rank |-> proc_missings[p]]

InLoop == {"connectivities", "partitions", "tagNames", "tags", "groups"}
Periodic == {"periodicPairs", "missing", "periodicNodes"}

PlaceInv(p) ==
  /\ pc[p] \in IF p = root THEN RootPlace ELSE SlavePlace
  /\ message_count[p] \in 0 .. NbTypes
  /\ pc[p] \in InLoop => message_count[p] < NbTypes
  /\ pc[p] \notin InLoop \cup {"sizes"} => message_count[p] = NbTypes
  /\ pc[p] \in Periodic => mesh.periodic

Filled(p) ==
  IF pc[p] \in {"partitions", "tagNames", "tags", "groups"} THEN message_count[p] + 1
  ELSE message_count[p]
Schemed(p) ==
  IF pc[p] \in {"tagNames", "tags", "groups"} THEN message_count[p] + 1 ELSE message_count[p]

AfterTypes == {"nodeGroups", "isPeriodic", "periodicPairs", "missing", "periodicNodes",
               "nodeTagNames", "nodeTags", "done"}
AfterNodes == {"nodeTagNames", "nodeTags", "done"}
HasPairs(p) == mesh.periodic /\ pc[p] \in {"missing", "periodicNodes"} \cup AfterNodes
HasMissing(p) == mesh.periodic /\ pc[p] \in AfterNodes

ElementsInv(p) ==
  /\ elements[p] = ElementsOf[p][Filled(p)]
  /\ nodes_global_ids[p] =
       IF HasPairs(p) THEN AllNodes[p] \cup MissingOf[p] ELSE NodesOf[p][Filled(p)]

SchemesInv(p) ==
  /\ send_elements[p] = [q \in Rank |-> SchemeOf[p][q][Schemed(p)]]
  /\ recv_elements[p] = [q \in Rank |-> SchemeOf[q][p][Schemed(p)]]

FlagsInv(p) ==
  /\ pc[p] \in {"pranks", "masterInfo"} \cup AfterTypes =>
       nodes_flags[p] = IF HasPairs(p) THEN FlagsWithMissing[p] ELSE FlagsOf[p]
  /\ pc[p] \in {"masterInfo"} \cup AfterTypes =>
       nodes_prank[p] = IF HasMissing(p) THEN KeptWithMissing[p] ELSE KeptPranks[p]

NodeSchemesInv(p) ==
  pc[p] \in AfterTypes =>
    /\ send_nodes[p] = IF HasMissing(p) THEN SendWithMissing[p] ELSE SendOf[p]
    /\ recv_nodes[p] = IF HasMissing(p) THEN RecvWithMissing[p] ELSE RecvOf[p]

RankInv(p) ==
  PlaceInv(p) /\ ElementsInv(p) /\ SchemesInv(p) /\ FlagsInv(p) /\ NodeSchemesInv(p)

(* What the root knows of the others.  In a loop that is of the ranks it   *)
(* has been at.                                                            *)
RootInv ==
  /\ pc[root] \notin {"sizes", "nodes", "nodeList", "flags", "missing"} => proc = 1
  /\ pc[root] \in {"nodes", "nodeList"} /\ proc > 1 =>
       \A q \in 0 .. (proc - 1) : nodes_per_proc[q] = AllNodes[q]
  /\ pc[root] \in {"flags", "types"} \cup AfterTypes =>
       \A q \in Rank : nodes_per_proc[q] = AllNodes[q]
  /\ pc[root] = "flags" /\ proc > 1 =>
       \A q \in 0 .. (proc - 1) : nodes_flags_per_proc[q] = SaidOf[q]
  /\ pc[root] = "types" => \A q \in Rank : nodes_flags_per_proc[q] = SaidOf[q]
  /\ pc[root] \in AfterTypes => nodes_pranks = OwnerOf
  /\ pc[root] = "missing" => \A q \in 0 .. (proc - 1) : proc_missings[q] = MissingOf[q]
  /\ pc[root] = "periodicNodes" => \A q \in Rank : proc_missings[q] = MissingOf[q]

IInv == ShapeInv /\ Grid(mail) /\ (\A p \in Rank : RankInv(p)) /\ RootInv /\ MailInv

-----------------------------------------------------------------------------
(* What a step leaves alone.                                               *)

MeshStays == mesh' = mesh /\ part' = part

SameRank(q) ==
  /\ pc'[q] = pc[q] /\ message_count'[q] = message_count[q]
  /\ elements'[q] = elements[q] /\ nodes_global_ids'[q] = nodes_global_ids[q]
  /\ send_elements'[q] = send_elements[q] /\ recv_elements'[q] = recv_elements[q]
  /\ nodes_flags'[q] = nodes_flags[q] /\ nodes_prank'[q] = nodes_prank[q]
  /\ send_nodes'[q] = send_nodes[q] /\ recv_nodes'[q] = recv_nodes[q]

SameMail(q) == mail'[root][q] = mail[root][q] /\ mail'[q][root] = mail[q][root]

-----------------------------------------------------------------------------
(* Channels.                                                               *)

(* A channel from a key to itself is empty.                                *)
LEMMA FlowEmpty ==
  ASSUME NEW F, NEW N, NEW a \in DOMAIN N
  PROVE  Flow(<<>>, a, a, F, N)
<1> DEFINE ks == <<a>>
<1>1. ks \in Seq(DOMAIN N) /\ Len(ks) = 1 /\ ks[1] = a
  OBVIOUS
<1>2. <<>> = [i \in 1 .. (Len(ks) - 1) |-> F[ks[i]]]
  <2>1. 1 .. (Len(ks) - 1) = {}
    BY <1>1
  <2>2. QED
    BY <2>1
<1> HIDE DEF ks
<1>3. \A i \in 1 .. (Len(ks) - 1) : ks[i + 1] = N[ks[i]]
  BY <1>1
<1>4. QED
  BY <1>1, <1>2, <1>3 DEF Flow

(* Sending the message of the key where the sender is puts it at the next. *)
LEMMA FlowAppend ==
  ASSUME NEW F, NEW K, NEW N \in [K -> K], NEW s, NEW a, NEW b, NEW m, m = F[b],
         Flow(s, a, b, F, N)
  PROVE  Flow(Append(s, m), a, N[b], F, N)
<1>1. PICK ks \in Seq(K) :
        /\ Len(ks) > 0 /\ ks[1] = a /\ ks[Len(ks)] = b
        /\ \A i \in 1 .. (Len(ks) - 1) : ks[i + 1] = N[ks[i]]
        /\ s = [i \in 1 .. (Len(ks) - 1) |-> F[ks[i]]]
  BY DEF Flow
<1> DEFINE L == Len(ks)
           ls == Append(ks, N[b])
<1>2. L \in Nat /\ L > 0 /\ \A i \in 1 .. L : ks[i] \in K
  BY <1>1
<1>3. b \in K /\ N[b] \in K
  BY <1>1, <1>2
<1>4. /\ ls \in Seq(K) /\ Len(ls) = L + 1
      /\ \A i \in 1 .. L : ls[i] = ks[i]
      /\ ls[L + 1] = N[b]
  BY <1>1, <1>3
<1>5. Append(s, m) = [i \in 1 .. L |-> F[ks[i]]]
  <2>1. s \in Seq({F[k] : k \in K}) /\ Len(s) = L - 1
    <3>1. s \in [1 .. (L - 1) -> {F[k] : k \in K}]
      BY <1>1, <1>2
    <3>2. L - 1 \in Nat
      BY <1>2
    <3>3. QED
      BY <3>1, <3>2
  <2>2. m \in {F[k] : k \in K}
    BY <1>3
  <2>3. DOMAIN Append(s, m) = 1 .. L
    BY <1>2, <2>1, <2>2
  <2>4. \A i \in 1 .. L : Append(s, m)[i] = F[ks[i]]
    BY <1>1, <1>2, <2>1, <2>2
  <2>5. Append(s, m) \in Seq({F[k] : k \in K})
    BY <2>1, <2>2
  <2>6. QED
    BY <2>3, <2>4, <2>5
<1> HIDE DEF ls
<1>6. \A i \in 1 .. (Len(ls) - 1) : ls[i + 1] = N[ls[i]]
  <2> SUFFICES ASSUME NEW i \in 1 .. L
               PROVE  ls[i + 1] = N[ls[i]]
    BY <1>2, <1>4
  <2>1. CASE i = L
    BY <1>1, <1>2, <1>4, <2>1
  <2>2. CASE i # L
    <3>1. i \in 1 .. (L - 1) /\ i \in 1 .. L /\ i + 1 \in 1 .. L
      BY <1>2, <2>2
    <3>2. ks[i + 1] = N[ks[i]] /\ ls[i] = ks[i] /\ ls[i + 1] = ks[i + 1]
      BY <1>1, <1>4, <3>1
    <3>3. QED
      BY <3>2
  <2>3. QED
    BY <2>1, <2>2
<1>7. Append(s, m) = [i \in 1 .. (Len(ls) - 1) |-> F[ls[i]]]
  <2>1. Len(ls) - 1 = L
    BY <1>2, <1>4
  <2>2. \A i \in 1 .. L : F[ks[i]] = F[ls[i]]
    BY <1>4
  <2>3. QED
    BY <1>5, <2>1, <2>2
<1>8. DOMAIN N = K /\ Len(ls) > 0 /\ ls[1] = a /\ ls[Len(ls)] = N[b]
  BY <1>1, <1>2, <1>4
<1>9. QED
  BY <1>4, <1>6, <1>7, <1>8 DEF Flow

(* What is in a channel was sent; its first message is the one of the key  *)
(* where the receiver is, and taking it puts that one at the next.         *)
LEMMA FlowTake ==
  ASSUME NEW F, NEW K, NEW N \in [K -> K], NEW s, NEW a, NEW b,
         Flow(s, a, b, F, N), s # <<>>
  PROVE  /\ \E S : s \in Seq(S)
         /\ s[1] = F[a]
         /\ 1 \in DOMAIN s
         /\ Flow(Tail(s), N[a], b, F, N)
<1>1. PICK ks \in Seq(K) :
        /\ Len(ks) > 0 /\ ks[1] = a /\ ks[Len(ks)] = b
        /\ \A i \in 1 .. (Len(ks) - 1) : ks[i + 1] = N[ks[i]]
        /\ s = [i \in 1 .. (Len(ks) - 1) |-> F[ks[i]]]
  BY DEF Flow
<1> DEFINE L == Len(ks)
           ls == Tail(ks)
<1>2. L \in Nat /\ L > 0 /\ \A i \in 1 .. L : ks[i] \in K
  BY <1>1
<1>3. L > 1
  <2> SUFFICES ASSUME ~ (L > 1)
               PROVE  FALSE
    OBVIOUS
  <2>1. 1 .. (L - 1) = {}
    BY <1>2
  <2>2. s = <<>>
    BY <1>1, <2>1
  <2>3. QED
    BY <2>2
<1>4. s \in [1 .. (L - 1) -> {F[k] : k \in K}] /\ L - 1 \in Nat
  BY <1>1, <1>2
<1>5. s \in Seq({F[k] : k \in K}) /\ Len(s) = L - 1 /\ 1 \in DOMAIN s /\ s[1] = F[a]
  BY <1>1, <1>3, <1>4
<1>6. /\ ls \in Seq(K) /\ Len(ls) = L - 1
      /\ \A i \in 1 .. (L - 1) : ls[i] = ks[i + 1]
  BY <1>1, <1>3
<1>7. /\ \A i \in 1 .. (L - 1) : ks[i + 1] = N[ks[i]]
      /\ s = [i \in 1 .. (L - 1) |-> F[ks[i]]]
  BY <1>1
<1> HIDE DEF ls, L
<1>8. Tail(s) = [i \in 1 .. (Len(ls) - 1) |-> F[ls[i]]]
  <2>1. PICK t : t = Tail(s)
    OBVIOUS
  <2>2. /\ t \in Seq({F[k] : k \in K}) /\ Len(t) = L - 2
        /\ \A i \in 1 .. (L - 2) : t[i] = s[i + 1]
    <3>1. s # <<>> /\ s \in Seq({F[k] : k \in K}) /\ Len(s) = L - 1 /\ L \in Nat
      BY <1>2, <1>5
    <3>2. t \in Seq({F[k] : k \in K}) /\ Len(t) = Len(s) - 1
      BY <2>1, <3>1, HeadTailProperties
    <3>3. \A i \in 1 .. Len(Tail(s)) : Tail(s)[i] = s[i + 1]
      BY <3>1, HeadTailProperties
    <3>4. Len(t) = L - 2
      BY <3>1, <3>2
    <3>5. QED
      BY <2>1, <3>2, <3>3, <3>4
  <2>3. DOMAIN t = 1 .. (L - 2) /\ t = [i \in 1 .. Len(t) |-> t[i]]
    BY <2>2, LenProperties
  <2>4. Len(ls) - 1 = L - 2
    BY <1>2, <1>6
  <2>5. ASSUME NEW i \in 1 .. (L - 2)
        PROVE  t[i] = F[ls[i]]
    <3>1. i \in 1 .. (L - 1) /\ i + 1 \in 1 .. (L - 1)
      BY <1>2, <1>3
    <3>2. t[i] = s[i + 1] /\ s[i + 1] = F[ks[i + 1]] /\ ls[i] = ks[i + 1]
      BY <1>7, <1>6, <2>2, <3>1
    <3>3. QED
      BY <3>2
  <2>6. QED
    BY <2>1, <2>2, <2>3, <2>4, <2>5
<1>9. \A i \in 1 .. (Len(ls) - 1) : ls[i + 1] = N[ls[i]]
  <2> SUFFICES ASSUME NEW i \in 1 .. (Len(ls) - 1)
               PROVE  ls[i + 1] = N[ls[i]]
    OBVIOUS
  <2>1. i \in 1 .. (L - 1) /\ i + 1 \in 1 .. (L - 1)
    BY <1>2, <1>3, <1>6
  <2>2. ls[i] = ks[i + 1] /\ ls[i + 1] = ks[(i + 1) + 1]
    BY <1>6, <2>1
  <2>3. ks[(i + 1) + 1] = N[ks[i + 1]]
    BY <1>7, <2>1
  <2>4. QED
    BY <2>2, <2>3
<1>10. DOMAIN N = K /\ Len(ls) > 0 /\ ls[1] = N[a] /\ ls[Len(ls)] = b
  BY <1>1, <1>2, <1>3, <1>6 DEF L
<1>11. Flow(Tail(s), N[a], b, F, N)
  BY <1>6, <1>8, <1>9, <1>10 DEF Flow
<1>12. QED
  BY <1>5, <1>11

(* The keys at the ends of a channel are keys.                             *)
LEMMA FlowEnds ==
  ASSUME NEW F, NEW K, NEW N \in [K -> K], NEW s, NEW a, NEW b, Flow(s, a, b, F, N)
  PROVE  a \in K /\ b \in K
BY DEF Flow

(* Removing the first message leaves the others.                           *)
LEMMA FirstRemoved ==
  ASSUME NEW S, NEW s \in Seq(S), s # <<>>
  PROVE  RemoveAt(s, 1) = Tail(s)
<1>1. Len(s) \in Nat /\ Len(s) > 0
  OBVIOUS
<1>2. SubSeq(s, 1, 1 - 1) = <<>>
  BY <1>1, SubSeqEmpty
<1>3. SubSeq(s, 1 + 1, Len(s)) = Tail(s)
  BY <1>1, TailIsSubSeq
<1>4. Tail(s) \in Seq(S) /\ <<>> \o Tail(s) = Tail(s)
  BY HeadTailProperties, ConcatEmptySeq
<1>5. RemoveAt(s, 1) = SubSeq(s, 1, 1 - 1) \o SubSeq(s, 1 + 1, Len(s))
  BY Zenon DEF RemoveAt
<1>6. QED
  BY <1>2, <1>3, <1>4, <1>5, Zenon

(* A message that a rank waits for, and that has the tag of the first one  *)
(* in the channel, is the first one.                                       *)
LEMMA FirstTaken ==
  ASSUME NEW F, NEW K, NEW N \in [K -> K], NEW a, NEW b, NEW p \in Rank, NEW q \in Rank,
         NEW tag, tag = F[a].tag, Flow(mail[q][p], a, b, F, N), Arrived(p, q, tag)
  PROVE  /\ Data(p, q, tag) = F[a].data
         /\ Took(p, q, tag) = [mail EXCEPT ![q][p] = Tail(@)]
         /\ Flow(Tail(mail[q][p]), N[a], b, F, N)
<1>1. PICK s : s = mail[q][p]
  OBVIOUS
<1>2. s # <<>>
  BY <1>1 DEF Arrived, Places
<1>3. PICK S :
        /\ s \in Seq(S) /\ s[1] = F[a] /\ 1 \in DOMAIN s
        /\ Flow(Tail(s), N[a], b, F, N)
  <2>1. Flow(s, a, b, F, N)
    BY <1>1
  <2>2. QED
    BY <1>2, <2>1, FlowTake
<1>4. Places(p, q, tag) = {i \in DOMAIN s : s[i].tag = tag}
  BY <1>1 DEF Places
<1>5. DOMAIN s = 1 .. Len(s) /\ Len(s) \in Nat
  BY <1>3, LenProperties
<1>6. First(p, q, tag) = 1
  <2>1. 1 \in Places(p, q, tag) /\ \A i \in Places(p, q, tag) : 1 <= i /\ i \in Nat
    BY <1>3, <1>4, <1>5
  <2>2. QED
    BY <2>1 DEF First, Min
<1>7. RemoveAt(s, 1) = Tail(s)
  BY <1>2, <1>3, FirstRemoved
<1>8. Data(p, q, tag) = F[a].data
  BY <1>1, <1>3, <1>6 DEF Data
<1>9. Took(p, q, tag) = [mail EXCEPT ![q][p] = Tail(@)]
  BY <1>1, <1>6, <1>7 DEF Took
<1>10. QED
  BY <1>1, <1>3, <1>8, <1>9

-----------------------------------------------------------------------------
(* Lists.                                                                  *)

(* The set of a sequence.                                                  *)
LEMMA SetOfSeq ==
  ASSUME NEW S, NEW s \in Seq(S)
  PROVE  ToSet(s) = {s[i] : i \in 1 .. Len(s)} /\ ToSet(s) \subseteq S
BY LenProperties, ElementOfSeq DEF ToSet

(* What is in a sequence after an element was appended.                    *)
LEMMA SetOfAppend ==
  ASSUME NEW S, NEW s \in Seq(S), NEW x \in S
  PROVE  ToSet(Append(s, x)) = ToSet(s) \cup {x}
<1>1. PICK r : r = Append(s, x)
  OBVIOUS
<1>2. /\ Len(s) \in Nat /\ DOMAIN s = 1 .. Len(s) /\ DOMAIN r = 1 .. (Len(s) + 1)
      /\ \A i \in 1 .. Len(s) : r[i] = s[i]
      /\ r[Len(s) + 1] = x
  BY <1>1
<1>3. \A i \in DOMAIN r : (i \in DOMAIN s /\ r[i] = s[i]) \/ r[i] = x
  BY <1>2
<1>4. (\A i \in DOMAIN s : i \in DOMAIN r /\ r[i] = s[i]) /\ \E i \in DOMAIN r : r[i] = x
  BY <1>2
<1>5. QED
  BY <1>1, <1>3, <1>4 DEF ToSet

(* What is in two sequences put together.                                  *)
LEMMA SetOfConcat ==
  ASSUME NEW S, NEW s \in Seq(S), NEW t \in Seq(S)
  PROVE  s \o t \in Seq(S) /\ ToSet(s \o t) = ToSet(s) \cup ToSet(t)
<1>1. PICK r : r = s \o t
  OBVIOUS
<1>2. /\ r \in Seq(S) /\ Len(r) = Len(s) + Len(t)
      /\ \A i \in 1 .. (Len(s) + Len(t)) : r[i] = IF i <= Len(s) THEN s[i] ELSE t[i - Len(s)]
  BY <1>1, ConcatProperties
<1>3. /\ Len(s) \in Nat /\ DOMAIN s = 1 .. Len(s)
      /\ Len(t) \in Nat /\ DOMAIN t = 1 .. Len(t)
      /\ DOMAIN r = 1 .. (Len(s) + Len(t))
  BY <1>2, LenProperties
<1>4. \A i \in DOMAIN r : (i \in DOMAIN s /\ r[i] = s[i]) \/
                          (i - Len(s) \in DOMAIN t /\ r[i] = t[i - Len(s)])
  BY <1>2, <1>3
<1>5. \A i \in DOMAIN s : i \in DOMAIN r /\ r[i] = s[i]
  BY <1>2, <1>3
<1>6. ASSUME NEW i \in DOMAIN t
      PROVE  i + Len(s) \in DOMAIN r /\ r[i + Len(s)] = t[i]
  <2>1. i + Len(s) \in 1 .. (Len(s) + Len(t)) /\ ~ (i + Len(s) <= Len(s))
        /\ (i + Len(s)) - Len(s) = i
    BY <1>3
  <2>2. QED
    BY <1>2, <1>3, <2>1
<1>7. ToSet(r) \subseteq ToSet(s) \cup ToSet(t)
  BY <1>4 DEF ToSet
<1>8. ToSet(s) \subseteq ToSet(r) /\ ToSet(t) \subseteq ToSet(r)
  BY <1>5, <1>6 DEF ToSet
<1>9. QED
  BY <1>1, <1>2, <1>7, <1>8

(* kept[n] has those of the first n members of a list that are in S.       *)
Keeps(kept, list, S) ==
  /\ kept[0] = <<>>
  /\ \A n \in 1 .. Len(list) :
       kept[n] = IF list[n] \in S THEN Append(kept[n - 1], list[n]) ELSE kept[n - 1]

(* The members of a list that are in S are found one after the other.      *)
LEMMA AmongFound ==
  ASSUME NEW X, NEW list \in Seq(X), NEW S
  PROVE  \E kept \in [0 .. Len(list) -> Seq(X)] :
           Keeps(kept, list, S) /\ Among(list, S) = kept[Len(list)]
<1> DEFINE L == Len(list)
           Defined(f) == f = [n \in 0 .. L |->
                               IF n = 0 THEN <<>>
                               ELSE IF list[n] \in S THEN Append(f[n - 1], list[n]) ELSE f[n - 1]]
           kept == CHOOSE f : Defined(f)
           step == [n \in 1 .. L |-> [s \in Seq(X) |->
                      IF list[n] \in S THEN Append(s, list[n]) ELSE s]]
<1>1. L \in Nat /\ \A n \in 1 .. L : list[n] \in X
  OBVIOUS
<1>2. Among(list, S) = kept[L]
  BY DEF Among
<1> HIDE DEF L
<1>3. step \in [1 .. L -> [Seq(X) -> Seq(X)]]
  BY <1>1
<1>4. <<>> \in Seq(X)
  OBVIOUS
<1>5. PICK f \in [0 .. L -> Seq(X)] :
        f[0] = <<>> /\ \A n \in 1 .. L : f[n] = step[n][f[n - 1]]
  <2> HIDE DEF step
  <2>1. PICK base : base = <<>>
    OBVIOUS
  <2>2. PICK D : D = Seq(X)
    OBVIOUS
  <2>3. base \in D /\ step \in [1 .. L -> [D -> D]]
    BY <1>3, <1>4, <2>1, <2>2
  <2>4. \E f \in [0 .. L -> D] : Recursive(f, L, base, step)
    BY <1>1, <2>3, RecursionExists
  <2>5. QED
    BY <2>1, <2>2, <2>4 DEF Recursive
<1>6. Defined(f)
  <2>1. ASSUME NEW n \in 0 .. L
        PROVE  f[n] = IF n = 0 THEN <<>>
                      ELSE IF list[n] \in S THEN Append(f[n - 1], list[n]) ELSE f[n - 1]
    <3>1. CASE n = 0
      BY <1>5, <3>1
    <3>2. CASE n # 0
      <4>1. n \in 1 .. L /\ n - 1 \in 0 .. L
        BY <1>1, <3>2
      <4>2. f[n - 1] \in Seq(X) /\ f[n] = step[n][f[n - 1]]
        BY <1>5, <4>1
      <4>3. QED
        BY <3>2, <4>1, <4>2
    <3>3. QED
      BY <3>1, <3>2
  <2>2. f = [n \in 0 .. L |-> f[n]]
    OBVIOUS
  <2>3. QED
    BY <2>1, <2>2
<1>7. Defined(kept)
  <2> HIDE DEF Defined
  <2>1. QED
    BY <1>6, Zenon
<1> HIDE DEF kept, step
<1>8. kept[0] = <<>>
  BY <1>1, <1>7
<1>9. ASSUME NEW n \in 1 .. L
      PROVE  kept[n] = IF list[n] \in S THEN Append(kept[n - 1], list[n]) ELSE kept[n - 1]
  <2>1. n \in 0 .. L /\ n # 0
    BY <1>1
  <2>2. QED
    BY <1>7, <2>1
<1>10. \A n \in 0 .. L : kept[n] \in Seq(X)
  <2> DEFINE Good == {n \in 0 .. L : kept[n] \in Seq(X)}
  <2>1. 0 \in Good
    <3>1. 0 \in 0 .. L
      BY <1>1
    <3>2. kept[0] \in Seq(X)
      BY <1>4, <1>8, Zenon
    <3>3. QED
      BY <3>1, <3>2
  <2>2. ASSUME NEW n \in 1 .. L, n - 1 \in Good
        PROVE  n \in Good
    <3>1. kept[n - 1] \in Seq(X) /\ list[n] \in X /\ n \in 0 .. L
      BY <1>1, <2>2
    <3>2. Append(kept[n - 1], list[n]) \in Seq(X)
      BY <3>1
    <3>3. QED
      BY <1>9, <3>1, <3>2
  <2>3. \A n \in 0 .. L : n \in Good
    <3> HIDE DEF Good
    <3>1. QED
      BY <1>1, <2>1, <2>2, UpToInduction
  <2>4. QED
    BY <2>3
<1>11. kept \in [0 .. L -> Seq(X)]
  <2>1. kept = [n \in 0 .. L |-> kept[n]]
    BY <1>7
  <2>2. QED
    BY <1>10, <2>1
<1>12. QED
  BY <1>2, <1>8, <1>9, <1>11 DEF L, Keeps

(* Nothing else is found that way.                                         *)
LEMMA AmongValue ==
  ASSUME NEW X, NEW list \in Seq(X), NEW S, NEW found, Keeps(found, list, S)
  PROVE  Among(list, S) = found[Len(list)]
<1>1. PICK L : L = Len(list)
  OBVIOUS
<1>2. PICK kept \in [0 .. Len(list) -> Seq(X)] :
        Keeps(kept, list, S) /\ Among(list, S) = kept[Len(list)]
  BY AmongFound
<1>3. L \in Nat
  BY <1>1
<1> DEFINE Good == {n \in 0 .. L : found[n] = kept[n]}
<1>4. 0 \in Good
  BY <1>2, <1>3 DEF Keeps
<1>5. ASSUME NEW n \in 1 .. L, n - 1 \in Good
      PROVE  n \in Good
  <2>1. n \in 0 .. L /\ found[n - 1] = kept[n - 1]
    BY <1>3, <1>5
  <2>2. n \in 1 .. Len(list)
    BY <1>1
  <2>3. found[n] = IF list[n] \in S THEN Append(kept[n - 1], list[n]) ELSE kept[n - 1]
    BY <2>1, <2>2 DEF Keeps
  <2>4. QED
    BY <1>2, <2>1, <2>2, <2>3 DEF Keeps
<1>6. \A n \in 0 .. L : n \in Good
  <2> HIDE DEF Good
  <2>1. QED
    BY <1>3, <1>4, <1>5, UpToInduction
<1>7. L \in 0 .. L
  BY <1>3
<1>8. QED
  BY <1>1, <1>2, <1>6, <1>7

(* Of an empty list nothing is kept.                                       *)
LEMMA AmongNone ==
  ASSUME NEW S
  PROVE  Among(<<>>, S) = <<>>
<1>1. <<>> \in Seq({}) /\ Len(<<>>) = 0 /\ 1 .. 0 = {}
  OBVIOUS
<1>2. PICK kept \in [0 .. Len(<<>>) -> Seq({})] :
        Keeps(kept, <<>>, S) /\ Among(<<>>, S) = kept[Len(<<>>)]
  BY <1>1, AmongFound
<1>3. QED
  BY <1>1, <1>2 DEF Keeps

(* Of a longer list the last one is kept if it is in S.                    *)
LEMMA AmongAppend ==
  ASSUME NEW X, NEW list \in Seq(X), NEW x \in X, NEW S
  PROVE  Among(Append(list, x), S) =
           IF x \in S THEN Append(Among(list, S), x) ELSE Among(list, S)
<1>1. PICK kept \in [0 .. Len(list) -> Seq(X)] :
        Keeps(kept, list, S) /\ Among(list, S) = kept[Len(list)]
  BY AmongFound
<1>2. PICK L : L = Len(list)
  OBVIOUS
<1>3. PICK longer : longer = Append(list, x)
  OBVIOUS
<1>4. /\ L \in Nat /\ longer \in Seq(X) /\ Len(longer) = L + 1
      /\ \A n \in 1 .. L : longer[n] = list[n]
      /\ longer[L + 1] = x
  BY <1>2, <1>3
<1>5. PICK last : last = IF x \in S THEN Append(kept[L], x) ELSE kept[L]
  OBVIOUS
<1>6. PICK found : found = [n \in 0 .. (L + 1) |-> IF n = L + 1 THEN last ELSE kept[n]]
  OBVIOUS
<1>7. /\ found[0] = <<>> /\ found[L + 1] = last /\ found[L] = kept[L]
      /\ \A n \in 0 .. L : found[n] = kept[n]
  BY <1>1, <1>4, <1>6 DEF Keeps
<1>8. ASSUME NEW n \in 1 .. Len(longer)
      PROVE  found[n] = IF longer[n] \in S THEN Append(found[n - 1], longer[n]) ELSE found[n - 1]
  <2>1. CASE n = L + 1
    <3>1. n - 1 = L
      BY <1>4, <2>1
    <3>2. QED
      BY <1>4, <1>5, <1>7, <2>1, <3>1
  <2>2. CASE n # L + 1
    <3>1. n \in 1 .. L /\ n \in 0 .. L /\ n - 1 \in 0 .. L
      BY <1>4, <2>2
    <3>2. kept[n] = IF list[n] \in S THEN Append(kept[n - 1], list[n]) ELSE kept[n - 1]
      BY <1>1, <1>2, <3>1 DEF Keeps
    <3>3. found[n] = kept[n] /\ found[n - 1] = kept[n - 1] /\ longer[n] = list[n]
      BY <1>4, <1>7, <3>1
    <3>4. QED
      BY <3>2, <3>3
  <2>3. QED
    BY <2>1, <2>2
<1>9. Among(longer, S) = found[Len(longer)]
  BY <1>4, <1>7, <1>8, AmongValue DEF Keeps
<1>10. Among(list, S) = kept[L]
  BY <1>1, <1>2
<1>11. QED
  BY <1>3, <1>4, <1>5, <1>7, <1>9, <1>10

(* Those that are kept are the members of the list that are in S.          *)
LEMMA AmongProperties ==
  ASSUME NEW X, NEW list \in Seq(X), NEW S
  PROVE  Among(list, S) \in Seq(X) /\ ToSet(Among(list, S)) = ToSet(list) \cap S
<1>1. PICK kept \in [0 .. Len(list) -> Seq(X)] :
        Keeps(kept, list, S) /\ Among(list, S) = kept[Len(list)]
  BY AmongFound
<1>2. PICK L : L = Len(list)
  OBVIOUS
<1>3. L \in Nat /\ \A n \in 1 .. L : list[n] \in X
  BY <1>2
<1> DEFINE Seen(n) == {list[i] : i \in 1 .. n}
           Good == {n \in 0 .. L : ToSet(kept[n]) = Seen(n) \cap S}
<1>4. 0 \in Good
  <2>1. ToSet(<<>>) = {}
    BY DEF ToSet
  <2>2. Seen(0) = {}
    OBVIOUS
  <2>3. ToSet(kept[0]) = Seen(0) \cap S
    BY <1>1, <2>1, <2>2 DEF Keeps
  <2>4. QED
    BY <1>3, <2>3
<1>5. ASSUME NEW n \in 1 .. L, n - 1 \in Good
      PROVE  n \in Good
  <2>1. n \in 0 .. L /\ ToSet(kept[n - 1]) = Seen(n - 1) \cap S
    BY <1>3, <1>5
  <2>2. kept[n] = IF list[n] \in S THEN Append(kept[n - 1], list[n]) ELSE kept[n - 1]
    BY <1>1, <1>2 DEF Keeps
  <2>3. Seen(n) = Seen(n - 1) \cup {list[n]}
    <3>1. 1 .. n = (1 .. (n - 1)) \cup {n}
      BY <1>3
    <3>2. QED
      BY <3>1
  <2>4. kept[n - 1] \in Seq(X) /\ list[n] \in X
    BY <1>1, <1>2, <1>3
  <2>5. ToSet(Append(kept[n - 1], list[n])) = ToSet(kept[n - 1]) \cup {list[n]}
    BY <2>4, SetOfAppend
  <2>6. ToSet(kept[n]) = Seen(n) \cap S
    <3> HIDE DEF Seen
    <3>1. CASE list[n] \in S
      BY <2>1, <2>2, <2>3, <2>5, <3>1
    <3>2. CASE list[n] \notin S
      BY <2>1, <2>2, <2>3, <3>2
    <3>3. QED
      BY <3>1, <3>2
  <2>7. QED
    BY <2>1, <2>6
<1>6. \A n \in 0 .. L : n \in Good
  <2> HIDE DEF Good
  <2>1. QED
    BY <1>3, <1>4, <1>5, UpToInduction
<1>7. ToSet(kept[L]) = Seen(L) \cap S
  <2>1. L \in 0 .. L
    BY <1>3
  <2> HIDE DEF Seen
  <2>2. QED
    BY <1>6, <2>1
<1>8. Seen(L) = ToSet(list)
  BY <1>2, SetOfSeq
<1>9. kept[L] \in Seq(X)
  BY <1>1, <1>2, <1>3
<1>10. QED
  <2> HIDE DEF Seen
  <2>1. QED
    BY <1>1, <1>2, <1>7, <1>8, <1>9

(* Keeping twice keeps those that are in both sets.                        *)
LEMMA AmongTwice ==
  ASSUME NEW X, NEW list \in Seq(X), NEW S, NEW T
  PROVE  Among(Among(list, S), T) = Among(list, S \cap T)
<1>1. PICK kept \in [0 .. Len(list) -> Seq(X)] :
        Keeps(kept, list, S) /\ Among(list, S) = kept[Len(list)]
  BY AmongFound
<1>2. PICK found : found = [n \in 0 .. Len(list) |-> Among(kept[n], T)]
  OBVIOUS
<1>3. Len(list) \in Nat /\ \A n \in 1 .. Len(list) : list[n] \in X
  OBVIOUS
<1>4. found[0] = <<>>
  BY <1>1, <1>2, <1>3, AmongNone DEF Keeps
<1>5. ASSUME NEW n \in 1 .. Len(list)
      PROVE  found[n] = IF list[n] \in S \cap T THEN Append(found[n - 1], list[n])
                        ELSE found[n - 1]
  <2>1. n \in 0 .. Len(list) /\ n - 1 \in 0 .. Len(list)
    BY <1>3
  <2>2. found[n] = Among(kept[n], T) /\ found[n - 1] = Among(kept[n - 1], T)
    BY <1>2, <2>1
  <2>3. kept[n - 1] \in Seq(X) /\ list[n] \in X
    BY <1>1, <1>3, <2>1
  <2>4. Among(Append(kept[n - 1], list[n]), T) =
          IF list[n] \in T THEN Append(Among(kept[n - 1], T), list[n]) ELSE Among(kept[n - 1], T)
    <3>1. PICK s : s = kept[n - 1]
      OBVIOUS
    <3>2. PICK x : x = list[n]
      OBVIOUS
    <3>3. s \in Seq(X) /\ x \in X
      BY <2>3, <3>1, <3>2
    <3>4. Among(Append(s, x), T) = IF x \in T THEN Append(Among(s, T), x) ELSE Among(s, T)
      BY <3>3, AmongAppend
    <3>5. QED
      BY <3>1, <3>2, <3>4
  <2>5. kept[n] = IF list[n] \in S THEN Append(kept[n - 1], list[n]) ELSE kept[n - 1]
    BY <1>1 DEF Keeps
  <2>6. CASE list[n] \in S
    BY <2>2, <2>4, <2>5, <2>6
  <2>7. CASE list[n] \notin S
    BY <2>2, <2>5, <2>7
  <2>8. QED
    BY <2>6, <2>7
<1>6. Among(list, S \cap T) = found[Len(list)]
  BY <1>4, <1>5, AmongValue DEF Keeps
<1>7. Len(list) \in 0 .. Len(list)
  BY <1>3
<1>8. found[Len(list)] = Among(kept[Len(list)], T)
  BY <1>2, <1>7
<1>9. QED
  BY <1>1, <1>6, <1>8

-----------------------------------------------------------------------------
(* What the distribution computes stays the same.                          *)

(* The mesh and the partition do not change, and so the partitions of the  *)
(* elements do not.                                                        *)
LEMMA PartsAreRigid ==
  ASSUME mesh' = mesh, part' = part
  PROVE  \A e : Partition(e)' = Partition(e) /\ GhostParts(e)' = GhostParts(e)
<1>1. \A n : Tweaked(n)' = Tweaked(n)
  BY DEF Tweaked
<1>2. \A c : TweakedNodes(c)' = TweakedNodes(c)
  BY <1>1 DEF TweakedNodes
<1>3. \A c : CellGhostParts(c)' = CellGhostParts(c)
  BY <1>2 DEF CellGhostParts
<1>4. \A e : Partition(e)' = Partition(e)
  BY DEF Partition
<1>5. \A e : GhostParts(e)' = GhostParts(e)
  BY <1>3, <1>4 DEF GhostParts
<1>6. QED
  BY <1>4, <1>5

(* Nor does what is computed from them.                                    *)
LEMMA ElementsAreRigid ==
  ASSUME mesh' = mesh, part' = part
  PROVE  /\ LocalOf' = LocalOf /\ GhostOf' = GhostOf /\ InfoOf' = InfoOf
         /\ ElementsOf' = ElementsOf /\ NodesOf' = NodesOf /\ SchemeOf' = SchemeOf
<1>1. \A e : Partition(e)' = Partition(e) /\ GhostParts(e)' = GhostParts(e)
  BY PartsAreRigid
<1>2. \A p, t : {e \in ToSet(All(t)) : Partition(e) = p}' = {e \in ToSet(All(t)) : Partition(e) = p}
  BY <1>1
<1>3. \A p, t : LocalElements(p, t)' = LocalElements(p, t)
  BY <1>2 DEF LocalElements
<1>4. \A p, t : {e \in ToSet(All(t)) : p \in GhostParts(e)}' =
                  {e \in ToSet(All(t)) : p \in GhostParts(e)}
  BY <1>1
<1>5. \A p, t : GhostElements(p, t)' = GhostElements(p, t)
  BY <1>4 DEF GhostElements
<1>6. LocalOf' = LocalOf
  BY <1>3 DEF LocalOf
<1>7. GhostOf' = GhostOf
  BY <1>5 DEF GhostOf
<1>8. \A p, t : PartitionInfo(p, t)' = PartitionInfo(p, t)
  BY <1>1, <1>3, <1>5 DEF PartitionInfo
<1>9. InfoOf' = InfoOf
  BY <1>8 DEF InfoOf
<1>10. ElementsOf' = ElementsOf
  BY <1>6, <1>7 DEF ElementsOf
<1>11. NodesOf' = NodesOf
  BY <1>6, <1>7 DEF NodesOf
<1>12. \A p, q, t : {e \in ToSet(All(t)) : Partition(e) = p /\ q \in GhostParts(e)}' =
                      {e \in ToSet(All(t)) : Partition(e) = p /\ q \in GhostParts(e)}
  BY <1>1
<1>13. \A p, q, t : Given(p, q, t)' = Given(p, q, t)
  BY <1>12 DEF Given
<1>14. \A p, q : SchemeUpTo(p, q)' = SchemeUpTo(p, q)
  BY <1>13 DEF SchemeUpTo
<1>15. SchemeOf' = SchemeOf
  BY <1>14 DEF SchemeOf
<1>16. QED
  BY <1>6, <1>7, <1>9, <1>10, <1>11, <1>15

(* What is computed of the nodes stays the same too.                       *)
LEMMA NodesAreRigid ==
  ASSUME mesh' = mesh, part' = part
  PROVE  /\ AllNodes' = AllNodes /\ SaidOf' = SaidOf /\ OwnerOf' = OwnerOf
         /\ FlagsOf' = FlagsOf /\ PranksOf' = PranksOf /\ ToOf' = ToOf
         /\ PairsOf' = PairsOf /\ MissingOf' = MissingOf /\ MissingInfoOf' = MissingInfoOf
         /\ FlagsWithMissing' = FlagsWithMissing
         /\ KeptPranks' = KeptPranks /\ KeptWithMissing' = KeptWithMissing
         /\ SendOf' = SendOf /\ RecvOf' = RecvOf
         /\ SendWithMissing' = SendWithMissing /\ RecvWithMissing' = RecvWithMissing
<1>1. ElementsOf' = ElementsOf /\ NodesOf' = NodesOf
  BY ElementsAreRigid
<1>2. AllNodes' = AllNodes
  BY <1>1 DEF AllNodes
<1>3. \A p, kind : NodesIn(p, kind)' = NodesIn(p, kind)
  BY <1>1 DEF NodesIn
<1>4. SaidOf' = SaidOf
  BY <1>2, <1>3 DEF SaidOf
<1>5. \A n, flag : SayingOf(n, flag)' = SayingOf(n, flag)
  BY <1>2, <1>4 DEF SayingOf
<1>6. OwnerOf' = OwnerOf
  BY <1>5 DEF OwnerOf
<1>7. FlagsOf' = FlagsOf
  BY <1>2, <1>4, <1>6 DEF FlagsOf
<1>8. PranksOf' = PranksOf
  BY <1>2, <1>6, <1>7 DEF PranksOf
<1>9. ToOf' = ToOf
  BY <1>5, <1>6 DEF ToOf
<1>10. PairsOf' = PairsOf
  BY <1>2 DEF PairsOf
<1>11. MissingOf' = MissingOf
  BY <1>2, <1>10 DEF MissingOf
<1>12. MissingInfoOf' = MissingInfoOf
  BY <1>6, <1>11 DEF MissingInfoOf
<1>13. FlagsWithMissing' = FlagsWithMissing
  BY <1>2, <1>7, <1>11 DEF FlagsWithMissing
<1>14. KeptPranks' = KeptPranks
  BY <1>7, <1>8 DEF KeptPranks
<1>15. KeptWithMissing' = KeptWithMissing
  BY <1>6, <1>7, <1>8, <1>11 DEF KeptWithMissing
<1>16. SendOf' = SendOf
  BY <1>9 DEF SendOf
<1>17. RecvOf' = RecvOf
  BY <1>7, <1>8 DEF RecvOf
<1>18. SendWithMissing' = SendWithMissing
  BY <1>12, <1>16 DEF SendWithMissing
<1>19. RecvWithMissing' = RecvWithMissing
  BY <1>6, <1>11, <1>17 DEF RecvWithMissing
<1>20. QED
  BY <1>2, <1>4, <1>6, <1>7, <1>8, <1>9, <1>10, <1>11, <1>12, <1>13, <1>14, <1>15, <1>16,
     <1>17, <1>18, <1>19

(* What is sent, and in which order, stays the same.                       *)
LEMMA KeysAreRigid ==
  ASSUME mesh' = mesh, part' = part
  PROVE  Down' = Down /\ Succ' = Succ /\ Up' = Up
<1>1. /\ LocalOf' = LocalOf /\ GhostOf' = GhostOf /\ InfoOf' = InfoOf
  BY ElementsAreRigid
<1>2. /\ AllNodes' = AllNodes /\ SaidOf' = SaidOf /\ FlagsOf' = FlagsOf /\ PranksOf' = PranksOf
      /\ ToOf' = ToOf /\ PairsOf' = PairsOf /\ MissingOf' = MissingOf
      /\ MissingInfoOf' = MissingInfoOf
  BY NodesAreRigid
<1>3. \A q, c, place : DownMessage(q, c, place)' = DownMessage(q, c, place)
  BY <1>1, <1>2 DEF DownMessage
<1>4. \A c, place : NextKey(c, place)' = NextKey(c, place)
  BY DEF NextKey, NextPlace
<1>5. \A q, place : UpMessage(q, place)' = UpMessage(q, place)
  BY <1>2 DEF UpMessage
<1>6. Down' = Down
  BY <1>3 DEF Down
<1>7. Succ' = Succ
  BY <1>4 DEF Succ
<1>8. Up' = Up
  BY <1>5 DEF Up
<1>9. QED
  BY <1>6, <1>7, <1>8

-----------------------------------------------------------------------------
(* What is sent and in which order, key by key.                            *)

(* Places and keys.                                                        *)
LEMMA Numbers ==
  /\ NbTypes \in Nat
  /\ root \in Rank /\ root \notin Slave /\ Slave \subseteq Rank /\ Rank \subseteq Nat
  /\ Slave = 1 .. (NbProc - 1) /\ Rank = {root} \cup Slave /\ 1 \in Slave
  /\ \A c \in 1 .. NbTypes : Types[c] \in ToSet(Types)
<1>1. Types \in Seq(DOMAIN Dim)
  BY TypesAssumption
<1>2. NbTypes \in Nat /\ DOMAIN Types = 1 .. NbTypes
  BY <1>1, LenProperties DEF NbTypes
<1>3. \A c \in 1 .. NbTypes : Types[c] \in ToSet(Types)
  BY <1>2 DEF ToSet
<1>4. QED
  BY <1>2, <1>3, NbProcAssumption DEF Rank, Slave, root

(* Every place of a slave makes a key.                                     *)
LEMMA KeysAreKeys ==
  ASSUME NEW c \in 0 .. NbTypes, NEW place \in SlavePlace
  PROVE  <<c, place>> \in Key
BY DEF Key

(* The message of a key.                                                   *)
LEMMA MessageOfKey ==
  ASSUME NEW q \in Rank, NEW c \in 0 .. NbTypes, NEW place \in SlavePlace
  PROVE  Down[q][<<c, place>>] = DownMessage(q, c, place)
BY KeysAreKeys DEF Down

(* What a slave is sent.                                                   *)
LEMMA DownMessages ==
  ASSUME NEW q \in Rank, NEW c \in 0 .. NbTypes
  PROVE  /\ Down[q][<<c, "sizes">>] = Message(GenTag(root, c, "sizes"), ~(c = NbTypes))
         /\ Down[q][<<c, "connectivities">>] =
                Message(GenTag(root, c, "connectivity"),
                  [local |-> LocalOf[q][Types[c + 1]], ghost |-> GhostOf[q][Types[c + 1]]])
         /\ Down[q][<<c, "partitions">>] =
                Message(GenTag(root, c, "partitions"), InfoOf[q][Types[c + 1]])
         /\ Down[q][<<c, "tagNames">>] = Message(Broadcast, <<>>)
         /\ Down[q][<<c, "tags">>] = Message(GenTag(root, c, "mesh_data"), <<>>)
         /\ Down[q][<<c, "groups">>] = Message(GenTag(root, q, "element_group"), <<>>)
         /\ Down[q][<<c, "nbNodes">>] = Message(Broadcast, <<>>)
         /\ Down[q][<<c, "coordinates">>] = Message(GenTag(root, 0, "coordinates"), <<>>)
         /\ Down[q][<<c, "types">>] = Message(GenTag(root, 0, "nodes_type"), FlagsOf[q])
         /\ Down[q][<<c, "pranks">>] = Message(GenTag(root, 2, "nodes_type"), PranksOf[q])
         /\ Down[q][<<c, "masterInfo">>] = Message(GenTag(root, 1, "nodes_type"), ToOf[q])
         /\ Down[q][<<c, "nodeGroups">>] = Message(GenTag(root, q, "node_group"), <<>>)
         /\ Down[q][<<c, "isPeriodic">>] = Message(Broadcast, <<>>)
         /\ Down[q][<<c, "periodicPairs">>] =
                Message(GenTag(root, q, "periodic_slaves"), PairsOf[q])
         /\ Down[q][<<c, "periodicNodes">>] =
                Message(GenTag(q, 1, "periodic_nodes"), MissingInfoOf[q])
         /\ Down[q][<<c, "nodeTagNames">>] = Message(Broadcast, <<>>)
         /\ Down[q][<<c, "nodeTags">>] =
                Message(GenTag(root, 0, "mesh_data"), Cardinality(AllNodes[q]))
<1>1. Down[q][<<c, "sizes">>] = Message(GenTag(root, c, "sizes"), ~(c = NbTypes))
  BY MessageOfKey DEF SlavePlace, DownMessage
<1>2. Down[q][<<c, "connectivities">>] =
            Message(GenTag(root, c, "connectivity"),
              [local |-> LocalOf[q][Types[c + 1]], ghost |-> GhostOf[q][Types[c + 1]]])
  BY MessageOfKey DEF SlavePlace, DownMessage
<1>3. Down[q][<<c, "partitions">>] =
            Message(GenTag(root, c, "partitions"), InfoOf[q][Types[c + 1]])
  <2>1. "partitions" \in SlavePlace
    BY DEF SlavePlace
  <2>2. Down[q][<<c, "partitions">>] = DownMessage(q, c, "partitions")
    BY <2>1, MessageOfKey
  <2>3. QED
    BY <2>2, Zenon DEF DownMessage
<1>4. Down[q][<<c, "tagNames">>] = Message(Broadcast, <<>>)
  BY MessageOfKey DEF SlavePlace, DownMessage
<1>5. Down[q][<<c, "tags">>] = Message(GenTag(root, c, "mesh_data"), <<>>)
  BY MessageOfKey DEF SlavePlace, DownMessage
<1>6. Down[q][<<c, "groups">>] = Message(GenTag(root, q, "element_group"), <<>>)
  BY MessageOfKey DEF SlavePlace, DownMessage
<1>7. Down[q][<<c, "nbNodes">>] = Message(Broadcast, <<>>)
  BY MessageOfKey DEF SlavePlace, DownMessage
<1>8. Down[q][<<c, "coordinates">>] = Message(GenTag(root, 0, "coordinates"), <<>>)
  BY MessageOfKey DEF SlavePlace, DownMessage
<1>9. Down[q][<<c, "types">>] = Message(GenTag(root, 0, "nodes_type"), FlagsOf[q])
  BY MessageOfKey DEF SlavePlace, DownMessage
<1>10. Down[q][<<c, "pranks">>] = Message(GenTag(root, 2, "nodes_type"), PranksOf[q])
  BY MessageOfKey DEF SlavePlace, DownMessage
<1>11. Down[q][<<c, "masterInfo">>] = Message(GenTag(root, 1, "nodes_type"), ToOf[q])
  BY MessageOfKey DEF SlavePlace, DownMessage
<1>12. Down[q][<<c, "nodeGroups">>] = Message(GenTag(root, q, "node_group"), <<>>)
  BY MessageOfKey DEF SlavePlace, DownMessage
<1>13. Down[q][<<c, "isPeriodic">>] = Message(Broadcast, <<>>)
  BY MessageOfKey DEF SlavePlace, DownMessage
<1>14. Down[q][<<c, "periodicPairs">>] = Message(GenTag(root, q, "periodic_slaves"), PairsOf[q])
  BY MessageOfKey DEF SlavePlace, DownMessage
<1>15. Down[q][<<c, "periodicNodes">>] =
            Message(GenTag(q, 1, "periodic_nodes"), MissingInfoOf[q])
  BY MessageOfKey DEF SlavePlace, DownMessage
<1>16. Down[q][<<c, "nodeTagNames">>] = Message(Broadcast, <<>>)
  BY MessageOfKey DEF SlavePlace, DownMessage
<1>17. Down[q][<<c, "nodeTags">>] =
            Message(GenTag(root, 0, "mesh_data"), Cardinality(AllNodes[q]))
  BY MessageOfKey DEF SlavePlace, DownMessage
<1>18. QED
  BY <1>1, <1>2, <1>3, <1>4, <1>5, <1>6, <1>7, <1>8, <1>9, <1>10, <1>11, <1>12, <1>13,
     <1>14, <1>15, <1>16, <1>17

(* The keys follow one another.                                            *)
LEMMA KeysFollow ==
  /\ Succ \in [Key -> Key]
  /\ \A c \in 0 .. NbTypes, place \in SlavePlace : Succ[<<c, place>>] = NextKey(c, place)
<1>1. ASSUME NEW c \in 0 .. NbTypes, NEW place \in SlavePlace
      PROVE  NextKey(c, place) \in Key
  <2>1. NextPlace(c, place) \in SlavePlace
    BY DEF NextPlace, SlavePlace
  <2>2. (IF place = "groups" /\ c # NbTypes THEN c + 1 ELSE c) \in 0 .. NbTypes
    BY Numbers
  <2>3. QED
    BY <2>1, <2>2, KeysAreKeys DEF NextKey
<1>2. ASSUME NEW k \in Key
      PROVE  NextKey(k[1], k[2]) \in Key
  BY <1>1 DEF Key
<1>3. Succ \in [Key -> Key]
  BY <1>2 DEF Succ
<1>4. \A c \in 0 .. NbTypes, place \in SlavePlace : Succ[<<c, place>>] = NextKey(c, place)
  BY KeysAreKeys DEF Succ
<1>5. QED
  BY <1>3, <1>4

(* What comes after each message to a slave.                               *)
LEMMA NextKeys ==
  ASSUME NEW c \in 0 .. NbTypes
  PROVE  /\ Succ[<<c, "sizes">>] =
                IF c = NbTypes THEN <<c, "nbNodes">> ELSE <<c, "connectivities">>
         /\ Succ[<<c, "connectivities">>] = <<c, "partitions">>
         /\ Succ[<<c, "partitions">>] = <<c, IF mesh.tags THEN "tagNames" ELSE "groups">>
         /\ Succ[<<c, "tagNames">>] = <<c, "tags">>
         /\ Succ[<<c, "tags">>] = <<c, "groups">>
         /\ Succ[<<c, "groups">>] = <<IF c # NbTypes THEN c + 1 ELSE c, "sizes">>
         /\ Succ[<<c, "nbNodes">>] = <<c, "coordinates">>
         /\ Succ[<<c, "coordinates">>] = <<c, "types">>
         /\ Succ[<<c, "types">>] = <<c, "pranks">>
         /\ Succ[<<c, "pranks">>] = <<c, "masterInfo">>
         /\ Succ[<<c, "masterInfo">>] = <<c, "nodeGroups">>
         /\ Succ[<<c, "nodeGroups">>] = <<c, "isPeriodic">>
         /\ Succ[<<c, "isPeriodic">>] =
                <<c, IF mesh.periodic THEN "periodicPairs" ELSE "nodeTagNames">>
         /\ Succ[<<c, "periodicPairs">>] = <<c, "periodicNodes">>
         /\ Succ[<<c, "periodicNodes">>] = <<c, "nodeTagNames">>
         /\ Succ[<<c, "nodeTagNames">>] = <<c, IF mesh.tags THEN "nodeTags" ELSE "done">>
         /\ Succ[<<c, "nodeTags">>] = <<c, "done">>
<1>1. Succ[<<c, "sizes">>] = IF c = NbTypes THEN <<c, "nbNodes">> ELSE <<c, "connectivities">>
  BY KeysFollow DEF SlavePlace, NextKey, NextPlace
<1>2. Succ[<<c, "connectivities">>] = <<c, "partitions">>
  BY KeysFollow DEF SlavePlace, NextKey, NextPlace
<1>3. Succ[<<c, "partitions">>] = <<c, IF mesh.tags THEN "tagNames" ELSE "groups">>
  BY KeysFollow DEF SlavePlace, NextKey, NextPlace
<1>4. Succ[<<c, "tagNames">>] = <<c, "tags">>
  BY KeysFollow DEF SlavePlace, NextKey, NextPlace
<1>5. Succ[<<c, "tags">>] = <<c, "groups">>
  BY KeysFollow DEF SlavePlace, NextKey, NextPlace
<1>6. Succ[<<c, "groups">>] = <<IF c # NbTypes THEN c + 1 ELSE c, "sizes">>
  BY KeysFollow DEF SlavePlace, NextKey, NextPlace
<1>7. Succ[<<c, "nbNodes">>] = <<c, "coordinates">>
  BY KeysFollow DEF SlavePlace, NextKey, NextPlace
<1>8. Succ[<<c, "coordinates">>] = <<c, "types">>
  BY KeysFollow DEF SlavePlace, NextKey, NextPlace
<1>9. Succ[<<c, "types">>] = <<c, "pranks">>
  BY KeysFollow DEF SlavePlace, NextKey, NextPlace
<1>10. Succ[<<c, "pranks">>] = <<c, "masterInfo">>
  BY KeysFollow DEF SlavePlace, NextKey, NextPlace
<1>11. Succ[<<c, "masterInfo">>] = <<c, "nodeGroups">>
  BY KeysFollow DEF SlavePlace, NextKey, NextPlace
<1>12. Succ[<<c, "nodeGroups">>] = <<c, "isPeriodic">>
  BY KeysFollow DEF SlavePlace, NextKey, NextPlace
<1>13. Succ[<<c, "isPeriodic">>] = <<c, IF mesh.periodic THEN "periodicPairs" ELSE "nodeTagNames">>
  BY KeysFollow DEF SlavePlace, NextKey, NextPlace
<1>14. Succ[<<c, "periodicPairs">>] = <<c, "periodicNodes">>
  BY KeysFollow DEF SlavePlace, NextKey, NextPlace
<1>15. Succ[<<c, "periodicNodes">>] = <<c, "nodeTagNames">>
  BY KeysFollow DEF SlavePlace, NextKey, NextPlace
<1>16. Succ[<<c, "nodeTagNames">>] = <<c, IF mesh.tags THEN "nodeTags" ELSE "done">>
  BY KeysFollow DEF SlavePlace, NextKey, NextPlace
<1>17. Succ[<<c, "nodeTags">>] = <<c, "done">>
  BY KeysFollow DEF SlavePlace, NextKey, NextPlace
<1>18. QED
  BY <1>1, <1>2, <1>3, <1>4, <1>5, <1>6, <1>7, <1>8, <1>9, <1>10, <1>11, <1>12, <1>13,
     <1>14, <1>15, <1>16, <1>17

(* What the root is sent, and in which order.                              *)
LEMMA UpMessages ==
  ASSUME NEW q \in Rank
  PROVE  /\ Up[q]["nodes"] = Message(GenTag(q, 0, "nb_nodes"), Cardinality(AllNodes[q]))
         /\ Up[q]["nodeList"] = Message(GenTag(q, 0, "nodes"), AllNodes[q])
         /\ Up[q]["flags"] = Message(GenTag(q, 0, "nodes_type"), SaidOf[q])
         /\ Up[q]["periodicPairs"] = Message(GenTag(q, 0, "periodic_nodes"), MissingOf[q])
<1>1. \A k \in UpKey : Up[q][k] = UpMessage(q, k)
  BY DEF Up
<1>2. QED
  BY <1>1 DEF UpMessage, UpKey

(* What comes after each message to the root.                              *)
LEMMA UpKeysFollow ==
  /\ UpSucc \in [UpKey -> UpKey]
  /\ UpSucc["nodes"] = "nodeList" /\ UpSucc["nodeList"] = "flags"
  /\ UpSucc["flags"] = "periodicPairs" /\ UpSucc["periodicPairs"] = "end"
BY DEF UpSucc, UpKey

-----------------------------------------------------------------------------
(* What a type adds.                                                       *)

(* The lists of the elements of a type.                                    *)
LEMMA ElementLists ==
  ASSUME NEW t \in ToSet(Types)
  PROVE  /\ All(t) \in Seq(Element)
         /\ \A e \in ToSet(All(t)) : e[1] = t
<1>1. Types \in Seq(DOMAIN Dim) /\ Connectivity[t] \in Seq(Seq(Nat))
  <2>1. t \in DOMAIN Dim
    BY TypesAssumption, SetOfSeq
  <2>2. QED
    BY <2>1, TypesAssumption
<1>2. PICK n \in Nat : DOMAIN Connectivity[t] = 1 .. n
  BY <1>1, LenProperties
<1>3. All(t) = [i \in 1 .. n |-> <<t, i>>]
  BY <1>2 DEF All
<1>4. ToSet(All(t)) = {<<t, i>> : i \in 1 .. n}
  BY <1>3 DEF ToSet
<1>5. ToSet(All(t)) \subseteq Element
  BY DEF Element
<1>6. \A i \in 1 .. n : <<t, i>> \in Element
  BY <1>4, <1>5
<1>7. All(t) \in Seq(Element)
  BY <1>3, <1>6
<1>8. QED
  BY <1>4, <1>7

(* The lists of a rank.                                                    *)
LEMMA RankLists ==
  ASSUME NEW p \in Rank, NEW t \in ToSet(Types)
  PROVE  /\ LocalOf[p][t] = LocalElements(p, t) /\ GhostOf[p][t] = GhostElements(p, t)
         /\ LocalOf[p][t] \in Seq(Element) /\ GhostOf[p][t] \in Seq(Element)
         /\ ToSet(LocalOf[p][t]) = {e \in ToSet(All(t)) : Partition(e) = p}
         /\ ToSet(GhostOf[p][t]) = {e \in ToSet(All(t)) : p \in GhostParts(e)}
<1>1. LocalOf[p][t] = LocalElements(p, t) /\ GhostOf[p][t] = GhostElements(p, t)
  BY DEF LocalOf, GhostOf
<1>2. All(t) \in Seq(Element)
  BY ElementLists
<1>3. PICK S : S = {e \in ToSet(All(t)) : Partition(e) = p}
  OBVIOUS
<1>4. PICK T : T = {e \in ToSet(All(t)) : p \in GhostParts(e)}
  OBVIOUS
<1>5. LocalOf[p][t] = Among(All(t), S) /\ GhostOf[p][t] = Among(All(t), T)
  BY <1>1, <1>3, <1>4 DEF LocalElements, GhostElements
<1>6. /\ Among(All(t), S) \in Seq(Element) /\ ToSet(Among(All(t), S)) = ToSet(All(t)) \cap S
      /\ Among(All(t), T) \in Seq(Element) /\ ToSet(Among(All(t), T)) = ToSet(All(t)) \cap T
  BY <1>2, AmongProperties
<1>7. ToSet(All(t)) \cap S = S /\ ToSet(All(t)) \cap T = T
  BY <1>3, <1>4
<1>8. QED
  BY <1>1, <1>3, <1>4, <1>5, <1>6, <1>7

(* What a rank sends to another of a type is what that one expects.        *)
LEMMA GivenElements ==
  ASSUME NEW p \in Rank, NEW q \in Rank, NEW t \in ToSet(Types)
  PROVE  /\ Among(LocalOf[p][t], {e \in DOMAIN InfoOf[p][t].to : q \in InfoOf[p][t].to[e]}) =
              Given(p, q, t)
         /\ Among(GhostOf[q][t], {e \in DOMAIN InfoOf[q][t].from : InfoOf[q][t].from[e] = p}) =
              Given(p, q, t)
<1>1. PICK S : S = {e \in ToSet(All(t)) : Partition(e) = p}
  OBVIOUS
<1>2. PICK T : T = {e \in ToSet(All(t)) : q \in GhostParts(e)}
  OBVIOUS
<1>3. PICK B : B = {e \in ToSet(All(t)) : Partition(e) = p /\ q \in GhostParts(e)}
  OBVIOUS
<1>4. All(t) \in Seq(Element)
  BY ElementLists
<1>5. /\ LocalOf[p][t] = Among(All(t), S) /\ ToSet(LocalOf[p][t]) = S
      /\ GhostOf[q][t] = Among(All(t), T) /\ ToSet(GhostOf[q][t]) = T
  BY <1>1, <1>2, RankLists DEF LocalElements, GhostElements
<1>6. /\ InfoOf[p][t].to = [e \in S |-> GhostParts(e)]
      /\ InfoOf[q][t].from = [e \in T |-> Partition(e)]
  <2>1. InfoOf[p][t] = PartitionInfo(p, t) /\ InfoOf[q][t] = PartitionInfo(q, t)
    BY DEF InfoOf
  <2>2. ToSet(LocalElements(p, t)) = S /\ ToSet(GhostElements(q, t)) = T
    BY <1>5, RankLists
  <2>3. QED
    BY <2>1, <2>2 DEF PartitionInfo
<1>7. PICK U : U = {e \in S : q \in GhostParts(e)}
  OBVIOUS
<1>8. PICK V : V = {e \in T : Partition(e) = p}
  OBVIOUS
<1>9. {e \in DOMAIN InfoOf[p][t].to : q \in InfoOf[p][t].to[e]} = U
  BY <1>6, <1>7
<1>10. {e \in DOMAIN InfoOf[q][t].from : InfoOf[q][t].from[e] = p} = V
  BY <1>6, <1>8
<1>11. S \cap U = B /\ T \cap V = B
  BY <1>1, <1>2, <1>3, <1>7, <1>8
<1>12. Among(Among(All(t), S), U) = Among(All(t), B)
  BY <1>4, <1>11, AmongTwice
<1>13. Among(Among(All(t), T), V) = Among(All(t), B)
  BY <1>4, <1>11, AmongTwice
<1>14. Given(p, q, t) = Among(All(t), B)
  BY <1>3 DEF Given
<1>15. QED
  BY <1>5, <1>9, <1>10, <1>12, <1>13, <1>14

(* The first types.                                                        *)
LEMMA FirstTypesProperties ==
  /\ FirstTypes(0) = {}
  /\ \A c \in 0 .. NbTypes :
       c < NbTypes => /\ c + 1 \in 1 .. NbTypes /\ c + 1 \in 0 .. NbTypes
                      /\ Types[c + 1] \in ToSet(Types)
                      /\ FirstTypes(c + 1) = FirstTypes(c) \cup {Types[c + 1]}
  /\ FirstTypes(NbTypes) = ToSet(Types)
<1>1. FirstTypes(0) = {}
  BY DEF FirstTypes
<1>2. ASSUME NEW c \in 0 .. NbTypes, c < NbTypes
      PROVE  /\ c + 1 \in 1 .. NbTypes /\ c + 1 \in 0 .. NbTypes
             /\ Types[c + 1] \in ToSet(Types)
             /\ FirstTypes(c + 1) = FirstTypes(c) \cup {Types[c + 1]}
  <2>1. c + 1 \in 1 .. NbTypes /\ c + 1 \in 0 .. NbTypes
    BY <1>2, Numbers
  <2>2. 1 .. (c + 1) = (1 .. c) \cup {c + 1}
    BY <2>1, Numbers
  <2>3. QED
    BY <2>1, <2>2, Numbers DEF FirstTypes
<1>3. FirstTypes(NbTypes) = ToSet(Types)
  BY TypesAssumption, SetOfSeq DEF FirstTypes, NbTypes
<1>4. QED
  BY <1>1, <1>2, <1>3

(* Before the first type there is nothing, and each type adds its own.     *)
LEMMA ElementsGrow ==
  ASSUME NEW p \in Rank
  PROVE  /\ ElementsOf[p][0] = [t \in ToSet(Types) |-> [local |-> <<>>, ghost |-> <<>>]]
         /\ NodesOf[p][0] = {}
         /\ \A c \in 0 .. NbTypes : c < NbTypes =>
              /\ ElementsOf[p][c + 1] =
                   [ElementsOf[p][c] EXCEPT
                      ![Types[c + 1]] = [local |-> LocalOf[p][Types[c + 1]],
                                         ghost |-> GhostOf[p][Types[c + 1]]]]
              /\ ElementsOf[p][c + 1][Types[c + 1]] =
                   [local |-> LocalOf[p][Types[c + 1]], ghost |-> GhostOf[p][Types[c + 1]]]
              /\ NodesOf[p][c + 1] =
                   NodesOf[p][c] \cup
                     UNION {ToSet(Nodes(e)) :
                              e \in ToSet(LocalOf[p][Types[c + 1]] \o GhostOf[p][Types[c + 1]])}
<1> DEFINE Both(t) == [local |-> LocalOf[p][t], ghost |-> GhostOf[p][t]]
           None == [local |-> <<>>, ghost |-> <<>>]
           Of(t) == UNION {ToSet(Nodes(e)) : e \in ToSet(LocalOf[p][t] \o GhostOf[p][t])}
<1>1. \A c \in 0 .. NbTypes :
        /\ ElementsOf[p][c] =
             [t \in ToSet(Types) |-> IF t \in FirstTypes(c) THEN Both(t) ELSE None]
        /\ NodesOf[p][c] = UNION {Of(t) : t \in FirstTypes(c)}
  BY DEF ElementsOf, NodesOf
<1> HIDE DEF Both, None, Of
<1>2. 0 \in 0 .. NbTypes
  BY Numbers
<1>3. ElementsOf[p][0] = [t \in ToSet(Types) |-> None] /\ NodesOf[p][0] = {}
  BY <1>1, <1>2, FirstTypesProperties
<1>4. ASSUME NEW c \in 0 .. NbTypes, c < NbTypes
      PROVE  /\ ElementsOf[p][c + 1] =
                  [ElementsOf[p][c] EXCEPT ![Types[c + 1]] = Both(Types[c + 1])]
             /\ ElementsOf[p][c + 1][Types[c + 1]] = Both(Types[c + 1])
             /\ NodesOf[p][c + 1] = NodesOf[p][c] \cup Of(Types[c + 1])
  <2>1. PICK d, u : d = c + 1 /\ u = Types[c + 1]
    OBVIOUS
  <2>2. d \in 0 .. NbTypes /\ u \in ToSet(Types) /\ FirstTypes(d) = FirstTypes(c) \cup {u}
    BY <1>4, <2>1, FirstTypesProperties
  <2>3. ElementsOf[p][d] = [ElementsOf[p][c] EXCEPT ![u] = Both(u)]
    <3>1. ElementsOf[p][c] =
            [t \in ToSet(Types) |-> IF t \in FirstTypes(c) THEN Both(t) ELSE None]
      BY <1>1
    <3>2. ElementsOf[p][d] =
            [t \in ToSet(Types) |-> IF t \in FirstTypes(c) \cup {u} THEN Both(t) ELSE None]
      BY <1>1, <2>2
    <3>3. [ElementsOf[p][c] EXCEPT ![u] = Both(u)] =
            [t \in ToSet(Types) |->
               IF t = u THEN Both(u) ELSE IF t \in FirstTypes(c) THEN Both(t) ELSE None]
      BY <2>2, <3>1
    <3>4. \A t \in ToSet(Types) :
            (IF t \in FirstTypes(c) \cup {u} THEN Both(t) ELSE None) =
              IF t = u THEN Both(u) ELSE IF t \in FirstTypes(c) THEN Both(t) ELSE None
      OBVIOUS
    <3>5. QED
      BY <3>2, <3>3, <3>4
  <2>4. ElementsOf[p][d][u] = Both(u)
    BY <1>1, <2>2
  <2>5. NodesOf[p][d] = NodesOf[p][c] \cup Of(u)
    <3>1. NodesOf[p][c] = UNION {Of(t) : t \in FirstTypes(c)}
      BY <1>1
    <3>2. NodesOf[p][d] = UNION {Of(t) : t \in FirstTypes(c) \cup {u}}
      BY <1>1, <2>2
    <3>3. {Of(t) : t \in FirstTypes(c) \cup {u}} = {Of(t) : t \in FirstTypes(c)} \cup {Of(u)}
      OBVIOUS
    <3>4. QED
      BY <3>1, <3>2, <3>3
  <2>6. QED
    BY <2>1, <2>3, <2>4, <2>5
<1>5. QED
  BY <1>3, <1>4 DEF Both, None, Of

(* The elements of a type that p sends to q.                               *)
LEMMA GivenProperties ==
  ASSUME NEW p, NEW q, NEW t \in ToSet(Types)
  PROVE  /\ Given(p, q, t) \in Seq(Element)
         /\ ToSet(Given(p, q, t)) = {e \in ToSet(All(t)) : Partition(e) = p /\ q \in GhostParts(e)}
<1>1. PICK B : B = {e \in ToSet(All(t)) : Partition(e) = p /\ q \in GhostParts(e)}
  OBVIOUS
<1>2. Given(p, q, t) = Among(All(t), B)
  BY <1>1 DEF Given
<1>3. All(t) \in Seq(Element)
  BY ElementLists
<1>4. Among(All(t), B) \in Seq(Element) /\ ToSet(Among(All(t), B)) = ToSet(All(t)) \cap B
  BY <1>3, AmongProperties
<1>5. QED
  BY <1>1, <1>2, <1>4

(* What p sends to q is found one type after the other, those of cells.    *)
LEMMA SchemesGrow ==
  ASSUME NEW p \in Rank, NEW q \in Rank
  PROVE  /\ SchemeOf[p][q][0] = <<>>
         /\ \A c \in 0 .. NbTypes : SchemeOf[p][q][c] \in Seq(Element)
         /\ \A c \in 1 .. NbTypes :
              SchemeOf[p][q][c] =
                IF Dim[Types[c]] = Dimension THEN SchemeOf[p][q][c - 1] \o Given(p, q, Types[c])
                ELSE SchemeOf[p][q][c - 1]
<1> DEFINE L == NbTypes
           Defined(f) == f = [c \in 0 .. L |->
                               IF c = 0 THEN <<>>
                               ELSE IF Dim[Types[c]] = Dimension
                               THEN f[c - 1] \o Given(p, q, Types[c]) ELSE f[c - 1]]
           found == CHOOSE f : Defined(f)
           step == [c \in 1 .. L |-> [s \in Seq(Element) |->
                      IF Dim[Types[c]] = Dimension THEN s \o Given(p, q, Types[c]) ELSE s]]
<1>1. SchemeOf[p][q] = found
  BY DEF SchemeOf, SchemeUpTo
<1>2. L \in Nat /\ \A c \in 1 .. L : Types[c] \in ToSet(Types)
  BY Numbers
<1>3. \A c \in 1 .. L : Given(p, q, Types[c]) \in Seq(Element)
  BY <1>2, GivenProperties
<1> HIDE DEF L
<1>4. ASSUME NEW c \in 1 .. L, NEW s \in Seq(Element)
      PROVE  s \o Given(p, q, Types[c]) \in Seq(Element)
  BY <1>3, SetOfConcat
<1>5. step \in [1 .. L -> [Seq(Element) -> Seq(Element)]]
  BY <1>4
<1>6. PICK f \in [0 .. L -> Seq(Element)] :
        f[0] = <<>> /\ \A c \in 1 .. L : f[c] = step[c][f[c - 1]]
  <2> HIDE DEF step
  <2>1. PICK base : base = <<>>
    OBVIOUS
  <2>2. PICK D : D = Seq(Element)
    OBVIOUS
  <2>3. base \in D /\ step \in [1 .. L -> [D -> D]]
    BY <1>5, <2>1, <2>2
  <2>4. \E f \in [0 .. L -> D] : Recursive(f, L, base, step)
    BY <1>2, <2>3, RecursionExists
  <2>5. QED
    BY <2>1, <2>2, <2>4 DEF Recursive
<1>7. Defined(f)
  <2>1. ASSUME NEW c \in 0 .. L
        PROVE  f[c] = IF c = 0 THEN <<>>
                      ELSE IF Dim[Types[c]] = Dimension
                      THEN f[c - 1] \o Given(p, q, Types[c]) ELSE f[c - 1]
    <3>1. CASE c = 0
      BY <1>6, <3>1
    <3>2. CASE c # 0
      <4>1. c \in 1 .. L /\ c - 1 \in 0 .. L
        BY <1>2, <3>2
      <4>2. f[c - 1] \in Seq(Element) /\ f[c] = step[c][f[c - 1]]
        BY <1>6, <4>1
      <4>3. QED
        BY <3>2, <4>1, <4>2
    <3>3. QED
      BY <3>1, <3>2
  <2>2. f = [c \in 0 .. L |-> f[c]]
    OBVIOUS
  <2>3. QED
    BY <2>1, <2>2
<1>8. Defined(found)
  <2> HIDE DEF Defined
  <2>1. QED
    BY <1>7, Zenon
<1> HIDE DEF found, step
<1>9. found[0] = <<>>
  BY <1>2, <1>8
<1>10. ASSUME NEW c \in 1 .. L
       PROVE  found[c] = IF Dim[Types[c]] = Dimension
                         THEN found[c - 1] \o Given(p, q, Types[c]) ELSE found[c - 1]
  <2>1. c \in 0 .. L /\ c # 0
    BY <1>2
  <2>2. QED
    BY <1>8, <2>1
<1>11. \A c \in 0 .. L : found[c] \in Seq(Element)
  <2> DEFINE Good == {c \in 0 .. L : found[c] \in Seq(Element)}
  <2>1. 0 \in Good
    <3>1. 0 \in 0 .. L
      BY <1>2
    <3>2. found[0] \in Seq(Element)
      BY <1>9, EmptySeq, Zenon
    <3>3. QED
      BY <3>1, <3>2
  <2>2. ASSUME NEW c \in 1 .. L, c - 1 \in Good
        PROVE  c \in Good
    <3>1. found[c - 1] \in Seq(Element) /\ c \in 0 .. L
      BY <1>2, <2>2
    <3>2. PICK s : s = found[c - 1]
      OBVIOUS
    <3>3. s \in Seq(Element) /\ s \o Given(p, q, Types[c]) \in Seq(Element)
      BY <1>4, <3>1, <3>2
    <3>4. found[c] = IF Dim[Types[c]] = Dimension THEN s \o Given(p, q, Types[c]) ELSE s
      BY <1>10, <3>2
    <3>5. found[c] \in Seq(Element)
      BY <3>3, <3>4
    <3>6. QED
      BY <3>1, <3>5
  <2>3. \A c \in 0 .. L : c \in Good
    <3> HIDE DEF Good
    <3>1. QED
      BY <1>2, <2>1, <2>2, UpToInduction
  <2>4. QED
    BY <2>3
<1>12. QED
  BY <1>1, <1>9, <1>10, <1>11 DEF L

(* In the end p sends to q its elements that are ghosts of q, of every     *)
(* type of cells.                                                          *)
LEMMA SchemeSet ==
  ASSUME NEW p \in Rank, NEW q \in Rank
  PROVE  ToSet(SchemeOf[p][q][NbTypes]) =
           UNION {ToSet(Given(p, q, t)) : t \in {u \in ToSet(Types) : Dim[u] = Dimension}}
<1> DEFINE L == NbTypes
           Cells(c) == {u \in FirstTypes(c) : Dim[u] = Dimension}
           Of(c) == UNION {ToSet(Given(p, q, t)) : t \in Cells(c)}
           Good == {c \in 0 .. L : ToSet(SchemeOf[p][q][c]) = Of(c)}
<1>1. L \in Nat
  BY Numbers
<1>2. 0 \in Good
  <2>1. Of(0) = {}
    BY FirstTypesProperties
  <2>2. ToSet(SchemeOf[p][q][0]) = {}
    BY SchemesGrow DEF ToSet
  <2> HIDE DEF Of
  <2>3. QED
    BY <1>1, <2>1, <2>2
<1>3. ASSUME NEW c \in 1 .. L, c - 1 \in Good
      PROVE  c \in Good
  <2>1. PICK b : b = c - 1
    OBVIOUS
  <2>2. b \in 0 .. L /\ b < L /\ b + 1 = c /\ c \in 0 .. L
    BY <1>1, <2>1
  <2>3. PICK t : t = Types[c]
    OBVIOUS
  <2>4. FirstTypes(c) = FirstTypes(b) \cup {t} /\ t \in ToSet(Types)
    BY <2>2, <2>3, FirstTypesProperties
  <2>5. PICK s : s = SchemeOf[p][q][b]
    OBVIOUS
  <2>6. s \in Seq(Element) /\ ToSet(s) = Of(b)
    <3>1. s \in Seq(Element)
      BY <2>2, <2>5, SchemesGrow
    <3>2. ToSet(s) = Of(b)
      <4> HIDE DEF Of
      <4>1. QED
        BY <1>3, <2>1, <2>5
    <3>3. QED
      BY <3>1, <3>2
  <2>7. SchemeOf[p][q][c] = IF Dim[t] = Dimension THEN s \o Given(p, q, t) ELSE s
    BY <2>1, <2>3, <2>5, SchemesGrow
  <2>8. CASE Dim[t] = Dimension
    <3>1. Given(p, q, t) \in Seq(Element)
      BY <2>4, GivenProperties
    <3>2. ToSet(s \o Given(p, q, t)) = ToSet(s) \cup ToSet(Given(p, q, t))
      BY <2>6, <3>1, SetOfConcat
    <3>3. Cells(c) = Cells(b) \cup {t}
      BY <2>4, <2>8
    <3>4. Of(c) = Of(b) \cup ToSet(Given(p, q, t))
      <4> HIDE DEF Cells
      <4>1. {ToSet(Given(p, q, u)) : u \in Cells(b) \cup {t}} =
              {ToSet(Given(p, q, u)) : u \in Cells(b)} \cup {ToSet(Given(p, q, t))}
        OBVIOUS
      <4>2. QED
        BY <3>3, <4>1
    <3> HIDE DEF Of
    <3>5. QED
      BY <2>2, <2>6, <2>7, <2>8, <3>2, <3>4
  <2>9. CASE Dim[t] # Dimension
    <3>1. Cells(c) = Cells(b)
      BY <2>4, <2>9
    <3>2. Of(c) = Of(b)
      <4> HIDE DEF Cells
      <4>1. QED
        BY <3>1
    <3> HIDE DEF Of
    <3>3. QED
      BY <2>2, <2>6, <2>7, <2>9, <3>2
  <2>10. QED
    BY <2>8, <2>9
<1>4. L \in Good
  <2> HIDE DEF Good
  <2>1. \A c \in 0 .. L : c \in Good
    BY <1>1, <1>2, <1>3, UpToInduction
  <2>2. QED
    BY <1>1, <2>1
<1>5. ToSet(SchemeOf[p][q][L]) = Of(L)
  <2> HIDE DEF Of
  <2>1. QED
    BY <1>4
<1>6. Cells(L) = {u \in ToSet(Types) : Dim[u] = Dimension}
  BY FirstTypesProperties
<1>7. QED
  BY <1>5, <1>6

-----------------------------------------------------------------------------
(* What is computed of the nodes.                                          *)

(* A rank has nodes of the mesh.                                           *)
LEMMA NodesAreNodes ==
  ASSUME NEW p \in Rank
  PROVE  AllNodes[p] \subseteq Node
<1>1. AllNodes[p] = UNION {UNION {ToSet(Nodes(e)) : e \in ToSet(LocalOf[p][t] \o GhostOf[p][t])} :
                             t \in ToSet(Types)}
  BY FirstTypesProperties, Numbers DEF AllNodes, NodesOf
<1>2. ASSUME NEW t \in ToSet(Types)
      PROVE  ToSet(LocalOf[p][t] \o GhostOf[p][t]) \subseteq Element
  <2>1. LocalOf[p][t] \in Seq(Element) /\ GhostOf[p][t] \in Seq(Element)
    BY RankLists
  <2>2. LocalOf[p][t] \o GhostOf[p][t] \in Seq(Element)
    BY <2>1, SetOfConcat
  <2>3. QED
    BY <2>2, SetOfSeq
<1>3. QED
  BY <1>1, <1>2 DEF Node

(* By its elements a rank says of its nodes what is computed.              *)
LEMMA SaidByElements ==
  ASSUME NEW p \in Rank, elements[p] = ElementsOf[p][NbTypes],
         nodes_global_ids[p] = AllNodes[p]
  PROVE  NodesType(p) = SaidOf[p]
BY DEF NodesType, SaidOf, NodesIn

(* From what all have said the root finds the owners and the flags.        *)
LEMMA OwnersFound ==
  ASSUME \A q \in Rank : nodes_per_proc[q] = AllNodes[q] /\ nodes_flags_per_proc[q] = SaidOf[q]
  PROVE  /\ [n \in Node |-> PrankOf(n)] = OwnerOf
         /\ \A p \in Rank :
              TypeInfo(p) = [flags |-> FlagsOf[p], prank |-> PranksOf[p], to |-> ToOf[p]]
<1>1. \A n, flag : Saying(n, flag) = SayingOf(n, flag)
  BY DEF Saying, SayingOf
<1>2. \A n \in Node : PrankOf(n) = OwnerOf[n]
  BY <1>1 DEF PrankOf, OwnerOf
<1>3. [n \in Node |-> PrankOf(n)] = OwnerOf
  BY <1>2 DEF OwnerOf
<1>4. ASSUME NEW p \in Rank
      PROVE  TypeInfo(p) = [flags |-> FlagsOf[p], prank |-> PranksOf[p], to |-> ToOf[p]]
  <2>1. \A n \in AllNodes[p] : PrankOf(n) = OwnerOf[n]
    BY <1>2, NodesAreNodes
  <2>2. nodes_per_proc[p] = AllNodes[p] /\ nodes_flags_per_proc[p] = SaidOf[p]
    OBVIOUS
  <2>3. \A n \in AllNodes[p] : SharedFlag(p, n) = FlagsOf[p][n]
    BY <2>1, <2>2 DEF SharedFlag, FlagsOf
  <2>4. [n \in nodes_per_proc[p] |-> SharedFlag(p, n)] = FlagsOf[p]
    BY <2>2, <2>3 DEF FlagsOf
  <2>5. [n \in nodes_per_proc[p] |->
           IF SharedFlag(p, n) = "normal" THEN p ELSE PrankOf(n)] = PranksOf[p]
    BY <2>1, <2>2, <2>3 DEF PranksOf
  <2>6. [q \in Rank |-> {n \in Node : q \in Saying(n, "master") \ {p} /\ PrankOf(n) = p}] =
          ToOf[p]
    BY <1>1, <1>2 DEF ToOf
  <2>7. QED
    BY <2>4, <2>5, <2>6 DEF TypeInfo
<1>5. QED
  BY <1>3, <1>4

(* The same for the periodic nodes.                                        *)
LEMMA PeriodicFound ==
  ASSUME NEW p \in Rank
  PROVE  /\ nodes_per_proc[p] = AllNodes[p] => PeriodicInfo(p) = PairsOf[p]
         /\ nodes_global_ids[p] = AllNodes[p] => Missing(p, PairsOf[p]) = MissingOf[p]
         /\ nodes_pranks = OwnerOf /\ (\A q \in Rank : proc_missings[q] = MissingOf[q]) =>
              MissingInfo(p) = MissingInfoOf[p]
<1>1. nodes_per_proc[p] = AllNodes[p] => PeriodicInfo(p) = PairsOf[p]
  BY DEF PeriodicInfo, PairsOf
<1>2. nodes_global_ids[p] = AllNodes[p] => Missing(p, PairsOf[p]) = MissingOf[p]
  BY DEF Missing, MissingOf
<1>3. nodes_pranks = OwnerOf /\ (\A q \in Rank : proc_missings[q] = MissingOf[q]) =>
        MissingInfo(p) = MissingInfoOf[p]
  BY DEF MissingInfo, MissingInfoOf
<1>4. QED
  BY <1>1, <1>2, <1>3

-----------------------------------------------------------------------------
(* What a step leaves alone keeps its part of the invariant.               *)

(* A rank that does nothing.                                               *)
LEMMA RankStays ==
  ASSUME MeshStays, NEW q \in Rank, SameRank(q), RankInv(q)
  PROVE  RankInv(q)'
<1>1. /\ pc'[q] = pc[q] /\ message_count'[q] = message_count[q]
      /\ mesh' = mesh /\ part' = part
  BY DEF SameRank, MeshStays
<1>2. Filled(q)' = Filled(q) /\ Schemed(q)' = Schemed(q)
      /\ HasPairs(q)' = HasPairs(q) /\ HasMissing(q)' = HasMissing(q)
  BY <1>1 DEF Filled, Schemed, HasPairs, HasMissing
<1>3. PlaceInv(q)'
  BY <1>1 DEF RankInv, PlaceInv
<1>4. ElementsInv(q)'
  BY <1>1, <1>2, ElementsAreRigid, NodesAreRigid DEF RankInv, ElementsInv, SameRank
<1>5. SchemesInv(q)'
  BY <1>1, <1>2, ElementsAreRigid DEF RankInv, SchemesInv, SameRank
<1>6. FlagsInv(q)'
  BY <1>1, <1>2, NodesAreRigid DEF RankInv, FlagsInv, SameRank
<1>7. NodeSchemesInv(q)'
  BY <1>1, <1>2, NodesAreRigid DEF RankInv, NodeSchemesInv, SameRank
<1>8. QED
  BY <1>3, <1>4, <1>5, <1>6, <1>7 DEF RankInv

(* What the root knows, in a step of a slave.                              *)
LEMMA RootStays ==
  ASSUME MeshStays, SameRank(root), proc' = proc, UNCHANGED masterInfo, RootInv
  PROVE  RootInv'
<1>1. pc'[root] = pc[root] /\ mesh' = mesh /\ part' = part
  BY DEF SameRank, MeshStays
<1>2. AllNodes' = AllNodes /\ SaidOf' = SaidOf /\ OwnerOf' = OwnerOf /\ MissingOf' = MissingOf
  BY <1>1, NodesAreRigid
<1>3. /\ nodes_per_proc' = nodes_per_proc /\ nodes_flags_per_proc' = nodes_flags_per_proc
      /\ nodes_pranks' = nodes_pranks /\ proc_missings' = proc_missings
  BY DEF masterInfo
<1>4. QED
  BY <1>1, <1>2, <1>3 DEF RootInv

(* A channel that nobody uses.                                             *)
LEMMA MailStays ==
  ASSUME MeshStays, NEW q \in Slave, SameRank(q), SameRank(root), proc' = proc
  PROVE  /\ mail'[root][q] = mail[root][q] /\ DownInv(q) => DownInv(q)'
         /\ mail'[q][root] = mail[q][root] /\ UpInv(q) => UpInv(q)'
<1>1. /\ pc'[q] = pc[q] /\ message_count'[q] = message_count[q]
      /\ pc'[root] = pc[root] /\ message_count'[root] = message_count[root]
      /\ mesh' = mesh /\ part' = part
  BY DEF SameRank, MeshStays
<1>2. Down' = Down /\ Succ' = Succ /\ Up' = Up
  BY <1>1, KeysAreRigid
<1>3. SlaveDown(q)' = SlaveDown(q) /\ SlaveUp(q)' = SlaveUp(q)
  BY <1>1 DEF SlaveDown, SlaveUp
<1>4. RootDown(q)' = RootDown(q) /\ RootUp(q)' = RootUp(q)
  BY <1>1, <1>2 DEF RootDown, RootUp
<1>5. mail'[root][q] = mail[root][q] /\ DownInv(q) => DownInv(q)'
  BY <1>2, <1>3, <1>4 DEF DownInv
<1>6. mail'[q][root] = mail[q][root] /\ UpInv(q) => UpInv(q)'
  BY <1>2, <1>3, <1>4 DEF UpInv
<1>7. QED
  BY <1>5, <1>6

(* A step of a slave disturbs its own part of the invariant only.          *)
LEMMA SlaveFrame ==
  ASSUME IInv, MeshStays, proc' = proc, UNCHANGED masterInfo, NEW p \in Slave,
         ShapeInv', Grid(mail)', \A q \in Rank \ {p} : SameRank(q),
         \A q \in Slave \ {p} : SameMail(q), RankInv(p)', DownInv(p)', UpInv(p)'
  PROVE  IInv'
<1>1. SameRank(root)
  BY Numbers
<1>2. ASSUME NEW q \in Rank
      PROVE  RankInv(q)'
  <2>1. CASE q = p
    BY <2>1
  <2>2. CASE q # p
    BY <2>2, RankStays DEF IInv
  <2>3. QED
    BY <2>1, <2>2
<1>3. RootInv'
  BY <1>1, RootStays DEF IInv
<1>4. ASSUME NEW q \in Slave
      PROVE  DownInv(q)' /\ UpInv(q)'
  <2>1. CASE q = p
    BY <2>1
  <2>2. CASE q # p
    <3>1. SameRank(q) /\ SameMail(q) /\ DownInv(q) /\ UpInv(q)
      BY <2>2, Numbers DEF IInv, MailInv
    <3>2. QED
      BY <1>1, <3>1, MailStays DEF SameMail
  <2>3. QED
    BY <2>1, <2>2
<1>5. MailInv'
  BY <1>4 DEF MailInv
<1>6. QED
  BY <1>2, <1>3, <1>5 DEF IInv

(* A step of the root disturbs what it knows and the channels.             *)
LEMMA RootFrame ==
  ASSUME IInv, MeshStays, ShapeInv', Grid(mail)', \A q \in Slave : SameRank(q),
         RankInv(root)', RootInv', \A q \in Slave : DownInv(q)' /\ UpInv(q)'
  PROVE  IInv'
<1>1. ASSUME NEW q \in Rank
      PROVE  RankInv(q)'
  <2>1. CASE q = root
    BY <2>1
  <2>2. CASE q # root
    <3>1. q \in Slave
      BY <2>2, Numbers
    <3>2. QED
      BY <3>1, RankStays DEF IInv
  <2>3. QED
    BY <2>1, <2>2
<1>2. MailInv'
  BY DEF MailInv
<1>3. QED
  BY <1>1, <1>2 DEF IInv

-----------------------------------------------------------------------------
(* Taking and sending.                                                     *)

(* What a slave takes is the message of the key where it is.               *)
LEMMA SlaveTakes ==
  ASSUME IInv, NEW p \in Slave, NEW tag, tag = Down[p][SlaveDown(p)].tag, Arrived(p, root, tag)
  PROVE  /\ Data(p, root, tag) = Down[p][SlaveDown(p)].data
         /\ Took(p, root, tag) = [mail EXCEPT ![root][p] = Tail(@)]
         /\ Flow(Tail(mail[root][p]), Succ[SlaveDown(p)], RootDown(p), Down[p], Succ)
<1>1. PICK F, N, a, b : F = Down[p] /\ N = Succ /\ a = SlaveDown(p) /\ b = RootDown(p)
  OBVIOUS
<1>2. Flow(mail[root][p], a, b, F, N)
  BY <1>1 DEF IInv, MailInv, DownInv
<1>3. N \in [Key -> Key] /\ p \in Rank /\ root \in Rank /\ tag = F[a].tag
  BY <1>1, KeysFollow, Numbers
<1>4. /\ Data(p, root, tag) = F[a].data
      /\ Took(p, root, tag) = [mail EXCEPT ![root][p] = Tail(@)]
      /\ Flow(Tail(mail[root][p]), N[a], b, F, N)
  BY <1>2, <1>3, FirstTaken
<1>5. QED
  BY <1>1, <1>4

(* It is then at the next one.                                             *)
LEMMA SlaveTook ==
  ASSUME MeshStays, NEW p \in Slave,
         Flow(Tail(mail[root][p]), Succ[SlaveDown(p)], RootDown(p), Down[p], Succ),
         mail'[root][p] = Tail(mail[root][p]), SlaveDown(p)' = Succ[SlaveDown(p)],
         RootDown(p)' = RootDown(p)
  PROVE  DownInv(p)'
<1>1. Down' = Down /\ Succ' = Succ
  BY KeysAreRigid DEF MeshStays
<1>2. QED
  BY <1>1 DEF DownInv

(* What the root takes is the message of the key where it is for the slave *)
LEMMA RootTakes ==
  ASSUME IInv, NEW q \in Slave, NEW tag, tag = Up[q][RootUp(q)].tag, Arrived(root, q, tag)
  PROVE  /\ Data(root, q, tag) = Up[q][RootUp(q)].data
         /\ Took(root, q, tag) = [mail EXCEPT ![q][root] = Tail(@)]
         /\ Flow(Tail(mail[q][root]), UpSucc[RootUp(q)], SlaveUp(q), Up[q], UpSucc)
<1>1. PICK F, N, a, b : F = Up[q] /\ N = UpSucc /\ a = RootUp(q) /\ b = SlaveUp(q)
  OBVIOUS
<1>2. Flow(mail[q][root], a, b, F, N)
  BY <1>1 DEF IInv, MailInv, UpInv
<1>3. N \in [UpKey -> UpKey] /\ q \in Rank /\ root \in Rank /\ tag = F[a].tag
  BY <1>1, UpKeysFollow, Numbers
<1>4. /\ Data(root, q, tag) = F[a].data
      /\ Took(root, q, tag) = [mail EXCEPT ![q][root] = Tail(@)]
      /\ Flow(Tail(mail[q][root]), N[a], b, F, N)
  BY <1>2, <1>3, FirstTaken
<1>5. QED
  BY <1>1, <1>4

(* It is then at the next one.                                             *)
LEMMA RootTook ==
  ASSUME MeshStays, NEW q \in Slave,
         Flow(Tail(mail[q][root]), UpSucc[RootUp(q)], SlaveUp(q), Up[q], UpSucc),
         mail'[q][root] = Tail(mail[q][root]), RootUp(q)' = UpSucc[RootUp(q)],
         SlaveUp(q)' = SlaveUp(q)
  PROVE  UpInv(q)'
<1>1. Up' = Up
  BY KeysAreRigid DEF MeshStays
<1>2. QED
  BY <1>1 DEF UpInv, UpSucc

(* A slave that sends the message of its key is at the next one.           *)
LEMMA SlaveSent ==
  ASSUME MeshStays, NEW p \in Slave, UpInv(p),
         mail'[p][root] = Append(mail[p][root], Up[p][SlaveUp(p)]),
         SlaveUp(p)' = UpSucc[SlaveUp(p)], RootUp(p)' = RootUp(p)
  PROVE  UpInv(p)'
<1>1. PICK F, N, a, b, s :
        F = Up[p] /\ N = UpSucc /\ a = RootUp(p) /\ b = SlaveUp(p) /\ s = mail[p][root]
  OBVIOUS
<1>2. Flow(s, a, b, F, N) /\ N \in [UpKey -> UpKey]
  BY <1>1, UpKeysFollow DEF UpInv
<1>3. PICK m : m = F[b]
  OBVIOUS
<1>4. Flow(Append(s, m), a, N[b], F, N)
  BY <1>2, <1>3, FlowAppend
<1>5. Up' = Up
  BY KeysAreRigid DEF MeshStays
<1>6. Flow(mail'[p][root], a, SlaveUp(p)', F, N)
  BY <1>1, <1>3, <1>4
<1>7. QED
  BY <1>1, <1>5, <1>6 DEF UpInv, UpSucc

(* So is the root.                                                         *)
LEMMA RootSent ==
  ASSUME MeshStays, NEW q \in Slave, DownInv(q),
         mail'[root][q] = Append(mail[root][q], Down[q][RootDown(q)]),
         RootDown(q)' = Succ[RootDown(q)], SlaveDown(q)' = SlaveDown(q)
  PROVE  DownInv(q)'
<1>1. PICK F, N, a, b, s :
        F = Down[q] /\ N = Succ /\ a = SlaveDown(q) /\ b = RootDown(q) /\ s = mail[root][q]
  OBVIOUS
<1>2. Flow(s, a, b, F, N) /\ N \in [Key -> Key]
  BY <1>1, KeysFollow DEF DownInv
<1>3. PICK m : m = F[b]
  OBVIOUS
<1>4. Flow(Append(s, m), a, N[b], F, N)
  BY <1>2, <1>3, FlowAppend
<1>5. Down' = Down /\ Succ' = Succ
  BY KeysAreRigid DEF MeshStays
<1>6. Flow(mail'[root][q], a, RootDown(q)', F, N)
  BY <1>1, <1>3, <1>4
<1>7. QED
  BY <1>1, <1>5, <1>6 DEF DownInv

(* And so when it sends three messages.                                    *)
LEMMA RootSentThree ==
  ASSUME MeshStays, NEW q \in Slave, DownInv(q), NEW k, NEW l, k = RootDown(q), l = Succ[k],
         mail'[root][q] = Append(Append(Append(mail[root][q], Down[q][k]), Down[q][l]),
                                 Down[q][Succ[l]]),
         RootDown(q)' = Succ[Succ[l]], SlaveDown(q)' = SlaveDown(q)
  PROVE  DownInv(q)'
<1>1. PICK F, N, a, s :
        F = Down[q] /\ N = Succ /\ a = SlaveDown(q) /\ s = mail[root][q]
  OBVIOUS
<1>2. Flow(s, a, k, F, N) /\ N \in [Key -> Key]
  BY <1>1, KeysFollow DEF DownInv
<1>3. PICK m1, m2, m3, r : m1 = F[k] /\ m2 = F[l] /\ r = N[l] /\ m3 = F[r]
  OBVIOUS
<1>4. Flow(Append(s, m1), a, N[k], F, N)
  BY <1>2, <1>3, FlowAppend
<1>5. Flow(Append(Append(s, m1), m2), a, N[l], F, N)
  <2>1. PICK t : t = Append(s, m1)
    OBVIOUS
  <2>2. Flow(t, a, l, F, N)
    BY <1>1, <1>4, <2>1
  <2>3. Flow(Append(t, m2), a, N[l], F, N)
    BY <1>2, <1>3, <2>2, FlowAppend
  <2>4. QED
    BY <2>1, <2>3
<1>6. Flow(Append(Append(Append(s, m1), m2), m3), a, N[r], F, N)
  <2>1. PICK t : t = Append(Append(s, m1), m2)
    OBVIOUS
  <2>2. Flow(t, a, r, F, N)
    BY <1>3, <1>5, <2>1
  <2>3. Flow(Append(t, m3), a, N[r], F, N)
    BY <1>2, <1>3, <2>2, FlowAppend
  <2>4. QED
    BY <2>1, <2>3
<1>7. Down' = Down /\ Succ' = Succ
  BY KeysAreRigid DEF MeshStays
<1>8. Flow(mail'[root][q], a, RootDown(q)', F, N)
  BY <1>1, <1>3, <1>6
<1>9. QED
  BY <1>1, <1>7, <1>8 DEF DownInv

-----------------------------------------------------------------------------
(* The steps of a slave.                                                   *)

(* Two grids that differ for one pair of ranks only.                       *)
SameBut(f, g, a, b) == \A p, q \in Rank : p # a \/ q # b => g[p][q] = f[p][q]

(* g is f with x for a and b.                                              *)
Changed(f, g, a, b, x) == g = [f EXCEPT ![a][b] = x]

(* A change of one channel.                                                *)
LEMMA OneChannel ==
  ASSUME NEW f, Grid(f), NEW a \in Rank, NEW b \in Rank, NEW x, NEW g, Changed(f, g, a, b, x)
  PROVE  Grid(g) /\ g[a][b] = x /\ SameBut(f, g, a, b)
<1>1. g = [f EXCEPT ![a] = [f[a] EXCEPT ![b] = x]]
  BY DEF Changed
<1>2. PICK h : h = [f[a] EXCEPT ![b] = x]
  OBVIOUS
<1>3. h = [q \in Rank |-> h[q]] /\ h[b] = x /\ \A q \in Rank : q # b => h[q] = f[a][q]
  BY <1>2 DEF Grid
<1>4. g = [p \in Rank |-> g[p]] /\ g[a] = h /\ \A p \in Rank : p # a => g[p] = f[p]
  BY <1>1, <1>2 DEF Grid
<1>5. ASSUME NEW p \in Rank
      PROVE  g[p] = [q \in Rank |-> g[p][q]]
  BY <1>3, <1>4 DEF Grid
<1>6. ASSUME NEW p \in Rank, NEW q \in Rank, p # a \/ q # b
      PROVE  g[p][q] = f[p][q]
  <2>1. CASE p = a
    BY <1>3, <1>4, <1>6, <2>1
  <2>2. CASE p # a
    BY <1>4, <2>2
  <2>3. QED
    BY <2>1, <2>2
<1>7. QED
  BY <1>3, <1>4, <1>5, <1>6 DEF Grid, SameBut

(* What is common to the steps of a slave.                                 *)
SlaveOnly(p) ==
  /\ MeshStays /\ proc' = proc /\ UNCHANGED masterInfo
  /\ ShapeInv' /\ \A q \in Rank \ {p} : SameRank(q)

(* A slave that has taken what it waited for.                              *)
LEMMA SlaveReceives ==
  ASSUME IInv, NEW p \in Slave, SlaveOnly(p), RankInv(p)',
         mail' = [mail EXCEPT ![root][p] = Tail(@)],
         Flow(Tail(mail[root][p]), Succ[SlaveDown(p)], RootDown(p), Down[p], Succ),
         SlaveDown(p)' = Succ[SlaveDown(p)], SlaveUp(p)' = SlaveUp(p)
  PROVE  IInv'
<1>1. /\ Grid(mail)'
      /\ mail'[root][p] = Tail(mail[root][p]) /\ mail'[p][root] = mail[p][root]
      /\ \A q \in Slave \ {p} : SameMail(q)
  <2>1. PICK f, g, x : f = mail /\ g = mail' /\ x = Tail(mail[root][p])
    OBVIOUS
  <2>2. Grid(f) /\ Changed(f, g, root, p, x) /\ root \in Rank /\ p \in Rank
    BY <2>1, Numbers DEF IInv, Changed
  <2>3. Grid(g) /\ g[root][p] = x /\ SameBut(f, g, root, p)
    BY <2>2, OneChannel
  <2>4. ASSUME NEW q \in Slave \ {p}
        PROVE  SameMail(q)
    BY <2>1, <2>3, Numbers DEF SameMail, SameBut
  <2>5. g[p][root] = f[p][root]
    BY <2>2, <2>3, Numbers DEF SameBut
  <2>6. QED
    BY <2>1, <2>3, <2>4, <2>5 DEF Grid
<1>2. SameRank(root)
  BY Numbers DEF SlaveOnly
<1>3. RootDown(p)' = RootDown(p) /\ RootUp(p)' = RootUp(p)
  BY <1>2, KeysAreRigid DEF RootDown, RootUp, SameRank, MeshStays, SlaveOnly
<1>4. DownInv(p)'
  BY <1>1, <1>3, SlaveTook DEF SlaveOnly
<1>5. UpInv(p)'
  BY <1>1, <1>3, KeysAreRigid DEF UpInv, MeshStays, IInv, MailInv, UpSucc, SlaveOnly
<1>6. QED
  BY <1>1, <1>4, <1>5, SlaveFrame DEF SlaveOnly

(* A slave that sends the root what is next.                               *)
LEMMA SlaveSends ==
  ASSUME IInv, NEW p \in Slave, SlaveOnly(p), RankInv(p)',
         mail' = Sent(p, root, Up[p][SlaveUp(p)]),
         SlaveUp(p)' = UpSucc[SlaveUp(p)], SlaveDown(p)' = SlaveDown(p)
  PROVE  IInv'
<1>1. /\ Grid(mail)' /\ mail'[root][p] = mail[root][p]
      /\ mail'[p][root] = Append(mail[p][root], Up[p][SlaveUp(p)])
      /\ \A q \in Slave \ {p} : SameMail(q)
  <2>1. PICK f, g, x : f = mail /\ g = mail' /\ x = Append(mail[p][root], Up[p][SlaveUp(p)])
    OBVIOUS
  <2>2. Grid(f) /\ Changed(f, g, p, root, x) /\ root \in Rank /\ p \in Rank
    BY <2>1, Numbers DEF IInv, Sent, Changed
  <2>3. Grid(g) /\ g[p][root] = x /\ SameBut(f, g, p, root)
    BY <2>2, OneChannel
  <2>4. ASSUME NEW q \in Slave \ {p}
        PROVE  SameMail(q)
    BY <2>1, <2>3, Numbers DEF SameMail, SameBut
  <2>5. g[root][p] = f[root][p]
    BY <2>2, <2>3, Numbers DEF SameBut
  <2>6. QED
    BY <2>1, <2>3, <2>4, <2>5 DEF Grid
<1>2. SameRank(root)
  BY Numbers DEF SlaveOnly
<1>3. RootDown(p)' = RootDown(p) /\ RootUp(p)' = RootUp(p)
  BY <1>2, KeysAreRigid DEF RootDown, RootUp, SameRank, MeshStays, SlaveOnly
<1>4. UpInv(p)'
  BY <1>1, <1>3, SlaveSent DEF SlaveOnly, IInv, MailInv
<1>5. DownInv(p)'
  BY <1>1, <1>3, KeysAreRigid DEF DownInv, MeshStays, IInv, MailInv, SlaveOnly
<1>6. QED
  BY <1>1, <1>4, <1>5, SlaveFrame DEF SlaveOnly

(* What a step of a rank leaves of what it has.                            *)
LEMMA PartsKept ==
  ASSUME MeshStays, NEW p \in Rank, RankInv(p)
  PROVE  /\ /\ elements'[p] = elements[p] /\ nodes_global_ids'[p] = nodes_global_ids[p]
            /\ Filled(p)' = Filled(p) /\ HasPairs(p)' = HasPairs(p)
            => ElementsInv(p)'
         /\ /\ send_elements'[p] = send_elements[p] /\ recv_elements'[p] = recv_elements[p]
            /\ Schemed(p)' = Schemed(p)
            => SchemesInv(p)'
         /\ /\ nodes_flags'[p] = nodes_flags[p] /\ nodes_prank'[p] = nodes_prank[p]
            /\ HasPairs(p)' = HasPairs(p) /\ HasMissing(p)' = HasMissing(p)
            /\ pc'[p] \in {"pranks", "masterInfo"} \cup AfterTypes =>
                 pc[p] \in {"pranks", "masterInfo"} \cup AfterTypes
            /\ pc'[p] \in {"masterInfo"} \cup AfterTypes => pc[p] \in {"masterInfo"} \cup AfterTypes
            => FlagsInv(p)'
         /\ /\ send_nodes'[p] = send_nodes[p] /\ recv_nodes'[p] = recv_nodes[p]
            /\ HasMissing(p)' = HasMissing(p)
            /\ pc'[p] \in AfterTypes => pc[p] \in AfterTypes
            => NodeSchemesInv(p)'
<1>1. /\ ElementsOf' = ElementsOf /\ NodesOf' = NodesOf /\ SchemeOf' = SchemeOf
  BY ElementsAreRigid DEF MeshStays
<1>2. /\ AllNodes' = AllNodes /\ FlagsOf' = FlagsOf /\ MissingOf' = MissingOf
      /\ FlagsWithMissing' = FlagsWithMissing
      /\ KeptPranks' = KeptPranks /\ KeptWithMissing' = KeptWithMissing
      /\ SendOf' = SendOf /\ RecvOf' = RecvOf
      /\ SendWithMissing' = SendWithMissing /\ RecvWithMissing' = RecvWithMissing
  BY NodesAreRigid DEF MeshStays
<1>3. ASSUME elements'[p] = elements[p], nodes_global_ids'[p] = nodes_global_ids[p],
             Filled(p)' = Filled(p), HasPairs(p)' = HasPairs(p)
      PROVE  ElementsInv(p)'
  BY <1>1, <1>2, <1>3 DEF RankInv, ElementsInv
<1>4. ASSUME send_elements'[p] = send_elements[p], recv_elements'[p] = recv_elements[p],
             Schemed(p)' = Schemed(p)
      PROVE  SchemesInv(p)'
  BY <1>1, <1>4 DEF RankInv, SchemesInv
<1>5. ASSUME nodes_flags'[p] = nodes_flags[p], nodes_prank'[p] = nodes_prank[p],
             HasPairs(p)' = HasPairs(p), HasMissing(p)' = HasMissing(p),
             pc'[p] \in {"pranks", "masterInfo"} \cup AfterTypes =>
               pc[p] \in {"pranks", "masterInfo"} \cup AfterTypes,
             pc'[p] \in {"masterInfo"} \cup AfterTypes => pc[p] \in {"masterInfo"} \cup AfterTypes
      PROVE  FlagsInv(p)'
  BY <1>2, <1>5 DEF RankInv, FlagsInv
<1>6. ASSUME send_nodes'[p] = send_nodes[p], recv_nodes'[p] = recv_nodes[p],
             HasMissing(p)' = HasMissing(p), pc'[p] \in AfterTypes => pc[p] \in AfterTypes
      PROVE  NodeSchemesInv(p)'
  BY <1>2, <1>6 DEF RankInv, NodeSchemesInv
<1>7. QED
  BY <1>3, <1>4, <1>5, <1>6

(* The sizes tell whether there is one more type.                          *)
LEMMA SlaveSizesStep ==
  ASSUME IInv, NEW p \in Slave, SlaveSizes(p)
  PROVE  IInv'
<1>1. PICK c, tag : c = message_count[p] /\ tag = GenTag(root, c, "sizes")
  OBVIOUS
<1>2. /\ pc[p] = "sizes" /\ Arrived(p, root, tag) /\ mail' = Took(p, root, tag)
      /\ pc' = [pc EXCEPT ![p] = IF Data(p, root, tag) THEN "connectivities" ELSE "nbNodes"]
      /\ UNCHANGED <<mesh, part, proc, message_count, sending, meshData, elementSchemes,
                     nodeData, nodeSchemes, masterInfo>>
  BY <1>1 DEF SlaveSizes, Count, At, Goto
<1>3. p \in Rank /\ p # root /\ RankInv(p) /\ PlaceInv(p) /\ c \in 0 .. NbTypes
  BY <1>1, Numbers DEF IInv, RankInv, PlaceInv
<1>4. SlaveDown(p) = <<c, "sizes">>
  BY <1>1, <1>2 DEF SlaveDown
<1>5. Down[p][SlaveDown(p)] = Message(tag, ~ (c = NbTypes))
  <2>1. Down[p][<<c, "sizes">>] = Message(GenTag(root, c, "sizes"), ~ (c = NbTypes))
    BY <1>3, DownMessages
  <2>2. QED
    BY <1>1, <1>4, <2>1, Zenon
<1>6. /\ Data(p, root, tag) = ~ (c = NbTypes)
      /\ mail' = [mail EXCEPT ![root][p] = Tail(@)]
      /\ Flow(Tail(mail[root][p]), Succ[SlaveDown(p)], RootDown(p), Down[p], Succ)
  BY <1>2, <1>5, SlaveTakes DEF Message
<1>7. pc' = [pc EXCEPT ![p] = IF c = NbTypes THEN "nbNodes" ELSE "connectivities"]
  BY <1>2, <1>6
<1>8. pc'[p] = (IF c = NbTypes THEN "nbNodes" ELSE "connectivities") /\ SlaveOnly(p)
  BY <1>2, <1>3, <1>7 DEF IInv, ShapeInv, SlaveOnly, MeshStays, SameRank, meshData,
     elementSchemes, nodeData, nodeSchemes, masterInfo
<1>9. SlaveDown(p)' = Succ[SlaveDown(p)]
  <2>1. Succ[<<c, "sizes">>] = IF c = NbTypes THEN <<c, "nbNodes">> ELSE <<c, "connectivities">>
    BY <1>3, NextKeys
  <2>2. QED
    BY <1>1, <1>2, <1>4, <1>8, <2>1 DEF SlaveDown
<1>10. SlaveUp(p)' = SlaveUp(p)
  BY <1>2, <1>8 DEF SlaveUp
<1>11. RankInv(p)'
  <2>1. PlaceInv(p)'
    BY <1>1, <1>2, <1>3, <1>8, Numbers DEF PlaceInv, SlavePlace, InLoop, Periodic
  <2>2. /\ Filled(p)' = Filled(p) /\ Schemed(p)' = Schemed(p)
        /\ HasPairs(p)' = HasPairs(p) /\ HasMissing(p)' = HasMissing(p)
    BY <1>2, <1>8 DEF Filled, Schemed, HasPairs, HasMissing, AfterNodes
  <2>3. QED
    BY <1>2, <1>3, <1>8, <2>1, <2>2, PartsKept
       DEF SlaveOnly, RankInv, AfterTypes, meshData, elementSchemes, nodeData, nodeSchemes
<1>12. QED
  BY <1>6, <1>8, <1>9, <1>10, <1>11, SlaveReceives

-----------------------------------------------------------------------------
(* Steps in which a slave takes a message.                                 *)

(* The coordinates come when the root has the nodes.                       *)
LEMMA SlaveCoordinatesStep ==
  ASSUME IInv, NEW p \in Slave, SlaveCoordinates(p)
  PROVE  IInv'
<1>1. PICK c, tag : c = message_count[p] /\ tag = GenTag(root, 0, "coordinates")
  OBVIOUS
<1>2. p \in Rank /\ p # root /\ RankInv(p) /\ PlaceInv(p) /\ c \in 0 .. NbTypes
  BY <1>1, Numbers DEF IInv, RankInv, PlaceInv
<1>3. pc[p] = "coordinates" /\ Arrived(p, root, tag) /\ mail' = Took(p, root, tag)
  BY <1>1 DEF SlaveCoordinates, Count, At
<1>4. SlaveDown(p) = <<c, "coordinates">>
  BY <1>1, <1>3 DEF SlaveDown
<1>5. Down[p][SlaveDown(p)] = Message(tag, <<>>)
  <2>1. Down[p][<<c, "coordinates">>] = Message(GenTag(root, 0, "coordinates"), <<>>)
    BY <1>2, DownMessages
  <2>2. QED
    BY <1>1, <1>4, <2>1, Zenon
<1>6. /\ Data(p, root, tag) = <<>>
      /\ mail' = [mail EXCEPT ![root][p] = Tail(@)]
      /\ Flow(Tail(mail[root][p]), Succ[SlaveDown(p)], RootDown(p), Down[p], Succ)
  BY <1>3, <1>5, SlaveTakes DEF Message
<1>7. /\ pc' = [pc EXCEPT ![p] = "flags"]
      /\ UNCHANGED <<mesh, part, proc, message_count, meshData, elementSchemes, nodeData,
                     nodeSchemes, masterInfo>>
  BY <1>1, <1>6 DEF SlaveCoordinates, Goto
<1>8. pc'[p] = "flags" /\ SlaveOnly(p)
  BY <1>2, <1>7 DEF IInv, ShapeInv, SlaveOnly, MeshStays, SameRank, meshData,
     elementSchemes, nodeData, nodeSchemes, masterInfo
<1>9. SlaveDown(p)' = Succ[SlaveDown(p)]
  <2>1. Succ[<<c, "coordinates">>] = <<c, "types">>
    BY <1>2, NextKeys
  <2>2. QED
    BY <1>1, <1>4, <1>7, <1>8, <2>1 DEF SlaveDown
<1>10. SlaveUp(p)' = SlaveUp(p)
  BY <1>3, <1>7, <1>8 DEF SlaveUp
<1>11. RankInv(p)'
  <2>1. PlaceInv(p)'
    BY <1>1, <1>2, <1>3, <1>7, <1>8, Numbers DEF PlaceInv, SlavePlace, InLoop, Periodic
  <2>2. /\ Filled(p)' = Filled(p) /\ Schemed(p)' = Schemed(p)
        /\ HasPairs(p)' = HasPairs(p) /\ HasMissing(p)' = HasMissing(p)
    BY <1>3, <1>7, <1>8 DEF Filled, Schemed, HasPairs, HasMissing, AfterNodes
  <2>3. QED
    BY <1>2, <1>3, <1>7, <1>8, <2>1, <2>2, PartsKept
       DEF SlaveOnly, RankInv, AfterTypes, meshData, elementSchemes, nodeData, nodeSchemes
<1>12. QED
  BY <1>6, <1>8, <1>9, <1>10, <1>11, SlaveReceives

(* The values of tags are the last that comes.                             *)
LEMMA SlaveNodeTagsStep ==
  ASSUME IInv, NEW p \in Slave, SlaveNodeTags(p)
  PROVE  IInv'
<1>1. PICK c, tag : c = message_count[p] /\ tag = GenTag(root, 0, "mesh_data")
  OBVIOUS
<1>2. p \in Rank /\ p # root /\ RankInv(p) /\ PlaceInv(p) /\ c \in 0 .. NbTypes
  BY <1>1, Numbers DEF IInv, RankInv, PlaceInv
<1>3. pc[p] = "nodeTags" /\ Arrived(p, root, tag) /\ mail' = Took(p, root, tag)
  BY <1>1 DEF SlaveNodeTags, Count, At
<1>4. SlaveDown(p) = <<c, "nodeTags">>
  BY <1>1, <1>3 DEF SlaveDown
<1>5. Down[p][SlaveDown(p)] = Message(tag, Cardinality(AllNodes[p]))
  <2>1. Down[p][<<c, "nodeTags">>] = Message(GenTag(root, 0, "mesh_data"), Cardinality(AllNodes[p]))
    BY <1>2, DownMessages
  <2>2. QED
    BY <1>1, <1>4, <2>1, Zenon
<1>6. /\ Data(p, root, tag) = Cardinality(AllNodes[p])
      /\ mail' = [mail EXCEPT ![root][p] = Tail(@)]
      /\ Flow(Tail(mail[root][p]), Succ[SlaveDown(p)], RootDown(p), Down[p], Succ)
  BY <1>3, <1>5, SlaveTakes DEF Message
<1>7. /\ pc' = [pc EXCEPT ![p] = "done"]
      /\ UNCHANGED <<mesh, part, proc, message_count, meshData, elementSchemes, nodeData,
                     nodeSchemes, masterInfo>>
  BY <1>1, <1>6 DEF SlaveNodeTags, Goto
<1>8. pc'[p] = "done" /\ SlaveOnly(p)
  BY <1>2, <1>7 DEF IInv, ShapeInv, SlaveOnly, MeshStays, SameRank, meshData,
     elementSchemes, nodeData, nodeSchemes, masterInfo
<1>9. SlaveDown(p)' = Succ[SlaveDown(p)]
  <2>1. Succ[<<c, "nodeTags">>] = <<c, "done">>
    BY <1>2, NextKeys
  <2>2. QED
    BY <1>1, <1>4, <1>7, <1>8, <2>1 DEF SlaveDown
<1>10. SlaveUp(p)' = SlaveUp(p)
  BY <1>3, <1>7, <1>8 DEF SlaveUp
<1>11. RankInv(p)'
  <2>1. PlaceInv(p)'
    BY <1>1, <1>2, <1>3, <1>7, <1>8, Numbers DEF PlaceInv, SlavePlace, InLoop, Periodic
  <2>2. /\ Filled(p)' = Filled(p) /\ Schemed(p)' = Schemed(p)
        /\ HasPairs(p)' = HasPairs(p) /\ HasMissing(p)' = HasMissing(p)
    BY <1>3, <1>7, <1>8 DEF Filled, Schemed, HasPairs, HasMissing, AfterNodes
  <2>3. QED
    BY <1>2, <1>3, <1>7, <1>8, <2>1, <2>2, PartsKept
       DEF SlaveOnly, RankInv, AfterTypes, meshData, elementSchemes, nodeData, nodeSchemes
<1>12. QED
  BY <1>6, <1>8, <1>9, <1>10, <1>11, SlaveReceives

(* The elements of one more type.                                          *)
LEMMA SlaveConnectivitiesStep ==
  ASSUME IInv, NEW p \in Slave, SlaveConnectivities(p)
  PROVE  IInv'
<1>1. PICK c, tag : c = message_count[p] /\ tag = GenTag(root, c, "connectivity")
  OBVIOUS
<1>2. p \in Rank /\ p # root /\ RankInv(p) /\ PlaceInv(p) /\ c \in 0 .. NbTypes
  BY <1>1, Numbers DEF IInv, RankInv, PlaceInv
<1>3. pc[p] = "connectivities" /\ Arrived(p, root, tag) /\ mail' = Took(p, root, tag)
  BY <1>1 DEF SlaveConnectivities, Count, At
<1>4. SlaveDown(p) = <<c, "connectivities">>
  BY <1>1, <1>3 DEF SlaveDown
<1>5. Down[p][SlaveDown(p)] = Message(tag, [local |-> LocalOf[p][Types[c + 1]],
                                            ghost |-> GhostOf[p][Types[c + 1]]])
  <2>1. Down[p][<<c, "connectivities">>] =
          Message(GenTag(root, c, "connectivity"), [local |-> LocalOf[p][Types[c + 1]],
                                                    ghost |-> GhostOf[p][Types[c + 1]]])
    BY <1>2, DownMessages
  <2>2. QED
    BY <1>1, <1>4, <2>1, Zenon
<1>6. /\ Data(p, root, tag) = [local |-> LocalOf[p][Types[c + 1]],
                      ghost |-> GhostOf[p][Types[c + 1]]]
      /\ mail' = [mail EXCEPT ![root][p] = Tail(@)]
      /\ Flow(Tail(mail[root][p]), Succ[SlaveDown(p)], RootDown(p), Down[p], Succ)
  BY <1>3, <1>5, SlaveTakes DEF Message
<1>7. /\ pc' = [pc EXCEPT ![p] = "partitions"]
      /\ elements' = [elements EXCEPT ![p][Types[c + 1]] =
                        [local |-> LocalOf[p][Types[c + 1]], ghost |-> GhostOf[p][Types[c + 1]]]]
      /\ nodes_global_ids' = [nodes_global_ids EXCEPT ![p] =
           @ \cup UNION {ToSet(Nodes(e)) :
                          e \in ToSet(LocalOf[p][Types[c + 1]] \o GhostOf[p][Types[c + 1]])}]
      /\ UNCHANGED <<mesh, part, proc, message_count, elementSchemes, nodeData, nodeSchemes,
                     masterInfo>>
  <2>1. /\ pc' = [pc EXCEPT ![p] = "partitions"] /\ Type(p) = Types[c + 1]
        /\ SetElements(p, Data(p, root, tag).local, Data(p, root, tag).ghost)
        /\ UNCHANGED <<mesh, part, proc, message_count, elementSchemes, nodeData, nodeSchemes,
                       masterInfo>>
    BY <1>1 DEF SlaveConnectivities, Goto, Count, Type
  <2>2. /\ Data(p, root, tag).local = LocalOf[p][Types[c + 1]]
        /\ Data(p, root, tag).ghost = GhostOf[p][Types[c + 1]]
    BY <1>6
  <2>3. QED
    BY <2>1, <2>2 DEF SetElements
<1>8. pc'[p] = "partitions" /\ SlaveOnly(p)
  BY <1>2, <1>7 DEF IInv, ShapeInv, SlaveOnly, MeshStays, SameRank, meshData,
     elementSchemes, nodeData, nodeSchemes, masterInfo
<1>9. SlaveDown(p)' = Succ[SlaveDown(p)]
  <2>1. Succ[<<c, "connectivities">>] = <<c, "partitions">>
    BY <1>2, NextKeys
  <2>2. QED
    BY <1>1, <1>4, <1>7, <1>8, <2>1 DEF SlaveDown
<1>10. SlaveUp(p)' = SlaveUp(p)
  BY <1>3, <1>7, <1>8 DEF SlaveUp
<1>11. RankInv(p)'
  <2>1. PlaceInv(p)'
    BY <1>1, <1>2, <1>3, <1>7, <1>8, Numbers DEF PlaceInv, SlavePlace, InLoop, Periodic
  <2>2. /\ Filled(p) = c /\ Filled(p)' = c + 1 /\ Schemed(p)' = Schemed(p)
        /\ HasPairs(p)' = HasPairs(p) /\ HasMissing(p)' = HasMissing(p)
        /\ ~HasPairs(p) /\ ~HasPairs(p)'
    BY <1>1, <1>3, <1>7, <1>8 DEF Filled, Schemed, HasPairs, HasMissing, AfterNodes
  <2>3. ElementsInv(p)'
    <3>1. c < NbTypes /\ elements[p] = ElementsOf[p][c] /\ nodes_global_ids[p] = NodesOf[p][c]
      BY <1>1, <1>2, <1>3, <2>2 DEF RankInv, PlaceInv, InLoop, ElementsInv
    <3>2. elements'[p] = ElementsOf[p][c + 1]
      <4>1. elements'[p] = [elements[p] EXCEPT
                              ![Types[c + 1]] = [local |-> LocalOf[p][Types[c + 1]],
                                                 ghost |-> GhostOf[p][Types[c + 1]]]]
        BY <1>2, <1>7 DEF IInv, ShapeInv
      <4>2. QED
        BY <1>2, <3>1, <4>1, ElementsGrow
    <3>3. nodes_global_ids'[p] = NodesOf[p][c + 1]
      <4>1. nodes_global_ids'[p] =
              nodes_global_ids[p] \cup
                UNION {ToSet(Nodes(e)) :
                         e \in ToSet(LocalOf[p][Types[c + 1]] \o GhostOf[p][Types[c + 1]])}
        BY <1>2, <1>7 DEF IInv, ShapeInv
      <4>2. QED
        BY <1>2, <3>1, <4>1, ElementsGrow
    <3>4. ElementsOf' = ElementsOf /\ NodesOf' = NodesOf
      BY <1>8, ElementsAreRigid DEF SlaveOnly, MeshStays
    <3>5. QED
      BY <2>2, <3>2, <3>3, <3>4 DEF ElementsInv
  <2>4. QED
    BY <1>2, <1>3, <1>7, <1>8, <2>1, <2>2, <2>3, PartsKept
       DEF SlaveOnly, RankInv, AfterTypes, elementSchemes, nodeData, nodeSchemes
<1>12. QED
  BY <1>6, <1>8, <1>9, <1>10, <1>11, SlaveReceives

(* A type of cells makes the schemes longer.                               *)
SchemesFilled(p, c) ==
  /\ send_elements'[p] = [q \in Rank |-> SchemeOf[p][q][c + 1]]
  /\ recv_elements'[p] = [q \in Rank |-> SchemeOf[q][p][c + 1]]

(* fillCommunicationScheme does it, and leaves them alone for other types. *)
LEMMA SchemesAreFilled ==
  ASSUME IInv, NEW p \in Rank, NEW c \in 0 .. NbTypes, c < NbTypes, Type(p) = Types[c + 1],
         Schemed(p) = c, Filled(p) = c + 1, FillElementSchemes(p, InfoOf[p][Types[c + 1]])
  PROVE  SchemesFilled(p, c)
<1>1. PICK t, info : t = Types[c + 1] /\ info = InfoOf[p][t]
  OBVIOUS
<1>2. t \in ToSet(Types) /\ c + 1 \in 1 .. NbTypes
  BY <1>1, FirstTypesProperties
<1>3. elements[p][t] = [local |-> LocalOf[p][t], ghost |-> GhostOf[p][t]]
  <2>1. elements[p] = ElementsOf[p][c + 1]
    BY DEF IInv, RankInv, ElementsInv
  <2>2. ElementsOf[p][c + 1][Types[c + 1]] =
          [local |-> LocalOf[p][Types[c + 1]], ghost |-> GhostOf[p][Types[c + 1]]]
    BY ElementsGrow
  <2>3. QED
    BY <1>1, <2>1, <2>2
<1>4. /\ send_elements[p] = [q \in Rank |-> SchemeOf[p][q][c]]
      /\ recv_elements[p] = [q \in Rank |-> SchemeOf[q][p][c]]
  BY DEF IInv, RankInv, SchemesInv
<1>5. CASE Dim[t] = Dimension
  <2>1. ASSUME NEW q \in Rank
        PROVE  /\ SendScheme(p, q, info) = SchemeOf[p][q][c + 1]
               /\ RecvScheme(p, q, info) = SchemeOf[q][p][c + 1]
    <3>1. /\ SendScheme(p, q, info) = SchemeOf[p][q][c] \o Given(p, q, t)
          /\ RecvScheme(p, q, info) = SchemeOf[q][p][c] \o Given(q, p, t)
      <4>1. PICK S, R : /\ S = {e \in DOMAIN info.to : q \in info.to[e]}
                        /\ R = {e \in DOMAIN info.from : info.from[e] = q}
        OBVIOUS
      <4>2. /\ SendScheme(p, q, info) = send_elements[p][q] \o Among(elements[p][Type(p)].local, S)
            /\ RecvScheme(p, q, info) = recv_elements[p][q] \o Among(elements[p][Type(p)].ghost, R)
        BY <4>1 DEF SendScheme, RecvScheme
      <4>3. /\ send_elements[p][q] = SchemeOf[p][q][c] /\ recv_elements[p][q] = SchemeOf[q][p][c]
            /\ elements[p][Type(p)].local = LocalOf[p][t]
            /\ elements[p][Type(p)].ghost = GhostOf[p][t]
        BY <1>1, <1>3, <1>4
      <4>4. Among(LocalOf[p][t], S) = Given(p, q, t) /\ Among(GhostOf[p][t], R) = Given(q, p, t)
        BY <1>1, <1>2, <4>1, GivenElements
      <4>5. QED
        BY <4>2, <4>3, <4>4
    <3>2. /\ SchemeOf[p][q][c + 1] = SchemeOf[p][q][c] \o Given(p, q, t)
          /\ SchemeOf[q][p][c + 1] = SchemeOf[q][p][c] \o Given(q, p, t)
      <4>1. PICK d : d = c + 1 /\ d \in 1 .. NbTypes /\ d - 1 = c /\ Types[d] = t
        BY <1>1, <1>2
      <4>2. SchemeOf[p][q][d] = SchemeOf[p][q][d - 1] \o Given(p, q, t)
        BY <1>5, <4>1, SchemesGrow
      <4>3. SchemeOf[q][p][d] = SchemeOf[q][p][d - 1] \o Given(q, p, t)
        BY <1>5, <4>1, SchemesGrow
      <4>4. QED
        BY <4>1, <4>2, <4>3
    <3>3. QED
      BY <3>1, <3>2
  <2>2. /\ send_elements'[p] = [q \in Rank |-> SendScheme(p, q, info)]
        /\ recv_elements'[p] = [q \in Rank |-> RecvScheme(p, q, info)]
    BY <1>1, <1>5 DEF FillElementSchemes, IInv, ShapeInv
  <2>3. QED
    BY <2>1, <2>2 DEF SchemesFilled
<1>6. CASE Dim[t] # Dimension
  <2>1. send_elements' = send_elements /\ recv_elements' = recv_elements
    BY <1>1, <1>6 DEF FillElementSchemes, elementSchemes
  <2>2. \A q \in Rank : /\ SchemeOf[p][q][c + 1] = SchemeOf[p][q][c]
                        /\ SchemeOf[q][p][c + 1] = SchemeOf[q][p][c]
    BY <1>1, <1>2, <1>6, SchemesGrow
  <2>3. QED
    BY <1>4, <2>1, <2>2 DEF SchemesFilled
<1>7. QED
  BY <1>5, <1>6

(* The schemes of one more type.                                           *)
LEMMA SlavePartitionsStep ==
  ASSUME IInv, NEW p \in Slave, SlavePartitions(p)
  PROVE  IInv'
<1>1. PICK c, tag : c = message_count[p] /\ tag = GenTag(root, c, "partitions")
  OBVIOUS
<1>2. p \in Rank /\ p # root /\ RankInv(p) /\ PlaceInv(p) /\ c \in 0 .. NbTypes
  BY <1>1, Numbers DEF IInv, RankInv, PlaceInv
<1>3. pc[p] = "partitions" /\ Arrived(p, root, tag) /\ mail' = Took(p, root, tag)
  BY <1>1 DEF SlavePartitions, Count, At
<1>4. SlaveDown(p) = <<c, "partitions">>
  BY <1>1, <1>3 DEF SlaveDown
<1>5. Down[p][SlaveDown(p)] = Message(tag, InfoOf[p][Types[c + 1]])
  <2>1. Down[p][<<c, "partitions">>] =
          Message(GenTag(root, c, "partitions"), InfoOf[p][Types[c + 1]])
    BY <1>2, DownMessages
  <2>2. QED
    BY <1>1, <1>4, <2>1, Zenon
<1>6. /\ Data(p, root, tag) = InfoOf[p][Types[c + 1]]
      /\ mail' = [mail EXCEPT ![root][p] = Tail(@)]
      /\ Flow(Tail(mail[root][p]), Succ[SlaveDown(p)], RootDown(p), Down[p], Succ)
  BY <1>3, <1>5, SlaveTakes DEF Message
<1>7. /\ pc' = [pc EXCEPT ![p] = IF mesh.tags THEN "tagNames" ELSE "groups"]
      /\ FillElementSchemes(p, InfoOf[p][Types[c + 1]])
      /\ UNCHANGED <<mesh, part, proc, message_count, meshData, nodeData, nodeSchemes, masterInfo>>
  <2>1. /\ pc' = [pc EXCEPT ![p] = IF mesh.tags THEN "tagNames" ELSE "groups"]
        /\ FillElementSchemes(p, Data(p, root, tag))
        /\ UNCHANGED <<mesh, part, proc, message_count, meshData, nodeData, nodeSchemes,
                       masterInfo>>
    BY <1>1 DEF SlavePartitions, Goto, Count
  <2>2. QED
    BY <1>6, <2>1
<1>8. pc'[p] = (IF mesh.tags THEN "tagNames" ELSE "groups") /\ SlaveOnly(p)
  BY <1>2, <1>7 DEF IInv, ShapeInv, SlaveOnly, MeshStays, SameRank, meshData,
     elementSchemes, nodeData, nodeSchemes, masterInfo,
     FillElementSchemes
<1>9. SlaveDown(p)' = Succ[SlaveDown(p)]
  <2>1. Succ[<<c, "partitions">>] = <<c, IF mesh.tags THEN "tagNames" ELSE "groups">>
    BY <1>2, NextKeys
  <2>2. QED
    BY <1>1, <1>4, <1>7, <1>8, <2>1 DEF SlaveDown
<1>10. SlaveUp(p)' = SlaveUp(p)
  BY <1>3, <1>7, <1>8 DEF SlaveUp
<1>11. RankInv(p)'
  <2>1. PlaceInv(p)'
    BY <1>1, <1>2, <1>3, <1>7, <1>8, Numbers DEF PlaceInv, SlavePlace, InLoop, Periodic
  <2>2. /\ Schemed(p) = c /\ Schemed(p)' = c + 1 /\ Filled(p) = c + 1 /\ Filled(p)' = Filled(p)
        /\ HasPairs(p)' = HasPairs(p) /\ HasMissing(p)' = HasMissing(p)
    BY <1>1, <1>3, <1>7, <1>8 DEF Filled, Schemed, HasPairs, HasMissing, AfterNodes
  <2>3. SchemesInv(p)'
    <3>1. c < NbTypes /\ Type(p) = Types[c + 1]
      BY <1>1, <1>2, <1>3 DEF PlaceInv, InLoop, Type, Count
    <3>2. SchemesFilled(p, c)
      BY <1>2, <1>7, <2>2, <3>1, SchemesAreFilled DEF RankInv
    <3>3. SchemeOf' = SchemeOf
      BY <1>8, ElementsAreRigid DEF SlaveOnly, MeshStays
    <3>4. QED
      BY <2>2, <3>2, <3>3 DEF SchemesInv, SchemesFilled
  <2>4. QED
    BY <1>2, <1>3, <1>7, <1>8, <2>1, <2>2, <2>3, PartsKept
       DEF SlaveOnly, RankInv, AfterTypes, meshData, nodeData, nodeSchemes
<1>12. QED
  BY <1>6, <1>8, <1>9, <1>10, <1>11, SlaveReceives

(* Flags as the root has decided them.                                     *)
LEMMA SlaveTypesStep ==
  ASSUME IInv, NEW p \in Slave, SlaveTypes(p)
  PROVE  IInv'
<1>1. PICK c, tag : c = message_count[p] /\ tag = GenTag(root, 0, "nodes_type")
  OBVIOUS
<1>2. p \in Rank /\ p # root /\ RankInv(p) /\ PlaceInv(p) /\ c \in 0 .. NbTypes
  BY <1>1, Numbers DEF IInv, RankInv, PlaceInv
<1>3. pc[p] = "types" /\ Arrived(p, root, tag) /\ mail' = Took(p, root, tag)
  BY <1>1 DEF SlaveTypes, Count, At
<1>4. SlaveDown(p) = <<c, "types">>
  BY <1>1, <1>3 DEF SlaveDown
<1>5. Down[p][SlaveDown(p)] = Message(tag, FlagsOf[p])
  <2>1. Down[p][<<c, "types">>] = Message(GenTag(root, 0, "nodes_type"), FlagsOf[p])
    BY <1>2, DownMessages
  <2>2. QED
    BY <1>1, <1>4, <2>1, Zenon
<1>6. /\ Data(p, root, tag) = FlagsOf[p]
      /\ mail' = [mail EXCEPT ![root][p] = Tail(@)]
      /\ Flow(Tail(mail[root][p]), Succ[SlaveDown(p)], RootDown(p), Down[p], Succ)
  BY <1>3, <1>5, SlaveTakes DEF Message
<1>7. /\ pc' = [pc EXCEPT ![p] = "pranks"]
      /\ nodes_flags' = [nodes_flags EXCEPT ![p] = FlagsOf[p]]
      /\ UNCHANGED <<mesh, part, proc, message_count, meshData, elementSchemes, nodes_prank,
                     nodeSchemes, masterInfo>>
  BY <1>1, <1>6 DEF SlaveTypes, Goto
<1>8. pc'[p] = "pranks" /\ SlaveOnly(p)
  BY <1>2, <1>7 DEF IInv, ShapeInv, SlaveOnly, MeshStays, SameRank, meshData,
     elementSchemes, nodeData, nodeSchemes, masterInfo
<1>9. SlaveDown(p)' = Succ[SlaveDown(p)]
  <2>1. Succ[<<c, "types">>] = <<c, "pranks">>
    BY <1>2, NextKeys
  <2>2. QED
    BY <1>1, <1>4, <1>7, <1>8, <2>1 DEF SlaveDown
<1>10. SlaveUp(p)' = SlaveUp(p)
  BY <1>3, <1>7, <1>8 DEF SlaveUp
<1>11. RankInv(p)'
  <2>1. PlaceInv(p)'
    BY <1>1, <1>2, <1>3, <1>7, <1>8, Numbers DEF PlaceInv, SlavePlace, InLoop, Periodic
  <2>2. /\ Filled(p)' = Filled(p) /\ Schemed(p)' = Schemed(p)
        /\ HasPairs(p)' = HasPairs(p) /\ HasMissing(p)' = HasMissing(p)
        /\ ~HasPairs(p)' /\ ~HasMissing(p)'
    BY <1>3, <1>7, <1>8 DEF Filled, Schemed, HasPairs, HasMissing, AfterNodes
  <2>3. FlagsInv(p)'
    <3>1. nodes_flags'[p] = FlagsOf[p]
      BY <1>2, <1>7 DEF IInv, ShapeInv
    <3>2. FlagsOf' = FlagsOf
      BY <1>8, NodesAreRigid DEF SlaveOnly, MeshStays
    <3>3. QED
      BY <1>8, <2>2, <3>1, <3>2 DEF FlagsInv, AfterTypes
  <2>4. QED
    BY <1>2, <1>3, <1>7, <1>8, <2>1, <2>2, <2>3, PartsKept
       DEF SlaveOnly, RankInv, AfterTypes, meshData, elementSchemes, nodeSchemes
<1>12. QED
  BY <1>6, <1>8, <1>9, <1>10, <1>11, SlaveReceives

(* The owners of the nodes that are not its own.                           *)
LEMMA SlavePranksStep ==
  ASSUME IInv, NEW p \in Slave, SlavePranks(p)
  PROVE  IInv'
<1>1. PICK c, tag : c = message_count[p] /\ tag = GenTag(root, 2, "nodes_type")
  OBVIOUS
<1>2. p \in Rank /\ p # root /\ RankInv(p) /\ PlaceInv(p) /\ c \in 0 .. NbTypes
  BY <1>1, Numbers DEF IInv, RankInv, PlaceInv
<1>3. pc[p] = "pranks" /\ Arrived(p, root, tag) /\ mail' = Took(p, root, tag)
  BY <1>1 DEF SlavePranks, Count, At
<1>4. SlaveDown(p) = <<c, "pranks">>
  BY <1>1, <1>3 DEF SlaveDown
<1>5. Down[p][SlaveDown(p)] = Message(tag, PranksOf[p])
  <2>1. Down[p][<<c, "pranks">>] = Message(GenTag(root, 2, "nodes_type"), PranksOf[p])
    BY <1>2, DownMessages
  <2>2. QED
    BY <1>1, <1>4, <2>1, Zenon
<1>6. /\ Data(p, root, tag) = PranksOf[p]
      /\ mail' = [mail EXCEPT ![root][p] = Tail(@)]
      /\ Flow(Tail(mail[root][p]), Succ[SlaveDown(p)], RootDown(p), Down[p], Succ)
  BY <1>3, <1>5, SlaveTakes DEF Message
<1>7. /\ pc' = [pc EXCEPT ![p] = "masterInfo"]
      /\ SetPranks(p, nodes_flags[p], PranksOf[p])
      /\ UNCHANGED <<mesh, part, proc, message_count, meshData, elementSchemes, nodes_flags,
                     nodeSchemes, masterInfo>>
  BY <1>1, <1>6 DEF SlavePranks, Goto
<1>8. pc'[p] = "masterInfo" /\ SlaveOnly(p)
  BY <1>2, <1>7 DEF IInv, ShapeInv, SlaveOnly, MeshStays, SameRank, meshData,
     elementSchemes, nodeData, nodeSchemes, masterInfo, SetPranks
<1>9. SlaveDown(p)' = Succ[SlaveDown(p)]
  <2>1. Succ[<<c, "pranks">>] = <<c, "masterInfo">>
    BY <1>2, NextKeys
  <2>2. QED
    BY <1>1, <1>4, <1>7, <1>8, <2>1 DEF SlaveDown
<1>10. SlaveUp(p)' = SlaveUp(p)
  BY <1>3, <1>7, <1>8 DEF SlaveUp
<1>11. RankInv(p)'
  <2>1. PlaceInv(p)'
    BY <1>1, <1>2, <1>3, <1>7, <1>8, Numbers DEF PlaceInv, SlavePlace, InLoop, Periodic
  <2>2. /\ Filled(p)' = Filled(p) /\ Schemed(p)' = Schemed(p)
        /\ HasPairs(p)' = HasPairs(p) /\ HasMissing(p)' = HasMissing(p)
        /\ ~HasPairs(p)' /\ ~HasMissing(p)'
    BY <1>3, <1>7, <1>8 DEF Filled, Schemed, HasPairs, HasMissing, AfterNodes
  <2>3. FlagsInv(p)'
    <3>1. nodes_flags[p] = FlagsOf[p]
      BY <1>2, <1>3 DEF RankInv, FlagsInv, HasPairs, AfterNodes
    <3>2. nodes_prank'[p] = KeptPranks[p]
      BY <1>2, <1>7, <3>1 DEF IInv, ShapeInv, SetPranks, KeptPranks
    <3>3. FlagsOf' = FlagsOf /\ KeptPranks' = KeptPranks
      BY <1>8, NodesAreRigid DEF SlaveOnly, MeshStays
    <3>4. QED
      BY <1>7, <1>8, <2>2, <3>1, <3>2, <3>3 DEF FlagsInv, AfterTypes
  <2>4. QED
    BY <1>2, <1>3, <1>7, <1>8, <2>1, <2>2, <2>3, PartsKept
       DEF SlaveOnly, RankInv, AfterTypes, meshData, elementSchemes, nodeSchemes
<1>12. QED
  BY <1>6, <1>8, <1>9, <1>10, <1>11, SlaveReceives

(* With what a rank keeps of the owners it finds what it receives.         *)
LEMMA ReceivedByKept ==
  ASSUME NEW p \in Rank
  PROVE  [q \in Rank |-> RecvNodes(p, FlagsOf[p], KeptPranks[p], q)] = RecvOf[p]
<1>1. ASSUME NEW q \in Rank
      PROVE  RecvNodes(p, FlagsOf[p], KeptPranks[p], q) = RecvOf[p][q]
  <2>1. \A n \in DOMAIN FlagsOf[p] :
          FlagsOf[p][n] = "slave" => KeptPranks[p][n] = PranksOf[p][n]
    BY DEF KeptPranks, Foreign
  <2>2. {n \in DOMAIN FlagsOf[p] : FlagsOf[p][n] = "slave" /\ KeptPranks[p][n] = q} =
        {n \in DOMAIN FlagsOf[p] : FlagsOf[p][n] = "slave" /\ PranksOf[p][n] = q}
    BY <2>1
  <2>3. QED
    BY <2>2 DEF RecvNodes, RecvOf
<1>2. QED
  BY <1>1 DEF RecvOf

(* The schemes of the nodes.                                               *)
LEMMA SlaveMasterInfoStep ==
  ASSUME IInv, NEW p \in Slave, SlaveMasterInfo(p)
  PROVE  IInv'
<1>1. PICK c, tag : c = message_count[p] /\ tag = GenTag(root, 1, "nodes_type")
  OBVIOUS
<1>2. p \in Rank /\ p # root /\ RankInv(p) /\ PlaceInv(p) /\ c \in 0 .. NbTypes
  BY <1>1, Numbers DEF IInv, RankInv, PlaceInv
<1>3. pc[p] = "masterInfo" /\ Arrived(p, root, tag) /\ mail' = Took(p, root, tag)
  BY <1>1 DEF SlaveMasterInfo, Count, At
<1>4. SlaveDown(p) = <<c, "masterInfo">>
  BY <1>1, <1>3 DEF SlaveDown
<1>5. Down[p][SlaveDown(p)] = Message(tag, ToOf[p])
  <2>1. Down[p][<<c, "masterInfo">>] = Message(GenTag(root, 1, "nodes_type"), ToOf[p])
    BY <1>2, DownMessages
  <2>2. QED
    BY <1>1, <1>4, <2>1, Zenon
<1>6. /\ Data(p, root, tag) = ToOf[p]
      /\ mail' = [mail EXCEPT ![root][p] = Tail(@)]
      /\ Flow(Tail(mail[root][p]), Succ[SlaveDown(p)], RootDown(p), Down[p], Succ)
  BY <1>3, <1>5, SlaveTakes DEF Message
<1>7. /\ pc' = [pc EXCEPT ![p] = "nodeGroups"]
      /\ FillNodeSchemes(p, nodes_flags[p], nodes_prank[p], ToOf[p])
      /\ UNCHANGED <<mesh, part, proc, message_count, meshData, elementSchemes, nodeData,
                     masterInfo>>
  BY <1>1, <1>6 DEF SlaveMasterInfo, Goto
<1>8. pc'[p] = "nodeGroups" /\ SlaveOnly(p)
  BY <1>2, <1>7 DEF IInv, ShapeInv, SlaveOnly, MeshStays, SameRank, meshData,
     elementSchemes, nodeData, nodeSchemes, masterInfo,
     FillNodeSchemes
<1>9. SlaveDown(p)' = Succ[SlaveDown(p)]
  <2>1. Succ[<<c, "masterInfo">>] = <<c, "nodeGroups">>
    BY <1>2, NextKeys
  <2>2. QED
    BY <1>1, <1>4, <1>7, <1>8, <2>1 DEF SlaveDown
<1>10. SlaveUp(p)' = SlaveUp(p)
  BY <1>3, <1>7, <1>8 DEF SlaveUp
<1>11. RankInv(p)'
  <2>1. PlaceInv(p)'
    BY <1>1, <1>2, <1>3, <1>7, <1>8, Numbers DEF PlaceInv, SlavePlace, InLoop, Periodic
  <2>2. /\ Filled(p)' = Filled(p) /\ Schemed(p)' = Schemed(p)
        /\ HasPairs(p)' = HasPairs(p) /\ HasMissing(p)' = HasMissing(p)
        /\ ~HasPairs(p)' /\ ~HasMissing(p)'
    BY <1>3, <1>7, <1>8 DEF Filled, Schemed, HasPairs, HasMissing, AfterNodes
  <2>3. NodeSchemesInv(p)'
    <3>1. nodes_flags[p] = FlagsOf[p] /\ nodes_prank[p] = KeptPranks[p]
      BY <1>2, <1>3 DEF RankInv, FlagsInv, HasPairs, HasMissing, AfterNodes
    <3>2. /\ send_nodes'[p] = [q \in Rank |-> Sorted(ToOf[p][q])]
          /\ recv_nodes'[p] = [q \in Rank |-> RecvNodes(p, FlagsOf[p], KeptPranks[p], q)]
      BY <1>2, <1>7, <3>1 DEF IInv, ShapeInv, FillNodeSchemes
    <3>3. send_nodes'[p] = SendOf[p] /\ recv_nodes'[p] = RecvOf[p]
      BY <1>2, <3>2, ReceivedByKept DEF SendOf
    <3>4. SendOf' = SendOf /\ RecvOf' = RecvOf
      BY <1>8, NodesAreRigid DEF SlaveOnly, MeshStays
    <3>5. QED
      BY <2>2, <3>3, <3>4 DEF NodeSchemesInv
  <2>4. QED
    BY <1>2, <1>3, <1>7, <1>8, <2>1, <2>2, <2>3, PartsKept
       DEF SlaveOnly, RankInv, AfterTypes, meshData, elementSchemes, nodeData
<1>12. QED
  BY <1>6, <1>8, <1>9, <1>10, <1>11, SlaveReceives

(* What a rank adds when it is told of the nodes it misses.                *)
MissingAdded(p) ==
  /\ nodes_prank'[p] = KeptWithMissing[p]
  /\ send_nodes'[p] = SendWithMissing[p] /\ recv_nodes'[p] = RecvWithMissing[p]

(* receiveMissingPeriodic adds it.                                         *)
LEMMA MissingIsAdded ==
  ASSUME IInv, NEW p \in Rank, pc[p] = "periodicNodes",
         ReceiveMissingPeriodic(p, MissingInfoOf[p])
  PROVE  MissingAdded(p)
<1>1. RankInv(p)
  BY DEF IInv
<1>2. nodes_prank[p] = KeptPranks[p] /\ send_nodes[p] = SendOf[p] /\ recv_nodes[p] = RecvOf[p]
  BY <1>1 DEF RankInv, FlagsInv, NodeSchemesInv, HasMissing, AfterTypes, AfterNodes
<1>3. PICK prank, to : /\ prank = [n \in MissingOf[p] |-> OwnerOf[n]]
                       /\ to = [q \in Rank |-> {n \in MissingOf[q] : OwnerOf[n] = p}]
  OBVIOUS
<1>4. MissingInfoOf[p] = [prank |-> prank, to |-> to] /\ DOMAIN prank = MissingOf[p]
  BY <1>3 DEF MissingInfoOf
<1>5. nodes_prank'[p] = KeptWithMissing[p]
  <2>1. nodes_prank'[p] = [n \in DOMAIN KeptPranks[p] \cup MissingOf[p] |->
                             IF n \in MissingOf[p] THEN prank[n] ELSE KeptPranks[p][n]]
    BY <1>2, <1>4 DEF ReceiveMissingPeriodic, IInv, ShapeInv
  <2>2. DOMAIN KeptPranks[p] = Foreign(FlagsOf[p])
    BY DEF KeptPranks
  <2>3. \A n \in Foreign(FlagsOf[p]) : KeptPranks[p][n] = PranksOf[p][n]
    BY DEF KeptPranks
  <2>4. QED
    BY <1>3, <2>1, <2>2, <2>3 DEF KeptWithMissing
<1>6. send_nodes'[p] = SendWithMissing[p]
  <2>1. send_nodes'[p] = [q \in Rank |-> send_nodes[p][q] \o Sorted(MissingInfoOf[p].to[q])]
    BY DEF ReceiveMissingPeriodic, IInv, ShapeInv
  <2>2. QED
    BY <1>2, <2>1 DEF SendWithMissing
<1>7. recv_nodes'[p] = RecvWithMissing[p]
  <2>1. PICK here : here = recv_nodes[p]
    OBVIOUS
  <2>2. ASSUME NEW q \in Rank
        PROVE  recv_nodes'[p][q] = RecvWithMissing[p][q]
    <3>1. recv_nodes'[p][q] =
            here[q] \o Sorted({n \in DOMAIN MissingInfoOf[p].prank : MissingInfoOf[p].prank[n] = q})
      BY <2>1 DEF ReceiveMissingPeriodic, IInv, ShapeInv
    <3>2. {n \in DOMAIN MissingInfoOf[p].prank : MissingInfoOf[p].prank[n] = q} =
            {n \in MissingOf[p] : OwnerOf[n] = q}
      BY <1>3, <1>4
    <3>3. QED
      BY <1>2, <2>1, <3>1, <3>2 DEF RecvWithMissing
  <2>3. recv_nodes'[p] = [q \in Rank |-> recv_nodes'[p][q]]
    BY DEF ReceiveMissingPeriodic, IInv, ShapeInv
  <2>4. RecvWithMissing[p] = [q \in Rank |-> RecvWithMissing[p][q]]
    BY DEF RecvWithMissing
  <2>5. QED
    BY <2>2, <2>3, <2>4
<1>8. QED
  BY <1>5, <1>6, <1>7 DEF MissingAdded

(* The nodes it misses, and those of its own that others miss.             *)
LEMMA SlavePeriodicNodesStep ==
  ASSUME IInv, NEW p \in Slave, SlavePeriodicNodes(p)
  PROVE  IInv'
<1>1. PICK c, tag : c = message_count[p] /\ tag = GenTag(p, 1, "periodic_nodes")
  OBVIOUS
<1>2. p \in Rank /\ p # root /\ RankInv(p) /\ PlaceInv(p) /\ c \in 0 .. NbTypes
  BY <1>1, Numbers DEF IInv, RankInv, PlaceInv
<1>3. pc[p] = "periodicNodes" /\ Arrived(p, root, tag) /\ mail' = Took(p, root, tag)
  BY <1>1 DEF SlavePeriodicNodes, Count, At
<1>4. SlaveDown(p) = <<c, "periodicNodes">>
  BY <1>1, <1>3 DEF SlaveDown
<1>5. Down[p][SlaveDown(p)] = Message(tag, MissingInfoOf[p])
  <2>1. Down[p][<<c, "periodicNodes">>] = Message(GenTag(p, 1, "periodic_nodes"), MissingInfoOf[p])
    BY <1>2, DownMessages
  <2>2. QED
    BY <1>1, <1>4, <2>1, Zenon
<1>6. /\ Data(p, root, tag) = MissingInfoOf[p]
      /\ mail' = [mail EXCEPT ![root][p] = Tail(@)]
      /\ Flow(Tail(mail[root][p]), Succ[SlaveDown(p)], RootDown(p), Down[p], Succ)
  BY <1>3, <1>5, SlaveTakes DEF Message
<1>7. /\ pc' = [pc EXCEPT ![p] = "nodeTagNames"]
      /\ ReceiveMissingPeriodic(p, MissingInfoOf[p])
      /\ UNCHANGED <<mesh, part, proc, message_count, meshData, elementSchemes, nodes_flags,
                     masterInfo>>
  BY <1>1, <1>6 DEF SlavePeriodicNodes, Goto
<1>8. pc'[p] = "nodeTagNames" /\ SlaveOnly(p)
  BY <1>2, <1>7 DEF IInv, ShapeInv, SlaveOnly, MeshStays, SameRank, meshData,
     elementSchemes, nodeData, nodeSchemes, masterInfo,
     ReceiveMissingPeriodic
<1>9. SlaveDown(p)' = Succ[SlaveDown(p)]
  <2>1. Succ[<<c, "periodicNodes">>] = <<c, "nodeTagNames">>
    BY <1>2, NextKeys
  <2>2. QED
    BY <1>1, <1>4, <1>7, <1>8, <2>1 DEF SlaveDown
<1>10. SlaveUp(p)' = SlaveUp(p)
  BY <1>2, <1>3, <1>7, <1>8 DEF SlaveUp, PlaceInv, Periodic
<1>11. RankInv(p)'
  <2>1. PlaceInv(p)'
    BY <1>1, <1>2, <1>3, <1>7, <1>8, Numbers DEF PlaceInv, SlavePlace, InLoop, Periodic
  <2>2. /\ Filled(p)' = Filled(p) /\ Schemed(p)' = Schemed(p)
        /\ HasPairs(p)' = HasPairs(p) /\ HasMissing(p)' /\ HasPairs(p) /\ mesh.periodic
    BY <1>2, <1>3, <1>7, <1>8
       DEF Filled, Schemed, HasPairs, HasMissing, AfterNodes, PlaceInv, Periodic
  <2>3. MissingAdded(p)
    BY <1>2, <1>3, <1>7, MissingIsAdded
  <2>4. /\ FlagsWithMissing' = FlagsWithMissing /\ KeptWithMissing' = KeptWithMissing
        /\ SendWithMissing' = SendWithMissing /\ RecvWithMissing' = RecvWithMissing
    BY <1>8, NodesAreRigid DEF SlaveOnly, MeshStays
  <2>5. FlagsInv(p)'
    <3>1. nodes_flags'[p] = FlagsWithMissing[p]
      BY <1>2, <1>3, <1>7, <2>2 DEF RankInv, FlagsInv, AfterTypes
    <3>2. QED
      BY <2>2, <2>3, <2>4, <3>1 DEF FlagsInv, MissingAdded
  <2>6. NodeSchemesInv(p)'
    BY <2>2, <2>3, <2>4 DEF NodeSchemesInv, MissingAdded
  <2>7. QED
    BY <1>2, <1>3, <1>7, <1>8, <2>1, <2>2, <2>5, <2>6, PartsKept
       DEF SlaveOnly, RankInv, meshData, elementSchemes
<1>12. QED
  BY <1>6, <1>8, <1>9, <1>10, <1>11, SlaveReceives

-----------------------------------------------------------------------------
(* Information that changes nothing else, for the root and for slaves.     *)

(* The places at which nothing but the place changes.                      *)
InformPlace == {"tagNames", "tags", "groups", "nbNodes", "nodeGroups", "isPeriodic",
                "nodeTagNames"}

(* Where a rank that is informed goes, and with which tag.                 *)
LEMMA InformationOf ==
  ASSUME NEW p \in Rank, NEW q \in Rank, NEW place \in InformPlace,
         message_count[p] \in 0 .. NbTypes
  PROVE  /\ DOMAIN Information(p, q) = InformPlace
         /\ Information(p, q)[place].next =
              IF place = "nbNodes" THEN "nodes" ELSE NextPlace(message_count[p], place)
         /\ Down[q][<<message_count[p], place>>] = Message(Information(p, q)[place].tag, <<>>)
<1>1. DOMAIN Information(p, q) = InformPlace
  BY DEF Information, InformPlace
<1>2. Information(p, q)[place].next =
        IF place = "nbNodes" THEN "nodes" ELSE NextPlace(message_count[p], place)
  BY DEF Information, InformPlace, NextPlace
<1>3. PICK c : c = message_count[p] /\ c \in 0 .. NbTypes
  OBVIOUS
<1>4. /\ Down[q][<<c, "tagNames">>] = Message(Broadcast, <<>>)
      /\ Down[q][<<c, "tags">>] = Message(GenTag(root, c, "mesh_data"), <<>>)
      /\ Down[q][<<c, "groups">>] = Message(GenTag(root, q, "element_group"), <<>>)
      /\ Down[q][<<c, "nbNodes">>] = Message(Broadcast, <<>>)
      /\ Down[q][<<c, "nodeGroups">>] = Message(GenTag(root, q, "node_group"), <<>>)
      /\ Down[q][<<c, "isPeriodic">>] = Message(Broadcast, <<>>)
      /\ Down[q][<<c, "nodeTagNames">>] = Message(Broadcast, <<>>)
  BY <1>3, DownMessages
<1>5. /\ Information(p, q)["tagNames"].tag = Broadcast
      /\ Information(p, q)["tags"].tag = GenTag(root, c, "mesh_data")
      /\ Information(p, q)["groups"].tag = GenTag(root, q, "element_group")
      /\ Information(p, q)["nbNodes"].tag = Broadcast
      /\ Information(p, q)["nodeGroups"].tag = GenTag(root, q, "node_group")
      /\ Information(p, q)["isPeriodic"].tag = Broadcast
      /\ Information(p, q)["nodeTagNames"].tag = Broadcast
  BY <1>3 DEF Information, Count
<1>6. Down[q][<<message_count[p], place>>] = Message(Information(p, q)[place].tag, <<>>)
  BY <1>3, <1>4, <1>5 DEF InformPlace
<1>7. QED
  BY <1>1, <1>2, <1>6

(* A rank that is informed keeps what it has.                              *)
LEMMA Informed ==
  ASSUME IInv, NEW p \in Rank, Inform(p)
  PROVE  /\ pc[p] \in InformPlace /\ message_count[p] \in 0 .. NbTypes
         /\ pc'[p] = (IF pc[p] = "nbNodes" THEN "nodes" ELSE NextPlace(message_count[p], pc[p]))
         /\ message_count'[p] =
              (IF pc[p] = "groups" THEN message_count[p] + 1 ELSE message_count[p])
         /\ pc[p] = "groups" => message_count[p] < NbTypes
         /\ MeshStays /\ ShapeInv' /\ proc' = proc /\ UNCHANGED masterInfo
         /\ \A q \in Rank \ {p} : SameRank(q)
         /\ RankInv(p)'
<1>1. PICK c, here : c = message_count[p] /\ here = pc[p]
  OBVIOUS
<1>2. RankInv(p) /\ PlaceInv(p) /\ c \in 0 .. NbTypes
  BY <1>1 DEF IInv, RankInv, PlaceInv
<1>3. /\ here \in DOMAIN Information(p, p)
      /\ pc' = [pc EXCEPT ![p] = Information(p, p)[here].next]
      /\ message_count' = [message_count EXCEPT ![p] = IF here = "groups" THEN c + 1 ELSE c]
      /\ UNCHANGED <<mesh, part, proc, meshData, elementSchemes, nodeData, nodeSchemes, masterInfo>>
  BY <1>1 DEF Inform, Goto, NextCount, Count
<1>4. here \in InformPlace
  BY <1>3 DEF Information, InformPlace
<1>5. Information(p, p)[here].next = IF here = "nbNodes" THEN "nodes" ELSE NextPlace(c, here)
  BY <1>1, <1>2, <1>4, InformationOf
<1>6. /\ pc'[p] = (IF here = "nbNodes" THEN "nodes" ELSE NextPlace(c, here))
      /\ message_count'[p] = (IF here = "groups" THEN c + 1 ELSE c)
  BY <1>3, <1>5 DEF IInv, ShapeInv
<1>7. MeshStays /\ ShapeInv' /\ \A q \in Rank \ {p} : SameRank(q)
  BY <1>3 DEF IInv, ShapeInv, MeshStays, SameRank, meshData, elementSchemes, nodeData,
     nodeSchemes, masterInfo
<1>8. here = "groups" => c < NbTypes
  BY <1>1, <1>2 DEF PlaceInv, InLoop
<1>9. PlaceInv(p)'
  BY <1>1, <1>2, <1>3, <1>4, <1>6, <1>8, Numbers
     DEF PlaceInv, SlavePlace, RootPlace, InLoop, Periodic, InformPlace, NextPlace
<1>10. /\ Filled(p)' = Filled(p) /\ Schemed(p)' = Schemed(p)
       /\ HasPairs(p)' = HasPairs(p) /\ HasMissing(p)' = HasMissing(p)
  BY <1>1, <1>2, <1>3, <1>4, <1>6
     DEF Filled, Schemed, HasPairs, HasMissing, AfterNodes, InformPlace, NextPlace
<1>11. /\ pc'[p] \in {"pranks", "masterInfo"} \cup AfterTypes =>
            pc[p] \in {"pranks", "masterInfo"} \cup AfterTypes
       /\ pc'[p] \in {"masterInfo"} \cup AfterTypes => pc[p] \in {"masterInfo"} \cup AfterTypes
       /\ pc'[p] \in AfterTypes => pc[p] \in AfterTypes
  BY <1>1, <1>4, <1>6 DEF AfterTypes, InformPlace, NextPlace
<1>12. RankInv(p)'
  BY <1>2, <1>3, <1>7, <1>9, <1>10, <1>11, PartsKept
     DEF RankInv, meshData, elementSchemes, nodeData, nodeSchemes
<1>13. QED
  BY <1>1, <1>2, <1>3, <1>4, <1>6, <1>7, <1>8, <1>12

(* A slave that is informed.                                               *)
LEMMA SlaveIsInformedStep ==
  ASSUME IInv, NEW p \in Slave, SlaveIsInformed(p)
  PROVE  IInv'
<1>1. PICK c, here : c = message_count[p] /\ here = pc[p]
  OBVIOUS
<1>2. p \in Rank /\ p # root
  BY Numbers
<1>3. Inform(p)
  BY DEF SlaveIsInformed
<1>4. /\ here \in InformPlace /\ c \in 0 .. NbTypes
      /\ pc'[p] = (IF here = "nbNodes" THEN "nodes" ELSE NextPlace(c, here))
      /\ message_count'[p] = (IF here = "groups" THEN c + 1 ELSE c)
      /\ here = "groups" => c < NbTypes
      /\ SlaveOnly(p) /\ RankInv(p)'
  BY <1>1, <1>2, <1>3, Informed DEF SlaveOnly
<1>5. PICK tag : tag = Information(p, p)[here].tag
  OBVIOUS
<1>6. Arrived(p, root, tag) /\ mail' = Took(p, root, tag)
  BY <1>1, <1>5 DEF SlaveIsInformed
<1>7. SlaveDown(p) = <<c, here>>
  BY <1>1, <1>4 DEF SlaveDown, InformPlace
<1>8. Down[p][SlaveDown(p)] = Message(tag, <<>>)
  BY <1>1, <1>2, <1>4, <1>5, <1>7, InformationOf
<1>9. /\ mail' = [mail EXCEPT ![root][p] = Tail(@)]
      /\ Flow(Tail(mail[root][p]), Succ[SlaveDown(p)], RootDown(p), Down[p], Succ)
  BY <1>6, <1>8, SlaveTakes DEF Message
<1>10. SlaveDown(p)' = Succ[SlaveDown(p)]
  <2>1. Succ[<<c, here>>] = NextKey(c, here)
    BY <1>4, KeysFollow DEF InformPlace, SlavePlace
  <2>2. SlaveDown(p)' = NextKey(c, here)
    BY <1>4 DEF SlaveDown, NextKey, NextPlace, InformPlace
  <2>3. QED
    BY <1>7, <2>1, <2>2
<1>11. SlaveUp(p)' = SlaveUp(p)
  BY <1>1, <1>4 DEF SlaveUp, NextPlace, InformPlace, SlaveOnly, MeshStays
<1>12. QED
  BY <1>4, <1>9, <1>10, <1>11, SlaveReceives

-----------------------------------------------------------------------------
(* Steps in which a slave sends, and the end of a send.                    *)

(* A slave that is through with the types has all its nodes.               *)
LEMMA NodesAreThere ==
  ASSUME IInv, NEW p \in Rank,
         pc[p] \in {"nodes", "nodeList", "flags", "periodicPairs"}
  PROVE  /\ message_count[p] = NbTypes /\ elements[p] = ElementsOf[p][NbTypes]
         /\ nodes_global_ids[p] = AllNodes[p]
<1>1. PlaceInv(p) /\ ElementsInv(p)
  BY DEF IInv, RankInv
<1>2. message_count[p] = NbTypes /\ Filled(p) = NbTypes /\ ~HasPairs(p)
  BY <1>1 DEF PlaceInv, InLoop, Filled, HasPairs, AfterNodes
<1>3. QED
  BY <1>1, <1>2 DEF ElementsInv, AllNodes

(* The number of nodes, and then their list.                               *)
LEMMA SlaveNodesStep ==
  ASSUME IInv, NEW p \in Slave, SlaveNodes(p)
  PROVE  IInv'
<1>1. p \in Rank /\ p # root /\ RankInv(p) /\ PlaceInv(p)
  BY Numbers DEF IInv, RankInv
<1>2. pc[p] \in {"nodes", "nodeList"}
  BY DEF SlaveNodes
<1>3. nodes_global_ids[p] = AllNodes[p]
  BY <1>1, <1>2, NodesAreThere
<1>4. /\ pc' = [pc EXCEPT ![p] = IF pc[p] = "nodes" THEN "nodeList" ELSE "coordinates"]
      /\ mail' = Sent(p, root, IF pc[p] = "nodes"
                               THEN Message(GenTag(p, 0, "nb_nodes"), Cardinality(AllNodes[p]))
                               ELSE Message(GenTag(p, 0, "nodes"), AllNodes[p]))
      /\ UNCHANGED <<mesh, part, proc, message_count, meshData, elementSchemes, nodeData,
                     nodeSchemes, masterInfo>>
  <2>1. CASE pc[p] = "nodes"
    BY <1>3, <2>1 DEF SlaveNodes, Goto
  <2>2. CASE pc[p] = "nodeList"
    BY <1>3, <2>2 DEF SlaveNodes, Goto
  <2>3. QED
    BY <1>2, <2>1, <2>2
<1>5. pc'[p] = (IF pc[p] = "nodes" THEN "nodeList" ELSE "coordinates") /\ SlaveOnly(p)
  BY <1>1, <1>4 DEF IInv, ShapeInv, SlaveOnly, MeshStays, SameRank, meshData,
     elementSchemes, nodeData, nodeSchemes, masterInfo
<1>6. mail' = Sent(p, root, Up[p][SlaveUp(p)])
  BY <1>1, <1>2, <1>4, UpMessages DEF SlaveUp
<1>7. SlaveDown(p)' = SlaveDown(p)
  BY <1>2, <1>4, <1>5 DEF SlaveDown
<1>8. SlaveUp(p)' = UpSucc[SlaveUp(p)]
  BY <1>2, <1>5, UpKeysFollow DEF SlaveUp
<1>9. RankInv(p)'
  <2>1. PlaceInv(p)'
    BY <1>1, <1>2, <1>4, <1>5, Numbers DEF PlaceInv, SlavePlace, InLoop, Periodic
  <2>2. /\ Filled(p)' = Filled(p) /\ Schemed(p)' = Schemed(p)
        /\ HasPairs(p)' = HasPairs(p) /\ HasMissing(p)' = HasMissing(p)
    BY <1>2, <1>4, <1>5 DEF Filled, Schemed, HasPairs, HasMissing, AfterNodes
  <2>3. QED
    BY <1>1, <1>2, <1>4, <1>5, <2>1, <2>2, PartsKept
       DEF SlaveOnly, RankInv, AfterTypes, meshData, elementSchemes, nodeData, nodeSchemes
<1>10. QED
  BY <1>5, <1>6, <1>7, <1>8, <1>9, SlaveSends

(* What it says of its nodes.                                              *)
LEMMA SlaveFlagsStep ==
  ASSUME IInv, NEW p \in Slave, SlaveFlags(p)
  PROVE  IInv'
<1>1. p \in Rank /\ p # root /\ RankInv(p) /\ PlaceInv(p)
  BY Numbers DEF IInv, RankInv
<1>2. pc[p] = "flags"
  BY DEF SlaveFlags, At
<1>3. NodesType(p) = SaidOf[p]
  BY <1>1, <1>2, NodesAreThere, SaidByElements
<1>4. /\ pc' = [pc EXCEPT ![p] = "types"]
      /\ mail' = Sent(p, root, Message(GenTag(p, 0, "nodes_type"), SaidOf[p]))
      /\ nodes_flags' = [nodes_flags EXCEPT ![p] = SaidOf[p]]
      /\ UNCHANGED <<mesh, part, proc, message_count, meshData, elementSchemes, nodes_prank,
                     nodeSchemes, masterInfo>>
  BY <1>3 DEF SlaveFlags, Goto
<1>5. pc'[p] = "types" /\ SlaveOnly(p)
  BY <1>1, <1>4 DEF IInv, ShapeInv, SlaveOnly, MeshStays, SameRank, meshData,
     elementSchemes, nodeSchemes, masterInfo
<1>6. mail' = Sent(p, root, Up[p][SlaveUp(p)])
  BY <1>1, <1>2, <1>4, UpMessages DEF SlaveUp
<1>7. SlaveDown(p)' = SlaveDown(p)
  BY <1>2, <1>4, <1>5 DEF SlaveDown
<1>8. SlaveUp(p)' = UpSucc[SlaveUp(p)]
  BY <1>2, <1>5, UpKeysFollow DEF SlaveUp
<1>9. RankInv(p)'
  <2>1. PlaceInv(p)'
    BY <1>1, <1>2, <1>4, <1>5, Numbers DEF PlaceInv, SlavePlace, InLoop, Periodic
  <2>2. /\ Filled(p)' = Filled(p) /\ Schemed(p)' = Schemed(p)
        /\ HasPairs(p)' = HasPairs(p) /\ HasMissing(p)' = HasMissing(p)
    BY <1>2, <1>4, <1>5 DEF Filled, Schemed, HasPairs, HasMissing, AfterNodes
  <2>3. FlagsInv(p)'
    BY <1>5 DEF FlagsInv, AfterTypes
  <2>4. QED
    BY <1>1, <1>2, <1>4, <1>5, <2>1, <2>2, <2>3, PartsKept
       DEF SlaveOnly, RankInv, AfterTypes, meshData, elementSchemes, nodeSchemes
<1>10. QED
  BY <1>5, <1>6, <1>7, <1>8, <1>9, SlaveSends

(* What a rank adds when it is told of its periodic slaves.                *)
PairsAdded(p) ==
  /\ nodes_global_ids'[p] = AllNodes[p] \cup MissingOf[p]
  /\ nodes_flags'[p] = FlagsWithMissing[p]

(* fillPeriodicPairs adds it.                                              *)
LEMMA PairsAreAdded ==
  ASSUME IInv, NEW p \in Rank, pc[p] = "periodicPairs", FillPeriodicPairs(p, PairsOf[p])
  PROVE  PairsAdded(p)
<1>1. RankInv(p) /\ nodes_global_ids[p] = AllNodes[p]
  BY NodesAreThere DEF IInv
<1>2. nodes_flags[p] = FlagsOf[p]
  BY <1>1 DEF RankInv, FlagsInv, HasPairs, AfterTypes, AfterNodes
<1>3. Missing(p, PairsOf[p]) = MissingOf[p]
  BY <1>1, PeriodicFound
<1>4. nodes_global_ids'[p] = AllNodes[p] \cup MissingOf[p]
  BY <1>1, <1>3 DEF FillPeriodicPairs, IInv, ShapeInv
<1>5. nodes_flags'[p] = FlagsWithMissing[p]
  <2>1. nodes_flags'[p] = [n \in DOMAIN FlagsOf[p] \cup MissingOf[p] |->
                             IF n \in DOMAIN FlagsOf[p] THEN FlagsOf[p][n] ELSE "pure_ghost"]
    BY <1>2, <1>3 DEF FillPeriodicPairs, IInv, ShapeInv
  <2>2. DOMAIN FlagsOf[p] = AllNodes[p]
    BY DEF FlagsOf
  <2>3. QED
    BY <2>1, <2>2 DEF FlagsWithMissing
<1>6. QED
  BY <1>4, <1>5 DEF PairsAdded

(* It has then the nodes it missed, and the flags for them.                *)
LEMMA PairsKept ==
  ASSUME IInv, NEW p \in Rank, pc[p] = "periodicPairs", PairsAdded(p), MeshStays,
         pc'[p] \in {"missing", "periodicNodes"},
         PlaceInv(p)',
         UNCHANGED <<message_count, elements, elementSchemes, nodes_prank, nodeSchemes>>
  PROVE  RankInv(p)'
<1>1. RankInv(p) /\ mesh.periodic
  BY DEF IInv, RankInv, PlaceInv, Periodic
<1>2. /\ Filled(p)' = Filled(p) /\ Schemed(p)' = Schemed(p)
      /\ HasPairs(p)' /\ ~HasMissing(p) /\ ~HasMissing(p)'
  BY <1>1 DEF Filled, Schemed, HasPairs, HasMissing, AfterNodes, MeshStays
<1>3. /\ AllNodes' = AllNodes /\ MissingOf' = MissingOf
      /\ FlagsWithMissing' = FlagsWithMissing /\ KeptPranks' = KeptPranks
      /\ SendOf' = SendOf /\ RecvOf' = RecvOf /\ ElementsOf' = ElementsOf
  BY NodesAreRigid, ElementsAreRigid DEF MeshStays
<1>4. ElementsInv(p)'
  BY <1>1, <1>2, <1>3 DEF RankInv, ElementsInv, PairsAdded
<1>5. SchemesInv(p)'
  BY <1>1, <1>2, PartsKept DEF elementSchemes
<1>6. FlagsInv(p)'
  BY <1>1, <1>2, <1>3 DEF RankInv, FlagsInv, PairsAdded, AfterTypes
<1>7. NodeSchemesInv(p)'
  BY <1>1, <1>2, <1>3 DEF RankInv, NodeSchemesInv, AfterTypes, nodeSchemes
<1>8. QED
  BY <1>4, <1>5, <1>6, <1>7 DEF RankInv

(* A slave takes its pairs, and asks for what it misses.                   *)
LEMMA SlavePeriodicPairsStep ==
  ASSUME IInv, NEW p \in Slave, SlavePeriodicPairs(p)
  PROVE  IInv'
<1>1. PICK c, tag : c = message_count[p] /\ tag = GenTag(root, p, "periodic_slaves")
  OBVIOUS
<1>2. p \in Rank /\ p # root /\ RankInv(p) /\ PlaceInv(p) /\ c \in 0 .. NbTypes
  BY <1>1, Numbers DEF IInv, RankInv, PlaceInv
<1>3. pc[p] = "periodicPairs" /\ Arrived(p, root, tag)
  BY <1>1 DEF SlavePeriodicPairs, At
<1>4. SlaveDown(p) = <<c, "periodicPairs">>
  BY <1>1, <1>3 DEF SlaveDown
<1>5. Down[p][SlaveDown(p)] = Message(tag, PairsOf[p])
  <2>1. Down[p][<<c, "periodicPairs">>] = Message(GenTag(root, p, "periodic_slaves"), PairsOf[p])
    BY <1>2, DownMessages
  <2>2. QED
    BY <1>1, <1>4, <2>1, Zenon
<1>6. /\ Data(p, root, tag) = PairsOf[p]
      /\ Took(p, root, tag) = [mail EXCEPT ![root][p] = Tail(@)]
      /\ Flow(Tail(mail[root][p]), Succ[SlaveDown(p)], RootDown(p), Down[p], Succ)
  BY <1>3, <1>5, SlaveTakes DEF Message
<1>7. nodes_global_ids[p] = AllNodes[p] /\ Missing(p, PairsOf[p]) = MissingOf[p]
  BY <1>2, <1>3, NodesAreThere, PeriodicFound
<1>8. /\ pc' = [pc EXCEPT ![p] = "periodicNodes"] /\ FillPeriodicPairs(p, PairsOf[p])
      /\ UNCHANGED <<mesh, part, proc, message_count, elements, elementSchemes, nodes_prank,
                     nodeSchemes, masterInfo>>
  BY <1>1, <1>6 DEF SlavePeriodicPairs, Goto
<1>9. pc'[p] = "periodicNodes" /\ SlaveOnly(p)
  BY <1>2, <1>8 DEF IInv, ShapeInv, SlaveOnly, MeshStays, SameRank, FillPeriodicPairs,
     elementSchemes, nodeSchemes, masterInfo
<1>10. mesh.periodic
  BY <1>2, <1>3 DEF PlaceInv, Periodic
<1>11. RankInv(p)'
  <2>1. PlaceInv(p)'
    BY <1>1, <1>2, <1>3, <1>8, <1>9, <1>10, Numbers DEF PlaceInv, SlavePlace, InLoop, Periodic
  <2>2. QED
    BY <1>2, <1>3, <1>8, <1>9, <2>1, PairsAreAdded, PairsKept DEF SlaveOnly
<1>12. /\ Grid(mail)' /\ mail'[root][p] = Tail(mail[root][p])
       /\ mail'[p][root] = Append(mail[p][root], Up[p][SlaveUp(p)])
       /\ \A q \in Slave \ {p} : SameMail(q)
  <2>1. PICK f, g, h, x, y :
          /\ f = mail /\ h = mail' /\ x = Tail(mail[root][p])
          /\ g = [mail EXCEPT ![root][p] = Tail(@)]
          /\ y = Append(g[p][root], Message(GenTag(p, 0, "periodic_nodes"), MissingOf[p]))
    OBVIOUS
  <2>2. Grid(f) /\ Changed(f, g, root, p, x) /\ root \in Rank
    BY <2>1, Numbers DEF IInv, Changed
  <2>3. Grid(g) /\ g[root][p] = x /\ SameBut(f, g, root, p)
    BY <1>2, <2>2, OneChannel
  <2>4. Changed(g, h, p, root, y)
    BY <1>1, <1>6, <1>7, <2>1 DEF SlavePeriodicPairs, Changed
  <2>5. Grid(h) /\ h[p][root] = y /\ SameBut(g, h, p, root)
    BY <1>2, <2>2, <2>3, <2>4, OneChannel
  <2>6. g[p][root] = f[p][root] /\ h[root][p] = g[root][p]
    BY <1>2, <2>2, <2>3, <2>5 DEF SameBut
  <2>7. ASSUME NEW q \in Slave \ {p}
        PROVE  SameMail(q)
    BY <2>1, <2>3, <2>5, Numbers DEF SameMail, SameBut
  <2>8. Up[p][SlaveUp(p)] = Message(GenTag(p, 0, "periodic_nodes"), MissingOf[p])
    BY <1>2, <1>3, UpMessages DEF SlaveUp
  <2>9. QED
    BY <2>1, <2>3, <2>5, <2>6, <2>7, <2>8 DEF Grid
<1>13. SameRank(root)
  BY <1>2, Numbers, <1>9 DEF SlaveOnly
<1>14. RootDown(p)' = RootDown(p) /\ RootUp(p)' = RootUp(p)
  BY <1>9, <1>13, KeysAreRigid DEF RootDown, RootUp, SameRank, MeshStays, SlaveOnly
<1>15. DownInv(p)'
  <2>1. SlaveDown(p)' = Succ[SlaveDown(p)]
    <3>1. Succ[<<c, "periodicPairs">>] = <<c, "periodicNodes">>
      BY <1>2, NextKeys
    <3>2. QED
      BY <1>1, <1>4, <1>8, <1>9, <3>1 DEF SlaveDown
  <2>2. QED
    BY <1>6, <1>9, <1>12, <1>14, <2>1, SlaveTook DEF SlaveOnly
<1>16. UpInv(p)'
  <2>1. SlaveUp(p)' = UpSucc[SlaveUp(p)]
    BY <1>3, <1>9, UpKeysFollow DEF SlaveUp
  <2>2. QED
    BY <1>9, <1>12, <1>14, <2>1, SlaveSent DEF SlaveOnly, IInv, MailInv
<1>17. QED
  BY <1>9, <1>11, <1>12, <1>15, <1>16, SlaveFrame DEF SlaveOnly

(* That a send has ended changes nothing of this, nor does the end.        *)
LEMMA StutterStep ==
  ASSUME IInv, UNCHANGED <<mesh, part, pc, proc, message_count, mail, meshData, elementSchemes,
                           nodeData, nodeSchemes, masterInfo>>
  PROVE  IInv'
<1>1. /\ MeshStays /\ ShapeInv' /\ Grid(mail)'
      /\ \A q \in Rank : SameRank(q)
  BY DEF IInv, ShapeInv, MeshStays, SameRank, Grid, meshData, elementSchemes, nodeData,
     nodeSchemes, masterInfo
<1>2. \A q \in Rank : RankInv(q)'
  BY <1>1, RankStays DEF IInv
<1>3. RootInv'
  BY <1>1, RootStays, Numbers DEF IInv
<1>4. ASSUME NEW q \in Slave
      PROVE  DownInv(q)' /\ UpInv(q)'
  BY <1>1, MailStays, Numbers DEF IInv, MailInv
<1>5. QED
  BY <1>1, <1>2, <1>3, <1>4 DEF IInv, MailInv

(* No step of a slave breaks the invariant.                                *)
LEMMA SlaveStepKeeps ==
  ASSUME IInv, NEW p \in Slave, SlaveStep(p)
  PROVE  IInv'
<1>1. CASE SendReceived(p)
  BY <1>1, StutterStep DEF SendReceived, EndSend
<1>2. CASE SlaveSizes(p) \/ SlaveConnectivities(p) \/ SlavePartitions(p) \/ SlaveIsInformed(p)
  BY <1>2, SlaveSizesStep, SlaveConnectivitiesStep, SlavePartitionsStep, SlaveIsInformedStep
<1>3. CASE SlaveNodes(p) \/ SlaveCoordinates(p) \/ SlaveFlags(p)
  BY <1>3, SlaveNodesStep, SlaveCoordinatesStep, SlaveFlagsStep
<1>4. CASE SlaveTypes(p) \/ SlavePranks(p) \/ SlaveMasterInfo(p)
  BY <1>4, SlaveTypesStep, SlavePranksStep, SlaveMasterInfoStep
<1>5. CASE SlavePeriodicPairs(p) \/ SlavePeriodicNodes(p) \/ SlaveNodeTags(p)
  BY <1>5, SlavePeriodicPairsStep, SlavePeriodicNodesStep, SlaveNodeTagsStep
<1>6. QED
  BY <1>1, <1>2, <1>3, <1>4, <1>5 DEF SlaveStep

-----------------------------------------------------------------------------
(* The steps of the root.                                                  *)

(* What is common to them.                                                 *)
RootOnly == MeshStays /\ ShapeInv' /\ \A q \in Slave : SameRank(q)

(* The channels of a slave that the root does not use.                     *)
LEMMA ChannelsKept ==
  ASSUME MeshStays, NEW q \in Slave, SameRank(q)
  PROVE  /\ SlaveDown(q)' = SlaveDown(q) /\ SlaveUp(q)' = SlaveUp(q)
         /\ mail'[root][q] = mail[root][q] /\ RootDown(q)' = RootDown(q) /\ DownInv(q) =>
              DownInv(q)'
         /\ mail'[q][root] = mail[q][root] /\ RootUp(q)' = RootUp(q) /\ UpInv(q) => UpInv(q)'
<1>1. /\ pc'[q] = pc[q] /\ message_count'[q] = message_count[q]
      /\ mesh' = mesh /\ part' = part
  BY DEF SameRank, MeshStays
<1>2. Down' = Down /\ Succ' = Succ /\ Up' = Up
  BY <1>1, KeysAreRigid
<1>3. SlaveDown(q)' = SlaveDown(q) /\ SlaveUp(q)' = SlaveUp(q)
  BY <1>1 DEF SlaveDown, SlaveUp
<1>4. mail'[root][q] = mail[root][q] /\ RootDown(q)' = RootDown(q) /\ DownInv(q) => DownInv(q)'
  BY <1>2, <1>3 DEF DownInv
<1>5. mail'[q][root] = mail[q][root] /\ RootUp(q)' = RootUp(q) /\ UpInv(q) => UpInv(q)'
  BY <1>2, <1>3 DEF UpInv, UpSucc
<1>6. QED
  BY <1>3, <1>4, <1>5

(* A message for each slave.                                               *)
ToldAll ==
  \E messages : /\ mail' = SentToAll(messages)
                /\ \A q \in Slave : messages[q] = <<Down[q][RootDown(q)]>>

(* What is sent to all.                                                    *)
LEMMA AllChannels ==
  ASSUME IInv, NEW messages, mail' = SentToAll(messages)
  PROVE  /\ Grid(mail)'
         /\ \A q \in Slave : /\ mail'[root][q] = mail[root][q] \o messages[q]
                             /\ mail'[q][root] = mail[q][root]
<1>1. PICK h : h = [q \in Rank |-> IF q = root THEN <<>> ELSE mail[root][q] \o messages[q]]
  OBVIOUS
<1>2. mail' = [mail EXCEPT ![root] = h]
  BY <1>1 DEF SentToAll
<1>3. /\ mail' = [p \in Rank |-> mail'[p]] /\ mail'[root] = h
      /\ \A p \in Rank \ {root} : mail'[p] = mail[p]
  BY <1>2, Numbers DEF IInv, Grid
<1>4. h = [q \in Rank |-> h[q]]
  BY <1>1
<1>5. \A p \in Rank : mail'[p] = [q \in Rank |-> mail'[p][q]]
  BY <1>3, <1>4 DEF IInv, Grid
<1>6. ASSUME NEW q \in Slave
      PROVE  mail'[root][q] = mail[root][q] \o messages[q] /\ mail'[q][root] = mail[q][root]
  BY <1>1, <1>3, Numbers
<1>7. QED
  BY <1>3, <1>5, <1>6 DEF Grid

(* A channel holds a sequence.                                             *)
LEMMA ChannelsAreSequences ==
  ASSUME NEW s, NEW a, NEW b, NEW F, NEW N, Flow(s, a, b, F, N), NEW m
  PROVE  s \o <<m>> = Append(s, m)
<1>1. PICK ks \in Seq(DOMAIN N) :
        Len(ks) > 0 /\ s = [i \in 1 .. (Len(ks) - 1) |-> F[ks[i]]]
  BY DEF Flow
<1>2. PICK X : X = {F[ks[i]] : i \in 1 .. (Len(ks) - 1)} \cup {m}
  OBVIOUS
<1>3. Len(ks) - 1 \in Nat /\ \A i \in 1 .. (Len(ks) - 1) : F[ks[i]] \in X
  BY <1>1, <1>2
<1>4. s \in Seq(X) /\ m \in X
  BY <1>1, <1>2, <1>3
<1>5. QED
  BY <1>4

(* So it does with three more messages.                                    *)
LEMMA ThreeMore ==
  ASSUME NEW s, NEW a, NEW b, NEW F, NEW N, Flow(s, a, b, F, N), NEW m1, NEW m2, NEW m3
  PROVE  s \o <<m1, m2, m3>> = Append(Append(Append(s, m1), m2), m3)
<1>1. PICK ks \in Seq(DOMAIN N) :
        Len(ks) > 0 /\ s = [i \in 1 .. (Len(ks) - 1) |-> F[ks[i]]]
  BY DEF Flow
<1>2. PICK X : X = {F[ks[i]] : i \in 1 .. (Len(ks) - 1)} \cup {m1, m2, m3}
  OBVIOUS
<1>3. Len(ks) - 1 \in Nat /\ \A i \in 1 .. (Len(ks) - 1) : F[ks[i]] \in X
  BY <1>1, <1>2
<1>4. s \in Seq(X) /\ m1 \in X /\ m2 \in X /\ m3 \in X
  BY <1>1, <1>2, <1>3
<1>5. QED
  BY <1>4

(* The root has told all what is next.                                     *)
LEMMA RootTellsAll ==
  ASSUME IInv, RootOnly, RankInv(root)', RootInv', ToldAll,
         \A q \in Slave : RootDown(q)' = Succ[RootDown(q)] /\ RootUp(q)' = RootUp(q)
  PROVE  IInv'
<1>1. PICK messages : /\ mail' = SentToAll(messages)
                      /\ \A q \in Slave : messages[q] = <<Down[q][RootDown(q)]>>
  BY DEF ToldAll
<1>2. /\ Grid(mail)'
      /\ \A q \in Slave : /\ mail'[root][q] = mail[root][q] \o messages[q]
                          /\ mail'[q][root] = mail[q][root]
  BY <1>1, AllChannels
<1>3. ASSUME NEW q \in Slave
      PROVE  DownInv(q)' /\ UpInv(q)'
  <2>1. MeshStays /\ SameRank(q) /\ DownInv(q) /\ UpInv(q)
    BY DEF RootOnly, IInv, MailInv
  <2>2. mail'[root][q] = Append(mail[root][q], Down[q][RootDown(q)])
    <3>1. PICK s, a, b, F, N, m : /\ s = mail[root][q] /\ a = SlaveDown(q) /\ b = RootDown(q)
                                  /\ F = Down[q] /\ N = Succ /\ m = Down[q][RootDown(q)]
      OBVIOUS
    <3>2. Flow(s, a, b, F, N)
      BY <2>1, <3>1 DEF DownInv
    <3>3. s \o <<m>> = Append(s, m)
      BY <3>2, ChannelsAreSequences
    <3>4. mail'[root][q] = s \o <<m>>
      BY <1>1, <1>2, <3>1
    <3>5. QED
      BY <3>1, <3>3, <3>4
  <2>3. DownInv(q)'
    BY <2>1, <2>2, ChannelsKept, RootSent
  <2>4. UpInv(q)'
    BY <1>2, <2>1, ChannelsKept
  <2>5. QED
    BY <2>3, <2>4
<1>4. QED
  BY <1>2, <1>3, RootFrame DEF RootOnly

(* What the root computes from what all have said stays.                   *)
LEMMA RootKnows ==
  ASSUME RootOnly
  PROVE  /\ AllNodes' = AllNodes /\ SaidOf' = SaidOf /\ OwnerOf' = OwnerOf
         /\ MissingOf' = MissingOf /\ mesh' = mesh
BY NodesAreRigid DEF RootOnly, MeshStays

(* It is not in a loop over the others, and learns nothing.                *)
LEMMA RootKept ==
  ASSUME IInv, RootOnly, UNCHANGED masterInfo, proc' = 1,
         pc'[root] \notin {"flags", "types", "missing", "periodicNodes"},
         pc'[root] \in AfterTypes => pc[root] \in AfterTypes
  PROVE  RootInv'
<1>1. /\ AllNodes' = AllNodes /\ SaidOf' = SaidOf /\ OwnerOf' = OwnerOf
      /\ nodes_per_proc' = nodes_per_proc /\ nodes_flags_per_proc' = nodes_flags_per_proc
      /\ nodes_pranks' = nodes_pranks
  BY RootKnows DEF masterInfo
<1>2. pc[root] \in AfterTypes =>
        nodes_pranks = OwnerOf /\ \A q \in Rank : nodes_per_proc[q] = AllNodes[q]
  BY DEF IInv, RootInv
<1>3. pc'[root] \in AfterTypes =>
        nodes_pranks' = OwnerOf' /\ \A q \in Rank : nodes_per_proc'[q] = AllNodes'[q]
  BY <1>1, <1>2
<1>4. QED
  BY <1>3 DEF RootInv

(* The root informs all.                                                   *)
LEMMA MasterInformsStep ==
  ASSUME IInv, MasterInforms
  PROVE  IInv'
<1>1. PICK c, here : c = message_count[root] /\ here = pc[root]
  OBVIOUS
<1>2. root \in Rank /\ Inform(root)
  BY Numbers DEF MasterInforms
<1>3. /\ here \in InformPlace /\ c \in 0 .. NbTypes
      /\ pc'[root] = (IF here = "nbNodes" THEN "nodes" ELSE NextPlace(c, here))
      /\ message_count'[root] = (IF here = "groups" THEN c + 1 ELSE c)
      /\ here = "groups" => c < NbTypes
      /\ MeshStays /\ ShapeInv' /\ proc' = proc /\ UNCHANGED masterInfo
      /\ \A q \in Rank \ {root} : SameRank(q)
      /\ RankInv(root)'
  BY <1>1, <1>2, Informed
<1>4. RootOnly
  BY <1>3, Numbers DEF RootOnly
<1>5. proc = 1
  BY <1>1, <1>3 DEF IInv, RootInv, InformPlace
<1>6. ASSUME NEW q \in Slave
      PROVE  RootDown(q) = <<c, here>>
  BY <1>1, <1>3 DEF RootDown, InformPlace
<1>7. ToldAll
  <2>1. PICK messages :
          messages = [q \in Slave |-> <<Message(Information(root, q)[pc[root]].tag, <<>>)>>]
    OBVIOUS
  <2>2. mail' = SentToAll(messages)
    BY <2>1 DEF MasterInforms
  <2>3. ASSUME NEW q \in Slave
        PROVE  messages[q] = <<Down[q][RootDown(q)]>>
    BY <1>1, <1>2, <1>3, <1>6, <2>1, InformationOf, Numbers
  <2>4. QED
    BY <2>2, <2>3 DEF ToldAll
<1>8. ASSUME NEW q \in Slave
      PROVE  RootDown(q)' = Succ[RootDown(q)]
  <2>1. Succ[<<c, here>>] = NextKey(c, here)
    BY <1>3, KeysFollow DEF InformPlace, SlavePlace
  <2>2. q # 0 /\ q \in Nat
    BY Numbers
  <2>3. RootDown(q)' = NextKey(c, here)
    BY <1>3, <1>5, <2>2 DEF RootDown, NextKey, NextPlace, InformPlace
  <2>4. QED
    BY <1>6, <2>1, <2>3
<1>9. ASSUME NEW q \in Slave
      PROVE  RootUp(q)' = RootUp(q)
  <2>1. q # 0 /\ q \in Nat
    BY Numbers
  <2>2. QED
    BY <1>1, <1>3, <1>5, <2>1 DEF RootUp, NextPlace, InformPlace, MeshStays
<1>10. RootInv'
  <2>1. pc'[root] \notin {"flags", "types", "missing", "periodicNodes"}
    BY <1>3 DEF NextPlace, InformPlace
  <2>2. pc'[root] \in AfterTypes => pc[root] \in AfterTypes
    BY <1>1, <1>3 DEF NextPlace, InformPlace, AfterTypes
  <2>3. QED
    BY <1>3, <1>4, <1>5, <2>1, <2>2, RootKept
<1>11. QED
  BY <1>3, <1>4, <1>7, <1>8, <1>9, <1>10, RootTellsAll

(* The root has the elements of one more type, and gives all theirs.       *)
LEMMA MasterConnectivitiesStep ==
  ASSUME IInv, MasterConnectivities
  PROVE  IInv'
<1>1. PICK c, t : c = message_count[root] /\ t = Types[c + 1]
  OBVIOUS
<1>2. root \in Rank /\ RankInv(root) /\ PlaceInv(root) /\ c \in 0 .. NbTypes
  BY <1>1, Numbers DEF IInv, RankInv, PlaceInv
<1>3. pc[root] = "connectivities" /\ Type(root) = t /\ c < NbTypes /\ proc = 1
  BY <1>1, <1>2 DEF MasterConnectivities, At, PlaceInv, InLoop, IInv, RootInv, Type, Count
<1>4. \A q \in Rank : LocalElements(q, t) = LocalOf[q][t] /\ GhostElements(q, t) = GhostOf[q][t]
  <2>1. t \in ToSet(Types)
    BY <1>1, <1>2, <1>3, FirstTypesProperties
  <2>2. QED
    BY <2>1, RankLists
<1>5. /\ pc' = [pc EXCEPT ![root] = "partitions"]
      /\ SetElements(root, LocalOf[root][t], GhostOf[root][t])
      /\ UNCHANGED <<mesh, part, proc, message_count, elementSchemes, nodeData, nodeSchemes,
                     masterInfo>>
  BY <1>2, <1>3, <1>4 DEF MasterConnectivities, Goto
<1>6. pc'[root] = "partitions" /\ MeshStays /\ ShapeInv' /\ RootOnly
  BY <1>2, <1>5, Numbers DEF IInv, ShapeInv, RootOnly, MeshStays, SameRank, SetElements,
     elementSchemes, nodeData, nodeSchemes, masterInfo
<1>7. ASSUME NEW q \in Slave
      PROVE  RootDown(q) = <<c, "connectivities">>
  BY <1>1, <1>3 DEF RootDown
<1>8. ToldAll
  <2>1. PICK messages :
          messages = [q \in Slave |->
            <<Message(GenTag(root, c, "connectivity"),
                      [local |-> LocalElements(q, t), ghost |-> GhostElements(q, t)])>>]
    OBVIOUS
  <2>2. mail' = SentToAll(messages)
    BY <1>1, <1>3, <2>1 DEF MasterConnectivities, Count
  <2>3. ASSUME NEW q \in Slave
        PROVE  messages[q] = <<Down[q][RootDown(q)]>>
    <3>1. q \in Rank
      BY Numbers
    <3>2. Down[q][<<c, "connectivities">>] =
            Message(GenTag(root, c, "connectivity"),
                    [local |-> LocalOf[q][t], ghost |-> GhostOf[q][t]])
      BY <1>1, <1>2, <3>1, DownMessages
    <3>3. QED
      BY <1>4, <1>7, <2>1, <3>1, <3>2
  <2>4. QED
    BY <2>2, <2>3 DEF ToldAll
<1>9. ASSUME NEW q \in Slave
      PROVE  RootDown(q)' = Succ[RootDown(q)] /\ RootUp(q)' = RootUp(q)
  <2>1. Succ[<<c, "connectivities">>] = <<c, "partitions">>
    BY <1>2, NextKeys
  <2>2. RootDown(q)' = <<c, "partitions">>
    BY <1>1, <1>5, <1>6 DEF RootDown
  <2>3. RootUp(q)' = RootUp(q)
    BY <1>3, <1>6 DEF RootUp
  <2>4. QED
    BY <1>7, <2>1, <2>2, <2>3
<1>10. RankInv(root)'
  <2>1. PlaceInv(root)'
    BY <1>1, <1>2, <1>3, <1>5, <1>6 DEF PlaceInv, SlavePlace, RootPlace, InLoop, Periodic
  <2>2. /\ Filled(root) = c /\ Filled(root)' = c + 1 /\ Schemed(root)' = Schemed(root)
        /\ HasPairs(root)' = HasPairs(root) /\ HasMissing(root)' = HasMissing(root)
        /\ ~HasPairs(root) /\ ~HasPairs(root)'
    BY <1>1, <1>3, <1>5, <1>6 DEF Filled, Schemed, HasPairs, HasMissing, AfterNodes
  <2>3. ElementsInv(root)'
    <3>1. elements[root] = ElementsOf[root][c] /\ nodes_global_ids[root] = NodesOf[root][c]
      BY <1>2, <2>2 DEF RankInv, ElementsInv
    <3>2. elements'[root] = ElementsOf[root][c + 1]
      <4>1. elements'[root] = [elements[root] EXCEPT
                                 ![Types[c + 1]] = [local |-> LocalOf[root][Types[c + 1]],
                                                    ghost |-> GhostOf[root][Types[c + 1]]]]
        BY <1>1, <1>2, <1>3, <1>5 DEF IInv, ShapeInv, SetElements
      <4>2. QED
        BY <1>2, <1>3, <3>1, <4>1, ElementsGrow
    <3>3. nodes_global_ids'[root] = NodesOf[root][c + 1]
      <4>1. nodes_global_ids'[root] =
              nodes_global_ids[root] \cup
                UNION {ToSet(Nodes(e)) :
                         e \in ToSet(LocalOf[root][Types[c + 1]] \o GhostOf[root][Types[c + 1]])}
        BY <1>1, <1>2, <1>5 DEF IInv, ShapeInv, SetElements
      <4>2. QED
        BY <1>2, <1>3, <3>1, <4>1, ElementsGrow
    <3>4. ElementsOf' = ElementsOf /\ NodesOf' = NodesOf
      BY <1>6, ElementsAreRigid DEF MeshStays
    <3>5. QED
      BY <2>2, <3>2, <3>3, <3>4 DEF ElementsInv
  <2>4. QED
    BY <1>2, <1>3, <1>5, <1>6, <2>1, <2>2, <2>3, PartsKept
       DEF RankInv, AfterTypes, elementSchemes, nodeData, nodeSchemes
<1>11. RootInv'
  BY <1>3, <1>5, <1>6, RootKept DEF AfterTypes
<1>12. QED
  BY <1>6, <1>8, <1>9, <1>10, <1>11, RootTellsAll

(* The root has the schemes of one more type.                              *)
LEMMA MasterPartitionsStep ==
  ASSUME IInv, MasterPartitions
  PROVE  IInv'
<1>1. PICK c, t : c = message_count[root] /\ t = Types[c + 1]
  OBVIOUS
<1>2. root \in Rank /\ RankInv(root) /\ PlaceInv(root) /\ c \in 0 .. NbTypes
  BY <1>1, Numbers DEF IInv, RankInv, PlaceInv
<1>3. pc[root] = "partitions" /\ Type(root) = t /\ c < NbTypes /\ proc = 1
  BY <1>1, <1>2 DEF MasterPartitions, At, PlaceInv, InLoop, IInv, RootInv, Type, Count
<1>4. \A q \in Rank : PartitionInfo(q, t) = InfoOf[q][t]
  <2>1. t \in ToSet(Types)
    BY <1>1, <1>2, <1>3, FirstTypesProperties
  <2>2. QED
    BY <2>1 DEF InfoOf
<1>5. PICK next : next = IF mesh.tags THEN "tagNames" ELSE "groups"
  OBVIOUS
<1>6. /\ pc' = [pc EXCEPT ![root] = next]
      /\ FillElementSchemes(root, InfoOf[root][t])
      /\ UNCHANGED <<mesh, part, proc, message_count, meshData, nodeData, nodeSchemes,
                     masterInfo>>
  BY <1>2, <1>3, <1>4, <1>5 DEF MasterPartitions, Goto
<1>7. pc'[root] = next /\ MeshStays /\ ShapeInv' /\ RootOnly
  BY <1>2, <1>6, Numbers DEF IInv, ShapeInv, RootOnly, MeshStays, SameRank, FillElementSchemes,
     elementSchemes, meshData, nodeData, nodeSchemes, masterInfo
<1>8. ASSUME NEW q \in Slave
      PROVE  RootDown(q) = <<c, "partitions">>
  BY <1>1, <1>3 DEF RootDown
<1>9. ToldAll
  <2>1. PICK messages :
          messages = [q \in Slave |->
            <<Message(GenTag(root, c, "partitions"), PartitionInfo(q, t))>>]
    OBVIOUS
  <2>2. mail' = SentToAll(messages)
    BY <1>1, <1>3, <2>1 DEF MasterPartitions, Count
  <2>3. ASSUME NEW q \in Slave
        PROVE  messages[q] = <<Down[q][RootDown(q)]>>
    <3>1. q \in Rank
      BY Numbers
    <3>2. Down[q][<<c, "partitions">>] = Message(GenTag(root, c, "partitions"), InfoOf[q][t])
      BY <1>1, <1>2, <3>1, DownMessages
    <3>3. QED
      BY <1>4, <1>8, <2>1, <3>1, <3>2
  <2>4. QED
    BY <2>2, <2>3 DEF ToldAll
<1>10. ASSUME NEW q \in Slave
       PROVE  RootDown(q)' = Succ[RootDown(q)] /\ RootUp(q)' = RootUp(q)
  <2>1. Succ[<<c, "partitions">>] = <<c, next>>
    BY <1>2, <1>5, NextKeys
  <2>2. RootDown(q)' = <<c, next>>
    BY <1>1, <1>5, <1>6, <1>7 DEF RootDown
  <2>3. RootUp(q)' = RootUp(q)
    BY <1>3, <1>5, <1>7 DEF RootUp
  <2>4. QED
    BY <1>8, <2>1, <2>2, <2>3
<1>11. RankInv(root)'
  <2>1. PlaceInv(root)'
    BY <1>1, <1>2, <1>3, <1>5, <1>6, <1>7 DEF PlaceInv, SlavePlace, RootPlace, InLoop, Periodic
  <2>2. /\ Schemed(root) = c /\ Schemed(root)' = c + 1
        /\ Filled(root) = c + 1 /\ Filled(root)' = Filled(root)
        /\ HasPairs(root)' = HasPairs(root) /\ HasMissing(root)' = HasMissing(root)
    BY <1>1, <1>3, <1>5, <1>6, <1>7 DEF Filled, Schemed, HasPairs, HasMissing, AfterNodes
  <2>3. SchemesInv(root)'
    <3>1. SchemesFilled(root, c)
      BY <1>1, <1>2, <1>3, <1>6, <2>2, SchemesAreFilled
    <3>2. SchemeOf' = SchemeOf
      BY <1>7, ElementsAreRigid DEF MeshStays
    <3>3. QED
      BY <2>2, <3>1, <3>2 DEF SchemesInv, SchemesFilled
  <2>4. QED
    BY <1>2, <1>3, <1>5, <1>6, <1>7, <2>1, <2>2, <2>3, PartsKept
       DEF RankInv, AfterTypes, meshData, nodeData, nodeSchemes
<1>12. RootInv'
  BY <1>3, <1>5, <1>6, <1>7, RootKept DEF AfterTypes
<1>13. QED
  BY <1>7, <1>9, <1>10, <1>11, <1>12, RootTellsAll

(* The values of tags are the last that is sent.                           *)
LEMMA MasterNodeTagsStep ==
  ASSUME IInv, MasterNodeTags
  PROVE  IInv'
<1>1. PICK c : c = message_count[root]
  OBVIOUS
<1>2. root \in Rank /\ RankInv(root) /\ PlaceInv(root) /\ c \in 0 .. NbTypes
  BY <1>1, Numbers DEF IInv, RankInv, PlaceInv
<1>3. pc[root] = "nodeTags" /\ proc = 1 /\ \A q \in Rank : nodes_per_proc[q] = AllNodes[q]
  BY DEF MasterNodeTags, At, IInv, RootInv, AfterTypes
<1>4. /\ pc' = [pc EXCEPT ![root] = "done"]
      /\ UNCHANGED <<mesh, part, proc, message_count, meshData, elementSchemes, nodeData,
                     nodeSchemes, masterInfo>>
  BY DEF MasterNodeTags, Goto
<1>5. pc'[root] = "done" /\ MeshStays /\ ShapeInv' /\ RootOnly
  BY <1>2, <1>4, Numbers DEF IInv, ShapeInv, RootOnly, MeshStays, SameRank,
     elementSchemes, meshData, nodeData, nodeSchemes, masterInfo
<1>6. ASSUME NEW q \in Slave
      PROVE  RootDown(q) = <<c, "nodeTags">>
  BY <1>1, <1>3 DEF RootDown
<1>7. ToldAll
  <2>1. PICK messages :
          messages = [q \in Slave |->
            <<Message(GenTag(root, 0, "mesh_data"), Cardinality(nodes_per_proc[q]))>>]
    OBVIOUS
  <2>2. mail' = SentToAll(messages)
    BY <2>1 DEF MasterNodeTags
  <2>3. ASSUME NEW q \in Slave
        PROVE  messages[q] = <<Down[q][RootDown(q)]>>
    <3>1. q \in Rank /\ nodes_per_proc[q] = AllNodes[q]
      BY <1>3, Numbers
    <3>2. Down[q][<<c, "nodeTags">>] =
            Message(GenTag(root, 0, "mesh_data"), Cardinality(AllNodes[q]))
      BY <1>2, <3>1, DownMessages
    <3>3. QED
      BY <1>6, <2>1, <3>1, <3>2
  <2>4. QED
    BY <2>2, <2>3 DEF ToldAll
<1>8. ASSUME NEW q \in Slave
      PROVE  RootDown(q)' = Succ[RootDown(q)] /\ RootUp(q)' = RootUp(q)
  <2>1. Succ[<<c, "nodeTags">>] = <<c, "done">>
    BY <1>2, NextKeys
  <2>2. RootDown(q)' = <<c, "done">>
    BY <1>1, <1>4, <1>5 DEF RootDown
  <2>3. RootUp(q)' = RootUp(q)
    BY <1>3, <1>4, <1>5 DEF RootUp
  <2>4. QED
    BY <1>6, <2>1, <2>2, <2>3
<1>9. RankInv(root)'
  <2>1. PlaceInv(root)'
    BY <1>1, <1>2, <1>3, <1>4, <1>5 DEF PlaceInv, SlavePlace, RootPlace, InLoop, Periodic
  <2>2. /\ Filled(root)' = Filled(root) /\ Schemed(root)' = Schemed(root)
        /\ HasPairs(root)' = HasPairs(root) /\ HasMissing(root)' = HasMissing(root)
    BY <1>3, <1>4, <1>5 DEF Filled, Schemed, HasPairs, HasMissing, AfterNodes
  <2>3. QED
    BY <1>2, <1>3, <1>4, <1>5, <2>1, <2>2, PartsKept
       DEF RankInv, AfterTypes, meshData, elementSchemes, nodeData, nodeSchemes
<1>10. RootInv'
  BY <1>3, <1>4, <1>5, RootKept DEF AfterTypes
<1>11. QED
  BY <1>5, <1>7, <1>8, <1>9, <1>10, RootTellsAll

(* The root has decided, and tells each slave three things.                *)
LEMMA MasterTypesStep ==
  ASSUME IInv, MasterTypes
  PROVE  IInv'
<1>1. PICK c : c = message_count[root]
  OBVIOUS
<1>2. root \in Rank /\ RankInv(root) /\ PlaceInv(root) /\ c \in 0 .. NbTypes
  BY <1>1, Numbers DEF IInv, RankInv, PlaceInv
<1>3. /\ pc[root] = "types" /\ proc = 1
      /\ \A q \in Rank : nodes_per_proc[q] = AllNodes[q] /\ nodes_flags_per_proc[q] = SaidOf[q]
  BY DEF MasterTypes, At, IInv, RootInv
<1>4. /\ [n \in Node |-> PrankOf(n)] = OwnerOf
      /\ \A p \in Rank :
           TypeInfo(p) = [flags |-> FlagsOf[p], prank |-> PranksOf[p], to |-> ToOf[p]]
  BY <1>3, OwnersFound
<1>5. /\ TypeInfo(root).flags = FlagsOf[root] /\ TypeInfo(root).prank = PranksOf[root]
      /\ TypeInfo(root).to = ToOf[root]
  BY <1>2, <1>4
<1>6. /\ pc' = [pc EXCEPT ![root] = "nodeGroups"] /\ nodes_pranks' = OwnerOf
      /\ nodes_flags' = [nodes_flags EXCEPT ![root] = FlagsOf[root]]
      /\ SetPranks(root, FlagsOf[root], PranksOf[root])
      /\ FillNodeSchemes(root, FlagsOf[root], PranksOf[root], ToOf[root])
      /\ UNCHANGED <<mesh, part, proc, message_count, meshData, elementSchemes, nodes_per_proc,
                     nodes_flags_per_proc, proc_missings>>
  BY <1>4, <1>5 DEF MasterTypes, Goto
<1>7. pc'[root] = "nodeGroups" /\ MeshStays /\ ShapeInv' /\ RootOnly
  BY <1>2, <1>6, Numbers DEF IInv, ShapeInv, RootOnly, MeshStays, SameRank, SetPranks,
     FillNodeSchemes, elementSchemes, meshData
<1>8. RankInv(root)'
  <2>1. PlaceInv(root)'
    BY <1>1, <1>2, <1>3, <1>6, <1>7 DEF PlaceInv, SlavePlace, RootPlace, InLoop, Periodic
  <2>2. /\ Filled(root)' = Filled(root) /\ Schemed(root)' = Schemed(root)
        /\ HasPairs(root)' = HasPairs(root) /\ ~HasPairs(root)' /\ ~HasMissing(root)'
    BY <1>3, <1>6, <1>7 DEF Filled, Schemed, HasPairs, HasMissing, AfterNodes
  <2>3. /\ FlagsOf' = FlagsOf /\ KeptPranks' = KeptPranks /\ SendOf' = SendOf /\ RecvOf' = RecvOf
    BY <1>7, NodesAreRigid DEF MeshStays
  <2>4. FlagsInv(root)'
    <3>1. nodes_flags'[root] = FlagsOf[root]
      BY <1>2, <1>6 DEF IInv, ShapeInv
    <3>2. nodes_prank'[root] = KeptPranks[root]
      BY <1>2, <1>6 DEF IInv, ShapeInv, SetPranks, KeptPranks
    <3>3. QED
      BY <2>2, <2>3, <3>1, <3>2 DEF FlagsInv
  <2>5. NodeSchemesInv(root)'
    <3>1. send_nodes'[root] = SendOf[root]
      BY <1>2, <1>6 DEF IInv, ShapeInv, FillNodeSchemes, SendOf
    <3>2. recv_nodes'[root] = RecvOf[root]
      BY <1>2, <1>6 DEF IInv, ShapeInv, FillNodeSchemes, RecvOf
    <3>3. QED
      BY <2>2, <2>3, <3>1, <3>2 DEF NodeSchemesInv
  <2>6. QED
    BY <1>2, <1>6, <1>7, <2>1, <2>2, <2>4, <2>5, PartsKept DEF RankInv, meshData, elementSchemes
<1>9. RootInv'
  <2>1. AllNodes' = AllNodes /\ OwnerOf' = OwnerOf
    BY <1>7, RootKnows
  <2>2. QED
    BY <1>3, <1>6, <1>7, <2>1 DEF RootInv
<1>10. PICK messages :
         messages = [q \in Slave |->
           <<Message(GenTag(root, 0, "nodes_type"), TypeInfo(q).flags),
             Message(GenTag(root, 2, "nodes_type"), TypeInfo(q).prank),
             Message(GenTag(root, 1, "nodes_type"), TypeInfo(q).to)>>]
  OBVIOUS
<1>11. /\ Grid(mail)'
       /\ \A q \in Slave : /\ mail'[root][q] = mail[root][q] \o messages[q]
                           /\ mail'[q][root] = mail[q][root]
  <2>1. mail' = SentToAll(messages)
    BY <1>10 DEF MasterTypes
  <2>2. QED
    BY <2>1, AllChannels
<1>12. ASSUME NEW q \in Slave
       PROVE  DownInv(q)' /\ UpInv(q)'
  <2>1. MeshStays /\ SameRank(q) /\ DownInv(q) /\ UpInv(q) /\ q \in Rank
    BY <1>7, Numbers DEF RootOnly, IInv, MailInv
  <2>2. PICK k, l, r : k = <<c, "types">> /\ l = <<c, "pranks">> /\ r = <<c, "masterInfo">>
    OBVIOUS
  <2>3. k = RootDown(q) /\ l = Succ[k] /\ r = Succ[l]
    <3>1. RootDown(q) = <<c, "types">>
      BY <1>1, <1>3 DEF RootDown
    <3>2. Succ[<<c, "types">>] = <<c, "pranks">> /\ Succ[<<c, "pranks">>] = <<c, "masterInfo">>
      BY <1>2, NextKeys
    <3>3. QED
      BY <2>2, <3>1, <3>2
  <2>4. messages[q] = <<Down[q][k], Down[q][l], Down[q][r]>>
    <3>1. /\ Down[q][<<c, "types">>] = Message(GenTag(root, 0, "nodes_type"), FlagsOf[q])
          /\ Down[q][<<c, "pranks">>] = Message(GenTag(root, 2, "nodes_type"), PranksOf[q])
          /\ Down[q][<<c, "masterInfo">>] = Message(GenTag(root, 1, "nodes_type"), ToOf[q])
      BY <1>2, <2>1, DownMessages
    <3>2. /\ TypeInfo(q).flags = FlagsOf[q] /\ TypeInfo(q).prank = PranksOf[q]
          /\ TypeInfo(q).to = ToOf[q]
      BY <1>4, <2>1
    <3>3. QED
      BY <1>10, <2>2, <3>1, <3>2
  <2>5. mail'[root][q] =
          Append(Append(Append(mail[root][q], Down[q][k]), Down[q][l]), Down[q][Succ[l]])
    <3>1. PICK s, m1, m2, m3, a, F, N :
            /\ s = mail[root][q] /\ m1 = Down[q][k] /\ m2 = Down[q][l] /\ m3 = Down[q][r]
            /\ a = SlaveDown(q) /\ F = Down[q] /\ N = Succ
      OBVIOUS
    <3>2. Flow(s, a, k, F, N)
      BY <2>1, <2>3, <3>1 DEF DownInv
    <3>3. s \o <<m1, m2, m3>> = Append(Append(Append(s, m1), m2), m3)
      BY <3>2, ThreeMore
    <3>4. mail'[root][q] = s \o <<m1, m2, m3>>
      BY <1>11, <2>4, <3>1
    <3>5. QED
      BY <2>3, <3>1, <3>3, <3>4
  <2>6. RootDown(q)' = Succ[Succ[l]]
    <3>1. Succ[<<c, "masterInfo">>] = <<c, "nodeGroups">>
      BY <1>2, NextKeys
    <3>2. RootDown(q)' = <<c, "nodeGroups">>
      BY <1>1, <1>6, <1>7 DEF RootDown
    <3>3. QED
      BY <2>2, <2>3, <3>1, <3>2
  <2>7. DownInv(q)'
    BY <2>1, <2>3, <2>5, <2>6, ChannelsKept, RootSentThree
  <2>8. RootUp(q)' = RootUp(q)
    BY <1>3, <1>7 DEF RootUp
  <2>9. UpInv(q)'
    BY <1>11, <2>1, <2>8, ChannelsKept
  <2>10. QED
    BY <2>7, <2>9
<1>13. QED
  BY <1>7, <1>8, <1>9, <1>11, <1>12, RootFrame DEF RootOnly

(* The root tells each rank the masters of its periodic slaves.            *)
LEMMA MasterPeriodicPairsStep ==
  ASSUME IInv, MasterPeriodicPairs
  PROVE  IInv'
<1>1. PICK c : c = message_count[root]
  OBVIOUS
<1>2. root \in Rank /\ RankInv(root) /\ PlaceInv(root) /\ c \in 0 .. NbTypes
  BY <1>1, Numbers DEF IInv, RankInv, PlaceInv
<1>3. /\ pc[root] = "periodicPairs" /\ proc = 1 /\ mesh.periodic /\ nodes_pranks = OwnerOf
      /\ \A q \in Rank : nodes_per_proc[q] = AllNodes[q]
  BY <1>2 DEF MasterPeriodicPairs, At, IInv, RootInv, AfterTypes, PlaceInv, Periodic
<1>4. /\ \A q \in Rank : PeriodicInfo(q) = PairsOf[q]
      /\ Missing(root, PairsOf[root]) = MissingOf[root]
  BY <1>2, <1>3, NodesAreThere, PeriodicFound
<1>5. /\ pc' = [pc EXCEPT ![root] = "missing"] /\ FillPeriodicPairs(root, PairsOf[root])
      /\ proc_missings' = [proc_missings EXCEPT ![root] = MissingOf[root]]
      /\ UNCHANGED <<mesh, part, proc, message_count, elements, elementSchemes, nodes_prank,
                     nodeSchemes, nodes_per_proc, nodes_flags_per_proc, nodes_pranks>>
  BY <1>2, <1>4 DEF MasterPeriodicPairs, Goto
<1>6. pc'[root] = "missing" /\ MeshStays /\ ShapeInv' /\ RootOnly
  BY <1>2, <1>5, Numbers DEF IInv, ShapeInv, RootOnly, MeshStays, SameRank, FillPeriodicPairs,
     elementSchemes, nodeSchemes
<1>7. ASSUME NEW q \in Slave
      PROVE  RootDown(q) = <<c, "periodicPairs">>
  BY <1>1, <1>3 DEF RootDown
<1>8. ToldAll
  <2>1. PICK messages :
          messages = [q \in Slave |->
            <<Message(GenTag(root, q, "periodic_slaves"), PeriodicInfo(q))>>]
    OBVIOUS
  <2>2. mail' = SentToAll(messages)
    BY <2>1 DEF MasterPeriodicPairs
  <2>3. ASSUME NEW q \in Slave
        PROVE  messages[q] = <<Down[q][RootDown(q)]>>
    <3>1. q \in Rank /\ PeriodicInfo(q) = PairsOf[q]
      BY <1>4, Numbers
    <3>2. Down[q][<<c, "periodicPairs">>] =
            Message(GenTag(root, q, "periodic_slaves"), PairsOf[q])
      BY <1>2, <3>1, DownMessages
    <3>3. QED
      BY <1>7, <2>1, <3>1, <3>2
  <2>4. QED
    BY <2>2, <2>3 DEF ToldAll
<1>9. ASSUME NEW q \in Slave
      PROVE  RootDown(q)' = Succ[RootDown(q)] /\ RootUp(q)' = RootUp(q)
  <2>1. Succ[<<c, "periodicPairs">>] = <<c, "periodicNodes">>
    BY <1>2, NextKeys
  <2>2. RootDown(q)' = <<c, "periodicNodes">>
    BY <1>1, <1>5, <1>6 DEF RootDown
  <2>3. q # 0 /\ q \in Nat
    BY Numbers
  <2>4. RootUp(q)' = RootUp(q)
    BY <1>3, <1>5, <1>6, <2>3 DEF RootUp
  <2>5. QED
    BY <1>7, <2>1, <2>2, <2>4
<1>10. RankInv(root)'
  <2>1. PlaceInv(root)'
    BY <1>1, <1>2, <1>3, <1>5, <1>6 DEF PlaceInv, SlavePlace, RootPlace, InLoop, Periodic
  <2>2. QED
    BY <1>2, <1>3, <1>5, <1>6, <2>1, PairsAreAdded, PairsKept
<1>11. RootInv'
  <2>1. AllNodes' = AllNodes /\ OwnerOf' = OwnerOf /\ MissingOf' = MissingOf
    BY <1>6, RootKnows
  <2>2. proc' = 1 /\ proc_missings'[root] = MissingOf[root]
    BY <1>2, <1>3, <1>5 DEF IInv, ShapeInv
  <2>3. \A q \in 0 .. (proc' - 1) : q = root
    BY <2>2 DEF root
  <2>4. QED
    BY <1>3, <1>5, <1>6, <2>1, <2>2, <2>3 DEF RootInv
<1>12. QED
  BY <1>6, <1>8, <1>9, <1>10, <1>11, RootTellsAll

(* The root tells each rank of the nodes it misses, and those others miss. *)
LEMMA MasterPeriodicNodesStep ==
  ASSUME IInv, MasterPeriodicNodes
  PROVE  IInv'
<1>1. PICK c : c = message_count[root]
  OBVIOUS
<1>2. root \in Rank /\ RankInv(root) /\ PlaceInv(root) /\ c \in 0 .. NbTypes
  BY <1>1, Numbers DEF IInv, RankInv, PlaceInv
<1>3. /\ pc[root] = "periodicNodes" /\ proc = 1 /\ mesh.periodic /\ nodes_pranks = OwnerOf
      /\ \A q \in Rank : proc_missings[q] = MissingOf[q]
  BY <1>2 DEF MasterPeriodicNodes, At, IInv, RootInv, AfterTypes, PlaceInv, Periodic
<1>4. \A q \in Rank : MissingInfo(q) = MissingInfoOf[q]
  BY <1>3, PeriodicFound
<1>5. /\ pc' = [pc EXCEPT ![root] = "nodeTagNames"]
      /\ ReceiveMissingPeriodic(root, MissingInfoOf[root])
      /\ UNCHANGED <<mesh, part, proc, message_count, meshData, elementSchemes, nodes_flags,
                     masterInfo>>
  BY <1>2, <1>4 DEF MasterPeriodicNodes, Goto
<1>6. pc'[root] = "nodeTagNames" /\ MeshStays /\ ShapeInv' /\ RootOnly
  BY <1>2, <1>5, Numbers DEF IInv, ShapeInv, RootOnly, MeshStays, SameRank,
     ReceiveMissingPeriodic, elementSchemes, meshData, masterInfo
<1>7. ASSUME NEW q \in Slave
      PROVE  RootDown(q) = <<c, "periodicNodes">>
  BY <1>1, <1>3 DEF RootDown
<1>8. ToldAll
  <2>1. PICK messages :
          messages = [q \in Slave |->
            <<Message(GenTag(q, 1, "periodic_nodes"), MissingInfo(q))>>]
    OBVIOUS
  <2>2. mail' = SentToAll(messages)
    BY <2>1 DEF MasterPeriodicNodes
  <2>3. ASSUME NEW q \in Slave
        PROVE  messages[q] = <<Down[q][RootDown(q)]>>
    <3>1. q \in Rank /\ MissingInfo(q) = MissingInfoOf[q]
      BY <1>4, Numbers
    <3>2. Down[q][<<c, "periodicNodes">>] =
            Message(GenTag(q, 1, "periodic_nodes"), MissingInfoOf[q])
      BY <1>2, <3>1, DownMessages
    <3>3. QED
      BY <1>7, <2>1, <3>1, <3>2
  <2>4. QED
    BY <2>2, <2>3 DEF ToldAll
<1>9. ASSUME NEW q \in Slave
      PROVE  RootDown(q)' = Succ[RootDown(q)] /\ RootUp(q)' = RootUp(q)
  <2>1. Succ[<<c, "periodicNodes">>] = <<c, "nodeTagNames">>
    BY <1>2, NextKeys
  <2>2. RootDown(q)' = <<c, "nodeTagNames">>
    BY <1>1, <1>5, <1>6 DEF RootDown
  <2>3. RootUp(q)' = RootUp(q)
    BY <1>3, <1>5, <1>6 DEF RootUp
  <2>4. QED
    BY <1>7, <2>1, <2>2, <2>3
<1>10. RankInv(root)'
  <2>1. PlaceInv(root)'
    BY <1>1, <1>2, <1>3, <1>5, <1>6 DEF PlaceInv, SlavePlace, RootPlace, InLoop, Periodic
  <2>2. /\ Filled(root)' = Filled(root) /\ Schemed(root)' = Schemed(root)
        /\ HasPairs(root)' = HasPairs(root) /\ HasMissing(root)' /\ HasPairs(root)
    BY <1>3, <1>5, <1>6 DEF Filled, Schemed, HasPairs, HasMissing, AfterNodes
  <2>3. MissingAdded(root)
    BY <1>2, <1>3, <1>5, MissingIsAdded
  <2>4. /\ FlagsWithMissing' = FlagsWithMissing /\ KeptWithMissing' = KeptWithMissing
        /\ SendWithMissing' = SendWithMissing /\ RecvWithMissing' = RecvWithMissing
    BY <1>6, NodesAreRigid DEF MeshStays
  <2>5. FlagsInv(root)'
    <3>1. nodes_flags'[root] = FlagsWithMissing[root]
      BY <1>2, <1>3, <1>5, <2>2 DEF RankInv, FlagsInv, AfterTypes
    <3>2. QED
      BY <2>2, <2>3, <2>4, <3>1 DEF FlagsInv, MissingAdded
  <2>6. NodeSchemesInv(root)'
    BY <2>2, <2>3, <2>4 DEF NodeSchemesInv, MissingAdded
  <2>7. QED
    BY <1>2, <1>3, <1>5, <1>6, <2>1, <2>2, <2>5, <2>6, PartsKept
       DEF RankInv, meshData, elementSchemes
<1>11. RootInv'
  BY <1>3, <1>5, <1>6, RootKept DEF AfterTypes
<1>12. QED
  BY <1>6, <1>8, <1>9, <1>10, <1>11, RootTellsAll

-----------------------------------------------------------------------------
(* The loops of the root over the others.                                  *)

(* The channels when the root goes on to the next rank.                    *)
LEMMA RootReceives ==
  ASSUME IInv, RootOnly, RankInv(root)', RootInv', NEW p \in Slave,
         mail' = [mail EXCEPT ![p][root] = Tail(@)],
         Flow(Tail(mail[p][root]), UpSucc[RootUp(p)], SlaveUp(p), Up[p], UpSucc),
         RootUp(p)' = UpSucc[RootUp(p)],
         \A q \in Slave \ {p} : RootUp(q)' = RootUp(q),
         \A q \in Slave : RootDown(q)' = RootDown(q)
  PROVE  IInv'
<1>1. /\ Grid(mail)'
      /\ mail'[p][root] = Tail(mail[p][root])
      /\ \A q \in Slave : mail'[root][q] = mail[root][q]
      /\ \A q \in Slave \ {p} : mail'[q][root] = mail[q][root]
  <2>1. PICK f, g, x : f = mail /\ g = mail' /\ x = Tail(mail[p][root])
    OBVIOUS
  <2>2. Grid(f) /\ Changed(f, g, p, root, x) /\ root \in Rank /\ p \in Rank
    BY <2>1, Numbers DEF IInv, Changed
  <2>3. Grid(g) /\ g[p][root] = x /\ SameBut(f, g, p, root)
    BY <2>2, OneChannel
  <2>4. ASSUME NEW q \in Slave
        PROVE  g[root][q] = f[root][q]
    BY <2>3, Numbers DEF SameBut
  <2>5. ASSUME NEW q \in Slave \ {p}
        PROVE  g[q][root] = f[q][root]
    BY <2>3, Numbers DEF SameBut
  <2>6. QED
    BY <2>1, <2>3, <2>4, <2>5 DEF Grid
<1>2. ASSUME NEW q \in Slave
      PROVE  DownInv(q)' /\ UpInv(q)'
  <2>1. MeshStays /\ SameRank(q) /\ DownInv(q) /\ UpInv(q)
    BY DEF RootOnly, IInv, MailInv
  <2>2. DownInv(q)'
    BY <1>1, <2>1, ChannelsKept
  <2>3. UpInv(q)'
    <3>1. CASE q = p
      BY <1>1, <2>1, <3>1, ChannelsKept, RootTook
    <3>2. CASE q # p
      BY <1>1, <2>1, <3>2, ChannelsKept
    <3>3. QED
      BY <3>1, <3>2
  <2>4. QED
    BY <2>2, <2>3
<1>3. QED
  BY <1>1, <1>2, RootFrame DEF RootOnly

(* The root sends the sizes to one rank.                                   *)
LEMMA MasterSizesStep ==
  ASSUME IInv, MasterSizes
  PROVE  IInv'
<1>1. PICK c, p, after :
        /\ c = message_count[root] /\ p = proc
        /\ after = IF c = NbTypes THEN "nbNodes" ELSE "connectivities"
  OBVIOUS
<1>2. /\ root \in Rank /\ RankInv(root) /\ PlaceInv(root) /\ c \in 0 .. NbTypes
      /\ p \in Slave /\ p \in Rank /\ p \in 1 .. (NbProc - 1)
  BY <1>1, Numbers DEF IInv, RankInv, PlaceInv, ShapeInv
<1>3. pc[root] = "sizes" /\ proc = p
  BY <1>1 DEF MasterSizes, At
<1>4. /\ mail' = Sent(root, p, Message(GenTag(root, c, "sizes"), ~ (c = NbTypes)))
      /\ NextProc("sizes", after)
      /\ UNCHANGED <<mesh, part, message_count, meshData, elementSchemes, nodeData, nodeSchemes,
                     masterInfo>>
  BY <1>1 DEF MasterSizes, NoMoreTypes, Count, NbTypes
<1>5. /\ pc'[root] = (IF p < NbProc - 1 THEN "sizes" ELSE after)
      /\ proc' = (IF p < NbProc - 1 THEN p + 1 ELSE 1)
      /\ pc' = [pc EXCEPT ![root] = pc'[root]]
  BY <1>2, <1>3, <1>4 DEF NextProc, Goto, IInv, ShapeInv
<1>6. MeshStays /\ ShapeInv' /\ RootOnly
  <2>1. proc' \in 1 .. (NbProc - 1)
    BY <1>2, <1>5, NbProcAssumption
  <2>2. QED
    BY <1>2, <1>4, <1>5, <2>1, Numbers DEF IInv, ShapeInv, RootOnly, MeshStays, SameRank,
       elementSchemes, meshData, nodeData, nodeSchemes, masterInfo
<1>7. RankInv(root)'
  <2>1. message_count'[root] = c
    BY <1>1, <1>4
  <2>2. PlaceInv(root)'
    BY <1>1, <1>2, <1>5, <2>1, Numbers DEF PlaceInv, SlavePlace, RootPlace, InLoop, Periodic
  <2>3. /\ Filled(root)' = Filled(root) /\ Schemed(root)' = Schemed(root)
        /\ HasPairs(root)' = HasPairs(root) /\ HasMissing(root)' = HasMissing(root)
    BY <1>1, <1>3, <1>5, <2>1 DEF Filled, Schemed, HasPairs, HasMissing, AfterNodes
  <2>4. pc'[root] \notin {"pranks", "masterInfo"} \cup AfterTypes
    BY <1>1, <1>5 DEF AfterTypes
  <2>5. QED
    BY <1>2, <1>4, <1>6, <2>2, <2>3, <2>4, PartsKept
       DEF RankInv, meshData, elementSchemes, nodeData, nodeSchemes
<1>8. RootInv'
  BY <1>1, <1>5 DEF RootInv, AfterTypes
<1>9. /\ Grid(mail)'
      /\ mail'[root][p] = Append(mail[root][p], Message(GenTag(root, c, "sizes"), ~ (c = NbTypes)))
      /\ \A q \in Slave : mail'[q][root] = mail[q][root]
      /\ \A q \in Slave \ {p} : mail'[root][q] = mail[root][q]
  <2>1. PICK f, g, m, x : /\ f = mail /\ g = mail' /\ x = Append(mail[root][p], m)
                          /\ m = Message(GenTag(root, c, "sizes"), ~ (c = NbTypes))
    OBVIOUS
  <2>2. Grid(f) /\ Changed(f, g, root, p, x)
    BY <1>2, <1>4, <2>1 DEF IInv, Changed, Sent
  <2>3. Grid(g) /\ g[root][p] = x /\ SameBut(f, g, root, p)
    BY <1>2, <2>2, OneChannel
  <2>4. ASSUME NEW q \in Slave
        PROVE  g[q][root] = f[q][root]
    BY <2>3, Numbers DEF SameBut
  <2>5. ASSUME NEW q \in Slave \ {p}
        PROVE  g[root][q] = f[root][q]
    BY <2>3, Numbers DEF SameBut
  <2>6. QED
    BY <2>1, <2>3, <2>4, <2>5 DEF Grid
<1>10. Succ[<<c, "sizes">>] = <<c, after>>
  BY <1>1, <1>2, NextKeys
<1>11. ASSUME NEW q \in Slave
       PROVE  /\ RootDown(q)' = IF q = p THEN Succ[RootDown(q)] ELSE RootDown(q)
              /\ q = p => RootDown(q) = <<c, "sizes">>
              /\ RootUp(q)' = RootUp(q)
  <2>1. Succ' = Succ /\ message_count'[root] = c
    BY <1>1, <1>4, <1>6, KeysAreRigid DEF MeshStays
  <2>2. q \in 1 .. (NbProc - 1)
    BY Numbers
  <2>3. RootDown(q) = IF q < p THEN <<c, after>> ELSE <<c, "sizes">>
    BY <1>1, <1>3, <1>10 DEF RootDown
  <2>4. RootDown(q)' = IF q < p + 1 THEN <<c, after>> ELSE <<c, "sizes">>
    <3>1. CASE p < NbProc - 1
      BY <1>5, <1>10, <2>1, <3>1 DEF RootDown
    <3>2. CASE ~ (p < NbProc - 1)
      <4>1. RootDown(q)' = <<c, after>>
        BY <1>1, <1>5, <2>1, <3>2 DEF RootDown
      <4>2. q < p + 1
        BY <1>2, <2>2, <3>2, NbProcAssumption
      <4>3. QED
        BY <4>1, <4>2
    <3>3. QED
      BY <3>1, <3>2
  <2>5. RootUp(q)' = RootUp(q)
    BY <1>1, <1>3, <1>5 DEF RootUp
  <2>6. QED
    BY <1>2, <1>10, <2>2, <2>3, <2>4, <2>5
<1>12. ASSUME NEW q \in Slave
       PROVE  DownInv(q)' /\ UpInv(q)'
  <2>1. MeshStays /\ SameRank(q) /\ DownInv(q) /\ UpInv(q)
    BY <1>6 DEF RootOnly, IInv, MailInv
  <2>2. DownInv(q)'
    <3>1. CASE q = p
      <4>1. Down[p][<<c, "sizes">>] = Message(GenTag(root, c, "sizes"), ~ (c = NbTypes))
        BY <1>2, DownMessages
      <4>2. RootDown(p) = <<c, "sizes">> /\ RootDown(p)' = Succ[RootDown(p)]
        BY <1>11, <3>1
      <4>3. mail'[root][p] = Append(mail[root][p], Down[p][RootDown(p)])
        BY <1>9, <4>1, <4>2, Zenon
      <4>4. QED
        BY <2>1, <3>1, <4>2, <4>3, ChannelsKept, RootSent
    <3>2. CASE q # p
      BY <1>9, <1>11, <2>1, <3>2, ChannelsKept
    <3>3. QED
      BY <3>1, <3>2
  <2>3. UpInv(q)'
    BY <1>9, <1>11, <2>1, ChannelsKept
  <2>4. QED
    BY <2>2, <2>3
<1>13. QED
  BY <1>6, <1>7, <1>8, <1>9, <1>12, RootFrame DEF RootOnly

(* A loop of the root goes on to the next rank or to what comes after.     *)
LEMMA NextProcOnly ==
  ASSUME IInv, NEW place, NEW after, NEW p, p = proc, NextProc(place, after)
  PROVE  /\ pc'[root] = (IF p < NbProc - 1 THEN place ELSE after)
         /\ proc' = (IF p < NbProc - 1 THEN p + 1 ELSE 1)
         /\ pc' = [pc EXCEPT ![root] = pc'[root]]
         /\ p \in Slave /\ p \in Rank /\ p \in 1 .. (NbProc - 1) /\ proc' \in 1 .. (NbProc - 1)
<1>1. p \in Slave /\ p \in Rank /\ p \in 1 .. (NbProc - 1) /\ root \in Rank
  BY Numbers DEF IInv, ShapeInv
<1>2. /\ pc'[root] = (IF p < NbProc - 1 THEN place ELSE after)
      /\ proc' = (IF p < NbProc - 1 THEN p + 1 ELSE 1)
      /\ pc' = [pc EXCEPT ![root] = pc'[root]]
  BY <1>1 DEF NextProc, Goto, IInv, ShapeInv
<1>3. proc' \in 1 .. (NbProc - 1)
  BY <1>1, <1>2, NbProcAssumption
<1>4. QED
  BY <1>1, <1>2, <1>3

(* The root waits for the number of nodes of a rank.                       *)
LEMMA MasterNbNodesStep ==
  ASSUME IInv, MasterNbNodes
  PROVE  IInv'
<1>1. PICK c, p, tag : c = message_count[root] /\ p = proc /\ tag = GenTag(p, 0, "nb_nodes")
  OBVIOUS
<1>2. root \in Rank /\ RankInv(root) /\ PlaceInv(root) /\ p \in Slave /\ p \in Rank
  BY <1>1, Numbers DEF IInv, RankInv, ShapeInv
<1>3. /\ pc[root] = "nodes" /\ proc = p /\ Arrived(root, p, tag) /\ mail' = Took(root, p, tag)
      /\ pc' = [pc EXCEPT ![root] = "nodeList"]
      /\ UNCHANGED <<mesh, part, proc, message_count, meshData, elementSchemes, nodeData,
                     nodeSchemes, masterInfo>>
  BY <1>1 DEF MasterNbNodes, At, Goto
<1>4. RootUp(p) = "nodes" /\ Up[p][RootUp(p)] = Message(tag, Cardinality(AllNodes[p]))
  <2>1. RootUp(p) = "nodes"
    BY <1>2, <1>3, Numbers DEF RootUp
  <2>2. QED
    BY <1>1, <1>2, <2>1, UpMessages
<1>5. /\ mail' = [mail EXCEPT ![p][root] = Tail(@)]
      /\ Flow(Tail(mail[p][root]), UpSucc[RootUp(p)], SlaveUp(p), Up[p], UpSucc)
  BY <1>2, <1>3, <1>4, RootTakes DEF Message
<1>6. pc'[root] = "nodeList" /\ MeshStays /\ ShapeInv' /\ RootOnly
  BY <1>2, <1>3, Numbers DEF IInv, ShapeInv, RootOnly, MeshStays, SameRank, meshData,
     elementSchemes, nodeData, nodeSchemes, masterInfo
<1>7. RankInv(root)'
  <2>1. PlaceInv(root)'
    BY <1>2, <1>3, <1>6 DEF PlaceInv, SlavePlace, RootPlace, InLoop, Periodic
  <2>2. /\ Filled(root)' = Filled(root) /\ Schemed(root)' = Schemed(root)
        /\ HasPairs(root)' = HasPairs(root) /\ HasMissing(root)' = HasMissing(root)
    BY <1>3, <1>6 DEF Filled, Schemed, HasPairs, HasMissing, AfterNodes
  <2>3. QED
    BY <1>2, <1>3, <1>6, <2>1, <2>2, PartsKept
       DEF RankInv, AfterTypes, meshData, elementSchemes, nodeData, nodeSchemes
<1>8. RootInv'
  <2>1. AllNodes' = AllNodes /\ nodes_per_proc' = nodes_per_proc /\ proc' = proc
    BY <1>3, <1>6, RootKnows DEF masterInfo
  <2>2. QED
    BY <1>3, <1>6, <2>1 DEF IInv, RootInv, AfterTypes
<1>9. RootUp(p)' = UpSucc[RootUp(p)]
  <2>1. p \in Nat
    BY <1>2, Numbers
  <2>2. RootUp(p)' = "nodeList"
    BY <1>3, <1>6, <2>1 DEF RootUp
  <2>3. QED
    BY <1>4, <2>2, UpKeysFollow
<1>10. \A q \in Slave \ {p} : RootUp(q)' = RootUp(q)
  BY <1>3, <1>6 DEF RootUp
<1>11. \A q \in Slave : RootDown(q)' = RootDown(q)
  BY <1>3, <1>6 DEF RootDown
<1>12. QED
  BY <1>2, <1>5, <1>6, <1>7, <1>8, <1>9, <1>10, <1>11, RootReceives

(* The root waits for what a rank says of its nodes.                       *)
LEMMA MasterFlagsStep ==
  ASSUME IInv, MasterFlags
  PROVE  IInv'
<1>1. PICK c, p, tag : c = message_count[root] /\ p = proc /\ tag = GenTag(p, 0, "nodes_type")
  OBVIOUS
<1>2. NextProc("flags", "types")
  BY DEF MasterFlags
<1>3. /\ pc'[root] = (IF p < NbProc - 1 THEN "flags" ELSE "types")
      /\ proc' = (IF p < NbProc - 1 THEN p + 1 ELSE 1)
      /\ pc' = [pc EXCEPT ![root] = pc'[root]]
      /\ p \in Slave /\ p \in Rank /\ p \in 1 .. (NbProc - 1) /\ proc' \in 1 .. (NbProc - 1)
  BY <1>1, <1>2, NextProcOnly
<1>4. root \in Rank /\ RankInv(root) /\ PlaceInv(root)
  BY Numbers DEF IInv, RankInv
<1>5. pc[root] = "flags" /\ proc = p /\ Arrived(root, p, tag)
  BY <1>1 DEF MasterFlags, At
<1>6. RootUp(p) = "flags" /\ Up[p][RootUp(p)] = Message(tag, SaidOf[p])
  <2>1. RootUp(p) = "flags"
    BY <1>3, <1>5 DEF RootUp
  <2>2. QED
    BY <1>1, <1>3, <2>1, UpMessages
<1>7. /\ Data(root, p, tag) = SaidOf[p]
      /\ Took(root, p, tag) = [mail EXCEPT ![p][root] = Tail(@)]
      /\ Flow(Tail(mail[p][root]), UpSucc[RootUp(p)], SlaveUp(p), Up[p], UpSucc)
  BY <1>3, <1>5, <1>6, RootTakes DEF Message
<1>8. NodesType(root) = SaidOf[root]
  BY <1>4, <1>5, NodesAreThere, SaidByElements
<1>9. /\ mail' = [mail EXCEPT ![p][root] = Tail(@)]
      /\ nodes_flags' = [nodes_flags EXCEPT ![root] = SaidOf[root]]
      /\ nodes_flags_per_proc' = [nodes_flags_per_proc EXCEPT
                                    ![root] = SaidOf[root], ![p] = SaidOf[p]]
      /\ UNCHANGED <<mesh, part, message_count, meshData, elementSchemes, nodes_prank,
                     nodeSchemes, nodes_per_proc, nodes_pranks, proc_missings>>
  BY <1>1, <1>7, <1>8 DEF MasterFlags
<1>10. MeshStays /\ ShapeInv' /\ RootOnly
  BY <1>3, <1>4, <1>9, Numbers DEF IInv, ShapeInv, RootOnly, MeshStays, SameRank, meshData,
     elementSchemes, nodeSchemes
<1>11. RankInv(root)'
  <2>1. message_count' = message_count /\ mesh' = mesh
    BY <1>9
  <2>2. PlaceInv(root)'
    BY <1>3, <1>4, <1>5, <2>1 DEF PlaceInv, SlavePlace, RootPlace, InLoop, Periodic
  <2>3. /\ Filled(root)' = Filled(root) /\ Schemed(root)' = Schemed(root)
        /\ HasPairs(root)' = HasPairs(root) /\ HasMissing(root)' = HasMissing(root)
    BY <1>3, <1>5, <2>1 DEF Filled, Schemed, HasPairs, HasMissing, AfterNodes
  <2>4. pc'[root] \notin {"pranks", "masterInfo"} \cup AfterTypes
    BY <1>3 DEF AfterTypes
  <2>5. QED
    BY <1>4, <1>9, <1>10, <2>2, <2>3, <2>4, PartsKept
       DEF RankInv, FlagsInv, meshData, elementSchemes, nodeSchemes
<1>12. RootInv'
  <2>1. /\ AllNodes' = AllNodes /\ SaidOf' = SaidOf /\ nodes_per_proc' = nodes_per_proc
        /\ \A q \in Rank : nodes_per_proc[q] = AllNodes[q]
    BY <1>5, <1>9, <1>10, RootKnows DEF IInv, RootInv
  <2>2. ASSUME NEW q \in 0 .. p
        PROVE  nodes_flags_per_proc'[q] = SaidOf[q]
    <3>1. q \in Rank
      BY <1>3, <2>2, NbProcAssumption DEF Rank
    <3>2. CASE q = p
      BY <1>3, <1>9, <3>2 DEF IInv, ShapeInv
    <3>3. CASE q # p /\ q = root
      BY <1>4, <1>9, <3>3 DEF IInv, ShapeInv
    <3>4. CASE q # p /\ q # root
      <4>1. q \in 0 .. (proc - 1) /\ proc > 1
        BY <1>3, <1>5, <2>2, <3>4 DEF root
      <4>2. nodes_flags_per_proc[q] = SaidOf[q]
        BY <1>5, <4>1 DEF IInv, RootInv
      <4>3. QED
        BY <1>9, <3>1, <3>4, <4>2 DEF IInv, ShapeInv
    <3>5. QED
      BY <3>2, <3>3, <3>4
  <2>3. CASE p < NbProc - 1
    <3>1. pc'[root] = "flags" /\ proc' = p + 1 /\ 0 .. (proc' - 1) = 0 .. p
      BY <1>3, <2>3
    <3>2. QED
      BY <2>1, <2>2, <3>1 DEF RootInv, AfterTypes
  <2>4. CASE ~ (p < NbProc - 1)
    <3>1. pc'[root] = "types" /\ proc' = 1 /\ Rank = 0 .. p
      BY <1>3, <2>4, NbProcAssumption DEF Rank
    <3>2. QED
      BY <2>1, <2>2, <3>1 DEF RootInv, AfterTypes
  <2>5. QED
    BY <2>3, <2>4
<1>13. ASSUME NEW q \in Slave
       PROVE  RootUp(q)' = (IF q = p THEN "periodicPairs" ELSE RootUp(q))
  <2>1. q \in 1 .. (NbProc - 1)
    BY Numbers
  <2>2. RootUp(q) = IF q < p THEN "periodicPairs" ELSE "flags"
    BY <1>5 DEF RootUp
  <2>3. RootUp(q)' = IF q < p + 1 THEN "periodicPairs" ELSE "flags"
    <3>1. CASE p < NbProc - 1
      BY <1>3, <3>1 DEF RootUp
    <3>2. CASE ~ (p < NbProc - 1)
      <4>1. RootUp(q)' = "periodicPairs"
        BY <1>3, <3>2 DEF RootUp
      <4>2. q < p + 1
        BY <1>3, <2>1, <3>2, NbProcAssumption
      <4>3. QED
        BY <4>1, <4>2
    <3>3. QED
      BY <3>1, <3>2
  <2>4. QED
    BY <1>3, <2>1, <2>2, <2>3
<1>14. RootUp(p)' = UpSucc[RootUp(p)] /\ \A q \in Slave \ {p} : RootUp(q)' = RootUp(q)
  BY <1>3, <1>6, <1>13, UpKeysFollow
<1>15. ASSUME NEW q \in Slave
       PROVE  RootDown(q)' = RootDown(q)
  BY <1>3, <1>5, <1>9 DEF RootDown
<1>16. QED
  BY <1>3, <1>7, <1>9, <1>10, <1>11, <1>12, <1>14, <1>15, RootReceives

(* The root waits for the nodes that a rank misses.                        *)
LEMMA MasterMissingStep ==
  ASSUME IInv, MasterMissing
  PROVE  IInv'
<1>1. PICK c, p, tag :
        c = message_count[root] /\ p = proc /\ tag = GenTag(p, 0, "periodic_nodes")
  OBVIOUS
<1>2. NextProc("missing", "periodicNodes")
  BY DEF MasterMissing
<1>3. /\ pc'[root] = (IF p < NbProc - 1 THEN "missing" ELSE "periodicNodes")
      /\ proc' = (IF p < NbProc - 1 THEN p + 1 ELSE 1)
      /\ pc' = [pc EXCEPT ![root] = pc'[root]]
      /\ p \in Slave /\ p \in Rank /\ p \in 1 .. (NbProc - 1) /\ proc' \in 1 .. (NbProc - 1)
  BY <1>1, <1>2, NextProcOnly
<1>4. root \in Rank /\ RankInv(root) /\ PlaceInv(root)
  BY Numbers DEF IInv, RankInv
<1>5. pc[root] = "missing" /\ proc = p /\ Arrived(root, p, tag)
  BY <1>1 DEF MasterMissing, At
<1>6. RootUp(p) = "periodicPairs" /\ Up[p][RootUp(p)] = Message(tag, MissingOf[p])
  <2>1. RootUp(p) = "periodicPairs"
    BY <1>3, <1>5 DEF RootUp
  <2>2. QED
    BY <1>1, <1>3, <2>1, UpMessages
<1>7. /\ Data(root, p, tag) = MissingOf[p]
      /\ Took(root, p, tag) = [mail EXCEPT ![p][root] = Tail(@)]
      /\ Flow(Tail(mail[p][root]), UpSucc[RootUp(p)], SlaveUp(p), Up[p], UpSucc)
  BY <1>3, <1>5, <1>6, RootTakes DEF Message
<1>8. /\ mail' = [mail EXCEPT ![p][root] = Tail(@)]
      /\ proc_missings' = [proc_missings EXCEPT ![p] = MissingOf[p]]
      /\ UNCHANGED <<mesh, part, message_count, meshData, elementSchemes, nodeData,
                     nodeSchemes, nodes_per_proc, nodes_flags_per_proc, nodes_pranks>>
  BY <1>1, <1>7 DEF MasterMissing
<1>9. MeshStays /\ ShapeInv' /\ RootOnly
  BY <1>3, <1>4, <1>8, Numbers DEF IInv, ShapeInv, RootOnly, MeshStays, SameRank, meshData,
     elementSchemes, nodeData, nodeSchemes
<1>10. RankInv(root)'
  <2>1. message_count' = message_count /\ mesh' = mesh
    BY <1>8
  <2>2. PlaceInv(root)'
    BY <1>3, <1>4, <1>5, <2>1 DEF PlaceInv, SlavePlace, RootPlace, InLoop, Periodic
  <2>3. /\ Filled(root)' = Filled(root) /\ Schemed(root)' = Schemed(root)
        /\ HasPairs(root)' = HasPairs(root) /\ HasMissing(root)' = HasMissing(root)
    BY <1>3, <1>5, <2>1 DEF Filled, Schemed, HasPairs, HasMissing, AfterNodes
  <2>4. pc[root] \in AfterTypes
    BY <1>5 DEF AfterTypes
  <2>5. QED
    BY <1>4, <1>8, <1>9, <2>2, <2>3, <2>4, PartsKept
       DEF RankInv, meshData, elementSchemes, nodeData, nodeSchemes
<1>11. RootInv'
  <2>1. /\ AllNodes' = AllNodes /\ OwnerOf' = OwnerOf /\ MissingOf' = MissingOf
        /\ nodes_per_proc' = nodes_per_proc /\ nodes_pranks' = nodes_pranks
        /\ nodes_pranks = OwnerOf
        /\ \A q \in Rank : nodes_per_proc[q] = AllNodes[q]
    BY <1>5, <1>8, <1>9, RootKnows DEF IInv, RootInv, AfterTypes
  <2>2. ASSUME NEW q \in 0 .. p
        PROVE  proc_missings'[q] = MissingOf[q]
    <3>1. q \in Rank
      BY <1>3, <2>2, NbProcAssumption DEF Rank
    <3>2. CASE q = p
      BY <1>3, <1>8, <3>2 DEF IInv, ShapeInv
    <3>3. CASE q # p
      <4>1. q \in 0 .. (proc - 1)
        BY <1>3, <1>5, <2>2, <3>3
      <4>2. proc_missings[q] = MissingOf[q]
        BY <1>5, <4>1 DEF IInv, RootInv
      <4>3. QED
        BY <1>8, <3>1, <3>3, <4>2 DEF IInv, ShapeInv
    <3>4. QED
      BY <3>2, <3>3
  <2>3. CASE p < NbProc - 1
    <3>1. pc'[root] = "missing" /\ proc' = p + 1 /\ 0 .. (proc' - 1) = 0 .. p
      BY <1>3, <2>3
    <3>2. QED
      BY <2>1, <2>2, <3>1 DEF RootInv
  <2>4. CASE ~ (p < NbProc - 1)
    <3>1. pc'[root] = "periodicNodes" /\ proc' = 1 /\ Rank = 0 .. p
      BY <1>3, <2>4, NbProcAssumption DEF Rank
    <3>2. QED
      BY <2>1, <2>2, <3>1 DEF RootInv
  <2>5. QED
    BY <2>3, <2>4
<1>12. ASSUME NEW q \in Slave
       PROVE  RootUp(q)' = (IF q = p THEN "end" ELSE RootUp(q))
  <2>1. q \in 1 .. (NbProc - 1)
    BY Numbers
  <2>2. RootUp(q) = IF q < p THEN "end" ELSE "periodicPairs"
    BY <1>5 DEF RootUp
  <2>3. RootUp(q)' = IF q < p + 1 THEN "end" ELSE "periodicPairs"
    <3>1. CASE p < NbProc - 1
      BY <1>3, <3>1 DEF RootUp
    <3>2. CASE ~ (p < NbProc - 1)
      <4>1. RootUp(q)' = "end"
        BY <1>3, <3>2 DEF RootUp
      <4>2. q < p + 1
        BY <1>3, <2>1, <3>2, NbProcAssumption
      <4>3. QED
        BY <4>1, <4>2
    <3>3. QED
      BY <3>1, <3>2
  <2>4. QED
    BY <1>3, <2>1, <2>2, <2>3
<1>13. RootUp(p)' = UpSucc[RootUp(p)] /\ \A q \in Slave \ {p} : RootUp(q)' = RootUp(q)
  BY <1>3, <1>6, <1>12, UpKeysFollow
<1>14. ASSUME NEW q \in Slave
       PROVE  RootDown(q)' = RootDown(q)
  BY <1>3, <1>5, <1>8 DEF RootDown
<1>15. QED
  BY <1>3, <1>7, <1>8, <1>9, <1>10, <1>11, <1>13, <1>14, RootReceives

(* The root waits for the nodes of a rank, and sends their coordinates.    *)
LEMMA MasterNodesStep ==
  ASSUME IInv, MasterNodes
  PROVE  IInv'
<1>1. PICK c, p, tag, m :
        /\ c = message_count[root] /\ p = proc /\ tag = GenTag(p, 0, "nodes")
        /\ m = Message(GenTag(root, 0, "coordinates"), <<>>)
  OBVIOUS
<1>2. NextProc("nodes", "flags")
  BY DEF MasterNodes
<1>3. /\ pc'[root] = (IF p < NbProc - 1 THEN "nodes" ELSE "flags")
      /\ proc' = (IF p < NbProc - 1 THEN p + 1 ELSE 1)
      /\ pc' = [pc EXCEPT ![root] = pc'[root]]
      /\ p \in Slave /\ p \in Rank /\ p \in 1 .. (NbProc - 1) /\ proc' \in 1 .. (NbProc - 1)
  BY <1>1, <1>2, NextProcOnly
<1>4. root \in Rank /\ RankInv(root) /\ PlaceInv(root) /\ c \in 0 .. NbTypes
  BY <1>1, Numbers DEF IInv, RankInv, PlaceInv
<1>5. pc[root] = "nodeList" /\ proc = p /\ Arrived(root, p, tag)
  BY <1>1 DEF MasterNodes, At
<1>6. RootUp(p) = "nodeList" /\ Up[p][RootUp(p)] = Message(tag, AllNodes[p])
  <2>1. RootUp(p) = "nodeList"
    BY <1>3, <1>5 DEF RootUp
  <2>2. QED
    BY <1>1, <1>3, <2>1, UpMessages
<1>7. /\ Data(root, p, tag) = AllNodes[p]
      /\ Took(root, p, tag) = [mail EXCEPT ![p][root] = Tail(@)]
      /\ Flow(Tail(mail[p][root]), UpSucc[RootUp(p)], SlaveUp(p), Up[p], UpSucc)
  BY <1>3, <1>5, <1>6, RootTakes DEF Message
<1>8. nodes_global_ids[root] = AllNodes[root]
  BY <1>4, <1>5, NodesAreThere
<1>9. /\ nodes_per_proc' = [nodes_per_proc EXCEPT ![root] = AllNodes[root], ![p] = AllNodes[p]]
      /\ UNCHANGED <<mesh, part, message_count, meshData, elementSchemes, nodeData,
                     nodeSchemes, nodes_flags_per_proc, nodes_pranks, proc_missings>>
  BY <1>1, <1>7, <1>8 DEF MasterNodes
<1>10. MeshStays /\ ShapeInv' /\ RootOnly
  BY <1>3, <1>4, <1>9, Numbers DEF IInv, ShapeInv, RootOnly, MeshStays, SameRank, meshData,
     elementSchemes, nodeData, nodeSchemes
<1>11. RankInv(root)'
  <2>1. message_count' = message_count /\ mesh' = mesh
    BY <1>9
  <2>2. PlaceInv(root)'
    BY <1>3, <1>4, <1>5, <2>1 DEF PlaceInv, SlavePlace, RootPlace, InLoop, Periodic
  <2>3. /\ Filled(root)' = Filled(root) /\ Schemed(root)' = Schemed(root)
        /\ HasPairs(root)' = HasPairs(root) /\ HasMissing(root)' = HasMissing(root)
    BY <1>3, <1>5, <2>1 DEF Filled, Schemed, HasPairs, HasMissing, AfterNodes
  <2>4. pc'[root] \notin {"pranks", "masterInfo"} \cup AfterTypes
    BY <1>3 DEF AfterTypes
  <2>5. QED
    BY <1>4, <1>9, <1>10, <2>2, <2>3, <2>4, PartsKept
       DEF RankInv, meshData, elementSchemes, nodeData, nodeSchemes
<1>12. RootInv'
  <2>1. AllNodes' = AllNodes
    BY <1>10, RootKnows
  <2>2. ASSUME NEW q \in 0 .. p
        PROVE  nodes_per_proc'[q] = AllNodes[q]
    <3>1. q \in Rank
      BY <1>3, <2>2, NbProcAssumption DEF Rank
    <3>2. CASE q = p
      BY <1>3, <1>9, <3>2 DEF IInv, ShapeInv
    <3>3. CASE q # p /\ q = root
      BY <1>4, <1>9, <3>3 DEF IInv, ShapeInv
    <3>4. CASE q # p /\ q # root
      <4>1. q \in 0 .. (proc - 1) /\ proc > 1
        BY <1>3, <1>5, <2>2, <3>4 DEF root
      <4>2. nodes_per_proc[q] = AllNodes[q]
        BY <1>5, <4>1 DEF IInv, RootInv
      <4>3. QED
        BY <1>9, <3>1, <3>4, <4>2 DEF IInv, ShapeInv
    <3>5. QED
      BY <3>2, <3>3, <3>4
  <2>3. CASE p < NbProc - 1
    <3>1. pc'[root] = "nodes" /\ proc' = p + 1 /\ 0 .. (proc' - 1) = 0 .. p
      BY <1>3, <2>3
    <3>2. QED
      BY <2>1, <2>2, <3>1 DEF RootInv, AfterTypes
  <2>4. CASE ~ (p < NbProc - 1)
    <3>1. pc'[root] = "flags" /\ proc' = 1 /\ Rank = 0 .. p
      BY <1>3, <2>4, NbProcAssumption DEF Rank
    <3>2. QED
      BY <2>1, <2>2, <3>1 DEF RootInv, AfterTypes
  <2>5. QED
    BY <2>3, <2>4
<1>13. /\ Grid(mail)'
       /\ mail'[p][root] = Tail(mail[p][root])
       /\ mail'[root][p] = Append(mail[root][p], m)
       /\ \A q \in Slave \ {p} : SameMail(q)
  <2>1. PICK f, g, h, x, y :
          /\ f = mail /\ h = mail' /\ x = Tail(mail[p][root])
          /\ g = [mail EXCEPT ![p][root] = Tail(@)] /\ y = Append(g[root][p], m)
    OBVIOUS
  <2>2. Grid(f) /\ Changed(f, g, p, root, x)
    BY <2>1 DEF IInv, Changed
  <2>3. Grid(g) /\ g[p][root] = x /\ SameBut(f, g, p, root)
    BY <1>3, <1>4, <2>2, OneChannel
  <2>4. Changed(g, h, root, p, y)
    BY <1>1, <1>7, <2>1 DEF MasterNodes, Changed
  <2>5. Grid(h) /\ h[root][p] = y /\ SameBut(g, h, root, p)
    BY <1>3, <1>4, <2>3, <2>4, OneChannel
  <2>6. g[root][p] = f[root][p] /\ h[p][root] = g[p][root]
    BY <1>3, <1>4, <2>3, <2>5, Numbers DEF SameBut
  <2>7. ASSUME NEW q \in Slave \ {p}
        PROVE  SameMail(q)
    BY <2>1, <2>3, <2>5, Numbers DEF SameMail, SameBut
  <2>8. QED
    BY <2>1, <2>3, <2>5, <2>6, <2>7 DEF Grid
<1>14. Succ[<<c, "coordinates">>] = <<c, "types">>
  BY <1>4, NextKeys
<1>15. ASSUME NEW q \in Slave
       PROVE  /\ RootUp(q)' = (IF q = p THEN "flags" ELSE RootUp(q))
              /\ RootDown(q)' = (IF q = p THEN <<c, "types">> ELSE RootDown(q))
              /\ q = p => RootDown(q) = <<c, "coordinates">>
  <2>1. q \in 1 .. (NbProc - 1) /\ message_count'[root] = c
    BY <1>1, <1>9, Numbers
  <2>2. /\ RootUp(q) = IF q < p THEN "flags" ELSE IF q = p THEN "nodeList" ELSE "nodes"
        /\ RootDown(q) = IF q < p THEN <<c, "types">> ELSE <<c, "coordinates">>
    BY <1>1, <1>5 DEF RootUp, RootDown
  <2>3. /\ RootUp(q)' = IF q < p + 1 THEN "flags" ELSE "nodes"
        /\ RootDown(q)' = IF q < p + 1 THEN <<c, "types">> ELSE <<c, "coordinates">>
    <3>1. CASE p < NbProc - 1
      <4>1. pc'[root] = "nodes" /\ proc' = p + 1
        BY <1>3, <3>1
      <4>2. QED
        BY <2>1, <4>1 DEF RootUp, RootDown
    <3>2. CASE ~ (p < NbProc - 1)
      <4>1. pc'[root] = "flags" /\ proc' = 1
        BY <1>3, <3>2
      <4>2. RootUp(q)' = "flags" /\ RootDown(q)' = <<c, "types">>
        BY <2>1, <4>1 DEF RootUp, RootDown
      <4>3. q < p + 1
        BY <1>3, <2>1, <3>2, NbProcAssumption
      <4>4. QED
        BY <4>2, <4>3
    <3>3. QED
      BY <3>1, <3>2
  <2>4. QED
    BY <1>3, <2>1, <2>2, <2>3
<1>16. ASSUME NEW q \in Slave
       PROVE  DownInv(q)' /\ UpInv(q)'
  <2>1. MeshStays /\ SameRank(q) /\ DownInv(q) /\ UpInv(q)
    BY <1>10 DEF RootOnly, IInv, MailInv
  <2>2. CASE q = p
    <3>1. RootDown(p) = <<c, "coordinates">> /\ RootDown(p)' = Succ[RootDown(p)]
      BY <1>14, <1>15, <2>2
    <3>2. Down[p][<<c, "coordinates">>] = m
      BY <1>1, <1>3, <1>4, DownMessages
    <3>3. DownInv(p)'
      BY <1>13, <2>1, <2>2, <3>1, <3>2, ChannelsKept, RootSent
    <3>4. RootUp(p)' = UpSucc[RootUp(p)]
      BY <1>6, <1>15, <2>2, UpKeysFollow
    <3>5. UpInv(p)'
      BY <1>7, <1>13, <2>1, <2>2, <3>4, ChannelsKept, RootTook
    <3>6. QED
      BY <2>2, <3>3, <3>5
  <2>3. CASE q # p
    BY <1>13, <1>15, <2>1, <2>3, ChannelsKept DEF SameMail
  <2>4. QED
    BY <2>2, <2>3
<1>17. QED
  BY <1>10, <1>11, <1>12, <1>13, <1>16, RootFrame DEF RootOnly

(* No step of the root breaks the invariant.                               *)
LEMMA MasterStepKeeps ==
  ASSUME IInv, MasterStep
  PROVE  IInv'
<1>1. CASE SendReceived(root)
  BY <1>1, StutterStep DEF SendReceived, EndSend
<1>2. CASE MasterSizes \/ MasterConnectivities \/ MasterPartitions \/ MasterInforms
  BY <1>2, MasterSizesStep, MasterConnectivitiesStep, MasterPartitionsStep, MasterInformsStep
<1>3. CASE MasterNbNodes \/ MasterNodes \/ MasterFlags \/ MasterTypes
  BY <1>3, MasterNbNodesStep, MasterNodesStep, MasterFlagsStep, MasterTypesStep
<1>4. CASE MasterPeriodicPairs \/ MasterMissing \/ MasterPeriodicNodes \/ MasterNodeTags
  BY <1>4, MasterPeriodicPairsStep, MasterMissingStep, MasterPeriodicNodesStep,
     MasterNodeTagsStep
<1>5. QED
  BY <1>1, <1>2, <1>3, <1>4 DEF MasterStep

-----------------------------------------------------------------------------
(* The invariant.                                                          *)

(* At the beginning nobody has anything, and the channels are empty.       *)
LEMMA InitKeeps ==
  ASSUME Init
  PROVE  IInv
<1>1. /\ root \in Rank /\ 1 \in 1 .. (NbProc - 1) /\ NbTypes \in Nat /\ 0 \in 0 .. NbTypes
      /\ Slave \subseteq Rank /\ root \notin Slave
  BY Numbers
<1>2. ShapeInv
  BY <1>1 DEF Init, ShapeInv, Pairs
<1>3. Grid(mail)
  BY DEF Init, Pairs, Grid
<1>4. ASSUME NEW p \in Rank
      PROVE  RankInv(p)
  <2>1. pc[p] = "sizes" /\ message_count[p] = 0
    BY DEF Init
  <2>2. PlaceInv(p)
    BY <1>1, <2>1 DEF PlaceInv, SlavePlace, RootPlace, InLoop, Periodic
  <2>3. Filled(p) = 0 /\ Schemed(p) = 0 /\ ~HasPairs(p)
    BY <2>1 DEF Filled, Schemed, HasPairs, AfterNodes
  <2>4. ElementsInv(p)
    <3>1. /\ elements[p] = [t \in ToSet(Types) |-> [local |-> <<>>, ghost |-> <<>>]]
          /\ nodes_global_ids[p] = {}
      BY DEF Init
    <3>2. QED
      BY <2>3, <3>1, ElementsGrow DEF ElementsInv
  <2>5. SchemesInv(p)
    <3>1. send_elements[p] = [q \in Rank |-> <<>>] /\ recv_elements[p] = [q \in Rank |-> <<>>]
      BY DEF Init, Pairs
    <3>2. \A q \in Rank : SchemeOf[p][q][0] = <<>> /\ SchemeOf[q][p][0] = <<>>
      BY SchemesGrow
    <3>3. QED
      BY <2>3, <3>1, <3>2 DEF SchemesInv
  <2>6. FlagsInv(p) /\ NodeSchemesInv(p)
    BY <2>1 DEF FlagsInv, NodeSchemesInv, AfterTypes
  <2>7. QED
    BY <2>2, <2>4, <2>5, <2>6 DEF RankInv
<1>5. RootInv
  BY <1>1 DEF Init, RootInv, AfterTypes
<1>6. ASSUME NEW q \in Slave
      PROVE  DownInv(q) /\ UpInv(q)
  <2>1. q \in Rank /\ ~ (q < 1)
    BY Numbers
  <2>2. mail[root][q] = <<>> /\ mail[q][root] = <<>>
    BY <1>1, <2>1 DEF Init, Pairs
  <2>3. SlaveDown(q) = <<0, "sizes">> /\ RootDown(q) = <<0, "sizes">>
    BY <1>1, <2>1 DEF Init, SlaveDown, RootDown
  <2>4. SlaveUp(q) = "nodes" /\ RootUp(q) = "nodes"
    BY <1>1, <2>1 DEF Init, SlaveUp, RootUp
  <2>5. DownInv(q)
    <3>1. PICK F, N, a : F = Down[q] /\ N = Succ /\ a = <<0, "sizes">>
      OBVIOUS
    <3>2. a \in DOMAIN N
      BY <1>1, <3>1, KeysFollow, KeysAreKeys DEF SlavePlace
    <3>3. Flow(<<>>, a, a, F, N)
      BY <3>2, FlowEmpty
    <3>4. QED
      BY <2>2, <2>3, <3>1, <3>3 DEF DownInv
  <2>6. UpInv(q)
    <3>1. PICK F, N, a : F = Up[q] /\ N = UpSucc /\ a = "nodes"
      OBVIOUS
    <3>2. a \in DOMAIN N
      BY <3>1, UpKeysFollow DEF UpKey
    <3>3. Flow(<<>>, a, a, F, N)
      BY <3>2, FlowEmpty
    <3>4. QED
      BY <2>2, <2>4, <3>1, <3>3 DEF UpInv
  <2>7. QED
    BY <2>5, <2>6
<1>7. QED
  BY <1>2, <1>3, <1>4, <1>5, <1>6 DEF IInv, MailInv

(* No step breaks it.                                                      *)
LEMMA NextKeeps ==
  ASSUME IInv, [Next]_vars
  PROVE  IInv'
<1>1. CASE MasterStep
  BY <1>1, MasterStepKeeps
<1>2. CASE \E p \in Slave : SlaveStep(p)
  BY <1>2, SlaveStepKeeps
<1>3. CASE \E p \in Rank : SendBuffered(p)
  BY <1>3, StutterStep DEF SendBuffered, EndSend
<1>4. CASE Terminated \/ UNCHANGED vars
  BY <1>4, StutterStep DEF Terminated, vars
<1>5. QED
  BY <1>1, <1>2, <1>3, <1>4 DEF Next

(* Each rank has at its place the part of what is computed from the mesh   *)
(* and the partition, and each channel holds what was sent and not taken:  *)
(* the first message is the one the taker waits for, whatever its tag.     *)
THEOREM Invariance == FairSpec => []IInv
<1>1. Init => IInv
  BY InitKeeps
<1>2. IInv /\ [Next]_vars => IInv'
  BY NextKeeps
<1>3. QED
  BY <1>1, <1>2, PTL DEF FairSpec


-----------------------------------------------------------------------------
(* What a rank has when it is through.                                     *)

(* All types are there, and with a periodic mesh the nodes that it missed. *)
LEMMA DoneValues ==
  ASSUME IInv, NEW p \in Rank, Done(p)
  PROVE  /\ elements[p] = ElementsOf[p][NbTypes]
         /\ nodes_global_ids[p] =
              IF mesh.periodic THEN AllNodes[p] \cup MissingOf[p] ELSE AllNodes[p]
         /\ send_elements[p] = [q \in Rank |-> SchemeOf[p][q][NbTypes]]
         /\ recv_elements[p] = [q \in Rank |-> SchemeOf[q][p][NbTypes]]
         /\ nodes_flags[p] = IF mesh.periodic THEN FlagsWithMissing[p] ELSE FlagsOf[p]
         /\ nodes_prank[p] = IF mesh.periodic THEN KeptWithMissing[p] ELSE KeptPranks[p]
         /\ send_nodes[p] = IF mesh.periodic THEN SendWithMissing[p] ELSE SendOf[p]
         /\ recv_nodes[p] = IF mesh.periodic THEN RecvWithMissing[p] ELSE RecvOf[p]
<1>1. RankInv(p) /\ pc[p] = "done"
  BY DEF IInv, Done, At
<1>2. message_count[p] = NbTypes
  BY <1>1 DEF RankInv, PlaceInv, InLoop
<1>3. Filled(p) = NbTypes /\ Schemed(p) = NbTypes
  BY <1>1, <1>2 DEF Filled, Schemed
<1>4. (HasPairs(p) <=> mesh.periodic) /\ (HasMissing(p) <=> mesh.periodic)
  BY <1>1 DEF HasPairs, HasMissing, AfterNodes
<1>5. pc[p] \in AfterTypes
  BY <1>1 DEF AfterTypes
<1>6. elements[p] = ElementsOf[p][NbTypes]
  BY <1>1, <1>3 DEF RankInv, ElementsInv
<1>7. NodesOf[p][NbTypes] = AllNodes[p]
  BY DEF AllNodes
<1>8. nodes_global_ids[p] =
        IF mesh.periodic THEN AllNodes[p] \cup MissingOf[p] ELSE AllNodes[p]
  BY <1>1, <1>3, <1>4, <1>7 DEF RankInv, ElementsInv
<1>9. /\ send_elements[p] = [q \in Rank |-> SchemeOf[p][q][NbTypes]]
      /\ recv_elements[p] = [q \in Rank |-> SchemeOf[q][p][NbTypes]]
  BY <1>1, <1>3 DEF RankInv, SchemesInv
<1>10. /\ nodes_flags[p] = IF mesh.periodic THEN FlagsWithMissing[p] ELSE FlagsOf[p]
       /\ nodes_prank[p] = IF mesh.periodic THEN KeptWithMissing[p] ELSE KeptPranks[p]
  BY <1>1, <1>4, <1>5 DEF RankInv, FlagsInv
<1>11. /\ send_nodes[p] = IF mesh.periodic THEN SendWithMissing[p] ELSE SendOf[p]
       /\ recv_nodes[p] = IF mesh.periodic THEN RecvWithMissing[p] ELSE RecvOf[p]
  BY <1>1, <1>4, <1>5 DEF RankInv, NodeSchemesInv
<1>12. QED
  BY <1>6, <1>8, <1>9, <1>10, <1>11

(* The ghosts that p has when it is through.                               *)
LEMMA DoneGhosts ==
  ASSUME IInv, NEW p \in Rank, Done(p), NEW t \in ToSet(Types)
  PROVE  elements[p][t].ghost = GhostOf[p][t] /\ elements[p][t].local = LocalOf[p][t]
<1>1. elements[p] = ElementsOf[p][NbTypes]
  BY DoneValues
<1>2. NbTypes \in 0 .. NbTypes /\ t \in FirstTypes(NbTypes)
  BY Numbers, FirstTypesProperties
<1>3. QED
  BY <1>1, <1>2 DEF ElementsOf

(* What one rank sends is, element by element, what the other expects, and *)
(* those are all of its ghosts that are cells of the sender.               *)
THEOREM SchemesOfElements == FairSpec => []ElementSchemesMirror
<1>1. ASSUME IInv
      PROVE  ElementSchemesMirror
  <2> SUFFICES ASSUME NEW p \in Rank, NEW q \in Rank, Done(p), Done(q)
               PROVE  /\ send_elements[p][q] = recv_elements[q][p]
                      /\ ToSet(recv_elements[q][p]) =
                           UNION {{e \in ToSet(elements[q][t].ghost) : part[e] = p} :
                                    t \in {u \in ToSet(Types) : Dim[u] = Dimension}}
    BY DEF ElementSchemesMirror
  <2>1. send_elements[p][q] = SchemeOf[p][q][NbTypes]
    <3>1. send_elements[p] = [r \in Rank |-> SchemeOf[p][r][NbTypes]]
      BY <1>1, DoneValues
    <3>2. QED
      BY <3>1
  <2>2. recv_elements[q][p] = SchemeOf[p][q][NbTypes]
    <3>1. recv_elements[q] = [r \in Rank |-> SchemeOf[r][q][NbTypes]]
      BY <1>1, DoneValues
    <3>2. QED
      BY <3>1
  <2>3. ToSet(SchemeOf[p][q][NbTypes]) =
          UNION {ToSet(Given(p, q, t)) : t \in {u \in ToSet(Types) : Dim[u] = Dimension}}
    BY SchemeSet
  <2>4. ASSUME NEW t \in ToSet(Types), Dim[t] = Dimension
        PROVE  ToSet(Given(p, q, t)) = {e \in ToSet(elements[q][t].ghost) : part[e] = p}
    <3>1. ToSet(Given(p, q, t)) = {e \in ToSet(All(t)) : Partition(e) = p /\ q \in GhostParts(e)}
      BY <2>4, GivenProperties
    <3>2. elements[q][t].ghost = GhostOf[q][t]
      BY <1>1, <2>4, DoneGhosts
    <3>3. ToSet(GhostOf[q][t]) = {e \in ToSet(All(t)) : q \in GhostParts(e)}
      BY <2>4, RankLists
    <3>4. ASSUME NEW e \in ToSet(All(t))
          PROVE  Partition(e) = part[e]
      <4>1. e[1] = t
        BY <2>4, <3>4, ElementLists
      <4>2. e \in Cell
        BY <2>4, <3>4, <4>1 DEF Cell, Element
      <4>3. QED
        BY <4>2 DEF Partition
    <3>5. QED
      BY <3>1, <3>2, <3>3, <3>4
  <2>5. UNION {ToSet(Given(p, q, t)) : t \in {u \in ToSet(Types) : Dim[u] = Dimension}} =
          UNION {{e \in ToSet(elements[q][t].ghost) : part[e] = p} :
                   t \in {u \in ToSet(Types) : Dim[u] = Dimension}}
    BY <2>4
  <2>6. QED
    BY <2>1, <2>2, <2>3, <2>5
<1>2. QED
  BY <1>1, Invariance, PTL

(* What is said of the nodes of a rank.                                    *)
LEMMA FlagsAreSaid ==
  ASSUME NEW p \in Rank, NEW n \in AllNodes[p]
  PROVE  /\ SaidOf[p][n] =
              IF n \notin NodesIn(p, "ghost") THEN "normal"
              ELSE IF n \in NodesIn(p, "local") THEN "master" ELSE "pure_ghost"
         /\ FlagsOf[p][n] =
              IF SaidOf[p][n] = "master" /\ OwnerOf[n] # p THEN "slave" ELSE SaidOf[p][n]
         /\ PranksOf[p][n] = IF FlagsOf[p][n] = "normal" THEN p ELSE OwnerOf[n]
         /\ DOMAIN FlagsOf[p] = AllNodes[p]
BY DEF SaidOf, FlagsOf, PranksOf

(* The nodes that p has to send to q are those q has as slaves of p.       *)
LEMMA SlavesOfOwner ==
  ASSUME NEW p \in Rank, NEW q \in Rank
  PROVE  ToOf[p][q] = {n \in DOMAIN FlagsOf[q] : FlagsOf[q][n] = "slave" /\ PranksOf[q][n] = p}
<1>1. ToOf[p][q] = {n \in Node : q \in SayingOf(n, "master") \ {p} /\ OwnerOf[n] = p}
  BY DEF ToOf
<1>2. DOMAIN FlagsOf[q] = AllNodes[q] /\ AllNodes[q] \subseteq Node
  BY NodesAreNodes DEF FlagsOf
<1>3. ASSUME NEW n \in Node
      PROVE  q \in SayingOf(n, "master") \ {p} /\ OwnerOf[n] = p <=>
             n \in AllNodes[q] /\ FlagsOf[q][n] = "slave" /\ PranksOf[q][n] = p
  <2>1. q \in SayingOf(n, "master") <=> n \in AllNodes[q] /\ SaidOf[q][n] = "master"
    BY DEF SayingOf
  <2>2. CASE n \in AllNodes[q]
    <3>1. /\ SaidOf[q][n] \in {"normal", "master", "pure_ghost"}
          /\ FlagsOf[q][n] =
               IF SaidOf[q][n] = "master" /\ OwnerOf[n] # q THEN "slave" ELSE SaidOf[q][n]
          /\ PranksOf[q][n] = IF FlagsOf[q][n] = "normal" THEN q ELSE OwnerOf[n]
      BY <2>2, FlagsAreSaid
    <3>2. QED
      BY <2>1, <2>2, <3>1
  <2>3. CASE n \notin AllNodes[q]
    BY <2>1, <2>3
  <2>4. QED
    BY <2>2, <2>3
<1>4. QED
  BY <1>1, <1>2, <1>3

(* The lists of nodes of two ranks say the same.                           *)
THEOREM SchemesOfNodes == FairSpec => []NodeSchemesMirror
<1>1. ASSUME IInv
      PROVE  NodeSchemesMirror
  <2> SUFFICES ASSUME NEW p \in Rank, NEW q \in Rank, Done(p), Done(q)
               PROVE  send_nodes[p][q] = recv_nodes[q][p]
    BY DEF NodeSchemesMirror
  <2>1. /\ send_nodes[p] = IF mesh.periodic THEN SendWithMissing[p] ELSE SendOf[p]
        /\ recv_nodes[q] = IF mesh.periodic THEN RecvWithMissing[q] ELSE RecvOf[q]
    <3>1. send_nodes[p] = IF mesh.periodic THEN SendWithMissing[p] ELSE SendOf[p]
      BY <1>1, DoneValues
    <3>2. recv_nodes[q] = IF mesh.periodic THEN RecvWithMissing[q] ELSE RecvOf[q]
      BY <1>1, DoneValues
    <3>3. QED
      BY <3>1, <3>2
  <2>2. SendOf[p][q] = Sorted(ToOf[p][q])
    BY DEF SendOf
  <2>3. RecvOf[q][p] =
          Sorted({n \in DOMAIN FlagsOf[q] : FlagsOf[q][n] = "slave" /\ PranksOf[q][n] = p})
    BY DEF RecvOf, RecvNodes
  <2>4. SendOf[p][q] = RecvOf[q][p]
    BY <2>2, <2>3, SlavesOfOwner
  <2>5. MissingInfoOf[p].to[q] = {n \in MissingOf[q] : OwnerOf[n] = p}
    BY DEF MissingInfoOf
  <2>6. SendWithMissing[p][q] = SendOf[p][q] \o Sorted({n \in MissingOf[q] : OwnerOf[n] = p})
    BY <2>5 DEF SendWithMissing
  <2>7. RecvWithMissing[q][p] = RecvOf[q][p] \o Sorted({n \in MissingOf[q] : OwnerOf[n] = p})
    BY DEF RecvWithMissing
  <2>8. QED
    BY <2>1, <2>4, <2>6, <2>7
<1>2. QED
  BY <1>1, Invariance, PTL

-----------------------------------------------------------------------------
(* Where a node is.                                                        *)

(* The ranks that have an element of their own at n, and those that have a *)
(* ghost at it.                                                            *)
Locals(n) == {p \in Rank : \E e \in Element : n \in ToSet(Nodes(e)) /\ Partition(e) = p}
Ghosts(n) == {p \in Rank : \E e \in Element : n \in ToSet(Nodes(e)) /\ p \in GhostParts(e)}

(* The least of some ranks is one of them.                                 *)
LEMMA LeastRank ==
  ASSUME NEW S, S \subseteq Rank, S # {}
  PROVE  Min(S) \in S
<1> DEFINE Good == {m \in 0 .. NbProc : (\E x \in S : x <= m) => \E x \in S : \A y \in S : x <= y}
<1>1. NbProc \in Nat /\ \A x \in S : x \in Nat /\ x <= NbProc
  BY NbProcAssumption DEF Rank
<1>2. 0 \in Good
  BY <1>1
<1>3. ASSUME NEW m \in 1 .. NbProc, m - 1 \in Good
      PROVE  m \in Good
  <2>1. CASE \E x \in S : x <= m - 1
    BY <1>1, <1>3, <2>1
  <2>2. CASE ~ \E x \in S : x <= m - 1
    <3>1. \A y \in S : m <= y
      BY <1>1, <2>2
    <3>2. ASSUME NEW x \in S, x <= m
          PROVE  \A y \in S : x <= y
      BY <1>1, <3>1, <3>2
    <3>3. m \in 0 .. NbProc
      BY <1>1
    <3>4. QED
      BY <3>2, <3>3
  <2>3. QED
    BY <2>1, <2>2
<1>4. \A m \in 0 .. NbProc : m \in Good
  <2> HIDE DEF Good
  <2>1. QED
    BY <1>1, <1>2, <1>3, UpToInduction
<1>5. NbProc \in Good
  <2> HIDE DEF Good
  <2>1. NbProc \in 0 .. NbProc
    BY <1>1
  <2>2. QED
    BY <1>4, <2>1
<1>6. \E x \in S : \A y \in S : x <= y
  BY <1>1, <1>5
<1>7. QED
  BY <1>6 DEF Min

(* A rank has the nodes of its elements and of its ghosts.                 *)
LEMMA NodesByElements ==
  ASSUME NEW p \in Rank, NEW n
  PROVE  /\ n \in NodesIn(p, "local") <=> p \in Locals(n)
         /\ n \in NodesIn(p, "ghost") <=> p \in Ghosts(n)
         /\ n \in AllNodes[p] <=> p \in Locals(n) \cup Ghosts(n)
<1>1. \A t \in ToSet(Types) :
        /\ ElementsOf[p][NbTypes][t]["local"] = LocalOf[p][t]
        /\ ElementsOf[p][NbTypes][t]["ghost"] = GhostOf[p][t]
  <2>1. NbTypes \in 0 .. NbTypes /\ FirstTypes(NbTypes) = ToSet(Types)
    BY Numbers, FirstTypesProperties
  <2>2. QED
    BY <2>1 DEF ElementsOf
<1>2. \A t \in ToSet(Types) :
        /\ ToSet(LocalOf[p][t]) = {e \in ToSet(All(t)) : Partition(e) = p}
        /\ ToSet(GhostOf[p][t]) = {e \in ToSet(All(t)) : p \in GhostParts(e)}
        /\ ToSet(LocalOf[p][t] \o GhostOf[p][t]) = ToSet(LocalOf[p][t]) \cup ToSet(GhostOf[p][t])
  BY RankLists, SetOfConcat
<1>3. \A e : e \in Element <=> \E t \in ToSet(Types) : e \in ToSet(All(t))
  BY DEF Element
<1>4. n \in NodesIn(p, "local") <=> p \in Locals(n)
  <2>1. n \in NodesIn(p, "local") <=>
          \E t \in ToSet(Types) : \E e \in ToSet(LocalOf[p][t]) : n \in ToSet(Nodes(e))
    BY <1>1 DEF NodesIn
  <2>2. QED
    BY <1>2, <1>3, <2>1 DEF Locals
<1>5. n \in NodesIn(p, "ghost") <=> p \in Ghosts(n)
  <2>1. n \in NodesIn(p, "ghost") <=>
          \E t \in ToSet(Types) : \E e \in ToSet(GhostOf[p][t]) : n \in ToSet(Nodes(e))
    BY <1>1 DEF NodesIn
  <2>2. QED
    BY <1>2, <1>3, <2>1 DEF Ghosts
<1>6. n \in AllNodes[p] <=>
        \E t \in ToSet(Types) :
          \E e \in ToSet(LocalOf[p][t] \o GhostOf[p][t]) : n \in ToSet(Nodes(e))
  <2>1. NbTypes \in 0 .. NbTypes /\ FirstTypes(NbTypes) = ToSet(Types)
    BY Numbers, FirstTypesProperties
  <2>2. AllNodes[p] = UNION {UNION {ToSet(Nodes(e)) : e \in ToSet(LocalOf[p][t] \o GhostOf[p][t])} :
                               t \in ToSet(Types)}
    BY <2>1 DEF AllNodes, NodesOf
  <2>3. QED
    BY <2>2
<1>7. n \in AllNodes[p] <=> p \in Locals(n) \cup Ghosts(n)
  <2>1. n \in AllNodes[p] <=>
          \E t \in ToSet(Types) :
            \E e \in ToSet(All(t)) :
              (Partition(e) = p \/ p \in GhostParts(e)) /\ n \in ToSet(Nodes(e))
    BY <1>2, <1>6
  <2>2. QED
    BY <1>3, <2>1 DEF Locals, Ghosts
<1>8. QED
  BY <1>4, <1>5, <1>7

(* The partition of a facet is that of a cell it is on.                    *)
LEMMA PartOfElement ==
  ASSUME part \in [Cell -> Rank], NEW e \in Element
  PROVE  /\ \E c \in Cell : ToSet(Nodes(e)) \subseteq ToSet(Nodes(c)) /\ part[c] = Partition(e)
         /\ Partition(e) \in Rank
         /\ Partition(e) \notin GhostParts(e)
<1>1. CASE e \in Cell
  <2>1. Partition(e) = part[e] /\ GhostParts(e) = CellGhostParts(e)
    BY <1>1 DEF Partition, GhostParts
  <2>2. part[e] \notin CellGhostParts(e)
    BY DEF CellGhostParts
  <2>3. QED
    BY <1>1, <2>1, <2>2
<1>2. CASE e \notin Cell
  <2> DEFINE S == {part[c] : c \in Adjacent(e)}
  <2>1. Partition(e) = Min(S)
    BY <1>2 DEF Partition
  <2>2. \E c \in Cell : ToSet(Nodes(e)) \subseteq ToSet(Nodes(c))
    BY <1>2, FacetsAssumption
  <2>3. S \subseteq Rank /\ S # {}
    BY <2>2 DEF Adjacent
  <2>4. Min(S) \in S
    <3> HIDE DEF S
    <3>1. QED
      BY <2>3, LeastRank
  <2>5. \E c \in Adjacent(e) : Partition(e) = part[c]
    BY <2>1, <2>4
  <2>6. \E c \in Cell : ToSet(Nodes(e)) \subseteq ToSet(Nodes(c)) /\ part[c] = Partition(e)
    BY <2>5 DEF Adjacent
  <2>7. Partition(e) \notin GhostParts(e)
    BY <1>2 DEF GhostParts
  <2>8. Partition(e) \in Rank
    BY <2>1, <2>3, <2>4
  <2>9. QED
    BY <2>6, <2>7, <2>8
<1>3. QED
  BY <1>1, <1>2

(* Every node is local somewhere; a rank has it as a ghost where it is     *)
(* local to another one, and only there.                                   *)
LEMMA NodesAreShared ==
  ASSUME part \in [Cell -> Rank], NEW n \in Node
  PROVE  /\ Locals(n) # {}
         /\ \A p, q \in Locals(n) : p # q => p \in Ghosts(n)
         /\ \A p \in Ghosts(n) : \E q \in Locals(n) : q # p
<1>1. Locals(n) # {}
  <2>1. PICK e \in Element : n \in ToSet(Nodes(e))
    BY DEF Node
  <2>2. Partition(e) \in Locals(n)
    BY <2>1, PartOfElement DEF Locals
  <2>3. QED
    BY <2>2
<1>2. ASSUME NEW p \in Locals(n), NEW q \in Locals(n), p # q
      PROVE  p \in Ghosts(n)
  <2>1. ASSUME NEW r \in Locals(n)
        PROVE  \E c \in Cell : n \in ToSet(Nodes(c)) /\ part[c] = r
    <3>1. PICK e \in Element : n \in ToSet(Nodes(e)) /\ Partition(e) = r
      BY DEF Locals
    <3>2. PICK c \in Cell : ToSet(Nodes(e)) \subseteq ToSet(Nodes(c)) /\ part[c] = Partition(e)
      BY PartOfElement
    <3>3. QED
      BY <3>1, <3>2
  <2>2. PICK c \in Cell : n \in ToSet(Nodes(c)) /\ part[c] = p
    BY <2>1
  <2>3. PICK d \in Cell : n \in ToSet(Nodes(d)) /\ part[d] = q
    BY <2>1
  <2>4. Tweaked(n) \in TweakedNodes(d) \cap TweakedNodes(c)
    BY <2>2, <2>3 DEF TweakedNodes
  <2>5. p \in CellGhostParts(d)
    BY <1>2, <2>2, <2>3, <2>4 DEF CellGhostParts
  <2>6. d \in Element /\ p \in GhostParts(d)
    BY <2>5 DEF GhostParts, Cell
  <2>7. p \in Rank
    BY DEF Locals
  <2>8. QED
    BY <2>3, <2>6, <2>7 DEF Ghosts
<1>3. ASSUME NEW p \in Ghosts(n)
      PROVE  \E q \in Locals(n) : q # p
  <2>1. PICK e \in Element : n \in ToSet(Nodes(e)) /\ p \in GhostParts(e)
    BY DEF Ghosts
  <2>2. Partition(e) \in Rank /\ Partition(e) \notin GhostParts(e)
    BY PartOfElement
  <2>3. QED
    BY <2>1, <2>2 DEF Locals
<1>4. QED
  BY <1>1, <1>2, <1>3

(* The owner of a node is one of the ranks it is local to, and the only    *)
(* one that has it as normal or as master; the others have it as slave if  *)
(* it is local to them, and all of them know the owner.                    *)
LEMMA OwnersOwn ==
  ASSUME part \in [Cell -> Rank], NEW n \in Node
  PROVE  /\ OwnerOf[n] \in Locals(n)
         /\ \A p \in Rank : n \in AllNodes[p] =>
              /\ FlagsOf[p][n] \in {"normal", "master"} <=> p = OwnerOf[n]
              /\ p # OwnerOf[n] => PranksOf[p][n] = OwnerOf[n]
              /\ p # OwnerOf[n] /\ p \in Locals(n) => FlagsOf[p][n] = "slave"
<1>1. /\ Locals(n) # {} /\ Locals(n) \subseteq Rank
      /\ \A p, q \in Locals(n) : p # q => p \in Ghosts(n)
      /\ \A p \in Ghosts(n) : \E q \in Locals(n) : q # p
  BY NodesAreShared DEF Locals
<1>2. ASSUME NEW p \in Rank, n \in AllNodes[p]
      PROVE  SaidOf[p][n] = IF p \notin Locals(n) THEN "pure_ghost"
                            ELSE IF Locals(n) = {p} THEN "normal" ELSE "master"
  <2>1. p \in Locals(n) \cup Ghosts(n)
    BY <1>2, NodesByElements
  <2>2. SaidOf[p][n] = IF p \notin Ghosts(n) THEN "normal"
                       ELSE IF p \in Locals(n) THEN "master" ELSE "pure_ghost"
    BY <1>2, FlagsAreSaid, NodesByElements
  <2>3. CASE p \notin Locals(n)
    BY <2>1, <2>2, <2>3
  <2>4. CASE Locals(n) = {p}
    <3>1. p \notin Ghosts(n)
      BY <1>1, <2>4
    <3>2. QED
      BY <2>2, <2>4, <3>1
  <2>5. CASE p \in Locals(n) /\ Locals(n) # {p}
    <3>1. p \in Ghosts(n)
      BY <1>1, <2>5
    <3>2. QED
      BY <2>2, <2>5, <3>1
  <2>6. QED
    BY <2>3, <2>4, <2>5
<1>3. \A p \in Locals(n) : n \in AllNodes[p] /\ p \in Rank
  BY <1>1, NodesByElements
<1>4. OwnerOf[n] = IF SayingOf(n, "master") # {} THEN Min(SayingOf(n, "master"))
                   ELSE Max(SayingOf(n, "normal"))
  BY DEF OwnerOf
<1>5. OwnerOf[n] \in Locals(n)
  <2>1. CASE \E p : Locals(n) = {p}
    <3>1. PICK p : Locals(n) = {p}
      BY <2>1
    <3>2. SayingOf(n, "master") = {}
      BY <1>2, <3>1 DEF SayingOf
    <3>3. SayingOf(n, "normal") = {p}
      BY <1>2, <1>3, <3>1 DEF SayingOf
    <3>4. p \in Nat
      BY <1>1, <3>1, Numbers
    <3>5. Max({p}) = p
      BY <3>4 DEF Max
    <3>6. QED
      BY <1>4, <3>1, <3>2, <3>3, <3>5
  <2>2. CASE ~ \E p : Locals(n) = {p}
    <3>1. SayingOf(n, "master") = Locals(n)
      BY <1>1, <1>2, <1>3, <2>2 DEF SayingOf
    <3>2. QED
      BY <1>1, <1>4, <3>1, LeastRank
  <2>3. QED
    BY <2>1, <2>2
<1>6. ASSUME NEW p \in Rank, n \in AllNodes[p]
      PROVE  /\ FlagsOf[p][n] \in {"normal", "master"} <=> p = OwnerOf[n]
             /\ p # OwnerOf[n] => PranksOf[p][n] = OwnerOf[n]
             /\ p # OwnerOf[n] /\ p \in Locals(n) => FlagsOf[p][n] = "slave"
  <2>1. /\ FlagsOf[p][n] =
             IF SaidOf[p][n] = "master" /\ OwnerOf[n] # p THEN "slave" ELSE SaidOf[p][n]
        /\ PranksOf[p][n] = IF FlagsOf[p][n] = "normal" THEN p ELSE OwnerOf[n]
    BY <1>6, FlagsAreSaid
  <2>2. CASE p = OwnerOf[n]
    BY <1>2, <1>5, <1>6, <2>1, <2>2
  <2>3. CASE p # OwnerOf[n]
    <3>1. Locals(n) # {p}
      BY <1>5, <2>3
    <3>2. QED
      BY <1>2, <1>6, <2>1, <2>3, <3>1
  <2>4. QED
    BY <2>2, <2>3
<1>7. QED
  BY <1>5, <1>6

(* There are finitely many nodes, and they are numbers.                    *)
LEMMA NodesAreNumbers == IsFiniteSet(Node) /\ Node \subseteq Nat
<1>1. ASSUME NEW e \in Element
      PROVE  ToSet(Nodes(e)) \subseteq Nat
  <2>1. PICK t \in ToSet(Types) : e \in ToSet(All(t))
    BY DEF Element
  <2>2. t \in DOMAIN Dim
    <3>1. Types \in Seq(DOMAIN Dim)
      BY TypesAssumption
    <3>2. QED
      BY <2>1, <3>1, SetOfSeq
  <2>3. PICK s : s = Connectivity[t]
    OBVIOUS
  <2>4. s \in Seq(Seq(Nat))
    BY <2>2, <2>3, TypesAssumption
  <2>5. PICK i \in DOMAIN s : e = <<t, i>>
    BY <2>1, <2>3 DEF All, ToSet
  <2>6. Nodes(e) = s[i] /\ s[i] \in Seq(Nat)
    BY <2>3, <2>4, <2>5 DEF Nodes
  <2>7. QED
    BY <2>6, SetOfSeq
<1>2. QED
  BY <1>1, TypesAssumption DEF Node

(* A sorted list has all of its set: each number is at the place that the  *)
(* lower ones leave it.                                                    *)
LEMMA SortedHasAll ==
  ASSUME NEW S, IsFiniteSet(S), S \subseteq Nat
  PROVE  /\ \E X : Sorted(S) \in Seq(X)
         /\ \A n \in S : n \in ToSet(Sorted(S))
<1> DEFINE Lower(n) == {m \in S : m < n}
<1>1. \A n : IsFiniteSet(Lower(n)) /\ Cardinality(Lower(n)) \in Nat
  BY FS_Subset, FS_CardinalityType
<1>2. Cardinality(S) \in Nat
  BY FS_CardinalityType
<1>3. PICK list : list = Sorted(S)
  OBVIOUS
<1>4. list = [i \in 1 .. Cardinality(S) |-> CHOOSE n \in S : Cardinality(Lower(n)) = i - 1]
  BY <1>3 DEF Sorted
<1>5. list \in Seq({list[i] : i \in 1 .. Cardinality(S)})
  <2>1. list \in [1 .. Cardinality(S) -> {list[i] : i \in 1 .. Cardinality(S)}]
    BY <1>4
  <2>2. QED
    BY <1>2, <2>1
<1>6. ASSUME NEW m \in S, NEW n \in S, m < n
      PROVE  Cardinality(Lower(m)) # Cardinality(Lower(n))
  <2>1. Lower(m) \in SUBSET Lower(n) /\ m \in Lower(n) /\ m \notin Lower(m)
    <3>1. m \in Nat /\ n \in Nat /\ m < n
      BY <1>6
    <3>2. \A x \in S : x \in Nat /\ (x < m => x < n)
      BY <3>1
    <3>3. Lower(m) \in SUBSET Lower(n)
      BY <3>2
    <3>4. m \in Lower(n)
      BY <3>1
    <3>5. m \notin Lower(m)
      BY <3>1
    <3>6. QED
      BY <3>3, <3>4, <3>5
  <2> HIDE DEF Lower
  <2>2. QED
    BY <1>1, <2>1, FS_Subset
<1>7. ASSUME NEW n \in S
      PROVE  n \in ToSet(list)
  <2>1. PICK i : i = Cardinality(Lower(n)) + 1
    OBVIOUS
  <2>2. Lower(n) \in SUBSET (S \ {n}) /\ IsFiniteSet(S \ {n})
        /\ Cardinality(S \ {n}) = Cardinality(S) - 1
    BY FS_RemoveElement
  <2>3. Cardinality(Lower(n)) <= Cardinality(S) - 1
    <3> HIDE DEF Lower
    <3>1. QED
      BY <2>2, FS_Subset
  <2>4. i \in 1 .. Cardinality(S) /\ Cardinality(Lower(n)) = i - 1
    BY <1>1, <1>2, <2>1, <2>3
  <2> HIDE DEF Lower
  <2>5. list[i] = CHOOSE x \in S : Cardinality(Lower(x)) = i - 1
    BY <1>4, <2>4
  <2>6. list[i] \in S /\ Cardinality(Lower(list[i])) = i - 1
    BY <2>4, <2>5
  <2>7. list[i] = n
    <3>1. list[i] \in Nat /\ n \in Nat
      BY <2>6
    <3>2. ~ (list[i] < n) /\ ~ (n < list[i])
      BY <1>6, <2>4, <2>6
    <3>3. QED
      BY <3>1, <3>2
  <2>8. i \in DOMAIN list
    BY <1>4, <2>4
  <2>9. QED
    BY <2>7, <2>8 DEF ToSet
<1>8. QED
  BY <1>3, <1>5, <1>7

(* What a rank knows of a node when all are through.                       *)
LEMMA DoneNodes ==
  ASSUME IInv, NEW p \in Rank, Done(p), NEW n \in Node
  PROVE  /\ n \in nodes_global_ids[p] <=> n \in AllNodes[p] \/ (mesh.periodic /\ n \in MissingOf[p])
         /\ n \in nodes_global_ids[p] =>
              /\ nodes_flags[p][n] = IF n \in AllNodes[p] THEN FlagsOf[p][n] ELSE "pure_ghost"
              /\ n \notin AllNodes[p] => nodes_prank[p][n] = OwnerOf[n]
              /\ n \in AllNodes[p] /\ FlagsOf[p][n] \notin {"normal", "master"} =>
                   nodes_prank[p][n] = PranksOf[p][n]
<1>1. /\ nodes_global_ids[p] =
           IF mesh.periodic THEN AllNodes[p] \cup MissingOf[p] ELSE AllNodes[p]
      /\ nodes_flags[p] = IF mesh.periodic THEN FlagsWithMissing[p] ELSE FlagsOf[p]
      /\ nodes_prank[p] = IF mesh.periodic THEN KeptWithMissing[p] ELSE KeptPranks[p]
  BY DoneValues
<1>2. MissingOf[p] \cap AllNodes[p] = {}
  BY DEF MissingOf
<1>3. n \in nodes_global_ids[p] <=> n \in AllNodes[p] \/ (mesh.periodic /\ n \in MissingOf[p])
  <2>1. CASE mesh.periodic
    BY <1>1, <2>1
  <2>2. CASE ~mesh.periodic
    BY <1>1, <2>2
  <2>3. QED
    BY <2>1, <2>2
<1>4. n \in nodes_global_ids[p] =>
        nodes_flags[p][n] = IF n \in AllNodes[p] THEN FlagsOf[p][n] ELSE "pure_ghost"
  BY <1>1 DEF FlagsWithMissing
<1>5. n \in nodes_global_ids[p] /\ n \notin AllNodes[p] => nodes_prank[p][n] = OwnerOf[n]
  BY <1>1 DEF KeptWithMissing
<1>6. n \in AllNodes[p] /\ FlagsOf[p][n] \notin {"normal", "master"} =>
        nodes_prank[p][n] = PranksOf[p][n]
  <2> SUFFICES ASSUME n \in AllNodes[p], FlagsOf[p][n] \notin {"normal", "master"}
               PROVE  nodes_prank[p][n] = PranksOf[p][n]
    OBVIOUS
  <2>1. n \in Foreign(FlagsOf[p])
    BY FlagsAreSaid DEF Foreign
  <2>2. QED
    BY <1>1, <1>2, <2>1 DEF KeptWithMissing, KeptPranks
<1>7. QED
  BY <1>3, <1>4, <1>5, <1>6

(* A slave is received from its owner.                                     *)
LEMMA SlavesAreReceived ==
  ASSUME IInv, NEW p \in Rank, Done(p), NEW q \in Rank, NEW n \in AllNodes[p],
         FlagsOf[p][n] = "slave", PranksOf[p][n] = q
  PROVE  n \in ToSet(recv_nodes[p][q])
<1> DEFINE mine == {m \in DOMAIN FlagsOf[p] : FlagsOf[p][m] = "slave" /\ PranksOf[p][m] = q}
           missed == {m \in MissingOf[p] : OwnerOf[m] = q}
<1>1. RecvOf[p][q] = Sorted(mine) /\ n \in mine
  BY FlagsAreSaid DEF RecvOf, RecvNodes
<1>2. RecvWithMissing[p][q] = Sorted(mine) \o Sorted(missed)
  BY <1>1 DEF RecvWithMissing
<1>3. mine \subseteq Node
  BY FlagsAreSaid, NodesAreNodes
<1>4. missed \subseteq Node
  BY PeriodicAssumption DEF MissingOf, PairsOf
<1>5. /\ IsFiniteSet(mine) /\ mine \subseteq Nat
      /\ IsFiniteSet(missed) /\ missed \subseteq Nat
  <2> HIDE DEF mine, missed
  <2>1. QED
    BY <1>3, <1>4, NodesAreNumbers, FS_Subset
<1> HIDE DEF mine, missed
<1>6. n \in ToSet(Sorted(mine))
  BY <1>1, <1>5, SortedHasAll
<1>7. n \in ToSet(Sorted(mine) \o Sorted(missed))
  <2>1. PICK s, r : s = Sorted(mine) /\ r = Sorted(missed)
    OBVIOUS
  <2>2. PICK X : s \in Seq(X)
    BY <1>5, <2>1, SortedHasAll
  <2>3. PICK Y : r \in Seq(Y)
    BY <1>5, <2>1, SortedHasAll
  <2>4. s \in Seq(X \cup Y) /\ r \in Seq(X \cup Y)
    BY <2>2, <2>3
  <2>5. ToSet(s \o r) = ToSet(s) \cup ToSet(r)
    BY <2>4, SetOfConcat
  <2>6. QED
    BY <1>6, <2>1, <2>5
<1>8. recv_nodes[p] = IF mesh.periodic THEN RecvWithMissing[p] ELSE RecvOf[p]
  BY DoneValues
<1>9. QED
  BY <1>1, <1>2, <1>6, <1>7, <1>8

(* The owner of a node is known to all that have it, who has it as slave   *)
(* receives it, and the masters of periodic slaves are where those are.    *)
THEOREM OwnersAreKnown == FairSpec => []NodesHaveOneOwner
<1>1. ASSUME IInv
      PROVE  NodesHaveOneOwner
  <2> DEFINE Has(n) == {p \in Rank : n \in nodes_global_ids[p]}
             Owns(n) == {p \in Has(n) : nodes_flags[p][n] \in {"normal", "master"}}
             IsLocal(p, n) == \E t \in ToSet(Types) : \E e \in ToSet(elements[p][t].local) :
                                n \in ToSet(Nodes(e))
  <2> SUFFICES ASSUME \A p \in Rank : Done(p), NEW n \in Node
               PROVE  /\ Cardinality(Owns(n)) = 1
                      /\ \A p \in Has(n) \ Owns(n) :
                           /\ nodes_prank[p][n] \in Owns(n)
                           /\ IsLocal(p, n) =>
                                /\ nodes_flags[p][n] = "slave"
                                /\ n \in ToSet(recv_nodes[p][nodes_prank[p][n]])
                      /\ mesh.periodic /\ n \in DOMAIN PeriodicMaster =>
                           \A p \in Has(n) : PeriodicMaster[n] \in nodes_global_ids[p]
    BY DEF NodesHaveOneOwner
  <2>1. part \in [Cell -> Rank]
    BY <1>1, PartitionsAssumption DEF IInv, ShapeInv
  <2>2. PICK o : o = OwnerOf[n]
    OBVIOUS
  <2>3. /\ o \in Locals(n)
        /\ \A p \in Rank : n \in AllNodes[p] =>
             /\ FlagsOf[p][n] \in {"normal", "master"} <=> p = o
             /\ p # o => PranksOf[p][n] = o
             /\ p # o /\ p \in Locals(n) => FlagsOf[p][n] = "slave"
    BY <2>1, <2>2, OwnersOwn
  <2>4. o \in Rank /\ n \in AllNodes[o]
    BY <2>3, NodesByElements DEF Locals
  <2>5. Owns(n) = {o}
    <3>1. ASSUME NEW p \in Rank
          PROVE  p \in Owns(n) <=> p = o
      <4>1. Done(p)
        OBVIOUS
      <4>2. /\ n \in AllNodes[p] => n \in nodes_global_ids[p]
            /\ n \in nodes_global_ids[p] =>
                 nodes_flags[p][n] = IF n \in AllNodes[p] THEN FlagsOf[p][n] ELSE "pure_ghost"
        BY <1>1, <4>1, DoneNodes
      <4>3. n \in AllNodes[p] => (FlagsOf[p][n] \in {"normal", "master"} <=> p = o)
        BY <2>3
      <4>4. QED
        BY <2>4, <4>2, <4>3
    <3>2. QED
      BY <2>4, <3>1
  <2>6. Cardinality(Owns(n)) = 1
    <3> HIDE DEF Owns
    <3>1. QED
      BY <2>5, FS_Singleton
  <2>7. ASSUME NEW p \in Has(n), p # o
        PROVE  nodes_prank[p][n] = o
    BY <1>1, <2>2, <2>3, <2>7, DoneNodes
  <2>8. ASSUME NEW p \in Has(n), p # o, IsLocal(p, n)
        PROVE  nodes_flags[p][n] = "slave" /\ n \in ToSet(recv_nodes[p][o])
    <3>1. PICK t \in ToSet(Types) : \E e \in ToSet(elements[p][t].local) : n \in ToSet(Nodes(e))
      BY <2>8
    <3>2. PICK e \in ToSet(elements[p][t].local) : n \in ToSet(Nodes(e))
      BY <3>1
    <3>3. elements[p][t].local = LocalOf[p][t]
      BY <1>1, DoneGhosts
    <3>4. ToSet(LocalOf[p][t]) = {f \in ToSet(All(t)) : Partition(f) = p}
      BY RankLists
    <3>5. e \in Element /\ Partition(e) = p
      BY <3>2, <3>3, <3>4 DEF Element
    <3>6. p \in Locals(n) /\ n \in AllNodes[p]
      BY <3>2, <3>5, NodesByElements DEF Locals
    <3>7. FlagsOf[p][n] = "slave" /\ PranksOf[p][n] = o
      BY <2>3, <2>8, <3>6
    <3>8. nodes_flags[p][n] = "slave"
      BY <1>1, <3>6, <3>7, DoneNodes
    <3>9. n \in ToSet(recv_nodes[p][o])
      BY <1>1, <2>4, <3>6, <3>7, SlavesAreReceived
    <3>10. QED
      BY <3>8, <3>9
  <2>9. ASSUME mesh.periodic, n \in DOMAIN PeriodicMaster, NEW p \in Has(n)
        PROVE  PeriodicMaster[n] \in nodes_global_ids[p]
    <3>1. n \notin MissingOf[p]
      BY <2>9, PeriodicAssumption DEF MissingOf, PairsOf
    <3>2. n \in AllNodes[p]
      BY <1>1, <3>1, DoneNodes
    <3>3. <<n, PeriodicMaster[n]>> \in PairsOf[p]
      BY <2>9, <3>2 DEF PairsOf
    <3>4. PeriodicMaster[n] \in AllNodes[p] \cup MissingOf[p]
      BY <3>3 DEF MissingOf
    <3>5. PeriodicMaster[n] \in Node
      BY <2>9, PeriodicAssumption
    <3>6. PICK m \in Node : m = PeriodicMaster[n]
      BY <3>5
    <3>7. m \in nodes_global_ids[p] <=> m \in AllNodes[p] \/ (mesh.periodic /\ m \in MissingOf[p])
      BY <1>1, DoneNodes
    <3>8. QED
      BY <2>9, <3>4, <3>6, <3>7
  <2>10. ASSUME NEW p \in Has(n) \ Owns(n)
         PROVE  /\ nodes_prank[p][n] \in Owns(n)
                /\ IsLocal(p, n) =>
                     /\ nodes_flags[p][n] = "slave"
                     /\ n \in ToSet(recv_nodes[p][nodes_prank[p][n]])
    <3>1. p \in Has(n) /\ p # o
      BY <2>5, <2>10
    <3>2. nodes_prank[p][n] = o
      BY <2>7, <3>1
    <3>3. QED
      BY <2>5, <2>8, <3>1, <3>2
  <2>11. QED
    BY <2>6, <2>9, <2>10
<1>2. QED
  BY <1>1, Invariance, PTL
==============================================================================
