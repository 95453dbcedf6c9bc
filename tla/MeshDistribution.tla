-------------------------- MODULE MeshDistribution --------------------------
(***************************************************************************)
(* distributeMeshCentralized: the root has read and partitioned the mesh,  *)
(* and gives each rank its elements, those of others that touch them as    *)
(* ghosts, and what it needs to know of its nodes.  Element types come one *)
(* after the other until a message that says there are no more; then, from *)
(* the nodes each rank has found in its elements, the root decides which   *)
(* rank is the master of a node, and who exchanges it with whom.           *)
(*                                                                         *)
(* Elements and nodes keep the names they have in the whole mesh, and the  *)
(* order in which a rank numbers its nodes is left out.                    *)
(***************************************************************************)
EXTENDS Naturals, FiniteSets, SequencesExt, FiniteSetsExt

CONSTANTS
  NbProc,         \* the number of ranks
  Types,          \* the element types of the mesh, in its order
  Dim,            \* Dim[t]: the dimension of the elements of a type
  Dimension,      \* that of the mesh
  Connectivity,   \* Connectivity[t]: the nodes of each element of a type
  PeriodicMaster, \* the master of each periodic slave, if the mesh is periodic
  Mesh,           \* the meshes of a run: periodic or not, with tags or not
  Partitions      \* the partitions of the cells the tool may have found

Rank == 0 .. (NbProc - 1)
root == 0
Slave == Rank \ {root}
All(t) == [i \in DOMAIN Connectivity[t] |-> <<t, i>>]
Nodes(e) == Connectivity[e[1]][e[2]]
Element == UNION {ToSet(All(t)) : t \in ToSet(Types)}
Cell == {e \in Element : Dim[e[1]] = Dimension}
Node == UNION {ToSet(Nodes(e)) : e \in Element}

(* With one rank the code returns at once.                                 *)
ASSUME NbProcAssumption == NbProc \in Nat /\ NbProc > 1
ASSUME TypesAssumption ==
  /\ Types \in Seq(DOMAIN Dim)
  /\ Connectivity = [t \in DOMAIN Dim |-> Connectivity[t]]
  /\ \A t \in DOMAIN Dim : Connectivity[t] \in Seq(Seq(Nat))
  /\ IsFiniteSet(Node)
(* A master of periodic slaves is no slave itself.                         *)
ASSUME PeriodicAssumption ==
  \A n \in DOMAIN PeriodicMaster : PeriodicMaster[n] \in Node \ DOMAIN PeriodicMaster
(* Elements of a lower dimension are facets of cells.                      *)
ASSUME FacetsAssumption ==
  \A f \in Element \ Cell :
    /\ Dim[f[1]] = Dimension - 1
    /\ \E c \in Cell : ToSet(Nodes(f)) \subseteq ToSet(Nodes(c))
ASSUME PartitionsAssumption == Partitions \subseteq [Cell -> Rank]
ASSUME MeshAssumption == Mesh \subseteq [periodic : BOOLEAN, tags : BOOLEAN]

VARIABLES
  mesh,       \* [periodic, tags]: is it periodic, and are there data on it
  part,       \* part[c]: the partition of a cell
  pc,         \* pc[p]: where p is
  proc,       \* the rank the loop of the root is at
  message_count,
  sending,    \* sending[p]: p waits for its sends
  mail,       \* mail[p][q]: messages from p to q, in order
  elements,   \* elements[p][t]: local and ghost elements of p
  nodes_global_ids,     \* nodes_global_ids[p]: the nodes of p
  send_elements, recv_elements,   \* the schemes of the element synchronizer
  nodes_flags,          \* nodes_flags[p][n]
  nodes_prank,          \* nodes_prank[p][n]: the owner, where it is not p
  send_nodes, recv_nodes,         \* the schemes of the node synchronizer
  periodic_slave_master,          \* what p knows of periodic nodes
  nodes_per_proc,       \* on the root: the nodes of each rank
  nodes_flags_per_proc, \* on the root: what each rank says of its nodes
  nodes_pranks,         \* on the root: the owner of each node
  proc_missings         \* on the root: the nodes ranks miss

meshData == <<elements, nodes_global_ids>>
elementSchemes == <<send_elements, recv_elements>>
nodeData == <<nodes_flags, nodes_prank, periodic_slave_master>>
nodeSchemes == <<send_nodes, recv_nodes>>
masterInfo == <<nodes_per_proc, nodes_flags_per_proc, nodes_pranks, proc_missings>>
vars == <<mesh, part, pc, proc, message_count, sending, mail, meshData, elementSchemes,
          nodeData, nodeSchemes, masterInfo>>

Pairs(x) == [p \in Rank |-> [q \in Rank |-> x]]

Init ==
  /\ mesh \in Mesh
  /\ part \in Partitions
  /\ pc = [p \in Rank |-> "sizes"]
  /\ proc = 1
  /\ message_count = [p \in Rank |-> 0]
  /\ sending = [p \in Rank |-> FALSE]
  /\ mail = Pairs(<<>>)
  /\ elements = [p \in Rank |-> [t \in ToSet(Types) |-> [local |-> <<>>, ghost |-> <<>>]]]
  /\ nodes_global_ids = [p \in Rank |-> {}]
  /\ send_elements = Pairs(<<>>) /\ recv_elements = Pairs(<<>>)
  /\ nodes_flags = [p \in Rank |-> <<>>]
  /\ nodes_prank = [p \in Rank |-> <<>>]
  /\ send_nodes = Pairs(<<>>) /\ recv_nodes = Pairs(<<>>)
  /\ periodic_slave_master = [p \in Rank |-> {}]
  /\ nodes_per_proc = [p \in Rank |-> {}]
  /\ nodes_flags_per_proc = [p \in Rank |-> <<>>]
  /\ nodes_pranks = <<>>
  /\ proc_missings = [p \in Rank |-> {}]

(* A definition named after a mistake is a wrong version of the next one.  *)
-----------------------------------------------------------------------------
(* The partitioning: tweakConnectivity and fillPartitionInformation.       *)
Tweaked(n) == IF mesh.periodic /\ n \in DOMAIN PeriodicMaster THEN PeriodicMaster[n] ELSE n
TweakedNodes(c) == {Tweaked(n) : n \in ToSet(Nodes(c))}

CellGhostParts(c) ==
  {part[d] : d \in {d \in Cell : TweakedNodes(c) \cap TweakedNodes(d) # {}}} \ {part[c]}

Adjacent(f) == {c \in Cell : ToSet(Nodes(f)) \subseteq ToSet(Nodes(c))}

Partition(e) == IF e \in Cell THEN part[e] ELSE Min({part[c] : c \in Adjacent(e)})

GhostParts(e) ==
  IF e \in Cell THEN CellGhostParts(e)
  ELSE LET first == CHOOSE c \in Adjacent(e) : part[c] = Partition(e)
       IN ({part[c] : c \in Adjacent(e)} \cup CellGhostParts(first)) \ {Partition(e)}

(* The members of a list that are in S, in its order.                      *)
Among(list, S) ==
  LET kept[n \in 0 .. Len(list)] ==
        IF n = 0 THEN <<>>
        ELSE IF list[n] \in S THEN Append(kept[n - 1], list[n]) ELSE kept[n - 1]
  IN kept[Len(list)]

LocalElements(p, t) == Among(All(t), {e \in ToSet(All(t)) : Partition(e) = p})
GhostElements(p, t) == Among(All(t), {e \in ToSet(All(t)) : p \in GhostParts(e)})
-----------------------------------------------------------------------------
(* Tags: the kind has four bits, so that two kinds are other ones again.   *)
Kind == [sizes |-> 1, connectivity |-> 2, partitions |-> 4, nb_nodes |-> 5, nodes |-> 6,
         coordinates |-> 7, nodes_type |-> 8, mesh_data |-> 9, element_group |-> 10,
         node_group |-> 11, periodic_slaves |-> 17, periodic_nodes |-> 18]

GenTag(p, count, kind) == <<p, count % 256, Kind[kind] % 16>>
Broadcast == <<>>

Message(tag, data) == [tag |-> tag, data |-> data]

(* Messages with one tag between two ranks are received in order.          *)
Places(p, q, tag) == {i \in DOMAIN mail[q][p] : mail[q][p][i].tag = tag}
Arrived(p, q, tag) == Places(p, q, tag) # {}
First(p, q, tag) == Min(Places(p, q, tag))
Data(p, q, tag) == mail[q][p][First(p, q, tag)].data
Took(p, q, tag) == [mail EXCEPT ![q][p] = RemoveAt(@, First(p, q, tag))]

Sent(p, q, m) == [mail EXCEPT ![p][q] = Append(@, m)]

(* Messages from the root to each slave.                                   *)
SentToAll(messages) ==
  [mail EXCEPT ![root] = [q \in Rank |-> IF q = root THEN <<>> ELSE @[q] \o messages[q]]]

Goto(p, place) == pc' = [pc EXCEPT ![p] = place]
Waits(p) == sending' = [sending EXCEPT ![p] = TRUE]
At(p, place) == pc[p] = place /\ ~sending[p]

(* A send, a broadcast or waitAll ends when what was sent is received, or  *)
(* when MPI has buffered it.                                               *)
Unreceived(p) == \E q \in Rank : mail[p][q] # <<>>

EndSend(p) ==
  /\ sending[p]
  /\ sending' = [sending EXCEPT ![p] = FALSE]
  /\ UNCHANGED <<mesh, part, pc, proc, message_count, mail, meshData, elementSchemes,
                 nodeData, nodeSchemes, masterInfo>>

SendReceived(p) == ~Unreceived(p) /\ EndSend(p)
SendBuffered(p) == Unreceived(p) /\ EndSend(p)

(* A loop of the root over the other ranks.                                *)
NextProc(place, after) ==
  IF proc < NbProc - 1
  THEN proc' = proc + 1 /\ Goto(root, place)
  ELSE proc' = 1 /\ Goto(root, after)
-----------------------------------------------------------------------------
Count(p) == message_count[p]
Type(p) == Types[Count(p) + 1]
NoMoreTypes == Count(root) = Len(Types)

(* The constructor of MasterElementInfoPerProc sends the sizes to one rank *)
(* after the other; no type is the stop message.                           *)
MasterSizes ==
  /\ At(root, "sizes")
  /\ mail' = Sent(root, proc, Message(GenTag(root, Count(root), "sizes"), ~NoMoreTypes))
  /\ Waits(root)
  /\ NextProc("sizes", IF NoMoreTypes THEN "nbNodes" ELSE "connectivities")
  /\ UNCHANGED <<mesh, part, message_count, meshData, elementSchemes, nodeData, nodeSchemes,
                 masterInfo>>

SlaveSizes(p) ==
  LET tag == GenTag(root, Count(p), "sizes")
  IN /\ p \in Slave /\ At(p, "sizes") /\ Arrived(p, root, tag)
     /\ mail' = Took(p, root, tag)
     /\ Goto(p, IF Data(p, root, tag) THEN "connectivities" ELSE "nbNodes")
     /\ UNCHANGED <<mesh, part, proc, message_count, sending, meshData, elementSchemes,
                    nodeData, nodeSchemes, masterInfo>>

(* The elements of a type, and with renumberMeshNodes their nodes.         *)
SetElements(p, local, ghost) ==
  /\ elements' = [elements EXCEPT ![p][Type(p)] = [local |-> local, ghost |-> ghost]]
  /\ nodes_global_ids' = [nodes_global_ids EXCEPT ![p] =
                            @ \cup UNION {ToSet(Nodes(e)) : e \in ToSet(local \o ghost)}]

MasterConnectivities ==
  LET t == Type(root)
      Conn(q) == [local |-> LocalElements(q, t), ghost |-> GhostElements(q, t)]
  IN /\ At(root, "connectivities")
     /\ mail' = SentToAll([q \in Slave |->
                  <<Message(GenTag(root, Count(root), "connectivity"), Conn(q))>>])
     /\ SetElements(root, Conn(root).local, Conn(root).ghost)
     /\ Waits(root) /\ Goto(root, "partitions")
     /\ UNCHANGED <<mesh, part, proc, message_count, elementSchemes, nodeData, nodeSchemes,
                    masterInfo>>

SlaveConnectivities(p) ==
  LET tag == GenTag(root, Count(p), "connectivity")
      conn == Data(p, root, tag)
  IN /\ p \in Slave /\ At(p, "connectivities") /\ Arrived(p, root, tag)
     /\ mail' = Took(p, root, tag)
     /\ SetElements(p, conn.local, conn.ghost)
     /\ Goto(p, "partitions")
     /\ UNCHANGED <<mesh, part, proc, message_count, sending, elementSchemes, nodeData,
                    nodeSchemes, masterInfo>>

(* For the local elements of p the ranks that have them as ghosts, for its *)
(* ghosts the ranks they are local to.                                     *)
PartitionInfo(p, t) ==
  [to |-> [e \in ToSet(LocalElements(p, t)) |-> GhostParts(e)],
   from |-> [e \in ToSet(GhostElements(p, t)) |-> Partition(e)]]

SendScheme(p, q, info) ==
  send_elements[p][q] \o
    Among(elements[p][Type(p)].local, {e \in DOMAIN info.to : q \in info.to[e]})

(* The mistake of assigning what has to be appended.                       *)
RecvSchemeOfType(p, q, info) ==
  Among(elements[p][Type(p)].ghost, {e \in DOMAIN info.from : info.from[e] = q})

RecvScheme(p, q, info) ==
  recv_elements[p][q] \o
    Among(elements[p][Type(p)].ghost, {e \in DOMAIN info.from : info.from[e] = q})

(* fillCommunicationScheme, for cells.                                     *)
FillElementSchemes(p, info) ==
  IF Dim[Type(p)] = Dimension
  THEN /\ send_elements' =
            [send_elements EXCEPT ![p] = [q \in Rank |-> SendScheme(p, q, info)]]
       /\ recv_elements' =
            [recv_elements EXCEPT ![p] = [q \in Rank |-> RecvScheme(p, q, info)]]
  ELSE UNCHANGED elementSchemes

MasterPartitions ==
  /\ At(root, "partitions")
  /\ mail' = SentToAll([q \in Slave |-> <<Message(GenTag(root, Count(root), "partitions"),
                                            PartitionInfo(q, Type(root)))>>])
  /\ FillElementSchemes(root, PartitionInfo(root, Type(root)))
  /\ Waits(root) /\ Goto(root, IF mesh.tags THEN "tagNames" ELSE "groups")
  /\ UNCHANGED <<mesh, part, proc, message_count, meshData, nodeData, nodeSchemes, masterInfo>>

SlavePartitions(p) ==
  LET tag == GenTag(root, Count(p), "partitions")
  IN /\ p \in Slave /\ At(p, "partitions") /\ Arrived(p, root, tag)
     /\ mail' = Took(p, root, tag)
     /\ FillElementSchemes(p, Data(p, root, tag))
     /\ Goto(p, IF mesh.tags THEN "tagNames" ELSE "groups")
     /\ UNCHANGED <<mesh, part, proc, message_count, sending, meshData, nodeData, nodeSchemes,
                    masterInfo>>

(* What is sent to all and changes nothing the model has: names, values    *)
(* and groups.  At each place its tag for rank q, and what comes next.     *)
Information(p, q) ==
  [tagNames |-> [tag |-> Broadcast, next |-> "tags"],
   tags |-> [tag |-> GenTag(root, Count(p), "mesh_data"), next |-> "groups"],
   groups |-> [tag |-> GenTag(root, q, "element_group"), next |-> "sizes"],
   nbNodes |-> [tag |-> Broadcast, next |-> "nodes"],
   nodeGroups |-> [tag |-> GenTag(root, q, "node_group"), next |-> "isPeriodic"],
   isPeriodic |-> [tag |-> Broadcast,
                   next |-> IF mesh.periodic THEN "periodicPairs" ELSE "nodeTagNames"],
   nodeTagNames |-> [tag |-> Broadcast, next |-> IF mesh.tags THEN "nodeTags" ELSE "done"]]

(* The mistake of counting the types on the slaves only.                   *)
SlavesCount(p) == IF p # root /\ pc[p] = "groups" THEN Count(p) + 1 ELSE Count(p)

NextCount(p) == IF pc[p] = "groups" THEN Count(p) + 1 ELSE Count(p)

Inform(p) ==
  /\ pc[p] \in DOMAIN Information(p, p) /\ ~sending[p]
  /\ Goto(p, Information(p, p)[pc[p]].next)
  /\ message_count' = [message_count EXCEPT ![p] = NextCount(p)]
  /\ UNCHANGED <<mesh, part, proc, meshData, elementSchemes, nodeData, nodeSchemes,
                 masterInfo>>

MasterInforms ==
  /\ Inform(root)
  /\ mail' = SentToAll([q \in Slave |-> <<Message(Information(root, q)[pc[root]].tag, <<>>)>>])
  /\ Waits(root)

SlaveIsInformed(p) ==
  /\ p \in Slave
  /\ Inform(p)
  /\ LET tag == Information(p, p)[pc[p]].tag
     IN Arrived(p, root, tag) /\ mail' = Took(p, root, tag)
  /\ UNCHANGED sending
-----------------------------------------------------------------------------
(* synchronizeNodes: the number of nodes, their list, and coordinates back *)
SlaveNodes(p) ==
  LET sends == CASE pc[p] = "nodes" -> [tag |-> GenTag(p, 0, "nb_nodes"), next |-> "nodeList",
                                        data |-> Cardinality(nodes_global_ids[p])]
                 [] pc[p] = "nodeList" -> [tag |-> GenTag(p, 0, "nodes"), next |-> "coordinates",
                                           data |-> nodes_global_ids[p]]
  IN /\ p \in Slave /\ pc[p] \in {"nodes", "nodeList"} /\ ~sending[p]
     /\ mail' = Sent(p, root, Message(sends.tag, sends.data))
     /\ Waits(p) /\ Goto(p, sends.next)
     /\ UNCHANGED <<mesh, part, proc, message_count, meshData, elementSchemes, nodeData,
                    nodeSchemes, masterInfo>>

SlaveCoordinates(p) ==
  LET tag == GenTag(root, 0, "coordinates")
  IN /\ p \in Slave /\ At(p, "coordinates") /\ Arrived(p, root, tag)
     /\ mail' = Took(p, root, tag)
     /\ Goto(p, "flags")
     /\ UNCHANGED <<mesh, part, proc, message_count, sending, meshData, elementSchemes,
                    nodeData, nodeSchemes, masterInfo>>

MasterNbNodes ==
  LET tag == GenTag(proc, 0, "nb_nodes")
  IN /\ At(root, "nodes") /\ Arrived(root, proc, tag)
     /\ mail' = Took(root, proc, tag)
     /\ Goto(root, "nodeList")
     /\ UNCHANGED <<mesh, part, proc, message_count, sending, meshData, elementSchemes,
                    nodeData, nodeSchemes, masterInfo>>

MasterNodes ==
  LET tag == GenTag(proc, 0, "nodes")
  IN /\ At(root, "nodeList") /\ Arrived(root, proc, tag)
     /\ mail' = [Took(root, proc, tag) EXCEPT ![root][proc] =
                   Append(@, Message(GenTag(root, 0, "coordinates"), <<>>))]
     /\ nodes_per_proc' = [nodes_per_proc EXCEPT
                             ![root] = nodes_global_ids[root],
                             ![proc] = Data(root, proc, tag)]
     /\ Waits(root) /\ NextProc("nodes", "flags")
     /\ UNCHANGED <<mesh, part, message_count, meshData, elementSchemes, nodeData, nodeSchemes,
                    nodes_flags_per_proc, nodes_pranks, proc_missings>>

(* fillNodesType: by the elements a node is in.                            *)
NodesType(p) ==
  LET In(kind) == UNION {UNION {ToSet(Nodes(e)) : e \in ToSet(elements[p][t][kind])} :
                           t \in ToSet(Types)}
  IN [n \in nodes_global_ids[p] |->
        IF n \notin In("ghost") THEN "normal"
        ELSE IF n \in In("local") THEN "master" ELSE "pure_ghost"]

SlaveFlags(p) ==
  /\ p \in Slave /\ At(p, "flags")
  /\ nodes_flags' = [nodes_flags EXCEPT ![p] = NodesType(p)]
  /\ mail' = Sent(p, root, Message(GenTag(p, 0, "nodes_type"), NodesType(p)))
  /\ Waits(p) /\ Goto(p, "types")
  /\ UNCHANGED <<mesh, part, proc, message_count, meshData, elementSchemes, nodes_prank,
                 periodic_slave_master, nodeSchemes, masterInfo>>

MasterFlags ==
  LET tag == GenTag(proc, 0, "nodes_type")
  IN /\ At(root, "flags") /\ Arrived(root, proc, tag)
     /\ mail' = Took(root, proc, tag)
     /\ nodes_flags' = [nodes_flags EXCEPT ![root] = NodesType(root)]
     /\ nodes_flags_per_proc' = [nodes_flags_per_proc EXCEPT
                                   ![root] = NodesType(root),
                                   ![proc] = Data(root, proc, tag)]
     /\ NextProc("flags", "types")
     /\ UNCHANGED <<mesh, part, message_count, sending, meshData, elementSchemes, nodes_prank,
                    periodic_slave_master, nodeSchemes, nodes_per_proc, nodes_pranks,
                    proc_missings>>

(* The ranks that say of n what flag says.                                 *)
Saying(n, flag) ==
  {p \in Rank : n \in nodes_per_proc[p] /\ nodes_flags_per_proc[p][n] = flag}

(* The first rank that says it is master is, and else the last to which    *)
(* the node is local.                                                      *)
PrankOf(n) ==
  IF Saying(n, "master") # {} THEN Min(Saying(n, "master")) ELSE Max(Saying(n, "normal"))

(* The mistake of leaving the others to be masters too.                    *)
FlagAsSaid(p, n) == nodes_flags_per_proc[p][n]

SharedFlag(p, n) ==
  IF nodes_flags_per_proc[p][n] = "master" /\ PrankOf(n) # p THEN "slave"
  ELSE nodes_flags_per_proc[p][n]

(* What rank p is told: flags, owners, and what it has to send to whom.    *)
TypeInfo(p) ==
  [flags |-> [n \in nodes_per_proc[p] |-> SharedFlag(p, n)],
   prank |-> [n \in nodes_per_proc[p] |->
                IF SharedFlag(p, n) = "normal" THEN p ELSE PrankOf(n)],
   to |-> [q \in Rank |-> {n \in Node : q \in Saying(n, "master") \ {p} /\ PrankOf(n) = p}]]

(* The nodes whose owner is kept: neither local nor master here.           *)
Foreign(flags) == {n \in DOMAIN flags : flags[n] \notin {"normal", "master"}}

SetPranks(p, flags, prank) ==
  nodes_prank' = [nodes_prank EXCEPT ![p] = [n \in Foreign(flags) |-> prank[n]]]

(* The numbers of a set in order.                                          *)
Sorted(S) ==
  [i \in 1 .. Cardinality(S) |-> CHOOSE n \in S : Cardinality({m \in S : m < n}) = i - 1]

(* A receive scheme is in the order of global numbers, as a send scheme.   *)
RecvNodes(p, flags, owner, q) ==
  Sorted({n \in DOMAIN flags : flags[n] = "slave" /\ owner[n] = q})

(* fillCommunicationScheme.                                                *)
FillNodeSchemes(p, flags, owner, to) ==
  /\ send_nodes' = [send_nodes EXCEPT ![p] = [q \in Rank |-> Sorted(to[q])]]
  /\ recv_nodes' = [recv_nodes EXCEPT ![p] = [q \in Rank |-> RecvNodes(p, flags, owner, q)]]

(* synchronizeTypes of the root, from the flags of all.                    *)
MasterTypes ==
  LET own == TypeInfo(root)
  IN /\ At(root, "types")
     /\ mail' = SentToAll([q \in Slave |->
                  <<Message(GenTag(root, 0, "nodes_type"), TypeInfo(q).flags),
                    Message(GenTag(root, 2, "nodes_type"), TypeInfo(q).prank),
                    Message(GenTag(root, 1, "nodes_type"), TypeInfo(q).to)>>])
     /\ nodes_pranks' = [n \in Node |-> PrankOf(n)]
     /\ nodes_flags' = [nodes_flags EXCEPT ![root] = own.flags]
     /\ SetPranks(root, own.flags, own.prank)
     /\ FillNodeSchemes(root, own.flags, own.prank, own.to)
     /\ Waits(root) /\ Goto(root, "nodeGroups")
     /\ UNCHANGED <<mesh, part, proc, message_count, meshData, elementSchemes,
                    periodic_slave_master, nodes_per_proc, nodes_flags_per_proc, proc_missings>>

SlaveTypes(p) ==
  LET tag == GenTag(root, 0, "nodes_type")
  IN /\ p \in Slave /\ At(p, "types") /\ Arrived(p, root, tag)
     /\ mail' = Took(p, root, tag)
     /\ nodes_flags' = [nodes_flags EXCEPT ![p] = Data(p, root, tag)]
     /\ Goto(p, "pranks")
     /\ UNCHANGED <<mesh, part, proc, message_count, sending, meshData, elementSchemes,
                    nodes_prank, periodic_slave_master, nodeSchemes, masterInfo>>

SlavePranks(p) ==
  LET tag == GenTag(root, 2, "nodes_type")
  IN /\ p \in Slave /\ At(p, "pranks") /\ Arrived(p, root, tag)
     /\ mail' = Took(p, root, tag)
     /\ SetPranks(p, nodes_flags[p], Data(p, root, tag))
     /\ Goto(p, "masterInfo")
     /\ UNCHANGED <<mesh, part, proc, message_count, sending, meshData, elementSchemes,
                    nodes_flags, periodic_slave_master, nodeSchemes, masterInfo>>

SlaveMasterInfo(p) ==
  LET tag == GenTag(root, 1, "nodes_type")
  IN /\ p \in Slave /\ At(p, "masterInfo") /\ Arrived(p, root, tag)
     /\ mail' = Took(p, root, tag)
     /\ FillNodeSchemes(p, nodes_flags[p], nodes_prank[p], Data(p, root, tag))
     /\ Goto(p, "nodeGroups")
     /\ UNCHANGED <<mesh, part, proc, message_count, sending, meshData, elementSchemes,
                    nodeData, masterInfo>>
-----------------------------------------------------------------------------
(* synchronizePeriodicity: each rank is told the masters of its periodic   *)
(* slaves, adds those it has not as pure ghosts, and asks for them.        *)
PeriodicInfo(p) ==
  {<<n, PeriodicMaster[n]>> : n \in nodes_per_proc[p] \cap DOMAIN PeriodicMaster}

Missing(p, pairs) == {pair[2] : pair \in pairs} \ nodes_global_ids[p]

FillPeriodicPairs(p, pairs) ==
  LET missing == Missing(p, pairs)
  IN /\ nodes_global_ids' = [nodes_global_ids EXCEPT ![p] = @ \cup missing]
     /\ nodes_flags' = [nodes_flags EXCEPT ![p] =
                          [n \in DOMAIN @ \cup missing |->
                             IF n \in DOMAIN @ THEN @[n] ELSE "pure_ghost"]]
     /\ periodic_slave_master' = [periodic_slave_master EXCEPT ![p] = pairs]

MasterPeriodicPairs ==
  /\ At(root, "periodicPairs")
  /\ mail' = SentToAll([q \in Slave |->
               <<Message(GenTag(root, q, "periodic_slaves"), PeriodicInfo(q))>>])
  /\ FillPeriodicPairs(root, PeriodicInfo(root))
  /\ proc_missings' = [proc_missings EXCEPT ![root] = Missing(root, PeriodicInfo(root))]
  /\ Goto(root, "missing")
  /\ UNCHANGED <<mesh, part, proc, message_count, sending, elements, elementSchemes,
                 nodes_prank, nodeSchemes, nodes_per_proc, nodes_flags_per_proc, nodes_pranks>>

SlavePeriodicPairs(p) ==
  LET tag == GenTag(root, p, "periodic_slaves")
      pairs == Data(p, root, tag)
  IN /\ p \in Slave /\ At(p, "periodicPairs") /\ Arrived(p, root, tag)
     /\ mail' = [Took(p, root, tag) EXCEPT ![p][root] =
                   Append(@, Message(GenTag(p, 0, "periodic_nodes"), Missing(p, pairs)))]
     /\ FillPeriodicPairs(p, pairs)
     /\ Waits(p) /\ Goto(p, "periodicNodes")
     /\ UNCHANGED <<mesh, part, proc, message_count, elements, elementSchemes, nodes_prank,
                    nodeSchemes, masterInfo>>

MasterMissing ==
  LET tag == GenTag(proc, 0, "periodic_nodes")
  IN /\ At(root, "missing") /\ Arrived(root, proc, tag)
     /\ mail' = Took(root, proc, tag)
     /\ proc_missings' = [proc_missings EXCEPT ![proc] = Data(root, proc, tag)]
     /\ NextProc("missing", "periodicNodes")
     /\ UNCHANGED <<mesh, part, message_count, sending, meshData, elementSchemes, nodeData,
                    nodeSchemes, nodes_per_proc, nodes_flags_per_proc, nodes_pranks>>

(* The mistake of telling the rank that misses nodes only.                 *)
OwnerNotTold(p) ==
  [prank |-> [n \in proc_missings[p] |-> nodes_pranks[n]], to |-> [q \in Rank |-> {}]]

(* What p is told: the owners of the nodes it misses, and which of its own *)
(* it has to send to whom.  Both sides add them in the order of the list   *)
(* the rank has sent.                                                      *)
MissingInfo(p) ==
  [prank |-> [n \in proc_missings[p] |-> nodes_pranks[n]],
   to |-> [q \in Rank |-> {n \in proc_missings[q] : nodes_pranks[n] = p}]]

ReceiveMissingPeriodic(p, info) ==
  /\ nodes_prank' = [nodes_prank EXCEPT ![p] =
                       [n \in DOMAIN @ \cup DOMAIN info.prank |->
                          IF n \in DOMAIN info.prank THEN info.prank[n] ELSE @[n]]]
  /\ recv_nodes' = [recv_nodes EXCEPT ![p] =
                      [q \in Rank |->
                         @[q] \o Sorted({n \in DOMAIN info.prank : info.prank[n] = q})]]
  /\ send_nodes' = [send_nodes EXCEPT ![p] = [q \in Rank |-> @[q] \o Sorted(info.to[q])]]

MasterPeriodicNodes ==
  /\ At(root, "periodicNodes")
  /\ mail' = SentToAll([q \in Slave |->
               <<Message(GenTag(q, 1, "periodic_nodes"), MissingInfo(q))>>])
  /\ ReceiveMissingPeriodic(root, MissingInfo(root))
  /\ Waits(root) /\ Goto(root, "nodeTagNames")
  /\ UNCHANGED <<mesh, part, proc, message_count, meshData, elementSchemes, nodes_flags,
                 periodic_slave_master, masterInfo>>

SlavePeriodicNodes(p) ==
  LET tag == GenTag(p, 1, "periodic_nodes")
  IN /\ p \in Slave /\ At(p, "periodicNodes") /\ Arrived(p, root, tag)
     /\ mail' = Took(p, root, tag)
     /\ ReceiveMissingPeriodic(p, Data(p, root, tag))
     /\ Goto(p, "nodeTagNames")
     /\ UNCHANGED <<mesh, part, proc, message_count, sending, meshData, elementSchemes,
                    nodes_flags, periodic_slave_master, masterInfo>>

(* synchronizeTags: a value for each node the root knows the rank to have; *)
(* the rank unpacks one for each node it has.                              *)
MasterNodeTags ==
  /\ At(root, "nodeTags")
  /\ mail' = SentToAll([q \in Slave |->
               <<Message(GenTag(root, 0, "mesh_data"), Cardinality(nodes_per_proc[q]))>>])
  /\ Waits(root) /\ Goto(root, "done")
  /\ UNCHANGED <<mesh, part, proc, message_count, meshData, elementSchemes, nodeData,
                 nodeSchemes, masterInfo>>

SlaveNodeTags(p) ==
  LET tag == GenTag(root, 0, "mesh_data")
  IN /\ p \in Slave /\ At(p, "nodeTags") /\ Arrived(p, root, tag)
     /\ mail' = Took(p, root, tag)
     /\ Goto(p, "done")
     /\ UNCHANGED <<mesh, part, proc, message_count, sending, meshData, elementSchemes,
                    nodeData, nodeSchemes, masterInfo>>

Done(p) == At(p, "done")
Terminated == (\A p \in Rank : Done(p)) /\ UNCHANGED vars

MasterStep ==
  \/ MasterSizes \/ MasterConnectivities \/ MasterPartitions \/ MasterInforms
  \/ MasterNbNodes \/ MasterNodes \/ MasterFlags \/ MasterTypes
  \/ MasterPeriodicPairs \/ MasterMissing \/ MasterPeriodicNodes \/ MasterNodeTags
  \/ SendReceived(root)

SlaveStep(p) ==
  \/ SlaveSizes(p) \/ SlaveConnectivities(p) \/ SlavePartitions(p) \/ SlaveIsInformed(p)
  \/ SlaveNodes(p) \/ SlaveCoordinates(p) \/ SlaveFlags(p)
  \/ SlaveTypes(p) \/ SlavePranks(p) \/ SlaveMasterInfo(p)
  \/ SlavePeriodicPairs(p) \/ SlavePeriodicNodes(p) \/ SlaveNodeTags(p)
  \/ SendReceived(p)

Next ==
  \/ MasterStep
  \/ \E p \in Slave : SlaveStep(p)
  \/ \E p \in Rank : SendBuffered(p)
  \/ Terminated

(* Ranks go on as far as they can; that MPI buffers a message is not       *)
(* promised.                                                               *)
FairSpec ==
  Init /\ [][Next]_vars /\ WF_vars(MasterStep) /\ \A p \in Slave : WF_vars(SlaveStep(p))
-----------------------------------------------------------------------------
(* Two ranks that are through the distribution have schemes that say the   *)
(* same: what the one sends is, element by element, what the other expects *)
(* as its ghosts.                                                          *)
ElementSchemesMirror ==
  \A p, q \in Rank : Done(p) /\ Done(q) =>
    /\ send_elements[p][q] = recv_elements[q][p]
    /\ ToSet(recv_elements[q][p]) =
         UNION {{e \in ToSet(elements[q][t].ghost) : part[e] = p} :
                  t \in {u \in ToSet(Types) : Dim[u] = Dimension}}

(* The same for nodes, by their global numbers.                            *)
NodeSchemesMirror ==
  \A p, q \in Rank : Done(p) /\ Done(q) => send_nodes[p][q] = recv_nodes[q][p]

(* Once all are through, every node is local or master on one rank, each   *)
(* other rank that has it knows which, has it as a slave if it has an      *)
(* element of its own at it and receives it then, and a rank that has a    *)
(* periodic slave has its master too.                                      *)
NodesHaveOneOwner ==
  (\A p \in Rank : Done(p)) =>
    \A n \in Node :
      LET Has == {p \in Rank : n \in nodes_global_ids[p]}
          Owns == {p \in Has : nodes_flags[p][n] \in {"normal", "master"}}
      IN /\ Cardinality(Owns) = 1
         /\ \A p \in Has \ Owns :
              /\ nodes_prank[p][n] \in Owns
              /\ (\E t \in ToSet(Types) : \E e \in ToSet(elements[p][t].local) :
                    n \in ToSet(Nodes(e))) =>
                   /\ nodes_flags[p][n] = "slave"
                   /\ n \in ToSet(recv_nodes[p][nodes_prank[p][n]])
         /\ mesh.periodic /\ n \in DOMAIN PeriodicMaster =>
              \A p \in Has : PeriodicMaster[n] \in nodes_global_ids[p]

(* Every rank gets through the distribution, though nothing is buffered.   *)
DistributionEnds == <>(\A p \in Rank : Done(p))

(* A rank unpacks no more values of nodes than were packed for it: the     *)
(* assertion "Unpacking too much data" of the buffer.                      *)
NodalDataFit ==
  \A p \in Slave :
    LET tag == GenTag(root, 0, "mesh_data")
    IN At(p, "nodeTags") /\ Arrived(p, root, tag) =>
         Cardinality(nodes_global_ids[p]) <= Data(p, root, tag)
=============================================================================
