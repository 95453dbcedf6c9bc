----------------------------- MODULE GlobalIds -----------------------------
(***************************************************************************)
(* GlobalIdsUpdater::updateGlobalIDs, after cohesive elements have been    *)
(* inserted on facets and nodes were doubled: the ranks number the new     *)
(* nodes they own and then tell each other the numbers in two one-shot     *)
(* communications over the schemes of the cohesive elements, a reduction   *)
(* from ghosts to their owners (slaveReductionOnce) and back from the      *)
(* owners to the ghosts (synchronizeOnce).  No rank knows who needs which  *)
(* id: an id reaches a rank with the cohesive elements they have in        *)
(* common, if need be by way of a third rank.                              *)
(*                                                                         *)
(* A site is a node of the mesh before the insertion.  The elements around *)
(* it fall into parts that no facet without a cohesive element connects,   *)
(* and each part gets a node of its own: one keeps the old node, the       *)
(* others get new ones.                                                    *)
(***************************************************************************)
EXTENDS Integers, FiniteSets, FiniteSetsExt

CONSTANTS
  NbProc,     \* the number of ranks
  NbSites,    \* the number of nodes before the insertion
  Element,    \* the elements of the mesh
  Host,       \* Host[e]: the rank that e is not a ghost on
  At,         \* At[e]: the sites e touches
  Facet       \* the facets between two elements, each the set of the two

Rank == 0 .. (NbProc - 1)
Site == 0 .. (NbSites - 1)
None == -1

ASSUME NbProcAssumption == NbProc \in Nat \ {0} /\ NbSites \in Nat
ASSUME MeshAssumption ==
  /\ IsFiniteSet(Element)
  /\ Host \in [Element -> Rank]
  /\ At \in [Element -> SUBSET Site]
  /\ \A s \in Site : \E e \in Element : s \in At[e]
  /\ Facet \subseteq SUBSET Element
  /\ \A f \in Facet : Cardinality(f) = 2

VARIABLES
  cohesive,   \* the facets that have got a cohesive element
  nodes,      \* the nodes after the insertion, each a site and a part of it
  old,        \* those of them that were there before
  pc,         \* pc[p]: where rank p is in updateGlobalIDs
  phase,      \* phase[p]: the communication p is in or before, as this->reduce tells
  gid,        \* gid[p][n]: nodes_global_ids
  prank,      \* prank[p][n]: nodes_prank
  mail,       \* messages sent and not received
  waitFor     \* waitFor[p]: the ranks p has a posted receive for

mesh == <<cohesive, nodes, old>>
vars == <<mesh, pc, phase, gid, prank, mail, waitFor>>

Around(s) == {e \in Element : s \in At[e]}
Corners(f) == {s \in Site : \A e \in f : s \in At[e]}

(* The parts of a site when the facets of a set are cut.                   *)
Parts(s, cut) ==
  LET Whole(A) == \A f \in Facet \ cut :
                    s \in Corners(f) /\ f \cap A # {} => f \subseteq A
      wholes == {A \in SUBSET Around(s) : A # {} /\ Whole(A)}
  IN {A \in wholes : \A B \in wholes : B \subseteq A => B = A}

(* The elements around a site hang together by their facets, none of them  *)
(* only by the site: a new node comes from a facet that was cut.           *)
ASSUME ConnectedAssumption == \A s \in Site : Parts(s, {}) = {Around(s)}

(* The connectivity of the cohesive element on f: nodes of both sides.     *)
Connectivity(f) == {n \in nodes : n[1] \in Corners(f) /\ n[2] \cap f # {}}

(* Of the ranks that claim a node or a facet the lowest gets it.           *)
Master(s) == Min({Host[e] : e \in Around(s)})
Owner(f) == Min({Host[e] : e \in f})

(* The flags of a node, those of the old node of its site.  To its pure    *)
(* ghosts a rank neither gives nor takes ids, and they have none here.     *)
LocalOrMaster(p, n) == Master(n[1]) = p
PureGhost(p, n) == \A e \in Around(n[1]) : Host[e] # p
Slave(p, n) == ~LocalOrMaster(p, n) /\ ~PureGhost(p, n)

(* The cohesive elements of rank p, ghosts included: mesh_facets has the   *)
(* facets that are not made of pure ghosts alone.                          *)
Seen(p) == {f \in cohesive : \E s \in Corners(f) : \E e \in Around(s) : Host[e] = p}

(* The new nodes that p numbers.                                           *)
Mine(p) == {n \in nodes \ old : LocalOrMaster(p, n)}

NbNew(ranks) == MapThenSumSet(LAMBDA p : Cardinality(Mine(p)), ranks)

Init ==
  /\ cohesive \in SUBSET Facet
  /\ nodes = UNION {{s} \X Parts(s, cohesive) : s \in Site}
  /\ old \in {N \in SUBSET nodes : \A s \in Site : Cardinality({n \in N : n[1] = s}) = 1}
  /\ pc = [p \in Rank |-> "begin"]
  /\ phase = [p \in Rank |-> "reduce"]
  /\ gid = [p \in Rank |-> [n \in nodes |->
              IF n \in old /\ ~PureGhost(p, n) THEN n[1] ELSE None]]
  /\ prank = [p \in Rank |-> [n \in nodes |->
                IF n \in old /\ Slave(p, n) THEN Master(n[1]) ELSE None]]
  /\ mail = {}
  /\ waitFor = [p \in Rank |-> {}]

(* A definition named after a mistake is a wrong version of the next one.  *)
-----------------------------------------------------------------------------
(* updateGlobalIDsLocally up to the reduction of the counts.               *)
CountNodes(p) ==
  /\ pc[p] = "begin"
  /\ pc' = [pc EXCEPT ![p] = "allReduce"]
  /\ UNCHANGED <<mesh, phase, gid, prank, mail, waitFor>>

(* allReduce returns when everyone is in it.  Without new nodes there is   *)
(* nothing to number.                                                      *)
CountsReduced(p) ==
  /\ pc[p] = "allReduce"
  /\ \A q \in Rank : pc[q] # "begin"
  /\ pc' = [pc EXCEPT ![p] = IF NbNew(Rank) = 0 THEN "post" ELSE "scan"]
  /\ UNCHANGED <<mesh, phase, gid, prank, mail, waitFor>>

(* The mistakes of numbering without the scan, and with an inclusive one.  *)
ScanForgotten(p) == NbSites
InclusiveScan(p) == NbSites + NbNew({q \in Rank : q <= p})

(* The first number of rank p: exclusiveScan plus the old nodes.           *)
StartingIndex(p) == NbSites + NbNew({q \in Rank : q < p})

(* exclusiveScan returns when all lower ranks are in it, and the own nodes *)
(* get consecutive numbers, in the order of the local mesh.                *)
NumberNodes(p) ==
  /\ pc[p] = "scan"
  /\ \A q \in Rank : q < p => pc[q] \notin {"begin", "allReduce"}
  /\ LET first == StartingIndex(p)
         numbers == first .. (first + Cardinality(Mine(p)) - 1)
     IN \E id \in [Mine(p) -> numbers] :
          /\ \A m, n \in Mine(p) : id[m] = id[n] => m = n
          /\ gid' = [gid EXCEPT ![p] =
               [n \in nodes |-> IF n \in Mine(p) THEN id[n] ELSE @[n]]]
  /\ pc' = [pc EXCEPT ![p] = "post"]
  /\ UNCHANGED <<mesh, phase, prank, mail, waitFor>>

(* The elements of a scheme, sent by src and received by dst: its ghosts   *)
(* that dst owns in the reduction, its own that dst sees afterwards.       *)
Scheme(ph, src, dst) ==
  {f \in Seen(src) \cap Seen(dst) : Owner(f) = IF ph = "reduce" THEN dst ELSE src}

(* The mistake of passing on own ids only, in the second phase too.        *)
OwnIdsOnly(p, ph, n) == LocalOrMaster(p, n)

(* The nodes whose id packData writes, the others' is -1.                  *)
PacksId(p, ph, n) ==
  \/ ph = "reduce" /\ LocalOrMaster(p, n)
  \/ ph # "reduce" /\ ~PureGhost(p, n)

(* packData: an id and a rank for every node of the elements.              *)
PackData(p, ph, elements) ==
  [n \in UNION {Connectivity(f) : f \in elements} |->
     [index |-> IF PacksId(p, ph, n) THEN gid[p][n] ELSE None,
      node_prank |-> IF LocalOrMaster(p, n) THEN p ELSE prank[p][n]]]

(* The ranks that p posts a receive for: its scheme is not empty.          *)
Sources(p, ph) == {q \in Rank \ {p} : Scheme(ph, q, p) # {}}

(* The mistake of sending ids only to those p has one for.                 *)
ThoseToInform(p, ph) ==
  {q \in Rank \ {p} : \E f \in Scheme(ph, p, q) :
     \E n \in Connectivity(f) : PacksId(p, ph, n)}

(* The ranks that p sends to, whatever it knows: getNbData depends on the  *)
(* elements alone.                                                         *)
Destinations(p, ph) == {q \in Rank \ {p} : Scheme(ph, p, q) # {}}

(* communicateOnce posts its receives and sends.                           *)
PostComm(p) ==
  LET ph == phase[p]
  IN /\ pc[p] = "post"
     /\ waitFor' = [waitFor EXCEPT ![p] = Sources(p, ph)]
     /\ mail' = mail \cup
          {[src |-> p, dst |-> q, phase |-> ph, data |-> PackData(p, ph, Scheme(ph, p, q))] :
             q \in Destinations(p, ph)}
     /\ pc' = [pc EXCEPT ![p] = "wait"]
     /\ UNCHANGED <<mesh, phase, gid, prank>>

(* The mistake of taking -1 for an id.                                     *)
TakesAny(p, m, n) == n \in DOMAIN m.data /\ Slave(p, n)

(* The nodes that unpackData gives the id and rank it has read.            *)
Takes(p, m, n) == n \in DOMAIN m.data /\ Slave(p, n) /\ m.data[n].index # None

(* waitAny has found a message of this communication: unpackData.          *)
UnpackData(p, m) ==
  /\ pc[p] = "wait"
  /\ m.dst = p /\ m.phase = phase[p] /\ m.src \in waitFor[p]
  /\ gid' = [gid EXCEPT ![p] =
       [n \in nodes |-> IF Takes(p, m, n) THEN m.data[n].index ELSE @[n]]]
  /\ prank' = [prank EXCEPT ![p] =
       [n \in nodes |-> IF Takes(p, m, n) THEN m.data[n].node_prank ELSE @[n]]]
  /\ mail' = mail \ {m}
  /\ waitFor' = [waitFor EXCEPT ![p] = @ \ {m.src}]
  /\ UNCHANGED <<mesh, pc, phase>>

(* communicateOnce returns: to the second communication, or for good.      *)
EndComm(p) ==
  /\ pc[p] = "wait"
  /\ waitFor[p] = {}
  /\ IF phase[p] = "reduce"
     THEN /\ phase' = [phase EXCEPT ![p] = "synchronize"]
          /\ pc' = [pc EXCEPT ![p] = "post"]
     ELSE /\ pc' = [pc EXCEPT ![p] = "done"]
          /\ UNCHANGED phase
  /\ UNCHANGED <<mesh, gid, prank, mail, waitFor>>

Unsent(p) == {m \in mail : m.src = p}

(* waitAll(send_requests): the sends have been received, or MPI has        *)
(* buffered those that have not.                                           *)
SendsReceived(p) == Unsent(p) = {} /\ EndComm(p)
SendsBuffered(p) == Unsent(p) # {} /\ EndComm(p)

Terminated == (\A p \in Rank : pc[p] = "done") /\ UNCHANGED vars

RankStep(p) ==
  \/ CountNodes(p)
  \/ CountsReduced(p)
  \/ NumberNodes(p)
  \/ PostComm(p)
  \/ \E m \in mail : UnpackData(p, m)
  \/ SendsReceived(p)

Next ==
  \/ \E p \in Rank : RankStep(p)
  \/ \E p \in Rank : SendsBuffered(p)
  \/ Terminated

(* Every rank goes on, and what is sent and awaited is received.  That MPI *)
(* buffers a message is not promised.                                      *)
FairSpec == Init /\ [][Next]_vars /\ \A p \in Rank : WF_vars(RankStep(p))
-----------------------------------------------------------------------------
Id == 0 .. (Cardinality(nodes) - 1)

TypeOK ==
  /\ pc \in [Rank -> {"begin", "allReduce", "scan", "post", "wait", "done"}]
  /\ phase \in [Rank -> {"reduce", "synchronize"}]
  /\ gid \in [Rank -> [nodes -> Id \cup {None}]]
  /\ prank \in [Rank -> [nodes -> Rank \cup {None}]]
  /\ \A m \in mail :
       /\ m.src \in Rank /\ m.dst \in Rank \ {m.src}
       /\ m.phase \in {"reduce", "synchronize"} /\ DOMAIN m.data \subseteq nodes
       /\ \A n \in DOMAIN m.data :
            m.data[n].index \in Id \cup {None} /\ m.data[n].node_prank \in Rank \cup {None}
  /\ waitFor \in [Rank -> SUBSET Rank]

(* No two nodes have the same global id, on whatever ranks they are, and   *)
(* no node has two: what updateGlobalIDs is for.                           *)
IdsUnique ==
  \A p, q \in Rank, m, n \in nodes :
    gid[p][m] # None /\ gid[q][n] # None => (gid[p][m] = gid[q][n] <=> m = n)

(* When updateGlobalIDs returns on a rank, every node that is not a pure   *)
(* ghost there has an id, and the slaves know their master, whoever passed *)
(* it on: NodeSynchronizer::onNodesAdded sends the ids to these ranks.     *)
IdsComplete ==
  \A p \in Rank : pc[p] = "done" => \A n \in nodes :
    /\ ~PureGhost(p, n) => gid[p][n] # None
    /\ Slave(p, n) => prank[p][n] = Master(n[1])

(* A rank never replaces an id or a master it knows: the assertions of     *)
(* unpackData, whatever the order of the messages.                         *)
KeepsIds ==
  [][\A p \in Rank, n \in nodes :
       /\ gid[p][n] # None => gid'[p][n] = gid[p][n]
       /\ prank[p][n] # None => prank'[p][n] = prank[p][n]]_vars

(* The update ends on every rank, with every message received.             *)
UpdateEnds == <>[](mail = {} /\ \A p \in Rank : pc[p] = "done")
=============================================================================
