--------------------------- MODULE GatherScatter ---------------------------
(***************************************************************************)
(* gather and scatter of a synchronizer: the values of all nodes or dofs   *)
(* are collected on the root, as a direct solver needs them, and what it   *)
(* has computed is distributed again.  Who holds which entity is exchanged *)
(* only when a rank says that its entities have changed since it was last  *)
(* exchanged; every operation begins by asking all ranks.                  *)
(*                                                                         *)
(* Values go in the order of lists that both sides keep for later, and     *)
(* MPI tags are the same in every operation: the lists and the question    *)
(* at the beginning are all that keeps values apart.                       *)
(***************************************************************************)
EXTENDS Naturals, FiniteSets, SequencesExt

CONSTANTS
  NbProc,     \* the number of ranks
  Entity,     \* the entities, on all ranks
  Owner,      \* Owner[e]: the rank that is local or master for e
  Local,      \* Local[v][p]: the entities of p in version v of the mesh, in order
  Gid,        \* Gid[v][e]: the number of e among all ranks, in version v
  MaxOps      \* bound: the number of operations of the program

Rank == 0 .. (NbProc - 1)
root == 0
Slave == Rank \ {root}
Version == DOMAIN Local

ASSUME NbProcAssumption == NbProc \in Nat \ {0}
ASSUME MeshAssumption ==
  /\ Owner \in [Entity -> Rank]
  /\ \A v \in Version, p \in Rank : Local[v][p] \in Seq(Entity)
  /\ \A v \in Version : Gid[v] \in [Entity -> Nat]
  /\ 1 \in Version

(* The owner of an entity has it, and no two entities of a mesh have the   *)
(* same number.                                                            *)
ASSUME EntitiesAssumption ==
  \A v \in Version, p, q \in Rank : \A d \in ToSet(Local[v][p]), e \in ToSet(Local[v][q]) :
    /\ d \in ToSet(Local[v][Owner[d]])
    /\ Gid[v][d] = Gid[v][e] => d = e

VARIABLES
  program,    \* the operations the ranks make, found on the way
  at,         \* at[p]: the operations p has finished
  pc,         \* pc[p]: where p is in the next one
  mesh,       \* mesh[p]: the version of the mesh on p
  entities_changed,
  vote,       \* vote[p]: what p has given to each reduction so far
  entities_from_root,      \* per rank, its own entities in the order of its mesh
  master_receive_entities, \* on the root, the numbers of each rank's entities
  gathered,   \* on the root, the gathered values by number
  array,      \* array[p]: the scattered values of p's entities
  mail,       \* messages sent and not received
  waitFor     \* waitFor[p]: the ranks p expects a message of

lists == <<entities_from_root, master_receive_entities>>
values == <<gathered, array>>
messages == <<mail, waitFor>>
vars == <<program, at, pc, mesh, entities_changed, vote, lists, values, messages>>

Nothing == <<>>

Init ==
  /\ program = <<>>
  /\ at = [p \in Rank |-> 0]
  /\ pc = [p \in Rank |-> "ready"]
  /\ mesh = [p \in Rank |-> 1]
  /\ entities_changed = [p \in Rank |-> TRUE]
  /\ vote = [p \in Rank |-> <<>>]
  /\ entities_from_root = [p \in Rank |-> <<>>]
  /\ master_receive_entities = [p \in Rank |-> <<>>]
  /\ gathered = [g \in {} |-> Nothing]
  /\ array = [p \in Rank |-> [e \in {} |-> Nothing]]
  /\ mail = {}
  /\ waitFor = [p \in Rank |-> {}]

(* A definition named after a mistake is a wrong version of the next one.  *)
-----------------------------------------------------------------------------
Holds(p) == ToSet(Local[mesh[p]][p])

Operation(p) == program[at[p] + 1]

Message(p, q, kind, data) ==
  [src |-> p, dst |-> q, kind |-> kind, op |-> at[p], data |-> data]

(* MPI matches messages of one kind between two ranks in order.            *)
Matches(m, q, kind) ==
  /\ m \in mail /\ m.dst = q /\ m.kind = kind
  /\ \A n \in mail : n.src = m.src /\ n.dst = q /\ n.kind = kind => m.op <= n.op

Goto(p, place) == pc' = [pc EXCEPT ![p] = place]

Finish(p) == Goto(p, "ready") /\ at' = [at EXCEPT ![p] = @ + 1]

(* Rank p makes the next operation of the program, which is any if no      *)
(* other rank has come to it: nodes are added, or an array is gathered or  *)
(* scattered.                                                              *)
Comes(p, op) ==
  /\ pc[p] = "ready"
  /\ at[p] < MaxOps
  /\ \/ at[p] < Len(program) /\ op = Operation(p) /\ UNCHANGED program
     \/ at[p] = Len(program) /\ program' = Append(program, op)

(* The mistake of leaving the lists as they are when nodes are added.      *)
FlagKept(p) == entities_changed[p]

(* The end of onNodesAdded, of the nodes' and of the dofs' synchronizer.   *)
FlagAfterNodesAdded(p) == TRUE

(* onNodesAdded: ranks may be at it at different times.                    *)
OnNodesAdded(p) ==
  /\ Comes(p, "add")
  /\ mesh[p] + 1 \in Version
  /\ mesh' = [mesh EXCEPT ![p] = @ + 1]
  /\ entities_changed' = [entities_changed EXCEPT ![p] = FlagAfterNodesAdded(p)]
  /\ Finish(p)
  /\ UNCHANGED <<vote, lists, values, messages>>

(* gather and scatter begin with the reduction of hasChanged.              *)
HasChanged(p, op) ==
  /\ Comes(p, op)
  /\ vote' = [vote EXCEPT ![p] = Append(@, entities_changed[p])]
  /\ Goto(p, "hasChanged")
  /\ UNCHANGED <<at, mesh, entities_changed, lists, values, messages>>

(* The reduction, with a logical or.                                       *)
Changed(p, n) == \E q \in Rank : vote[q][n]

(* allReduce returns when every rank is in it; where the operation goes on *)
(* depends on its result.                                                  *)
Reduced(p) ==
  LET n == Len(vote[p])
      changed == Changed(p, n)
  IN /\ pc[p] = "hasChanged"
     /\ \A q \in Rank : Len(vote[q]) >= n
     /\ entities_changed' = [entities_changed EXCEPT ![p] = changed]
     /\ Goto(p, IF changed THEN "init" ELSE Operation(p))
     /\ UNCHANGED <<program, at, mesh, vote, lists, values, messages>>

(* The local and master entities of p in version v, in the order of its    *)
(* mesh.                                                                   *)
Owned(v, p) ==
  LET all == Local[v][p]
      own[n \in 0 .. Len(all)] ==
        IF n = 0 THEN <<>>
        ELSE IF Owner[all[n]] = p THEN Append(own[n - 1], all[n]) ELSE own[n - 1]
  IN own[Len(all)]

OwnEntities(p) == Owned(mesh[p], p)

(* The mistake of sending the numbers they have on this rank.              *)
LocalNumbers(p, entities) ==
  LET all == Local[mesh[p]][p]
  IN [i \in DOMAIN entities |-> (CHOOSE j \in DOMAIN all : all[j] = entities[i]) - 1]

(* fillEntityToSend: the own entities, and the numbers that stand for them.*)
Numbers(p, entities) == [i \in DOMAIN entities |-> Gid[mesh[p]][entities[i]]]

(* initScatterGatherCommunicationScheme on a slave: the size to the gather *)
(* and the list, unless it is empty.                                       *)
InitSlave(p) ==
  LET own == OwnEntities(p)
  IN /\ p \in Slave /\ pc[p] = "init"
     /\ entities_from_root' = [entities_from_root EXCEPT ![p] = own]
     /\ mail' = mail \cup {Message(p, root, "size", Len(own))} \cup
          (IF own = <<>> THEN {} ELSE {Message(p, root, "list", Numbers(p, own))})
     /\ entities_changed' = [entities_changed EXCEPT ![p] = FALSE]
     /\ Goto(p, "listSent")
     /\ UNCHANGED <<program, at, mesh, vote, master_receive_entities, values, waitFor>>

(* waitAll of a slave's requests: the list has been received, or MPI has   *)
(* buffered it.                                                            *)
Unreceived(p, kind) == \E m \in mail : m.src = p /\ m.kind = kind

ListReceived(p) ==
  /\ pc[p] = "listSent"
  /\ ~Unreceived(p, "list")
  /\ Goto(p, Operation(p))
  /\ UNCHANGED <<program, at, mesh, entities_changed, vote, lists, values, messages>>

ListBuffered(p) ==
  /\ pc[p] = "listSent"
  /\ Unreceived(p, "list")
  /\ Goto(p, Operation(p))
  /\ UNCHANGED <<program, at, mesh, entities_changed, vote, lists, values, messages>>

(* The root has the sizes of all and posts a receive for every list that   *)
(* is not empty.                                                           *)
InitRoot ==
  LET sizes == {m \in mail : Matches(m, root, "size")}
      own == OwnEntities(root)
  IN /\ pc[root] = "init"
     /\ {m.src : m \in sizes} = Slave
     /\ entities_from_root' = [entities_from_root EXCEPT ![root] = own]
     /\ master_receive_entities' =
          [p \in Rank |-> IF p = root THEN Numbers(root, own) ELSE <<>>]
     /\ mail' = mail \ sizes
     /\ waitFor' = [waitFor EXCEPT ![root] = {m.src : m \in {s \in sizes : s.data > 0}}]
     /\ entities_changed' = [entities_changed EXCEPT ![root] = FALSE]
     /\ Goto(root, "lists")
     /\ UNCHANGED <<program, at, mesh, vote, values>>

ReceiveList(m) ==
  /\ pc[root] = "lists"
  /\ Matches(m, root, "list") /\ m.src \in waitFor[root]
  /\ master_receive_entities' = [master_receive_entities EXCEPT ![m.src] = m.data]
  /\ mail' = mail \ {m}
  /\ waitFor' = [waitFor EXCEPT ![root] = @ \ {m.src}]
  /\ UNCHANGED <<program, at, pc, mesh, entities_changed, vote, entities_from_root, values>>

ListsComplete ==
  /\ pc[root] = "lists"
  /\ waitFor[root] = {}
  /\ Goto(root, Operation(root))
  /\ UNCHANGED <<program, at, mesh, entities_changed, vote, lists, values, messages>>
-----------------------------------------------------------------------------
(* The value of an entity in the array that rank p gathers in operation n, *)
(* and that of a number in the array that the root scatters.               *)
GatherValue(p, e, n) == <<p, e, n>>
ScatterValue(g, n) == <<root, g, n>>

(* gather on a slave sends its values, and nothing if it has none.         *)
GatherSlave(p) ==
  LET own == entities_from_root[p]
  IN /\ p \in Slave /\ pc[p] = "gather"
     /\ IF own = <<>>
        THEN Finish(p) /\ UNCHANGED mail
        ELSE /\ mail' = mail \cup {Message(p, root, "gather",
                          [i \in DOMAIN own |-> GatherValue(p, own[i], at[p])])}
             /\ Goto(p, "gatherSent")
             /\ UNCHANGED at
     /\ UNCHANGED <<program, mesh, entities_changed, vote, lists, values, waitFor>>

GatherReceived(p) ==
  /\ pc[p] = "gatherSent"
  /\ ~Unreceived(p, "gather")
  /\ Finish(p)
  /\ UNCHANGED <<program, mesh, entities_changed, vote, lists, values, messages>>

GatherBuffered(p) ==
  /\ pc[p] = "gatherSent"
  /\ Unreceived(p, "gather")
  /\ Finish(p)
  /\ UNCHANGED <<program, mesh, entities_changed, vote, lists, values, messages>>

(* The mistake of waiting for all slaves.                                  *)
AllSlaves == Slave

(* The slaves whose list is not empty: those that send something.          *)
Gathering == {p \in Slave : master_receive_entities[p] # <<>>}

(* The values of a buffer, put where the list says.                        *)
Placed(list, data) ==
  [g \in ToSet(list) |-> data[CHOOSE i \in DOMAIN list : list[i] = g]]

With(f, g) == [x \in DOMAIN f \cup DOMAIN g |-> IF x \in DOMAIN g THEN g[x] ELSE f[x]]

(* gather on the root: receives are posted and the own values copied.      *)
GatherRoot ==
  LET own == entities_from_root[root]
  IN /\ pc[root] = "gather"
     /\ waitFor' = [waitFor EXCEPT ![root] = Gathering]
     /\ gathered' = Placed(Numbers(root, own),
                      [i \in DOMAIN own |-> GatherValue(root, own[i], at[root])])
     /\ Goto(root, "gathering")
     /\ UNCHANGED <<program, at, mesh, entities_changed, vote, lists, array, mail>>

UnpackGather(m) ==
  /\ pc[root] = "gathering"
  /\ Matches(m, root, "gather") /\ m.src \in waitFor[root]
  /\ gathered' = With(gathered, Placed(master_receive_entities[m.src], m.data))
  /\ mail' = mail \ {m}
  /\ waitFor' = [waitFor EXCEPT ![root] = @ \ {m.src}]
  /\ UNCHANGED <<program, at, pc, mesh, entities_changed, vote, lists, array>>

GatherEnd ==
  /\ pc[root] = "gathering"
  /\ waitFor[root] = {}
  /\ Finish(root)
  /\ UNCHANGED <<program, mesh, entities_changed, vote, lists, values, messages>>
-----------------------------------------------------------------------------
(* scatter on the root: its own values, and a message to every slave, also *)
(* to one that has no entities.                                            *)
ScatterRoot ==
  LET own == entities_from_root[root]
      n == at[root]
      Packed(list) == [i \in DOMAIN list |-> ScatterValue(list[i], n)]
  IN /\ pc[root] = "scatter"
     /\ array' = [array EXCEPT ![root] = Placed(own, Packed(Numbers(root, own)))]
     /\ mail' = mail \cup
          {Message(root, p, "scatter", Packed(master_receive_entities[p])) : p \in Slave}
     /\ Goto(root, "scatterSent")
     /\ UNCHANGED <<program, at, mesh, entities_changed, vote, lists, gathered, waitFor>>

(* What rank p owns and q has as a ghost, in version v of the mesh.        *)
Ghosts(v, p, q) == {e \in ToSet(Local[v][q]) : Owner[e] = p}

(* synchronizeArray posts its receives and sends once the own values are   *)
(* there.                                                                  *)
SynchronizeArray(p, own) ==
  LET v == mesh[p]
      others == Rank \ {p}
  IN /\ mail' = (mail \ {m \in mail : Matches(m, p, "scatter")}) \cup
          {Message(p, q, "ghost", [e \in Ghosts(v, p, q) |-> own[e]]) :
             q \in {r \in others : Ghosts(v, p, r) # {}}}
     /\ waitFor' = [waitFor EXCEPT ![p] = {q \in others : Ghosts(v, q, p) # {}}]
     /\ Goto(p, "ghosts")

(* waitAll of the root's sends, received or buffered.                      *)
ScatterReceived ==
  /\ pc[root] = "scatterSent"
  /\ ~Unreceived(root, "scatter")
  /\ SynchronizeArray(root, array[root])
  /\ UNCHANGED <<program, at, mesh, entities_changed, vote, lists, values>>

ScatterBuffered ==
  /\ pc[root] = "scatterSent"
  /\ Unreceived(root, "scatter")
  /\ SynchronizeArray(root, array[root])
  /\ UNCHANGED <<program, at, mesh, entities_changed, vote, lists, values>>

(* scatter on a slave: receive, unpack, and synchronize the ghosts.        *)
ScatterSlave(p, m) ==
  /\ pc[p] = "scatter"
  /\ Matches(m, p, "scatter")
  /\ LET own == Placed(entities_from_root[p], m.data)
     IN array' = [array EXCEPT ![p] = own] /\ SynchronizeArray(p, own)
  /\ UNCHANGED <<program, at, mesh, entities_changed, vote, lists, gathered>>

UnpackGhosts(p, m) ==
  /\ pc[p] = "ghosts"
  /\ Matches(m, p, "ghost") /\ m.src \in waitFor[p]
  /\ array' = [array EXCEPT ![p] = With(@, m.data)]
  /\ mail' = mail \ {m}
  /\ waitFor' = [waitFor EXCEPT ![p] = @ \ {m.src}]
  /\ UNCHANGED <<program, at, pc, mesh, entities_changed, vote, lists, gathered>>

EndScatter(p) ==
  /\ pc[p] = "ghosts"
  /\ waitFor[p] = {}
  /\ Finish(p)
  /\ UNCHANGED <<program, mesh, entities_changed, vote, lists, values, messages>>

GhostsReceived(p) == ~Unreceived(p, "ghost") /\ EndScatter(p)
GhostsBuffered(p) == Unreceived(p, "ghost") /\ EndScatter(p)

Terminated == (\A p \in Rank : pc[p] = "ready" /\ at[p] = MaxOps) /\ UNCHANGED vars

RootStep ==
  \/ InitRoot
  \/ \E m \in mail : ReceiveList(m) \/ UnpackGather(m)
  \/ ListsComplete
  \/ GatherRoot
  \/ GatherEnd
  \/ ScatterRoot
  \/ ScatterReceived

RankStep(p) ==
  \/ OnNodesAdded(p)
  \/ \E op \in {"gather", "scatter"} : HasChanged(p, op)
  \/ Reduced(p)
  \/ InitSlave(p)
  \/ ListReceived(p)
  \/ GatherSlave(p)
  \/ GatherReceived(p)
  \/ \E m \in mail : ScatterSlave(p, m) \/ UnpackGhosts(p, m)
  \/ GhostsReceived(p)
  \/ p = root /\ RootStep

Next ==
  \/ \E p \in Rank : RankStep(p)
  \/ \E p \in Rank : ListBuffered(p) \/ GatherBuffered(p) \/ GhostsBuffered(p)
  \/ ScatterBuffered
  \/ Terminated

(* Every rank goes on as far as it can, and makes every operation; that    *)
(* MPI buffers a message is not promised.                                  *)
FairSpec == Init /\ [][Next]_vars /\ \A p \in Rank : WF_vars(RankStep(p))
-----------------------------------------------------------------------------
(* A rank that does not say its entities have changed has a list that is   *)
(* what its mesh gives now, and the root, once it has the lists of this    *)
(* rank's version of the mesh, has the numbers of the same entities in the *)
(* same order: what the one packs is what the other unpacks.               *)
ListsMatch ==
  \A p \in Rank : ~entities_changed[p] =>
    /\ entities_from_root[p] = OwnEntities(p)
    /\ (~entities_changed[root] /\ pc[root] # "lists" /\ mesh[root] = mesh[p]) =>
         master_receive_entities[p] = Numbers(p, entities_from_root[p])

JustMade(p, op) == pc[p] = "ready" /\ at[p] > 0 /\ program[at[p]] = op

(* After a gather the root has of every entity the value that its owner    *)
(* has gathered in this operation, and after a scatter each rank has, of   *)
(* its own entities and its ghosts, the value scattered in this operation. *)
ValuesArrive ==
  /\ JustMade(root, "gather") =>
       LET v == mesh[root]
           all == UNION {ToSet(Local[v][p]) : p \in Rank}
       IN gathered = [g \in {Gid[v][e] : e \in all} |->
                        LET e == CHOOSE x \in all : Gid[v][x] = g
                        IN GatherValue(Owner[e], e, at[root] - 1)]
  /\ \A p \in Rank : JustMade(p, "scatter") =>
       array[p] = [e \in Holds(p) |-> ScatterValue(Gid[mesh[p]][e], at[p] - 1)]

(* Every rank gets through the whole program, though nothing is buffered.  *)
EveryOperationEnds == <>[](mail = {} /\ \A p \in Rank : pc[p] = "ready" /\ at[p] = MaxOps)
=============================================================================
