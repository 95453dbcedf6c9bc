----------------------------- MODULE Fragments -----------------------------
(***************************************************************************)
(* FragmentManager::computeAllData: the fragments a mesh with cohesive     *)
(* elements falls into where these are broken, and sums over each of them. *)
(*                                                                         *)
(* createClusters has each rank group what is connected by facets among    *)
(* its elements, ghosts included; ClusterSynchronizer numbers these groups *)
(* over the ranks, finds which of them are the same fragment by what the   *)
(* owners of ghosts say of them, and renames the groups.                   *)
(*                                                                         *)
(* Sends are taken as buffered: a rank that waits for its sends of an      *)
(* exchange waits for ranks that post their receives before they do.       *)
(***************************************************************************)
EXTENDS Naturals, FiniteSets, SequencesExt, FiniteSetsExt

CONSTANTS
  NbProc,      \* the number of ranks
  Types,       \* the elements of each type, in the order of the types
  Cohesive,    \* the cohesive elements: the others are regular
  Facets,      \* the pairs of elements with a facet in common
  Touching,    \* the pairs of elements that make ghosts of each other
  Partitions,  \* the owners of the elements there may be
  Cracks,      \* the sets of broken elements there may be
  MaxSteps     \* bound: how often the fragments are computed

Rank == 0 .. (NbProc - 1)
root == 0
Element == UNION {ToSet(t) : t \in ToSet(Types)}
NoId == NbProc * Cardinality(Element)

ASSUME NbProcAssumption == NbProc \in Nat \ {0}
ASSUME CohesiveAssumption == Cohesive \subseteq Element /\ Cracks \subseteq SUBSET Cohesive
ASSUME FacetsAssumption == Facets \subseteq Touching

VARIABLES
  owner,       \* owner[e]: the rank an element is local to
  damaged,     \* the broken elements
  steps,       \* how often the model has been solved
  pc,          \* pc[p]: where p is
  builds,      \* builds[p]: how often p has computed the fragments
  known,       \* known[p]: what p holds to be broken
  mail,        \* mail[p][q]: messages from p to q
  awaited,     \* awaited[p]: the ranks p has still to hear of
  entered,     \* entered[p]: what p has given to each collective, in order
  groups,      \* groups[p]: the element groups, by name
  starting_index, distant_ids, nb_local_fragments, \* of ClusterSynchronizer
  global_nb_fragment,  \* what createClusters has returned
  measured     \* measured[p][i][c]: what the i-th quantity of fragment c sums

mpi == <<mail, awaited, entered>>
synchronizer == <<starting_index, distant_ids, nb_local_fragments>>
vars == <<owner, damaged, steps, pc, builds, known, mpi, groups, synchronizer,
          global_nb_fragment, measured>>

Local(p) == {e \in Element : owner[e] = p}
Ghost(p) == {e \in Element \ Local(p) : \E f \in Local(p) : {e, f} \in Touching}
Has(p) == Local(p) \cup Ghost(p)

(* What p sends to q: the schemes of the mesh's element synchronizer hold  *)
(* the regular elements, those of the cohesive synchronizer the others.    *)
Shared(p, q) == (Local(p) \cap Ghost(q)) \ Cohesive
SharedCohesive(p, q) == Local(p) \cap Ghost(q) \cap Cohesive

Quantities == <<"mass", "velocity", "center", "inertia", "elements">>

Init ==
  /\ owner \in Partitions
  /\ damaged = {}
  /\ steps = 0
  /\ pc = [p \in Rank |-> "idle"]
  /\ builds = [p \in Rank |-> 0]
  /\ known = [p \in Rank |-> {}]
  /\ mail = [p \in Rank |-> [q \in Rank |-> <<>>]]
  /\ awaited = [p \in Rank |-> {}]
  /\ entered = [p \in Rank |-> <<>>]
  /\ groups = [p \in Rank |-> <<>>]
  /\ starting_index = [p \in Rank |-> NoId]
  /\ distant_ids = [p \in Rank |-> {}]
  /\ nb_local_fragments = [p \in Rank |-> NoId]
  /\ global_nb_fragment = [p \in Rank |-> 0]
  /\ measured = [p \in Rank |-> <<>>]

(* A definition named after a mistake is a wrong version of the next one.  *)
-----------------------------------------------------------------------------
(* Point to point: one message per rank it is for, received in any order.  *)
Goto(p, place) == pc' = [pc EXCEPT ![p] = place]

Exchange(p, To, data(_), From) ==
  /\ mail' = [mail EXCEPT ![p] = [q \in Rank |-> IF q \in To THEN Append(@[q], data(q)) ELSE @[q]]]
  /\ awaited' = [awaited EXCEPT ![p] = From]

Receive(p, q) ==
  /\ q \in awaited[p] /\ mail[q][p] # <<>>
  /\ mail' = [mail EXCEPT ![q][p] = Tail(@)]
  /\ awaited' = [awaited EXCEPT ![p] = @ \ {q}]

(* Collectives: the one p is in is the last it has entered.                *)
Enter(p, data) == entered' = [entered EXCEPT ![p] = Append(@, data)]
HasEntered(p, q) == Len(entered[q]) >= Len(entered[p])
Given(p, q) == entered[q][Len(entered[p])]
-----------------------------------------------------------------------------
(* The program: the model is solved, and more elements are broken.         *)
Crack(broken) ==
  /\ steps < MaxSteps
  /\ \A p \in Rank : builds[p] = steps
  /\ damaged \subseteq broken
  /\ steps' = steps + 1
  /\ damaged' = broken
  /\ known' = [p \in Rank |-> (known[p] \ Local(p)) \cup (broken \cap Local(p))]
  /\ UNCHANGED <<owner, pc, builds, mpi, groups, synchronizer, global_nb_fragment, measured>>

(* buildFragments first has the ghosts of cohesive elements told of their  *)
(* damage.                                                                 *)
Damage(p, q) == known[p] \cap SharedCohesive(p, q)

(* The mistake of not sending where nothing is broken.                     *)
ToldIfBroken(p) == {q \in Rank : Damage(p, q) # {}}

ToldOfDamage(p) == {q \in Rank : SharedCohesive(p, q) # {}}

BuildFragments(p) ==
  /\ pc[p] = "idle" /\ builds[p] < steps
  /\ Exchange(p, ToldOfDamage(p), LAMBDA q : Damage(p, q),
              {q \in Rank : SharedCohesive(q, p) # {}})
  /\ measured' = [measured EXCEPT ![p] = <<>>]
  /\ Goto(p, "damage")
  /\ UNCHANGED <<owner, damaged, steps, builds, known, entered, groups, synchronizer,
                 global_nb_fragment>>

ReceiveDamage(p, q) ==
  /\ pc[p] = "damage" /\ Receive(p, q)
  /\ known' = [known EXCEPT ![p] = (@ \ SharedCohesive(q, p)) \cup Head(mail[q][p])]
  /\ UNCHANGED <<owner, damaged, steps, pc, builds, entered, groups, synchronizer,
                 global_nb_fragment, measured>>

(* createClusters: what the queue element_to_add finds from the elements   *)
(* that are not seen, those of each type in turn, and ghosts last.         *)
Connected[cluster, unseen \in SUBSET Element] ==
  LET next == {f \in unseen \ cluster : \E e \in cluster : {e, f} \in Facets}
  IN IF next = {} THEN cluster ELSE Connected[cluster \cup next, unseen]

ClustersOf[order \in Seq(Element), unseen \in SUBSET Element] ==
  IF order = <<>> THEN <<>>
  ELSE IF Head(order) \notin unseen THEN ClustersOf[Tail(order), unseen]
  ELSE LET cluster == Connected[{Head(order)}, unseen]
       IN <<cluster>> \o ClustersOf[Tail(order), unseen \ cluster]

All == FlattenSeq(Types)
Order(p) == SelectSeq(All, LAMBDA e : e \in Local(p)) \o SelectSeq(All, LAMBDA e : e \in Ghost(p))
LocalClusters(p) == ClustersOf[Order(p), Has(p) \ known[p]]

Numbered(prefix, clusters) ==
  [name \in {<<prefix, c>> : c \in 0 .. (Len(clusters) - 1)} |-> clusters[name[2] + 1]]

(* Groups of the same name are replaced, and others are kept.              *)
Create(p, new) ==
  [name \in DOMAIN groups[p] \cup DOMAIN new |->
     IF name \in DOMAIN new THEN new[name] ELSE groups[p][name]]

CreateClusters(p) ==
  /\ pc[p] = "damage" /\ awaited[p] = {}
  /\ \E clusters \in {LocalClusters(p)} :
       IF NbProc > 1
       THEN /\ groups' = [groups EXCEPT ![p] = Create(p, Numbered("tmp", clusters))]
            /\ Enter(p, Len(clusters)) /\ Goto(p, "scan")
            /\ UNCHANGED global_nb_fragment
       ELSE /\ groups' = [groups EXCEPT ![p] = Create(p, Numbered("fragment", clusters))]
            /\ global_nb_fragment' = [global_nb_fragment EXCEPT ![p] = Len(clusters)]
            /\ Goto(p, "integrate") /\ UNCHANGED entered
  /\ UNCHANGED <<owner, damaged, steps, builds, known, mail, awaited, synchronizer, measured>>
-----------------------------------------------------------------------------
(* ClusterSynchronizer::synchronize.                                       *)
Temporary(p) == {name \in DOMAIN groups[p] : name[1] = "tmp"}

(* exclusiveScan: a rank needs those before it only.                       *)
Scan(p) ==
  LET start == MapThenSumSet(LAMBDA q : Given(p, q), 0 .. (p - 1))
  IN /\ pc[p] = "scan"
     /\ \A q \in 0 .. (p - 1) : HasEntered(p, q)
     /\ starting_index' = [starting_index EXCEPT ![p] = start]
     /\ Enter(p, start + Cardinality(Temporary(p)))
     /\ Goto(p, "broadcast")
     /\ UNCHANGED <<owner, damaged, steps, builds, known, mail, awaited, groups, distant_ids,
                    nb_local_fragments, global_nb_fragment, measured>>

(* packData: element_to_fragment is -1 for an element that is broken, and  *)
(* unpackData skips these; the element synchronizer has none of them.      *)
FragmentId(p, e) ==
  IF e \in known[p] THEN starting_index[p] - 1
  ELSE starting_index[p] + (CHOOSE name \in Temporary(p) : e \in groups[p][name])[2]

Broadcast(p) ==
  /\ pc[p] = "broadcast" /\ HasEntered(p, NbProc - 1)
  /\ nb_local_fragments' = [nb_local_fragments EXCEPT ![p] = Given(p, NbProc - 1)]
  /\ Exchange(p, {q \in Rank : Shared(p, q) # {}},
              LAMBDA q : [e \in Shared(p, q) |-> FragmentId(p, e)],
              {q \in Rank : Shared(q, p) # {}})
  /\ Goto(p, "clusters")
  /\ UNCHANGED <<owner, damaged, steps, builds, known, entered, groups, starting_index,
                 distant_ids, global_nb_fragment, measured>>

ReceiveClusters(p, q) ==
  /\ pc[p] = "clusters" /\ Receive(p, q)
  /\ distant_ids' = [distant_ids EXCEPT ![p] =
       @ \cup {<<FragmentId(p, e), Head(mail[q][p])[e]>> : e \in Shared(q, p) \ known[p]}]
  /\ UNCHANGED <<owner, damaged, steps, pc, builds, known, entered, groups, starting_index,
                 nb_local_fragments, global_nb_fragment, measured>>

GatherCounts(p) ==
  /\ pc[p] = "clusters" /\ awaited[p] = {}
  /\ Enter(p, Cardinality(distant_ids[p]))
  /\ Goto(p, "allGather")
  /\ UNCHANGED <<owner, damaged, steps, builds, known, mail, awaited, groups, synchronizer,
                 global_nb_fragment, measured>>

(* distant_ids is a std::set: its pairs are in lexicographic order.        *)
InOrder(pairs) ==
  LET Before(a, b) == a[1] < b[1] \/ (a[1] = b[1] /\ a[2] < b[2])
  IN [i \in 1 .. Cardinality(pairs) |->
        CHOOSE x \in pairs : Cardinality({y \in pairs : Before(y, x)}) = i - 1]

GatherPairs(p) ==
  /\ pc[p] = "allGather" /\ \A q \in Rank : HasEntered(p, q)
  /\ Enter(p, InOrder(distant_ids[p]))
  /\ Goto(p, "allGatherV")
  /\ UNCHANGED <<owner, damaged, steps, builds, known, mail, awaited, groups, synchronizer,
                 global_nb_fragment, measured>>

(* The mistake of taking the second of a pair for the other one.           *)
SecondOf(pair, id) == pair[2]

OtherOf(pair, id) == IF pair[1] = id THEN pair[2] ELSE pair[1]

(* The loop over fragment_check_list: pairs with the first fragment of the *)
(* list are taken out and put their other fragment at its end.             *)
Cluster[check_list \in Seq(Nat), pairs \in Seq(Nat \X Nat), cluster \in SUBSET Nat] ==
  IF check_list = <<>> THEN [cluster |-> cluster, left |-> pairs]
  ELSE LET id == Head(check_list)
           found == {i \in DOMAIN pairs : id \in {pairs[i][1], pairs[i][2]}}
       IN IF found # {}
          THEN Cluster[Append(check_list, OtherOf(pairs[Min(found)], id)),
                       RemoveAt(pairs, Min(found)), cluster]
          ELSE Cluster[Tail(check_list), pairs, cluster \cup {id}]

PairedClusters[pairs \in Seq(Nat \X Nat)] ==
  IF pairs = <<>> THEN <<>>
  ELSE LET first == Cluster[Head(pairs), Tail(pairs), {}]
       IN <<first.cluster>> \o PairedClusters[first.left]

(* Then the fragments that are in no pair.                                 *)
WithAlone[clusters \in Seq(SUBSET Nat), ids \in Seq(Nat)] ==
  IF ids = <<>> THEN clusters
  ELSE IF Head(ids) \in UNION ToSet(clusters) THEN WithAlone[clusters, Tail(ids)]
  ELSE WithAlone[Append(clusters, {Head(ids)}), Tail(ids)]

GlobalClusters(pairs, nb) == WithAlone[PairedClusters[pairs], [i \in 1 .. nb |-> i - 1]]

(* The temporary groups are appended to those of their clusters, and       *)
(* destroyed.                                                              *)
Merged(p, clusters) ==
  LET Own(ids) == {name \in Temporary(p) : starting_index[p] + name[2] \in ids}
      new == Create(p, Numbered("fragment",
               [c \in DOMAIN clusters |-> UNION {groups[p][name] : name \in Own(clusters[c])}]))
  IN [name \in DOMAIN new \ Own(UNION ToSet(clusters)) |-> new[name]]

MergeClusters(p) ==
  /\ pc[p] = "allGatherV" /\ \A q \in Rank : HasEntered(p, q)
  /\ \E clusters \in {GlobalClusters(FlattenSeq([i \in 1 .. NbProc |-> Given(p, i - 1)]),
                                      nb_local_fragments[p])} :
       /\ global_nb_fragment' = [global_nb_fragment EXCEPT ![p] = Len(clusters)]
       /\ groups' = [groups EXCEPT ![p] = Merged(p, clusters)]
  /\ starting_index' = [starting_index EXCEPT ![p] = NoId]
  /\ distant_ids' = [distant_ids EXCEPT ![p] = {}]
  /\ nb_local_fragments' = [nb_local_fragments EXCEPT ![p] = NoId]
  /\ Goto(p, "groupNames")
  /\ UNCHANGED <<owner, damaged, steps, builds, known, mpi, measured>>
-----------------------------------------------------------------------------
(* synchronizeGroupNames: the root adds the groups it has not, and the     *)
(* others then those of the root.                                          *)
AddGroups(p, names) == groups' = [groups EXCEPT ![p] = Create(p, [n \in names \ DOMAIN @ |-> {}])]

SendNames(p) ==
  /\ pc[p] = "groupNames"
  /\ IF p = root
     THEN /\ Exchange(p, {}, LAMBDA q : {}, Rank \ {root})
          /\ Goto(p, "receiveNames") /\ UNCHANGED entered
     ELSE /\ Exchange(p, {root}, LAMBDA q : DOMAIN groups[p], {})
          /\ Enter(p, {}) /\ Goto(p, "broadcastNames")
  /\ UNCHANGED <<owner, damaged, steps, builds, known, groups, synchronizer,
                 global_nb_fragment, measured>>

ReceiveNames ==
  /\ pc[root] = "receiveNames" /\ awaited[root] # {}
  /\ Receive(root, Min(awaited[root]))
  /\ AddGroups(root, Head(mail[Min(awaited[root])][root]))
  /\ UNCHANGED <<owner, damaged, steps, pc, builds, known, entered, synchronizer,
                 global_nb_fragment, measured>>

BroadcastNames ==
  /\ pc[root] = "receiveNames" /\ awaited[root] = {}
  /\ Enter(root, DOMAIN groups[root])
  /\ Goto(root, "integrate")
  /\ UNCHANGED <<owner, damaged, steps, builds, known, mail, awaited, groups, synchronizer,
                 global_nb_fragment, measured>>

EndNames(p) ==
  /\ pc[p] = "broadcastNames" /\ HasEntered(p, root)
  /\ AddGroups(p, Given(p, root))
  /\ Goto(p, "integrate")
  /\ UNCHANGED <<owner, damaged, steps, builds, known, mpi, synchronizer,
                 global_nb_fragment, measured>>
-----------------------------------------------------------------------------
(* The sums over fragments, over the local regular elements of each group. *)
(* What an element adds is <<rank, element, row>>, where row is the one of *)
(* mass_centers that is subtracted from its coordinates.                   *)

(* Groups are in the order of their names: 10 is before 2.                 *)
Digits[n \in Nat] == IF n < 10 THEN <<n>> ELSE Append(Digits[n \div 10], n % 10)

NameBefore(m, n) ==
  \E i \in 1 .. Len(Digits[n]) :
    /\ \A j \in 1 .. (i - 1) : j <= Len(Digits[m]) /\ Digits[m][j] = Digits[n][j]
    /\ i > Len(Digits[m]) \/ Digits[m][i] < Digits[n][i]

Row(p, c) == Cardinality({name \in DOMAIN groups[p] : NameBefore(name[2], c)})

Center(p, x, c) == IF x = "inertia" THEN Row(p, c) ELSE c

OfType(t, S) == ToSet(t) \cap S

(* The mistake of summing over ghosts too.                                 *)
WithGhosts(p, c) == groups[p][<<"fragment", c>>] \ Cohesive

(* The local regular elements of a group.                                  *)
ElementsOf(p, c) == (groups[p][<<"fragment", c>>] \cap Local(p)) \ Cohesive

(* integrateFieldOnFragments sets the sum to zero at each type;            *)
(* computeNbElementsPerFragment does not.                                  *)
Summed(p, x, c) ==
  IF x = "elements" THEN ElementsOf(p, c)
  ELSE LET last == {i \in DOMAIN Types : /\ OfType(Types[i], ElementsOf(p, c)) # {}
                                         /\ \A j \in DOMAIN Types : j > i =>
                                              OfType(Types[j], ElementsOf(p, c)) = {}}
       IN UNION {OfType(Types[i], ElementsOf(p, c)) : i \in last}

Integral(p, x) ==
  [c \in {name[2] : name \in DOMAIN groups[p]} |->
     {<<p, e, Center(p, x, c)>> : e \in Summed(p, x, c)}]

(* The quantities in the order computeAllData computes them.               *)
Quantity(p) == Quantities[Len(measured[p]) + 1]

Integrate(p) ==
  /\ pc[p] = "integrate"
  /\ Enter(p, Integral(p, Quantity(p)))
  /\ Goto(p, "allReduce")
  /\ UNCHANGED <<owner, damaged, steps, builds, known, mail, awaited, groups, synchronizer,
                 global_nb_fragment, measured>>

AllReduce(p) ==
  LET total == [c \in 0 .. (global_nb_fragment[p] - 1) |-> UNION {Given(p, q)[c] : q \in Rank}]
  IN /\ pc[p] = "allReduce" /\ \A q \in Rank : HasEntered(p, q)
     /\ measured' = [measured EXCEPT ![p] = Append(@, total)]
     /\ IF Quantity(p) = Last(Quantities)
        THEN Goto(p, "idle") /\ builds' = [builds EXCEPT ![p] = @ + 1]
        ELSE Goto(p, "integrate") /\ UNCHANGED builds
     /\ UNCHANGED <<owner, damaged, steps, known, mpi, groups, synchronizer, global_nb_fragment>>

Terminated ==
  steps = MaxSteps /\ (\A p \in Rank : builds[p] = steps) /\ UNCHANGED vars

Step(p) ==
  \/ BuildFragments(p) \/ CreateClusters(p) \/ Scan(p) \/ Broadcast(p)
  \/ GatherCounts(p) \/ GatherPairs(p) \/ MergeClusters(p)
  \/ SendNames(p) \/ EndNames(p) \/ Integrate(p) \/ AllReduce(p)
  \/ \E q \in Rank : ReceiveDamage(p, q) \/ ReceiveClusters(p, q)
  \/ p = root /\ (ReceiveNames \/ BroadcastNames)

Next ==
  \/ \E broken \in Cracks : Crack(broken)
  \/ \E p \in Rank : Step(p)
  \/ Terminated

(* A rank goes on when it can; that the model is solved again is not said. *)
FairSpec == Init /\ [][Next]_vars /\ \A p \in Rank : WF_vars(Step(p))
-----------------------------------------------------------------------------
Whole == Element \ damaged
Glued == {<<e, f>> \in Whole \X Whole : e = f \/ {e, f} \in Facets}

(* Warshall's closure: what whole elements connect.                        *)
Closure[relation \in SUBSET (Element \X Element), through \in SUBSET Element] ==
  IF through = {} THEN relation
  ELSE LET e == Min(through)
           over == {x \in Element : <<x, e>> \in relation} \X {y \in Element : <<e, y>> \in relation}
       IN Closure[relation \cup over, through \ {e}]

(* The fragments of the mesh, whoever holds their elements.                *)
TrueFragments ==
  LET closure == Closure[Glued, Whole]
  IN {{f \in Whole : <<e, f>> \in closure} : e \in Whole}

Computed == steps > 0 /\ \A p \in Rank : builds[p] = steps

(* When all ranks are through, they agree on the number of fragments, each *)
(* group is, on every rank, what the rank has of one fragment of the mesh, *)
(* and nothing is left of the local clusters or of an earlier build.       *)
FragmentsAreComponents ==
  Computed =>
    \A p \in Rank :
      /\ global_nb_fragment[p] = Cardinality(TrueFragments)
      /\ DOMAIN groups[p] =
           {<<"fragment", c>> : c \in 0 .. (Cardinality(TrueFragments) - 1)}
      /\ \A fragment \in TrueFragments :
           \E name \in DOMAIN groups[p] :
             \A q \in Rank : groups[q][name] = fragment \cap Has(q)

(* Each rank has, for each fragment, sums in which every regular element   *)
(* of it counts once, as its owner's, and about the center of its fragment *)
(* ("compute fragments' mass", "principal moments of inertia with respect  *)
(* to the center of mass of each fragment").                               *)
FragmentsAreMeasured ==
  Computed =>
    \A p \in Rank, i \in DOMAIN Quantities : \A c \in 0 .. (global_nb_fragment[p] - 1) :
      \E fragment \in TrueFragments :
        /\ groups[p][<<"fragment", c>>] = fragment \cap Has(p)
        /\ measured[p][i][c] = {<<owner[e], e, c>> : e \in fragment \ Cohesive}

(* Whenever the model has been solved, its fragments get computed.         *)
FragmentsGetComputed ==
  \A n \in 1 .. MaxSteps : steps = n ~> \A p \in Rank : builds[p] >= n
=============================================================================
