--------------------------- MODULE GlobalIdsProofs ---------------------------
(***************************************************************************)
(* Proofs about GlobalIds, for every number of ranks, every mesh without   *)
(* pinched nodes, every set of cut facets and every order of messages: new *)
(* nodes get ids of their own, every rank that needs one has it in the     *)
(* end, and none is replaced on the way.                                   *)
(*                                                                         *)
(* The id of a node is what its master has given it.  The inductive        *)
(* invariant says of the masters that their numbers are apart, of          *)
(* everybody else that they know nothing but what the master says, and of  *)
(* the two communications what has been told by whom when a rank is in     *)
(* them.                                                                   *)
(***************************************************************************)
EXTENDS GlobalIds, FiniteInduction

-----------------------------------------------------------------------------
(* Finite sets: the least number, and sums.                                *)

(* The least element of a finite set of numbers: Master and Owner are      *)
(* among the ranks they are the lowest of.                                 *)
LEMMA LeastOfRanks ==
  ASSUME NEW S, S \subseteq Rank, S # {}
  PROVE  Min(S) \in S /\ \A x \in S : Min(S) <= x
<1> DEFINE Good == {T \in SUBSET Rank : T # {} => \E x \in T : \A y \in T : x <= y}
<1>1. IsFiniteSet(Rank) /\ Rank \subseteq Int
  BY NbProcAssumption, FS_Interval DEF Rank
<1>2. IsFiniteSet(S)
  BY <1>1, FS_Subset
<1>3. ASSUME NEW T \in SUBSET S, \A U \in SUBSET T : U # T => U \in Good
      PROVE  T \in Good
  <2>1. SUFFICES ASSUME T # {}
                 PROVE  \E x \in T : \A y \in T : x <= y
    OBVIOUS
  <2>2. PICK x \in T : TRUE
    BY <2>1
  <2>3. x \in Int /\ T \subseteq Int
    BY <1>1
  <2>4. CASE T \ {x} = {}
    BY <2>3, <2>4
  <2>5. CASE T \ {x} # {}
    <3>1. T \ {x} \in Good
      BY <1>3, <2>2
    <3>2. PICK m \in T \ {x} : \A y \in T \ {x} : m <= y
      BY <2>5, <3>1
    <3>3. CASE m <= x
      BY <2>3, <3>2, <3>3
    <3>4. CASE x < m
      BY <2>3, <3>2, <3>4
    <3>5. QED
      BY <2>3, <3>2, <3>3, <3>4
  <2>6. QED
    BY <2>4, <2>5
<1>4. S \in Good
  <2> HIDE DEF Good
  <2>1. QED
    BY <1>2, <1>3, SubsetInduction
<1>5. QED
  BY <1>4 DEF Min

(* The new nodes whose masters are in S.                                   *)
NewOf(S) == {n \in nodes \ old : Master(n[1]) \in S}

(* The sum of the counts of some ranks is the count of their nodes: no     *)
(* node is counted twice, for it has one master.                           *)
LEMMA NbNewCounts ==
  ASSUME IsFiniteSet(nodes), NEW S \in SUBSET Rank
  PROVE  NbNew(S) = Cardinality(NewOf(S))
<1> DEFINE step(s, iter) ==
             IF s = {} THEN 0
             ELSE LET x == CHOOSE y \in s : TRUE
                  IN  Cardinality(Mine(x)) + iter[s \ {x}]
           sum == CHOOSE iter : iter = [s \in SUBSET S |-> step(s, iter)]
           count == [s \in SUBSET S |-> Cardinality(NewOf(s))]
           Good == {s \in SUBSET S : sum[s] = count[s]}
<1>1. NbNew(S) = sum[S]
  BY DEF NbNew, MapThenSumSet, MapThenFoldSet
<1>2. IsFiniteSet(Rank) /\ IsFiniteSet(S)
  <2>1. IsFiniteSet(Rank)
    BY NbProcAssumption, FS_Interval DEF Rank
  <2>2. QED
    BY <2>1, FS_Subset
<1>3. ASSUME NEW s \in SUBSET S, NEW x \in s
      PROVE  Cardinality(NewOf(s)) = Cardinality(Mine(x)) + Cardinality(NewOf(s \ {x}))
  <2>1. NewOf(s) = Mine(x) \cup NewOf(s \ {x}) /\ Mine(x) \cap NewOf(s \ {x}) = {}
    BY DEF NewOf, Mine, LocalOrMaster
  <2>2. IsFiniteSet(Mine(x)) /\ IsFiniteSet(NewOf(s \ {x}))
    BY FS_Subset DEF NewOf, Mine
  <2>3. Cardinality(Mine(x)) \in Nat /\ Cardinality(NewOf(s \ {x})) \in Nat
    BY <2>2, FS_CardinalityType
  <2>4. Cardinality(Mine(x) \cup NewOf(s \ {x})) = Cardinality(Mine(x))
          + Cardinality(NewOf(s \ {x})) - Cardinality(Mine(x) \cap NewOf(s \ {x}))
    BY <2>2, FS_Union
  <2>5. Cardinality(Mine(x) \cap NewOf(s \ {x})) = 0
    BY <2>1, FS_EmptySet
  <2>6. Cardinality(NewOf(s)) = Cardinality(Mine(x) \cup NewOf(s \ {x}))
    BY <2>1
  <2>7. QED
    BY <2>3, <2>4, <2>5, <2>6
<1>4. count = [s \in SUBSET S |-> step(s, count)]
  <2>1. ASSUME NEW s \in SUBSET S
        PROVE  count[s] = step(s, count)
    <3>1. CASE s = {}
      BY <3>1, FS_EmptySet DEF NewOf
    <3>2. CASE s # {}
      <4>1. PICK x : x = CHOOSE y \in s : TRUE
        OBVIOUS
      <4>2. x \in s /\ s \ {x} \in SUBSET S
        BY <3>2, <4>1
      <4>3. count[s \ {x}] = Cardinality(NewOf(s \ {x}))
        BY <4>2
      <4>4. step(s, count) = Cardinality(Mine(x)) + count[s \ {x}]
        BY <3>2, <4>1
      <4>5. QED
        BY <1>3, <4>2, <4>3, <4>4
    <3>3. QED
      BY <3>1, <3>2
  <2>2. QED
    BY <2>1
<1>5. sum = [s \in SUBSET S |-> step(s, sum)]
  <2>1. \E iter : iter = [s \in SUBSET S |-> step(s, iter)]
    BY <1>4
  <2>2. QED
    BY <2>1
<1>6. ASSUME NEW s \in SUBSET S, \A u \in SUBSET s : u # s => u \in Good
      PROVE  s \in Good
  <2>1. count[s] = step(s, count) /\ sum[s] = step(s, sum)
    BY <1>4, <1>5
  <2> HIDE DEF sum, count
  <2>2. CASE s = {}
    BY <2>1, <2>2
  <2>3. CASE s # {}
    <3>1. PICK x : x = CHOOSE y \in s : TRUE
      OBVIOUS
    <3>2. x \in s /\ s \ {x} \in SUBSET s /\ s \ {x} # s
      BY <2>3, <3>1
    <3>3. sum[s \ {x}] = count[s \ {x}]
      BY <1>6, <3>2
    <3>4. QED
      BY <2>1, <2>3, <3>1, <3>3
  <2>4. QED
    BY <2>2, <2>3
<1>7. sum[S] = count[S]
  <2> HIDE DEF Good, sum, count
  <2>1. S \in Good
    BY <1>2, <1>6, SubsetInduction
  <2>2. QED
    BY <2>1 DEF Good
<1>8. QED
  BY <1>1, <1>7

-----------------------------------------------------------------------------
(* The mesh.                                                               *)

(* What the insertion has left, which the update does not change.          *)
MeshInv ==
  /\ cohesive \in SUBSET Facet
  /\ nodes = UNION {{s} \X Parts(s, cohesive) : s \in Site}
  /\ old \in SUBSET nodes
  /\ \A s \in Site : Cardinality({n \in old : n[1] = s}) = 1

(* Every node is a site and a part of it, and there are finitely many.     *)
LEMMA NodesOfSites ==
  ASSUME MeshInv
  PROVE  /\ IsFiniteSet(nodes) /\ IsFiniteSet(old) /\ IsFiniteSet(nodes \ old)
         /\ \A n \in nodes : n[1] \in Site /\ n[2] \in Parts(n[1], cohesive) /\ n = <<n[1], n[2]>>
<1>1. \A s : Parts(s, cohesive) \subseteq SUBSET Element
  BY DEF Parts, Around
<1>2. \A n \in nodes : n[1] \in Site /\ n[2] \in Parts(n[1], cohesive) /\ n = <<n[1], n[2]>>
  BY DEF MeshInv
<1>3. nodes \subseteq Site \X SUBSET Element
  BY <1>1, <1>2
<1>4. IsFiniteSet(Site) /\ IsFiniteSet(SUBSET Element)
  <2>1. IsFiniteSet(Site)
    BY NbProcAssumption, FS_Interval DEF Site
  <2>2. IsFiniteSet(Element)
    BY MeshAssumption
  <2>3. QED
    BY <2>1, <2>2, FS_SUBSET
<1>5. IsFiniteSet(nodes)
  BY <1>3, <1>4, FS_Product, FS_Subset
<1>6. old \in SUBSET nodes /\ nodes \ old \in SUBSET nodes
  BY DEF MeshInv
<1>7. QED
  BY <1>2, <1>5, <1>6, FS_Subset

(* The master of a site has an element there.                              *)
LEMMA MasterOfSite ==
  ASSUME NEW s \in Site
  PROVE  Master(s) \in Rank /\ \E e \in Around(s) : Host[e] = Master(s)
<1>1. {Host[e] : e \in Around(s)} \subseteq Rank /\ {Host[e] : e \in Around(s)} # {}
  BY MeshAssumption DEF Around
<1>2. Master(s) \in {Host[e] : e \in Around(s)}
  BY <1>1, LeastOfRanks DEF Master
<1>3. QED
  BY <1>1, <1>2

(* The owner of a facet has an element of it.                              *)
LEMMA OwnerOfFacet ==
  ASSUME NEW f \in Facet
  PROVE  Owner(f) \in Rank /\ f \subseteq Element /\ \E e \in f : Host[e] = Owner(f)
<1>1. f \subseteq Element /\ f # {}
  BY MeshAssumption, FS_EmptySet
<1>2. {Host[e] : e \in f} \subseteq Rank /\ {Host[e] : e \in f} # {}
  BY <1>1, MeshAssumption
<1>3. Owner(f) \in {Host[e] : e \in f}
  BY <1>2, LeastOfRanks DEF Owner
<1>4. QED
  BY <1>1, <1>2, <1>3

(* Master and owner hold the nodes they are master and owner of.           *)
LEMMA MasterIsNear ==
  ASSUME MeshInv, NEW n \in nodes
  PROVE  ~PureGhost(Master(n[1]), n)
  BY NodesOfSites, MasterOfSite DEF PureGhost

(* The owner of a facet holds the nodes at its corners.                    *)
LEMMA OwnerIsNear ==
  ASSUME NEW f \in Facet, NEW n, n[1] \in Corners(f)
  PROVE  ~PureGhost(Owner(f), n)
<1>1. PICK e \in f : Host[e] = Owner(f) /\ e \in Element
  BY OwnerOfFacet
<1>2. e \in Around(n[1])
  BY <1>1 DEF Corners, Around
<1>3. QED
  BY <1>1, <1>2 DEF PureGhost

(* A rank with an element around a corner of a cohesive element sees it.   *)
LEMMA SeesWhatIsNear ==
  ASSUME MeshInv, NEW f \in cohesive, NEW n, n[1] \in Corners(f), NEW p, ~PureGhost(p, n)
  PROVE  f \in Seen(p)
  BY DEF PureGhost, Seen

(* The master of a node is expected to send its id to the owner of any     *)
(* cohesive element of the node.                                           *)
LEMMA ReachesOwner ==
  ASSUME MeshInv, NEW n \in nodes, NEW f \in cohesive, n[1] \in Corners(f)
  PROVE  f \in Scheme("reduce", Master(n[1]), Owner(f))
<1>1. f \in Facet
  BY DEF MeshInv
<1>2. f \in Seen(Master(n[1]))
  BY MasterIsNear, SeesWhatIsNear
<1>3. f \in Seen(Owner(f))
  BY <1>1, OwnerIsNear, SeesWhatIsNear
<1>4. QED
  BY <1>2, <1>3 DEF Scheme

(* A new node comes from a facet that was cut: it belongs to a cohesive    *)
(* element, with which its id can travel.                                  *)
LEMMA NewNodesAreCohesive ==
  ASSUME MeshInv, NEW n \in nodes \ old
  PROVE  \E f \in cohesive : n \in Connectivity(f)
<1> DEFINE s == n[1]
           A == n[2]
<1>1. s \in Site /\ A \in Parts(s, cohesive) /\ n = <<s, A>>
  BY NodesOfSites
<1>2. PICK o \in old : o[1] = s
  <2>1. {m \in old : m[1] = s} # {}
    BY <1>1, FS_EmptySet DEF MeshInv
  <2>2. QED
    BY <2>1
<1>3. o \in nodes /\ o[2] \in Parts(s, cohesive) /\ o = <<s, o[2]>> /\ o # n
  BY <1>2, NodesOfSites DEF MeshInv
<1> HIDE DEF s, A
<1>4. A # o[2]
  BY <1>1, <1>3
<1>5. SUFFICES ASSUME \A f \in cohesive : ~(s \in Corners(f) /\ f \cap A # {})
               PROVE  FALSE
  BY <1>1 DEF Connectivity, s, A
<1>6. /\ A \in SUBSET Around(s) /\ A # {}
      /\ \A f \in Facet \ cohesive : s \in Corners(f) /\ f \cap A # {} => f \subseteq A
      /\ \A B \in Parts(s, cohesive) : B \subseteq A => B = A
  BY <1>1 DEF Parts
<1>7. \A f \in Facet : s \in Corners(f) /\ f \cap A # {} => f \subseteq A
  BY <1>5, <1>6
<1>8. A = Around(s)
  <2>1. Around(s) \in Parts(s, {})
    BY <1>1, ConnectedAssumption
  <2>2. QED
    BY <1>6, <1>7, <2>1 DEF Parts
<1>9. o[2] \subseteq A
  BY <1>3, <1>8 DEF Parts
<1>10. QED
  BY <1>3, <1>4, <1>6, <1>9

-----------------------------------------------------------------------------
(* The inductive invariant.                                                *)

(* The id that the master of n has given it.                               *)
IdOf(n) == gid[Master(n[1])][n]

(* The first number of rank p.                                             *)
First(p) == NbSites + NbNew({q \in Rank : q < p})

Numbering(p) == pc[p] \in {"begin", "allReduce", "scan"}

(* Old nodes keep the number of their site; new ones get one of their      *)
(* master's numbers, each another one, when it has come to that.           *)
NumberInv ==
  /\ \A n \in old : IdOf(n) = n[1]
  /\ \A n \in nodes \ old :
       IF Numbering(Master(n[1])) THEN IdOf(n) = None
       ELSE LET p == Master(n[1]) IN IdOf(n) \in First(p) .. (First(p) + Cardinality(Mine(p)) - 1)
  /\ \A m, n \in nodes \ old :
       Master(m[1]) = Master(n[1]) /\ IdOf(m) # None /\ IdOf(m) = IdOf(n) => m = n

(* What is known anywhere, or under way, is what the master says.          *)
KnownInv ==
  /\ \A p \in Rank, n \in nodes :
       /\ gid[p][n] # None => gid[p][n] = IdOf(n)
       /\ prank[p][n] # None => prank[p][n] = Master(n[1])
       /\ Slave(p, n) /\ gid[p][n] # None => prank[p][n] # None
       /\ n \in old /\ ~PureGhost(p, n) => gid[p][n] # None
  /\ \A m \in mail : \A n \in DOMAIN m.data : m.data[n].index # None =>
       m.data[n].index = IdOf(n) /\ m.data[n].node_prank = Master(n[1])

(* A communication is expected to bring p the ids of the nodes of the      *)
(* elements in the scheme, the reduction those of the sender's own only.   *)
Brings(ph, q, n) == ph = "reduce" => Master(n[1]) = q

Told(p, ph, q) ==
  \A f \in Scheme(ph, q, p) : \A n \in Connectivity(f) :
    Brings(ph, q, n) /\ ~PureGhost(p, n) => gid[p][n] # None

(* A message brings what is expected of it.                                *)
MessageTells(m) ==
  \A f \in Scheme(m.phase, m.src, m.dst) : \A n \in Connectivity(f) :
    Brings(m.phase, m.src, n) => n \in DOMAIN m.data /\ m.data[n].index # None

(* A rank that does not await a message any more has been told.            *)
RankTold(p) ==
  /\ pc[p] = "wait" => \A q \in (Rank \ {p}) \ waitFor[p] : Told(p, phase[p], q)
  /\ phase[p] = "synchronize" => ~Numbering(p) /\ \A q \in Rank \ {p} : Told(p, "reduce", q)
  /\ pc[p] = "done" =>
       phase[p] = "synchronize" /\ \A q \in Rank \ {p} : Told(p, "synchronize", q)

ToldInv == (\A m \in mail : MessageTells(m)) /\ \A p \in Rank : RankTold(p)

IInv == TypeOK /\ MeshInv /\ NumberInv /\ KnownInv /\ ToldInv

(* The ranges of numbers of two ranks are apart, above the old nodes'      *)
(* numbers and below the count of all nodes: the exclusive scan.           *)
LEMMA NumbersApart ==
  ASSUME MeshInv
  PROVE  /\ \A p \in Rank : First(p) \in Nat /\ First(p) >= NbSites
                            /\ Cardinality(Mine(p)) \in Nat
         /\ \A p, q \in Rank : p < q => First(p) + Cardinality(Mine(p)) <= First(q)
         /\ \A p \in Rank : First(p) + Cardinality(Mine(p)) <= Cardinality(nodes)
         /\ NbNew(Rank) = Cardinality(nodes \ old) /\ NbSites <= Cardinality(nodes)
<1>0. IsFiniteSet(nodes) /\ IsFiniteSet(nodes \ old) /\ NbSites \in Nat
      /\ \A n \in nodes : n[1] \in Site /\ Master(n[1]) \in Rank
  BY NodesOfSites, NbProcAssumption, MasterOfSite
<1>1. ASSUME NEW S \in SUBSET Rank
      PROVE  IsFiniteSet(NewOf(S)) /\ NbNew(S) = Cardinality(NewOf(S)) /\ NbNew(S) \in Nat
  <2>1. IsFiniteSet(NewOf(S))
    BY <1>0, FS_Subset DEF NewOf
  <2>2. NbNew(S) = Cardinality(NewOf(S))
    BY <1>0, NbNewCounts
  <2>3. QED
    BY <2>1, <2>2, FS_CardinalityType
<1>2. ASSUME NEW p \in Rank
      PROVE  /\ IsFiniteSet(Mine(p)) /\ Cardinality(Mine(p)) \in Nat
             /\ First(p) \in Nat /\ First(p) >= NbSites
  <2>1. IsFiniteSet(Mine(p))
    BY <1>0, FS_Subset DEF Mine
  <2>2. Cardinality(Mine(p)) \in Nat
    BY <2>1, FS_CardinalityType
  <2>3. NbNew({q \in Rank : q < p}) \in Nat
    BY <1>1
  <2>4. QED
    BY <1>0, <2>1, <2>2, <2>3 DEF First
<1>3. ASSUME NEW p \in Rank, NEW S \in SUBSET Rank, \A r \in Rank : r < p \/ r = p => r \in S
      PROVE  First(p) + Cardinality(Mine(p)) <= NbSites + NbNew(S)
  <2> DEFINE L == {q \in Rank : q < p}
  <2>1. L \in SUBSET Rank /\ p \in Int /\ p \notin L /\ \A r \in L : r \in S
    BY <1>3, NbProcAssumption DEF Rank
  <2>2. NewOf(L) \cap Mine(p) = {} /\ NewOf(L) \cup Mine(p) \subseteq NewOf(S)
    BY <1>3, <2>1 DEF NewOf, Mine, LocalOrMaster
  <2>3. IsFiniteSet(NewOf(L)) /\ IsFiniteSet(Mine(p)) /\ IsFiniteSet(NewOf(S))
    BY <1>1, <1>2, <2>1
  <2> HIDE DEF L
  <2>4. Cardinality(NewOf(L) \cup Mine(p))
          = Cardinality(NewOf(L)) + Cardinality(Mine(p)) - Cardinality(NewOf(L) \cap Mine(p))
    BY <2>3, FS_Union
  <2>5. Cardinality(NewOf(L) \cap Mine(p)) = 0
    BY <2>2, FS_EmptySet
  <2>6. Cardinality(NewOf(L) \cup Mine(p)) <= Cardinality(NewOf(S))
    BY <2>2, <2>3, FS_Subset
  <2>7. /\ Cardinality(NewOf(L)) = NbNew(L) /\ NbNew(L) \in Nat
        /\ Cardinality(NewOf(S)) = NbNew(S) /\ NbNew(S) \in Nat
        /\ Cardinality(Mine(p)) \in Nat
    BY <1>1, <1>2, <2>1
  <2>8. First(p) = NbSites + NbNew(L)
    BY DEF First, L
  <2>9. QED
    BY <1>0, <2>4, <2>5, <2>6, <2>7, <2>8
<1>4. ASSUME NEW p \in Rank, NEW q \in Rank, p < q
      PROVE  First(p) + Cardinality(Mine(p)) <= First(q)
  <2>1. \A r \in Rank : r < p \/ r = p => r \in {r1 \in Rank : r1 < q}
    BY <1>4, NbProcAssumption DEF Rank
  <2>2. QED
    BY <1>3, <2>1 DEF First
<1>5. NbNew(Rank) = Cardinality(nodes \ old)
  <2>1. NewOf(Rank) = nodes \ old
    BY <1>0 DEF NewOf
  <2>2. QED
    BY <1>1, <2>1
<1>6. NbSites <= Cardinality(old)
  <2> DEFINE f == [s \in Site |-> CHOOSE n \in old : n[1] = s]
  <2>1. ASSUME NEW s \in Site
        PROVE  f[s] \in old /\ f[s][1] = s
    <3>1. {n \in old : n[1] = s} # {}
      BY FS_EmptySet DEF MeshInv
    <3>2. QED
      BY <3>1
  <2>2. f \in Injection(Site, old)
    BY <2>1 DEF Injection, IsInjective
  <2>3. IsFiniteSet(old)
    BY NodesOfSites
  <2>4. Cardinality(Site) <= Cardinality(old)
    BY <2>2, <2>3, FS_Injection
  <2>5. Cardinality(Site) = NbSites
    BY <1>0, FS_Interval DEF Site
  <2>6. QED
    BY <2>4, <2>5
<1>7. Cardinality(nodes) = Cardinality(old) + Cardinality(nodes \ old)
      /\ Cardinality(old) \in Nat /\ Cardinality(nodes \ old) \in Nat
  <2>1. nodes \cap old = old
    BY DEF MeshInv
  <2>2. Cardinality(nodes \ old) = Cardinality(nodes) - Cardinality(nodes \cap old)
    BY <1>0, FS_Difference
  <2>3. IsFiniteSet(old)
    BY NodesOfSites
  <2>4. Cardinality(nodes) \in Nat /\ Cardinality(old) \in Nat /\ Cardinality(nodes \ old) \in Nat
    BY <1>0, <2>3, FS_CardinalityType
  <2>5. QED
    BY <2>1, <2>2, <2>4
<1>8. ASSUME NEW p \in Rank
      PROVE  First(p) + Cardinality(Mine(p)) <= Cardinality(nodes)
  <2>1. First(p) + Cardinality(Mine(p)) <= NbSites + NbNew(Rank)
    BY <1>3
  <2>2. QED
    BY <1>0, <1>2, <1>5, <1>6, <1>7, <2>1
<1>9. QED
  BY <1>0, <1>2, <1>4, <1>5, <1>6, <1>7, <1>8

(* What a step that leaves the mesh alone leaves alone with it.            *)
LEMMA MeshSame ==
  ASSUME MeshInv, UNCHANGED mesh
  PROVE  /\ MeshInv' /\ nodes' = nodes /\ old' = old
         /\ \A f : Connectivity(f)' = Connectivity(f)
         /\ \A ph, q, p : Scheme(ph, q, p)' = Scheme(ph, q, p)
         /\ \A p : Mine(p)' = Mine(p)
         /\ \A p \in Rank : First(p)' = First(p)
<1>1. cohesive' = cohesive /\ nodes' = nodes /\ old' = old
  BY DEF mesh
<1>2. MeshInv'
  BY <1>1 DEF MeshInv
<1>3. /\ \A f : Connectivity(f)' = Connectivity(f)
      /\ \A p : Mine(p)' = Mine(p)
      /\ \A ph, q, p : Scheme(ph, q, p)' = Scheme(ph, q, p)
  BY <1>1 DEF Connectivity, Mine, Scheme, Seen
<1>4. \A p \in Rank : First(p)' = First(p)
  <2>1. ASSUME NEW S \in SUBSET Rank
        PROVE  NbNew(S)' = NbNew(S)
    <3>1. IsFiniteSet(nodes) /\ IsFiniteSet(nodes')
      BY <1>1, NodesOfSites
    <3>2. NbNew(S) = Cardinality(NewOf(S))
      BY <3>1, NbNewCounts
    <3>3. NewOf(S)' = NewOf(S)
      BY <1>1 DEF NewOf
    <3>4. (IsFiniteSet(nodes) => NbNew(S) = Cardinality(NewOf(S)))'
      BY NbNewCounts, PTL
    <3>5. QED
      BY <3>1, <3>2, <3>3, <3>4
  <2>2. QED
    BY <2>1 DEF First
<1>5. QED
  BY <1>1, <1>2, <1>3, <1>4

(* A master has numbered its nodes once it posts, and nodes it has not     *)
(* numbered have no id.                                                    *)
LEMMA IdsOfMasters ==
  ASSUME MeshInv, NumberInv, NEW n \in nodes
  PROVE  /\ Master(n[1]) \in Rank
         /\ ~Numbering(Master(n[1])) => IdOf(n) # None
         /\ IdOf(n) \in Nat \cup {None}
<1>1. n[1] \in Site /\ Master(n[1]) \in Rank
  BY NodesOfSites, MasterOfSite
<1>2. n[1] \in Nat
  BY <1>1, NbProcAssumption DEF Site
<1>3. First(Master(n[1])) \in Nat
  BY <1>1, NumbersApart
<1>4. Cardinality(Mine(Master(n[1]))) \in Nat
  BY <1>1, NumbersApart
<1>5. CASE n \in old
  BY <1>1, <1>2, <1>5 DEF NumberInv, None
<1>6. CASE n \notin old /\ Numbering(Master(n[1]))
  BY <1>1, <1>6 DEF NumberInv
<1>7. CASE n \notin old /\ ~Numbering(Master(n[1]))
  <2>1. IdOf(n) \in First(Master(n[1])) .. (First(Master(n[1])) + Cardinality(Mine(Master(n[1]))) - 1)
    BY <1>7 DEF NumberInv
  <2>2. QED
    BY <1>1, <1>3, <1>4, <2>1 DEF None
<1>8. QED
  BY <1>5, <1>6, <1>7

-----------------------------------------------------------------------------
(* The initial states.                                                     *)

(* The inductive invariant holds after the insertion: old nodes have the   *)
(* numbers of their sites everywhere, new ones have none.                  *)
LEMMA InitIInv == Init => IInv
<1> SUFFICES ASSUME Init
             PROVE  IInv
  OBVIOUS
<1>1. MeshInv
  BY DEF Init, MeshInv
<1>2. \A n \in nodes : n[1] \in Site /\ Master(n[1]) \in Rank /\ ~PureGhost(Master(n[1]), n)
  BY <1>1, NodesOfSites, MasterOfSite DEF PureGhost
<1>3. /\ NbSites \in Nat /\ NbSites <= Cardinality(nodes) /\ Cardinality(nodes) \in Nat
      /\ Site \subseteq Id /\ None \notin Site /\ None \notin Rank
  <2>1. NbSites \in Nat /\ NbSites <= Cardinality(nodes) /\ Cardinality(nodes) \in Nat
    BY <1>1, NumbersApart, NodesOfSites, FS_CardinalityType, NbProcAssumption
  <2>2. QED
    BY <2>1, NbProcAssumption DEF Site, Id, None, Rank
<1>4. \A p \in Rank, n \in nodes :
        /\ gid[p][n] = IF n \in old /\ ~PureGhost(p, n) THEN n[1] ELSE None
        /\ prank[p][n] = IF n \in old /\ Slave(p, n) THEN Master(n[1]) ELSE None
  BY DEF Init
<1>5. \A p \in Rank : pc[p] = "begin" /\ phase[p] = "reduce"
  BY DEF Init
<1>6. TypeOK
  <2>1. gid \in [Rank -> [nodes -> Id \cup {None}]]
    BY <1>2, <1>3 DEF Init
  <2>2. prank \in [Rank -> [nodes -> Rank \cup {None}]]
    BY <1>2 DEF Init
  <2>3. QED
    BY <2>1, <2>2 DEF Init, TypeOK
<1>7. \A n \in nodes : IdOf(n) = IF n \in old THEN n[1] ELSE None
  BY <1>2, <1>4 DEF IdOf
<1>8. NumberInv
  BY <1>1, <1>2, <1>5, <1>7 DEF NumberInv, Numbering, MeshInv
<1>9. KnownInv
  <2>1. mail = {}
    BY DEF Init
  <2>2. ASSUME NEW p \in Rank, NEW n \in nodes
        PROVE  /\ gid[p][n] # None => gid[p][n] = IdOf(n)
               /\ prank[p][n] # None => prank[p][n] = Master(n[1])
               /\ Slave(p, n) /\ gid[p][n] # None => prank[p][n] # None
               /\ n \in old /\ ~PureGhost(p, n) => gid[p][n] # None
    BY <1>2, <1>3, <1>4, <1>7
  <2>3. QED
    BY <2>1, <2>2 DEF KnownInv
<1>10. ToldInv
  BY <1>5 DEF ToldInv, RankTold, Init
<1>11. QED
  BY <1>1, <1>6, <1>8, <1>9, <1>10 DEF IInv

-----------------------------------------------------------------------------
(* The layers that a step which gives no id leaves as they were.           *)

(* The ids of the masters stay well numbered when no id of a master        *)
(* changes and no rank with nodes to number gets through with it.          *)
LEMMA NumberSame ==
  ASSUME MeshInv, NumberInv, UNCHANGED mesh,
         \A n \in nodes : IdOf(n)' = IdOf(n),
         nodes \ old = {} \/ \A p \in Rank : Numbering(p)' <=> Numbering(p)
  PROVE  NumberInv'
<1>1. nodes' = nodes /\ old' = old /\ old \subseteq nodes
      /\ \A p \in Rank : First(p)' = First(p) /\ Mine(p)' = Mine(p)
  BY MeshSame DEF MeshInv
<1>2. \A n \in nodes : Master(n[1]) \in Rank
  BY NodesOfSites, MasterOfSite
<1>3. \A n \in old' : IdOf(n)' = n[1]
  BY <1>1 DEF NumberInv
<1>4. ASSUME NEW n \in nodes \ old
      PROVE  IF Numbering(Master(n[1]))' THEN IdOf(n)' = None
             ELSE IdOf(n)' \in First(Master(n[1]))' ..
                    (First(Master(n[1]))' + Cardinality(Mine(Master(n[1]))') - 1)
  <2>1. Numbering(Master(n[1]))' <=> Numbering(Master(n[1]))
    BY <1>2
  <2>2. First(Master(n[1]))' = First(Master(n[1])) /\ Mine(Master(n[1]))' = Mine(Master(n[1]))
    BY <1>1, <1>2
  <2>3. IF Numbering(Master(n[1])) THEN IdOf(n) = None
        ELSE IdOf(n) \in First(Master(n[1])) ..
               (First(Master(n[1])) + Cardinality(Mine(Master(n[1]))) - 1)
    BY DEF NumberInv
  <2>4. QED
    BY <2>1, <2>2, <2>3
<1>5. \A m, n \in nodes \ old :
        Master(m[1]) = Master(n[1]) /\ IdOf(m)' # None /\ IdOf(m)' = IdOf(n)' => m = n
  BY DEF NumberInv
<1>6. QED
  BY <1>1, <1>3, <1>4, <1>5 DEF NumberInv

(* What is known stays true when no id changes and nothing is sent.        *)
LEMMA KnownSame ==
  ASSUME MeshInv, KnownInv, UNCHANGED mesh, UNCHANGED <<gid, prank>>, mail' \subseteq mail
  PROVE  KnownInv' /\ \A n \in nodes : IdOf(n)' = IdOf(n)
<1>1. nodes' = nodes /\ old' = old
  BY MeshSame
<1>2. \A n : IdOf(n)' = IdOf(n)
  BY DEF IdOf
<1>3. QED
  BY <1>1, <1>2 DEF KnownInv

(* What a rank has been told it stays told.                                *)
LEMMA ToldStays ==
  ASSUME MeshInv, UNCHANGED mesh,
         \A p \in Rank, n \in nodes : gid[p][n] # None => gid'[p][n] # None,
         NEW p \in Rank, NEW q, NEW ph, Told(p, ph, q)
  PROVE  Told(p, ph, q)'
<1>1. ASSUME NEW f \in Scheme(ph, q, p), NEW n \in Connectivity(f),
             Brings(ph, q, n), ~PureGhost(p, n)
      PROVE  gid'[p][n] # None
  <2>1. n \in nodes
    BY DEF Connectivity
  <2>2. gid[p][n] # None
    BY <1>1 DEF Told
  <2>3. QED
    BY <2>1, <2>2
<1>2. Scheme(ph, q, p)' = Scheme(ph, q, p) /\ \A f : Connectivity(f)' = Connectivity(f)
  BY MeshSame
<1>3. QED
  BY <1>1, <1>2 DEF Told, Brings

(* The messages under way stay as they are.                                *)
LEMMA MessageStays ==
  ASSUME MeshInv, UNCHANGED mesh, NEW m, MessageTells(m)
  PROVE  MessageTells(m)'
<1>1. Scheme(m.phase, m.src, m.dst)' = Scheme(m.phase, m.src, m.dst)
  BY MeshSame
<1>2. \A f : Connectivity(f)' = Connectivity(f)
  BY MeshSame
<1>3. QED
  BY <1>1, <1>2 DEF MessageTells, Brings

(* So does what is said of a rank that does not move.                      *)
LEMMA RankStays ==
  ASSUME TypeOK, MeshInv, UNCHANGED mesh,
         \A p \in Rank, n \in nodes : gid[p][n] # None => gid'[p][n] # None,
         NEW p \in Rank, RankTold(p), phase'[p] = phase[p], waitFor'[p] = waitFor[p],
         pc'[p] \in {"wait", "done"} => pc'[p] = pc[p], Numbering(p)' => Numbering(p)
  PROVE  RankTold(p)'
<1>1. phase[p] \in {"reduce", "synchronize"}
  BY DEF TypeOK
<1>2. \A q, ph : Told(p, ph, q) => Told(p, ph, q)'
  BY ToldStays
<1>3. PICK ph : ph = phase[p]
  OBVIOUS
<1>4. pc'[p] = "wait" => \A q \in (Rank \ {p}) \ waitFor[p] : Told(p, ph, q)'
  BY <1>2, <1>3 DEF RankTold
<1>5. ph = "synchronize" => ~Numbering(p)' /\ \A q \in Rank \ {p} : Told(p, "reduce", q)'
  BY <1>2, <1>3 DEF RankTold
<1>6. pc'[p] = "done" =>
        ph = "synchronize" /\ \A q \in Rank \ {p} : Told(p, "synchronize", q)'
  BY <1>2, <1>3 DEF RankTold
<1>7. phase'[p] = ph
  BY <1>3
<1>8. QED
  BY <1>4, <1>5, <1>6, <1>7 DEF RankTold

-----------------------------------------------------------------------------
(* The steps.                                                              *)

(* Entering the reduction of the counts keeps the invariant.               *)
LEMMA CountNodesInv ==
  ASSUME IInv, NEW p \in Rank, CountNodes(p)
  PROVE  IInv'
<1>1. /\ UNCHANGED mesh /\ UNCHANGED <<gid, prank>> /\ mail' = mail /\ phase' = phase
      /\ waitFor' = waitFor /\ pc' = [pc EXCEPT ![p] = "allReduce"] /\ pc[p] = "begin"
  BY DEF CountNodes
<1>2. /\ TypeOK /\ MeshInv /\ NumberInv /\ KnownInv /\ ToldInv
      /\ pc \in [Rank -> {"begin", "allReduce", "scan", "post", "wait", "done"}]
  BY DEF IInv, TypeOK
<1>3. nodes' = nodes /\ MeshInv' /\ Id' = Id
  BY <1>1, <1>2, MeshSame DEF Id
<1>4. TypeOK'
  BY <1>1, <1>2, <1>3 DEF TypeOK
<1>5. \A q \in Rank : (Numbering(q)' <=> Numbering(q)) /\ (q # p => pc'[q] = pc[q])
                      /\ pc'[p] = "allReduce"
  BY <1>1, <1>2 DEF Numbering
<1>6. KnownInv' /\ \A n \in nodes : IdOf(n)' = IdOf(n)
  BY <1>1, <1>2, KnownSame
<1>7. NumberInv'
  BY <1>1, <1>2, <1>5, <1>6, NumberSame
<1>8. ToldInv'
  <2>1. ASSUME NEW m \in mail'
        PROVE  MessageTells(m)'
    BY <1>1, <1>2, MessageStays DEF ToldInv
  <2>2. ASSUME NEW q \in Rank
        PROVE  RankTold(q)'
    <3>1. pc'[q] \in {"wait", "done"} => pc'[q] = pc[q]
      BY <1>1, <1>2, <1>5
    <3>2. QED
      BY <1>1, <1>2, <1>5, <3>1, RankStays DEF ToldInv
  <2>3. QED
    BY <2>1, <2>2 DEF ToldInv
<1>9. QED
  BY <1>3, <1>4, <1>6, <1>7, <1>8 DEF IInv

(* Leaving the reduction keeps it: a rank that goes on without numbers     *)
(* does so because there is no new node on any rank.                       *)
LEMMA CountsReducedInv ==
  ASSUME IInv, NEW p \in Rank, CountsReduced(p)
  PROVE  IInv'
<1>1. /\ UNCHANGED mesh /\ UNCHANGED <<gid, prank>> /\ mail' = mail /\ phase' = phase
      /\ waitFor' = waitFor /\ pc[p] = "allReduce"
      /\ pc' = [pc EXCEPT ![p] = IF NbNew(Rank) = 0 THEN "post" ELSE "scan"]
  BY DEF CountsReduced
<1>2. /\ TypeOK /\ MeshInv /\ NumberInv /\ KnownInv /\ ToldInv
      /\ pc \in [Rank -> {"begin", "allReduce", "scan", "post", "wait", "done"}]
  BY DEF IInv, TypeOK
<1>3. nodes' = nodes /\ MeshInv' /\ Id' = Id
  BY <1>1, <1>2, MeshSame DEF Id
<1>4. TypeOK'
  BY <1>1, <1>2, <1>3 DEF TypeOK
<1>5. \A q \in Rank : (q # p => pc'[q] = pc[q]) /\ (Numbering(q)' => Numbering(q))
                      /\ pc'[p] \in {"post", "scan"}
  BY <1>1, <1>2 DEF Numbering
<1>6. nodes \ old = {} \/ \A q \in Rank : Numbering(q)' <=> Numbering(q)
  <2>1. CASE NbNew(Rank) = 0
    <3>1. Cardinality(nodes \ old) = 0 /\ IsFiniteSet(nodes \ old)
      BY <1>2, <2>1, NumbersApart, NodesOfSites
    <3>2. QED
      BY <3>1, FS_EmptySet
  <2>2. CASE NbNew(Rank) # 0
    BY <1>1, <1>2, <2>2 DEF Numbering
  <2>3. QED
    BY <2>1, <2>2
<1>7. KnownInv' /\ \A n \in nodes : IdOf(n)' = IdOf(n)
  BY <1>1, <1>2, KnownSame
<1>8. NumberInv'
  BY <1>1, <1>2, <1>6, <1>7, NumberSame
<1>9. ToldInv'
  <2>1. ASSUME NEW m \in mail'
        PROVE  MessageTells(m)'
    BY <1>1, <1>2, MessageStays DEF ToldInv
  <2>2. ASSUME NEW q \in Rank
        PROVE  RankTold(q)'
    <3>1. pc'[q] \in {"wait", "done"} => pc'[q] = pc[q]
      BY <1>1, <1>2, <1>5
    <3>2. QED
      BY <1>1, <1>2, <1>5, <3>1, RankStays DEF ToldInv
  <2>3. QED
    BY <2>1, <2>2 DEF ToldInv
<1>10. QED
  BY <1>3, <1>4, <1>7, <1>8, <1>9 DEF IInv

(* What NumberNodes does to the ids: the nodes of p, which had none, get   *)
(* numbers of p, no two the same.                                          *)
LEMMA NumberNodesIds ==
  ASSUME IInv, NEW p \in Rank, NumberNodes(p)
  PROVE  /\ \A q \in Rank, n \in nodes : q # p \/ n \notin Mine(p) => gid'[q][n] = gid[q][n]
         /\ \A n \in Mine(p) : /\ gid[p][n] = None /\ IdOf(n) = None /\ Master(n[1]) = p
                               /\ gid'[p][n] \in First(p) .. (First(p) + Cardinality(Mine(p)) - 1)
                               /\ gid'[p][n] \in Id
         /\ \A m, n \in Mine(p) : gid'[p][m] = gid'[p][n] => m = n
         /\ gid' \in [Rank -> [nodes -> Id \cup {None}]]
<1>1. /\ TypeOK /\ MeshInv /\ NumberInv /\ Mine(p) \subseteq nodes /\ pc[p] = "scan"
      /\ gid \in [Rank -> [nodes -> Id \cup {None}]]
  BY DEF IInv, TypeOK, Mine, NumberNodes
<1>2. PICK id \in [Mine(p) -> First(p) .. (First(p) + Cardinality(Mine(p)) - 1)] :
        /\ \A m, n \in Mine(p) : id[m] = id[n] => m = n
        /\ gid' = [gid EXCEPT ![p] = [n \in nodes |-> IF n \in Mine(p) THEN id[n] ELSE @[n]]]
  BY DEF NumberNodes, StartingIndex, First
<1>3. \A q \in Rank, n \in nodes :
        gid'[q][n] = IF q = p /\ n \in Mine(p) THEN id[n] ELSE gid[q][n]
  BY <1>1, <1>2
<1>4. ASSUME NEW n \in Mine(p)
      PROVE  gid[p][n] = None /\ IdOf(n) = None /\ Master(n[1]) = p /\ id[n] \in Id
  <2>1. n \in nodes \ old /\ Master(n[1]) = p
    BY DEF Mine, LocalOrMaster
  <2>2. IdOf(n) = None
    BY <1>1, <2>1 DEF NumberInv, Numbering
  <2>3. /\ First(p) \in Nat /\ Cardinality(Mine(p)) \in Nat
        /\ First(p) + Cardinality(Mine(p)) <= Cardinality(nodes)
        /\ Cardinality(nodes) \in Nat
    BY <1>1, NumbersApart, NodesOfSites, FS_CardinalityType
  <2>4. id[n] \in First(p) .. (First(p) + Cardinality(Mine(p)) - 1)
    BY <1>2
  <2>5. QED
    BY <2>1, <2>2, <2>3, <2>4 DEF IdOf, Id
<1>5. gid' \in [Rank -> [nodes -> Id \cup {None}]]
  BY <1>1, <1>2, <1>4
<1>6. QED
  BY <1>1, <1>2, <1>3, <1>4, <1>5

(* Numbering keeps it: the ids that appear are those of new nodes on their *)
(* master, of which nobody knew anything.                                  *)
LEMMA NumberNodesInv ==
  ASSUME IInv, NEW p \in Rank, NumberNodes(p)
  PROVE  IInv'
<1>1. /\ UNCHANGED mesh /\ prank' = prank /\ mail' = mail /\ phase' = phase
      /\ waitFor' = waitFor /\ pc[p] = "scan" /\ pc' = [pc EXCEPT ![p] = "post"]
  BY DEF NumberNodes
<1>2. /\ TypeOK /\ MeshInv /\ NumberInv /\ KnownInv /\ ToldInv
      /\ pc \in [Rank -> {"begin", "allReduce", "scan", "post", "wait", "done"}]
  BY DEF IInv, TypeOK
<1>3. /\ nodes' = nodes /\ old' = old /\ MeshInv' /\ Id' = Id
      /\ \A q \in Rank : Mine(q)' = Mine(q) /\ First(q)' = First(q)
  BY <1>1, <1>2, MeshSame DEF Id
<1>4. /\ \A q \in Rank, n \in nodes : q # p \/ n \notin Mine(p) => gid'[q][n] = gid[q][n]
      /\ \A n \in Mine(p) : /\ gid[p][n] = None /\ IdOf(n) = None /\ Master(n[1]) = p
                            /\ gid'[p][n] \in First(p) .. (First(p) + Cardinality(Mine(p)) - 1)
      /\ \A m, n \in Mine(p) : gid'[p][m] = gid'[p][n] => m = n
      /\ gid' \in [Rank -> [nodes -> Id \cup {None}]]
  BY NumberNodesIds
<1>5. TypeOK'
  BY <1>1, <1>2, <1>3, <1>4 DEF TypeOK
<1>6. \A q \in Rank : /\ q # p => pc'[q] = pc[q]
                      /\ Numbering(q)' <=> Numbering(q) /\ q # p
                      /\ pc'[p] = "post"
  BY <1>1, <1>2 DEF Numbering
<1>7. \A n \in nodes : /\ Master(n[1]) \in Rank
                       /\ n \in Mine(p) <=> n \notin old /\ Master(n[1]) = p
                       /\ n \in Mine(p) => IdOf(n)' = gid'[p][n]
                       /\ n \notin Mine(p) => IdOf(n)' = IdOf(n)
  BY <1>2, <1>4, NodesOfSites, MasterOfSite DEF IdOf, Mine, LocalOrMaster
<1>8. NumberInv'
  <2>1. ASSUME NEW n \in old
        PROVE  IdOf(n)' = n[1]
    BY <1>2, <1>7 DEF NumberInv, MeshInv
  <2>2. ASSUME NEW n \in nodes \ old
        PROVE  IF Numbering(Master(n[1]))' THEN IdOf(n)' = None
               ELSE IdOf(n)' \in First(Master(n[1])) ..
                      (First(Master(n[1])) + Cardinality(Mine(Master(n[1]))) - 1)
    <3>1. CASE n \in Mine(p)
      BY <1>4, <1>6, <1>7, <3>1
    <3>2. CASE n \notin Mine(p)
      <4>1. Numbering(Master(n[1]))' <=> Numbering(Master(n[1]))
        BY <1>6, <1>7, <3>2
      <4>2. IdOf(n)' = IdOf(n)
        BY <1>7, <3>2
      <4>3. QED
        BY <1>2, <4>1, <4>2 DEF NumberInv
    <3>3. QED
      BY <3>1, <3>2
  <2>3. ASSUME NEW m \in nodes \ old, NEW n \in nodes \ old,
               Master(m[1]) = Master(n[1]), IdOf(m)' # None, IdOf(m)' = IdOf(n)'
        PROVE  m = n
    <3>1. CASE Master(m[1]) = p
      <4>1. m \in Mine(p) /\ n \in Mine(p)
        BY <1>7, <2>3, <3>1
      <4>2. IdOf(m)' = gid'[p][m] /\ IdOf(n)' = gid'[p][n]
        BY <1>7, <4>1
      <4>3. QED
        BY <1>4, <2>3, <4>1, <4>2
    <3>2. CASE Master(m[1]) # p
      <4>1. IdOf(m)' = IdOf(m) /\ IdOf(n)' = IdOf(n)
        BY <1>7, <2>3, <3>2
      <4>2. QED
        BY <1>2, <2>3, <4>1 DEF NumberInv
    <3>3. QED
      BY <3>1, <3>2
  <2>4. \A n \in nodes : First(Master(n[1]))' = First(Master(n[1]))
                         /\ Mine(Master(n[1]))' = Mine(Master(n[1]))
    BY <1>3, <1>7
  <2>5. QED
    BY <1>3, <2>1, <2>2, <2>3, <2>4 DEF NumberInv
<1>9. KnownInv'
  <2>1. ASSUME NEW q \in Rank, NEW n \in nodes
        PROVE  /\ gid'[q][n] # None => gid'[q][n] = IdOf(n)'
               /\ prank'[q][n] # None => prank'[q][n] = Master(n[1])
               /\ Slave(q, n) /\ gid'[q][n] # None => prank'[q][n] # None
               /\ n \in old /\ ~PureGhost(q, n) => gid'[q][n] # None
    <3>1. CASE n \in Mine(p) /\ q = p
      BY <1>1, <1>2, <1>4, <1>7, <3>1 DEF KnownInv, Slave, LocalOrMaster
    <3>2. CASE n \in Mine(p) /\ q # p
      <4>1. gid'[q][n] = gid[q][n] /\ IdOf(n) = None /\ n \notin old
        BY <1>4, <1>7, <3>2
      <4>2. gid[q][n] = None
        BY <1>2, <4>1 DEF KnownInv
      <4>3. QED
        BY <1>1, <1>2, <4>1, <4>2 DEF KnownInv
    <3>3. CASE n \notin Mine(p)
      BY <1>1, <1>2, <1>4, <1>7, <3>3 DEF KnownInv
    <3>4. QED
      BY <3>1, <3>2, <3>3
  <2>2. ASSUME NEW m \in mail, NEW n \in DOMAIN m.data, m.data[n].index # None
        PROVE  m.data[n].index = IdOf(n)' /\ m.data[n].node_prank = Master(n[1])
    <3>1. m.data[n].index = IdOf(n) /\ m.data[n].node_prank = Master(n[1]) /\ n \in nodes
      BY <1>2, <2>2 DEF KnownInv, TypeOK
    <3>2. IdOf(n)' = IdOf(n)
      BY <1>4, <1>7, <2>2, <3>1
    <3>3. QED
      BY <3>1, <3>2
  <2>3. QED
    BY <1>1, <1>3, <2>1, <2>2 DEF KnownInv
<1>10. ToldInv'
  <2>1. ASSUME NEW m \in mail'
        PROVE  MessageTells(m)'
    BY <1>1, <1>2, MessageStays DEF ToldInv
  <2>2. \A q \in Rank, n \in nodes : gid[q][n] # None => gid'[q][n] # None
    BY <1>4
  <2>3. ASSUME NEW q \in Rank
        PROVE  RankTold(q)'
    <3>1. /\ pc'[q] \in {"wait", "done"} => pc'[q] = pc[q]
          /\ Numbering(q)' => Numbering(q)
          /\ phase'[q] = phase[q] /\ waitFor'[q] = waitFor[q]
      BY <1>1, <1>6
    <3>2. RankTold(q)
      BY <1>2 DEF ToldInv
    <3>3. QED
      BY <1>1, <1>2, <2>2, <3>1, <3>2, RankStays
  <2>4. QED
    BY <2>1, <2>3 DEF ToldInv
<1>11. QED
  BY <1>3, <1>5, <1>8, <1>9, <1>10 DEF IInv

(* A message of p is true, and tells what is expected of it: of the nodes  *)
(* p is master of it knows the ids, and in the second communication those  *)
(* of all nodes of its own cohesive elements.                              *)
LEMMA PackedData ==
  ASSUME IInv, NEW p \in Rank, NEW q \in Rank \ {p}, pc[p] = "post",
         NEW ph, ph = phase[p], NEW data, data = PackData(p, ph, Scheme(ph, p, q))
  PROVE  /\ DOMAIN data \subseteq nodes
         /\ \A n \in DOMAIN data : /\ data[n].index \in Id \cup {None}
                                   /\ data[n].node_prank \in Rank \cup {None}
                                   /\ data[n].index # None =>
                                        /\ data[n].index = IdOf(n)
                                        /\ data[n].node_prank = Master(n[1])
         /\ \A f \in Scheme(ph, p, q) : \A n \in Connectivity(f) :
              Brings(ph, p, n) => n \in DOMAIN data /\ data[n].index # None
<1>1. /\ TypeOK /\ MeshInv /\ NumberInv /\ KnownInv /\ RankTold(p)
      /\ gid \in [Rank -> [nodes -> Id \cup {None}]]
      /\ prank \in [Rank -> [nodes -> Rank \cup {None}]]
      /\ ph \in {"reduce", "synchronize"}
  BY DEF IInv, TypeOK, ToldInv
<1>2. /\ DOMAIN data = UNION {Connectivity(f) : f \in Scheme(ph, p, q)}
      /\ \A n \in DOMAIN data :
           /\ data[n].index = IF PacksId(p, ph, n) THEN gid[p][n] ELSE None
           /\ data[n].node_prank = IF LocalOrMaster(p, n) THEN p ELSE prank[p][n]
  BY DEF PackData
<1>3. DOMAIN data \subseteq nodes
  BY <1>2 DEF Connectivity
<1>4. ASSUME NEW n \in DOMAIN data
      PROVE  /\ data[n].index \in Id \cup {None} /\ data[n].node_prank \in Rank \cup {None}
             /\ data[n].index # None =>
                  data[n].index = IdOf(n) /\ data[n].node_prank = Master(n[1])
  <2>1. n \in nodes
    BY <1>3
  <2>2. data[n].index \in Id \cup {None} /\ data[n].node_prank \in Rank \cup {None}
    BY <1>1, <1>2, <2>1
  <2>3. ASSUME data[n].index # None
        PROVE  data[n].index = IdOf(n) /\ data[n].node_prank = Master(n[1])
    <3>1. data[n].index = gid[p][n] /\ gid[p][n] # None /\ PacksId(p, ph, n)
      BY <1>2, <2>3
    <3>2. gid[p][n] = IdOf(n)
      BY <1>1, <2>1, <3>1 DEF KnownInv
    <3>3. CASE LocalOrMaster(p, n)
      BY <1>2, <3>1, <3>2, <3>3 DEF LocalOrMaster
    <3>4. CASE ~LocalOrMaster(p, n)
      <4>1. Slave(p, n)
        BY <3>1, <3>4 DEF PacksId, Slave
      <4>2. prank[p][n] = Master(n[1])
        BY <1>1, <2>1, <3>1, <4>1 DEF KnownInv
      <4>3. QED
        BY <1>2, <3>1, <3>2, <3>4, <4>2
    <3>5. QED
      BY <3>3, <3>4
  <2>4. QED
    BY <2>2, <2>3
<1>5. ASSUME NEW f \in Scheme(ph, p, q), NEW n \in Connectivity(f), Brings(ph, p, n)
      PROVE  n \in DOMAIN data /\ data[n].index # None
  <2>1. n \in DOMAIN data /\ n \in nodes /\ f \in cohesive /\ n[1] \in Corners(f)
    BY <1>2 DEF Connectivity, Scheme, Seen
  <2>2. /\ Master(n[1]) \in Rank
        /\ ~Numbering(Master(n[1])) => IdOf(n) # None
    BY <1>1, <2>1, IdsOfMasters
  <2>3. ~Numbering(p)
    BY DEF Numbering
  <2>4. CASE LocalOrMaster(p, n)
    <3>1. gid[p][n] # None
      BY <2>2, <2>3, <2>4 DEF LocalOrMaster, IdOf
    <3>2. PacksId(p, ph, n)
      BY <2>4, MasterIsNear, <1>1, <2>1 DEF PacksId, LocalOrMaster
    <3>3. QED
      BY <1>2, <2>1, <3>1, <3>2
  <2>5. CASE ~LocalOrMaster(p, n)
    <3>1. ph = "synchronize"
      BY <1>1, <1>5, <2>5 DEF Brings, LocalOrMaster
    <3>2. f \in Facet /\ Owner(f) = p
      BY <1>1, <2>1, <3>1 DEF Scheme, MeshInv
    <3>3. ~PureGhost(p, n)
      BY <3>2, <2>1, OwnerIsNear
    <3>4. f \in Scheme("reduce", Master(n[1]), p)
      BY <1>1, <2>1, <3>2, ReachesOwner
    <3>5. gid[p][n] # None
      BY <1>1, <2>2, <2>5, <3>1, <3>3, <3>4 DEF RankTold, Told, Brings, LocalOrMaster
    <3>6. QED
      BY <1>2, <2>1, <3>1, <3>3, <3>5 DEF PacksId
  <2>6. QED
    BY <2>4, <2>5
<1>6. QED
  BY <1>3, <1>4, <1>5

(* Posting a communication keeps it: the messages are true and tell what   *)
(* is expected of them.                                                    *)
LEMMA PostCommInv ==
  ASSUME IInv, NEW p \in Rank, PostComm(p)
  PROVE  IInv'
<1>ph. PICK ph : ph = phase[p]
  OBVIOUS
<1>1. /\ UNCHANGED mesh /\ UNCHANGED <<gid, prank>> /\ phase' = phase /\ pc[p] = "post"
      /\ pc' = [pc EXCEPT ![p] = "wait"]
      /\ waitFor' = [waitFor EXCEPT ![p] = Sources(p, ph)]
      /\ mail' = mail \cup
           {[src |-> p, dst |-> q, phase |-> ph, data |-> PackData(p, ph, Scheme(ph, p, q))] :
              q \in Destinations(p, ph)}
  BY <1>ph DEF PostComm
<1>2. /\ TypeOK /\ MeshInv /\ NumberInv /\ KnownInv /\ ToldInv
      /\ pc \in [Rank -> {"begin", "allReduce", "scan", "post", "wait", "done"}]
      /\ waitFor \in [Rank -> SUBSET Rank] /\ ph \in {"reduce", "synchronize"}
  BY <1>ph DEF IInv, TypeOK
<1>3. nodes' = nodes /\ MeshInv' /\ Id' = Id /\ old' = old
  BY <1>1, <1>2, MeshSame DEF Id
<1>4. \A m \in mail' : m \in mail \/ \E q \in Rank \ {p} :
        m = [src |-> p, dst |-> q, phase |-> ph, data |-> PackData(p, ph, Scheme(ph, p, q))]
  BY <1>1 DEF Destinations
<1>5. ASSUME NEW m \in mail'
      PROVE  /\ m.src \in Rank /\ m.dst \in Rank \ {m.src}
             /\ m.phase \in {"reduce", "synchronize"} /\ DOMAIN m.data \subseteq nodes
             /\ \A n \in DOMAIN m.data : /\ m.data[n].index \in Id \cup {None}
                                         /\ m.data[n].node_prank \in Rank \cup {None}
                                         /\ m.data[n].index # None =>
                                              /\ m.data[n].index = IdOf(n)
                                              /\ m.data[n].node_prank = Master(n[1])
             /\ MessageTells(m)
  <2>1. CASE m \in mail
    BY <1>2, <2>1 DEF TypeOK, KnownInv, ToldInv
  <2>2. CASE m \notin mail
    <3>1. PICK q \in Rank \ {p} :
            m = [src |-> p, dst |-> q, phase |-> ph, data |-> PackData(p, ph, Scheme(ph, p, q))]
      BY <1>4, <2>2
    <3>2. /\ m.src = p /\ m.dst = q /\ m.phase = ph
          /\ m.data = PackData(p, ph, Scheme(ph, p, q))
      BY <3>1
    <3>3. PICK data : data = m.data
      OBVIOUS
    <3>4. /\ DOMAIN data \subseteq nodes
          /\ \A n \in DOMAIN data : /\ data[n].index \in Id \cup {None}
                                    /\ data[n].node_prank \in Rank \cup {None}
                                    /\ data[n].index # None =>
                                         /\ data[n].index = IdOf(n)
                                         /\ data[n].node_prank = Master(n[1])
          /\ \A f \in Scheme(ph, p, q) : \A n \in Connectivity(f) :
               Brings(ph, p, n) => n \in DOMAIN data /\ data[n].index # None
      BY <1>ph, <1>1, <3>2, <3>3, PackedData
    <3>5. MessageTells(m)
      BY <3>2, <3>3, <3>4 DEF MessageTells
    <3>6. QED
      BY <1>2, <3>2, <3>3, <3>4, <3>5
  <2>3. QED
    BY <2>1, <2>2
<1>6. TypeOK'
  <2>1. Sources(p, ph) \in SUBSET Rank
    BY DEF Sources
  <2>2. /\ pc' \in [Rank -> {"begin", "allReduce", "scan", "post", "wait", "done"}]
        /\ waitFor' \in [Rank -> SUBSET Rank]
    BY <1>1, <1>2, <2>1
  <2>3. /\ phase' \in [Rank -> {"reduce", "synchronize"}]
        /\ gid' \in [Rank -> [nodes -> Id \cup {None}]]
        /\ prank' \in [Rank -> [nodes -> Rank \cup {None}]]
    BY <1>1, <1>2 DEF TypeOK
  <2>4. QED
    BY <1>3, <1>5, <2>2, <2>3 DEF TypeOK
<1>7. \A q \in Rank : (Numbering(q)' <=> Numbering(q)) /\ (q # p => pc'[q] = pc[q])
                      /\ pc'[p] = "wait"
  BY <1>1, <1>2 DEF Numbering
<1>8. \A n : IdOf(n)' = IdOf(n)
  BY <1>1 DEF IdOf
<1>9. NumberInv'
  BY <1>1, <1>2, <1>7, <1>8, NumberSame
<1>10. KnownInv'
  <2>1. \A q \in Rank, n \in nodes :
          /\ gid[q][n] # None => gid[q][n] = IdOf(n)
          /\ prank[q][n] # None => prank[q][n] = Master(n[1])
          /\ Slave(q, n) /\ gid[q][n] # None => prank[q][n] # None
          /\ n \in old /\ ~PureGhost(q, n) => gid[q][n] # None
    BY <1>2 DEF KnownInv
  <2>2. QED
    BY <1>1, <1>3, <1>5, <1>8, <2>1 DEF KnownInv
<1>11. ToldInv'
  <2>1. ASSUME NEW m \in mail'
        PROVE  MessageTells(m)'
    BY <1>1, <1>2, <1>5, MessageStays
  <2>2. ASSUME NEW q \in Rank, q # p
        PROVE  RankTold(q)'
    <3>1. /\ pc'[q] = pc[q] /\ (Numbering(q)' => Numbering(q))
          /\ phase'[q] = phase[q] /\ waitFor'[q] = waitFor[q] /\ RankTold(q)
      BY <1>1, <1>2, <1>7, <2>2 DEF ToldInv
    <3>2. QED
      BY <1>1, <1>2, <3>1, RankStays
  <2>3. RankTold(p)'
    <3>1. \A q, h : Told(p, h, q) => Told(p, h, q)'
      BY <1>1, <1>2, ToldStays
    <3>2. /\ phase'[p] = ph /\ pc'[p] = "wait" /\ waitFor'[p] = Sources(p, ph)
          /\ ~Numbering(p)' /\ RankTold(p)
      BY <1>ph, <1>1, <1>2, <1>7 DEF Numbering, ToldInv
    <3>3. ASSUME NEW q \in (Rank \ {p}) \ Sources(p, ph)
          PROVE  Told(p, ph, q)
      BY DEF Sources, Told
    <3>4. ph = "synchronize" => \A q \in Rank \ {p} : Told(p, "reduce", q)
      BY <1>ph, <3>2 DEF RankTold
    <3>5. QED
      BY <3>1, <3>2, <3>3, <3>4 DEF RankTold
  <2>4. QED
    BY <2>1, <2>2, <2>3 DEF ToldInv
<1>12. QED
  BY <1>3, <1>6, <1>9, <1>10, <1>11 DEF IInv

(* What unpackData does to ids and ranks: a slave takes what its master    *)
(* has given, and keeps what it has.                                       *)
LEMMA UnpackedIds ==
  ASSUME IInv, NEW p \in Rank, NEW m \in mail, UnpackData(p, m)
  PROVE  /\ \A q \in Rank, n \in nodes :
              gid'[q][n] = IF q = p /\ Takes(p, m, n) THEN IdOf(n) ELSE gid[q][n]
         /\ \A q \in Rank, n \in nodes :
              prank'[q][n] = IF q = p /\ Takes(p, m, n) THEN Master(n[1]) ELSE prank[q][n]
         /\ \A n \in nodes : Takes(p, m, n) => IdOf(n) # None /\ Slave(p, n)
         /\ \A n \in nodes : IdOf(n)' = IdOf(n)
         /\ gid' \in [Rank -> [nodes -> Id \cup {None}]]
         /\ prank' \in [Rank -> [nodes -> Rank \cup {None}]]
<1>1. /\ MeshInv /\ KnownInv /\ DOMAIN m.data \subseteq nodes
      /\ \A n \in DOMAIN m.data : /\ m.data[n].index \in Id \cup {None}
                                  /\ m.data[n].node_prank \in Rank \cup {None}
      /\ gid \in [Rank -> [nodes -> Id \cup {None}]]
      /\ prank \in [Rank -> [nodes -> Rank \cup {None}]]
  BY DEF IInv, TypeOK
<1>2. /\ gid' = [gid EXCEPT ![p] =
           [n \in nodes |-> IF Takes(p, m, n) THEN m.data[n].index ELSE @[n]]]
      /\ prank' = [prank EXCEPT ![p] =
           [n \in nodes |-> IF Takes(p, m, n) THEN m.data[n].node_prank ELSE @[n]]]
  BY DEF UnpackData
<1>3. \A n \in nodes : Takes(p, m, n) =>
        /\ m.data[n].index = IdOf(n) /\ m.data[n].node_prank = Master(n[1])
        /\ IdOf(n) # None /\ Slave(p, n)
        /\ m.data[n].index \in Id \cup {None} /\ m.data[n].node_prank \in Rank \cup {None}
  BY <1>1 DEF Takes, KnownInv
<1>4. /\ gid' \in [Rank -> [nodes -> Id \cup {None}]]
      /\ prank' \in [Rank -> [nodes -> Rank \cup {None}]]
  BY <1>1, <1>2, <1>3
<1>5. \A q \in Rank, n \in nodes :
        /\ gid'[q][n] = IF q = p /\ Takes(p, m, n) THEN IdOf(n) ELSE gid[q][n]
        /\ prank'[q][n] = IF q = p /\ Takes(p, m, n) THEN Master(n[1]) ELSE prank[q][n]
  BY <1>1, <1>2, <1>3
<1>6. ASSUME NEW n \in nodes
      PROVE  IdOf(n)' = IdOf(n)
  <2>1. Master(n[1]) \in Rank
    BY <1>1, NodesOfSites, MasterOfSite
  <2>2. Takes(p, m, n) => Master(n[1]) # p
    BY <1>3 DEF Slave, LocalOrMaster
  <2>3. QED
    BY <1>5, <2>1, <2>2 DEF IdOf
<1>7. QED
  BY <1>3, <1>4, <1>5, <1>6

(* Unpacking a message keeps it: what is taken is what the master says,    *)
(* and the sender has told the rank what it is expected to.                *)
LEMMA UnpackDataInv ==
  ASSUME IInv, NEW p \in Rank, NEW m \in mail, UnpackData(p, m)
  PROVE  IInv'
<1>1. /\ UNCHANGED mesh /\ pc' = pc /\ phase' = phase /\ pc[p] = "wait"
      /\ mail' = mail \ {m} /\ waitFor' = [waitFor EXCEPT ![p] = @ \ {m.src}]
      /\ m.dst = p /\ m.phase = phase[p]
  BY DEF UnpackData
<1>2. /\ TypeOK /\ MeshInv /\ NumberInv /\ KnownInv /\ ToldInv
      /\ waitFor \in [Rank -> SUBSET Rank]
  BY DEF IInv, TypeOK
<1>3. nodes' = nodes /\ old' = old /\ MeshInv' /\ Id' = Id
  BY <1>1, <1>2, MeshSame DEF Id
<1>4. /\ \A q \in Rank, n \in nodes :
           gid'[q][n] = IF q = p /\ Takes(p, m, n) THEN IdOf(n) ELSE gid[q][n]
      /\ \A q \in Rank, n \in nodes :
           prank'[q][n] = IF q = p /\ Takes(p, m, n) THEN Master(n[1]) ELSE prank[q][n]
      /\ \A n \in nodes : Takes(p, m, n) => IdOf(n) # None /\ Slave(p, n)
      /\ \A n \in nodes : IdOf(n)' = IdOf(n)
      /\ gid' \in [Rank -> [nodes -> Id \cup {None}]]
      /\ prank' \in [Rank -> [nodes -> Rank \cup {None}]]
  BY UnpackedIds
<1>5. \A q \in Rank, n \in nodes : gid[q][n] # None => gid'[q][n] # None
  BY <1>4
<1>6. TypeOK'
  <2>1. waitFor' \in [Rank -> SUBSET Rank]
    BY <1>1, <1>2
  <2>2. QED
    BY <1>1, <1>2, <1>3, <1>4, <2>1 DEF TypeOK
<1>7. \A q \in Rank : Numbering(q)' <=> Numbering(q)
  BY <1>1 DEF Numbering
<1>8. NumberInv'
  BY <1>1, <1>2, <1>4, <1>7, NumberSame
<1>9. KnownInv'
  <2>1. ASSUME NEW q \in Rank, NEW n \in nodes
        PROVE  /\ gid'[q][n] # None => gid'[q][n] = IdOf(n)'
               /\ prank'[q][n] # None => prank'[q][n] = Master(n[1])
               /\ Slave(q, n) /\ gid'[q][n] # None => prank'[q][n] # None
               /\ n \in old /\ ~PureGhost(q, n) => gid'[q][n] # None
    <3>1. /\ gid[q][n] # None => gid[q][n] = IdOf(n)
          /\ prank[q][n] # None => prank[q][n] = Master(n[1])
          /\ Slave(q, n) /\ gid[q][n] # None => prank[q][n] # None
          /\ n \in old /\ ~PureGhost(q, n) => gid[q][n] # None
      BY <1>2 DEF KnownInv
    <3>2. Master(n[1]) # None
      <4>1. Master(n[1]) \in Rank
        BY <1>2, NodesOfSites, MasterOfSite
      <4>2. QED
        BY <4>1, NbProcAssumption DEF Rank, None
    <3>3. QED
      BY <1>4, <3>1, <3>2
  <2>2. ASSUME NEW k \in mail, NEW n \in DOMAIN k.data, k.data[n].index # None
        PROVE  k.data[n].index = IdOf(n)' /\ k.data[n].node_prank = Master(n[1])
    <3>1. k.data[n].index = IdOf(n) /\ k.data[n].node_prank = Master(n[1]) /\ n \in nodes
      BY <1>2, <2>2 DEF KnownInv, TypeOK
    <3>2. QED
      BY <1>4, <3>1
  <2>3. QED
    BY <1>1, <1>3, <2>1, <2>2 DEF KnownInv
<1>10. ToldInv'
  <2>1. ASSUME NEW k \in mail'
        PROVE  MessageTells(k)'
    BY <1>1, <1>2, MessageStays DEF ToldInv
  <2>2. ASSUME NEW q \in Rank, q # p
        PROVE  RankTold(q)'
    <3>1. /\ Numbering(q)' => Numbering(q)
          /\ phase'[q] = phase[q] /\ waitFor'[q] = waitFor[q] /\ pc'[q] = pc[q] /\ RankTold(q)
      BY <1>1, <1>2, <1>7, <2>2 DEF ToldInv
    <3>2. QED
      BY <1>1, <1>2, <1>5, <3>1, RankStays
  <2>3. RankTold(p)'
    <3>1. \A q, h : Told(p, h, q) => Told(p, h, q)'
      BY <1>1, <1>2, <1>5, ToldStays
    <3>2. PICK ph : ph = phase[p]
      OBVIOUS
    <3>3. PICK src : src = m.src
      OBVIOUS
    <3>4. /\ phase'[p] = ph /\ pc'[p] = "wait" /\ waitFor'[p] = waitFor[p] \ {src}
          /\ (Numbering(p)' <=> Numbering(p)) /\ RankTold(p)
      BY <1>1, <1>2, <1>7, <3>2, <3>3 DEF ToldInv
    <3>5. Told(p, ph, src)'
      <4>1. ASSUME NEW f \in Scheme(ph, src, p), NEW n \in Connectivity(f),
                   Brings(ph, src, n), ~PureGhost(p, n)
            PROVE  gid'[p][n] # None
        <5>1. n \in nodes /\ Master(n[1]) \in Rank
          BY <1>2, NodesOfSites, MasterOfSite DEF Connectivity
        <5>2. n \in DOMAIN m.data /\ m.data[n].index # None
          BY <1>1, <1>2, <3>2, <3>3, <4>1 DEF ToldInv, MessageTells
        <5>3. CASE LocalOrMaster(p, n)
          <6>1. gid[p][n] = IdOf(n) /\ m.data[n].index = IdOf(n)
            BY <1>2, <5>2, <5>3 DEF LocalOrMaster, IdOf, KnownInv
          <6>2. QED
            BY <1>5, <5>1, <5>2, <6>1
        <5>4. CASE ~LocalOrMaster(p, n)
          BY <1>4, <4>1, <5>1, <5>2, <5>4 DEF Takes, Slave
        <5>5. QED
          BY <5>3, <5>4
      <4>2. Scheme(ph, src, p)' = Scheme(ph, src, p) /\ \A f : Connectivity(f)' = Connectivity(f)
        BY <1>1, <1>2, MeshSame
      <4>3. QED
        BY <4>1, <4>2 DEF Told, Brings
    <3>6. \A q \in (Rank \ {p}) \ (waitFor[p] \ {src}) : Told(p, ph, q)'
      BY <1>1, <3>1, <3>2, <3>4, <3>5 DEF RankTold
    <3>7. ph = "synchronize" => ~Numbering(p) /\ \A q \in Rank \ {p} : Told(p, "reduce", q)'
      BY <3>1, <3>2, <3>4 DEF RankTold
    <3>8. QED
      BY <3>4, <3>6, <3>7 DEF RankTold
  <2>4. QED
    BY <2>1, <2>2, <2>3 DEF ToldInv
<1>11. QED
  BY <1>3, <1>6, <1>8, <1>9, <1>10 DEF IInv

(* The end of a communication keeps it: with no receive left the rank has  *)
(* been told by everyone.                                                  *)
LEMMA EndCommInv ==
  ASSUME IInv, NEW p \in Rank, EndComm(p)
  PROVE  IInv'
<1>1. /\ UNCHANGED mesh /\ UNCHANGED <<gid, prank>> /\ mail' = mail /\ waitFor' = waitFor
      /\ pc[p] = "wait" /\ waitFor[p] = {}
      /\ \/ /\ phase[p] = "reduce" /\ phase' = [phase EXCEPT ![p] = "synchronize"]
            /\ pc' = [pc EXCEPT ![p] = "post"]
         \/ /\ phase[p] # "reduce" /\ phase' = phase
            /\ pc' = [pc EXCEPT ![p] = "done"]
  BY DEF EndComm
<1>2. /\ TypeOK /\ MeshInv /\ NumberInv /\ KnownInv /\ ToldInv
      /\ pc \in [Rank -> {"begin", "allReduce", "scan", "post", "wait", "done"}]
      /\ phase \in [Rank -> {"reduce", "synchronize"}]
  BY DEF IInv, TypeOK
<1>3. nodes' = nodes /\ MeshInv' /\ Id' = Id
  BY <1>1, <1>2, MeshSame DEF Id
<1>4. TypeOK'
  <2>1. /\ pc' \in [Rank -> {"begin", "allReduce", "scan", "post", "wait", "done"}]
        /\ phase' \in [Rank -> {"reduce", "synchronize"}]
    BY <1>1, <1>2
  <2>2. QED
    BY <1>1, <1>2, <1>3, <2>1 DEF TypeOK
<1>5. \A q \in Rank : (Numbering(q)' <=> Numbering(q)) /\ (q # p => pc'[q] = pc[q])
  BY <1>1, <1>2 DEF Numbering
<1>6. KnownInv' /\ \A n \in nodes : IdOf(n)' = IdOf(n)
  BY <1>1, <1>2, KnownSame
<1>7. NumberInv'
  BY <1>1, <1>2, <1>5, <1>6, NumberSame
<1>8. ToldInv'
  <2>1. ASSUME NEW m \in mail'
        PROVE  MessageTells(m)'
    BY <1>1, <1>2, MessageStays DEF ToldInv
  <2>2. ASSUME NEW q \in Rank, q # p
        PROVE  RankTold(q)'
    <3>1. /\ Numbering(q)' => Numbering(q)
          /\ phase'[q] = phase[q] /\ waitFor'[q] = waitFor[q] /\ pc'[q] = pc[q] /\ RankTold(q)
      BY <1>1, <1>2, <1>5, <2>2 DEF ToldInv
    <3>2. QED
      BY <1>1, <1>2, <3>1, RankStays
  <2>3. RankTold(p)'
    <3>1. \A q, h : Told(p, h, q) => Told(p, h, q)'
      BY <1>1, <1>2, ToldStays
    <3>2. PICK ph : ph = phase[p]
      OBVIOUS
    <3>3. /\ RankTold(p) /\ ~Numbering(p)' /\ ph \in {"reduce", "synchronize"}
      BY <1>1, <1>2, <1>5, <3>2 DEF ToldInv, Numbering
    <3>4. \A q \in Rank \ {p} : Told(p, ph, q)'
      BY <1>1, <3>1, <3>2, <3>3 DEF RankTold
    <3>5. CASE ph = "reduce"
      <4>1. phase'[p] = "synchronize" /\ pc'[p] = "post"
        BY <1>1, <1>2, <3>2, <3>5
      <4>2. QED
        BY <3>3, <3>4, <3>5, <4>1 DEF RankTold
    <3>6. CASE ph = "synchronize"
      <4>1. phase'[p] = "synchronize" /\ pc'[p] = "done"
        BY <1>1, <1>2, <3>2, <3>6
      <4>2. \A q \in Rank \ {p} : Told(p, "reduce", q)'
        BY <3>1, <3>2, <3>3, <3>6 DEF RankTold
      <4>3. QED
        BY <3>3, <3>4, <3>6, <4>1, <4>2 DEF RankTold
    <3>7. QED
      BY <3>3, <3>5, <3>6
  <2>4. QED
    BY <2>1, <2>2, <2>3 DEF ToldInv
<1>9. QED
  BY <1>3, <1>4, <1>6, <1>7, <1>8 DEF IInv

-----------------------------------------------------------------------------
(* The theorems.                                                           *)

(* A step that changes nothing keeps it.                                   *)
LEMMA StutterIInv ==
  ASSUME IInv, UNCHANGED vars
  PROVE  IInv'
<1>1. /\ cohesive' = cohesive /\ nodes' = nodes /\ old' = old /\ pc' = pc /\ phase' = phase
      /\ gid' = gid /\ prank' = prank /\ mail' = mail /\ waitFor' = waitFor
      /\ UNCHANGED mesh /\ UNCHANGED <<gid, prank>>
  BY DEF vars, mesh
<1>2. TypeOK /\ MeshInv /\ NumberInv /\ KnownInv /\ ToldInv
  BY DEF IInv
<1>3. TypeOK' /\ MeshInv'
  BY <1>1, <1>2, MeshSame DEF TypeOK, Id
<1>4. KnownInv' /\ \A n \in nodes : IdOf(n)' = IdOf(n)
  BY <1>1, <1>2, KnownSame
<1>5. \A q \in Rank : Numbering(q)' <=> Numbering(q)
  BY <1>1 DEF Numbering
<1>6. NumberInv'
  BY <1>1, <1>2, <1>4, <1>5, NumberSame
<1>7. ToldInv'
  <2>1. ASSUME NEW m \in mail'
        PROVE  MessageTells(m)'
    BY <1>1, <1>2, MessageStays DEF ToldInv
  <2>2. ASSUME NEW q \in Rank
        PROVE  RankTold(q)'
    BY <1>1, <1>2, <1>5, RankStays DEF ToldInv
  <2>3. QED
    BY <2>1, <2>2 DEF ToldInv
<1>8. QED
  BY <1>3, <1>4, <1>6, <1>7 DEF IInv

(* Every step keeps the inductive invariant.                               *)
LEMMA NextIInv == IInv /\ [Next]_vars => IInv'
<1> SUFFICES ASSUME IInv, [Next]_vars
             PROVE  IInv'
  OBVIOUS
<1>1. ASSUME NEW p \in Rank, RankStep(p)
      PROVE  IInv'
  <2>1. CASE CountNodes(p)
    BY <2>1, CountNodesInv
  <2>2. CASE CountsReduced(p)
    BY <2>2, CountsReducedInv
  <2>3. CASE NumberNodes(p)
    BY <2>3, NumberNodesInv
  <2>4. CASE PostComm(p)
    BY <2>4, PostCommInv
  <2>5. ASSUME NEW m \in mail, UnpackData(p, m)
        PROVE  IInv'
    BY <2>5, UnpackDataInv
  <2>6. CASE SendsReceived(p)
    BY <2>6, EndCommInv DEF SendsReceived
  <2>7. QED
    BY <1>1, <2>1, <2>2, <2>3, <2>4, <2>5, <2>6 DEF RankStep
<1>2. ASSUME NEW p \in Rank, SendsBuffered(p)
      PROVE  IInv'
  BY <1>2, EndCommInv DEF SendsBuffered
<1>3. CASE UNCHANGED vars
  BY <1>3, StutterIInv
<1>4. QED
  BY <1>1, <1>2, <1>3 DEF Next, Terminated

(* The inductive invariant holds in every state of updateGlobalIDs, for    *)
(* every number of ranks, every mesh and every set of cut facets.          *)
THEOREM Invariance == FairSpec => []IInv
  BY InitIInv, NextIInv, PTL DEF FairSpec

(* Type correctness: an id is one of the first numbers, as many as there   *)
(* are nodes.                                                              *)
THEOREM TypesHold == FairSpec => []TypeOK
<1>1. IInv => TypeOK
  BY DEF IInv
<1>2. QED
  BY <1>1, Invariance, PTL

(* Old nodes have the numbers below NbSites, new ones those from there on, *)
(* and the numbers of two masters are apart.                               *)
LEMMA UniqueInIInv == IInv => IdsUnique
<1> SUFFICES ASSUME IInv, NEW p \in Rank, NEW q \in Rank, NEW m \in nodes, NEW n \in nodes,
                    gid[p][m] # None, gid[q][n] # None
             PROVE  gid[p][m] = gid[q][n] <=> m = n
  BY DEF IdsUnique
<1>1. MeshInv /\ NumberInv /\ KnownInv
  BY DEF IInv
<1>2. gid[p][m] = IdOf(m) /\ gid[q][n] = IdOf(n) /\ IdOf(m) # None /\ IdOf(n) # None
  BY <1>1 DEF KnownInv
<1>3. \A k \in nodes : k[1] \in Site /\ Master(k[1]) \in Rank
  BY <1>1, NodesOfSites, MasterOfSite
<1>4. ASSUME NEW k \in nodes, IdOf(k) # None
      PROVE  IF k \in old THEN IdOf(k) = k[1] /\ k[1] \in Int /\ k[1] < NbSites
             ELSE LET r == Master(k[1])
                  IN  IdOf(k) \in First(r) .. (First(r) + Cardinality(Mine(r)) - 1)
                      /\ First(r) \in Nat /\ First(r) >= NbSites
  <2>1. k \in old => IdOf(k) = k[1]
    BY <1>1 DEF NumberInv
  <2>2. k[1] \in Int /\ k[1] < NbSites
    BY <1>3, NbProcAssumption DEF Site
  <2>3. First(Master(k[1])) \in Nat /\ First(Master(k[1])) >= NbSites
    BY <1>1, <1>3, NumbersApart
  <2>4. k \notin old => IdOf(k) \in First(Master(k[1])) ..
                          (First(Master(k[1])) + Cardinality(Mine(Master(k[1]))) - 1)
    BY <1>1, <1>4 DEF NumberInv
  <2>5. QED
    BY <2>1, <2>2, <2>3, <2>4
<1>5. SUFFICES ASSUME IdOf(m) = IdOf(n)
               PROVE  m = n
  BY <1>2
<1>6. CASE m \in old /\ n \in old
  <2>1. m[1] = n[1] /\ m[1] \in Site
    BY <1>2, <1>3, <1>4, <1>5, <1>6
  <2>2. PICK s \in Site : s = m[1]
    BY <2>1
  <2>3. Cardinality({k \in old : k[1] = s}) = 1 /\ IsFiniteSet({k \in old : k[1] = s})
    <3>1. IsFiniteSet(old)
      BY <1>1, NodesOfSites
    <3>2. IsFiniteSet({k \in old : k[1] = s})
      BY <3>1, FS_Subset
    <3>3. QED
      BY <1>1, <3>2 DEF MeshInv
  <2>4. PICK x : {k \in old : k[1] = s} = {x}
    <3> DEFINE S == {k \in old : k[1] = s}
    <3>1. Cardinality(S) = 1 /\ IsFiniteSet(S)
      BY <2>3
    <3> HIDE DEF S
    <3>2. \E x : S = {x}
      BY <3>1, FS_Singleton
    <3>3. QED
      BY <3>2 DEF S
  <2>5. QED
    BY <1>6, <2>1, <2>2, <2>4
<1>7. CASE ~(m \in old <=> n \in old)
  <2>1. ASSUME NEW a \in nodes, NEW b \in nodes, a \in old, b \notin old,
               IdOf(a) # None, IdOf(a) = IdOf(b)
        PROVE  FALSE
    <3>1. IdOf(a) = a[1] /\ a[1] \in Int /\ a[1] < NbSites
      BY <1>4, <2>1
    <3>2. IdOf(b) \in First(Master(b[1])) ..
                        (First(Master(b[1])) + Cardinality(Mine(Master(b[1]))) - 1)
          /\ First(Master(b[1])) \in Nat /\ First(Master(b[1])) >= NbSites
      BY <1>4, <2>1
    <3>3. QED
      BY <2>1, <3>1, <3>2, NbProcAssumption
  <2>2. QED
    BY <1>2, <1>5, <1>7, <2>1
<1>8. CASE m \notin old /\ n \notin old
  <2>1. ASSUME NEW a \in nodes, NEW b \in nodes, a \notin old, b \notin old,
               IdOf(a) # None, IdOf(a) = IdOf(b), Master(a[1]) < Master(b[1])
        PROVE  FALSE
    <3>1. PICK r \in Rank, t \in Rank : r = Master(a[1]) /\ t = Master(b[1])
      BY <1>3
    <3>2. IdOf(a) \in First(r) .. (First(r) + Cardinality(Mine(r)) - 1)
          /\ IdOf(b) \in First(t) .. (First(t) + Cardinality(Mine(t)) - 1)
      BY <1>4, <2>1, <3>1
    <3>3. /\ First(r) \in Nat /\ Cardinality(Mine(r)) \in Nat
          /\ First(t) \in Nat /\ Cardinality(Mine(t)) \in Nat
          /\ First(r) + Cardinality(Mine(r)) <= First(t)
      BY <1>1, <2>1, <3>1, NumbersApart
    <3>4. QED
      BY <2>1, <3>2, <3>3
  <2>2. Master(m[1]) \in Int /\ Master(n[1]) \in Int
    BY <1>3, NbProcAssumption DEF Rank
  <2>3. Master(m[1]) = Master(n[1])
    BY <1>2, <1>5, <1>8, <2>1, <2>2
  <2>4. QED
    BY <1>1, <1>2, <1>5, <1>8, <2>3 DEF NumberInv
<1>9. QED
  BY <1>6, <1>7, <1>8

(* No two nodes have the same global id, and no node two, on whatever      *)
(* ranks they are known.                                                   *)
THEOREM IdsAreUnique == FairSpec => []IdsUnique
  BY UniqueInIInv, Invariance, PTL

(* A rank that is done has been told by the owners of its cohesive         *)
(* elements, which have been told by the masters.                          *)
LEMMA CompleteInIInv == IInv => IdsComplete
<1> SUFFICES ASSUME IInv, NEW p \in Rank, pc[p] = "done", NEW n \in nodes, ~PureGhost(p, n)
             PROVE  gid[p][n] # None /\ (Slave(p, n) => prank[p][n] = Master(n[1]))
  BY DEF IdsComplete, Slave
<1>1. MeshInv /\ NumberInv /\ KnownInv /\ RankTold(p) /\ ~Numbering(p)
  BY DEF IInv, ToldInv, Numbering
<1>2. Master(n[1]) \in Rank
  BY <1>1, IdsOfMasters
<1>3. gid[p][n] # None
  <2>1. CASE LocalOrMaster(p, n)
    <3>1. IdOf(n) # None
      BY <1>1, <2>1, IdsOfMasters DEF LocalOrMaster
    <3>2. QED
      BY <2>1, <3>1 DEF LocalOrMaster, IdOf
  <2>2. CASE n \in old
    BY <1>1, <2>2 DEF KnownInv
  <2>3. CASE ~LocalOrMaster(p, n) /\ n \notin old
    <3>1. PICK f \in cohesive : n \in Connectivity(f)
      BY <1>1, <2>3, NewNodesAreCohesive
    <3>2. f \in Facet /\ n[1] \in Corners(f) /\ Owner(f) \in Rank
      BY <1>1, <3>1, OwnerOfFacet DEF MeshInv, Connectivity
    <3>3. /\ \A q \in Rank \ {p} : Told(p, "reduce", q)
          /\ \A q \in Rank \ {p} : Told(p, "synchronize", q)
      BY <1>1 DEF RankTold
    <3>4. CASE Owner(f) = p
      <4>1. f \in Scheme("reduce", Master(n[1]), p)
        BY <1>1, <3>1, <3>2, <3>4, ReachesOwner
      <4>2. Told(p, "reduce", Master(n[1]))
        BY <1>2, <2>3, <3>3 DEF LocalOrMaster
      <4>3. QED
        BY <3>1, <4>1, <4>2 DEF Told, Brings
    <3>5. CASE Owner(f) # p
      <4>1. f \in Seen(p)
        BY <1>1, <3>2, SeesWhatIsNear
      <4>2. f \in Seen(Owner(f))
        BY <1>1, <3>2, OwnerIsNear, SeesWhatIsNear
      <4>3. f \in Scheme("synchronize", Owner(f), p)
        BY <4>1, <4>2 DEF Scheme
      <4>4. Told(p, "synchronize", Owner(f))
        BY <3>2, <3>3, <3>5
      <4>5. QED
        BY <3>1, <4>3, <4>4 DEF Told, Brings
    <3>6. QED
      BY <3>4, <3>5
  <2>4. QED
    BY <2>1, <2>2, <2>3
<1>4. QED
  BY <1>1, <1>3 DEF KnownInv

(* When updateGlobalIDs returns on a rank, the rank knows the ids of its   *)
(* nodes and the masters of its slaves, by whatever way they came.         *)
THEOREM IdsAreComplete == FairSpec => []IdsComplete
  BY CompleteInIInv, Invariance, PTL

(* A step gives an id where there is none, or the master's again.          *)
LEMMA StepKeepsIds ==
  ASSUME IInv, [Next]_vars, NEW p \in Rank, NEW n \in nodes
  PROVE  /\ gid[p][n] # None => gid'[p][n] = gid[p][n]
         /\ prank[p][n] # None => prank'[p][n] = prank[p][n]
<1>1. /\ gid[p][n] # None => gid[p][n] = IdOf(n)
      /\ prank[p][n] # None => prank[p][n] = Master(n[1])
  BY DEF IInv, KnownInv
<1>2. ASSUME NEW q \in Rank, NumberNodes(q)
      PROVE  prank' = prank /\ (gid[p][n] # None => gid'[p][n] = gid[p][n])
  <2>1. prank' = prank
    BY <1>2 DEF NumberNodes
  <2>2. /\ \A r \in Rank, k \in nodes : r # q \/ k \notin Mine(q) => gid'[r][k] = gid[r][k]
        /\ \A k \in Mine(q) : gid[q][k] = None
    BY <1>2, NumberNodesIds
  <2>3. QED
    BY <2>1, <2>2
<1>3. ASSUME NEW q \in Rank, NEW m \in mail, UnpackData(q, m)
      PROVE  /\ gid[p][n] # None => gid'[p][n] = gid[p][n]
             /\ prank[p][n] # None => prank'[p][n] = prank[p][n]
  <2>1. /\ gid'[p][n] = IF p = q /\ Takes(q, m, n) THEN IdOf(n) ELSE gid[p][n]
        /\ prank'[p][n] = IF p = q /\ Takes(q, m, n) THEN Master(n[1]) ELSE prank[p][n]
    BY <1>3, UnpackedIds
  <2>2. QED
    BY <1>1, <2>1
<1>4. CASE UNCHANGED <<gid, prank>>
  BY <1>4
<1>5. QED
  BY <1>2, <1>3, <1>4
    DEF Next, RankStep, CountNodes, CountsReduced, PostComm, SendsReceived, SendsBuffered,
        EndComm, Terminated, vars

(* A rank never replaces an id or a master it knows: the assertions of     *)
(* unpackData hold whatever the order of the messages.                     *)
THEOREM IdsAreKept == FairSpec => KeepsIds
<1>1. IInv /\ [Next]_vars =>
        [\A p \in Rank, n \in nodes :
           /\ gid[p][n] # None => gid'[p][n] = gid[p][n]
           /\ prank[p][n] # None => prank'[p][n] = prank[p][n]]_vars
  BY StepKeepsIds
<1>2. QED
  BY <1>1, Invariance, PTL DEF FairSpec, KeepsIds
=============================================================================
