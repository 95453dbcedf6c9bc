------------------------- MODULE GatherScatterProofs -------------------------
(***************************************************************************)
(* The lists and the values of gather and scatter are right, for any       *)
(* number of ranks, any meshes and any program of operations.              *)
(*                                                                         *)
(* A receiver does not see which operation a message belongs to.  What     *)
(* tells is the program: all ranks make the same operations, so the number *)
(* of those a rank has made gives its version of the mesh, its votes and,  *)
(* with its place in the next one, the messages it has sent and taken.     *)
(* The invariant says so of each rank, and that the mail is what is sent   *)
(* and not taken.  The first message of a kind that a receiver finds is    *)
(* then the one of its operation, and what it packs or unpacks follows.    *)
(***************************************************************************)
EXTENDS GatherScatter, FiniteInduction, SequenceTheorems

-----------------------------------------------------------------------------
(* The inductive invariant.                                                *)

Kind == {"add", "gather", "scatter"}
Place == {"ready", "hasChanged", "init", "listSent", "lists", "gather", "gatherSent",
          "gathering", "scatter", "scatterSent", "ghosts"}

TypeInv ==
  /\ program \in Seq(Kind)
  /\ at \in [Rank -> Nat]
  /\ pc \in [Rank -> Place]
  /\ mesh \in [Rank -> Nat]
  /\ entities_changed \in [Rank -> BOOLEAN]
  /\ vote \in [Rank -> Seq(BOOLEAN)]
  /\ entities_from_root \in [Rank -> Seq(Entity)]
  /\ master_receive_entities \in [Rank -> Seq(Nat)]
  /\ array = [p \in Rank |-> array[p]]
  /\ waitFor \in [Rank -> SUBSET Rank]

(* Among the first i operations: those that add nodes, and those that      *)
(* begin with a reduction; then, the version of the mesh after them, and   *)
(* whether operation i + 1 finds the entities changed.                     *)
Adds(i) == {k \in 1 .. i : program[k] = "add"}
Reductions(i) == {k \in 1 .. i : program[k] # "add"}
MeshAfter(i) == 1 + Cardinality(Adds(i))
NbReductions(i) == Cardinality(Reductions(i))
Fresh(i) == i = 0 \/ program[i] = "add"

(* The place of a rank is one of the operation it is in.                   *)
PlaceInv(p) ==
  /\ at[p] <= Len(program)
  /\ pc[p] # "ready" => at[p] < Len(program) /\ Operation(p) # "add"
  /\ pc[p] \in {"init", "listSent", "lists"} => Fresh(at[p])
  /\ pc[p] \in {"gather", "gatherSent", "gathering"} => Operation(p) = "gather"
  /\ pc[p] \in {"scatter", "scatterSent", "ghosts"} => Operation(p) = "scatter"
  /\ pc[p] \in {"lists", "gathering", "scatterSent"} => p = root
  /\ pc[p] \in {"listSent", "gatherSent"} => p \in Slave

(* The mesh of a rank, its flag and its votes are those of the program.    *)
FlagInv(p) ==
  /\ mesh[p] = MeshAfter(at[p])
  /\ pc[p] \in {"ready", "hasChanged"} => entities_changed[p] = Fresh(at[p])
  /\ pc[p] \notin {"ready", "hasChanged", "init"} => ~entities_changed[p]
  /\ LET begun == IF pc[p] = "ready" THEN at[p] ELSE at[p] + 1
     IN /\ Len(vote[p]) = NbReductions(begun)
        /\ \A i \in 1 .. begun : program[i] # "add" =>
             vote[p][NbReductions(i)] = Fresh(i - 1)

(* Every operation found leads to a version of the mesh that exists.       *)
ProgramInv == \A i \in 0 .. Len(program) : MeshAfter(i) \in Version

(* The numbers of the entities of p in version v.                          *)
NumbersOf(v, p) == [i \in DOMAIN Owned(v, p) |-> Gid[v][Owned(v, p)[i]]]

(* The message of a kind that p has for q in operation n + 1.              *)
MessageKind == {"size", "list", "gather", "scatter", "ghost"}

Needed(p, q, kind, n) ==
  LET v == MeshAfter(n)
  IN \/ kind = "size" /\ p \in Slave /\ q = root /\ program[n + 1] # "add" /\ Fresh(n)
     \/ kind = "list" /\ p \in Slave /\ q = root /\ program[n + 1] # "add" /\ Fresh(n)
          /\ Owned(v, p) # <<>>
     \/ kind = "gather" /\ p \in Slave /\ q = root /\ program[n + 1] = "gather"
          /\ Owned(v, p) # <<>>
     \/ kind = "scatter" /\ p = root /\ q \in Slave /\ program[n + 1] = "scatter"
     \/ kind = "ghost" /\ p # q /\ program[n + 1] = "scatter" /\ Ghosts(v, p, q) # {}

Content(p, q, kind, n) ==
  LET v == MeshAfter(n)
  IN CASE kind = "size" -> Len(Owned(v, p))
       [] kind = "list" -> NumbersOf(v, p)
       [] kind = "gather" -> [i \in DOMAIN Owned(v, p) |-> GatherValue(p, Owned(v, p)[i], n)]
       [] kind = "scatter" -> [i \in DOMAIN Owned(v, q) |-> ScatterValue(NumbersOf(v, q)[i], n)]
       [] kind = "ghost" -> [e \in Ghosts(v, p, q) |-> ScatterValue(Gid[v][e], n)]

Msg(p, q, kind, n) ==
  [src |-> p, dst |-> q, kind |-> kind, op |-> n, data |-> Content(p, q, kind, n)]

(* The places of an operation from which on a rank has sent its messages   *)
(* of a kind, where it takes those it waits for, and where it has them.    *)
AfterInit == {"listSent", "lists", "gather", "gatherSent", "gathering", "scatter",
              "scatterSent", "ghosts"}

SentFrom(kind) ==
  CASE kind \in {"size", "list"} -> AfterInit
    [] kind = "gather" -> {"gatherSent"}
    [] kind = "scatter" -> {"scatterSent", "ghosts"}
    [] kind = "ghost" -> {"ghosts"}

AwaitedAt(kind) ==
  CASE kind \in {"size", "scatter"} -> {}
    [] kind = "list" -> {"lists"}
    [] kind = "gather" -> {"gathering"}
    [] kind = "ghost" -> {"ghosts"}

TakenFrom(kind) ==
  CASE kind = "size" -> AfterInit
    [] kind = "list" -> AfterInit \ {"lists"}
    [] kind = "scatter" -> {"ghosts"}
    [] kind \in {"gather", "ghost"} -> {}

Sent(p, kind, n) == n < at[p] \/ (n = at[p] /\ pc[p] \in SentFrom(kind))

HasTaken(p, q, kind) ==
  pc[q] \in TakenFrom(kind) \/ (pc[q] \in AwaitedAt(kind) /\ p \notin waitFor[q])

Taken(p, q, kind, n) == n < at[q] \/ (n = at[q] /\ HasTaken(p, q, kind))

UnderWay(p, q, kind, n) == Needed(p, q, kind, n) /\ Sent(p, kind, n) /\ ~Taken(p, q, kind, n)

(* The messages under way are those needed that were sent and not taken,   *)
(* and nothing is taken that was not sent.                                 *)
MailInv ==
  /\ \A m \in mail : \E p, q \in Rank, kind \in MessageKind, n \in 0 .. (Len(program) - 1) :
       UnderWay(p, q, kind, n) /\ m = Msg(p, q, kind, n)
  /\ \A p, q \in Rank, kind \in MessageKind, n \in 0 .. (Len(program) - 1) :
       UnderWay(p, q, kind, n) => Msg(p, q, kind, n) \in mail
  /\ \A p, q \in Rank, kind \in MessageKind, n \in 0 .. (Len(program) - 1) :
       Needed(p, q, kind, n) /\ Taken(p, q, kind, n) => Sent(p, kind, n)

(* Who is waited for has a message for the rank.                           *)
WaitsRight(q) ==
  \A kind \in MessageKind : pc[q] \in AwaitedAt(kind) =>
    \A p \in waitFor[q] : Needed(p, q, kind, at[q])

(* The lists that are kept are those of the mesh.                          *)
OwnListOf(p) == ~entities_changed[p] => entities_from_root[p] = OwnEntities(p)

RootLists ==
  ~entities_changed[root] => \A p \in Rank :
    IF pc[root] = "lists" /\ p \in waitFor[root]
    THEN master_receive_entities[p] = <<>>
    ELSE master_receive_entities[p] = NumbersOf(mesh[root], p)

(* What the root has gathered of the ranks in S in operation n + 1.        *)
GatheredOf(S, n) ==
  LET v == mesh[root]
  IN /\ gathered = [g \in DOMAIN gathered |-> gathered[g]]
     /\ DOMAIN gathered = UNION {ToSet(NumbersOf(v, p)) : p \in S}
     /\ \A p \in S : \A e \in ToSet(Owned(v, p)) : gathered[Gid[v][e]] = GatherValue(p, e, n)

RootGathered ==
  /\ pc[root] = "gathering" => GatheredOf(Rank \ waitFor[root], at[root])
  /\ JustMade(root, "gather") => GatheredOf(Rank, at[root] - 1)

(* What rank p has in operation n + 1 of the entities that the ranks in S  *)
(* own.                                                                    *)
Part(v, p, S) == {e \in ToSet(Local[v][p]) : Owner[e] \in S}

ArrayOf(p, S, n) ==
  array[p] = [e \in Part(mesh[p], p, S) |-> ScatterValue(Gid[mesh[p]][e], n)]

Scattered(p) ==
  /\ pc[p] = "scatterSent" => ArrayOf(p, {p}, at[p])
  /\ pc[p] = "ghosts" => ArrayOf(p, {q \in Rank : q = p \/ q \notin waitFor[p]}, at[p])
  /\ JustMade(p, "scatter") => ArrayOf(p, Rank, at[p] - 1)

RankInv(p) == PlaceInv(p) /\ FlagInv(p) /\ WaitsRight(p) /\ OwnListOf(p) /\ Scattered(p)

IInv ==
  /\ TypeInv
  /\ ProgramInv
  /\ \A p \in Rank : RankInv(p)
  /\ MailInv
  /\ RootLists
  /\ RootGathered

-----------------------------------------------------------------------------
(* The data.                                                               *)

(* Appending an element to a sequence keeps what is in it and adds the     *)
(* element at the end.                                                     *)
LEMMA AppendedSet ==
  ASSUME NEW S, NEW s \in Seq(S), NEW x \in S
  PROVE  Append(s, x) \in Seq(S) /\ ToSet(Append(s, x)) = ToSet(s) \cup {x}
<1>1. /\ Append(s, x) \in Seq(S) /\ Len(s) \in Nat /\ DOMAIN s = 1 .. Len(s)
      /\ DOMAIN Append(s, x) = 1 .. (Len(s) + 1)
      /\ \A i \in 1 .. Len(s) : Append(s, x)[i] = s[i]
      /\ Append(s, x)[Len(s) + 1] = x
  OBVIOUS
<1>2. PICK r : r = Append(s, x)
  OBVIOUS
<1>3. \A i \in DOMAIN r : (i \in DOMAIN s /\ r[i] = s[i]) \/ r[i] = x
  BY <1>1, <1>2
<1>4. (\A i \in DOMAIN s : i \in DOMAIN r /\ r[i] = s[i]) /\ \E i \in DOMAIN r : r[i] = x
  BY <1>1, <1>2
<1>5. ToSet(r) = ToSet(s) \cup {x}
  BY <1>3, <1>4 DEF ToSet
<1>6. QED
  BY <1>1, <1>2, <1>5

(* The loop over the entities of a mesh keeps exactly those the rank owns. *)
LEMMA OwnedProperties ==
  ASSUME NEW v \in Version, NEW p \in Rank
  PROVE  /\ Owned(v, p) \in Seq(Entity)
         /\ ToSet(Owned(v, p)) = {e \in ToSet(Local[v][p]) : Owner[e] = p}
<1> DEFINE all == Local[v][p]
           L == Len(all)
           step(f, n) == IF n = 0 THEN <<>>
                         ELSE IF Owner[all[n]] = p THEN Append(f[n - 1], all[n]) ELSE f[n - 1]
           own == CHOOSE f : f = [n \in 0 .. L |-> step(f, n)]
           Kept(n) == {e \in {all[i] : i \in 1 .. n} : Owner[e] = p}
<1>1. Owned(v, p) = own[L]
  BY DEF Owned
<1>2. all \in Seq(Entity)
  BY MeshAssumption
<1>3. L \in Nat /\ DOMAIN all = 1 .. L /\ \A n \in 1 .. L : all[n] \in Entity
  BY <1>2, LenProperties, ElementOfSeq
<1> HIDE DEF all, L
<1>4. \A m \in 0 .. L : \E f : f = [n \in 0 .. m |-> step(f, n)]
  <2> DEFINE Good == {m \in 0 .. L : \E f : f = [n \in 0 .. m |-> step(f, n)]}
  <2>1. 0 \in Good
    <3> DEFINE f == [n \in 0 .. 0 |-> <<>>]
    <3>1. f = [n \in 0 .. 0 |-> step(f, n)]
      OBVIOUS
    <3>2. \E h : h = [n \in 0 .. 0 |-> step(h, n)]
      <4> HIDE DEF f
      <4>1. QED
        BY <3>1
    <3>3. 0 \in 0 .. L
      BY <1>3
    <3>4. QED
      BY <3>2, <3>3
  <2>2. ASSUME NEW m \in 1 .. L, m - 1 \in Good
        PROVE  m \in Good
    <3>1. PICK f : f = [n \in 0 .. (m - 1) |-> step(f, n)]
      BY <2>2
    <3> DEFINE g == [n \in 0 .. m |-> IF n = m THEN step(f, m) ELSE f[n]]
    <3>2. ASSUME NEW n \in 0 .. m
          PROVE  g[n] = step(g, n)
      <4>1. m \in Nat /\ m - 1 \in 0 .. (m - 1) /\ m # 0 /\ m - 1 # m
        BY <1>3
      <4>2. CASE n = m
        <5>1. g[m - 1] = f[m - 1]
          BY <4>1
        <5>2. QED
          BY <4>1, <4>2, <5>1
      <4>3. CASE n # m
        <5>1. n \in 0 .. (m - 1) /\ (n # 0 => n - 1 \in 0 .. m /\ n - 1 # m)
          BY <4>1, <4>3
        <5>2. f[n] = step(f, n)
          BY <3>1, <5>1
        <5>3. g[n] = f[n] /\ (n # 0 => g[n - 1] = f[n - 1])
          BY <4>3, <5>1
        <5>4. QED
          BY <5>2, <5>3
      <4>4. QED
        BY <4>2, <4>3
    <3>3. g = [n \in 0 .. m |-> step(g, n)]
      <4>1. g = [n \in 0 .. m |-> g[n]]
        OBVIOUS
      <4> HIDE DEF g
      <4>2. QED
        BY <3>2, <4>1
    <3>4. \E h : h = [n \in 0 .. m |-> step(h, n)]
      <4> HIDE DEF g
      <4>1. QED
        BY <3>3
    <3>5. QED
      BY <1>3, <3>4
  <2> HIDE DEF Good
  <2>3. \A m \in 0 .. L : m \in Good
    BY <1>3, <2>1, <2>2, UpToInduction, SMTT(30)
  <2>4. QED
    BY <2>3 DEF Good
<1>5. own = [n \in 0 .. L |-> step(own, n)]
  <2>1. \E f : f = [n \in 0 .. L |-> step(f, n)]
    BY <1>3, <1>4
  <2>2. QED
    BY <2>1, Zenon
<1> HIDE DEF own
<1>6. \A m \in 0 .. L : own[m] \in Seq(Entity) /\ ToSet(own[m]) = Kept(m)
  <2> DEFINE Good == {m \in 0 .. L : own[m] \in Seq(Entity) /\ ToSet(own[m]) = Kept(m)}
  <2>1. 0 \in Good
    <3>1. own[0] = <<>>
      BY <1>3, <1>5
    <3>2. <<>> \in Seq(Entity) /\ ToSet(<<>>) = {}
      BY EmptySeq DEF ToSet
    <3>3. Kept(0) = {}
      OBVIOUS
    <3>4. own[0] \in Seq(Entity) /\ ToSet(own[0]) = Kept(0)
      <4> HIDE DEF Kept
      <4>1. QED
        BY <3>1, <3>2, <3>3
    <3>5. 0 \in 0 .. L
      BY <1>3
    <3>6. QED
      BY <3>4, <3>5
  <2>2. ASSUME NEW m \in 1 .. L, m - 1 \in Good
        PROVE  m \in Good
    <3>1. m \in 0 .. L /\ m # 0 /\ m \in Int
      BY <1>3
    <3>2. own[m] = IF Owner[all[m]] = p THEN Append(own[m - 1], all[m]) ELSE own[m - 1]
      BY <1>5, <3>1
    <3>3. own[m - 1] \in Seq(Entity) /\ ToSet(own[m - 1]) = Kept(m - 1)
      BY <2>2
    <3>4. {all[i] : i \in 1 .. m} = {all[i] : i \in 1 .. (m - 1)} \cup {all[m]}
      <4>1. 1 .. m = (1 .. (m - 1)) \cup {m}
        BY <3>1
      <4>2. QED
        BY <4>1
    <3>5. CASE Owner[all[m]] = p
      <4>1. PICK s : s = own[m - 1]
        OBVIOUS
      <4>2. s \in Seq(Entity) /\ all[m] \in Entity
        BY <1>3, <3>3, <4>1
      <4>3. /\ Append(s, all[m]) \in Seq(Entity)
            /\ ToSet(Append(s, all[m])) = ToSet(s) \cup {all[m]}
        BY <4>2, AppendedSet
      <4>4. Kept(m) = Kept(m - 1) \cup {all[m]}
        BY <3>4, <3>5
      <4>5. QED
        BY <3>1, <3>2, <3>3, <3>5, <4>1, <4>3, <4>4
    <3>6. CASE Owner[all[m]] # p
      <4>1. Kept(m) = Kept(m - 1)
        BY <3>4, <3>6
      <4>2. QED
        BY <3>1, <3>2, <3>3, <3>6, <4>1
    <3>7. QED
      BY <3>5, <3>6
  <2> HIDE DEF Good
  <2>3. \A m \in 0 .. L : m \in Good
    BY <1>3, <2>1, <2>2, UpToInduction, SMTT(30)
  <2>4. QED
    BY <2>3 DEF Good
<1>7. own[L] \in Seq(Entity) /\ ToSet(own[L]) = Kept(L)
  <2>1. L \in 0 .. L
    BY <1>3
  <2> HIDE DEF Kept
  <2>2. QED
    BY <1>6, <2>1, Zenon
<1>8. {all[i] : i \in 1 .. L} = ToSet(all)
  BY <1>3 DEF ToSet
<1>9. QED
  BY <1>1, <1>7, <1>8 DEF all

(* The numbers stand for the own entities one by one, so that a rank has   *)
(* no numbers exactly when it owns nothing, which is when its size is      *)
(* zero.                                                                   *)
LEMMA NumbersProperties ==
  ASSUME NEW v \in Version, NEW p \in Rank
  PROVE  /\ NumbersOf(v, p) \in Seq(Nat)
         /\ DOMAIN NumbersOf(v, p) = DOMAIN Owned(v, p)
         /\ NumbersOf(v, p) = <<>> <=> Owned(v, p) = <<>>
         /\ Len(Owned(v, p)) \in Nat
         /\ Len(Owned(v, p)) > 0 <=> Owned(v, p) # <<>>
         /\ \A e \in Entity : Gid[v][e] \in Nat
<1>1. PICK own : own = Owned(v, p)
  OBVIOUS
<1>2. own \in Seq(Entity)
  BY <1>1, OwnedProperties
<1>3. \A e \in Entity : Gid[v][e] \in Nat
  BY MeshAssumption
<1>4. /\ [i \in DOMAIN own |-> Gid[v][own[i]]] \in Seq(Nat)
      /\ [i \in DOMAIN own |-> Gid[v][own[i]]] = <<>> <=> own = <<>>
      /\ Len(own) \in Nat
      /\ Len(own) > 0 <=> own # <<>>
  BY <1>2, <1>3
<1>5. QED
  BY <1>1, <1>3, <1>4 DEF NumbersOf

(* The values gathered of a rank lie at the numbers of its entities: no    *)
(* two of them have the same number, and none is overwritten.              *)
LEMMA PlacedByNumber ==
  ASSUME NEW v \in Version, NEW p \in Rank, NEW n, NEW f,
         f = Placed(NumbersOf(v, p),
                    [i \in DOMAIN Owned(v, p) |-> GatherValue(p, Owned(v, p)[i], n)])
  PROVE  /\ DOMAIN f = ToSet(NumbersOf(v, p)) /\ f = [g \in DOMAIN f |-> f[g]]
         /\ \A e \in ToSet(Owned(v, p)) :
              Gid[v][e] \in DOMAIN f /\ f[Gid[v][e]] = GatherValue(p, e, n)
<1>1. PICK own : own = Owned(v, p)
  OBVIOUS
<1>2. PICK list : list = NumbersOf(v, p)
  OBVIOUS
<1> DEFINE data == [i \in DOMAIN own |-> GatherValue(p, own[i], n)]
<1>3. /\ DOMAIN list = DOMAIN own /\ \A i \in DOMAIN own : list[i] = Gid[v][own[i]]
      /\ \A i \in DOMAIN own : own[i] \in ToSet(Local[v][p])
  <2>1. ToSet(own) \subseteq ToSet(Local[v][p])
    BY <1>1, OwnedProperties
  <2>2. \A i \in DOMAIN own : own[i] \in ToSet(own)
    BY DEF ToSet
  <2>3. QED
    BY <1>1, <1>2, <2>1, <2>2 DEF NumbersOf
<1>4. /\ f = [g \in ToSet(list) |-> data[CHOOSE i \in DOMAIN list : list[i] = g]]
      /\ DOMAIN f = ToSet(list) /\ f = [g \in DOMAIN f |-> f[g]]
  BY <1>1, <1>2 DEF Placed
<1>5. ASSUME NEW e \in ToSet(own)
      PROVE  Gid[v][e] \in ToSet(list) /\ f[Gid[v][e]] = GatherValue(p, e, n)
  <2>1. PICK j \in DOMAIN own : own[j] = e
    BY DEF ToSet
  <2>2. list[j] = Gid[v][e] /\ j \in DOMAIN list
    BY <1>3, <2>1
  <2>3. PICK i \in DOMAIN list : list[i] = Gid[v][e] /\ f[Gid[v][e]] = data[i]
    <3>1. Gid[v][e] \in ToSet(list)
      BY <2>2 DEF ToSet
    <3>2. f[Gid[v][e]] = data[CHOOSE i \in DOMAIN list : list[i] = Gid[v][e]]
      BY <1>4, <3>1
    <3>3. QED
      BY <2>2, <3>2
  <2>4. own[i] = e
    <3>1. /\ own[i] \in ToSet(Local[v][p]) /\ e \in ToSet(Local[v][p])
          /\ Gid[v][own[i]] = Gid[v][e]
      BY <1>3, <2>1, <2>3
    <3>2. QED
      BY <3>1, EntitiesAssumption
  <2>5. QED
    BY <1>3, <2>2, <2>3, <2>4 DEF ToSet
<1>6. QED
  BY <1>1, <1>2, <1>4, <1>5

(* The values scattered to a rank, put in the order of its list, lie at    *)
(* the entities whose numbers the root packed.                             *)
LEMMA PlacedByEntity ==
  ASSUME NEW v \in Version, NEW p \in Rank, NEW n
  PROVE  Placed(Owned(v, p), [i \in DOMAIN Owned(v, p) |-> ScatterValue(NumbersOf(v, p)[i], n)])
           = [e \in Part(v, p, {p}) |-> ScatterValue(Gid[v][e], n)]
<1>1. PICK own : own = Owned(v, p)
  OBVIOUS
<1>2. PICK list : list = NumbersOf(v, p)
  OBVIOUS
<1> DEFINE data == [i \in DOMAIN own |-> ScatterValue(list[i], n)]
<1>3. \A i \in DOMAIN own : list[i] = Gid[v][own[i]]
  BY <1>1, <1>2 DEF NumbersOf
<1>4. ToSet(own) = Part(v, p, {p})
  BY <1>1, OwnedProperties DEF Part
<1>5. ASSUME NEW e \in ToSet(own)
      PROVE  data[CHOOSE i \in DOMAIN own : own[i] = e] = ScatterValue(Gid[v][e], n)
  <2>1. \E i \in DOMAIN own : own[i] = e
    BY DEF ToSet
  <2>2. PICK i \in DOMAIN own : own[i] = e /\ i = CHOOSE j \in DOMAIN own : own[j] = e
    BY <2>1
  <2>3. QED
    BY <1>3, <2>2
<1>6. Placed(own, data) = [e \in Part(v, p, {p}) |-> ScatterValue(Gid[v][e], n)]
  BY <1>4, <1>5 DEF Placed
<1>7. QED
  BY <1>1, <1>2, <1>6

-----------------------------------------------------------------------------
(* The program.                                                            *)

(* The version of the mesh and the number of reductions grow by one with   *)
(* each operation that adds nodes, and with each one that does not.        *)
LEMMA ProgramCounts ==
  ASSUME TypeInv
  PROVE  /\ MeshAfter(0) = 1 /\ NbReductions(0) = 0
         /\ \A i \in 0 .. Len(program) : MeshAfter(i) \in Nat /\ NbReductions(i) \in Nat
         /\ \A i \in 1 .. Len(program) :
              /\ MeshAfter(i) = IF program[i] = "add" THEN MeshAfter(i - 1) + 1
                                ELSE MeshAfter(i - 1)
              /\ NbReductions(i) = IF program[i] = "add" THEN NbReductions(i - 1)
                                   ELSE NbReductions(i - 1) + 1
         /\ \A i, j \in 0 .. Len(program) : i <= j => NbReductions(i) <= NbReductions(j)
<1>1. Len(program) \in Nat
  BY DEF TypeInv
<1>2. ASSUME NEW i \in 0 .. Len(program)
      PROVE  /\ IsFiniteSet(Adds(i)) /\ IsFiniteSet(Reductions(i))
             /\ Cardinality(Adds(i)) \in Nat /\ Cardinality(Reductions(i)) \in Nat
  <2>1. IsFiniteSet(1 .. i)
    BY FS_Interval
  <2>2. IsFiniteSet(Adds(i)) /\ IsFiniteSet(Reductions(i))
    BY <2>1, FS_Subset DEF Adds, Reductions
  <2>3. QED
    BY <2>2, FS_CardinalityType
<1>3. MeshAfter(0) = 1 /\ NbReductions(0) = 0
  <2>1. Adds(0) = {} /\ Reductions(0) = {}
    BY DEF Adds, Reductions
  <2>2. QED
    BY <2>1, FS_EmptySet DEF MeshAfter, NbReductions
<1>4. ASSUME NEW i \in 1 .. Len(program)
      PROVE  /\ MeshAfter(i) = IF program[i] = "add" THEN MeshAfter(i - 1) + 1
                               ELSE MeshAfter(i - 1)
             /\ NbReductions(i) = IF program[i] = "add" THEN NbReductions(i - 1)
                                  ELSE NbReductions(i - 1) + 1
  <2>1. i - 1 \in 0 .. Len(program) /\ 1 .. i = (1 .. (i - 1)) \cup {i} /\ i \notin 1 .. (i - 1)
    BY <1>1
  <2>2. /\ IsFiniteSet(Adds(i - 1)) /\ IsFiniteSet(Reductions(i - 1))
        /\ Cardinality(Adds(i - 1)) \in Nat /\ Cardinality(Reductions(i - 1)) \in Nat
    BY <1>2, <2>1
  <2>3. i \notin Adds(i - 1) /\ i \notin Reductions(i - 1)
    BY <2>1 DEF Adds, Reductions
  <2>4. /\ Cardinality(Adds(i - 1) \cup {i}) = Cardinality(Adds(i - 1)) + 1
        /\ Cardinality(Reductions(i - 1) \cup {i}) = Cardinality(Reductions(i - 1)) + 1
    <3>1. Cardinality(Adds(i - 1) \cup {i}) = Cardinality(Adds(i - 1)) + 1
      BY <2>2, <2>3, FS_AddElement
    <3>2. Cardinality(Reductions(i - 1) \cup {i}) = Cardinality(Reductions(i - 1)) + 1
      BY <2>2, <2>3, FS_AddElement
    <3>3. QED
      BY <3>1, <3>2
  <2>5. CASE program[i] = "add"
    <3>1. Adds(i) = Adds(i - 1) \cup {i} /\ Reductions(i) = Reductions(i - 1)
      BY <2>1, <2>5 DEF Adds, Reductions
    <3>2. QED
      BY <2>2, <2>4, <2>5, <3>1 DEF MeshAfter, NbReductions
  <2>6. CASE program[i] # "add"
    <3>1. Adds(i) = Adds(i - 1) /\ Reductions(i) = Reductions(i - 1) \cup {i}
      BY <2>1, <2>6 DEF Adds, Reductions
    <3>2. QED
      BY <2>2, <2>4, <2>6, <3>1 DEF MeshAfter, NbReductions
  <2>7. QED
    BY <2>5, <2>6
<1>5. ASSUME NEW i \in 0 .. Len(program), NEW j \in 0 .. Len(program), i <= j
      PROVE  NbReductions(i) <= NbReductions(j)
  <2>1. Reductions(i) \subseteq Reductions(j)
    BY <1>5 DEF Reductions
  <2>2. IsFiniteSet(Reductions(j))
    BY <1>2
  <2>3. QED
    BY <2>1, <2>2, FS_Subset DEF NbReductions
<1>6. ASSUME NEW i \in 0 .. Len(program)
      PROVE  MeshAfter(i) \in Nat /\ NbReductions(i) \in Nat
  BY <1>2 DEF MeshAfter, NbReductions
<1>7. QED
  BY <1>3, <1>4, <1>5, <1>6

(* The program stays as it is, or the next operation is found.             *)
Grows == program' = program \/ \E op \in Kind : program' = Append(program, op)

(* What was said of the operations found so far (versions, reductions,     *)
(* messages) stays true when another one is found.                         *)
LEMMA ProgramStable ==
  ASSUME TypeInv, Grows
  PROVE  /\ program' \in Seq(Kind) /\ Len(program) \in Nat /\ Len(program') \in Nat
         /\ Len(program) <= Len(program') /\ Len(program') <= Len(program) + 1
         /\ \A i \in 1 .. Len(program) : program'[i] = program[i]
         /\ \A i \in 0 .. Len(program) : /\ MeshAfter(i)' = MeshAfter(i)
                                         /\ NbReductions(i)' = NbReductions(i)
                                         /\ Fresh(i)' <=> Fresh(i)
         /\ \A p, q, kind : \A n \in 0 .. (Len(program) - 1) :
              /\ Needed(p, q, kind, n)' <=> Needed(p, q, kind, n)
              /\ Msg(p, q, kind, n)' = Msg(p, q, kind, n)
<1>1. /\ program \in Seq(Kind) /\ program' \in Seq(Kind)
      /\ Len(program) \in Nat /\ Len(program') \in Nat
      /\ Len(program) <= Len(program') /\ Len(program') <= Len(program) + 1
      /\ \A i \in 1 .. Len(program) : program'[i] = program[i]
  <2>1. program \in Seq(Kind)
    BY DEF TypeInv
  <2>2. CASE program' = program
    BY <2>1, <2>2
  <2>3. ASSUME NEW op \in Kind, program' = Append(program, op)
        PROVE  /\ program' \in Seq(Kind) /\ Len(program') = Len(program) + 1
               /\ \A i \in 1 .. Len(program) : program'[i] = program[i]
    BY <2>1, <2>3
  <2>4. QED
    BY <2>1, <2>2, <2>3 DEF Grows
<1>2. ASSUME NEW i \in 0 .. Len(program)
      PROVE  /\ MeshAfter(i)' = MeshAfter(i)
             /\ NbReductions(i)' = NbReductions(i)
             /\ Fresh(i)' <=> Fresh(i)
  <2>1. \A k \in 1 .. i : k \in 1 .. Len(program)
    BY <1>1
  <2>2. Adds(i)' = Adds(i) /\ Reductions(i)' = Reductions(i)
    BY <1>1, <2>1 DEF Adds, Reductions
  <2>3. i # 0 => i \in 1 .. Len(program)
    BY <1>1
  <2>4. QED
    BY <1>1, <2>2, <2>3 DEF MeshAfter, NbReductions, Fresh
<1>3. ASSUME NEW p, NEW q, NEW kind, NEW n \in 0 .. (Len(program) - 1)
      PROVE  /\ Needed(p, q, kind, n)' <=> Needed(p, q, kind, n)
             /\ Msg(p, q, kind, n)' = Msg(p, q, kind, n)
  <2>1. /\ MeshAfter(n)' = MeshAfter(n) /\ (Fresh(n)' <=> Fresh(n))
        /\ program'[n + 1] = program[n + 1]
    BY <1>1, <1>2
  <2>2. Needed(p, q, kind, n)' <=> Needed(p, q, kind, n)
    BY <2>1 DEF Needed
  <2>3. Content(p, q, kind, n)' = Content(p, q, kind, n)
    BY <2>1 DEF Content, NumbersOf
  <2>4. QED
    BY <2>2, <2>3 DEF Msg
<1>4. QED
  BY <1>1, <1>2, <1>3

(* The invariant of a rank stays true when only other ranks move.          *)
LEMMA RankStays ==
  ASSUME TypeInv, Grows, NEW q \in Rank, RankInv(q),
         at'[q] = at[q], pc'[q] = pc[q], mesh'[q] = mesh[q],
         entities_changed'[q] = entities_changed[q], vote'[q] = vote[q],
         entities_from_root'[q] = entities_from_root[q],
         array'[q] = array[q], waitFor'[q] = waitFor[q]
  PROVE  RankInv(q)'
<1>0. PICK a \in Nat : a = at[q]
  BY DEF TypeInv
<1>1. PlaceInv(q) /\ FlagInv(q) /\ WaitsRight(q) /\ OwnListOf(q) /\ Scattered(q)
  BY DEF RankInv
<1>2. /\ Len(program) \in Nat /\ Len(program') \in Nat /\ Len(program) <= Len(program')
      /\ \A i \in 1 .. Len(program) : program'[i] = program[i]
      /\ \A i \in 0 .. Len(program) : /\ MeshAfter(i)' = MeshAfter(i)
                                      /\ NbReductions(i)' = NbReductions(i)
                                      /\ Fresh(i)' <=> Fresh(i)
  BY ProgramStable
<1>3. /\ a <= Len(program) /\ (pc[q] # "ready" => a < Len(program))
      /\ Operation(q) = program[a + 1] /\ Operation(q)' = program'[a + 1]
  BY <1>0, <1>1 DEF PlaceInv, Operation
<1>4. PlaceInv(q)'
  <2>1. pc[q] # "ready" => a + 1 \in 1 .. Len(program)
    BY <1>2, <1>3
  <2>2. pc[q] # "ready" => Operation(q)' = Operation(q)
    BY <1>2, <1>3, <2>1
  <2>3. a \in 0 .. Len(program)
    BY <1>2, <1>3
  <2>4. Fresh(a)' <=> Fresh(a)
    BY <1>2, <2>3
  <2>5. at'[q] = a
    BY <1>0
  <2>6. QED
    BY <1>0, <1>1, <1>2, <1>3, <2>2, <2>4, <2>5 DEF PlaceInv
<1>5. FlagInv(q)'
  <2>1. PICK begun : begun = IF pc[q] = "ready" THEN a ELSE a + 1
    OBVIOUS
  <2>2. begun \in 0 .. Len(program) /\ a \in 0 .. Len(program)
    BY <1>2, <1>3, <2>1
  <2>3. /\ mesh'[q] = MeshAfter(a)'
        /\ pc'[q] \in {"ready", "hasChanged"} => entities_changed'[q] = Fresh(a)'
        /\ pc'[q] \notin {"ready", "hasChanged", "init"} => ~entities_changed'[q]
    <3>1. MeshAfter(a)' = MeshAfter(a) /\ (Fresh(a)' <=> Fresh(a))
      BY <1>2, <2>2
    <3>2. mesh[q] = MeshAfter(a)
      BY <1>0, <1>1 DEF FlagInv
    <3>3. pc[q] \in {"ready", "hasChanged"} => entities_changed[q] = Fresh(a)
      BY <1>0, <1>1 DEF FlagInv
    <3>4. Fresh(a)' = Fresh(a)
      BY <2>2, <1>2 DEF Fresh
    <3>5. QED
      BY <1>1, <3>1, <3>2, <3>3, <3>4 DEF FlagInv
  <2>4. /\ Len(vote[q]) = NbReductions(begun)
        /\ \A i \in 1 .. begun : program[i] # "add" => vote[q][NbReductions(i)] = Fresh(i - 1)
    BY <1>0, <1>1, <2>1 DEF FlagInv
  <2>5. Len(vote'[q]) = NbReductions(begun)'
    BY <1>2, <2>2, <2>4
  <2>6. ASSUME NEW i \in 1 .. begun, program'[i] # "add"
        PROVE  vote'[q][NbReductions(i)'] = Fresh(i - 1)'
    <3>1. i \in 1 .. Len(program) /\ i \in 0 .. Len(program) /\ i - 1 \in 0 .. Len(program)
      BY <1>2, <2>2
    <3>2. program[i] # "add" /\ NbReductions(i)' = NbReductions(i)
      BY <1>2, <2>6, <3>1
    <3>3. Fresh(i - 1)' = Fresh(i - 1)
      BY <1>2, <3>1 DEF Fresh
    <3>4. QED
      BY <2>4, <3>2, <3>3
  <2>7. at'[q] = a /\ begun = IF pc'[q] = "ready" THEN at'[q] ELSE at'[q] + 1
    BY <1>0, <2>1
  <2>8. QED
    BY <2>3, <2>5, <2>6, <2>7 DEF FlagInv
<1>6. WaitsRight(q)'
  <2>1. ASSUME NEW kind \in MessageKind, pc[q] \in AwaitedAt(kind), NEW p \in waitFor[q]
        PROVE  Needed(p, q, kind, a)'
    <3>1. Needed(p, q, kind, a)
      BY <1>0, <1>1, <2>1 DEF WaitsRight
    <3>2. pc[q] # "ready"
      BY <2>1 DEF AwaitedAt, MessageKind
    <3>3. a \in 0 .. (Len(program) - 1)
      BY <1>2, <1>3, <3>2
    <3>4. QED
      BY <3>1, <3>3, ProgramStable
  <2>2. at'[q] = a
    BY <1>0
  <2>3. QED
    BY <2>1, <2>2 DEF WaitsRight
<1>7. OwnListOf(q)'
  BY <1>1 DEF OwnListOf, OwnEntities
<1>8. Scattered(q)'
  <2>1. JustMade(q, "scatter")' => JustMade(q, "scatter")
    <3>1. a > 0 => a \in 1 .. Len(program)
      BY <1>2, <1>3
    <3>2. a > 0 => program'[a] = program[a]
      BY <1>2, <3>1
    <3>3. QED
      BY <1>0, <3>2 DEF JustMade
  <2>2. \A S, n : ArrayOf(q, S, n) => ArrayOf(q, S, n)'
    BY DEF ArrayOf
  <2>3. QED
    BY <1>0, <1>1, <2>1, <2>2 DEF Scattered
<1>9. QED
  BY <1>4, <1>5, <1>6, <1>7, <1>8 DEF RankInv

-----------------------------------------------------------------------------
(* The messages.                                                           *)

(* No rank has a message for itself, and a message tells its sender,       *)
(* receiver, kind and operation.                                           *)
LEMMA MessageKeys ==
  /\ \A p, q, kind, n : Needed(p, q, kind, n) => p # q
  /\ \A a, b, c, d, kind, k, n, o :
       Msg(a, b, kind, n) = Msg(c, d, k, o) => a = c /\ b = d /\ kind = k /\ n = o
<1>1. \A p, q, kind, n : Needed(p, q, kind, n) => p # q
  BY DEF Needed, Slave
<1>2. ASSUME NEW a, NEW b, NEW c, NEW d, NEW kind, NEW k, NEW n, NEW o,
             Msg(a, b, kind, n) = Msg(c, d, k, o)
      PROVE  a = c /\ b = d /\ kind = k /\ n = o
  <2>1. /\ Msg(a, b, kind, n).src = a /\ Msg(a, b, kind, n).dst = b
        /\ Msg(a, b, kind, n).kind = kind /\ Msg(a, b, kind, n).op = n
        /\ Msg(c, d, k, o).src = c /\ Msg(c, d, k, o).dst = d
        /\ Msg(c, d, k, o).kind = k /\ Msg(c, d, k, o).op = o
    BY DEF Msg
  <2>2. QED
    BY <1>2, <2>1
<1>3. QED
  BY <1>1, <1>2

(* Of an operation that is not found yet nothing is sent or taken.         *)
LEMMA NothingAhead ==
  ASSUME TypeInv, \A q \in Rank : PlaceInv(q),
         NEW a \in Rank, NEW b \in Rank, NEW kind \in MessageKind,
         NEW n \in Nat, n >= Len(program)
  PROVE  ~Sent(a, kind, n) /\ ~Taken(a, b, kind, n)
<1>1. /\ at[a] \in Nat /\ at[b] \in Nat /\ Len(program) \in Nat
      /\ at[a] <= Len(program) /\ at[b] <= Len(program)
      /\ pc[a] # "ready" => at[a] < Len(program)
      /\ pc[b] # "ready" => at[b] < Len(program)
  BY DEF TypeInv, PlaceInv
<1>2. /\ "ready" \notin SentFrom(kind) /\ "ready" \notin TakenFrom(kind)
      /\ "ready" \notin AwaitedAt(kind)
  BY DEF SentFrom, TakenFrom, AwaitedAt, AfterInit, MessageKind
<1>3. QED
  BY <1>1, <1>2 DEF Sent, Taken, HasTaken

(* If a step of rank p in its operation o + 1 puts the messages of the     *)
(* keys in new into the mail and takes those of the keys in gone out of    *)
(* it, and its place says so, then the mail is again what is sent and not  *)
(* taken.                                                                  *)
LEMMA MailStep ==
  ASSUME TypeInv, Grows, MailInv, \A q \in Rank : PlaceInv(q), NEW p \in Rank,
         \A q \in Rank : q # p =>
           at'[q] = at[q] /\ pc'[q] = pc[q] /\ waitFor'[q] = waitFor[q],
         NEW o \in Nat, o = at[p],
         at'[p] = o \/ (at'[p] = o + 1 /\ pc'[p] = "ready"),
         NEW new, NEW gone, new \subseteq Rank \X MessageKind, gone \subseteq Rank \X MessageKind,
         \A b \in Rank, kind \in MessageKind : Needed(p, b, kind, o)' =>
           (at'[p] = o + 1 \/ pc'[p] \in SentFrom(kind)
              <=> pc[p] \in SentFrom(kind) \/ <<b, kind>> \in new),
         \A a \in Rank, kind \in MessageKind : Needed(a, p, kind, o)' =>
           (at'[p] = o + 1 \/ HasTaken(a, p, kind)'
              <=> HasTaken(a, p, kind) \/ <<a, kind>> \in gone),
         \A key \in new : /\ o < Len(program) /\ Needed(p, key[1], key[2], o)
                          /\ pc[p] \notin SentFrom(key[2]),
         \A key \in gone : o < Len(program) /\ UnderWay(key[1], p, key[2], o),
         \A m : m \in mail' <=>
           \/ m \in mail /\ \A key \in gone : m # Msg(key[1], p, key[2], o)
           \/ \E key \in new : m = Msg(p, key[1], key[2], o)
  PROVE  MailInv'
<1>1. /\ Len(program) \in Nat /\ Len(program') \in Nat
      /\ Len(program) <= Len(program') /\ Len(program') <= Len(program) + 1
      /\ \A a, b, kind : \A n \in 0 .. (Len(program) - 1) :
           /\ Needed(a, b, kind, n)' <=> Needed(a, b, kind, n)
           /\ Msg(a, b, kind, n)' = Msg(a, b, kind, n)
  BY ProgramStable
<1>2. \A q \in Rank : at[q] \in Nat
  BY DEF TypeInv
<1>3. \A kind \in MessageKind : /\ "ready" \notin SentFrom(kind)
                                /\ "ready" \notin TakenFrom(kind)
                                /\ "ready" \notin AwaitedAt(kind)
  BY DEF SentFrom, TakenFrom, AwaitedAt, AfterInit, MessageKind
<1>4. ASSUME NEW a \in Rank, NEW b \in Rank, NEW kind \in MessageKind, NEW n \in Nat,
             Needed(a, b, kind, n)'
      PROVE  Sent(a, kind, n)' <=> Sent(a, kind, n) \/ (a = p /\ n = o /\ <<b, kind>> \in new)
  <2>1. CASE a # p
    BY <2>1 DEF Sent
  <2>2. CASE a = p /\ n = o
    <3>1. Needed(p, b, kind, o)'
      BY <1>4, <2>2
    <3>2. at'[p] = o + 1 \/ pc'[p] \in SentFrom(kind)
            <=> pc[p] \in SentFrom(kind) \/ <<b, kind>> \in new
      BY <3>1
    <3>3. Sent(a, kind, n)' <=> (o < at'[p] \/ (o = at'[p] /\ pc'[p] \in SentFrom(kind)))
      BY <2>2 DEF Sent
    <3>4. Sent(a, kind, n) <=> pc[p] \in SentFrom(kind)
      BY <2>2 DEF Sent
    <3>5. QED
      BY <1>3, <2>2, <3>2, <3>3, <3>4
  <2>3. CASE a = p /\ n # o
    BY <1>3, <2>3 DEF Sent
  <2>4. QED
    BY <2>1, <2>2, <2>3
<1>5. ASSUME NEW a \in Rank, NEW b \in Rank, NEW kind \in MessageKind, NEW n \in Nat,
             Needed(a, b, kind, n)'
      PROVE  Taken(a, b, kind, n)' <=>
               Taken(a, b, kind, n) \/ (b = p /\ n = o /\ <<a, kind>> \in gone)
  <2>1. CASE b # p
    BY <2>1 DEF Taken, HasTaken
  <2>2. CASE b = p /\ n = o
    <3>1. Needed(a, p, kind, o)'
      BY <1>5, <2>2
    <3>2. at'[p] = o + 1 \/ HasTaken(a, p, kind)'
            <=> HasTaken(a, p, kind) \/ <<a, kind>> \in gone
      BY <3>1
    <3>3. Taken(a, b, kind, n)' <=> (o < at'[p] \/ (o = at'[p] /\ HasTaken(a, p, kind)'))
      BY <2>2 DEF Taken
    <3>4. Taken(a, b, kind, n) <=> HasTaken(a, p, kind)
      BY <2>2 DEF Taken
    <3>5. pc'[p] = "ready" => ~HasTaken(a, p, kind)'
      BY <1>3 DEF HasTaken
    <3>6. QED
      BY <2>2, <3>2, <3>3, <3>4, <3>5
  <2>3. CASE b = p /\ n # o
    <3>1. pc'[p] = "ready" => ~HasTaken(a, p, kind)'
      BY <1>3 DEF HasTaken
    <3>2. QED
      BY <2>3, <3>1 DEF Taken
  <2>4. QED
    BY <2>1, <2>2, <2>3
<1>6. ASSUME NEW a \in Rank, NEW b \in Rank, NEW kind \in MessageKind,
             NEW n \in 0 .. (Len(program') - 1), Needed(a, b, kind, n)',
             Sent(a, kind, n)' \/ Taken(a, b, kind, n)'
      PROVE  n \in 0 .. (Len(program) - 1)
  <2>1. n \in Nat
    BY <1>1
  <2>2. Sent(a, kind, n) \/ Taken(a, b, kind, n) \/ n < Len(program)
    <3>1. CASE a = p /\ n = o /\ <<b, kind>> \in new
      BY <3>1
    <3>2. CASE b = p /\ n = o /\ <<a, kind>> \in gone
      BY <3>2
    <3>3. QED
      BY <1>4, <1>5, <1>6, <2>1, <3>1, <3>2
  <2>3. n < Len(program)
    BY <1>1, <2>1, <2>2, NothingAhead
  <2>4. QED
    BY <1>1, <2>1, <2>3
<1>7. ASSUME NEW m \in mail'
      PROVE  \E a, b \in Rank, kind \in MessageKind, n \in 0 .. (Len(program') - 1) :
               UnderWay(a, b, kind, n)' /\ m = Msg(a, b, kind, n)'
  <2>1. CASE m \in mail /\ \A key \in gone : m # Msg(key[1], p, key[2], o)
    <3>1. PICK a \in Rank, b \in Rank, kind \in MessageKind, n \in 0 .. (Len(program) - 1) :
            UnderWay(a, b, kind, n) /\ m = Msg(a, b, kind, n)
      BY <2>1 DEF MailInv
    <3>2. Needed(a, b, kind, n)' /\ Msg(a, b, kind, n)' = Msg(a, b, kind, n) /\ n \in Nat
          /\ n \in 0 .. (Len(program') - 1)
      BY <1>1, <3>1 DEF UnderWay
    <3>3. ~(b = p /\ n = o /\ <<a, kind>> \in gone)
      BY <2>1, <3>1
    <3>4. Sent(a, kind, n)' /\ ~Taken(a, b, kind, n)'
      BY <1>4, <1>5, <3>1, <3>2, <3>3 DEF UnderWay
    <3>5. QED
      BY <3>1, <3>2, <3>4 DEF UnderWay
  <2>2. CASE \E key \in new : m = Msg(p, key[1], key[2], o)
    <3>1. PICK b \in Rank, kind \in MessageKind : <<b, kind>> \in new /\ m = Msg(p, b, kind, o)
      BY <2>2
    <3>2. o < Len(program) /\ Needed(p, b, kind, o) /\ pc[p] \notin SentFrom(kind)
      BY <3>1
    <3>3. o \in 0 .. (Len(program) - 1) /\ o \in 0 .. (Len(program') - 1)
      BY <1>1, <3>2
    <3>4. Needed(p, b, kind, o)' /\ Msg(p, b, kind, o)' = Msg(p, b, kind, o)
      BY <1>1, <3>2, <3>3
    <3>5. ~Sent(p, kind, o)
      BY <3>2 DEF Sent
    <3>6. ~Taken(p, b, kind, o)
      BY <3>2, <3>3, <3>5 DEF MailInv
    <3>7. b # p
      BY <3>2, MessageKeys
    <3>8. Sent(p, kind, o)' /\ ~Taken(p, b, kind, o)'
      BY <1>4, <1>5, <3>1, <3>4, <3>6, <3>7
    <3>9. QED
      BY <3>1, <3>3, <3>4, <3>8 DEF UnderWay
  <2>3. QED
    BY <2>1, <2>2
<1>8. ASSUME NEW a \in Rank, NEW b \in Rank, NEW kind \in MessageKind,
             NEW n \in 0 .. (Len(program') - 1), UnderWay(a, b, kind, n)'
      PROVE  Msg(a, b, kind, n)' \in mail'
  <2>1. Needed(a, b, kind, n)' /\ Sent(a, kind, n)' /\ ~Taken(a, b, kind, n)' /\ n \in Nat
    BY <1>1, <1>8 DEF UnderWay
  <2>2. n \in 0 .. (Len(program) - 1)
    BY <1>6, <2>1
  <2>3. Needed(a, b, kind, n) /\ Msg(a, b, kind, n)' = Msg(a, b, kind, n)
    BY <1>1, <2>1, <2>2
  <2>4. CASE Sent(a, kind, n)
    <3>1. ~Taken(a, b, kind, n) /\ ~(b = p /\ n = o /\ <<a, kind>> \in gone)
      BY <1>5, <2>1
    <3>2. Msg(a, b, kind, n) \in mail
      BY <2>2, <2>3, <2>4, <3>1 DEF MailInv, UnderWay
    <3>3. ASSUME NEW key \in gone
          PROVE  Msg(a, b, kind, n) # Msg(key[1], p, key[2], o)
      <4>1. key = <<key[1], key[2]>>
        OBVIOUS
      <4>2. QED
        BY <3>1, <4>1, MessageKeys
    <3>4. QED
      BY <2>3, <3>2, <3>3
  <2>5. CASE ~Sent(a, kind, n)
    <3>1. a = p /\ n = o /\ <<b, kind>> \in new
      BY <1>4, <2>1, <2>5
    <3>2. \E key \in new : Msg(a, b, kind, n) = Msg(p, key[1], key[2], o)
      BY <3>1
    <3>3. QED
      BY <2>3, <3>2
  <2>6. QED
    BY <2>4, <2>5
<1>9. ASSUME NEW a \in Rank, NEW b \in Rank, NEW kind \in MessageKind,
             NEW n \in 0 .. (Len(program') - 1), Needed(a, b, kind, n)', Taken(a, b, kind, n)'
      PROVE  Sent(a, kind, n)'
  <2>1. n \in 0 .. (Len(program) - 1) /\ n \in Nat
    BY <1>1, <1>6, <1>9
  <2>2. Needed(a, b, kind, n)
    BY <1>1, <1>9, <2>1
  <2>3. CASE Taken(a, b, kind, n)
    <3>1. Sent(a, kind, n)
      BY <2>1, <2>2, <2>3 DEF MailInv
    <3>2. QED
      BY <1>4, <1>9, <2>1, <3>1
  <2>4. CASE ~Taken(a, b, kind, n)
    <3>1. b = p /\ n = o /\ <<a, kind>> \in gone
      BY <1>5, <1>9, <2>1, <2>4
    <3>2. UnderWay(a, p, kind, o)
      BY <3>1
    <3>3. QED
      BY <1>4, <1>9, <2>1, <3>1, <3>2 DEF UnderWay
  <2>5. QED
    BY <2>3, <2>4
<1>10. QED
  BY <1>7, <1>8, <1>9 DEF MailInv

-----------------------------------------------------------------------------
(* Steps of one rank.                                                      *)

(* Only rank p moves.                                                      *)
OthersStay(p) ==
  \A q \in Rank : q # p =>
    /\ at'[q] = at[q] /\ pc'[q] = pc[q] /\ waitFor'[q] = waitFor[q]
    /\ mesh'[q] = mesh[q] /\ entities_changed'[q] = entities_changed[q] /\ vote'[q] = vote[q]
    /\ entities_from_root'[q] = entities_from_root[q] /\ array'[q] = array[q]

(* What the root keeps is left alone.                                      *)
RootStays ==
  /\ UNCHANGED <<master_receive_entities, gathered>>
  /\ at'[root] = at[root] /\ pc'[root] = pc[root] /\ waitFor'[root] = waitFor[root]
  /\ mesh'[root] = mesh[root] /\ entities_changed'[root] = entities_changed[root]

(* What the root has of the lists and of the gathered values stays right   *)
(* when a step leaves the root and its lists alone.                        *)
LEMMA RootKeeps ==
  ASSUME TypeInv, Grows, PlaceInv(root), root \in Rank, RootLists, RootGathered, RootStays
  PROVE  RootLists' /\ RootGathered'
<1>1. RootLists'
  BY DEF RootLists, RootStays, NumbersOf
<1>2. PICK a \in Nat : a = at[root]
  BY DEF TypeInv
<1>3. ASSUME NEW S, NEW n, GatheredOf(S, n)
      PROVE  GatheredOf(S, n)'
  <2>1. gathered' = gathered /\ mesh'[root] = mesh[root]
    BY DEF RootStays
  <2>2. PICK v : v = mesh[root]
    OBVIOUS
  <2>3. /\ gathered = [g \in DOMAIN gathered |-> gathered[g]]
        /\ DOMAIN gathered = UNION {ToSet(NumbersOf(v, p)) : p \in S}
        /\ \A p \in S : \A e \in ToSet(Owned(v, p)) : gathered[Gid[v][e]] = GatherValue(p, e, n)
    BY <1>3, <2>2 DEF GatheredOf
  <2>4. v = mesh'[root] /\ \A p : NumbersOf(v, p)' = NumbersOf(v, p)
    BY <2>1, <2>2 DEF NumbersOf
  <2>5. gathered' = [g \in DOMAIN gathered' |-> gathered'[g]]
    BY <2>1, <2>3
  <2>6. QED
    BY <2>1, <2>3, <2>4, <2>5 DEF GatheredOf
<1>4. JustMade(root, "gather")' => JustMade(root, "gather")
  <2>1. /\ Len(program) \in Nat
        /\ \A i \in 1 .. Len(program) : program'[i] = program[i]
    BY ProgramStable
  <2>2. a > 0 => a \in 1 .. Len(program)
    BY <1>2, <2>1 DEF PlaceInv
  <2>3. QED
    BY <1>2, <2>1, <2>2 DEF JustMade, RootStays
<1>5. pc'[root] = pc[root] /\ at'[root] = a /\ waitFor'[root] = waitFor[root]
  BY <1>2 DEF RootStays
<1>6. RootGathered'
  <2>1. PICK S : S = Rank \ waitFor[root]
    OBVIOUS
  <2>2. pc[root] = "gathering" => GatheredOf(S, a)'
    BY <1>2, <1>3, <2>1 DEF RootGathered
  <2>3. JustMade(root, "gather")' => GatheredOf(Rank, a - 1)'
    BY <1>2, <1>3, <1>4 DEF RootGathered
  <2>4. S = Rank \ waitFor'[root]
    BY <1>5, <2>1
  <2>5. QED
    BY <1>5, <2>2, <2>3, <2>4 DEF RootGathered
<1>7. QED
  BY <1>1, <1>6

(* A step of one rank keeps the invariant if it keeps the parts of that    *)
(* rank, of the mail and of the root.                                      *)
LEMMA StepKeeps ==
  ASSUME IInv, Grows, NEW p \in Rank, OthersStay(p), RankInv(p)',
         TypeInv', ProgramInv', MailInv', RootLists', RootGathered'
  PROVE  IInv'
<1>1. ASSUME NEW q \in Rank, q # p
      PROVE  RankInv(q)'
  <2>1. RankInv(q)
    BY DEF IInv
  <2>2. QED
    BY <1>1, <2>1, RankStays DEF IInv, OthersStay
<1>2. QED
  BY <1>1 DEF IInv

(* Every operation found leads to a version of the mesh that exists; a     *)
(* step that finds no operation keeps that.                                *)
LEMMA ProgramStays ==
  ASSUME ProgramInv, program' = program
  PROVE  ProgramInv'
BY DEF ProgramInv, MeshAfter, Adds

(* The root is a rank.                                                     *)
LEMMA RootIsRank == root \in Rank
BY NbProcAssumption DEF root, Rank

(* A step of a slave within an operation keeps the invariant if it keeps   *)
(* the parts of the slave and of the mail.                                 *)
LEMMA SlaveKeeps ==
  ASSUME IInv, program' = program, NEW p \in Slave, OthersStay(p), RankInv(p)',
         UNCHANGED <<master_receive_entities, gathered>>, TypeInv', MailInv'
  PROVE  IInv'
<1>1. Grows /\ p \in Rank /\ p # root /\ root \in Rank
  BY RootIsRank DEF Grows, Slave
<1>2. RootStays
  BY <1>1 DEF OthersStay, RootStays
<1>3. RootLists' /\ RootGathered'
  BY <1>1, <1>2, RootKeeps DEF IInv, RankInv
<1>4. ProgramInv'
  BY ProgramStays DEF IInv
<1>5. QED
  BY <1>1, <1>3, <1>4, StepKeeps

(* A rank that goes from one place of an operation to another, or to its   *)
(* end, keeps its flag down, its votes and its list.                       *)
LEMMA Within ==
  ASSUME TypeInv, TypeInv', NEW p \in Rank, PlaceInv(p), FlagInv(p), OwnListOf(p),
         program' = program, mesh'[p] = mesh[p], entities_changed'[p] = entities_changed[p],
         vote'[p] = vote[p], entities_from_root'[p] = entities_from_root[p],
         pc[p] \notin {"ready", "hasChanged", "init"},
         \/ at'[p] = at[p] /\ pc'[p] \notin {"ready", "hasChanged", "init"}
         \/ at'[p] = at[p] + 1 /\ pc'[p] = "ready"
  PROVE  FlagInv(p)' /\ OwnListOf(p)'
<1>1. PICK a \in Nat : a = at[p]
  BY DEF TypeInv
<1>2. /\ Len(program) \in Nat /\ a < Len(program) /\ program[a + 1] # "add"
      /\ a + 1 \in 1 .. Len(program) /\ a \in 0 .. Len(program)
      /\ a + 1 \in 0 .. Len(program)
  BY <1>1 DEF TypeInv, PlaceInv, Operation
<1>3. \A i : /\ MeshAfter(i)' = MeshAfter(i)
             /\ NbReductions(i)' = NbReductions(i)
             /\ Fresh(i)' = Fresh(i)
  BY DEF MeshAfter, NbReductions, Adds, Reductions, Fresh
<1>4. MeshAfter(a + 1) = MeshAfter(a)
  BY <1>1, <1>2, ProgramCounts
<1>5. ~Fresh(a + 1)
  BY <1>1, <1>2 DEF Fresh
<1>6. /\ mesh[p] = MeshAfter(a) /\ ~entities_changed[p]
      /\ Len(vote[p]) = NbReductions(a + 1)
      /\ \A i \in 1 .. (a + 1) : program[i] # "add" => vote[p][NbReductions(i)] = Fresh(i - 1)
  BY <1>1 DEF FlagInv
<1>7. FlagInv(p)'
  <2>1. \A i \in 1 .. (a + 1) : program'[i] # "add" =>
          vote'[p][NbReductions(i)'] = Fresh(i - 1)'
    BY <1>3, <1>6
  <2>2. Len(vote'[p]) = NbReductions(a + 1)'
    BY <1>3, <1>6
  <2>3. mesh'[p] = MeshAfter(a)' /\ mesh'[p] = MeshAfter(a + 1)'
    BY <1>3, <1>4, <1>6
  <2>4. CASE at'[p] = a /\ pc'[p] \notin {"ready", "hasChanged", "init"}
    BY <1>6, <2>1, <2>2, <2>3, <2>4 DEF FlagInv
  <2>5. CASE at'[p] = a + 1 /\ pc'[p] = "ready"
    <3>1. entities_changed'[p] = Fresh(a + 1)'
      <4>1. entities_changed[p] = FALSE /\ Fresh(a + 1) = FALSE
        BY <1>2, <1>6 DEF TypeInv, Fresh
      <4>2. QED
        BY <1>3, <4>1
    <3>2. QED
      BY <2>1, <2>2, <2>3, <2>5, <3>1 DEF FlagInv
  <2>6. QED
    BY <1>1, <2>4, <2>5
<1>8. OwnListOf(p)'
  BY DEF OwnListOf, OwnEntities
<1>9. QED
  BY <1>7, <1>8

(* MailStep, for a step within an operation that is found.                 *)
LEMMA MailWithin ==
  ASSUME IInv, program' = program, NEW p \in Rank, OthersStay(p), pc[p] # "ready",
         NEW o \in Nat, o = at[p],
         at'[p] = o \/ (at'[p] = o + 1 /\ pc'[p] = "ready"),
         NEW new, NEW gone, new \subseteq Rank \X MessageKind, gone \subseteq Rank \X MessageKind,
         \A b \in Rank, kind \in MessageKind : Needed(p, b, kind, o) =>
           (at'[p] = o + 1 \/ pc'[p] \in SentFrom(kind)
              <=> pc[p] \in SentFrom(kind) \/ <<b, kind>> \in new),
         \A a \in Rank, kind \in MessageKind : Needed(a, p, kind, o) =>
           (at'[p] = o + 1 \/ HasTaken(a, p, kind)'
              <=> HasTaken(a, p, kind) \/ <<a, kind>> \in gone),
         \A key \in new : Needed(p, key[1], key[2], o) /\ pc[p] \notin SentFrom(key[2]),
         \A key \in gone : UnderWay(key[1], p, key[2], o),
         \A m : m \in mail' <=>
           \/ m \in mail /\ \A key \in gone : m # Msg(key[1], p, key[2], o)
           \/ \E key \in new : m = Msg(p, key[1], key[2], o)
  PROVE  MailInv'
<1>1. TypeInv /\ MailInv /\ Grows /\ \A q \in Rank : PlaceInv(q)
  BY DEF IInv, RankInv, Grows
<1>2. Len(program) \in Nat /\ o < Len(program)
  BY <1>1 DEF TypeInv, PlaceInv
<1>3. o \in 0 .. (Len(program) - 1)
  BY <1>2
<1>4. \A a, b, kind : Needed(a, b, kind, o)' => Needed(a, b, kind, o)
  BY <1>1, <1>3, ProgramStable
<1>5. \A q \in Rank : q # p => at'[q] = at[q] /\ pc'[q] = pc[q] /\ waitFor'[q] = waitFor[q]
  BY DEF OthersStay
<1>6. \A b \in Rank, kind \in MessageKind : Needed(p, b, kind, o)' =>
        (at'[p] = o + 1 \/ pc'[p] \in SentFrom(kind)
           <=> pc[p] \in SentFrom(kind) \/ <<b, kind>> \in new)
  BY <1>4
<1>7. \A a \in Rank, kind \in MessageKind : Needed(a, p, kind, o)' =>
        (at'[p] = o + 1 \/ HasTaken(a, p, kind)'
           <=> HasTaken(a, p, kind) \/ <<a, kind>> \in gone)
  BY <1>4
<1>8. /\ \A key \in new : /\ o < Len(program) /\ Needed(p, key[1], key[2], o)
                          /\ pc[p] \notin SentFrom(key[2])
      /\ \A key \in gone : o < Len(program) /\ UnderWay(key[1], p, key[2], o)
  BY <1>2
<1>9. QED
  BY <1>1, <1>5, <1>6, <1>7, <1>8, MailStep

(* MailStep, for a step within an operation that sends and takes nothing.  *)
LEMMA MailStays ==
  ASSUME IInv, program' = program, mail' = mail, NEW p \in Rank, OthersStay(p), pc[p] # "ready",
         NEW o \in Nat, o = at[p],
         at'[p] = o \/ (at'[p] = o + 1 /\ pc'[p] = "ready"),
         \A b \in Rank, kind \in MessageKind : Needed(p, b, kind, o) =>
           (at'[p] = o + 1 \/ pc'[p] \in SentFrom(kind) <=> pc[p] \in SentFrom(kind)),
         \A a \in Rank, kind \in MessageKind : Needed(a, p, kind, o) =>
           (at'[p] = o + 1 \/ HasTaken(a, p, kind)' <=> HasTaken(a, p, kind))
  PROVE  MailInv'
<1>1. PICK none : none = {}
  OBVIOUS
<1>2. /\ none \subseteq Rank \X MessageKind
      /\ \A b \in Rank, kind \in MessageKind : Needed(p, b, kind, o) =>
           (at'[p] = o + 1 \/ pc'[p] \in SentFrom(kind)
              <=> pc[p] \in SentFrom(kind) \/ <<b, kind>> \in none)
      /\ \A a \in Rank, kind \in MessageKind : Needed(a, p, kind, o) =>
           (at'[p] = o + 1 \/ HasTaken(a, p, kind)'
              <=> HasTaken(a, p, kind) \/ <<a, kind>> \in none)
      /\ \A key \in none : Needed(p, key[1], key[2], o) /\ pc[p] \notin SentFrom(key[2])
      /\ \A key \in none : UnderWay(key[1], p, key[2], o)
      /\ \A m : m \in mail' <=>
           \/ m \in mail /\ \A key \in none : m # Msg(key[1], p, key[2], o)
           \/ \E key \in none : m = Msg(p, key[1], key[2], o)
  BY <1>1
<1>3. QED
  BY <1>2, MailWithin

(* MPI gives a receiver the first message of a kind from a rank. If that   *)
(* rank has one for it in the operation the receiver is in, and it is not  *)
(* taken yet, then this is the one: an earlier one would have been taken,  *)
(* and a later one is sent after it.                                       *)
LEMMA FirstMatch ==
  ASSUME IInv, NEW q \in Rank, NEW kind \in MessageKind, NEW m, Matches(m, q, kind),
         NEW o \in Nat, o = at[q], o < Len(program),
         Needed(m.src, q, kind, o), ~HasTaken(m.src, q, kind)
  PROVE  m.src \in Rank /\ m = Msg(m.src, q, kind, o) /\ UnderWay(m.src, q, kind, o)
<1>1. MailInv /\ TypeInv
  BY DEF IInv
<1>2. m \in mail /\ m.dst = q /\ m.kind = kind
  BY DEF Matches
<1>3. PICK a \in Rank, b \in Rank, k \in MessageKind, n \in 0 .. (Len(program) - 1) :
        UnderWay(a, b, k, n) /\ m = Msg(a, b, k, n)
  BY <1>1, <1>2 DEF MailInv
<1>4. m.src = a /\ b = q /\ k = kind /\ m.op = n
  BY <1>2, <1>3 DEF Msg
<1>5. Sent(a, kind, n) /\ ~Taken(a, q, kind, n) /\ n \in Nat /\ at[a] \in Nat
      /\ Len(program) \in Nat
  BY <1>1, <1>3, <1>4 DEF UnderWay, TypeInv
<1>6. n >= o
  BY <1>5 DEF Taken
<1>7. ~(n > o)
  <2>1. SUFFICES ASSUME n > o PROVE FALSE
    OBVIOUS
  <2>2. UnderWay(a, q, kind, o)
    BY <1>4, <1>5, <2>1 DEF UnderWay, Sent, Taken
  <2>3. o \in 0 .. (Len(program) - 1)
    BY <1>5
  <2>4. Msg(a, q, kind, o) \in mail
    BY <1>1, <2>2, <2>3 DEF MailInv
  <2>5. Msg(a, q, kind, o).src = a /\ Msg(a, q, kind, o).dst = q
        /\ Msg(a, q, kind, o).kind = kind /\ Msg(a, q, kind, o).op = o
    BY DEF Msg
  <2>6. m.op <= o
    BY <1>4, <2>4, <2>5 DEF Matches
  <2>7. QED
    BY <1>4, <1>5, <2>1, <2>6
<1>8. n = o
  BY <1>5, <1>6, <1>7
<1>9. QED
  BY <1>3, <1>4, <1>8

-----------------------------------------------------------------------------
(* An operation begins.                                                    *)

(* The counts of operations, one after the other.                          *)
CountsRight ==
  /\ \A i \in 0 .. Len(program) : MeshAfter(i) \in Nat /\ NbReductions(i) \in Nat
  /\ \A i \in 1 .. Len(program) :
       /\ MeshAfter(i) = IF program[i] = "add" THEN MeshAfter(i - 1) + 1 ELSE MeshAfter(i - 1)
       /\ NbReductions(i) = IF program[i] = "add" THEN NbReductions(i - 1)
                            ELSE NbReductions(i - 1) + 1
  /\ \A i, j \in 0 .. Len(program) : i <= j => NbReductions(i) <= NbReductions(j)

(* The counts of operations follow from the types; in this form also after *)
(* a step.                                                                 *)
LEMMA CountsAreRight == TypeInv => CountsRight
BY ProgramCounts DEF CountsRight

(* When a rank comes to the next operation, which is found already or      *)
(* found by it, what it has done before is as it was, and the mesh and the *)
(* reductions after this operation are what the operation says.            *)
LEMMA Coming ==
  ASSUME IInv, TypeInv', NEW p \in Rank, NEW op \in Kind, Comes(p, op), NEW a \in Nat, a = at[p],
         op = "add" => mesh[p] + 1 \in Version
  PROVE  /\ Grows /\ ProgramInv'
         /\ a + 1 \in 1 .. Len(program') /\ program'[a + 1] = op
         /\ MeshAfter(a + 1)' = IF op = "add" THEN mesh[p] + 1 ELSE mesh[p]
         /\ NbReductions(a + 1)' = IF op = "add" THEN NbReductions(a) ELSE NbReductions(a) + 1
         /\ NbReductions(a) \in Nat
         /\ \A i \in 1 .. a : /\ program'[i] = program[i]
                              /\ NbReductions(i)' = NbReductions(i)
                              /\ Fresh(i - 1)' = Fresh(i - 1)
                              /\ program[i] # "add" => NbReductions(i) \in 1 .. NbReductions(a)
         /\ Fresh(a)' = Fresh(a)
<1>1. TypeInv /\ ProgramInv /\ PlaceInv(p) /\ FlagInv(p)
  BY DEF IInv, RankInv
<1>2. Grows
  BY DEF Grows, Comes
<1>3. /\ program' \in Seq(Kind) /\ Len(program) \in Nat /\ Len(program') \in Nat
      /\ Len(program) <= Len(program') /\ Len(program') <= Len(program) + 1
      /\ \A i \in 1 .. Len(program) : program'[i] = program[i]
      /\ \A i \in 0 .. Len(program) : /\ MeshAfter(i)' = MeshAfter(i)
                                      /\ NbReductions(i)' = NbReductions(i)
                                      /\ Fresh(i)' <=> Fresh(i)
  BY <1>1, <1>2, ProgramStable
<1>4. a <= Len(program) /\ mesh[p] = MeshAfter(a)
  BY <1>1 DEF PlaceInv, FlagInv
<1>5. program \in Seq(Kind)
  BY <1>1 DEF TypeInv
<1>6. a + 1 \in 1 .. Len(program') /\ program'[a + 1] = op
      /\ (Len(program') = Len(program) \/ a = Len(program))
  <2>1. CASE a < Len(program) /\ op = Operation(p) /\ program' = program
    BY <1>3, <2>1 DEF Operation
  <2>2. CASE a = Len(program) /\ program' = Append(program, op)
    BY <1>3, <1>5, <2>2
  <2>3. QED
    BY <2>1, <2>2 DEF Comes
<1>7. CountsRight /\ CountsRight'
  <2>1. CountsRight
    BY <1>1, CountsAreRight
  <2>2. CountsRight'
    BY CountsAreRight, PTL
  <2>3. QED
    BY <2>1, <2>2
<1>8. a \in 0 .. Len(program) /\ a \in 0 .. Len(program') /\ (a + 1) - 1 = a
  BY <1>3, <1>4
<1>9. /\ MeshAfter(a + 1)' = IF op = "add" THEN mesh[p] + 1 ELSE mesh[p]
      /\ NbReductions(a + 1)' = IF op = "add" THEN NbReductions(a) ELSE NbReductions(a) + 1
  <2>1. /\ MeshAfter(a + 1)' = IF op = "add" THEN MeshAfter(a)' + 1 ELSE MeshAfter(a)'
        /\ NbReductions(a + 1)' = IF op = "add" THEN NbReductions(a)' ELSE NbReductions(a)' + 1
    BY <1>6, <1>7, <1>8 DEF CountsRight
  <2>2. MeshAfter(a)' = MeshAfter(a) /\ NbReductions(a)' = NbReductions(a)
    BY <1>3, <1>8
  <2>3. QED
    BY <1>4, <2>1, <2>2
<1>10. NbReductions(a) \in Nat
  BY <1>7, <1>8 DEF CountsRight
<1>11. ASSUME NEW i \in 1 .. a
       PROVE  /\ program'[i] = program[i]
              /\ NbReductions(i)' = NbReductions(i)
              /\ Fresh(i - 1)' = Fresh(i - 1)
              /\ program[i] # "add" => NbReductions(i) \in 1 .. NbReductions(a)
  <2>1. i \in 1 .. Len(program) /\ i \in 0 .. Len(program) /\ i - 1 \in 0 .. Len(program)
        /\ i <= a
    BY <1>3, <1>4
  <2>2. program[i] # "add" => NbReductions(i) = NbReductions(i - 1) + 1
    BY <1>7, <2>1 DEF CountsRight
  <2>3. /\ NbReductions(i) \in Nat /\ NbReductions(i - 1) \in Nat
        /\ NbReductions(i) <= NbReductions(a)
    BY <1>7, <1>8, <2>1 DEF CountsRight
  <2>4. program[i] # "add" => NbReductions(i) \in 1 .. NbReductions(a)
    BY <1>10, <2>2, <2>3
  <2>5. Fresh(i - 1)' = Fresh(i - 1)
    BY <1>3, <2>1 DEF Fresh
  <2>6. QED
    BY <1>3, <2>1, <2>4, <2>5
<1>12. Fresh(a)' = Fresh(a)
  BY <1>3, <1>8 DEF Fresh
<1>13. ProgramInv'
  <2>1. ASSUME NEW i \in 0 .. Len(program')
        PROVE  MeshAfter(i)' \in Version
    <3>1. CASE i \in 0 .. Len(program)
      BY <1>1, <1>3, <3>1 DEF ProgramInv
    <3>2. CASE i \notin 0 .. Len(program)
      <4>1. i = a + 1
        BY <1>3, <1>6, <3>2
      <4>2. mesh[p] \in Version
        BY <1>1, <1>4, <1>8 DEF ProgramInv
      <4>3. QED
        BY <1>9, <4>1, <4>2
    <3>3. QED
      BY <3>1, <3>2
  <2>2. QED
    BY <2>1 DEF ProgramInv
<1>14. QED
  BY <1>2, <1>6, <1>9, <1>10, <1>11, <1>12, <1>13

(* Until an operation has come to its lists or values the root keeps those *)
(* that it has.                                                            *)
LEMMA RootBegins ==
  ASSUME IInv, Grows, NEW p \in Rank, OthersStay(p),
         UNCHANGED <<master_receive_entities, gathered>>, mesh'[p] = mesh[p],
         ~entities_changed'[p] => ~entities_changed[p],
         pc[p] \in {"ready", "hasChanged"}, pc'[p] \notin {"ready", "lists", "gathering"}
  PROVE  RootLists' /\ RootGathered'
<1>1. CASE p = root
  <2>1. pc[root] # "lists" /\ pc'[root] \notin {"ready", "lists", "gathering"}
        /\ mesh'[root] = mesh[root] /\ (~entities_changed'[root] => ~entities_changed[root])
    BY <1>1
  <2>2. RootLists'
    BY <2>1 DEF IInv, RootLists, NumbersOf
  <2>3. RootGathered'
    BY <2>1 DEF RootGathered, JustMade
  <2>4. QED
    BY <2>2, <2>3
<1>2. CASE p # root
  <2>1. RootStays
    BY <1>2, RootIsRank DEF OthersStay, RootStays
  <2>2. PlaceInv(root)
    BY RootIsRank DEF IInv, RankInv
  <2>3. QED
    BY <2>1, <2>2, RootIsRank, RootKeeps DEF IInv
<1>3. QED
  BY <1>1, <1>2

(* onNodesAdded keeps the invariant: the rank is in the next version of    *)
(* the mesh and says that its entities have changed.                       *)
LEMMA OnNodesAddedKeeps ==
  ASSUME IInv, NEW p \in Rank, OnNodesAdded(p)
  PROVE  IInv'
<1>1. TypeInv /\ RankInv(p) /\ PlaceInv(p) /\ FlagInv(p)
  BY DEF IInv, RankInv
<1>2. PICK a \in Nat : a = at[p]
  BY <1>1 DEF TypeInv
<1>3. /\ Comes(p, "add") /\ mesh[p] + 1 \in Version /\ pc[p] = "ready"
      /\ at'[p] = a + 1 /\ pc'[p] = "ready" /\ entities_changed'[p] = TRUE
      /\ mesh'[p] = mesh[p] + 1 /\ vote' = vote
      /\ UNCHANGED <<entities_from_root, master_receive_entities, gathered, array, mail, waitFor>>
  BY <1>1, <1>2 DEF OnNodesAdded, Finish, Goto, lists, values, messages, Comes,
     FlagAfterNodesAdded, TypeInv
<1>4. OthersStay(p)
  BY <1>1 DEF OnNodesAdded, Finish, Goto, lists, values, messages, TypeInv, OthersStay
<1>5. Grows
  BY <1>3 DEF Comes, Grows, Kind
<1>6. TypeInv'
  <2>1. program' \in Seq(Kind)
    BY <1>1, <1>5, ProgramStable
  <2>2. QED
    BY <1>1, <2>1 DEF OnNodesAdded, Finish, Goto, lists, values, messages, TypeInv, Place,
       FlagAfterNodesAdded
<1>7. /\ Grows /\ ProgramInv'
      /\ a + 1 \in 1 .. Len(program') /\ program'[a + 1] = "add"
      /\ MeshAfter(a + 1)' = mesh[p] + 1
      /\ NbReductions(a + 1)' = NbReductions(a)
      /\ NbReductions(a) \in Nat
      /\ \A i \in 1 .. a : /\ program'[i] = program[i]
                           /\ NbReductions(i)' = NbReductions(i)
                           /\ Fresh(i - 1)' = Fresh(i - 1)
  BY <1>2, <1>3, <1>6, Coming DEF Kind
<1>8. RankInv(p)'
  <2>1. PlaceInv(p)'
    <3>1. at'[p] <= Len(program') /\ pc'[p] = "ready"
      BY <1>3, <1>6, <1>7 DEF TypeInv
    <3>2. QED
      BY <3>1 DEF PlaceInv
  <2>2. FlagInv(p)'
    <3>1. mesh'[p] = MeshAfter(a + 1)'
      BY <1>3, <1>7
    <3>2. Fresh(a + 1)' = TRUE
      BY <1>7 DEF Fresh
    <3>3. Len(vote'[p]) = NbReductions(a + 1)'
      BY <1>1, <1>2, <1>3, <1>7 DEF FlagInv
    <3>4. ASSUME NEW i \in 1 .. (a + 1), program'[i] # "add"
          PROVE  vote'[p][NbReductions(i)'] = Fresh(i - 1)'
      <4>1. i \in 1 .. a
        BY <1>7, <3>4
      <4>2. QED
        BY <1>1, <1>2, <1>3, <1>7, <3>4, <4>1 DEF FlagInv
    <3>5. QED
      BY <1>3, <3>1, <3>2, <3>3, <3>4 DEF FlagInv
  <2>3. WaitsRight(p)'
    BY <1>3 DEF WaitsRight, AwaitedAt, MessageKind
  <2>4. OwnListOf(p)'
    BY <1>3 DEF OwnListOf
  <2>5. Scattered(p)'
    BY <1>3, <1>7 DEF Scattered, JustMade
  <2>6. QED
    BY <2>1, <2>2, <2>3, <2>4, <2>5 DEF RankInv
<1>9. RootLists' /\ RootGathered'
  <2>1. CASE p = root
    BY <1>3, <1>7, <2>1 DEF RootLists, RootGathered, JustMade
  <2>2. CASE p # root
    <3>1. RootStays
      BY <1>3, <1>4, <2>2, RootIsRank DEF OthersStay, RootStays
    <3>2. PlaceInv(root)
      BY RootIsRank DEF IInv, RankInv
    <3>3. QED
      BY <1>5, <3>1, <3>2, RootIsRank, RootKeeps DEF IInv
  <2>3. QED
    BY <2>1, <2>2
<1>10. MailInv'
  <2>1. \A b, c, kind : ~Needed(b, c, kind, a)'
    BY <1>7 DEF Needed
  <2>2. PICK none : none = {}
    OBVIOUS
  <2>3. /\ none \subseteq Rank \X MessageKind
        /\ \A b \in Rank, kind \in MessageKind : Needed(p, b, kind, a)' =>
             (at'[p] = a + 1 \/ pc'[p] \in SentFrom(kind)
                <=> pc[p] \in SentFrom(kind) \/ <<b, kind>> \in none)
        /\ \A b \in Rank, kind \in MessageKind : Needed(b, p, kind, a)' =>
             (at'[p] = a + 1 \/ HasTaken(b, p, kind)'
                <=> HasTaken(b, p, kind) \/ <<b, kind>> \in none)
        /\ \A key \in none : /\ a < Len(program) /\ Needed(p, key[1], key[2], a)
                             /\ pc[p] \notin SentFrom(key[2])
        /\ \A key \in none : a < Len(program) /\ UnderWay(key[1], p, key[2], a)
        /\ \A m : m \in mail' <=>
             \/ m \in mail /\ \A key \in none : m # Msg(key[1], p, key[2], a)
             \/ \E key \in none : m = Msg(p, key[1], key[2], a)
    BY <1>3, <2>1, <2>2
  <2>4. \A q \in Rank : q # p => at'[q] = at[q] /\ pc'[q] = pc[q] /\ waitFor'[q] = waitFor[q]
    BY <1>4 DEF OthersStay
  <2>5. MailInv /\ \A q \in Rank : PlaceInv(q)
    BY DEF IInv, RankInv
  <2>6. QED
    BY <1>1, <1>2, <1>3, <1>5, <2>3, <2>4, <2>5, MailStep
<1>11. QED
  BY <1>4, <1>5, <1>6, <1>7, <1>8, <1>9, <1>10, StepKeeps

(* The beginning of gather or scatter keeps the invariant: the vote of the *)
(* rank is whether nodes were added just before.                           *)
LEMMA HasChangedKeeps ==
  ASSUME IInv, NEW p \in Rank, NEW op \in {"gather", "scatter"}, HasChanged(p, op)
  PROVE  IInv'
<1>1. TypeInv /\ RankInv(p) /\ PlaceInv(p) /\ FlagInv(p) /\ OwnListOf(p)
  BY DEF IInv, RankInv
<1>2. PICK a \in Nat : a = at[p]
  BY <1>1 DEF TypeInv
<1>3. /\ Comes(p, op) /\ op \in Kind /\ op # "add" /\ pc[p] = "ready"
      /\ at' = at /\ pc'[p] = "hasChanged" /\ entities_changed' = entities_changed
      /\ mesh' = mesh /\ vote'[p] = Append(vote[p], entities_changed[p])
      /\ UNCHANGED <<entities_from_root, master_receive_entities, gathered, array, mail, waitFor>>
  BY <1>1, <1>2 DEF HasChanged, Goto, lists, values, messages, Comes, TypeInv, Kind
<1>4. OthersStay(p)
  BY <1>1 DEF HasChanged, Goto, lists, values, messages, TypeInv, OthersStay
<1>5. Grows
  BY <1>3 DEF Comes, Grows
<1>6. TypeInv'
  <2>1. program' \in Seq(Kind)
    BY <1>1, <1>5, ProgramStable
  <2>2. QED
    BY <1>1, <2>1 DEF HasChanged, Goto, lists, values, messages, TypeInv, Place
<1>7. /\ Grows /\ ProgramInv'
      /\ a + 1 \in 1 .. Len(program') /\ program'[a + 1] = op
      /\ NbReductions(a + 1)' = NbReductions(a) + 1
      /\ NbReductions(a) \in Nat
      /\ \A i \in 1 .. a : /\ program'[i] = program[i]
                           /\ NbReductions(i)' = NbReductions(i)
                           /\ Fresh(i - 1)' = Fresh(i - 1)
                           /\ program[i] # "add" => NbReductions(i) \in 1 .. NbReductions(a)
      /\ Fresh(a)' = Fresh(a)
  BY <1>2, <1>3, <1>6, Coming
<1>8. RankInv(p)'
  <2>1. PlaceInv(p)'
    <3>1. a + 1 <= Len(program') /\ Len(program') \in Nat
      BY <1>6, <1>7 DEF TypeInv
    <3>2. Operation(p)' = op /\ at'[p] = a
      BY <1>2, <1>3, <1>7 DEF Operation
    <3>3. QED
      BY <1>3, <3>1, <3>2 DEF PlaceInv
  <2>2. FlagInv(p)'
    <3>1. mesh[p] = MeshAfter(a) /\ MeshAfter(a)' = MeshAfter(a)
      <4>1. a \in 0 .. Len(program)
        BY <1>1, <1>2 DEF PlaceInv, TypeInv
      <4>2. QED
        BY <1>1, <1>2, <1>5, <4>1, ProgramStable DEF FlagInv
    <3>2. entities_changed[p] = Fresh(a)
      BY <1>1, <1>2, <1>3 DEF FlagInv
    <3>3. vote[p] \in Seq(BOOLEAN) /\ Len(vote[p]) = NbReductions(a)
          /\ entities_changed[p] \in BOOLEAN
      BY <1>1, <1>2, <1>3 DEF FlagInv, TypeInv
    <3>4. /\ Len(vote'[p]) = NbReductions(a) + 1
          /\ vote'[p][NbReductions(a) + 1] = entities_changed[p]
          /\ \A i \in 1 .. NbReductions(a) : vote'[p][i] = vote[p][i]
      BY <1>3, <1>7, <3>3, AppendedSet
    <3>5. ASSUME NEW i \in 1 .. (a + 1), program'[i] # "add"
          PROVE  vote'[p][NbReductions(i)'] = Fresh(i - 1)'
      <4>1. CASE i = a + 1
        <5>1. NbReductions(i)' = NbReductions(a) + 1 /\ i - 1 = a
          BY <1>7, <4>1
        <5>2. QED
          BY <1>7, <3>2, <3>4, <5>1
      <4>2. CASE i # a + 1
        <5>1. i \in 1 .. a
          BY <4>2
        <5>2. vote[p][NbReductions(i)] = Fresh(i - 1)
          BY <1>1, <1>2, <1>3, <1>7, <3>5, <5>1 DEF FlagInv
        <5>3. QED
          BY <1>7, <3>4, <3>5, <5>1, <5>2
      <4>3. QED
        BY <4>1, <4>2
    <3>6. mesh'[p] = MeshAfter(a)' /\ entities_changed'[p] = Fresh(a)'
          /\ Len(vote'[p]) = NbReductions(a + 1)' /\ at'[p] = a
      BY <1>2, <1>3, <1>7, <3>1, <3>2, <3>4
    <3>7. QED
      BY <1>3, <3>5, <3>6 DEF FlagInv
  <2>3. WaitsRight(p)'
    BY <1>3 DEF WaitsRight, AwaitedAt, MessageKind
  <2>4. OwnListOf(p)'
    BY <1>1, <1>3 DEF OwnListOf, OwnEntities
  <2>5. Scattered(p)'
    BY <1>3, <1>7 DEF Scattered, JustMade
  <2>6. QED
    BY <2>1, <2>2, <2>3, <2>4, <2>5 DEF RankInv
<1>9. RootLists' /\ RootGathered'
  BY <1>3, <1>4, <1>5, RootBegins
<1>10. MailInv'
  <2>1. PICK none : none = {}
    OBVIOUS
  <2>2. \A kind \in MessageKind : pc[p] \notin SentFrom(kind) /\ pc'[p] \notin SentFrom(kind)
          /\ pc[p] \notin TakenFrom(kind) /\ pc'[p] \notin TakenFrom(kind)
          /\ pc[p] \notin AwaitedAt(kind) /\ pc'[p] \notin AwaitedAt(kind)
    BY <1>3 DEF SentFrom, TakenFrom, AwaitedAt, AfterInit, MessageKind
  <2>3. at'[p] # a + 1
    BY <1>2, <1>3
  <2>4. /\ none \subseteq Rank \X MessageKind
        /\ \A b \in Rank, kind \in MessageKind : Needed(p, b, kind, a)' =>
             (at'[p] = a + 1 \/ pc'[p] \in SentFrom(kind)
                <=> pc[p] \in SentFrom(kind) \/ <<b, kind>> \in none)
        /\ \A b \in Rank, kind \in MessageKind : Needed(b, p, kind, a)' =>
             (at'[p] = a + 1 \/ HasTaken(b, p, kind)'
                <=> HasTaken(b, p, kind) \/ <<b, kind>> \in none)
        /\ \A key \in none : /\ a < Len(program) /\ Needed(p, key[1], key[2], a)
                             /\ pc[p] \notin SentFrom(key[2])
        /\ \A key \in none : a < Len(program) /\ UnderWay(key[1], p, key[2], a)
        /\ \A m : m \in mail' <=>
             \/ m \in mail /\ \A key \in none : m # Msg(key[1], p, key[2], a)
             \/ \E key \in none : m = Msg(p, key[1], key[2], a)
    BY <1>3, <2>1, <2>2, <2>3 DEF HasTaken
  <2>5. \A q \in Rank : q # p => at'[q] = at[q] /\ pc'[q] = pc[q] /\ waitFor'[q] = waitFor[q]
    BY <1>4 DEF OthersStay
  <2>6. MailInv /\ \A q \in Rank : PlaceInv(q)
    BY DEF IInv, RankInv
  <2>7. at'[p] = a
    BY <1>2, <1>3
  <2>8. QED
    BY <1>1, <1>2, <1>5, <2>4, <2>5, <2>6, <2>7, MailStep
<1>11. QED
  BY <1>4, <1>5, <1>6, <1>7, <1>8, <1>9, <1>10, StepKeeps

(* Every rank that is in a reduction, or has been, has given to it whether *)
(* nodes were added just before this operation, however far it is now: the *)
(* result is the same on all ranks, and the same as what the rank gave.    *)
LEMMA VotesAgree ==
  ASSUME IInv, NEW p \in Rank, pc[p] = "hasChanged", NEW a \in Nat, a = at[p],
         \A q \in Rank : Len(vote[q]) >= Len(vote[p])
  PROVE  Changed(p, Len(vote[p])) = Fresh(a)
<1>1. TypeInv /\ \A q \in Rank : PlaceInv(q) /\ FlagInv(q)
  BY DEF IInv, RankInv
<1>2. a \in 0 .. Len(program) /\ a + 1 \in 1 .. Len(program) /\ program[a + 1] # "add"
      /\ a + 1 \in 0 .. Len(program) /\ Len(program) \in Nat
  BY <1>1 DEF PlaceInv, TypeInv, Operation
<1>3. Len(vote[p]) = NbReductions(a + 1)
  BY <1>1 DEF FlagInv
<1>4. CountsRight
  BY <1>1, CountsAreRight
<1>5. NbReductions(a + 1) = NbReductions(a) + 1 /\ NbReductions(a) \in Nat
  <2>1. (a + 1) - 1 = a
    OBVIOUS
  <2>2. QED
    BY <1>2, <1>4, <2>1 DEF CountsRight
<1>6. ASSUME NEW q \in Rank
      PROVE  vote[q][NbReductions(a + 1)] = Fresh(a)
  <2>1. PICK b \in Nat : b = at[q]
    BY <1>1 DEF TypeInv
  <2>2. PICK begun : begun = IF pc[q] = "ready" THEN b ELSE b + 1
    OBVIOUS
  <2>3. begun \in Nat /\ begun \in 0 .. Len(program)
    BY <1>1, <1>2, <2>1, <2>2 DEF PlaceInv
  <2>4. /\ Len(vote[q]) = NbReductions(begun)
        /\ \A i \in 1 .. begun : program[i] # "add" => vote[q][NbReductions(i)] = Fresh(i - 1)
    BY <1>1, <2>1, <2>2 DEF FlagInv
  <2>5. NbReductions(begun) >= NbReductions(a) + 1 /\ NbReductions(begun) \in Nat
    BY <1>3, <1>4, <1>5, <2>3, <2>4 DEF CountsRight
  <2>6. ~(begun <= a)
    <3>1. begun <= a => NbReductions(begun) <= NbReductions(a)
      BY <1>2, <1>4, <2>3 DEF CountsRight
    <3>2. QED
      BY <1>5, <2>5, <3>1
  <2>7. a + 1 \in 1 .. begun /\ (a + 1) - 1 = a
    BY <2>3, <2>6
  <2>8. QED
    BY <1>2, <2>4, <2>7
<1>7. Fresh(a) \in BOOLEAN
  BY DEF Fresh
<1>8. QED
  BY <1>3, <1>6, <1>7 DEF Changed

(* The end of the reduction keeps the invariant: all ranks make the lists, *)
(* or none does.                                                           *)
LEMMA ReducedKeeps ==
  ASSUME IInv, NEW p \in Rank, Reduced(p)
  PROVE  IInv'
<1>1. TypeInv /\ RankInv(p) /\ PlaceInv(p) /\ FlagInv(p) /\ OwnListOf(p) /\ ProgramInv
  BY DEF IInv, RankInv
<1>2. PICK a \in Nat : a = at[p]
  BY <1>1 DEF TypeInv
<1>3. Changed(p, Len(vote[p])) = Fresh(a)
  BY <1>2, VotesAgree DEF Reduced
<1>4. /\ pc[p] = "hasChanged" /\ Operation(p) \in {"gather", "scatter"}
      /\ a < Len(program) /\ Operation(p) = program[a + 1] /\ Len(program) \in Nat
  BY <1>1, <1>2 DEF Reduced, PlaceInv, Operation, TypeInv, Kind
<1>5. /\ entities_changed'[p] = Fresh(a) /\ entities_changed[p] = Fresh(a)
      /\ pc'[p] = IF Fresh(a) THEN "init" ELSE Operation(p)
      /\ UNCHANGED <<program, at, mesh, vote, entities_from_root, master_receive_entities,
                     gathered, array, mail, waitFor>>
  <2>1. /\ entities_changed'[p] = Fresh(a)
        /\ UNCHANGED <<program, at, mesh, vote, entities_from_root, master_receive_entities,
                       gathered, array, mail, waitFor>>
    BY <1>1, <1>3 DEF Reduced, lists, values, messages, TypeInv
  <2>2. entities_changed[p] = Fresh(a)
    BY <1>1, <1>2, <1>4 DEF FlagInv
  <2>3. pc'[p] = IF Fresh(a) THEN "init" ELSE Operation(p)
    BY <1>1, <1>3 DEF Reduced, Goto, TypeInv
  <2>4. QED
    BY <2>1, <2>2, <2>3
<1>6. OthersStay(p)
  BY <1>1 DEF Reduced, Goto, lists, values, messages, TypeInv, OthersStay
<1>7. TypeInv'
  <2>1. pc' \in [Rank -> Place]
    BY <1>1, <1>4 DEF Reduced, Goto, TypeInv, Place
  <2>2. entities_changed' \in [Rank -> BOOLEAN]
    BY <1>1 DEF Reduced, TypeInv, Changed
  <2>3. QED
    BY <1>1, <1>5, <2>1, <2>2 DEF TypeInv
<1>8. RankInv(p)'
  <2>1. at'[p] = a /\ Operation(p)' = Operation(p) /\ program' = program
    BY <1>2, <1>5 DEF Operation
  <2>2. PlaceInv(p)'
    <3>1. Fresh(a)' = Fresh(a)
      BY <2>1 DEF Fresh
    <3>2. QED
      BY <1>1, <1>2, <1>4, <1>5, <2>1, <3>1 DEF PlaceInv
  <2>3. FlagInv(p)'
    <3>1. \A i : /\ MeshAfter(i)' = MeshAfter(i)
                 /\ NbReductions(i)' = NbReductions(i)
                 /\ Fresh(i)' = Fresh(i)
      BY <1>5 DEF MeshAfter, NbReductions, Adds, Reductions, Fresh
    <3>2. pc'[p] \notin {"ready", "hasChanged"}
          /\ (pc'[p] # "init" => ~entities_changed'[p])
      BY <1>4, <1>5
    <3>3. mesh[p] = MeshAfter(a)
      BY <1>1, <1>2, <1>5 DEF FlagInv
    <3>4. /\ Len(vote[p]) = NbReductions(a + 1)
          /\ \A i \in 1 .. (a + 1) : program[i] # "add" =>
               vote[p][NbReductions(i)] = Fresh(i - 1)
      BY <1>1, <1>2, <1>4 DEF FlagInv
    <3>5. /\ mesh'[p] = MeshAfter(a)' /\ Len(vote'[p]) = NbReductions(a + 1)'
          /\ \A i \in 1 .. (a + 1) : program'[i] # "add" =>
               vote'[p][NbReductions(i)'] = Fresh(i - 1)'
      BY <1>5, <3>1, <3>3, <3>4
    <3>6. QED
      BY <2>1, <3>2, <3>5 DEF FlagInv
  <2>4. WaitsRight(p)'
    BY <1>4, <1>5 DEF WaitsRight, AwaitedAt, MessageKind
  <2>5. OwnListOf(p)'
    BY <1>1, <1>5 DEF OwnListOf, OwnEntities
  <2>6. Scattered(p)'
    BY <1>4, <1>5 DEF Scattered, JustMade
  <2>7. QED
    BY <2>2, <2>3, <2>4, <2>5, <2>6 DEF RankInv
<1>9. Grows
  BY <1>5 DEF Grows
<1>10. RootLists' /\ RootGathered'
  <2>1. \/ pc[p] \in {"ready", "hasChanged"} /\ pc'[p] \notin {"ready", "lists", "gathering"}
        \/ pc'[p] = "gather"
    BY <1>4, <1>5
  <2>2. QED
    BY <1>4, <1>5, <1>6, <1>9, <2>1, RootBegins
<1>11. MailInv'
  <2>1. ASSUME NEW b \in Rank, NEW kind \in MessageKind, Needed(p, b, kind, a)
        PROVE  pc'[p] \in SentFrom(kind) <=> pc[p] \in SentFrom(kind)
    BY <1>4, <1>5, <2>1 DEF Needed, SentFrom, AfterInit, MessageKind
  <2>2. ASSUME NEW b \in Rank, NEW kind \in MessageKind, Needed(b, p, kind, a)
        PROVE  HasTaken(b, p, kind)' <=> HasTaken(b, p, kind)
    BY <1>4, <1>5, <2>2 DEF Needed, HasTaken, TakenFrom, AwaitedAt, AfterInit, MessageKind
  <2>3. at'[p] = a /\ a # a + 1 /\ pc[p] # "ready"
    BY <1>2, <1>4, <1>5
  <2>4. QED
    BY <1>2, <1>5, <1>6, <2>1, <2>2, <2>3, MailStays
<1>12. ProgramInv'
  BY <1>1, <1>5, ProgramStays
<1>13. QED
  BY <1>6, <1>7, <1>8, <1>9, <1>10, <1>11, <1>12, StepKeeps

-----------------------------------------------------------------------------
(* The lists.                                                              *)

(* initScatterGatherCommunicationScheme on a slave keeps the invariant:    *)
(* its size and its list are in the mail.                                  *)
LEMMA InitSlaveKeeps ==
  ASSUME IInv, NEW p \in Rank, InitSlave(p)
  PROVE  IInv'
<1>1. TypeInv /\ RankInv(p) /\ PlaceInv(p) /\ FlagInv(p)
  BY DEF IInv, RankInv
<1>2. PICK a \in Nat : a = at[p]
  BY <1>1 DEF TypeInv
<1>3. PICK v : v = MeshAfter(a)
  OBVIOUS
<1>4. PICK own : own = Owned(v, p)
  OBVIOUS
<1>5. /\ p \in Slave /\ p # root /\ pc[p] = "init" /\ mesh[p] = v /\ Fresh(a)
      /\ a < Len(program) /\ program[a + 1] # "add" /\ v \in Version
      /\ a \in 0 .. Len(program)
  <2>1. /\ p \in Slave /\ p # root /\ pc[p] = "init" /\ mesh[p] = v /\ Fresh(a)
        /\ a < Len(program) /\ program[a + 1] # "add"
    BY <1>1, <1>2, <1>3 DEF InitSlave, PlaceInv, FlagInv, Slave, Operation
  <2>2. a \in 0 .. Len(program)
    BY <1>1, <2>1 DEF TypeInv
  <2>3. QED
    BY <1>3, <2>1, <2>2 DEF IInv, ProgramInv
<1>6. own \in Seq(Entity) /\ Numbers(p, own) = NumbersOf(v, p) /\ OwnEntities(p) = own
  BY <1>4, <1>5, OwnedProperties DEF Numbers, NumbersOf, OwnEntities
<1>7. /\ entities_from_root'[p] = own /\ entities_changed'[p] = FALSE /\ pc'[p] = "listSent"
      /\ UNCHANGED <<program, at, mesh, vote, master_receive_entities, gathered, array, waitFor>>
      /\ mail' = mail \cup {Message(p, root, "size", Len(own))} \cup
           (IF own = <<>> THEN {} ELSE {Message(p, root, "list", Numbers(p, own))})
  BY <1>1, <1>6 DEF InitSlave, Goto, values, TypeInv
<1>8. OthersStay(p)
  BY <1>1 DEF InitSlave, Goto, values, TypeInv, OthersStay
<1>9. TypeInv'
  BY <1>1, <1>6 DEF InitSlave, Goto, values, TypeInv, Place
<1>10. RankInv(p)'
  <2>1. at'[p] = a /\ program' = program /\ Operation(p)' = Operation(p)
    BY <1>2, <1>7 DEF Operation
  <2>2. \A i : /\ MeshAfter(i)' = MeshAfter(i)
               /\ NbReductions(i)' = NbReductions(i)
               /\ Fresh(i)' = Fresh(i)
    BY <2>1 DEF MeshAfter, NbReductions, Adds, Reductions, Fresh
  <2>3. PlaceInv(p)'
    BY <1>1, <1>2, <1>5, <1>7, <2>1, <2>2 DEF PlaceInv
  <2>4. FlagInv(p)'
    <3>1. /\ Len(vote[p]) = NbReductions(a + 1)
          /\ \A i \in 1 .. (a + 1) : program[i] # "add" =>
               vote[p][NbReductions(i)] = Fresh(i - 1)
      BY <1>1, <1>2, <1>5 DEF FlagInv
    <3>2. /\ mesh'[p] = MeshAfter(a)' /\ Len(vote'[p]) = NbReductions(a + 1)'
          /\ \A i \in 1 .. (a + 1) : program'[i] # "add" =>
               vote'[p][NbReductions(i)'] = Fresh(i - 1)'
      BY <1>3, <1>5, <1>7, <2>2, <3>1
    <3>3. QED
      BY <1>7, <2>1, <3>2 DEF FlagInv
  <2>5. WaitsRight(p)'
    BY <1>7 DEF WaitsRight, AwaitedAt, MessageKind
  <2>6. OwnListOf(p)'
    BY <1>6, <1>7 DEF OwnListOf, OwnEntities
  <2>7. Scattered(p)'
    BY <1>7 DEF Scattered, JustMade
  <2>8. QED
    BY <2>3, <2>4, <2>5, <2>6, <2>7 DEF RankInv
<1>11. MailInv'
  <2>1. PICK new : new = {<<root, "size">>} \cup (IF own = <<>> THEN {} ELSE {<<root, "list">>})
    OBVIOUS
  <2>2. PICK gone : gone = {}
    OBVIOUS
  <2>3. new \subseteq Rank \X MessageKind /\ gone \subseteq Rank \X MessageKind
    BY <2>1, <2>2, RootIsRank DEF MessageKind
  <2>4. ASSUME NEW b \in Rank, NEW kind \in MessageKind, Needed(p, b, kind, a)
        PROVE  pc'[p] \in SentFrom(kind) <=> pc[p] \in SentFrom(kind) \/ <<b, kind>> \in new
    BY <1>3, <1>4, <1>5, <1>7, <2>1, <2>4 DEF Needed, SentFrom, AfterInit, MessageKind
  <2>5. ASSUME NEW b \in Rank, NEW kind \in MessageKind, Needed(b, p, kind, a)
        PROVE  HasTaken(b, p, kind)' <=> HasTaken(b, p, kind) \/ <<b, kind>> \in gone
    BY <1>5, <1>7, <2>2, <2>5 DEF Needed, HasTaken, TakenFrom, AwaitedAt, AfterInit, MessageKind
  <2>6. ASSUME NEW key \in new
        PROVE  Needed(p, key[1], key[2], a) /\ pc[p] \notin SentFrom(key[2])
    BY <1>3, <1>4, <1>5, <2>1 DEF Needed, SentFrom, AfterInit
  <2>7. /\ Message(p, root, "size", Len(own)) = Msg(p, root, "size", a)
        /\ Message(p, root, "list", Numbers(p, own)) = Msg(p, root, "list", a)
    BY <1>2, <1>3, <1>4, <1>6 DEF Message, Msg, Content
  <2>8. \A m : m \in mail' <=>
          \/ m \in mail /\ \A key \in gone : m # Msg(key[1], p, key[2], a)
          \/ \E key \in new : m = Msg(p, key[1], key[2], a)
    <3>1. /\ mail' = mail \cup {Msg(p, root, "size", a)} \cup
                      (IF own = <<>> THEN {} ELSE {Msg(p, root, "list", a)})
      BY <1>7, <2>7
    <3>2. ASSUME NEW m
          PROVE  (\E key \in new : m = Msg(p, key[1], key[2], a)) <=>
                   m = Msg(p, root, "size", a) \/ (own # <<>> /\ m = Msg(p, root, "list", a))
      <4>1. CASE own = <<>>
        BY <2>1, <4>1
      <4>2. CASE own # <<>>
        <5>1. new = {<<root, "size">>, <<root, "list">>}
          BY <2>1, <4>2
        <5>2. ASSUME NEW key \in new
              PROVE  key[1] = root /\ (key[2] = "size" \/ key[2] = "list")
          <6>1. key = <<root, "size">> \/ key = <<root, "list">>
            BY <5>1
          <6>2. QED
            BY <6>1
        <5>3. <<root, "size">> \in new /\ <<root, "list">> \in new
          BY <5>1
        <5>4. QED
          BY <4>2, <5>2, <5>3
      <4>3. QED
        BY <4>1, <4>2
    <3>3. QED
      BY <2>2, <3>1, <3>2
  <2>9. at'[p] = a /\ a # a + 1 /\ pc[p] # "ready"
    BY <1>2, <1>5, <1>7
  <2>10. \A key \in gone : UnderWay(key[1], p, key[2], a)
    BY <2>2
  <2>11. QED
    BY <1>2, <1>7, <1>8, <2>3, <2>4, <2>5, <2>6, <2>8, <2>9, <2>10, MailWithin
<1>12. QED
  BY <1>5, <1>7, <1>8, <1>9, <1>10, <1>11, SlaveKeeps

(* waitAll on a slave after its list keeps the invariant.                  *)
LEMMA ListSentKeeps ==
  ASSUME IInv, NEW p \in Rank, ListReceived(p) \/ ListBuffered(p)
  PROVE  IInv'
<1>1. TypeInv /\ RankInv(p) /\ PlaceInv(p) /\ FlagInv(p) /\ OwnListOf(p)
  BY DEF IInv, RankInv
<1>2. PICK a \in Nat : a = at[p]
  BY <1>1 DEF TypeInv
<1>3. /\ pc[p] = "listSent" /\ p \in Slave /\ Operation(p) \in {"gather", "scatter"}
      /\ Operation(p) = program[a + 1] /\ p # root
  BY <1>1, <1>2 DEF ListReceived, ListBuffered, PlaceInv, Operation, TypeInv, Kind, Slave
<1>4. /\ pc'[p] = Operation(p) /\ at'[p] = a
      /\ UNCHANGED <<program, at, mesh, entities_changed, vote, entities_from_root,
                     master_receive_entities, gathered, array, mail, waitFor>>
  BY <1>1, <1>2 DEF ListReceived, ListBuffered, Goto, lists, values, messages, TypeInv
<1>5. OthersStay(p)
  BY <1>1 DEF ListReceived, ListBuffered, Goto, lists, values, messages, TypeInv, OthersStay
<1>6. TypeInv'
  BY <1>1, <1>3 DEF ListReceived, ListBuffered, Goto, lists, values, messages, TypeInv, Place
<1>7. RankInv(p)'
  <2>1. Operation(p)' = Operation(p)
    BY <1>4 DEF Operation
  <2>2. PlaceInv(p)'
    BY <1>1, <1>3, <1>4, <2>1 DEF PlaceInv
  <2>3. FlagInv(p)' /\ OwnListOf(p)'
    BY <1>1, <1>2, <1>3, <1>4, <1>6, Within
  <2>4. WaitsRight(p)'
    BY <1>3, <1>4 DEF WaitsRight, AwaitedAt, MessageKind
  <2>5. Scattered(p)'
    BY <1>3, <1>4 DEF Scattered, JustMade
  <2>6. QED
    BY <2>2, <2>3, <2>4, <2>5 DEF RankInv
<1>8. MailInv'
  <2>1. ASSUME NEW b \in Rank, NEW kind \in MessageKind, Needed(p, b, kind, a)
        PROVE  pc'[p] \in SentFrom(kind) <=> pc[p] \in SentFrom(kind)
    BY <1>3, <1>4, <2>1 DEF SentFrom, AfterInit, MessageKind
  <2>2. ASSUME NEW b \in Rank, NEW kind \in MessageKind, Needed(b, p, kind, a)
        PROVE  HasTaken(b, p, kind)' <=> HasTaken(b, p, kind)
    BY <1>3, <1>4, <2>2 DEF HasTaken, TakenFrom, AwaitedAt, AfterInit, MessageKind
  <2>3. at'[p] = a /\ a # a + 1 /\ pc[p] # "ready"
    BY <1>3, <1>4
  <2>4. QED
    BY <1>2, <1>4, <1>5, <2>1, <2>2, <2>3, MailStays
<1>9. QED
  BY <1>3, <1>4, <1>5, <1>6, <1>7, <1>8, SlaveKeeps

(* The first sizes from all slaves are those of the operation the root is  *)
(* in.                                                                     *)
LEMMA SizesOf ==
  ASSUME IInv, pc[root] = "init", NEW a \in Nat, a = at[root],
         NEW sizes, sizes = {m \in mail : Matches(m, root, "size")},
         {m.src : m \in sizes} = Slave
  PROVE  /\ sizes = {Msg(q, root, "size", a) : q \in Slave}
         /\ \A q \in Slave : UnderWay(q, root, "size", a)
<1>1. TypeInv /\ PlaceInv(root)
  BY RootIsRank DEF IInv, RankInv
<1>2. Fresh(a) /\ a < Len(program) /\ program[a + 1] # "add"
  BY <1>1 DEF PlaceInv, Operation
<1>3. ASSUME NEW m \in sizes
      PROVE  m.src \in Slave /\ m = Msg(m.src, root, "size", a)
             /\ UnderWay(m.src, root, "size", a)
  <2>1. m.src \in Slave /\ Matches(m, root, "size")
    OBVIOUS
  <2>2. Needed(m.src, root, "size", a)
    BY <1>2, <2>1 DEF Needed
  <2>3. ~HasTaken(m.src, root, "size")
    BY DEF HasTaken, TakenFrom, AwaitedAt, AfterInit
  <2>4. "size" \in MessageKind
    BY DEF MessageKind
  <2>5. QED
    BY <1>2, <2>1, <2>2, <2>3, <2>4, RootIsRank, FirstMatch
<1>4. ASSUME NEW q \in Slave
      PROVE  Msg(q, root, "size", a) \in sizes /\ UnderWay(q, root, "size", a)
  <2>1. PICK m \in sizes : m.src = q
    OBVIOUS
  <2>2. QED
    BY <1>3, <2>1
<1>5. QED
  BY <1>3, <1>4

(* initScatterGatherCommunicationScheme on the root keeps the invariant:   *)
(* it waits for the lists of exactly those slaves that send one.           *)
LEMMA InitRootKeeps ==
  ASSUME IInv, InitRoot
  PROVE  IInv'
<1>1. TypeInv /\ RankInv(root) /\ PlaceInv(root) /\ FlagInv(root) /\ root \in Rank
  BY RootIsRank DEF IInv, RankInv
<1>2. PICK a \in Nat : a = at[root]
  BY <1>1 DEF TypeInv
<1>3. PICK v : v = MeshAfter(a)
  OBVIOUS
<1>4. PICK own : own = Owned(v, root)
  OBVIOUS
<1>5. /\ pc[root] = "init" /\ mesh[root] = v /\ Fresh(a)
      /\ a < Len(program) /\ program[a + 1] # "add" /\ v \in Version
      /\ a \in 0 .. Len(program)
  <2>1. /\ pc[root] = "init" /\ mesh[root] = v /\ Fresh(a)
        /\ a < Len(program) /\ program[a + 1] # "add"
    BY <1>1, <1>2, <1>3 DEF InitRoot, PlaceInv, FlagInv, Operation
  <2>2. a \in 0 .. Len(program)
    BY <1>1, <2>1 DEF TypeInv
  <2>3. QED
    BY <1>3, <2>1, <2>2 DEF IInv, ProgramInv
<1>6. own \in Seq(Entity) /\ Numbers(root, own) = NumbersOf(v, root) /\ OwnEntities(root) = own
      /\ NumbersOf(v, root) \in Seq(Nat)
  BY <1>1, <1>4, <1>5, OwnedProperties, NumbersProperties DEF Numbers, NumbersOf, OwnEntities
<1>7. PICK sizes : sizes = {m \in mail : Matches(m, root, "size")}
  OBVIOUS
<1>8. /\ {m.src : m \in sizes} = Slave
      /\ entities_from_root'[root] = own /\ entities_changed'[root] = FALSE
      /\ pc'[root] = "lists" /\ mail' = mail \ sizes
      /\ waitFor'[root] = {m.src : m \in {s \in sizes : s.data > 0}}
      /\ master_receive_entities' =
           [p \in Rank |-> IF p = root THEN NumbersOf(v, root) ELSE <<>>]
      /\ UNCHANGED <<program, at, mesh, vote, gathered, array>>
  BY <1>1, <1>6, <1>7 DEF InitRoot, Goto, values, TypeInv
<1>9. /\ sizes = {Msg(q, root, "size", a) : q \in Slave}
      /\ \A q \in Slave : UnderWay(q, root, "size", a)
  BY <1>2, <1>5, <1>7, <1>8, SizesOf
<1>10. waitFor'[root] = {q \in Slave : Owned(v, q) # <<>>}
  <2>1. \A q \in Slave : Msg(q, root, "size", a).src = q
                         /\ Msg(q, root, "size", a).data = Len(Owned(v, q))
    BY <1>3 DEF Msg, Content
  <2>2. \A q \in Slave : Len(Owned(v, q)) > 0 <=> Owned(v, q) # <<>>
    BY <1>5, NumbersProperties DEF Slave
  <2>3. QED
    BY <1>8, <1>9, <2>1, <2>2
<1>11. OthersStay(root)
  BY <1>1 DEF InitRoot, Goto, values, TypeInv, OthersStay
<1>12. TypeInv'
  <2>1. master_receive_entities' \in [Rank -> Seq(Nat)]
    BY <1>6, <1>8
  <2>2. waitFor' \in [Rank -> SUBSET Rank]
    <3>1. waitFor'[root] \subseteq Rank
      BY <1>10 DEF Slave
    <3>2. QED
      BY <1>1, <3>1 DEF InitRoot, TypeInv
  <2>3. entities_from_root' \in [Rank -> Seq(Entity)] /\ pc' \in [Rank -> Place]
        /\ entities_changed' \in [Rank -> BOOLEAN]
    BY <1>1, <1>6 DEF InitRoot, Goto, TypeInv, Place
  <2>4. QED
    BY <1>1, <1>8, <2>1, <2>2, <2>3 DEF TypeInv
<1>13. RankInv(root)'
  <2>1. at'[root] = a /\ program' = program /\ Operation(root)' = Operation(root)
    BY <1>2, <1>8 DEF Operation
  <2>2. \A i : /\ MeshAfter(i)' = MeshAfter(i)
               /\ NbReductions(i)' = NbReductions(i)
               /\ Fresh(i)' = Fresh(i)
    BY <2>1 DEF MeshAfter, NbReductions, Adds, Reductions, Fresh
  <2>3. PlaceInv(root)'
    BY <1>1, <1>2, <1>5, <1>8, <2>1, <2>2 DEF PlaceInv
  <2>4. FlagInv(root)'
    <3>1. /\ Len(vote[root]) = NbReductions(a + 1)
          /\ \A i \in 1 .. (a + 1) : program[i] # "add" =>
               vote[root][NbReductions(i)] = Fresh(i - 1)
      BY <1>1, <1>2, <1>5 DEF FlagInv
    <3>2. /\ mesh'[root] = MeshAfter(a)' /\ Len(vote'[root]) = NbReductions(a + 1)'
          /\ \A i \in 1 .. (a + 1) : program'[i] # "add" =>
               vote'[root][NbReductions(i)'] = Fresh(i - 1)'
      BY <1>3, <1>5, <1>8, <2>2, <3>1
    <3>3. QED
      BY <1>8, <2>1, <3>2 DEF FlagInv
  <2>5. WaitsRight(root)'
    <3>1. \A q \in waitFor'[root] : Needed(q, root, "list", a)
      BY <1>3, <1>5, <1>10 DEF Needed
    <3>2. \A q : Needed(q, root, "list", a)' <=> Needed(q, root, "list", a)
      BY <2>1, <2>2 DEF Needed
    <3>3. \A kind \in MessageKind : pc'[root] \in AwaitedAt(kind) => kind = "list"
      BY <1>8 DEF AwaitedAt, MessageKind
    <3>4. QED
      BY <2>1, <3>1, <3>2, <3>3 DEF WaitsRight
  <2>6. OwnListOf(root)'
    BY <1>6, <1>8 DEF OwnListOf, OwnEntities
  <2>7. Scattered(root)'
    BY <1>8 DEF Scattered, JustMade
  <2>8. QED
    BY <2>3, <2>4, <2>5, <2>6, <2>7 DEF RankInv
<1>14. MailInv'
  <2>1. PICK gone : gone = {<<q, "size">> : q \in Slave}
    OBVIOUS
  <2>2. PICK new : new = {}
    OBVIOUS
  <2>3. new \subseteq Rank \X MessageKind /\ gone \subseteq Rank \X MessageKind
    BY <2>1, <2>2 DEF MessageKind, Slave
  <2>4. ASSUME NEW b \in Rank, NEW kind \in MessageKind, Needed(root, b, kind, a)
        PROVE  pc'[root] \in SentFrom(kind) <=> pc[root] \in SentFrom(kind) \/ <<b, kind>> \in new
    BY <1>5, <1>8, <2>2, <2>4 DEF Needed, Slave, SentFrom, AfterInit, MessageKind
  <2>5. ASSUME NEW b \in Rank, NEW kind \in MessageKind, Needed(b, root, kind, a)
        PROVE  HasTaken(b, root, kind)' <=> HasTaken(b, root, kind) \/ <<b, kind>> \in gone
    <3>1. CASE kind = "size"
      <4>1. <<b, kind>> \in gone
        BY <2>1, <2>5, <3>1 DEF Needed
      <4>2. QED
        BY <1>8, <3>1, <4>1 DEF HasTaken, TakenFrom, AfterInit
    <3>2. CASE kind = "list"
      <4>1. b \in waitFor'[root]
        BY <1>3, <1>10, <2>5, <3>2 DEF Needed
      <4>2. <<b, kind>> \notin gone
        BY <2>1, <3>2
      <4>3. QED
        BY <1>5, <1>8, <3>2, <4>1, <4>2 DEF HasTaken, TakenFrom, AwaitedAt, AfterInit
    <3>3. CASE kind \in {"gather", "scatter", "ghost"}
      <4>1. <<b, kind>> \notin gone
        BY <2>1, <3>3
      <4>2. QED
        BY <1>5, <1>8, <3>3, <4>1 DEF HasTaken, TakenFrom, AwaitedAt
    <3>4. QED
      BY <3>1, <3>2, <3>3 DEF MessageKind
  <2>6. \A key \in new : Needed(root, key[1], key[2], a) /\ pc[root] \notin SentFrom(key[2])
    BY <2>2
  <2>7. \A key \in gone : UnderWay(key[1], root, key[2], a)
    BY <1>9, <2>1
  <2>8. \A m : m \in mail' <=>
          \/ m \in mail /\ \A key \in gone : m # Msg(key[1], root, key[2], a)
          \/ \E key \in new : m = Msg(root, key[1], key[2], a)
    <3>1. ASSUME NEW key \in gone
          PROVE  key[1] \in Slave /\ key[2] = "size"
      BY <2>1
    <3>2. ASSUME NEW q \in Slave
          PROVE  \E key \in gone : key[1] = q /\ key[2] = "size"
      <4>1. <<q, "size">> \in gone
        BY <2>1
      <4>2. QED
        BY <4>1
    <3>3. \A m : m \in sizes <=> \E q \in Slave : m = Msg(q, root, "size", a)
      BY <1>9
    <3>4. ASSUME NEW m
          PROVE  m \in sizes <=> \E key \in gone : m = Msg(key[1], root, key[2], a)
      BY <3>1, <3>2, <3>3
    <3>5. QED
      BY <1>8, <2>2, <3>4
  <2>9. at'[root] = a /\ a # a + 1 /\ pc[root] # "ready"
    BY <1>2, <1>5, <1>8
  <2>10. QED
    BY <1>1, <1>2, <1>8, <1>11, <2>3, <2>4, <2>5, <2>6, <2>7, <2>8, <2>9, MailWithin
<1>15. RootLists'
  <2>1. ASSUME NEW p \in Rank
        PROVE  IF p \in waitFor'[root] THEN master_receive_entities'[p] = <<>>
               ELSE master_receive_entities'[p] = NumbersOf(v, p)
    <3>1. p # root /\ Owned(v, p) = <<>> => NumbersOf(v, p) = <<>>
      BY <1>5, NumbersProperties
    <3>2. QED
      BY <1>8, <1>10, <3>1 DEF Slave
  <2>2. mesh'[root] = v
    BY <1>5, <1>8
  <2>3. QED
    BY <1>8, <2>1, <2>2 DEF RootLists, NumbersOf
<1>16. RootGathered'
  BY <1>8 DEF RootGathered, JustMade
<1>17. Grows /\ ProgramInv'
  BY <1>8, ProgramStays DEF Grows, IInv
<1>18. QED
  BY <1>1, <1>11, <1>12, <1>13, <1>14, <1>15, <1>16, <1>17, StepKeeps

(* A rank that takes a message of a rank it waits for takes the one of its *)
(* operation, and waits for the others still.                              *)
LEMMA TakesOne ==
  ASSUME IInv, NEW p \in Rank, OthersStay(p), UNCHANGED <<program, at, pc>>,
         NEW a \in Nat, a = at[p], NEW kind \in MessageKind, pc[p] \in AwaitedAt(kind),
         NEW m, Matches(m, p, kind), m.src \in waitFor[p],
         mail' = mail \ {m}, waitFor'[p] = waitFor[p] \ {m.src}
  PROVE  /\ m.src \in Rank /\ m = Msg(m.src, p, kind, a) /\ Needed(m.src, p, kind, a)
         /\ MailInv' /\ PlaceInv(p)' /\ WaitsRight(p)'
<1>1. TypeInv /\ PlaceInv(p) /\ WaitsRight(p)
  BY DEF IInv, RankInv
<1>2. pc[p] # "ready" /\ pc[p] \notin TakenFrom(kind)
  BY DEF AwaitedAt, TakenFrom, AfterInit, MessageKind
<1>3. a < Len(program)
  BY <1>1, <1>2 DEF PlaceInv
<1>4. PICK b : b = m.src
  OBVIOUS
<1>5. Needed(b, p, kind, a)
  BY <1>1, <1>4 DEF WaitsRight
<1>6. ~HasTaken(b, p, kind)
  BY <1>2, <1>4 DEF HasTaken
<1>7. b \in Rank /\ m = Msg(b, p, kind, a) /\ UnderWay(b, p, kind, a)
  BY <1>3, <1>4, <1>5, <1>6, FirstMatch
<1>8. MailInv'
  <2>1. PICK gone : gone = {<<b, kind>>}
    OBVIOUS
  <2>2. PICK new : new = {}
    OBVIOUS
  <2>3. new \subseteq Rank \X MessageKind /\ gone \subseteq Rank \X MessageKind
    BY <1>7, <2>1, <2>2
  <2>4. at'[p] = a /\ a # a + 1 /\ pc'[p] = pc[p]
    OBVIOUS
  <2>5. \A c \in Rank, k \in MessageKind : Needed(p, c, k, a) =>
          (at'[p] = a + 1 \/ pc'[p] \in SentFrom(k)
             <=> pc[p] \in SentFrom(k) \/ <<c, k>> \in new)
    BY <2>2, <2>4
  <2>6. ASSUME NEW c \in Rank, NEW k \in MessageKind
        PROVE  HasTaken(c, p, k)' <=> HasTaken(c, p, k) \/ <<c, k>> \in gone
    <3>1. CASE k = kind
      BY <1>2, <1>4, <2>1, <2>4, <3>1 DEF HasTaken
    <3>2. CASE k # kind
      <4>1. pc[p] \notin AwaitedAt(k)
        BY <3>2 DEF AwaitedAt, MessageKind
      <4>2. <<c, k>> \notin gone
        BY <2>1, <3>2
      <4>3. QED
        BY <2>4, <4>1, <4>2 DEF HasTaken
    <3>3. QED
      BY <3>1, <3>2
  <2>7. \A c \in Rank, k \in MessageKind : Needed(c, p, k, a) =>
          (at'[p] = a + 1 \/ HasTaken(c, p, k)'
             <=> HasTaken(c, p, k) \/ <<c, k>> \in gone)
    BY <2>4, <2>6
  <2>8. /\ \A key \in new : Needed(p, key[1], key[2], a) /\ pc[p] \notin SentFrom(key[2])
        /\ \A key \in gone : UnderWay(key[1], p, key[2], a)
    BY <1>7, <2>1, <2>2
  <2>9. \A x : x \in mail' <=>
          \/ x \in mail /\ \A key \in gone : x # Msg(key[1], p, key[2], a)
          \/ \E key \in new : x = Msg(p, key[1], key[2], a)
    BY <1>7, <2>1, <2>2
  <2>10. program' = program /\ (at'[p] = a \/ (at'[p] = a + 1 /\ pc'[p] = "ready"))
    OBVIOUS
  <2>11. QED
    BY <1>2, <2>3, <2>5, <2>7, <2>8, <2>9, <2>10, MailWithin
<1>9. PlaceInv(p)'
  BY <1>1 DEF PlaceInv, Operation, Fresh
<1>10. WaitsRight(p)'
  <2>1. \A c : \A k \in MessageKind : Needed(c, p, k, a)' <=> Needed(c, p, k, a)
    BY DEF Needed, MeshAfter, Adds, Fresh
  <2>2. QED
    BY <1>1, <2>1 DEF WaitsRight
<1>11. QED
  BY <1>4, <1>5, <1>7, <1>8, <1>9, <1>10

(* The receipt of a list keeps the invariant: the root has the numbers of  *)
(* one more slave, in the order of its entities.                           *)
LEMMA ReceiveListKeeps ==
  ASSUME IInv, NEW m, ReceiveList(m)
  PROVE  IInv'
<1>1. TypeInv /\ RankInv(root) /\ PlaceInv(root) /\ FlagInv(root) /\ OwnListOf(root)
      /\ RootLists /\ root \in Rank
  BY RootIsRank DEF IInv, RankInv
<1>2. PICK a \in Nat : a = at[root]
  BY <1>1 DEF TypeInv
<1>3. PICK v : v = MeshAfter(a)
  OBVIOUS
<1>4. /\ pc[root] = "lists" /\ Matches(m, root, "list") /\ m.src \in waitFor[root]
      /\ mail' = mail \ {m} /\ waitFor'[root] = waitFor[root] \ {m.src}
      /\ master_receive_entities' = [master_receive_entities EXCEPT ![m.src] = m.data]
      /\ UNCHANGED <<program, at, pc, mesh, entities_changed, vote, entities_from_root,
                     gathered, array>>
  BY <1>1 DEF ReceiveList, values, TypeInv
<1>5. OthersStay(root)
  BY <1>1 DEF ReceiveList, values, TypeInv, OthersStay
<1>6. /\ m.src \in Rank /\ m = Msg(m.src, root, "list", a) /\ Needed(m.src, root, "list", a)
      /\ MailInv' /\ PlaceInv(root)' /\ WaitsRight(root)'
  <2>1. pc[root] \in AwaitedAt("list") /\ "list" \in MessageKind
    BY <1>4 DEF AwaitedAt, MessageKind
  <2>2. UNCHANGED <<program, at, pc>>
    BY <1>4
  <2>3. QED
    BY <1>1, <1>2, <1>4, <1>5, <2>1, <2>2, TakesOne
<1>7. mesh[root] = v /\ ~entities_changed[root] /\ v \in Version
  <2>1. mesh[root] = v /\ ~entities_changed[root]
    BY <1>1, <1>2, <1>3, <1>4 DEF FlagInv
  <2>2. a \in 0 .. Len(program)
    BY <1>1, <1>2 DEF PlaceInv, TypeInv
  <2>3. QED
    BY <1>3, <2>1, <2>2 DEF IInv, ProgramInv
<1>8. m.data = NumbersOf(v, m.src) /\ NumbersOf(v, m.src) \in Seq(Nat)
  <2>1. m.data = NumbersOf(v, m.src)
    <3>1. PICK b : b = m.src
      OBVIOUS
    <3>2. Msg(b, root, "list", a).data = NumbersOf(v, b)
      BY <1>3 DEF Msg, Content
    <3>3. QED
      BY <1>6, <3>1, <3>2
  <2>2. QED
    BY <1>6, <1>7, <2>1, NumbersProperties
<1>9. TypeInv'
  <2>1. master_receive_entities' \in [Rank -> Seq(Nat)]
    BY <1>1, <1>4, <1>8 DEF TypeInv
  <2>2. waitFor' \in [Rank -> SUBSET Rank]
    BY <1>1 DEF ReceiveList, TypeInv
  <2>3. QED
    BY <1>1, <1>4, <2>1, <2>2 DEF TypeInv
<1>10. RankInv(root)'
  <2>1. FlagInv(root)' /\ OwnListOf(root)'
    BY <1>1, <1>4, <1>9, Within
  <2>2. Scattered(root)'
    BY <1>4 DEF Scattered, JustMade
  <2>3. QED
    BY <1>6, <2>1, <2>2 DEF RankInv
<1>11. RootLists'
  <2>1. ASSUME NEW p \in Rank
        PROVE  IF p \in waitFor'[root] THEN master_receive_entities'[p] = <<>>
               ELSE master_receive_entities'[p] = NumbersOf(v, p)
    <3>1. IF p \in waitFor[root] THEN master_receive_entities[p] = <<>>
          ELSE master_receive_entities[p] = NumbersOf(v, p)
      BY <1>1, <1>4, <1>7 DEF RootLists
    <3>2. master_receive_entities'[p] = IF p = m.src THEN m.data ELSE master_receive_entities[p]
      BY <1>1, <1>4 DEF TypeInv
    <3>3. QED
      BY <1>4, <1>8, <3>1, <3>2
  <2>2. mesh'[root] = v /\ pc'[root] = "lists"
    BY <1>4, <1>7
  <2>3. QED
    BY <2>1, <2>2 DEF RootLists, NumbersOf
<1>12. RootGathered'
  BY <1>4 DEF RootGathered, JustMade
<1>13. Grows /\ ProgramInv'
  BY <1>4, ProgramStays DEF Grows, IInv
<1>14. QED
  BY <1>1, <1>5, <1>6, <1>9, <1>10, <1>11, <1>12, <1>13, StepKeeps

(* The root goes on when it has all lists, and this keeps the invariant.   *)
LEMMA ListsCompleteKeeps ==
  ASSUME IInv, ListsComplete
  PROVE  IInv'
<1>1. TypeInv /\ RankInv(root) /\ PlaceInv(root) /\ FlagInv(root) /\ OwnListOf(root)
      /\ RootLists /\ root \in Rank
  BY RootIsRank DEF IInv, RankInv
<1>2. PICK a \in Nat : a = at[root]
  BY <1>1 DEF TypeInv
<1>3. /\ pc[root] = "lists" /\ waitFor[root] = {} /\ Operation(root) \in {"gather", "scatter"}
      /\ Operation(root) = program[a + 1]
  BY <1>1, <1>2 DEF ListsComplete, PlaceInv, Operation, TypeInv, Kind
<1>4. /\ pc'[root] = Operation(root) /\ at'[root] = a
      /\ UNCHANGED <<program, at, mesh, entities_changed, vote, entities_from_root,
                     master_receive_entities, gathered, array, mail, waitFor>>
  BY <1>1, <1>2 DEF ListsComplete, Goto, lists, values, messages, TypeInv
<1>5. OthersStay(root)
  BY <1>1 DEF ListsComplete, Goto, lists, values, messages, TypeInv, OthersStay
<1>6. TypeInv'
  BY <1>1, <1>3 DEF ListsComplete, Goto, lists, values, messages, TypeInv, Place
<1>7. RankInv(root)'
  <2>1. Operation(root)' = Operation(root)
    BY <1>4 DEF Operation
  <2>2. PlaceInv(root)'
    BY <1>1, <1>3, <1>4, <2>1 DEF PlaceInv
  <2>3. FlagInv(root)' /\ OwnListOf(root)'
    BY <1>1, <1>2, <1>3, <1>4, <1>6, Within
  <2>4. WaitsRight(root)'
    BY <1>3, <1>4 DEF WaitsRight, AwaitedAt, MessageKind
  <2>5. Scattered(root)'
    BY <1>3, <1>4 DEF Scattered, JustMade
  <2>6. QED
    BY <2>2, <2>3, <2>4, <2>5 DEF RankInv
<1>8. MailInv'
  <2>1. ASSUME NEW b \in Rank, NEW kind \in MessageKind, Needed(root, b, kind, a)
        PROVE  pc'[root] \in SentFrom(kind) <=> pc[root] \in SentFrom(kind)
    BY <1>3, <1>4, <2>1 DEF SentFrom, AfterInit, MessageKind
  <2>2. ASSUME NEW b \in Rank, NEW kind \in MessageKind, Needed(b, root, kind, a)
        PROVE  HasTaken(b, root, kind)' <=> HasTaken(b, root, kind)
    BY <1>3, <1>4, <2>2 DEF HasTaken, TakenFrom, AwaitedAt, AfterInit, MessageKind
  <2>3. at'[root] = a /\ a # a + 1 /\ pc[root] # "ready"
    BY <1>3, <1>4
  <2>4. QED
    BY <1>1, <1>2, <1>4, <1>5, <2>1, <2>2, <2>3, MailStays
<1>9. RootLists' /\ RootGathered'
  <2>1. RootLists'
    BY <1>1, <1>3, <1>4 DEF RootLists, NumbersOf
  <2>2. RootGathered'
    BY <1>3, <1>4 DEF RootGathered, JustMade
  <2>3. QED
    BY <2>1, <2>2
<1>10. Grows /\ ProgramInv'
  BY <1>4, ProgramStays DEF Grows, IInv
<1>11. QED
  BY <1>1, <1>5, <1>6, <1>7, <1>8, <1>9, <1>10, StepKeeps

-----------------------------------------------------------------------------
(* gather.                                                                 *)

(* In an operation that is under way, once the lists are made, a rank has  *)
(* its own list in its version of the mesh, and the root those of all      *)
(* ranks in the same version.                                              *)
LEMMA ListsHold ==
  ASSUME IInv, NEW p \in Rank, pc[p] \notin {"ready", "hasChanged", "init", "lists"},
         NEW a \in Nat, a = at[p], NEW v, v = MeshAfter(a)
  PROVE  /\ a < Len(program) /\ program[a + 1] # "add" /\ v \in Version /\ mesh[p] = v
         /\ ~entities_changed[p] /\ entities_from_root[p] = Owned(v, p)
         /\ Numbers(p, entities_from_root[p]) = NumbersOf(v, p)
         /\ p = root => \A q \in Rank : master_receive_entities[q] = NumbersOf(v, q)
<1>1. TypeInv /\ PlaceInv(p) /\ FlagInv(p) /\ OwnListOf(p) /\ RootLists
  BY DEF IInv, RankInv
<1>2. a < Len(program) /\ program[a + 1] # "add" /\ mesh[p] = v /\ ~entities_changed[p]
  BY <1>1 DEF PlaceInv, Operation, FlagInv
<1>3. v \in Version
  <2>1. a \in 0 .. Len(program)
    BY <1>1, <1>2 DEF TypeInv
  <2>2. QED
    BY <2>1 DEF IInv, ProgramInv
<1>4. entities_from_root[p] = Owned(v, p)
  BY <1>1, <1>2 DEF OwnListOf, OwnEntities
<1>5. Numbers(p, entities_from_root[p]) = NumbersOf(v, p)
  BY <1>2, <1>4 DEF Numbers, NumbersOf
<1>6. p = root => \A q \in Rank : master_receive_entities[q] = NumbersOf(v, q)
  BY <1>1, <1>2 DEF RootLists
<1>7. QED
  BY <1>2, <1>3, <1>4, <1>5, <1>6

(* The end of an operation keeps the types.                                *)
LEMMA FinishTypes ==
  ASSUME TypeInv, NEW p \in Rank, Finish(p)
  PROVE  at' \in [Rank -> Nat] /\ pc' \in [Rank -> Place]
<1>1. at' \in [Rank -> Nat]
  BY DEF TypeInv, Finish
<1>2. pc' \in [Rank -> Place]
  BY DEF TypeInv, Finish, Goto, Place
<1>3. QED
  BY <1>1, <1>2

(* gather on a slave keeps the invariant: its values are in the mail, and  *)
(* nothing is if it owns nothing.                                          *)
LEMMA GatherSlaveKeeps ==
  ASSUME IInv, NEW p \in Rank, GatherSlave(p)
  PROVE  IInv'
<1>1. TypeInv /\ RankInv(p) /\ PlaceInv(p) /\ FlagInv(p) /\ OwnListOf(p)
  BY DEF IInv, RankInv
<1>2. PICK a \in Nat : a = at[p]
  BY <1>1 DEF TypeInv
<1>3. PICK v : v = MeshAfter(a)
  OBVIOUS
<1>4. p \in Slave /\ pc[p] = "gather" /\ program[a + 1] = "gather" /\ p # root
  BY <1>1, <1>2 DEF GatherSlave, PlaceInv, Operation, Slave
<1>5. PICK own : own = Owned(v, p)
  OBVIOUS
<1>6. /\ a < Len(program) /\ v \in Version /\ mesh[p] = v
      /\ entities_from_root[p] = own
  BY <1>2, <1>3, <1>4, <1>5, ListsHold
<1>7. /\ UNCHANGED <<program, mesh, entities_changed, vote, entities_from_root,
                     master_receive_entities, gathered, array, waitFor>>
      /\ \/ own = <<>> /\ at'[p] = a + 1 /\ pc'[p] = "ready" /\ mail' = mail
         \/ /\ own # <<>> /\ at'[p] = a /\ pc'[p] = "gatherSent"
            /\ mail' = mail \cup {Message(p, root, "gather",
                         [i \in DOMAIN own |-> GatherValue(p, own[i], at[p])])}
  BY <1>1, <1>2, <1>6 DEF GatherSlave, Finish, Goto, lists, values, TypeInv
<1>8. OthersStay(p)
  BY <1>1 DEF GatherSlave, Finish, Goto, lists, values, TypeInv, OthersStay
<1>9. TypeInv'
  <2>1. at' \in [Rank -> Nat] /\ pc' \in [Rank -> Place]
    <3>1. CASE Finish(p)
      BY <1>1, <3>1, FinishTypes
    <3>2. CASE Goto(p, "gatherSent") /\ UNCHANGED at
      BY <1>1, <3>2 DEF Goto, TypeInv, Place
    <3>3. QED
      BY <3>1, <3>2 DEF GatherSlave
  <2>2. QED
    BY <1>1, <1>7, <2>1 DEF TypeInv
<1>10. RankInv(p)'
  <2>1. PlaceInv(p)'
    <3>1. Len(program) \in Nat /\ program' = program
      BY <1>1, <1>7 DEF TypeInv
    <3>2. at'[p] <= Len(program') /\ pc'[p] \in {"ready", "gatherSent"}
          /\ (pc'[p] = "gatherSent" => at'[p] = a)
      BY <1>6, <1>7, <3>1
    <3>3. QED
      BY <1>4, <1>6, <3>1, <3>2 DEF PlaceInv, Operation
  <2>2. FlagInv(p)' /\ OwnListOf(p)'
    <3>1. \/ at'[p] = at[p] /\ pc'[p] \notin {"ready", "hasChanged", "init"}
          \/ at'[p] = at[p] + 1 /\ pc'[p] = "ready"
      BY <1>2, <1>7
    <3>2. QED
      BY <1>1, <1>4, <1>7, <1>9, <3>1, Within
  <2>3. WaitsRight(p)'
    BY <1>7 DEF WaitsRight, AwaitedAt, MessageKind
  <2>4. Scattered(p)'
    BY <1>4, <1>7 DEF Scattered, JustMade
  <2>5. QED
    BY <2>1, <2>2, <2>3, <2>4 DEF RankInv
<1>11. MailInv'
  <2>1. CASE own = <<>>
    <3>1. at'[p] = a + 1 /\ pc'[p] = "ready" /\ mail' = mail
      BY <1>7, <2>1
    <3>2. ASSUME NEW b \in Rank, NEW kind \in MessageKind, Needed(p, b, kind, a)
          PROVE  pc[p] \in SentFrom(kind)
      BY <1>3, <1>4, <1>5, <2>1, <3>2 DEF Needed, SentFrom, AfterInit, MessageKind
    <3>3. ASSUME NEW b \in Rank, NEW kind \in MessageKind
          PROVE  ~Needed(b, p, kind, a)
      BY <1>4 DEF Needed, MessageKind
    <3>4. QED
      BY <1>2, <1>4, <1>7, <1>8, <3>1, <3>2, <3>3, MailStays
  <2>2. CASE own # <<>>
    <3>1. /\ at'[p] = a /\ a # a + 1 /\ pc'[p] = "gatherSent"
          /\ mail' = mail \cup {Msg(p, root, "gather", a)}
      <4>1. Message(p, root, "gather", [i \in DOMAIN own |-> GatherValue(p, own[i], at[p])])
              = Msg(p, root, "gather", a)
        BY <1>2, <1>3, <1>5 DEF Message, Msg, Content
      <4>2. QED
        BY <1>7, <2>2, <4>1
    <3>2. PICK new : new = {<<root, "gather">>}
      OBVIOUS
    <3>3. PICK gone : gone = {}
      OBVIOUS
    <3>4. new \subseteq Rank \X MessageKind /\ gone \subseteq Rank \X MessageKind
      BY <3>2, <3>3, RootIsRank DEF MessageKind
    <3>5. ASSUME NEW b \in Rank, NEW kind \in MessageKind, Needed(p, b, kind, a)
          PROVE  pc'[p] \in SentFrom(kind) <=> pc[p] \in SentFrom(kind) \/ <<b, kind>> \in new
      BY <1>4, <3>1, <3>2, <3>5 DEF Needed, SentFrom, AfterInit, MessageKind
    <3>6. ASSUME NEW b \in Rank, NEW kind \in MessageKind
          PROVE  ~Needed(b, p, kind, a)
      BY <1>4 DEF Needed, MessageKind
    <3>7. ASSUME NEW key \in new
          PROVE  Needed(p, key[1], key[2], a) /\ pc[p] \notin SentFrom(key[2])
      BY <1>3, <1>4, <1>5, <2>2, <3>2 DEF Needed, SentFrom
    <3>8. \A m : m \in mail' <=>
            \/ m \in mail /\ \A key \in gone : m # Msg(key[1], p, key[2], a)
            \/ \E key \in new : m = Msg(p, key[1], key[2], a)
      BY <3>1, <3>2, <3>3
    <3>9. pc[p] # "ready" /\ \A key \in gone : UnderWay(key[1], p, key[2], a)
      BY <1>4, <3>3
    <3>10. QED
      BY <1>2, <1>7, <1>8, <3>1, <3>4, <3>5, <3>6, <3>7, <3>8, <3>9, MailWithin
  <2>3. QED
    BY <2>1, <2>2
<1>12. QED
  BY <1>4, <1>7, <1>8, <1>9, <1>10, <1>11, SlaveKeeps

(* waitAll on a slave after its values keeps the invariant.                *)
LEMMA GatherSentKeeps ==
  ASSUME IInv, NEW p \in Rank, GatherReceived(p) \/ GatherBuffered(p)
  PROVE  IInv'
<1>1. TypeInv /\ RankInv(p) /\ PlaceInv(p) /\ FlagInv(p) /\ OwnListOf(p)
  BY DEF IInv, RankInv
<1>2. PICK a \in Nat : a = at[p]
  BY <1>1 DEF TypeInv
<1>3. /\ pc[p] = "gatherSent" /\ p \in Slave /\ program[a + 1] = "gather" /\ p # root
      /\ a < Len(program) /\ Len(program) \in Nat
  BY <1>1, <1>2 DEF GatherReceived, GatherBuffered, PlaceInv, Operation, Slave, TypeInv
<1>4. /\ pc'[p] = "ready" /\ at'[p] = a + 1
      /\ UNCHANGED <<program, mesh, entities_changed, vote, entities_from_root,
                     master_receive_entities, gathered, array, mail, waitFor>>
  BY <1>1, <1>2 DEF GatherReceived, GatherBuffered, Finish, Goto, lists, values, messages, TypeInv
<1>5. OthersStay(p)
  BY <1>1 DEF GatherReceived, GatherBuffered, Finish, Goto, lists, values, messages, TypeInv,
     OthersStay
<1>6. TypeInv'
  <2>1. Finish(p)
    BY DEF GatherReceived, GatherBuffered
  <2>2. at' \in [Rank -> Nat] /\ pc' \in [Rank -> Place]
    BY <1>1, <2>1, FinishTypes
  <2>3. QED
    BY <1>1, <1>4, <2>2 DEF TypeInv
<1>7. RankInv(p)'
  <2>1. PlaceInv(p)'
    BY <1>3, <1>4 DEF PlaceInv
  <2>2. FlagInv(p)' /\ OwnListOf(p)'
    BY <1>1, <1>2, <1>3, <1>4, <1>6, Within
  <2>3. WaitsRight(p)'
    BY <1>4 DEF WaitsRight, AwaitedAt, MessageKind
  <2>4. Scattered(p)'
    BY <1>3, <1>4 DEF Scattered, JustMade
  <2>5. QED
    BY <2>1, <2>2, <2>3, <2>4 DEF RankInv
<1>8. MailInv'
  <2>1. ASSUME NEW b \in Rank, NEW kind \in MessageKind, Needed(p, b, kind, a)
        PROVE  pc[p] \in SentFrom(kind)
    BY <1>3, <2>1 DEF Needed, SentFrom, AfterInit, MessageKind
  <2>2. ASSUME NEW b \in Rank, NEW kind \in MessageKind
        PROVE  ~Needed(b, p, kind, a)
    BY <1>3 DEF Needed, MessageKind
  <2>3. QED
    BY <1>2, <1>3, <1>4, <1>5, <2>1, <2>2, MailStays
<1>9. QED
  BY <1>3, <1>4, <1>5, <1>6, <1>7, <1>8, SlaveKeeps

(* The beginning of gather on the root keeps the invariant: it has its own *)
(* values and waits for exactly those slaves that send some.               *)
LEMMA GatherRootKeeps ==
  ASSUME IInv, GatherRoot
  PROVE  IInv'
<1>1. TypeInv /\ RankInv(root) /\ PlaceInv(root) /\ FlagInv(root) /\ OwnListOf(root)
      /\ RootLists /\ root \in Rank
  BY RootIsRank DEF IInv, RankInv
<1>2. PICK a \in Nat : a = at[root]
  BY <1>1 DEF TypeInv
<1>3. PICK v : v = MeshAfter(a)
  OBVIOUS
<1>4. PICK own : own = Owned(v, root)
  OBVIOUS
<1>5. pc[root] = "gather" /\ program[a + 1] = "gather"
  BY <1>1, <1>2 DEF GatherRoot, PlaceInv, Operation
<1>6. /\ a < Len(program) /\ v \in Version /\ mesh[root] = v
      /\ entities_from_root[root] = own /\ Numbers(root, own) = NumbersOf(v, root)
      /\ \A q \in Rank : master_receive_entities[q] = NumbersOf(v, q)
  BY <1>1, <1>2, <1>3, <1>4, <1>5, ListsHold
<1>7. Gathering = {q \in Slave : Owned(v, q) # <<>>}
  BY <1>6, NumbersProperties DEF Gathering, Slave
<1>8. /\ pc'[root] = "gathering" /\ at'[root] = a /\ waitFor'[root] = Gathering
      /\ gathered' = Placed(NumbersOf(v, root),
                       [i \in DOMAIN own |-> GatherValue(root, own[i], a)])
      /\ UNCHANGED <<program, at, mesh, entities_changed, vote, entities_from_root,
                     master_receive_entities, array, mail>>
  BY <1>1, <1>2, <1>6 DEF GatherRoot, Goto, lists, TypeInv
<1>9. OthersStay(root)
  BY <1>1 DEF GatherRoot, Goto, lists, TypeInv, OthersStay
<1>10. TypeInv'
  <2>1. waitFor' \in [Rank -> SUBSET Rank]
    BY <1>1, <1>7 DEF GatherRoot, TypeInv, Slave
  <2>2. pc' \in [Rank -> Place]
    BY <1>1 DEF GatherRoot, Goto, TypeInv, Place
  <2>3. QED
    BY <1>1, <1>8, <2>1, <2>2 DEF TypeInv
<1>11. RankInv(root)'
  <2>1. PlaceInv(root)'
    <3>1. Operation(root)' = "gather" /\ Len(program') = Len(program)
      BY <1>5, <1>8 DEF Operation
    <3>2. QED
      BY <1>1, <1>2, <1>6, <1>8, <3>1 DEF PlaceInv
  <2>2. FlagInv(root)' /\ OwnListOf(root)'
    BY <1>1, <1>2, <1>5, <1>8, <1>10, Within
  <2>3. WaitsRight(root)'
    <3>1. \A q \in Gathering : Needed(q, root, "gather", a)
      BY <1>3, <1>5, <1>7 DEF Needed
    <3>2. \A q, kind : Needed(q, root, kind, a)' <=> Needed(q, root, kind, a)
      BY <1>8 DEF Needed, MeshAfter, Adds, Fresh
    <3>3. \A kind \in MessageKind : pc'[root] \in AwaitedAt(kind) => kind = "gather"
      BY <1>8 DEF AwaitedAt, MessageKind
    <3>4. QED
      BY <1>8, <3>1, <3>2, <3>3 DEF WaitsRight
  <2>4. Scattered(root)'
    BY <1>8 DEF Scattered, JustMade
  <2>5. QED
    BY <2>1, <2>2, <2>3, <2>4 DEF RankInv
<1>12. MailInv'
  <2>1. ASSUME NEW b \in Rank, NEW kind \in MessageKind
        PROVE  ~Needed(root, b, kind, a)
    BY <1>5, <2>1 DEF Needed, Slave, MessageKind
  <2>2. ASSUME NEW b \in Rank, NEW kind \in MessageKind, Needed(b, root, kind, a)
        PROVE  HasTaken(b, root, kind)' <=> HasTaken(b, root, kind)
    <3>1. CASE kind = "gather"
      <4>1. b \in Gathering
        BY <1>3, <1>7, <2>2, <3>1 DEF Needed
      <4>2. QED
        BY <1>5, <1>8, <3>1, <4>1 DEF HasTaken, TakenFrom, AwaitedAt
    <3>2. CASE kind \in {"size", "list"}
      BY <1>5, <1>8, <3>2 DEF HasTaken, TakenFrom, AwaitedAt, AfterInit
    <3>3. CASE kind \in {"scatter", "ghost"}
      BY <1>5, <2>2, <3>3 DEF Needed
    <3>4. QED
      BY <3>1, <3>2, <3>3 DEF MessageKind
  <2>3. at'[root] = a /\ a # a + 1 /\ pc[root] # "ready"
    BY <1>5, <1>8
  <2>4. QED
    BY <1>1, <1>2, <1>8, <1>9, <2>1, <2>2, <2>3, MailStays
<1>13. RootLists'
  BY <1>1, <1>5, <1>8 DEF RootLists, NumbersOf
<1>14. RootGathered'
  <2>1. /\ gathered' = [g \in DOMAIN gathered' |-> gathered'[g]]
        /\ DOMAIN gathered' = ToSet(NumbersOf(v, root))
        /\ \A e \in ToSet(own) : gathered'[Gid[v][e]] = GatherValue(root, e, a)
    <3>1. PICK f : f = Placed(NumbersOf(v, root),
                         [i \in DOMAIN Owned(v, root) |-> GatherValue(root, Owned(v, root)[i], a)])
      OBVIOUS
    <3>2. /\ DOMAIN f = ToSet(NumbersOf(v, root)) /\ f = [g \in DOMAIN f |-> f[g]]
          /\ \A e \in ToSet(Owned(v, root)) : f[Gid[v][e]] = GatherValue(root, e, a)
      BY <1>1, <1>6, <3>1, PlacedByNumber
    <3>3. gathered' = f
      BY <1>4, <1>8, <3>1
    <3>4. QED
      BY <1>4, <3>2, <3>3
  <2>2. PICK S : S = Rank \ Gathering
    OBVIOUS
  <2>3. root \in S /\ \A q \in S : q # root => Owned(v, q) = <<>>
    BY <1>1, <1>7, <2>2 DEF Slave
  <2>4. ASSUME NEW q \in S, q # root
        PROVE  ToSet(NumbersOf(v, q)) = {} /\ ToSet(Owned(v, q)) = {}
    <3>1. NumbersOf(v, q) = <<>> /\ Owned(v, q) = <<>>
      BY <1>6, <2>2, <2>3, <2>4, NumbersProperties
    <3>2. QED
      BY <3>1 DEF ToSet
  <2>5. DOMAIN gathered' = UNION {ToSet(NumbersOf(v, q)) : q \in S}
    BY <2>1, <2>3, <2>4
  <2>6. \A q \in S : \A e \in ToSet(Owned(v, q)) : gathered'[Gid[v][e]] = GatherValue(q, e, a)
    BY <1>4, <2>1, <2>4
  <2>7. mesh'[root] = v /\ at'[root] = a /\ S = Rank \ waitFor'[root] /\ pc'[root] = "gathering"
    BY <1>6, <1>8, <2>2
  <2>8. GatheredOf(S, a)'
    <3>1. \A q : NumbersOf(v, q)' = NumbersOf(v, q)
      BY DEF NumbersOf
    <3>2. QED
      BY <2>1, <2>5, <2>6, <2>7, <3>1 DEF GatheredOf
  <2>9. QED
    BY <2>7, <2>8 DEF RootGathered, JustMade
<1>15. Grows /\ ProgramInv'
  BY <1>8, ProgramStays DEF Grows, IInv
<1>16. QED
  BY <1>1, <1>9, <1>10, <1>11, <1>12, <1>13, <1>14, <1>15, StepKeeps

(* The values of one more rank, put at numbers that no other rank has,     *)
(* leave those gathered before as they are.                                *)
LEMMA GatheredMore ==
  ASSUME NEW v \in Version, v = mesh[root], mesh' = mesh, NEW S, S \subseteq Rank,
         NEW b \in Rank, NEW n, GatheredOf(S, n),
         NEW f, DOMAIN f = ToSet(NumbersOf(v, b)),
         \A e \in ToSet(Owned(v, b)) :
           Gid[v][e] \in DOMAIN f /\ f[Gid[v][e]] = GatherValue(b, e, n),
         gathered' = With(gathered, f)
  PROVE  GatheredOf(S \cup {b}, n)'
<1>1. /\ DOMAIN gathered = UNION {ToSet(NumbersOf(v, p)) : p \in S}
      /\ \A p \in S : \A e \in ToSet(Owned(v, p)) : gathered[Gid[v][e]] = GatherValue(p, e, n)
  BY DEF GatheredOf
<1>2. /\ gathered' = [g \in DOMAIN gathered' |-> gathered'[g]]
      /\ DOMAIN gathered' = DOMAIN gathered \cup DOMAIN f
      /\ \A g \in DOMAIN gathered' : gathered'[g] = IF g \in DOMAIN f THEN f[g] ELSE gathered[g]
  BY DEF With
<1>3. DOMAIN gathered' = UNION {ToSet(NumbersOf(v, p)) : p \in S \cup {b}}
  BY <1>1, <1>2
<1>4. ASSUME NEW p \in S \cup {b}, NEW e \in ToSet(Owned(v, p))
      PROVE  gathered'[Gid[v][e]] = GatherValue(p, e, n)
  <2>1. p \in Rank /\ e \in ToSet(Local[v][p]) /\ Owner[e] = p
    BY <1>4, OwnedProperties
  <2>2. Gid[v][e] \in ToSet(NumbersOf(v, p))
    <3>1. PICK i \in DOMAIN Owned(v, p) : e = Owned(v, p)[i]
      BY <1>4 DEF ToSet
    <3>2. QED
      BY <3>1 DEF ToSet, NumbersOf
  <2>3. Gid[v][e] \in DOMAIN gathered'
    BY <1>3, <2>2
  <2>4. CASE Gid[v][e] \in DOMAIN f
    <3>1. PICK i \in DOMAIN Owned(v, b) : Gid[v][Owned(v, b)[i]] = Gid[v][e]
      BY <2>4 DEF ToSet, NumbersOf
    <3>2. Owned(v, b)[i] \in ToSet(Owned(v, b))
      BY DEF ToSet
    <3>3. Owned(v, b)[i] \in ToSet(Local[v][b]) /\ Owner[Owned(v, b)[i]] = b
      BY <3>2, OwnedProperties
    <3>4. Owned(v, b)[i] = e
      BY <2>1, <3>1, <3>3, EntitiesAssumption
    <3>5. p = b
      BY <2>1, <3>3, <3>4
    <3>6. QED
      BY <1>2, <1>4, <2>3, <2>4, <3>5
  <2>5. CASE Gid[v][e] \notin DOMAIN f
    <3>1. p \in S
      BY <1>4, <2>5
    <3>2. QED
      BY <1>1, <1>2, <1>4, <2>3, <2>5, <3>1
  <2>6. QED
    BY <2>4, <2>5
<1>5. mesh'[root] = v /\ \A q : NumbersOf(v, q)' = NumbersOf(v, q)
  BY DEF NumbersOf
<1>6. QED
  BY <1>2, <1>3, <1>4, <1>5 DEF GatheredOf

(* The receipt of gathered values keeps the invariant: the root has those  *)
(* of one more rank.                                                       *)
LEMMA UnpackGatherKeeps ==
  ASSUME IInv, NEW m, UnpackGather(m)
  PROVE  IInv'
<1>1. TypeInv /\ RankInv(root) /\ PlaceInv(root) /\ FlagInv(root) /\ OwnListOf(root)
      /\ RootLists /\ RootGathered /\ root \in Rank
  BY RootIsRank DEF IInv, RankInv
<1>2. PICK a \in Nat : a = at[root]
  BY <1>1 DEF TypeInv
<1>3. PICK v : v = MeshAfter(a)
  OBVIOUS
<1>4. /\ pc[root] = "gathering" /\ Matches(m, root, "gather") /\ m.src \in waitFor[root]
      /\ mail' = mail \ {m} /\ waitFor'[root] = waitFor[root] \ {m.src}
      /\ gathered' = With(gathered, Placed(master_receive_entities[m.src], m.data))
      /\ UNCHANGED <<program, at, pc, mesh, entities_changed, vote, entities_from_root,
                     master_receive_entities, array>>
  BY <1>1 DEF UnpackGather, lists, TypeInv
<1>5. OthersStay(root)
  BY <1>1 DEF UnpackGather, lists, TypeInv, OthersStay
<1>6. PICK b : b = m.src
  OBVIOUS
<1>7. /\ b \in Rank /\ m = Msg(b, root, "gather", a) /\ Needed(b, root, "gather", a)
      /\ MailInv' /\ PlaceInv(root)' /\ WaitsRight(root)'
  <2>1. pc[root] \in AwaitedAt("gather") /\ "gather" \in MessageKind
    BY <1>4 DEF AwaitedAt, MessageKind
  <2>2. UNCHANGED <<program, at, pc>>
    BY <1>4
  <2>3. QED
    BY <1>1, <1>2, <1>4, <1>5, <1>6, <2>1, <2>2, TakesOne
<1>8. /\ v \in Version /\ mesh[root] = v
      /\ master_receive_entities[b] = NumbersOf(v, b)
  BY <1>1, <1>2, <1>3, <1>4, <1>7, ListsHold
<1>9. m.data = [i \in DOMAIN Owned(v, b) |-> GatherValue(b, Owned(v, b)[i], a)]
  <2>1. Msg(b, root, "gather", a).data =
          [i \in DOMAIN Owned(v, b) |-> GatherValue(b, Owned(v, b)[i], a)]
    BY <1>3 DEF Msg, Content
  <2>2. QED
    BY <1>7, <2>1
<1>10. TypeInv'
  <2>1. waitFor' \in [Rank -> SUBSET Rank]
    BY <1>1 DEF UnpackGather, TypeInv
  <2>2. QED
    BY <1>1, <1>4, <2>1 DEF TypeInv
<1>11. RankInv(root)'
  <2>1. FlagInv(root)' /\ OwnListOf(root)'
    BY <1>1, <1>4, <1>10, Within
  <2>2. Scattered(root)'
    BY <1>4 DEF Scattered, JustMade
  <2>3. QED
    BY <1>7, <2>1, <2>2 DEF RankInv
<1>12. RootLists'
  BY <1>1, <1>4 DEF RootLists, NumbersOf
<1>13. RootGathered'
  <2>1. PICK f : f = Placed(NumbersOf(v, b),
                       [i \in DOMAIN Owned(v, b) |-> GatherValue(b, Owned(v, b)[i], a)])
    OBVIOUS
  <2>2. /\ DOMAIN f = ToSet(NumbersOf(v, b))
        /\ \A e \in ToSet(Owned(v, b)) :
             Gid[v][e] \in DOMAIN f /\ f[Gid[v][e]] = GatherValue(b, e, a)
    BY <1>7, <1>8, <2>1, PlacedByNumber
  <2>3. gathered' = With(gathered, f)
    BY <1>4, <1>6, <1>8, <1>9, <2>1
  <2>4. PICK S : S = Rank \ waitFor[root]
    OBVIOUS
  <2>5. GatheredOf(S, a)
    BY <1>1, <1>2, <1>4, <2>4 DEF RootGathered
  <2>6. GatheredOf(S \cup {b}, a)'
    BY <1>4, <1>7, <1>8, <2>2, <2>3, <2>4, <2>5, GatheredMore
  <2>7. S \cup {b} = Rank \ waitFor'[root] /\ at'[root] = a /\ pc'[root] = "gathering"
    BY <1>2, <1>4, <1>6, <1>7, <2>4
  <2>8. QED
    BY <2>6, <2>7 DEF RootGathered, JustMade
<1>14. Grows /\ ProgramInv'
  BY <1>4, ProgramStays DEF Grows, IInv
<1>15. QED
  BY <1>1, <1>5, <1>7, <1>10, <1>11, <1>12, <1>13, <1>14, StepKeeps

(* The end of gather on the root keeps the invariant: it has the values of *)
(* all ranks.                                                              *)
LEMMA GatherEndKeeps ==
  ASSUME IInv, GatherEnd
  PROVE  IInv'
<1>1. TypeInv /\ RankInv(root) /\ PlaceInv(root) /\ FlagInv(root) /\ OwnListOf(root)
      /\ RootLists /\ RootGathered /\ root \in Rank
  BY RootIsRank DEF IInv, RankInv
<1>2. PICK a \in Nat : a = at[root]
  BY <1>1 DEF TypeInv
<1>3. /\ pc[root] = "gathering" /\ waitFor[root] = {} /\ program[a + 1] = "gather"
      /\ a < Len(program) /\ Len(program) \in Nat
  BY <1>1, <1>2 DEF GatherEnd, PlaceInv, Operation, TypeInv
<1>4. /\ pc'[root] = "ready" /\ at'[root] = a + 1
      /\ UNCHANGED <<program, mesh, entities_changed, vote, entities_from_root,
                     master_receive_entities, gathered, array, mail, waitFor>>
  BY <1>1, <1>2 DEF GatherEnd, Finish, Goto, lists, values, messages, TypeInv
<1>5. OthersStay(root)
  BY <1>1 DEF GatherEnd, Finish, Goto, lists, values, messages, TypeInv, OthersStay
<1>6. TypeInv'
  <2>1. at' \in [Rank -> Nat] /\ pc' \in [Rank -> Place]
    BY <1>1, FinishTypes DEF GatherEnd
  <2>2. QED
    BY <1>1, <1>4, <2>1 DEF TypeInv
<1>7. RankInv(root)'
  <2>1. PlaceInv(root)'
    BY <1>3, <1>4 DEF PlaceInv
  <2>2. FlagInv(root)' /\ OwnListOf(root)'
    BY <1>1, <1>2, <1>3, <1>4, <1>6, Within
  <2>3. WaitsRight(root)'
    BY <1>4 DEF WaitsRight, AwaitedAt, MessageKind
  <2>4. Scattered(root)'
    BY <1>3, <1>4 DEF Scattered, JustMade
  <2>5. QED
    BY <2>1, <2>2, <2>3, <2>4 DEF RankInv
<1>8. MailInv'
  <2>1. ASSUME NEW b \in Rank, NEW kind \in MessageKind
        PROVE  ~Needed(root, b, kind, a)
    BY <1>3, <2>1 DEF Needed, Slave, MessageKind
  <2>2. ASSUME NEW b \in Rank, NEW kind \in MessageKind, Needed(b, root, kind, a)
        PROVE  HasTaken(b, root, kind)
    <3>1. CASE kind = "gather"
      BY <1>3, <3>1 DEF HasTaken, AwaitedAt
    <3>2. CASE kind \in {"size", "list"}
      BY <1>3, <3>2 DEF HasTaken, TakenFrom, AfterInit
    <3>3. CASE kind \in {"scatter", "ghost"}
      BY <1>3, <2>2, <3>3 DEF Needed
    <3>4. QED
      BY <3>1, <3>2, <3>3 DEF MessageKind
  <2>3. QED
    BY <1>1, <1>2, <1>3, <1>4, <1>5, <2>1, <2>2, MailStays
<1>9. RootLists'
  BY <1>1, <1>3, <1>4 DEF RootLists, NumbersOf
<1>10. RootGathered'
  <2>1. PICK v : v = mesh[root]
    OBVIOUS
  <2>2. Rank \ waitFor[root] = Rank
    BY <1>3
  <2>3. GatheredOf(Rank, a)
    BY <1>1, <1>2, <1>3, <2>2 DEF RootGathered
  <2>4. /\ gathered = [g \in DOMAIN gathered |-> gathered[g]]
        /\ DOMAIN gathered = UNION {ToSet(NumbersOf(v, p)) : p \in Rank}
        /\ \A p \in Rank : \A e \in ToSet(Owned(v, p)) : gathered[Gid[v][e]] = GatherValue(p, e, a)
    BY <2>1, <2>3 DEF GatheredOf
  <2>5. v = mesh'[root] /\ \A p : NumbersOf(v, p)' = NumbersOf(v, p)
    BY <1>4, <2>1 DEF NumbersOf
  <2>6. gathered' = [g \in DOMAIN gathered' |-> gathered'[g]]
    BY <1>4, <2>4
  <2>7. GatheredOf(Rank, a)'
    BY <1>4, <2>4, <2>5, <2>6 DEF GatheredOf
  <2>8. at'[root] - 1 = a
    BY <1>4
  <2>9. QED
    BY <1>4, <2>7, <2>8 DEF RootGathered
<1>11. Grows /\ ProgramInv'
  BY <1>4, ProgramStays DEF Grows, IInv
<1>12. QED
  BY <1>1, <1>5, <1>6, <1>7, <1>8, <1>9, <1>10, <1>11, StepKeeps

-----------------------------------------------------------------------------
(* scatter.                                                                *)

(* A scatter does not touch what the root has of the lists and of the      *)
(* gathered values.                                                        *)
LEMMA RootScatters ==
  ASSUME IInv, program' = program, NEW p \in Rank, OthersStay(p),
         UNCHANGED <<master_receive_entities, gathered>>, mesh'[p] = mesh[p],
         entities_changed'[p] = entities_changed[p],
         pc[p] \in {"scatter", "scatterSent", "ghosts"},
         \/ pc'[p] \in {"scatterSent", "ghosts"}
         \/ pc'[p] = "ready" /\ program[at'[p]] = "scatter"
  PROVE  RootLists' /\ RootGathered' /\ Grows /\ ProgramInv'
<1>1. Grows /\ ProgramInv'
  BY ProgramStays DEF Grows, IInv
<1>2. CASE p = root
  <2>1. pc[root] # "lists" /\ pc'[root] \notin {"lists", "gathering"}
        /\ mesh'[root] = mesh[root] /\ entities_changed'[root] = entities_changed[root]
    BY <1>2
  <2>2. RootLists'
    BY <2>1 DEF IInv, RootLists, NumbersOf
  <2>3. RootGathered'
    BY <1>2, <2>1 DEF RootGathered, JustMade
  <2>4. QED
    BY <1>1, <2>2, <2>3
<1>3. CASE p # root
  <2>1. RootStays
    BY <1>3, RootIsRank DEF OthersStay, RootStays
  <2>2. PlaceInv(root)
    BY RootIsRank DEF IInv, RankInv
  <2>3. QED
    BY <1>1, <2>1, <2>2, RootIsRank, RootKeeps DEF IInv
<1>4. QED
  BY <1>2, <1>3

(* scatter on the root keeps the invariant: a message for every slave is   *)
(* in the mail, in the order of its list.                                  *)
LEMMA ScatterRootKeeps ==
  ASSUME IInv, ScatterRoot
  PROVE  IInv'
<1>1. TypeInv /\ RankInv(root) /\ PlaceInv(root) /\ FlagInv(root) /\ OwnListOf(root)
      /\ root \in Rank
  BY RootIsRank DEF IInv, RankInv
<1>2. PICK a \in Nat : a = at[root]
  BY <1>1 DEF TypeInv
<1>3. PICK v : v = MeshAfter(a)
  OBVIOUS
<1>4. PICK own : own = Owned(v, root)
  OBVIOUS
<1>5. pc[root] = "scatter" /\ program[a + 1] = "scatter"
  BY <1>1, <1>2 DEF ScatterRoot, PlaceInv, Operation
<1>6. /\ a < Len(program) /\ v \in Version /\ mesh[root] = v
      /\ entities_from_root[root] = own /\ Numbers(root, own) = NumbersOf(v, root)
      /\ \A q \in Rank : master_receive_entities[q] = NumbersOf(v, q)
  BY <1>1, <1>2, <1>3, <1>4, <1>5, ListsHold
<1>7. \A q \in Rank : DOMAIN NumbersOf(v, q) = DOMAIN Owned(v, q)
  BY DEF NumbersOf
<1>8. /\ pc'[root] = "scatterSent" /\ at'[root] = a
      /\ array'[root] = Placed(own, [i \in DOMAIN own |-> ScatterValue(NumbersOf(v, root)[i], a)])
      /\ UNCHANGED <<program, at, mesh, entities_changed, vote, entities_from_root,
                     master_receive_entities, gathered, waitFor>>
  <2>1. array'[root] = Placed(own, [i \in DOMAIN Numbers(root, own) |->
                                      ScatterValue(Numbers(root, own)[i], a)])
    BY <1>1, <1>2, <1>6 DEF ScatterRoot, TypeInv
  <2>2. QED
    BY <1>1, <1>2, <1>4, <1>6, <1>7, <2>1 DEF ScatterRoot, Goto, lists, TypeInv
<1>9. OthersStay(root)
  BY <1>1 DEF ScatterRoot, Goto, lists, TypeInv, OthersStay
<1>10. TypeInv'
  <2>1. array' = [p \in Rank |-> array'[p]]
    BY <1>1 DEF ScatterRoot, TypeInv
  <2>2. pc' \in [Rank -> Place]
    BY <1>1 DEF ScatterRoot, Goto, TypeInv, Place
  <2>3. QED
    BY <1>1, <1>8, <2>1, <2>2 DEF TypeInv
<1>11. RankInv(root)'
  <2>1. PlaceInv(root)'
    <3>1. Operation(root)' = "scatter" /\ Len(program') = Len(program)
      BY <1>5, <1>8 DEF Operation
    <3>2. QED
      BY <1>1, <1>2, <1>6, <1>8, <3>1 DEF PlaceInv
  <2>2. FlagInv(root)' /\ OwnListOf(root)'
    BY <1>1, <1>2, <1>5, <1>8, <1>10, Within
  <2>3. WaitsRight(root)'
    BY <1>8 DEF WaitsRight, AwaitedAt, MessageKind
  <2>4. Scattered(root)'
    <3>1. array'[root] = [e \in Part(v, root, {root}) |-> ScatterValue(Gid[v][e], a)]
      <4>1. Placed(Owned(v, root), [i \in DOMAIN Owned(v, root) |->
                                      ScatterValue(NumbersOf(v, root)[i], a)])
              = [e \in Part(v, root, {root}) |-> ScatterValue(Gid[v][e], a)]
        BY <1>1, <1>6, PlacedByEntity
      <4>2. QED
        BY <1>4, <1>8, <4>1
    <3>2. mesh'[root] = v
      BY <1>6, <1>8
    <3>3. ArrayOf(root, {root}, a)'
      BY <3>1, <3>2 DEF ArrayOf
    <3>4. QED
      BY <1>8, <3>3 DEF Scattered, JustMade
  <2>5. QED
    BY <2>1, <2>2, <2>3, <2>4 DEF RankInv
<1>12. MailInv'
  <2>1. PICK new : new = {<<q, "scatter">> : q \in Slave}
    OBVIOUS
  <2>2. PICK gone : gone = {}
    OBVIOUS
  <2>3. new \subseteq Rank \X MessageKind /\ gone \subseteq Rank \X MessageKind
    BY <2>1, <2>2 DEF MessageKind, Slave
  <2>4. ASSUME NEW b \in Rank, NEW kind \in MessageKind, Needed(root, b, kind, a)
        PROVE  pc'[root] \in SentFrom(kind) <=> pc[root] \in SentFrom(kind) \/ <<b, kind>> \in new
    <3>1. CASE kind = "scatter"
      <4>1. <<b, kind>> \in new
        BY <2>1, <2>4, <3>1 DEF Needed
      <4>2. QED
        BY <1>8, <3>1, <4>1 DEF SentFrom
    <3>2. CASE kind # "scatter"
      <4>1. <<b, kind>> \notin new
        BY <2>1, <3>2
      <4>2. kind = "ghost"
        BY <1>5, <2>4, <3>2 DEF Needed, Slave, MessageKind
      <4>3. QED
        BY <1>5, <1>8, <4>1, <4>2 DEF SentFrom
    <3>3. QED
      BY <3>1, <3>2
  <2>5. ASSUME NEW b \in Rank, NEW kind \in MessageKind, Needed(b, root, kind, a)
        PROVE  HasTaken(b, root, kind)' <=> HasTaken(b, root, kind) \/ <<b, kind>> \in gone
    BY <1>5, <1>8, <2>2, <2>5 DEF Needed, Slave, HasTaken, TakenFrom, AwaitedAt, AfterInit,
       MessageKind
  <2>6. ASSUME NEW key \in new
        PROVE  /\ key[1] \in Slave /\ key[2] = "scatter"
               /\ Needed(root, key[1], key[2], a) /\ pc[root] \notin SentFrom(key[2])
    BY <1>5, <2>1 DEF Needed, SentFrom
  <2>7. ASSUME NEW q \in Slave
        PROVE  Message(root, q, "scatter",
                 [i \in DOMAIN master_receive_entities[q] |->
                    ScatterValue(master_receive_entities[q][i], a)])
                 = Msg(root, q, "scatter", a)
    <3>1. q \in Rank /\ master_receive_entities[q] = NumbersOf(v, q)
      BY <1>6 DEF Slave
    <3>2. QED
      BY <1>2, <1>3, <1>7, <3>1 DEF Message, Msg, Content
  <2>8. mail' = mail \cup {Msg(root, q, "scatter", a) : q \in Slave}
    <3>1. mail' = mail \cup {Message(root, q, "scatter",
                    [i \in DOMAIN master_receive_entities[q] |->
                       ScatterValue(master_receive_entities[q][i], a)]) : q \in Slave}
      BY <1>2 DEF ScatterRoot
    <3>2. QED
      BY <2>7, <3>1
  <2>9. \A m : m \in mail' <=>
          \/ m \in mail /\ \A key \in gone : m # Msg(key[1], root, key[2], a)
          \/ \E key \in new : m = Msg(root, key[1], key[2], a)
    <3>1. ASSUME NEW q \in Slave
          PROVE  \E key \in new : key[1] = q /\ key[2] = "scatter"
      <4>1. <<q, "scatter">> \in new
        BY <2>1
      <4>2. QED
        BY <4>1
    <3>2. QED
      BY <2>2, <2>6, <2>8, <3>1
  <2>10. at'[root] = a /\ a # a + 1 /\ pc[root] # "ready"
    BY <1>5, <1>8
  <2>11. \A key \in gone : UnderWay(key[1], root, key[2], a)
    BY <2>2
  <2>12. QED
    BY <1>1, <1>2, <1>8, <1>9, <2>3, <2>4, <2>5, <2>6, <2>9, <2>10, <2>11, MailWithin
<1>13. RootLists' /\ RootGathered' /\ Grows /\ ProgramInv'
  BY <1>1, <1>5, <1>8, <1>9, RootScatters
<1>14. QED
  BY <1>1, <1>9, <1>10, <1>11, <1>12, <1>13, StepKeeps

(* Messages of a scatter are for slaves, and the first one a slave finds   *)
(* is that of the operation it is in.                                      *)
LEMMA ScatterMatch ==
  ASSUME IInv, NEW p \in Rank, NEW m, Matches(m, p, "scatter")
  PROVE  /\ p \in Slave
         /\ \A a \in Nat : a = at[p] /\ pc[p] = "scatter" =>
              m = Msg(root, p, "scatter", a) /\ UnderWay(root, p, "scatter", a)
<1>1. TypeInv /\ MailInv /\ PlaceInv(p)
  BY DEF IInv, RankInv
<1>2. m \in mail /\ m.dst = p /\ m.kind = "scatter"
  BY DEF Matches
<1>3. PICK b \in Rank, c \in Rank, kind \in MessageKind, n \in 0 .. (Len(program) - 1) :
        UnderWay(b, c, kind, n) /\ m = Msg(b, c, kind, n)
  BY <1>1, <1>2 DEF MailInv
<1>4. c = p /\ kind = "scatter" /\ m.src = b
  BY <1>2, <1>3 DEF Msg
<1>5. b = root /\ p \in Slave
  BY <1>3, <1>4 DEF UnderWay, Needed
<1>6. ASSUME NEW a \in Nat, a = at[p], pc[p] = "scatter"
      PROVE  m = Msg(root, p, "scatter", a) /\ UnderWay(root, p, "scatter", a)
  <2>1. a < Len(program) /\ program[a + 1] = "scatter"
    BY <1>1, <1>6 DEF PlaceInv, Operation
  <2>2. Needed(m.src, p, "scatter", a)
    BY <1>4, <1>5, <2>1 DEF Needed
  <2>3. ~HasTaken(m.src, p, "scatter")
    BY <1>6 DEF HasTaken, TakenFrom, AwaitedAt
  <2>4. "scatter" \in MessageKind
    BY DEF MessageKind
  <2>5. m = Msg(m.src, p, "scatter", a) /\ UnderWay(m.src, p, "scatter", a)
    BY <1>6, <2>1, <2>2, <2>3, <2>4, FirstMatch
  <2>6. QED
    BY <1>4, <1>5, <2>5
<1>7. QED
  BY <1>5, <1>6

(* The ghosts of q that p owns are among the entities p has, so that p has *)
(* a value to send for each.                                               *)
LEMMA GhostsAreOwned ==
  ASSUME NEW v \in Version, NEW p \in Rank, NEW q \in Rank
  PROVE  Ghosts(v, p, q) \subseteq Part(v, p, {p})
BY EntitiesAssumption DEF Ghosts, Part

(* synchronizeArray keeps the invariant: a rank that has its own values    *)
(* sends those of the ghosts of the others, and waits for exactly the      *)
(* owners of its own ghosts.                                               *)
LEMMA SynchronizeKeeps ==
  ASSUME IInv, NEW p \in Rank, OthersStay(p), NEW a \in Nat, a = at[p],
         NEW v, v = MeshAfter(a), NEW own,
         own = [e \in Part(v, p, {p}) |-> ScatterValue(Gid[v][e], a)],
         \/ p = root /\ pc[p] = "scatterSent"
         \/ pc[p] = "scatter" /\ \E m : Matches(m, p, "scatter"),
         SynchronizeArray(p, own), array'[p] = own, array' = [q \in Rank |-> array'[q]],
         UNCHANGED <<program, at, mesh, entities_changed, vote, entities_from_root,
                     master_receive_entities, gathered>>
  PROVE  IInv'
<1>1. TypeInv /\ RankInv(p) /\ PlaceInv(p) /\ FlagInv(p) /\ OwnListOf(p) /\ root \in Rank
  BY RootIsRank DEF IInv, RankInv
<1>2. /\ program[a + 1] = "scatter" /\ pc[p] \in {"scatter", "scatterSent"}
      /\ (p = root => pc[p] = "scatterSent") /\ (p # root => pc[p] = "scatter")
  <2>1. pc[p] = "scatter" => p # root
    BY ScatterMatch DEF Slave
  <2>2. pc[p] \in {"scatter", "scatterSent"}
    OBVIOUS
  <2>3. QED
    BY <1>1, <2>1, <2>2 DEF PlaceInv, Operation
<1>3. a < Len(program) /\ v \in Version /\ mesh[p] = v
  BY <1>2, ListsHold
<1>4. PICK awaited : awaited = {q \in Rank : q # p /\ Ghosts(v, q, p) # {}}
  OBVIOUS
<1>5. /\ pc'[p] = "ghosts" /\ waitFor'[p] = awaited
      /\ mail' = (mail \ {m \in mail : Matches(m, p, "scatter")}) \cup
           {Message(p, q, "ghost", [e \in Ghosts(v, p, q) |-> own[e]]) :
              q \in {r \in Rank \ {p} : Ghosts(v, p, r) # {}}}
  <2>1. pc'[p] = "ghosts"
    BY <1>1 DEF SynchronizeArray, Goto, TypeInv
  <2>2. waitFor'[p] = {q \in Rank \ {p} : Ghosts(v, q, p) # {}}
    BY <1>1, <1>3 DEF SynchronizeArray, TypeInv
  <2>3. mail' = (mail \ {m \in mail : Matches(m, p, "scatter")}) \cup
           {Message(p, q, "ghost", [e \in Ghosts(v, p, q) |-> own[e]]) :
              q \in {r \in Rank \ {p} : Ghosts(v, p, r) # {}}}
    BY <1>3 DEF SynchronizeArray
  <2>4. waitFor'[p] = awaited
    BY <1>4, <2>2
  <2>5. QED
    BY <2>1, <2>3, <2>4
<1>6. TypeInv'
  <2>1. pc' \in [Rank -> Place]
    BY <1>1 DEF SynchronizeArray, Goto, TypeInv, Place
  <2>2. waitFor' \in [Rank -> SUBSET Rank]
    BY <1>1 DEF SynchronizeArray, TypeInv
  <2>3. QED
    BY <1>1, <2>1, <2>2 DEF TypeInv
<1>7. RankInv(p)'
  <2>1. PlaceInv(p)'
    <3>1. Operation(p)' = "scatter" /\ Len(program') = Len(program) /\ at'[p] = a
      BY <1>2 DEF Operation
    <3>2. QED
      BY <1>1, <1>3, <1>5, <3>1 DEF PlaceInv
  <2>2. FlagInv(p)' /\ OwnListOf(p)'
    BY <1>1, <1>2, <1>5, <1>6, Within
  <2>3. WaitsRight(p)'
    <3>1. \A q \in awaited : Needed(q, p, "ghost", a)
      BY <1>2, <1>4 DEF Needed
    <3>2. \A q, kind : Needed(q, p, kind, a)' <=> Needed(q, p, kind, a)
      BY DEF Needed, MeshAfter, Adds, Fresh
    <3>3. \A kind \in MessageKind : pc'[p] \in AwaitedAt(kind) => kind = "ghost"
      BY <1>5 DEF AwaitedAt, MessageKind
    <3>4. at'[p] = a
      OBVIOUS
    <3>5. QED
      BY <1>5, <3>1, <3>2, <3>3, <3>4 DEF WaitsRight
  <2>4. Scattered(p)'
    <3>1. PICK S : S = {q \in Rank : q = p \/ q \notin awaited}
      OBVIOUS
    <3>2. Part(v, p, S) = Part(v, p, {p})
      BY <1>4, <3>1 DEF Part, Ghosts
    <3>3. mesh'[p] = v /\ at'[p] = a
      BY <1>3
    <3>4. ArrayOf(p, S, a)'
      BY <3>2, <3>3 DEF ArrayOf
    <3>5. QED
      BY <1>5, <3>1, <3>3, <3>4 DEF Scattered, JustMade
  <2>5. QED
    BY <2>1, <2>2, <2>3, <2>4 DEF RankInv
<1>8. MailInv'
  <2>1. PICK new : new = {<<q, "ghost">> : q \in {r \in Rank \ {p} : Ghosts(v, p, r) # {}}}
    OBVIOUS
  <2>2. PICK gone : gone = IF p = root THEN {} ELSE {<<root, "scatter">>}
    OBVIOUS
  <2>3. new \subseteq Rank \X MessageKind /\ gone \subseteq Rank \X MessageKind
    BY <1>1, <2>1, <2>2 DEF MessageKind
  <2>4. ASSUME NEW b \in Rank, NEW kind \in MessageKind, Needed(p, b, kind, a)
        PROVE  pc'[p] \in SentFrom(kind) <=> pc[p] \in SentFrom(kind) \/ <<b, kind>> \in new
    <3>1. CASE kind = "ghost"
      <4>1. <<b, kind>> \in new
        BY <2>1, <2>4, <3>1 DEF Needed
      <4>2. QED
        BY <1>5, <3>1, <4>1 DEF SentFrom
    <3>2. CASE kind # "ghost"
      <4>1. <<b, kind>> \notin new
        BY <2>1, <3>2
      <4>2. QED
        BY <1>2, <1>5, <2>4, <3>2, <4>1 DEF Needed, SentFrom, AfterInit, MessageKind
    <3>3. QED
      BY <3>1, <3>2
  <2>5. ASSUME NEW b \in Rank, NEW kind \in MessageKind, Needed(b, p, kind, a)
        PROVE  HasTaken(b, p, kind)' <=> HasTaken(b, p, kind) \/ <<b, kind>> \in gone
    <3>1. CASE kind = "ghost"
      <4>1. b \in awaited
        BY <1>4, <2>5, <3>1 DEF Needed
      <4>2. <<b, kind>> \notin gone
        BY <2>2, <3>1
      <4>3. QED
        BY <1>2, <1>5, <3>1, <4>1, <4>2 DEF HasTaken, TakenFrom, AwaitedAt
    <3>2. CASE kind = "scatter"
      <4>1. b = root /\ p # root
        BY <2>5, <3>2 DEF Needed, Slave
      <4>2. <<b, kind>> \in gone
        BY <2>2, <3>2, <4>1
      <4>3. QED
        BY <1>5, <3>2, <4>2 DEF HasTaken, TakenFrom
    <3>3. CASE kind \in {"size", "list"}
      <4>1. <<b, kind>> \notin gone
        BY <2>2, <3>3
      <4>2. QED
        BY <1>2, <1>5, <3>3, <4>1 DEF HasTaken, TakenFrom, AwaitedAt, AfterInit
    <3>4. CASE kind = "gather"
      BY <1>2, <2>5, <3>4 DEF Needed
    <3>5. QED
      BY <3>1, <3>2, <3>3, <3>4 DEF MessageKind
  <2>6. ASSUME NEW key \in new
        PROVE  /\ key[1] \in {r \in Rank \ {p} : Ghosts(v, p, r) # {}} /\ key[2] = "ghost"
               /\ Needed(p, key[1], key[2], a) /\ pc[p] \notin SentFrom(key[2])
    BY <1>2, <2>1 DEF Needed, SentFrom
  <2>7. ASSUME NEW q \in Rank
        PROVE  Message(p, q, "ghost", [e \in Ghosts(v, p, q) |-> own[e]]) = Msg(p, q, "ghost", a)
    <3>1. Ghosts(v, p, q) \subseteq Part(v, p, {p})
      BY <1>3, GhostsAreOwned
    <3>2. [e \in Ghosts(v, p, q) |-> own[e]]
            = [e \in Ghosts(v, p, q) |-> ScatterValue(Gid[v][e], a)]
      BY <3>1
    <3>3. QED
      BY <3>2 DEF Message, Msg, Content
  <2>8. ASSUME NEW m \in mail
        PROVE  Matches(m, p, "scatter") <=> \E key \in gone : m = Msg(key[1], p, key[2], a)
    <3>1. CASE p = root
      <4>1. gone = {}
        BY <2>2, <3>1
      <4>2. ~Matches(m, p, "scatter")
        BY <3>1, ScatterMatch DEF Slave
      <4>3. QED
        BY <4>1, <4>2
    <3>2. CASE p # root
      <4>1. pc[p] = "scatter"
        BY <1>2, <3>2
      <4>2. PICK n : Matches(n, p, "scatter")
        BY <1>2, <3>2
      <4>3. n = Msg(root, p, "scatter", a)
        BY <4>1, <4>2, ScatterMatch
      <4>4. Matches(m, p, "scatter") => m = Msg(root, p, "scatter", a)
        BY <4>1, ScatterMatch
      <4>5. (\E key \in gone : m = Msg(key[1], p, key[2], a)) <=> m = Msg(root, p, "scatter", a)
        <5>1. gone = {<<root, "scatter">>}
          BY <2>2, <3>2
        <5>2. ASSUME NEW key \in gone
              PROVE  key[1] = root /\ key[2] = "scatter"
          BY <5>1
        <5>3. <<root, "scatter">> \in gone
          BY <5>1
        <5>4. QED
          BY <5>2, <5>3
      <4>6. QED
        BY <4>2, <4>3, <4>4, <4>5
    <3>3. QED
      BY <3>1, <3>2
  <2>9. \A key \in gone : UnderWay(key[1], p, key[2], a)
    <3>1. CASE p = root
      BY <2>2, <3>1
    <3>2. CASE p # root
      <4>1. PICK n : Matches(n, p, "scatter")
        BY <1>2, <3>2
      <4>2. UnderWay(root, p, "scatter", a)
        BY <1>2, <3>2, <4>1, ScatterMatch
      <4>3. QED
        BY <2>2, <3>2, <4>2
    <3>3. QED
      BY <3>1, <3>2
  <2>10. ASSUME NEW m
         PROVE  m \in mail' <=>
                  \/ m \in mail /\ \A key \in gone : m # Msg(key[1], p, key[2], a)
                  \/ \E key \in new : m = Msg(p, key[1], key[2], a)
    <3>1. PICK others : others = {r \in Rank \ {p} : Ghosts(v, p, r) # {}}
      OBVIOUS
    <3>2. mail' = (mail \ {n \in mail : Matches(n, p, "scatter")}) \cup
                    {Message(p, q, "ghost", [e \in Ghosts(v, p, q) |-> own[e]]) : q \in others}
      BY <1>5, <3>1
    <3>3. m \in mail' <=> \/ m \in mail /\ ~Matches(m, p, "scatter")
                          \/ \E q \in others : m = Msg(p, q, "ghost", a)
      <4>1. \A q \in others : q \in Rank
        BY <3>1
      <4>2. {Message(p, q, "ghost", [e \in Ghosts(v, p, q) |-> own[e]]) : q \in others}
              = {Msg(p, q, "ghost", a) : q \in others}
        BY <2>7, <4>1
      <4>3. QED
        BY <3>2, <4>2
    <3>4. (\E key \in new : m = Msg(p, key[1], key[2], a))
            <=> \E q \in others : m = Msg(p, q, "ghost", a)
      <4>1. ASSUME NEW q \in others
            PROVE  \E key \in new : key[1] = q /\ key[2] = "ghost"
        <5>1. <<q, "ghost">> \in new
          BY <2>1, <3>1
        <5>2. QED
          BY <5>1
      <4>2. QED
        BY <2>6, <3>1, <4>1
    <3>5. QED
      BY <2>8, <3>3, <3>4
  <2>11. at'[p] = a /\ a # a + 1 /\ pc[p] # "ready"
    BY <1>2
  <2>12. program' = program
    OBVIOUS
  <2>13. QED
    BY <2>3, <2>4, <2>5, <2>6, <2>9, <2>10, <2>11, <2>12, MailWithin
<1>9. RootLists' /\ RootGathered' /\ Grows /\ ProgramInv'
  BY <1>2, <1>5, RootScatters
<1>10. QED
  BY <1>6, <1>7, <1>8, <1>9, StepKeeps

(* The root goes on with synchronizeArray when its messages are received   *)
(* or buffered, and this keeps the invariant.                              *)
LEMMA ScatterSentKeeps ==
  ASSUME IInv, ScatterReceived \/ ScatterBuffered
  PROVE  IInv'
<1>1. TypeInv /\ RankInv(root) /\ root \in Rank /\ pc[root] = "scatterSent"
  BY RootIsRank DEF IInv, ScatterReceived, ScatterBuffered
<1>2. PICK a \in Nat : a = at[root]
  BY <1>1 DEF TypeInv
<1>3. PICK v : v = MeshAfter(a)
  OBVIOUS
<1>4. mesh[root] = v
  BY <1>1, <1>2, <1>3, ListsHold
<1>5. array[root] = [e \in Part(v, root, {root}) |-> ScatterValue(Gid[v][e], a)]
  BY <1>1, <1>2, <1>4 DEF RankInv, Scattered, ArrayOf
<1>6. /\ SynchronizeArray(root, array[root])
      /\ UNCHANGED <<program, at, mesh, entities_changed, vote, entities_from_root,
                     master_receive_entities, gathered, array>>
  BY DEF ScatterReceived, ScatterBuffered, lists, values
<1>7. OthersStay(root)
  BY <1>1, <1>6 DEF SynchronizeArray, Goto, OthersStay, TypeInv
<1>8. array'[root] = array[root] /\ array' = [q \in Rank |-> array'[q]]
  BY <1>1, <1>6 DEF TypeInv
<1>9. PICK own : own = array[root]
  OBVIOUS
<1>10. SynchronizeArray(root, own)
  BY <1>6, <1>9
<1>11. QED
  BY <1>1, <1>2, <1>3, <1>5, <1>6, <1>7, <1>8, <1>9, <1>10, SynchronizeKeeps, SMTT(30)

(* scatter on a slave keeps the invariant: the values it unpacks are those *)
(* of its own entities.                                                    *)
LEMMA ScatterSlaveKeeps ==
  ASSUME IInv, NEW p \in Rank, NEW m, ScatterSlave(p, m)
  PROVE  IInv'
<1>1. TypeInv /\ pc[p] = "scatter" /\ Matches(m, p, "scatter")
  BY DEF IInv, ScatterSlave
<1>2. PICK a \in Nat : a = at[p]
  BY <1>1 DEF TypeInv
<1>3. PICK v : v = MeshAfter(a)
  OBVIOUS
<1>4. v \in Version /\ entities_from_root[p] = Owned(v, p)
  BY <1>1, <1>2, <1>3, ListsHold
<1>5. m = Msg(root, p, "scatter", a)
  BY <1>1, <1>2, ScatterMatch
<1>6. m.data = [i \in DOMAIN Owned(v, p) |-> ScatterValue(NumbersOf(v, p)[i], a)]
  <2>1. Msg(root, p, "scatter", a).data =
          [i \in DOMAIN Owned(v, p) |-> ScatterValue(NumbersOf(v, p)[i], a)]
    BY <1>3 DEF Msg, Content
  <2>2. QED
    BY <1>5, <2>1
<1>7. PICK own : own = Placed(entities_from_root[p], m.data)
  OBVIOUS
<1>8. own = [e \in Part(v, p, {p}) |-> ScatterValue(Gid[v][e], a)]
  <2>1. Placed(Owned(v, p), [i \in DOMAIN Owned(v, p) |-> ScatterValue(NumbersOf(v, p)[i], a)])
          = [e \in Part(v, p, {p}) |-> ScatterValue(Gid[v][e], a)]
    BY <1>4, PlacedByEntity
  <2>2. QED
    BY <1>4, <1>6, <1>7, <2>1
<1>9. /\ array' = [array EXCEPT ![p] = own] /\ SynchronizeArray(p, own)
      /\ UNCHANGED <<program, at, mesh, entities_changed, vote, entities_from_root,
                     master_receive_entities, gathered>>
  BY <1>7 DEF ScatterSlave, lists
<1>10. OthersStay(p)
  BY <1>1, <1>9 DEF SynchronizeArray, Goto, OthersStay, TypeInv
<1>11. array'[p] = own /\ array' = [q \in Rank |-> array'[q]]
  BY <1>1, <1>9 DEF TypeInv
<1>12. \/ p = root /\ pc[p] = "scatterSent"
       \/ pc[p] = "scatter" /\ \E n : Matches(n, p, "scatter")
  BY <1>1
<1>13. /\ SynchronizeArray(p, own)
       /\ UNCHANGED <<program, at, mesh, entities_changed, vote, entities_from_root,
                      master_receive_entities, gathered>>
  BY <1>9
<1>14. QED
  BY <1>2, <1>3, <1>8, <1>10, <1>11, <1>12, <1>13, SynchronizeKeeps

(* The receipt of ghosts keeps the invariant: the rank has the values of   *)
(* one more owner.                                                         *)
LEMMA UnpackGhostsKeeps ==
  ASSUME IInv, NEW p \in Rank, NEW m, UnpackGhosts(p, m)
  PROVE  IInv'
<1>1. TypeInv /\ RankInv(p) /\ PlaceInv(p) /\ FlagInv(p) /\ OwnListOf(p) /\ Scattered(p)
  BY DEF IInv, RankInv
<1>2. PICK a \in Nat : a = at[p]
  BY <1>1 DEF TypeInv
<1>3. PICK v : v = MeshAfter(a)
  OBVIOUS
<1>4. /\ pc[p] = "ghosts" /\ Matches(m, p, "ghost") /\ m.src \in waitFor[p]
      /\ mail' = mail \ {m} /\ waitFor'[p] = waitFor[p] \ {m.src}
      /\ array'[p] = With(array[p], m.data)
      /\ UNCHANGED <<program, at, pc, mesh, entities_changed, vote, entities_from_root,
                     master_receive_entities, gathered>>
  BY <1>1 DEF UnpackGhosts, lists, TypeInv
<1>5. OthersStay(p)
  BY <1>1 DEF UnpackGhosts, lists, TypeInv, OthersStay
<1>6. PICK b : b = m.src
  OBVIOUS
<1>7. /\ b \in Rank /\ m = Msg(b, p, "ghost", a) /\ Needed(b, p, "ghost", a)
      /\ MailInv' /\ PlaceInv(p)' /\ WaitsRight(p)'
  <2>1. pc[p] \in AwaitedAt("ghost") /\ "ghost" \in MessageKind
    BY <1>4 DEF AwaitedAt, MessageKind
  <2>2. UNCHANGED <<program, at, pc>>
    BY <1>4
  <2>3. QED
    BY <1>2, <1>4, <1>5, <1>6, <2>1, <2>2, TakesOne
<1>8. mesh[p] = v
  BY <1>2, <1>3, <1>4, ListsHold
<1>9. m.data = [e \in Ghosts(v, b, p) |-> ScatterValue(Gid[v][e], a)]
  <2>1. Msg(b, p, "ghost", a).data = [e \in Ghosts(v, b, p) |-> ScatterValue(Gid[v][e], a)]
    BY <1>3 DEF Msg, Content
  <2>2. QED
    BY <1>7, <2>1
<1>10. TypeInv'
  <2>1. waitFor' \in [Rank -> SUBSET Rank]
    BY <1>1 DEF UnpackGhosts, TypeInv
  <2>2. array' = [q \in Rank |-> array'[q]]
    BY <1>1 DEF UnpackGhosts, TypeInv
  <2>3. QED
    BY <1>1, <1>4, <2>1, <2>2 DEF TypeInv
<1>11. RankInv(p)'
  <2>1. FlagInv(p)' /\ OwnListOf(p)'
    BY <1>1, <1>4, <1>10, Within
  <2>2. Scattered(p)'
    <3>1. PICK S : S = {q \in Rank : q = p \/ q \notin waitFor[p]}
      OBVIOUS
    <3>2. array[p] = [e \in Part(v, p, S) |-> ScatterValue(Gid[v][e], a)]
      BY <1>1, <1>2, <1>4, <1>8, <3>1 DEF Scattered, ArrayOf
    <3>3. PICK T : T = {q \in Rank : q = p \/ q \notin waitFor'[p]}
      OBVIOUS
    <3>4. T = S \cup {b}
      BY <1>4, <1>6, <1>7, <3>1, <3>3
    <3>5. Part(v, p, T) = Part(v, p, S) \cup Ghosts(v, b, p)
      BY <3>4 DEF Part, Ghosts
    <3>6. array'[p] = [e \in Part(v, p, T) |-> ScatterValue(Gid[v][e], a)]
      BY <1>4, <1>9, <3>2, <3>5 DEF With
    <3>7. mesh'[p] = v /\ at'[p] = a /\ pc'[p] = "ghosts"
      BY <1>2, <1>4, <1>8
    <3>8. ArrayOf(p, T, a)'
      BY <3>6, <3>7 DEF ArrayOf
    <3>9. QED
      BY <3>3, <3>7, <3>8 DEF Scattered, JustMade
  <2>3. QED
    BY <1>7, <2>1, <2>2 DEF RankInv
<1>12. RootLists' /\ RootGathered' /\ Grows /\ ProgramInv'
  BY <1>4, <1>5, RootScatters
<1>13. QED
  BY <1>5, <1>7, <1>10, <1>11, <1>12, StepKeeps

(* The end of scatter keeps the invariant: the rank has the values of all  *)
(* its entities.                                                           *)
LEMMA EndScatterKeeps ==
  ASSUME IInv, NEW p \in Rank, EndScatter(p)
  PROVE  IInv'
<1>1. TypeInv /\ RankInv(p) /\ PlaceInv(p) /\ FlagInv(p) /\ OwnListOf(p) /\ Scattered(p)
  BY DEF IInv, RankInv
<1>2. PICK a \in Nat : a = at[p]
  BY <1>1 DEF TypeInv
<1>3. /\ pc[p] = "ghosts" /\ waitFor[p] = {} /\ program[a + 1] = "scatter"
      /\ a < Len(program) /\ Len(program) \in Nat
  BY <1>1, <1>2 DEF EndScatter, PlaceInv, Operation, TypeInv
<1>4. /\ pc'[p] = "ready" /\ at'[p] = a + 1
      /\ UNCHANGED <<program, mesh, entities_changed, vote, entities_from_root,
                     master_receive_entities, gathered, array, mail, waitFor>>
  BY <1>1, <1>2 DEF EndScatter, Finish, Goto, lists, values, messages, TypeInv
<1>5. OthersStay(p)
  BY <1>1 DEF EndScatter, Finish, Goto, lists, values, messages, TypeInv, OthersStay
<1>6. TypeInv'
  <2>1. at' \in [Rank -> Nat] /\ pc' \in [Rank -> Place]
    BY <1>1, FinishTypes DEF EndScatter
  <2>2. array' = [q \in Rank |-> array'[q]]
    BY <1>1, <1>4 DEF TypeInv
  <2>3. QED
    BY <1>1, <1>4, <2>1, <2>2 DEF TypeInv
<1>7. RankInv(p)'
  <2>1. PlaceInv(p)'
    BY <1>3, <1>4 DEF PlaceInv
  <2>2. FlagInv(p)' /\ OwnListOf(p)'
    BY <1>1, <1>2, <1>3, <1>4, <1>6, Within
  <2>3. WaitsRight(p)'
    BY <1>4 DEF WaitsRight, AwaitedAt, MessageKind
  <2>4. Scattered(p)'
    <3>1. {q \in Rank : q = p \/ q \notin waitFor[p]} = Rank
      BY <1>3
    <3>2. ArrayOf(p, Rank, a)
      BY <1>1, <1>2, <1>3, <3>1 DEF Scattered
    <3>3. ArrayOf(p, Rank, a)'
      BY <1>4, <3>2 DEF ArrayOf
    <3>4. at'[p] - 1 = a
      BY <1>4
    <3>5. QED
      BY <1>4, <3>3, <3>4 DEF Scattered
  <2>5. QED
    BY <2>1, <2>2, <2>3, <2>4 DEF RankInv
<1>8. MailInv'
  <2>1. ASSUME NEW b \in Rank, NEW kind \in MessageKind, Needed(p, b, kind, a)
        PROVE  pc[p] \in SentFrom(kind)
    BY <1>3, <2>1 DEF Needed, SentFrom, AfterInit, MessageKind
  <2>2. ASSUME NEW b \in Rank, NEW kind \in MessageKind, Needed(b, p, kind, a)
        PROVE  HasTaken(b, p, kind)
    BY <1>3, <2>2 DEF Needed, HasTaken, TakenFrom, AwaitedAt, AfterInit, MessageKind
  <2>3. QED
    BY <1>2, <1>3, <1>4, <1>5, <2>1, <2>2, MailStays
<1>9. RootLists' /\ RootGathered' /\ Grows /\ ProgramInv'
  <2>1. program[at'[p]] = "scatter"
    BY <1>3, <1>4
  <2>2. QED
    BY <1>3, <1>4, <1>5, <2>1, RootScatters
<1>10. QED
  BY <1>5, <1>6, <1>7, <1>8, <1>9, StepKeeps

-----------------------------------------------------------------------------
(* The invariant.                                                          *)

(* The invariant holds at the beginning, when every rank says that its     *)
(* entities have changed.                                                  *)
LEMMA InitHolds == Init => IInv
<1> SUFFICES ASSUME Init PROVE IInv
  OBVIOUS
<1>1. TypeInv
  <2>1. program \in Seq(Kind) /\ vote \in [Rank -> Seq(BOOLEAN)]
        /\ entities_from_root \in [Rank -> Seq(Entity)]
        /\ master_receive_entities \in [Rank -> Seq(Nat)]
    BY DEF Init
  <2>2. /\ at \in [Rank -> Nat] /\ pc \in [Rank -> Place] /\ mesh \in [Rank -> Nat]
        /\ entities_changed \in [Rank -> BOOLEAN] /\ waitFor \in [Rank -> SUBSET Rank]
    BY DEF Init, Place
  <2>3. array = [p \in Rank |-> array[p]]
    BY DEF Init
  <2>4. QED
    BY <2>1, <2>2, <2>3 DEF TypeInv
<1>2. Len(program) = 0 /\ MeshAfter(0) = 1 /\ NbReductions(0) = 0
  <2>1. Len(program) = 0
    BY DEF Init
  <2>2. QED
    BY <1>1, <2>1, ProgramCounts
<1>3. ProgramInv
  <2>1. \A i \in 0 .. Len(program) : i = 0
    BY <1>2
  <2>2. QED
    BY <1>2, <2>1, MeshAssumption DEF ProgramInv
<1>4. ASSUME NEW p \in Rank
      PROVE  RankInv(p)
  <2>1. /\ at[p] = 0 /\ pc[p] = "ready" /\ mesh[p] = 1 /\ entities_changed[p] = TRUE
        /\ vote[p] = <<>>
    BY DEF Init
  <2>2. PlaceInv(p)
    BY <1>2, <2>1 DEF PlaceInv
  <2>3. FlagInv(p)
    <3>1. Fresh(0) = TRUE /\ Len(vote[p]) = 0 /\ 1 .. 0 = {}
      BY <2>1 DEF Fresh
    <3>2. QED
      BY <1>2, <2>1, <3>1 DEF FlagInv
  <2>4. WaitsRight(p)
    BY <2>1 DEF WaitsRight, AwaitedAt, MessageKind
  <2>5. OwnListOf(p)
    BY <2>1 DEF OwnListOf
  <2>6. Scattered(p)
    BY <2>1 DEF Scattered, JustMade
  <2>7. QED
    BY <2>2, <2>3, <2>4, <2>5, <2>6 DEF RankInv
<1>5. MailInv
  <2>1. mail = {} /\ 0 .. (Len(program) - 1) = {}
    BY <1>2 DEF Init
  <2>2. QED
    BY <2>1 DEF MailInv
<1>6. RootLists /\ RootGathered
  <2>1. at[root] = 0 /\ pc[root] = "ready" /\ entities_changed[root] = TRUE
    BY RootIsRank DEF Init
  <2>2. QED
    BY <2>1 DEF RootLists, RootGathered, JustMade
<1>7. QED
  BY <1>1, <1>3, <1>4, <1>5, <1>6 DEF IInv

(* A step that changes nothing keeps the invariant.                        *)
LEMMA StutterKeeps ==
  ASSUME IInv, UNCHANGED vars
  PROVE  IInv'
<1>1. UNCHANGED <<program, at, pc, mesh, entities_changed, vote, entities_from_root,
                  master_receive_entities, gathered, array, mail, waitFor>>
  BY DEF vars, lists, values, messages
<1>2. Grows /\ OthersStay(root) /\ RootStays
  BY <1>1 DEF Grows, OthersStay, RootStays
<1>3. TypeInv /\ RankInv(root) /\ PlaceInv(root) /\ root \in Rank
  BY RootIsRank DEF IInv, RankInv
<1>4. TypeInv'
  BY <1>1, <1>3 DEF TypeInv
<1>5. RankInv(root)'
  BY <1>1, <1>2, <1>3, RankStays
<1>6. ProgramInv'
  BY <1>1, ProgramStays DEF IInv
<1>7. RootLists' /\ RootGathered'
  BY <1>2, <1>3, RootKeeps DEF IInv
<1>8. MailInv'
  <2>1. \A p, q, kind, n : /\ UnderWay(p, q, kind, n)' <=> UnderWay(p, q, kind, n)
                           /\ Needed(p, q, kind, n)' <=> Needed(p, q, kind, n)
                           /\ Taken(p, q, kind, n)' <=> Taken(p, q, kind, n)
                           /\ Sent(p, kind, n)' <=> Sent(p, kind, n)
    BY <1>1 DEF UnderWay, Needed, Taken, HasTaken, Sent, MeshAfter, Adds, Fresh
  <2>2. \A p, q, kind, n : Msg(p, q, kind, n)' = Msg(p, q, kind, n)
    BY <1>1 DEF Msg, Content, NumbersOf, MeshAfter, Adds
  <2>3. Len(program') = Len(program) /\ mail' = mail
    BY <1>1
  <2>4. MailInv
    BY DEF IInv
  <2>5. QED
    BY <2>1, <2>2, <2>3, <2>4 DEF MailInv
<1>9. QED
  BY <1>2, <1>3, <1>4, <1>5, <1>6, <1>7, <1>8, StepKeeps

(* Every step keeps the invariant.                                         *)
LEMMA NextKeeps == IInv /\ [Next]_vars => IInv'
<1> SUFFICES ASSUME IInv, [Next]_vars PROVE IInv'
  OBVIOUS
<1>1. ASSUME NEW p \in Rank, OnNodesAdded(p)
      PROVE  IInv'
  BY <1>1, OnNodesAddedKeeps
<1>2. ASSUME NEW p \in Rank, NEW op \in {"gather", "scatter"}, HasChanged(p, op)
      PROVE  IInv'
  BY <1>2, HasChangedKeeps
<1>3. ASSUME NEW p \in Rank, Reduced(p)
      PROVE  IInv'
  BY <1>3, ReducedKeeps
<1>4. ASSUME NEW p \in Rank, InitSlave(p)
      PROVE  IInv'
  BY <1>4, InitSlaveKeeps
<1>5. ASSUME NEW p \in Rank, ListReceived(p) \/ ListBuffered(p)
      PROVE  IInv'
  BY <1>5, ListSentKeeps
<1>6. ASSUME NEW p \in Rank, GatherSlave(p)
      PROVE  IInv'
  BY <1>6, GatherSlaveKeeps
<1>7. ASSUME NEW p \in Rank, GatherReceived(p) \/ GatherBuffered(p)
      PROVE  IInv'
  BY <1>7, GatherSentKeeps
<1>8. ASSUME NEW p \in Rank, NEW m, ScatterSlave(p, m)
      PROVE  IInv'
  BY <1>8, ScatterSlaveKeeps
<1>9. ASSUME NEW p \in Rank, NEW m, UnpackGhosts(p, m)
      PROVE  IInv'
  BY <1>9, UnpackGhostsKeeps
<1>10. ASSUME NEW p \in Rank, GhostsReceived(p) \/ GhostsBuffered(p)
       PROVE  IInv'
  BY <1>10, EndScatterKeeps DEF GhostsReceived, GhostsBuffered
<1>11. CASE RootStep
  <2>1. CASE InitRoot
    BY <2>1, InitRootKeeps
  <2>2. ASSUME NEW m, ReceiveList(m)
        PROVE  IInv'
    BY <2>2, ReceiveListKeeps
  <2>3. ASSUME NEW m, UnpackGather(m)
        PROVE  IInv'
    BY <2>3, UnpackGatherKeeps
  <2>4. CASE ListsComplete
    BY <2>4, ListsCompleteKeeps
  <2>5. CASE GatherRoot
    BY <2>5, GatherRootKeeps
  <2>6. CASE GatherEnd
    BY <2>6, GatherEndKeeps
  <2>7. CASE ScatterRoot
    BY <2>7, ScatterRootKeeps
  <2>8. CASE ScatterReceived
    BY <2>8, ScatterSentKeeps
  <2>9. QED
    BY <1>11, <2>1, <2>2, <2>3, <2>4, <2>5, <2>6, <2>7, <2>8 DEF RootStep
<1>12. CASE ScatterBuffered
  BY <1>12, ScatterSentKeeps
<1>13. CASE UNCHANGED vars
  BY <1>13, StutterKeeps
<1>14. ASSUME NEW p \in Rank, RankStep(p)
       PROVE  IInv'
  BY <1>1, <1>2, <1>3, <1>4, <1>5, <1>6, <1>7, <1>8, <1>9, <1>10, <1>11, <1>14 DEF RankStep
<1>15. QED
  BY <1>5, <1>7, <1>10, <1>12, <1>13, <1>14 DEF Next, Terminated

(* IInv holds throughout: the operation a rank is in says which version of *)
(* the mesh it has, what it has voted, which messages are under way and    *)
(* what is in its lists and arrays.                                        *)
THEOREM Invariance == FairSpec => []IInv
<1>1. Init => IInv
  BY InitHolds
<1>2. IInv /\ [Next]_vars => IInv'
  BY NextKeeps
<1>3. QED
  BY <1>1, <1>2, PTL DEF FairSpec

-----------------------------------------------------------------------------
(* What the invariant says.                                                *)

(* A rank that does not say its entities have changed has the list its     *)
(* mesh gives now, and the root has the numbers of the same entities in    *)
(* the same order, for any number of ranks, any distribution of the        *)
(* entities and any program.                                               *)
THEOREM ListsAgree == FairSpec => []ListsMatch
<1>1. ASSUME IInv
      PROVE  ListsMatch
  <2>1. ASSUME NEW p \in Rank, ~entities_changed[p]
        PROVE  entities_from_root[p] = OwnEntities(p)
    BY <1>1, <2>1 DEF IInv, RankInv, OwnListOf
  <2>2. ASSUME NEW p \in Rank, ~entities_changed[p], ~entities_changed[root],
               pc[root] # "lists", mesh[root] = mesh[p]
        PROVE  master_receive_entities[p] = Numbers(p, entities_from_root[p])
    <3>1. master_receive_entities[p] = NumbersOf(mesh[p], p)
      BY <1>1, <2>2 DEF IInv, RootLists
    <3>2. Numbers(p, entities_from_root[p]) = NumbersOf(mesh[p], p)
      BY <2>1, <2>2 DEF Numbers, NumbersOf, OwnEntities
    <3>3. QED
      BY <3>1, <3>2
  <2>3. QED
    BY <2>1, <2>2 DEF ListsMatch
<1>2. QED
  BY <1>1, Invariance, PTL

(* Every entity of a mesh is among the own entities of its owner.          *)
LEMMA EveryEntityOwned ==
  ASSUME NEW v \in Version, NEW q \in Rank, NEW e \in ToSet(Local[v][q])
  PROVE  Owner[e] \in Rank /\ e \in ToSet(Owned(v, Owner[e]))
<1>1. Local[v][q] \in Seq(Entity) /\ Owner \in [Entity -> Rank]
  BY MeshAssumption
<1>2. e \in Entity
  BY <1>1 DEF ToSet
<1>3. Owner[e] \in Rank
  BY <1>1, <1>2
<1>4. e \in ToSet(Local[v][Owner[e]])
  BY EntitiesAssumption
<1>5. QED
  BY <1>3, <1>4, OwnedProperties

(* All entities of a mesh, and the one with a number.                      *)
AllOf(v) == UNION {ToSet(Local[v][p]) : p \in Rank}
WithNumber(v, g) == CHOOSE x \in AllOf(v) : Gid[v][x] = g

(* After a gather the root has the value of every entity, given by its     *)
(* owner, at the number of the entity.                                     *)
LEMMA GatheredRight ==
  ASSUME IInv, JustMade(root, "gather")
  PROVE  gathered = [g \in {Gid[mesh[root]][e] : e \in AllOf(mesh[root])} |->
                       GatherValue(Owner[WithNumber(mesh[root], g)],
                                   WithNumber(mesh[root], g), at[root] - 1)]
<1>1. PICK v : v = mesh[root]
  OBVIOUS
<1>2. v \in Version
  <2>1. TypeInv /\ PlaceInv(root) /\ FlagInv(root) /\ ProgramInv /\ root \in Rank
    BY RootIsRank DEF IInv, RankInv
  <2>2. PICK a \in Nat : a = at[root]
    BY <2>1 DEF TypeInv
  <2>3. a \in 0 .. Len(program) /\ v = MeshAfter(a)
    BY <1>1, <2>1, <2>2 DEF TypeInv, PlaceInv, FlagInv
  <2>4. QED
    BY <2>1, <2>3 DEF ProgramInv
<1>3. PICK n : n = at[root] - 1
  OBVIOUS
<1>4. /\ gathered = [g \in DOMAIN gathered |-> gathered[g]]
      /\ DOMAIN gathered = UNION {ToSet(NumbersOf(v, p)) : p \in Rank}
      /\ \A p \in Rank : \A e \in ToSet(Owned(v, p)) : gathered[Gid[v][e]] = GatherValue(p, e, n)
  BY <1>1, <1>3 DEF IInv, RootGathered, GatheredOf
<1>5. ASSUME NEW e \in AllOf(v)
      PROVE  Owner[e] \in Rank /\ e \in ToSet(Owned(v, Owner[e]))
  <2>1. PICK q \in Rank : e \in ToSet(Local[v][q])
    BY DEF AllOf
  <2>2. QED
    BY <1>2, <2>1, EveryEntityOwned
<1>6. ASSUME NEW p \in Rank
      PROVE  ToSet(NumbersOf(v, p)) = {Gid[v][e] : e \in ToSet(Owned(v, p))}
  BY DEF ToSet, NumbersOf
<1>7. ASSUME NEW p \in Rank
      PROVE  ToSet(Owned(v, p)) \subseteq AllOf(v)
  BY <1>2, OwnedProperties DEF AllOf
<1>8. DOMAIN gathered = {Gid[v][e] : e \in AllOf(v)}
  <2>1. ASSUME NEW g \in DOMAIN gathered
        PROVE  \E e \in AllOf(v) : g = Gid[v][e]
    BY <1>4, <1>6, <1>7
  <2>2. ASSUME NEW e \in AllOf(v)
        PROVE  Gid[v][e] \in DOMAIN gathered
    BY <1>4, <1>5, <1>6
  <2>3. QED
    BY <2>1, <2>2
<1>9. ASSUME NEW g \in {Gid[v][e] : e \in AllOf(v)}
      PROVE  gathered[g] = GatherValue(Owner[WithNumber(v, g)], WithNumber(v, g), n)
  <2>1. WithNumber(v, g) \in AllOf(v) /\ Gid[v][WithNumber(v, g)] = g
    BY DEF WithNumber
  <2>2. QED
    BY <1>4, <1>5, <2>1
<1>10. gathered = [g \in {Gid[v][e] : e \in AllOf(v)} |->
                     GatherValue(Owner[WithNumber(v, g)], WithNumber(v, g), n)]
  BY <1>4, <1>8, <1>9
<1>11. QED
  BY <1>1, <1>3, <1>10

(* After a gather the root has of every entity the value its owner         *)
(* gathered in this operation, and after a scatter each rank has of its    *)
(* entities and ghosts those scattered in this operation; no value of an   *)
(* earlier operation takes the place of one.                               *)
THEOREM ValuesAreRight == FairSpec => []ValuesArrive
<1>1. ASSUME IInv, NEW p \in Rank, JustMade(p, "scatter")
      PROVE  array[p] = [e \in Holds(p) |-> ScatterValue(Gid[mesh[p]][e], at[p] - 1)]
  <2>1. PICK v : v = mesh[p]
    OBVIOUS
  <2>2. v \in Version
    <3>1. TypeInv /\ PlaceInv(p) /\ FlagInv(p) /\ ProgramInv
      BY <1>1 DEF IInv, RankInv
    <3>2. PICK a \in Nat : a = at[p]
      BY <3>1 DEF TypeInv
    <3>3. a \in 0 .. Len(program) /\ v = MeshAfter(a)
      BY <2>1, <3>1, <3>2 DEF TypeInv, PlaceInv, FlagInv
    <3>4. QED
      BY <3>1, <3>3 DEF ProgramInv
  <2>3. ArrayOf(p, Rank, at[p] - 1)
    BY <1>1 DEF IInv, RankInv, Scattered
  <2>4. Part(v, p, Rank) = Holds(p)
    <3>1. \A e \in ToSet(Local[v][p]) : Owner[e] \in Rank
      BY <2>2, EveryEntityOwned
    <3>2. QED
      BY <2>1, <3>1 DEF Part, Holds
  <2>5. QED
    BY <2>1, <2>3, <2>4 DEF ArrayOf
<1>2. IInv => ValuesArrive
  <2> SUFFICES ASSUME IInv PROVE ValuesArrive
    OBVIOUS
  <2>1. JustMade(root, "gather") =>
          LET v == mesh[root]
              all == UNION {ToSet(Local[v][p]) : p \in Rank}
          IN gathered = [g \in {Gid[v][e] : e \in all} |->
                           LET e == CHOOSE x \in all : Gid[v][x] = g
                           IN GatherValue(Owner[e], e, at[root] - 1)]
    BY GatheredRight DEF AllOf, WithNumber
  <2>2. \A p \in Rank : JustMade(p, "scatter") =>
          array[p] = [e \in Holds(p) |-> ScatterValue(Gid[mesh[p]][e], at[p] - 1)]
    BY <1>1
  <2>3. QED
    BY <2>1, <2>2 DEF ValuesArrive
<1>3. QED
  BY <1>2, Invariance, PTL
==============================================================================
