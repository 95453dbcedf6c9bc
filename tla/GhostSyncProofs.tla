--------------------------- MODULE GhostSyncProofs ---------------------------
(***************************************************************************)
(* Proofs about GhostSync, for every finite set of ranks and links, every  *)
(* set of tags, every number of counts an MPI tag can hold and every       *)
(* program: no request is lost, no stale size is used, every receive gets  *)
(* the message of its own synchronization although MPI tags repeat, the    *)
(* ghosts are fresh after a wait, and the protocol implements              *)
(* GhostExchange.                                                          *)
(*                                                                         *)
(* The inductive invariant comes in layers, each of which rests on those   *)
(* before it: the program, the requests, the published operations, the     *)
(* sizes and schemes, the messages, what was received.                     *)
(***************************************************************************)
EXTENDS GhostSync, TLAPS, FiniteSetTheorems, SequenceTheorems

-----------------------------------------------------------------------------
(* The inductive invariant.                                                *)

(* Rank p shares entities with some rank.                                  *)
Linked(p) == Out(p) \cup In(p) # {}

(* Operation i starts a synchronization of t that is not under way yet.    *)
Publishes(i, t) == prog[i] = Async(t) /\ t \notin Open(i - 1)

(* Rank p has started a synchronization of t and is not through with it.   *)
Busy(p, t) == t \in Open(at[p]) \/ Waiting(p, t)

(* The number of starts of t within the first i operations.                *)
Starts(t, i) == {k \in 1 .. i : prog[k] = Async(t)}
Count(t, i) == Cardinality(Starts(t, i))

(* Where the ranks are in the program, and that the program is legal.      *)
RankInProgram(p) ==
  /\ at[p] <= Len(prog)
  /\ pc[p] # "run" => at[p] >= 1
  /\ pc[p] = "wait" => \E t \in Tags : prog[at[p]] = Wait(t)
  /\ pc[p] \in {"filter", "drain"} => prog[at[p]] = Filter

LegalOp(i) ==
  /\ \A t \in Tags : prog[i] = Wait(t) => t \in Open(i - 1)
  /\ prog[i] = Filter => Open(i - 1) = {}

ProgramInv ==
  /\ TypeOK
  /\ \A p \in Proc : RankInProgram(p)
  /\ \A i \in 1 .. Len(prog) : LegalOp(i)

(* The requests of a rank for a tag: all there from the start to the wait, *)
(* all freed after it, and counted.                                        *)
RequestsOf(p, t) ==
  /\ pendSend[p][t] = IF Busy(p, t) THEN Cardinality(Out(p)) ELSE 0
  /\ pendRecv[p][t] = Cardinality({l \in In(p) : request[t][l] # "free"})
  /\ t \in Open(at[p]) => \A l \in In(p) : request[t][l] # "free"
  /\ ~Busy(p, t) => \A l \in In(p) : request[t][l] = "free"

(* The receives posted on a link are those of its active requests; a done  *)
(* request has received something.                                         *)
PostedOn(l) ==
  /\ \A i \in 1 .. Len(posted[l]) : request[posted[l][i].tag][l] = "active"
  /\ \A t \in Tags : request[t][l] = "active" =>
       \E i \in 1 .. Len(posted[l]) : posted[l][i].tag = t
  /\ \A t \in Tags : request[t][l] = "done" => recvBuf[t][l] \in Received
  /\ \A i, j \in 1 .. Len(posted[l]) : i < j => posted[l][i].tag # posted[l][j].tag

RequestInv ==
  /\ \A p \in Proc, t \in Tags : RequestsOf(p, t)
  /\ \A l \in Links : PostedOn(l)

(* What a rank has published are the publishing operations it has begun,   *)
(* in their order.                                                         *)
PublishedBy(p, t) ==
  /\ \A k \in 1 .. Len(published[p][t]) :
       published[p][t][k] <= at[p] /\ Publishes(published[p][t][k], t)
  /\ \A j, k \in 1 .. Len(published[p][t]) :
       j < k => published[p][t][j] < published[p][t][k]
  /\ \A i \in 1 .. at[p] : Publishes(i, t) =>
       \E k \in 1 .. Len(published[p][t]) : published[p][t][k] = i

(* No entities were dropped since a synchronization that is under way was  *)
(* started.                                                                *)
UnfilteredSince(p, t) ==
  Busy(p, t) =>
    /\ published[p][t] # <<>>
    /\ \A f \in 1 .. at[p] : prog[f] = Filter => f < LastPublished(p, t)

(* r is s, followed by operations after the first n.                       *)
Ahead(s, r, n) ==
  /\ Len(s) <= Len(r)
  /\ \A k \in 1 .. Len(s) : r[k] = s[k]
  /\ \A k \in (Len(s) + 1) .. Len(r) : r[k] > n

(* A rank that is behind has published a part of what the other has.       *)
Prefix(p, q, t) ==
  at[p] <= at[q] => Ahead(published[p][t], published[q][t], at[p])

PublishedInv ==
  /\ \A p \in Proc, t \in Tags : counter[p][t] = Count(t, at[p])
  /\ \A p \in Proc, t \in Tags : Linked(p) => PublishedBy(p, t) /\ UnfilteredSince(p, t)
  /\ \A p, q \in Proc, t \in Tags : Linked(p) /\ Linked(q) => Prefix(p, q, t)

(* Known sizes are those of the schemes, except while entities are dropped. *)
SizesOf(p, t) ==
  /\ (pc[p] \in {"run", "wait"} /\ sizeKnown[p][t]) =>
       /\ \A l \in Out(p) : sendSize[t][l] = sendLen[l]
       /\ \A l \in In(p) : recvSize[t][l] = recvLen[l]
  /\ Busy(p, t) => sizeKnown[p][t]

(* The filter operations in which l[2] has told l[1] what it keeps and     *)
(* l[1] has not cut its send scheme yet.                                   *)
Untaken(l, f) == f > at[l[1]] \/ (f = at[l[1]] /\ pc[l[1]] = "filter")
Told(l) == {f \in 1 .. at[l[2]] : prog[f] = Filter /\ Untaken(l, f)}

KeepOn(l) ==
  /\ Len(keep[l]) = Cardinality(Told(l))
  /\ \A f \in 1 .. at[l[1]] : prog[f] = Filter /\ ~Untaken(l, f) => f <= at[l[2]]
  /\ recvLen[l] = IF keep[l] = <<>> THEN sendLen[l] ELSE Last(keep[l])

SchemeInv ==
  /\ \A p \in Proc, t \in Tags : SizesOf(p, t)
  /\ \A l \in Links : KeepOn(l)

(* The messages on a link, by the operation that sent them.                *)
Elements(s) == {s[k] : k \in 1 .. Len(s)}

SentAt(l, m) ==
  /\ m.value \in 1 .. at[l[1]]
  /\ Publishes(m.value, m.tag)
  /\ m.wire = Wire(m.tag, Count(m.tag, m.value))
  /\ m.size = sendLen[l]
  /\ ~m.buffered => Busy(l[1], m.tag) /\ sendBuf[m.tag][l] = m.value

SentOn(l) ==
  /\ \A m \in Elements(sent[l]) : SentAt(l, m)
  /\ \A i, j \in 1 .. Len(sent[l]) : i < j => sent[l][i].value < sent[l][j].value

(* The receives on a link, by the operation that posted them.              *)
PostedAt(l, r) ==
  /\ r.wire = Wire(r.tag, Count(r.tag, LastPublished(l[2], r.tag)))
  /\ r.size = recvLen[l]

ReceivesOn(l) ==
  /\ \A r \in Elements(posted[l]) : PostedAt(l, r)
  /\ \A i, j \in 1 .. Len(posted[l]) : i < j =>
       LastPublished(l[2], posted[l][i].tag) < LastPublished(l[2], posted[l][j].tag)

(* Operation i has its message on l, or its receive for t.                 *)
InSent(l, i) == \E m \in Elements(sent[l]) : m.value = i
InPosted(l, i, t) == request[t][l] = "active" /\ LastPublished(l[2], t) = i

(* Of an operation that both ends have begun, message and receive are both *)
(* there or both gone; of one that only one end has begun, its part is.    *)
InStep(l, i, t) ==
  /\ i <= at[l[1]] /\ i <= at[l[2]] => (InSent(l, i) <=> InPosted(l, i, t))
  /\ i <= at[l[1]] /\ i > at[l[2]] => InSent(l, i)
  /\ i > at[l[1]] /\ i <= at[l[2]] => InPosted(l, i, t)

InStepOn(l) ==
  \A t \in Tags : \A i \in 1 .. Len(prog) : Publishes(i, t) => InStep(l, i, t)

MessageInv == \A l \in Links : SentOn(l) /\ ReceivesOn(l) /\ InStepOn(l)

(* What a done request has received, and what the ghosts hold when it is   *)
(* freed.                                                                  *)
ReceivedOn(l, t) ==
  /\ request[t][l] = "done" =>
       /\ recvBuf[t][l].tag = t
       /\ recvBuf[t][l].value = LastPublished(l[2], t)
       /\ recvBuf[t][l].size = recvBuf[t][l].room
       /\ LastPublished(l[2], t) <= at[l[1]]
  /\ request[t][l] = "free" => ghost[t][l] = LastPublished(l[2], t)

ReceivedInv == \A l \in Links, t \in Tags : ReceivedOn(l, t)

-----------------------------------------------------------------------------
(* Operations and sequences.                                               *)

(* The three kinds of operations are told apart by their first component.  *)
LEMMA OpsDistinct ==
  ASSUME NEW t \in Tags, NEW u \in Tags
  PROVE  /\ Async(t) # Wait(u) /\ Async(t) # Filter /\ Wait(t) # Filter
         /\ Async(t) = Async(u) => t = u
         /\ Wait(t) = Wait(u) => t = u
         /\ Async(t) \in Ops /\ Wait(t) \in Ops /\ Filter \in Ops
<1>1. Async(t) # Wait(u)
  BY Async(t)[1] # Wait(u)[1] DEF Async, Wait
<1>2. Async(t) # Filter
  BY Async(t)[1] # Filter[1] DEF Async, Filter
<1>3. Wait(t) # Filter
  BY Wait(t)[1] # Filter[1] DEF Wait, Filter
<1>4. QED
  BY <1>1, <1>2, <1>3 DEF Ops, Async, Wait

(* Dropping one element of a sequence.                                     *)
LEMMA RemoveAtProperties ==
  ASSUME NEW S, NEW s \in Seq(S), NEW i \in 1 .. Len(s)
  PROVE  /\ RemoveAt(s, i) \in Seq(S)
         /\ Len(RemoveAt(s, i)) = Len(s) - 1
         /\ \A k \in 1 .. (Len(s) - 1) :
              RemoveAt(s, i)[k] = IF k < i THEN s[k] ELSE s[k + 1]
<1> DEFINE a == SubSeq(s, 1, i - 1)
           b == SubSeq(s, i + 1, Len(s))
<1>0. Len(s) \in Nat /\ i - 1 \in Int /\ i + 1 \in Int /\ Len(s) \in Int
  BY LenProperties
<1>1. \A k \in 1 .. Len(s) : s[k] \in S
  BY ElementOfSeq
<1>2. /\ a \in Seq(S) /\ Len(a) = IF 1 <= i - 1 THEN i - 1 - 1 + 1 ELSE 0
      /\ \A k \in 1 .. (i - 1 - 1 + 1) : a[k] = s[1 + k - 1]
  <2>1. \A k \in 1 .. (i - 1) : s[k] \in S
    BY <1>0, <1>1
  <2>2. QED
    BY <1>0, <2>1, SubSeqProperties
<1>3. /\ b \in Seq(S) /\ Len(b) = IF i + 1 <= Len(s) THEN Len(s) - (i + 1) + 1 ELSE 0
      /\ \A k \in 1 .. (Len(s) - (i + 1) + 1) : b[k] = s[i + 1 + k - 1]
  <2>1. \A k \in (i + 1) .. Len(s) : s[k] \in S
    BY <1>0, <1>1
  <2>2. QED
    BY <1>0, <2>1, SubSeqProperties
<1>4. RemoveAt(s, i) = a \o b
  BY DEF RemoveAt
<1> HIDE DEF a, b
<1>5. /\ a \o b \in Seq(S)
      /\ Len(a \o b) = Len(a) + Len(b)
      /\ \A k \in 1 .. Len(a) + Len(b) : (a \o b)[k] =
           IF k <= Len(a) THEN a[k] ELSE b[k - Len(a)]
  BY <1>2, <1>3, ConcatProperties
<1>6. Len(a) = i - 1 /\ Len(b) = Len(s) - i
  BY <1>0, <1>2, <1>3
<1>7. ASSUME NEW k \in 1 .. (Len(s) - 1)
      PROVE  (a \o b)[k] = IF k < i THEN s[k] ELSE s[k + 1]
  <2>1. CASE k < i
    BY <2>1, <1>0, <1>2, <1>5, <1>6
  <2>2. CASE ~(k < i)
    <3>1. (a \o b)[k] = b[k - (i - 1)]
      BY <2>2, <1>0, <1>5, <1>6
    <3>2. k - (i - 1) \in 1 .. (Len(s) - (i + 1) + 1)
      BY <2>2, <1>0
    <3>3. b[k - (i - 1)] = s[i + 1 + (k - (i - 1)) - 1]
      BY <3>2, <1>3
    <3>4. i + 1 + (k - (i - 1)) - 1 = k + 1
      BY <1>0
    <3>5. QED
      BY <2>2, <3>1, <3>3, <3>4
  <2>3. QED
    BY <2>1, <2>2
<1>8. QED
  BY <1>0, <1>4, <1>5, <1>6, <1>7

(* r has the elements of s in their order, but for the i-th.               *)
Dropped(s, r, i) ==
  /\ \A k \in 1 .. Len(r) : \E n \in 1 .. Len(s) : n # i /\ r[k] = s[n]
  /\ \A n \in 1 .. Len(s) : n # i => \E k \in 1 .. Len(r) : r[k] = s[n]
  /\ \A j, k \in 1 .. Len(r) : j < k =>
       \E m, n \in 1 .. Len(s) : m < n /\ r[j] = s[m] /\ r[k] = s[n]

(* What is in a sequence after one element was dropped.                    *)
LEMMA RemoveAtKeeps ==
  ASSUME NEW S, NEW s \in Seq(S), NEW i \in 1 .. Len(s)
  PROVE  Dropped(s, RemoveAt(s, i), i)
<1> DEFINE r == RemoveAt(s, i)
<1>0. Len(s) \in Nat
  BY LenProperties
<1>1. /\ Len(r) = Len(s) - 1
      /\ \A k \in 1 .. (Len(s) - 1) : r[k] = IF k < i THEN s[k] ELSE s[k + 1]
  BY RemoveAtProperties
<1> HIDE DEF r
<1>2. ASSUME NEW k \in 1 .. Len(r)
      PROVE  \E n \in 1 .. Len(s) : n # i /\ r[k] = s[n]
  <2>1. CASE k < i
    BY <2>1, <1>0, <1>1
  <2>2. CASE ~(k < i)
    <3>1. k + 1 \in 1 .. Len(s) /\ k + 1 # i /\ r[k] = s[k + 1]
      BY <2>2, <1>0, <1>1
    <3>2. QED
      BY <3>1
  <2>3. QED
    BY <2>1, <2>2
<1>3. ASSUME NEW n \in 1 .. Len(s), n # i
      PROVE  \E k \in 1 .. Len(r) : r[k] = s[n]
  <2>1. CASE n < i
    <3>1. n \in 1 .. Len(r) /\ r[n] = s[n]
      BY <2>1, <1>0, <1>1
    <3>2. QED
      BY <3>1
  <2>2. CASE n > i
    <3>1. n - 1 \in 1 .. (Len(s) - 1) /\ ~(n - 1 < i) /\ (n - 1) + 1 = n
      BY <2>2, <1>0
    <3>2. r[n - 1] = s[n]
      BY <3>1, <1>1
    <3>3. QED
      BY <3>1, <3>2, <1>1
  <2>3. QED
    BY <1>0, <1>3, <2>1, <2>2
<1>4. ASSUME NEW j \in 1 .. Len(r), NEW k \in 1 .. Len(r), j < k
      PROVE  \E m, n \in 1 .. Len(s) : m < n /\ r[j] = s[m] /\ r[k] = s[n]
  <2> DEFINE m == IF j < i THEN j ELSE j + 1
             n == IF k < i THEN k ELSE k + 1
  <2>1. m \in 1 .. Len(s) /\ n \in 1 .. Len(s) /\ m < n
    BY <1>0, <1>1, <1>4
  <2>2. r[j] = s[m] /\ r[k] = s[n]
    BY <1>0, <1>1
  <2> HIDE DEF m, n
  <2>3. QED
    BY <2>1, <2>2
<1>5. QED
  BY <1>2, <1>3, <1>4 DEF r, Dropped

(* The links of a rank can be counted: its communications are finite.      *)
LEMMA LinksFinite ==
  /\ \A p : IsFiniteSet(Out(p)) /\ IsFiniteSet(In(p))
  /\ \A p : Cardinality(Out(p)) \in Nat /\ Cardinality(In(p)) \in Nat
  /\ \A p : Cardinality(Out(p)) = 0 <=> Out(p) = {}
  /\ \A p : Cardinality(In(p)) = 0 <=> In(p) = {}
<1>1. IsFiniteSet(Proc \X Proc)
  BY ProcAssumption, FS_Product
<1>2. IsFiniteSet(Links)
  <2>1. Links \in SUBSET (Proc \X Proc)
    BY LinksAssumption
  <2>2. QED
    BY <1>1, <2>1, FS_Subset
<1>3. ASSUME NEW p
      PROVE  IsFiniteSet(Out(p)) /\ IsFiniteSet(In(p))
  <2>1. Out(p) \in SUBSET Links /\ In(p) \in SUBSET Links
    BY DEF Out, In
  <2>2. QED
    BY <1>2, <2>1, FS_Subset
<1>4. QED
  BY <1>3, FS_CardinalityType, FS_EmptySet

-----------------------------------------------------------------------------
(* How the program determines what is open, what publishes and the counts. *)

(* What is open after the first i operations is a set of tags.             *)
LEMMA OpenIsTags == \A i : Open(i) \in SUBSET Tags
  BY DEF Open

OpenFollows(i) ==
  /\ \A t \in Tags : prog[i + 1] = Async(t) => Open(i + 1) = Open(i) \cup {t}
  /\ \A t \in Tags : prog[i + 1] = Wait(t) => Open(i + 1) = Open(i) \ {t}
  /\ prog[i + 1] = Filter => Open(i + 1) = Open(i)

OpenFollowsProgram == \A i \in Nat : OpenFollows(i)

(* An asynchronousSynchronize opens its tag, a waitEndSynchronize closes   *)
(* it, and a filter, which needs every tag closed, changes nothing.        *)
LEMMA OpenNext == OpenFollowsProgram
<1> SUFFICES ASSUME NEW i \in Nat
             PROVE  OpenFollows(i)
  BY DEF OpenFollowsProgram
<1>1. ASSUME NEW u \in Tags
      PROVE  u \in Open(i + 1) <=>
               \/ prog[i + 1] = Async(u)
               \/ u \in Open(i) /\ prog[i + 1] # Wait(u)
  <2>1. ASSUME u \in Open(i + 1), prog[i + 1] # Async(u)
        PROVE  u \in Open(i) /\ prog[i + 1] # Wait(u)
    <3>1. PICK j \in 1 .. (i + 1) :
            prog[j] = Async(u) /\ \A k \in (j + 1) .. (i + 1) : prog[k] # Wait(u)
      BY <2>1 DEF Open
    <3>2. j \in 1 .. i
      BY <3>1, <2>1
    <3>3. i + 1 \in (j + 1) .. (i + 1) /\ (j + 1) .. i \subseteq (j + 1) .. (i + 1)
      BY <3>2
    <3>4. QED
      BY <3>1, <3>2, <3>3 DEF Open
  <2>2. ASSUME prog[i + 1] = Async(u)
        PROVE  u \in Open(i + 1)
    <3>1. i + 1 \in 1 .. (i + 1) /\ (i + 1 + 1) .. (i + 1) = {}
      OBVIOUS
    <3>2. QED
      BY <2>2, <3>1 DEF Open
  <2>3. ASSUME u \in Open(i), prog[i + 1] # Wait(u)
        PROVE  u \in Open(i + 1)
    <3>1. PICK j \in 1 .. i : prog[j] = Async(u) /\ \A k \in (j + 1) .. i : prog[k] # Wait(u)
      BY <2>3 DEF Open
    <3>2. j \in 1 .. (i + 1) /\ \A k \in (j + 1) .. (i + 1) : k \in (j + 1) .. i \/ k = i + 1
      OBVIOUS
    <3>3. QED
      BY <2>3, <3>1, <3>2 DEF Open
  <2>4. QED
    BY <2>1, <2>2, <2>3, OpsDistinct
<1>2. QED
  <2>1. \A t \in Tags : prog[i + 1] = Async(t) => Open(i + 1) = Open(i) \cup {t}
    BY <1>1, OpenIsTags, OpsDistinct
  <2>2. \A t \in Tags : prog[i + 1] = Wait(t) => Open(i + 1) = Open(i) \ {t}
    BY <1>1, OpenIsTags, OpsDistinct
  <2>3. prog[i + 1] = Filter => Open(i + 1) = Open(i)
    BY <1>1, OpenIsTags, OpsDistinct
  <2>4. QED
    BY <2>1, <2>2, <2>3 DEF OpenFollows

(* The same of the program after a step.                                   *)
LEMMA OpenNextPrime == OpenFollowsProgram'
  BY OpenNext, PTL

(* The starts of a tag within the first i operations can be counted.       *)
LEMMA StartsFinite ==
  ASSUME NEW t \in Tags, NEW i \in Nat
  PROVE  IsFiniteSet(Starts(t, i)) /\ Count(t, i) \in Nat
<1>1. IsFiniteSet(1 .. i)
  BY FS_Interval
<1>2. Starts(t, i) \in SUBSET (1 .. i)
  BY DEF Starts
<1>3. QED
  BY <1>1, <1>2, FS_Subset, FS_CardinalityType DEF Count

CountFollows(i, t) ==
  /\ prog[i + 1] = Async(t) => Count(t, i + 1) = Count(t, i) + 1
  /\ prog[i + 1] # Async(t) => Count(t, i + 1) = Count(t, i)

CountFollowsProgram ==
  /\ \A i \in Nat, t \in Tags : CountFollows(i, t)
  /\ \A t \in Tags : Count(t, 0) = 0

(* The count of a tag grows by one with each start of it, by nothing else. *)
LEMMA CountNext == CountFollowsProgram
<1> SUFFICES ASSUME NEW i \in Nat, NEW t \in Tags
             PROVE  CountFollows(i, t) /\ Count(t, 0) = 0
  BY DEF CountFollowsProgram
<1>1. ASSUME prog[i + 1] = Async(t)
      PROVE  Count(t, i + 1) = Count(t, i) + 1
  <2>1. Starts(t, i + 1) = Starts(t, i) \cup {i + 1} /\ i + 1 \notin Starts(t, i)
    BY <1>1 DEF Starts
  <2>2. QED
    BY <2>1, StartsFinite, FS_AddElement DEF Count
<1>2. ASSUME prog[i + 1] # Async(t)
      PROVE  Count(t, i + 1) = Count(t, i)
  <2>1. Starts(t, i + 1) = Starts(t, i)
    BY <1>2 DEF Starts
  <2>2. QED
    BY <2>1 DEF Count
<1>3. Starts(t, 0) = {}
  BY DEF Starts
<1>4. QED
  BY <1>1, <1>2, <1>3, FS_EmptySet DEF Count, CountFollows

(* The same of the program after a step.                                   *)
LEMMA CountNextPrime == CountFollowsProgram'
  BY CountNext, PTL

(* The program is only ever extended: what was said of its operations      *)
(* stays true.                                                             *)
ProgramGrows ==
  /\ Len(prog) <= Len(prog')
  /\ \A i \in 1 .. Len(prog) : prog'[i] = prog[i]

(* When the program is extended, what is open, published and counted by    *)
(* the operations already in it stays what it was.                         *)
LEMMA ProgramStable ==
  ASSUME ProgramGrows, Len(prog) \in Nat
  PROVE  /\ \A i \in 0 .. Len(prog) : Open(i)' = Open(i)
         /\ \A i \in 1 .. Len(prog), t \in Tags : Publishes(i, t)' <=> Publishes(i, t)
         /\ \A i \in 0 .. Len(prog), t \in Tags : Count(t, i)' = Count(t, i)
<1>1. ASSUME NEW i \in 0 .. Len(prog)
      PROVE  Open(i)' = Open(i)
  <2>1. \A j \in 1 .. i : prog'[j] = prog[j]
    BY DEF ProgramGrows
  <2>2. \A j \in 1 .. i : \A k \in (j + 1) .. i : prog'[k] = prog[k]
    BY <2>1
  <2>3. QED
    BY <2>1, <2>2 DEF Open
<1>2. ASSUME NEW i \in 1 .. Len(prog), NEW t \in Tags
      PROVE  Publishes(i, t)' <=> Publishes(i, t)
  <2>1. i - 1 \in 0 .. Len(prog)
    OBVIOUS
  <2>2. Open(i - 1)' = Open(i - 1)
    BY <1>1, <2>1
  <2>3. QED
    BY <2>2 DEF Publishes, ProgramGrows
<1>3. ASSUME NEW i \in 0 .. Len(prog), NEW t \in Tags
      PROVE  Count(t, i)' = Count(t, i)
  <2>1. Starts(t, i)' = Starts(t, i)
    BY DEF Starts, ProgramGrows
  <2>2. QED
    BY <2>1 DEF Count
<1>4. QED
  BY <1>1, <1>2, <1>3

(* What Begins does: the operation is the next of the program, which is    *)
(* legal and opens, closes or leaves the tags accordingly.                 *)
LEMMA BeginsProgram ==
  ASSUME ProgramInv, NEW p \in Proc, NEW op \in Ops, Begins(p, op)
  PROVE  /\ ProgramGrows /\ prog' \in Seq(Ops) /\ Len(prog') \in 0 .. MaxOps
         /\ pc[p] = "run"
         /\ at[p] \in Nat /\ at[p] + 1 \in 1 .. Len(prog') /\ prog'[at[p] + 1] = op
         /\ at' \in [Proc -> 0 .. MaxOps] /\ at'[p] = at[p] + 1
         /\ \A q \in Proc : q # p => at'[q] = at[q]
         /\ \A i \in 1 .. Len(prog') : LegalOp(i)'
<1>1. /\ prog \in Seq(Ops) /\ Len(prog) \in Nat /\ Len(prog) <= MaxOps
      /\ at \in [Proc -> 0 .. MaxOps] /\ at[p] <= Len(prog) /\ at[p] \in Nat
      /\ MaxOps \in Nat
  BY MaxOpsAssumption, LenProperties DEF ProgramInv, TypeOK, RankInProgram
<1>2. /\ pc[p] = "run" /\ at' = [at EXCEPT ![p] = @ + 1]
      /\ \/ at[p] < Len(prog) /\ op = prog[at[p] + 1] /\ prog' = prog
         \/ /\ at[p] = Len(prog) /\ Len(prog) < MaxOps
            /\ Legal(op) /\ prog' = Append(prog, op)
  BY DEF Begins
<1>3. CASE at[p] < Len(prog) /\ op = prog[at[p] + 1] /\ prog' = prog
  <2>1. ProgramGrows
    BY <1>1, <1>3 DEF ProgramGrows
  <2>2. \A i \in 1 .. Len(prog') : LegalOp(i)'
    BY <1>3 DEF LegalOp, ProgramInv, Open
  <2>3. QED
    BY <1>1, <1>2, <1>3, <2>1, <2>2
<1>4. CASE /\ at[p] = Len(prog) /\ Len(prog) < MaxOps
           /\ Legal(op) /\ prog' = Append(prog, op)
  <2>1. /\ prog' \in Seq(Ops) /\ Len(prog') = Len(prog) + 1
        /\ \A i \in 1 .. Len(prog) : prog'[i] = prog[i]
        /\ prog'[Len(prog) + 1] = op
    BY <1>1, <1>4, AppendProperties
  <2>2. ProgramGrows
    BY <1>1, <2>1 DEF ProgramGrows
  <2>3. ASSUME NEW i \in 1 .. Len(prog')
        PROVE  LegalOp(i)'
    <3>1. i - 1 \in 0 .. Len(prog) /\ (i \in 1 .. Len(prog) \/ i = Len(prog) + 1)
      BY <1>1, <2>1
    <3>2. Open(i - 1)' = Open(i - 1)
      BY <1>1, <2>2, <3>1, ProgramStable
    <3>3. CASE i \in 1 .. Len(prog)
      BY <2>1, <3>2, <3>3 DEF LegalOp, ProgramInv
    <3>4. CASE i = Len(prog) + 1
      <4>1. i - 1 = Len(prog)
        BY <1>1, <3>4
      <4>2. QED
        BY <1>4, <2>1, <3>2, <3>4, <4>1 DEF LegalOp, Legal
    <3>5. QED
      BY <3>1, <3>3, <3>4
  <2>4. QED
    BY <1>1, <1>2, <1>4, <2>1, <2>2, <2>3
<1>5. QED
  BY <1>2, <1>3, <1>4

(* Beginning an operation opens or closes its tag for the rank that begins *)
(* it, and for no other rank.                                              *)
LEMMA BeginsOpens ==
  ASSUME ProgramInv, NEW p \in Proc, NEW op \in Ops, Begins(p, op)
  PROVE  /\ \A i \in 0 .. Len(prog) : Open(i)' = Open(i)
         /\ \A q \in Proc : q # p => Open(at[q])' = Open(at[q])
         /\ \A t \in Tags : op = Async(t) => Open(at[p])' = Open(at[p]) \cup {t}
         /\ \A t \in Tags : op = Wait(t) =>
              t \in Open(at[p]) /\ Open(at[p])' = Open(at[p]) \ {t}
         /\ op = Filter => Open(at[p]) = {} /\ Open(at[p])' = {}
<1>1. /\ Len(prog) \in Nat /\ \A q \in Proc : at[q] \in 0 .. Len(prog)
  BY LenProperties DEF ProgramInv, TypeOK, RankInProgram
<1>2. /\ ProgramGrows /\ at[p] + 1 \in 1 .. Len(prog')
      /\ prog'[at[p] + 1] = op /\ at'[p] = at[p] + 1
      /\ \A q \in Proc : q # p => at'[q] = at[q]
      /\ \A i \in 1 .. Len(prog') : LegalOp(i)'
  BY BeginsProgram
<1>3. \A i \in 0 .. Len(prog) : Open(i)' = Open(i)
  BY <1>1, <1>2, ProgramStable
<1>4. ASSUME NEW q \in Proc, q # p
      PROVE  Open(at[q])' = Open(at[q])
  <2>1. PICK n \in 0 .. Len(prog) : n = at[q]
    BY <1>1
  <2>2. Open(at[q])' = Open(n)' /\ Open(at[q]) = Open(n)
    BY <1>2, <1>4, <2>1 DEF Open
  <2>3. QED
    BY <1>3, <2>1, <2>2
<1>5. PICK n \in 0 .. Len(prog) : n = at[p]
  BY <1>1
<1>6. /\ Open(n)' = Open(at[p]) /\ Open(at[p])' = Open(n + 1)'
      /\ prog'[n + 1] = op /\ n + 1 \in 1 .. Len(prog')
  <2>1. Open(at[p])' = Open(n + 1)'
    BY <1>2, <1>5 DEF Open
  <2>2. QED
    BY <1>2, <1>3, <1>5, <2>1
<1>7. OpenFollows(n)'
  BY OpenNextPrime DEF OpenFollowsProgram
<1>8. LegalOp(n + 1)'
  BY <1>2, <1>6
<1>9. /\ \A t \in Tags : op = Wait(t) => t \in Open(at[p])
      /\ op = Filter => Open(at[p]) = {}
  <2>1. Open(n + 1 - 1)' = Open(n)'
    BY <1>1, <1>5 DEF Open
  <2>2. QED
    BY <1>6, <1>8, <2>1 DEF LegalOp
<1>10. QED
  BY <1>3, <1>4, <1>6, <1>7, <1>9 DEF OpenFollows

(* Types.                                                                  *)

(* The initial state has the right types.                                  *)
LEMMA InitTypeOK == Init => TypeOK
  BY EntitiesAssumption, MaxOpsAssumption, EmptySeq DEF Init, TypeOK

(* What is put on the wire as the tag of a count: the bits of a Tag.       *)
LEMMA WireType ==
  ASSUME NEW t \in Tags, NEW n \in Nat
  PROVE  Wire(t, n) \in Nat \X Nat
  BY CountModAssumption, TagBitsAssumption DEF Wire

(* computeBufferSize stores numbers.                                       *)
LEMMA ComputeTypes ==
  ASSUME TypeOK, NEW p \in Proc, NEW t \in Tags, ComputeBufferSize(p, t)
  PROVE  /\ sizeKnown' \in [Proc -> [Tags -> BOOLEAN]]
         /\ sendSize' \in [Tags -> [Links -> Nat]] /\ recvSize' \in [Tags -> [Links -> Nat]]
<1>1. sizeKnown' \in [Proc -> [Tags -> BOOLEAN]]
  BY DEF TypeOK, ComputeBufferSize
<1>2. /\ [l \in Links |-> IF l \in Out(p) THEN sendLen[l] ELSE sendSize[t][l]] \in [Links -> Nat]
      /\ [l \in Links |-> IF l \in In(p) THEN recvLen[l] ELSE recvSize[t][l]] \in [Links -> Nat]
  <2>1. ASSUME NEW l \in Links
        PROVE  /\ sendLen[l] \in Nat /\ recvLen[l] \in Nat
               /\ sendSize[t][l] \in Nat /\ recvSize[t][l] \in Nat
    BY EntitiesAssumption DEF TypeOK
  <2>2. QED
    BY <2>1
<1>3. sendSize' \in [Tags -> [Links -> Nat]]
  BY <1>2 DEF TypeOK, ComputeBufferSize
<1>4. recvSize' \in [Tags -> [Links -> Nat]]
  BY <1>2 DEF TypeOK, ComputeBufferSize
<1>5. QED
  BY <1>1, <1>3, <1>4

(* Posting the receives of a tag keeps the requests and the posted         *)
(* receives of the right type.                                             *)
LEMMA PostRecvsTypes ==
  ASSUME TypeOK, NEW p \in Proc, NEW t \in Tags, NEW n \in Nat, PostRecvs(p, t, n),
         recvSize' \in [Tags -> [Links -> Nat]]
  PROVE  /\ request' \in [Tags -> [Links -> {"free", "active", "done"}]]
         /\ posted' \in [Links -> Seq(Receive)]
         /\ pendRecv' \in [Proc -> [Tags -> Nat]]
<1>1. request' \in [Tags -> [Links -> {"free", "active", "done"}]]
  BY DEF TypeOK, PostRecvs
<1>2. pendRecv' \in [Proc -> [Tags -> Nat]]
  BY LinksFinite DEF TypeOK, PostRecvs
<1>3. ASSUME NEW l \in Links
      PROVE  Append(posted[l], [wire |-> Wire(t, n), tag |-> t, size |-> recvSize'[t][l]])
               \in Seq(Receive)
  <2>1. recvSize'[t][l] \in Nat
    OBVIOUS
  <2>2. [wire |-> Wire(t, n), tag |-> t, size |-> recvSize'[t][l]] \in Receive
    BY <2>1, WireType DEF Receive
  <2>3. QED
    BY <2>2, AppendProperties DEF TypeOK
<1>4. posted' \in [Links -> Seq(Receive)]
  BY <1>3 DEF TypeOK, PostRecvs
<1>5. QED
  BY <1>1, <1>2, <1>4

(* Posting the sends of a tag keeps the buffers and the messages of the    *)
(* right type.                                                             *)
LEMMA PostSendsTypes ==
  ASSUME TypeOK, NEW p \in Proc, NEW t \in Tags, NEW n \in Nat, NEW buffered,
         PostSends(p, t, n, buffered),
         sendSize' \in [Tags -> [Links -> Nat]], at' \in [Proc -> 0 .. MaxOps]
  PROVE  /\ sendBuf' \in [Tags -> [Links -> Nat]]
         /\ sent' \in [Links -> Seq(Message)]
         /\ pendSend' \in [Proc -> [Tags -> Nat]]
<1>1. sendBuf' \in [Tags -> [Links -> Nat]]
  <2>1. at'[p] \in Nat
    BY MaxOpsAssumption
  <2>2. [l \in Links |-> IF l \in Out(p) THEN at'[p] ELSE sendBuf[t][l]] \in [Links -> Nat]
    BY <2>1 DEF TypeOK
  <2>3. QED
    BY <2>2 DEF TypeOK, PostSends
<1>2. pendSend' \in [Proc -> [Tags -> Nat]]
  BY LinksFinite DEF TypeOK, PostSends
<1>3. ASSUME NEW l \in Links
      PROVE  Append(sent[l], [wire |-> Wire(t, n), tag |-> t, value |-> at'[p],
                              size |-> sendSize'[t][l], buffered |-> l \in buffered])
               \in Seq(Message)
  <2>1. at'[p] \in Nat /\ sendSize'[t][l] \in Nat /\ (l \in buffered) \in BOOLEAN
    BY MaxOpsAssumption
  <2>2. [wire |-> Wire(t, n), tag |-> t, value |-> at'[p],
         size |-> sendSize'[t][l], buffered |-> l \in buffered] \in Message
    BY <2>1, WireType DEF Message
  <2>3. QED
    BY <2>2, AppendProperties DEF TypeOK
<1>4. sent' \in [Links -> Seq(Message)]
  BY <1>3 DEF TypeOK, PostSends
<1>5. QED
  BY <1>1, <1>2, <1>4

(* asynchronousSynchronize keeps every variable in its type.               *)
LEMMA AsynchronousSynchronizeTypes ==
  ASSUME ProgramInv, NEW p \in Proc, NEW t \in Tags, AsynchronousSynchronize(p, t)
  PROVE  TypeOK'
<1>1. /\ prog' \in Seq(Ops) /\ Len(prog') <= MaxOps /\ at' \in [Proc -> 0 .. MaxOps]
      /\ at'[p] \in 1 .. MaxOps
  BY BeginsProgram, OpsDistinct, MaxOpsAssumption DEF AsynchronousSynchronize
<1>2. TypeOK /\ ComputeBufferSize(p, t)
  BY DEF ProgramInv, AsynchronousSynchronize
<1>3. counter' \in [Proc -> [Tags -> Nat]] /\ counter'[p][t] \in Nat
  BY <1>2 DEF AsynchronousSynchronize, TypeOK
<1>4. /\ PostRecvs(p, t, counter'[p][t])
      /\ \E buffered \in SUBSET Out(p) : PostSends(p, t, counter'[p][t], buffered)
  BY DEF AsynchronousSynchronize
<1>5. published' \in [Proc -> [Tags -> Seq(1 .. MaxOps)]]
  <2>1. Append(published[p][t], at'[p]) \in Seq(1 .. MaxOps)
    BY <1>1, <1>2, AppendProperties DEF TypeOK
  <2>2. QED
    BY <2>1, <1>2 DEF AsynchronousSynchronize, TypeOK
<1>6. /\ sizeKnown' \in [Proc -> [Tags -> BOOLEAN]]
      /\ sendSize' \in [Tags -> [Links -> Nat]] /\ recvSize' \in [Tags -> [Links -> Nat]]
  BY <1>2, ComputeTypes
<1>7. QED
  BY <1>1, <1>2, <1>3, <1>4, <1>5, <1>6, PostRecvsTypes, PostSendsTypes
  DEF AsynchronousSynchronize, TypeOK, schemes

(* The asynchronousSynchronize that throws on pending requests does so     *)
(* too, although it has already counted and measured.                      *)
LEMMA AsynchronousSynchronizeThrowsTypes ==
  ASSUME ProgramInv, NEW p \in Proc, NEW t \in Tags, AsynchronousSynchronizeThrows(p, t)
  PROVE  TypeOK'
<1>1. /\ prog' \in Seq(Ops) /\ Len(prog') <= MaxOps /\ at' \in [Proc -> 0 .. MaxOps]
  BY BeginsProgram, OpsDistinct, MaxOpsAssumption DEF AsynchronousSynchronizeThrows
<1>2. TypeOK /\ ComputeBufferSize(p, t)
  BY DEF ProgramInv, AsynchronousSynchronizeThrows
<1>3. counter' \in [Proc -> [Tags -> Nat]] /\ counter'[p][t] \in Nat
  BY <1>2 DEF AsynchronousSynchronizeThrows, TypeOK
<1>4. /\ sizeKnown' \in [Proc -> [Tags -> BOOLEAN]]
      /\ sendSize' \in [Tags -> [Links -> Nat]] /\ recvSize' \in [Tags -> [Links -> Nat]]
  BY <1>2, ComputeTypes
<1>5. \/ UNCHANGED <<request, posted, pendRecv>>
      \/ PostRecvs(p, t, counter'[p][t])
  BY DEF AsynchronousSynchronizeThrows
<1>6. /\ request' \in [Tags -> [Links -> {"free", "active", "done"}]]
      /\ posted' \in [Links -> Seq(Receive)]
      /\ pendRecv' \in [Proc -> [Tags -> Nat]]
  <2>1. CASE UNCHANGED <<request, posted, pendRecv>>
    BY <2>1, <1>2 DEF TypeOK
  <2>2. CASE PostRecvs(p, t, counter'[p][t])
    BY <2>2, <1>2, <1>3, <1>4, PostRecvsTypes
  <2>3. QED
    BY <1>5, <2>1, <2>2
<1>7. QED
  BY <1>1, <1>2, <1>3, <1>4, <1>6 DEF AsynchronousSynchronizeThrows, TypeOK, schemes

(* The sequences of a link without the entries that are matched.           *)
LEMMA MatchTypes ==
  ASSUME TypeOK, NEW l \in Links, NEW i \in 1 .. Len(posted[l]), NEW j \in 1 .. Len(sent[l]),
         Match(l, i, j)
  PROVE  TypeOK'
<1>1. posted[l] \in Seq(Receive) /\ sent[l] \in Seq(Message)
  BY DEF TypeOK
<1>2. posted[l][i] \in Receive /\ sent[l][j] \in Message
  BY <1>1, ElementOfSeq
<1>3. RemoveAt(posted[l], i) \in Seq(Receive) /\ RemoveAt(sent[l], j) \in Seq(Message)
  BY <1>1, RemoveAtProperties
<1> DEFINE value == IF sent[l][j].buffered THEN sent[l][j].value
                    ELSE sendBuf[sent[l][j].tag][l]
           r == posted[l][i]
           m == sent[l][j]
<1>4. r.tag \in Tags /\ m.tag \in Tags /\ value \in Nat /\ m.size \in Nat /\ r.size \in Nat
  <2>1. /\ r.tag \in Tags /\ r.size \in Nat /\ m.tag \in Tags
        /\ m.value \in Nat /\ m.size \in Nat
    BY <1>2 DEF Receive, Message
  <2>2. sendBuf[m.tag][l] \in Nat
    BY <2>1 DEF TypeOK
  <2>3. QED
    BY <2>1, <2>2
<1>5. [tag |-> m.tag, value |-> value, size |-> m.size, room |-> r.size] \in Received
  BY <1>4 DEF Received
<1>6. /\ posted' = [posted EXCEPT ![l] = RemoveAt(@, i)]
      /\ sent' = [sent EXCEPT ![l] = RemoveAt(@, j)]
      /\ request' = [request EXCEPT ![r.tag][l] = "done"]
      /\ recvBuf' = [recvBuf EXCEPT ![r.tag][l] =
           [tag |-> m.tag, value |-> value, size |-> m.size, room |-> r.size]]
      /\ UNCHANGED <<prog, at, pc, schemes, comms, sendBuf, ghost, published, keep>>
  BY DEF Match
<1> HIDE DEF value, r, m
<1>7. request' \in [Tags -> [Links -> {"free", "active", "done"}]]
  BY <1>4, <1>6 DEF TypeOK
<1>8. recvBuf' \in [Tags -> [Links -> Received \cup {<<>>}]]
  BY <1>4, <1>5, <1>6 DEF TypeOK
<1>9. posted' \in [Links -> Seq(Receive)] /\ sent' \in [Links -> Seq(Message)]
  BY <1>3, <1>6 DEF TypeOK
<1>10. QED
  BY <1>6, <1>7, <1>8, <1>9 DEF TypeOK, schemes, comms

(* The requests of a rank that are not free can be counted, and the count  *)
(* is zero only when all of them are free: pendRecv counts them.           *)
LEMMA PendingFinite ==
  ASSUME NEW p, NEW t
  PROVE  /\ IsFiniteSet({l \in In(p) : request[t][l] # "free"})
         /\ Cardinality({l \in In(p) : request[t][l] # "free"}) \in Nat
         /\ Cardinality({l \in In(p) : request[t][l] # "free"}) = 0
              <=> \A l \in In(p) : request[t][l] = "free"
<1>1. {l \in In(p) : request[t][l] # "free"} \in SUBSET In(p)
  OBVIOUS
<1>2. IsFiniteSet({l \in In(p) : request[t][l] # "free"})
  BY <1>1, LinksFinite, FS_Subset
<1>3. {l \in In(p) : request[t][l] # "free"} = {} <=> \A l \in In(p) : request[t][l] = "free"
  OBVIOUS
<1>4. QED
  BY <1>2, <1>3, FS_CardinalityType, FS_EmptySet

(* Unpacking one completed receive keeps the types: pendRecv does not go   *)
(* below zero.                                                             *)
LEMMA UnpackTypes ==
  ASSUME ProgramInv, RequestInv, NEW p \in Proc, NEW t \in Tags, NEW l \in Links,
         Unpack(p, t, l)
  PROVE  TypeOK'
<1>1. TypeOK /\ l \in In(p) /\ request[t][l] = "done"
  BY DEF ProgramInv, Unpack
<1>2. pendRecv[p][t] \in Nat /\ pendRecv[p][t] # 0
  BY <1>1, PendingFinite DEF RequestInv, RequestsOf
<1>3. pendRecv[p][t] - 1 \in Nat
  BY <1>2
<1>4. pendRecv' \in [Proc -> [Tags -> Nat]]
  BY <1>1, <1>3 DEF TypeOK, Unpack, FreeRecv
<1>5. request' \in [Tags -> [Links -> {"free", "active", "done"}]]
  BY <1>1 DEF TypeOK, Unpack, FreeRecv
<1>6. ghost' \in [Tags -> [Links -> Nat]]
  <2>1. recvBuf[t][l] \in Received
    BY <1>1 DEF RequestInv, PostedOn
  <2>2. recvBuf[t][l].value \in Nat
    BY <2>1 DEF Received
  <2>3. QED
    BY <1>1, <2>2 DEF TypeOK, Unpack
<1>7. QED
  BY <1>1, <1>4, <1>5, <1>6 DEF TypeOK, Unpack, schemes, mpi

(* The end of the wait keeps the types, and frees the sends of the tag.    *)
LEMMA EndWaitTypes ==
  ASSUME ProgramInv, RequestInv, NEW p \in Proc, NEW t \in Tags, EndWait(p, t)
  PROVE  TypeOK' /\ pendSend' = [pendSend EXCEPT ![p][t] = 0]
<1>1. TypeOK /\ Waiting(p, t)
  BY DEF ProgramInv, EndWait
<1>2. pendSend[p][t] = Cardinality(Out(p)) /\ Cardinality(Out(p)) \in Nat
  BY <1>1, LinksFinite DEF RequestInv, RequestsOf, Busy
<1>3. pendSend' = [pendSend EXCEPT ![p][t] = 0]
  <2>1. pendSend[p][t] - Cardinality(Out(p)) = 0
    BY <1>2
  <2>2. pendSend' = [pendSend EXCEPT ![p][t] = pendSend[p][t] - Cardinality(Out(p))]
    BY DEF EndWait
  <2>3. QED
    BY <2>1, <2>2
<1>4. pendSend' \in [Proc -> [Tags -> Nat]]
  BY <1>1, <1>3 DEF TypeOK
<1>5. pc' \in [Proc -> {"run", "wait", "filter", "drain"}]
  BY <1>1 DEF EndWait, TypeOK
<1>6. QED
  BY <1>1, <1>3, <1>4, <1>5 DEF TypeOK, EndWait, schemes, mpi, data

(* Entering waitEndSynchronize keeps the types.                            *)
LEMMA BeginWaitTypes ==
  ASSUME ProgramInv, NEW p \in Proc, NEW t \in Tags, BeginWait(p, t)
  PROVE  TypeOK'
<1>1. prog' \in Seq(Ops) /\ Len(prog') <= MaxOps /\ at' \in [Proc -> 0 .. MaxOps]
  BY BeginsProgram, OpsDistinct, MaxOpsAssumption DEF BeginWait
<1>2. pc' \in [Proc -> {"run", "wait", "filter", "drain"}]
  BY DEF BeginWait, TypeOK, ProgramInv
<1>3. QED
  BY <1>1, <1>2 DEF TypeOK, ProgramInv, BeginWait, schemes, comms, data, mpi

(* Dropping entities from the receive schemes keeps the types.             *)
LEMMA FilterRecvTypes ==
  ASSUME ProgramInv, NEW p \in Proc, NEW kept \in [In(p) -> 0 .. Entities], FilterRecv(p, kept)
  PROVE  TypeOK'
<1>1. prog' \in Seq(Ops) /\ Len(prog') <= MaxOps /\ at' \in [Proc -> 0 .. MaxOps]
  <2>1. Filter \in Ops
    BY DEF Ops
  <2>2. QED
    BY <2>1, BeginsProgram, MaxOpsAssumption DEF FilterRecv
<1>2. pc' \in [Proc -> {"run", "wait", "filter", "drain"}]
  BY DEF FilterRecv, TypeOK, ProgramInv
<1>3. recvLen' \in [Links -> 0 .. Entities]
  BY DEF FilterRecv, TypeOK, ProgramInv
<1>4. keep' \in [Links -> Seq(0 .. Entities)]
  <2>1. \A l \in Links : l \in In(p) => Tell(l, kept[l]) \in Seq(0 .. Entities)
    BY AppendProperties DEF Tell, TypeOK, ProgramInv
  <2>2. QED
    BY <2>1 DEF FilterRecv, TypeOK, ProgramInv
<1>5. QED
  BY <1>1, <1>2, <1>3, <1>4 DEF TypeOK, ProgramInv, FilterRecv, comms, data

(* Taking the new lists over into the send schemes keeps the types.        *)
LEMMA FilterSendTypes ==
  ASSUME ProgramInv, NEW p \in Proc, FilterSend(p)
  PROVE  TypeOK'
<1>1. \A l \in Links : l \in Out(p) =>
        Head(keep[l]) \in 0 .. Entities /\ Tail(keep[l]) \in Seq(0 .. Entities)
  BY HeadTailProperties DEF FilterSend, TypeOK, ProgramInv
<1>2. pc' \in [Proc -> {"run", "wait", "filter", "drain"}]
  BY DEF FilterSend, TypeOK, ProgramInv
<1>3. sendLen' \in [Links -> 0 .. Entities]
  BY <1>1 DEF FilterSend, TypeOK, ProgramInv
<1>4. keep' \in [Links -> Seq(0 .. Entities)]
  BY <1>1 DEF FilterSend, TypeOK, ProgramInv
<1>5. QED
  BY <1>2, <1>3, <1>4 DEF TypeOK, ProgramInv, FilterSend, comms, data

(* The end of filterScheme, which forgets the sizes of every tag, keeps    *)
(* the types.                                                              *)
LEMMA FilterEndTypes ==
  ASSUME ProgramInv, NEW p \in Proc, FilterEnd(p)
  PROVE  TypeOK'
<1>1. pc' \in [Proc -> {"run", "wait", "filter", "drain"}]
  BY DEF FilterEnd, TypeOK, ProgramInv
<1>2. sizeKnown' \in [Proc -> [Tags -> BOOLEAN]]
  BY DEF FilterEnd, InvalidateSizes, TypeOK, ProgramInv
<1>3. QED
  BY <1>1, <1>2 DEF TypeOK, ProgramInv, FilterEnd, schemes, data, mpi

(* The steps of the specification, one by one.                             *)
Step ==
  \/ \E p \in Proc, t \in Tags : AsynchronousSynchronize(p, t)
  \/ \E p \in Proc, t \in Tags : AsynchronousSynchronizeThrows(p, t)
  \/ \E p \in Proc, t \in Tags : BeginWait(p, t)
  \/ \E p \in Proc, t \in Tags, l \in Links : Unpack(p, t, l)
  \/ \E p \in Proc, t \in Tags : EndWait(p, t)
  \/ \E p \in Proc : \E kept \in [In(p) -> 0 .. Entities] : FilterRecv(p, kept)
  \/ \E p \in Proc : FilterSend(p)
  \/ \E p \in Proc : FilterEnd(p)
  \/ \E l \in Links : \E i \in 1 .. Len(posted[l]), j \in 1 .. Len(sent[l]) : Match(l, i, j)
  \/ UNCHANGED vars

(* A step is an operation of one rank, a message that is matched, the      *)
(* quiet end of the program, or a stutter.                                 *)
LEMMA NextIsStep ==
  ASSUME ProgramInv, [Next]_vars
  PROVE  Step
<1>1. \A l \in Links : DOMAIN posted[l] = 1 .. Len(posted[l]) /\ DOMAIN sent[l] = 1 .. Len(sent[l])
  BY LenProperties DEF ProgramInv, TypeOK
<1>2. CASE \E p \in Proc : RankStep(p)
  BY <1>2 DEF RankStep, ListsReceived, Step
<1>3. CASE \E p \in Proc : ListsBuffered(p)
  BY <1>3 DEF ListsBuffered, Step
<1>4. CASE Matching
  BY <1>1, <1>4 DEF Matching, Step
<1>5. CASE Terminated \/ UNCHANGED vars
  BY <1>5 DEF Terminated, Step
<1>6. QED
  BY <1>2, <1>3, <1>4, <1>5 DEF Next

(* The ranks that do not move stay where they are in the program.          *)
LEMMA OthersInProgram ==
  ASSUME ProgramInv, ProgramGrows, Len(prog') \in Nat, NEW q \in Proc,
         at'[q] = at[q], pc'[q] = pc[q]
  PROVE  RankInProgram(q)'
<1>1. /\ at[q] \in Nat /\ at[q] <= Len(prog) /\ Len(prog) \in Nat /\ RankInProgram(q)
  BY MaxOpsAssumption, LenProperties DEF ProgramInv, TypeOK, RankInProgram
<1>2. at'[q] <= Len(prog') /\ (at[q] >= 1 => prog'[at[q]] = prog[at[q]])
  BY <1>1 DEF ProgramGrows
<1>3. QED
  BY <1>1, <1>2 DEF RankInProgram

(* A rank that begins an operation is in it afterwards.                    *)
LEMMA BeginsInProgram ==
  ASSUME ProgramInv, NEW p \in Proc, NEW op \in Ops, Begins(p, op), TypeOK',
         \A q \in Proc : q # p => pc'[q] = pc[q],
         pc'[p] = "wait" => \E t \in Tags : op = Wait(t),
         pc'[p] \in {"filter", "drain"} => op = Filter
  PROVE  ProgramInv'
<1>1. /\ ProgramGrows /\ Len(prog') \in Nat
      /\ at[p] \in Nat /\ at[p] + 1 <= Len(prog') /\ prog'[at[p] + 1] = op
      /\ at'[p] = at[p] + 1 /\ \A q \in Proc : q # p => at'[q] = at[q]
      /\ \A i \in 1 .. Len(prog') : LegalOp(i)'
  BY BeginsProgram
<1>2. RankInProgram(p)'
  BY <1>1 DEF RankInProgram
<1>3. \A q \in Proc : RankInProgram(q)'
  BY <1>1, <1>2, OthersInProgram
<1>4. QED
  BY <1>1, <1>3 DEF ProgramInv

(* A step that leaves the program and the places of the ranks alone leaves *)
(* the program legal.                                                      *)
LEMMA StaysInProgram ==
  ASSUME ProgramInv, TypeOK', UNCHANGED <<prog, at>>,
         \A q \in Proc : RankInProgram(q)'
  PROVE  ProgramInv'
  BY DEF ProgramInv, LegalOp, Open

(* No step takes a rank out of the program, or makes the program illegal.  *)
LEMMA ProgramStep ==
  ASSUME ProgramInv, RequestInv, Step
  PROVE  ProgramInv'
<1>0. TypeOK /\ \A q \in Proc : RankInProgram(q)
  BY DEF ProgramInv
<1>1. ASSUME NEW p \in Proc, NEW t \in Tags, AsynchronousSynchronize(p, t)
      PROVE  ProgramInv'
  <2>1. Begins(p, Async(t)) /\ pc' = pc /\ pc[p] = "run"
    BY <1>1 DEF AsynchronousSynchronize, Begins
  <2>2. QED
    BY <1>1, <2>1, AsynchronousSynchronizeTypes, BeginsInProgram, OpsDistinct
<1>2. ASSUME NEW p \in Proc, NEW t \in Tags, AsynchronousSynchronizeThrows(p, t)
      PROVE  ProgramInv'
  <2>1. Begins(p, Async(t)) /\ pc' = pc /\ pc[p] = "run"
    BY <1>2 DEF AsynchronousSynchronizeThrows, Begins
  <2>2. QED
    BY <1>2, <2>1, AsynchronousSynchronizeThrowsTypes, BeginsInProgram, OpsDistinct
<1>3. ASSUME NEW p \in Proc, NEW t \in Tags, BeginWait(p, t)
      PROVE  ProgramInv'
  <2>1. Begins(p, Wait(t)) /\ pc' = [pc EXCEPT ![p] = "wait"]
    BY <1>3 DEF BeginWait
  <2>2. pc'[p] = "wait" /\ \A q \in Proc : q # p => pc'[q] = pc[q]
    BY <1>0, <2>1 DEF TypeOK
  <2>3. QED
    BY <1>3, <2>1, <2>2, BeginWaitTypes, BeginsInProgram, OpsDistinct
<1>4. ASSUME NEW p \in Proc, NEW t \in Tags, NEW l \in Links, Unpack(p, t, l)
      PROVE  ProgramInv'
  <2>1. UNCHANGED <<prog, at, pc>>
    BY <1>4 DEF Unpack
  <2>2. QED
    BY <1>0, <1>4, <2>1, UnpackTypes, StaysInProgram DEF RankInProgram
<1>5. ASSUME NEW p \in Proc, NEW t \in Tags, EndWait(p, t)
      PROVE  ProgramInv'
  <2>1. UNCHANGED <<prog, at>> /\ pc' = [pc EXCEPT ![p] = "run"]
    BY <1>5 DEF EndWait
  <2>2. \A q \in Proc : RankInProgram(q)'
    BY <1>0, <2>1 DEF RankInProgram, TypeOK
  <2>3. QED
    BY <1>5, <2>1, <2>2, EndWaitTypes, StaysInProgram
<1>6. ASSUME NEW p \in Proc, NEW kept \in [In(p) -> 0 .. Entities], FilterRecv(p, kept)
      PROVE  ProgramInv'
  <2>1. Begins(p, Filter) /\ pc' = [pc EXCEPT ![p] = "filter"]
    BY <1>6 DEF FilterRecv
  <2>2. pc'[p] = "filter" /\ \A q \in Proc : q # p => pc'[q] = pc[q]
    BY <1>0, <2>1 DEF TypeOK
  <2>3. Filter \in Ops
    BY DEF Ops
  <2>4. QED
    BY <1>6, <2>1, <2>2, <2>3, FilterRecvTypes, BeginsInProgram
<1>7. ASSUME NEW p \in Proc, FilterSend(p)
      PROVE  ProgramInv'
  <2>1. UNCHANGED <<prog, at>> /\ pc[p] = "filter" /\ pc' = [pc EXCEPT ![p] = "drain"]
    BY <1>7 DEF FilterSend
  <2>2. \A q \in Proc : RankInProgram(q)'
    BY <1>0, <2>1 DEF RankInProgram, TypeOK
  <2>3. QED
    BY <1>7, <2>1, <2>2, FilterSendTypes, StaysInProgram
<1>8. ASSUME NEW p \in Proc, FilterEnd(p)
      PROVE  ProgramInv'
  <2>1. UNCHANGED <<prog, at>> /\ pc' = [pc EXCEPT ![p] = "run"]
    BY <1>8 DEF FilterEnd
  <2>2. \A q \in Proc : RankInProgram(q)'
    BY <1>0, <2>1 DEF RankInProgram, TypeOK
  <2>3. QED
    BY <1>8, <2>1, <2>2, FilterEndTypes, StaysInProgram
<1>9. ASSUME NEW l \in Links, NEW i \in 1 .. Len(posted[l]), NEW j \in 1 .. Len(sent[l]),
             Match(l, i, j)
      PROVE  ProgramInv'
  <2>1. UNCHANGED <<prog, at, pc>>
    BY <1>9 DEF Match
  <2>2. QED
    BY <1>0, <1>9, <2>1, MatchTypes, StaysInProgram DEF RankInProgram
<1>10. ASSUME UNCHANGED vars
       PROVE  ProgramInv'
  <2>1. UNCHANGED <<prog, at, pc>> /\ TypeOK'
    BY <1>0, <1>10 DEF vars, schemes, comms, data, mpi, TypeOK
  <2>2. QED
    BY <1>0, <2>1, StaysInProgram DEF RankInProgram
<1>11. QED
  BY <1>1, <1>2, <1>3, <1>4, <1>5, <1>6, <1>7, <1>8, <1>9, <1>10 DEF Step

-----------------------------------------------------------------------------
(* When a rank is busy.                                                    *)

(* A rank that waits for a tag has that tag closed in the program.         *)
LEMMA WaitCloses ==
  ASSUME ProgramInv, NEW p \in Proc, NEW t \in Tags, Waiting(p, t)
  PROVE  t \notin Open(at[p])
<1>0. at[p] \in Nat /\ at[p] >= 1 /\ RankInProgram(p)
  BY MaxOpsAssumption DEF ProgramInv, TypeOK, RankInProgram, Waiting
<1>1. PICK n \in Nat : at[p] = n + 1
  <2>1. at[p] - 1 \in Nat /\ at[p] = (at[p] - 1) + 1
    BY <1>0
  <2>2. QED
    BY <2>1
<1>2. prog[n + 1] = Wait(t)
  BY <1>1 DEF Waiting
<1>3. Open(n + 1) = Open(n) \ {t}
  BY <1>2, OpenNext DEF OpenFollowsProgram, OpenFollows
<1>4. QED
  BY <1>1, <1>3

(* A rank in filterScheme has no synchronization under way.                *)
LEMMA FilteringIsIdle ==
  ASSUME ProgramInv, NEW p \in Proc, NEW t \in Tags, pc[p] \in {"filter", "drain"}
  PROVE  ~Busy(p, t)
<1>0. at[p] \in Nat /\ at[p] >= 1 /\ RankInProgram(p)
  BY MaxOpsAssumption DEF ProgramInv, TypeOK, RankInProgram
<1>1. PICK n \in Nat : at[p] = n + 1
  <2>1. at[p] - 1 \in Nat /\ at[p] = (at[p] - 1) + 1
    BY <1>0
  <2>2. QED
    BY <2>1
<1>2. n + 1 \in 1 .. Len(prog) /\ n + 1 - 1 = n /\ prog[n + 1] = Filter
  BY <1>1, LenProperties DEF ProgramInv, TypeOK, RankInProgram
<1>3. Open(n) = {}
  BY <1>2 DEF ProgramInv, LegalOp
<1>4. Open(n + 1) = {}
  BY <1>2, <1>3, OpenNext DEF OpenFollowsProgram, OpenFollows
<1>5. QED
  BY <1>1, <1>4 DEF Busy, Waiting

(* Between two operations, what is under way is what the program says is   *)
(* open.                                                                   *)
LEMMA RunningIsOpen ==
  ASSUME NEW p \in Proc, NEW t \in Tags, pc[p] = "run"
  PROVE  Busy(p, t) <=> t \in Open(at[p])
  BY DEF Busy, Waiting

(* The operation one rank begins starts or ends nothing of another.        *)
LEMMA BusyBegins ==
  ASSUME ProgramInv, NEW p \in Proc, NEW op \in Ops, Begins(p, op),
         NEW q \in Proc, q # p, pc'[q] = pc[q], NEW t \in Tags
  PROVE  Busy(q, t)' <=> Busy(q, t)
<1>1. Open(at[q])' = Open(at[q])
  BY BeginsOpens
<1>2. Waiting(q, t)' <=> Waiting(q, t)
  <2>1. at'[q] = at[q] /\ at[q] \in Nat /\ at[q] <= Len(prog)
    <3>1. at'[q] = at[q]
      BY BeginsProgram
    <3>2. at[q] \in Nat /\ at[q] <= Len(prog)
      BY MaxOpsAssumption DEF ProgramInv, TypeOK, RankInProgram
    <3>3. QED
      BY <3>1, <3>2
  <2>2. pc[q] = "wait" => prog'[at[q]] = prog[at[q]]
    BY <2>1, BeginsProgram DEF ProgramGrows, ProgramInv, RankInProgram
  <2>3. QED
    BY <2>1, <2>2 DEF Waiting
<1>3. QED
  BY <1>1, <1>2 DEF Busy

(* asynchronousSynchronize starts its tag, and leaves the other tags of    *)
(* the rank as they were.                                                  *)
LEMMA BusyAsync ==
  ASSUME ProgramInv, NEW p \in Proc, NEW t \in Tags, Begins(p, Async(t)), pc' = pc
  PROVE  /\ Busy(p, t)' /\ Open(at[p])' = Open(at[p]) \cup {t}
         /\ \A u \in Tags : u # t => (Busy(p, u)' <=> Busy(p, u))
         /\ \A u \in Tags : Busy(p, u) <=> u \in Open(at[p])
<1>1. Open(at[p])' = Open(at[p]) \cup {t}
  BY BeginsOpens, OpsDistinct
<1>2. \A u \in Tags : ~Waiting(p, u) /\ ~Waiting(p, u)'
  BY DEF Waiting, Begins
<1>3. QED
  BY <1>1, <1>2 DEF Busy

(* Entering the wait closes the tag in the program; the synchronization is *)
(* still under way.                                                        *)
LEMMA BusyWait ==
  ASSUME ProgramInv, NEW p \in Proc, NEW t \in Tags, BeginWait(p, t)
  PROVE  /\ t \in Open(at[p]) /\ Open(at[p])' = Open(at[p]) \ {t}
         /\ \A u \in Tags : Busy(p, u)' <=> Busy(p, u)
         /\ \A u \in Tags : Waiting(p, u)' <=> u = t
<1>1. Begins(p, Wait(t)) /\ pc' = [pc EXCEPT ![p] = "wait"]
  BY DEF BeginWait
<1>2. t \in Open(at[p]) /\ Open(at[p])' = Open(at[p]) \ {t}
  BY <1>1, BeginsOpens, OpsDistinct
<1>3. pc'[p] = "wait" /\ prog'[at'[p]] = Wait(t)
  BY <1>1, BeginsProgram, OpsDistinct DEF ProgramInv, TypeOK
<1>4. \A u \in Tags : (Waiting(p, u)' <=> u = t) /\ ~Waiting(p, u)
  BY <1>1, <1>3, OpsDistinct DEF Waiting, Begins
<1>5. QED
  BY <1>2, <1>4 DEF Busy

(* filterScheme begins with no synchronization under way, and starts none. *)
LEMMA BusyFilter ==
  ASSUME ProgramInv, NEW p \in Proc, Begins(p, Filter), pc' = [pc EXCEPT ![p] = "filter"],
         NEW t \in Tags
  PROVE  ~Busy(p, t) /\ ~Busy(p, t)' /\ Open(at[p])' = {}
<1>1. Filter \in Ops
  BY DEF Ops
<1>2. Open(at[p]) = {} /\ Open(at[p])' = {}
  BY <1>1, BeginsOpens
<1>3. ~Waiting(p, t) /\ ~Waiting(p, t)'
  BY DEF Waiting, Begins, ProgramInv, TypeOK
<1>4. QED
  BY <1>2, <1>3 DEF Busy

(* A step inside an operation that neither enters nor leaves a wait starts *)
(* and ends nothing.                                                       *)
LEMMA BusySame ==
  ASSUME UNCHANGED <<prog, at>>, NEW q \in Proc, pc[q] = "wait" <=> pc'[q] = "wait"
  PROVE  /\ Open(at[q])' = Open(at[q])
         /\ \A t \in Tags : (Busy(q, t)' <=> Busy(q, t)) /\ (Waiting(q, t)' <=> Waiting(q, t))
<1>1. Open(at[q])' = Open(at[q])
  BY DEF Open
<1>2. \A t \in Tags : Waiting(q, t)' <=> Waiting(q, t)
  BY DEF Waiting
<1>3. QED
  BY <1>1, <1>2 DEF Busy

(* The end of the wait ends the synchronization of its tag, and no other.  *)
LEMMA BusyEndWait ==
  ASSUME ProgramInv, NEW p \in Proc, NEW t \in Tags, EndWait(p, t)
  PROVE  /\ Busy(p, t) /\ ~Busy(p, t)'
         /\ \A q \in Proc : Open(at[q])' = Open(at[q])
         /\ \A q \in Proc, u \in Tags : q # p \/ u # t => (Busy(q, u)' <=> Busy(q, u))
         /\ \A q \in Proc, u \in Tags : Waiting(q, u)' <=> Waiting(q, u) /\ q # p
<1>1. UNCHANGED <<prog, at>> /\ pc' = [pc EXCEPT ![p] = "run"] /\ Waiting(p, t)
  BY DEF EndWait
<1>2. \A q \in Proc : Open(at[q])' = Open(at[q])
  BY <1>1 DEF Open
<1>3. \A q \in Proc, u \in Tags : Waiting(q, u)' <=> Waiting(q, u) /\ q # p
  BY <1>1 DEF Waiting, ProgramInv, TypeOK
<1>4. \A u \in Tags : Waiting(p, u) => u = t
  BY <1>1, OpsDistinct DEF Waiting
<1>5. QED
  BY <1>1, <1>2, <1>3, <1>4, WaitCloses DEF Busy

-----------------------------------------------------------------------------
(* The requests.                                                           *)

(* A synchronization that starts finds all requests of its tag free ...    *)
LEMMA StartsFree ==
  ASSUME ProgramInv, RequestInv, NEW p \in Proc, NEW t \in Tags,
         AsynchronousSynchronize(p, t)
  PROVE  /\ \A l \in In(p) : request[t][l] = "free"
         /\ Linked(p) => t \notin Open(at[p])
<1>1. pendRecv[p][t] = 0 /\ pendSend[p][t] = 0 /\ RequestsOf(p, t)
  BY DEF AsynchronousSynchronize, RequestInv
<1>2. \A l \in In(p) : request[t][l] = "free"
  BY <1>1, PendingFinite DEF RequestsOf
<1>3. ASSUME Linked(p), t \in Open(at[p])
      PROVE  FALSE
  <2>1. In(p) = {}
    BY <1>1, <1>2, <1>3 DEF RequestsOf
  <2>2. Out(p) = {}
    BY <1>1, <1>3, LinksFinite DEF RequestsOf, Busy
  <2>3. QED
    BY <2>1, <2>2, <1>3 DEF Linked
<1>4. QED
  BY <1>2, <1>3

(* ... and one that throws has a predecessor under way and posts nothing.  *)
LEMMA ThrowsPostsNothing ==
  ASSUME ProgramInv, RequestInv, NEW p \in Proc, NEW t \in Tags,
         AsynchronousSynchronizeThrows(p, t)
  PROVE  t \in Open(at[p]) /\ UNCHANGED <<request, posted, pendRecv>> /\ Linked(p)
<1>1. TypeOK /\ RequestsOf(p, t) /\ pc[p] = "run"
  BY DEF ProgramInv, RequestInv, AsynchronousSynchronizeThrows, Begins
<1>2. CASE pendRecv[p][t] # 0 /\ UNCHANGED <<request, posted, pendRecv>>
  <2>1. ~\A l \in In(p) : request[t][l] = "free"
    BY <1>1, <1>2, PendingFinite DEF RequestsOf
  <2>2. QED
    BY <1>1, <1>2, <2>1, RunningIsOpen DEF RequestsOf, Linked
<1>3. CASE /\ pendRecv[p][t] = 0 /\ pendSend[p][t] # 0
           /\ PostRecvs(p, t, counter'[p][t])
  <2>1. t \in Open(at[p]) /\ Cardinality(Out(p)) # 0
    BY <1>1, <1>3, RunningIsOpen DEF RequestsOf
  <2>2. In(p) = {} /\ Out(p) # {}
    BY <1>1, <1>3, <2>1, PendingFinite, LinksFinite DEF RequestsOf
  <2>3. request' = request
    BY <1>1, <1>3, <2>2 DEF PostRecvs, TypeOK
  <2>4. posted' = posted
    BY <1>1, <1>3, <2>2 DEF PostRecvs, TypeOK
  <2>5. pendRecv' = pendRecv
    <3>1. Cardinality(In(p)) = 0 /\ pendRecv[p][t] + 0 = pendRecv[p][t]
      BY <1>3, <2>2, LinksFinite
    <3>2. QED
      BY <1>1, <1>3, <3>1 DEF PostRecvs, TypeOK
  <2>6. QED
    BY <2>1, <2>2, <2>3, <2>4, <2>5 DEF Linked
<1>4. QED
  BY <1>2, <1>3 DEF AsynchronousSynchronizeThrows

(* The counters of pending requests stay right when neither the requests   *)
(* nor what is under way change.                                           *)
LEMMA RequestsOfSame ==
  ASSUME NEW q \in Proc, NEW u \in Tags, RequestsOf(q, u),
         Busy(q, u)' <=> Busy(q, u), u \in Open(at[q])' => u \in Open(at[q]),
         pendSend'[q][u] = pendSend[q][u], pendRecv'[q][u] = pendRecv[q][u],
         \A l \in In(q) : request'[u][l] = "free" <=> request[u][l] = "free"
  PROVE  RequestsOf(q, u)'
<1>1. {l \in In(q) : request'[u][l] # "free"} = {l \in In(q) : request[u][l] # "free"}
  OBVIOUS
<1>2. In(q)' = In(q) /\ Out(q)' = Out(q)
  BY DEF In, Out
<1>3. QED
  BY <1>1, <1>2 DEF RequestsOf

(* The receives posted on a link stay those of its active requests when    *)
(* neither changes.                                                        *)
LEMMA PostedOnSame ==
  ASSUME NEW l \in Links, PostedOn(l), posted'[l] = posted[l], recvBuf' = recvBuf,
         \A t \in Tags : request'[t][l] = request[t][l],
         \A i \in 1 .. Len(posted[l]) : posted[l][i].tag \in Tags
  PROVE  PostedOn(l)'
  BY DEF PostedOn

(* A posted receive is one of a tag.                                       *)
LEMMA PostedTags ==
  ASSUME TypeOK, NEW l \in Links
  PROVE  /\ posted[l] \in Seq(Receive) /\ Len(posted[l]) \in Nat
         /\ \A i \in 1 .. Len(posted[l]) : posted[l][i].tag \in Tags /\ posted[l][i] \in Receive
<1>1. posted[l] \in Seq(Receive)
  BY DEF TypeOK
<1>2. \A i \in 1 .. Len(posted[l]) : posted[l][i] \in Receive
  BY <1>1, ElementOfSeq
<1>3. QED
  BY <1>1, <1>2, LenProperties DEF Receive

(* What MPI's matching of receive i with message j does on link l.         *)
MatchTag(l, i) == posted[l][i].tag
MatchValue(l, j) ==
  IF sent[l][j].buffered THEN sent[l][j].value ELSE sendBuf[sent[l][j].tag][l]

(* Request and sequences after the match, and what made it possible.       *)
Matched(l, i, j) ==
  /\ MatchTag(l, i) \in Tags /\ request[MatchTag(l, i)][l] = "active"
  /\ request' = [request EXCEPT ![MatchTag(l, i)][l] = "done"]
  /\ recvBuf'[MatchTag(l, i)][l] \in Received
  /\ recvBuf'[MatchTag(l, i)][l] =
       [tag |-> sent[l][j].tag, value |-> MatchValue(l, j),
        size |-> sent[l][j].size, room |-> posted[l][i].size]
  /\ \A k \in Links, t \in Tags : k # l \/ t # MatchTag(l, i) =>
       /\ recvBuf'[t][k] = recvBuf[t][k]
       /\ request'[t][k] = request[t][k]
  /\ request'[MatchTag(l, i)][l] = "done"
  /\ posted'[l] = RemoveAt(posted[l], i) /\ sent'[l] = RemoveAt(sent[l], j)
  /\ \A k \in Links : k # l => posted'[k] = posted[k] /\ sent'[k] = sent[k]
  /\ UNCHANGED <<prog, at, pc, schemes, comms, sendBuf, ghost, published, keep>>
  /\ posted[l][i].wire = sent[l][j].wire
  /\ \A k \in 1 .. (i - 1) : posted[l][k].wire # posted[l][i].wire
  /\ \A k \in 1 .. (j - 1) : sent[l][k].wire # sent[l][j].wire

(* What a matched receive and message do to the link: both leave it in the *)
(* order of the others, the request is done with the value of the message. *)
LEMMA MatchSteps ==
  ASSUME ProgramInv, RequestInv,
         NEW l \in Links, NEW i \in 1 .. Len(posted[l]), NEW j \in 1 .. Len(sent[l]),
         Match(l, i, j)
  PROVE  Matched(l, i, j)
<1>1. /\ TypeOK /\ MatchTag(l, i) \in Tags
      /\ posted[l][i] \in Receive
  BY PostedTags DEF ProgramInv, MatchTag
<1>2. sent[l][j] \in Message
  BY <1>1, ElementOfSeq DEF TypeOK
<1>3. /\ posted' = [posted EXCEPT ![l] = RemoveAt(@, i)]
      /\ sent' = [sent EXCEPT ![l] = RemoveAt(@, j)]
      /\ request' = [request EXCEPT ![MatchTag(l, i)][l] = "done"]
      /\ recvBuf' = [recvBuf EXCEPT ![MatchTag(l, i)][l] =
           [tag |-> sent[l][j].tag, value |-> MatchValue(l, j),
            size |-> sent[l][j].size, room |-> posted[l][i].size]]
      /\ UNCHANGED <<prog, at, pc, schemes, comms, sendBuf, ghost, published, keep>>
      /\ posted[l][i].wire = sent[l][j].wire
      /\ \A k \in 1 .. (i - 1) : posted[l][k].wire # posted[l][i].wire
      /\ \A k \in 1 .. (j - 1) : sent[l][k].wire # sent[l][j].wire
  BY DEF Match, MatchTag, MatchValue
<1>4. MatchValue(l, j) \in Nat
  <2>1. sent[l][j].value \in Nat /\ sent[l][j].tag \in Tags
    BY <1>2 DEF Message
  <2>2. sendBuf[sent[l][j].tag][l] \in Nat
    <3>1. sendBuf \in [Tags -> [Links -> Nat]]
      BY <1>1 DEF TypeOK
    <3>2. QED
      BY <2>1, <3>1
  <2>3. QED
    BY <2>1, <2>2 DEF MatchValue
<1>5. [tag |-> sent[l][j].tag, value |-> MatchValue(l, j),
       size |-> sent[l][j].size, room |-> posted[l][i].size] \in Received
  BY <1>1, <1>2, <1>4 DEF Received, Message, Receive
<1> DEFINE R == [tag |-> sent[l][j].tag, value |-> MatchValue(l, j),
                 size |-> sent[l][j].size, room |-> posted[l][i].size]
           T == MatchTag(l, i)
<1>6. /\ T \in Tags /\ recvBuf' = [recvBuf EXCEPT ![T][l] = R]
      /\ request' = [request EXCEPT ![T][l] = "done"]
  BY <1>1, <1>3
<1> HIDE DEF R, T
<1>7. /\ recvBuf'[T][l] = R /\ request'[T][l] = "done"
      /\ \A k \in Links, t \in Tags : k # l \/ t # T =>
           recvBuf'[t][k] = recvBuf[t][k] /\ request'[t][k] = request[t][k]
  BY <1>1, <1>6 DEF TypeOK
<1>8. /\ posted'[l] = RemoveAt(posted[l], i) /\ sent'[l] = RemoveAt(sent[l], j)
      /\ \A k \in Links : k # l => posted'[k] = posted[k] /\ sent'[k] = sent[k]
  BY <1>1, <1>3 DEF TypeOK
<1>9. request[MatchTag(l, i)][l] = "active"
  BY DEF RequestInv, PostedOn, MatchTag
<1>10. QED
  BY <1>1, <1>3, <1>5, <1>7, <1>8, <1>9 DEF R, T, Matched

(* asynchronousSynchronize posts one receive per link and frees none: the  *)
(* requests of the tag were all free, or it has thrown.                    *)
LEMMA AsyncRequests ==
  ASSUME ProgramInv, RequestInv, NEW p \in Proc, NEW t \in Tags,
         AsynchronousSynchronize(p, t)
  PROVE  RequestInv'
<1>1. /\ TypeOK /\ Begins(p, Async(t)) /\ Async(t) \in Ops /\ pc' = pc /\ recvBuf' = recvBuf
      /\ pendRecv[p][t] = 0 /\ pendSend[p][t] = 0
      /\ PostRecvs(p, t, counter'[p][t])
      /\ pendSend' = [pendSend EXCEPT ![p][t] = @ + Cardinality(Out(p))]
  BY OpsDistinct DEF ProgramInv, AsynchronousSynchronize, PostSends
<1>2. /\ request' = [request EXCEPT ![t] =
           [l \in Links |-> IF l \in In(p) THEN "active" ELSE @[l]]]
      /\ pendRecv' = [pendRecv EXCEPT ![p][t] = @ + Cardinality(In(p))]
  BY <1>1 DEF PostRecvs
<1>3. /\ \A l \in Links : request'[t][l] = IF l \in In(p) THEN "active" ELSE request[t][l]
      /\ \A u \in Tags, l \in Links : u # t => request'[u][l] = request[u][l]
  BY <1>1, <1>2 DEF TypeOK
<1>4. /\ pendRecv'[p][t] = Cardinality(In(p)) /\ pendSend'[p][t] = Cardinality(Out(p))
      /\ \A q \in Proc, u \in Tags : q # p \/ u # t =>
           pendRecv'[q][u] = pendRecv[q][u] /\ pendSend'[q][u] = pendSend[q][u]
  <2>1. /\ pendRecv[p][t] + Cardinality(In(p)) = Cardinality(In(p))
        /\ pendSend[p][t] + Cardinality(Out(p)) = Cardinality(Out(p))
    <3>1. Cardinality(In(p)) \in Nat /\ Cardinality(Out(p)) \in Nat
      BY LinksFinite
    <3>2. QED
      BY <1>1, <3>1
  <2>2. /\ pendRecv' = [pendRecv EXCEPT ![p][t] = Cardinality(In(p))]
        /\ pendSend' = [pendSend EXCEPT ![p][t] = Cardinality(Out(p))]
    BY <1>1, <1>2, <2>1
  <2>3. pendRecv \in [Proc -> [Tags -> Nat]] /\ pendSend \in [Proc -> [Tags -> Nat]]
    BY <1>1 DEF TypeOK
  <2>4. QED
    BY <2>2, <2>3
<1>5. /\ \A l \in In(p) : l \in Links /\ request[t][l] = "free"
      /\ \A q \in Proc : q # p => \A l \in In(q) : l \in Links /\ l \notin In(p)
  BY StartsFree DEF In
<1>6. ASSUME NEW q \in Proc, NEW u \in Tags
      PROVE  RequestsOf(q, u)'
  <2>1. CASE q = p /\ u = t
    <3>1. {l \in In(p) : request'[t][l] # "free"} = In(p)
      BY <1>3, <1>5
    <3>2. In(p)' = In(p) /\ Out(p)' = Out(p)
      BY DEF In, Out
    <3>3. Busy(p, t)'
      BY <1>1, BusyAsync
    <3>4. \A l \in In(p) : request'[t][l] # "free"
      BY <1>3, <1>5
    <3>5. QED
      BY <2>1, <3>1, <3>2, <3>3, <3>4, <1>4 DEF RequestsOf
  <2>2. CASE q = p /\ u # t
    <3>1. (Busy(q, u)' <=> Busy(q, u)) /\ (u \in Open(at[q])' => u \in Open(at[q]))
      BY <1>1, <2>2, BusyAsync
    <3>2. \A l \in In(q) : request'[u][l] = "free" <=> request[u][l] = "free"
      BY <1>3, <1>5, <2>2
    <3>3. QED
      BY <1>4, <2>2, <3>1, <3>2, RequestsOfSame DEF RequestInv
  <2>3. CASE q # p
    <3>1. (Busy(q, u)' <=> Busy(q, u)) /\ (u \in Open(at[q])' => u \in Open(at[q]))
      BY <1>1, <2>3, BusyBegins, BeginsOpens
    <3>2. \A l \in In(q) : request'[u][l] = "free" <=> request[u][l] = "free"
      BY <1>3, <1>5, <2>3
    <3>3. QED
      BY <1>4, <2>3, <3>1, <3>2, RequestsOfSame DEF RequestInv
  <2>4. QED
    BY <2>1, <2>2, <2>3
<1>7. ASSUME NEW l \in Links
      PROVE  PostedOn(l)'
  <2>0. /\ PostedOn(l) /\ \A i \in 1 .. Len(posted[l]) : posted[l][i].tag \in Tags
        /\ posted[l] \in Seq(Receive) /\ Len(posted[l]) \in Nat
    BY <1>1, PostedTags DEF RequestInv
  <2>1. CASE l \notin In(p)
    <3>1. posted'[l] = posted[l]
      BY <1>1, <2>1 DEF PostRecvs
    <3>2. \A u \in Tags : request'[u][l] = request[u][l]
      BY <1>3, <2>1
    <3>3. QED
      BY <1>1, <2>0, <3>1, <3>2, PostedOnSame
  <2>2. CASE l \in In(p)
    <3> DEFINE r == [wire |-> Wire(t, counter'[p][t]), tag |-> t, size |-> recvSize'[t][l]]
               n == Len(posted[l])
    <3>1. posted'[l] = Append(posted[l], r) /\ r.tag = t
      BY <1>1, <2>2 DEF PostRecvs
    <3> HIDE DEF r
    <3>2. posted[l] \in Seq(Receive \cup {r}) /\ r \in Receive \cup {r}
      BY <2>0, SeqMonotonic
    <3>3. /\ Len(posted'[l]) = n + 1 /\ posted'[l][n + 1] = r
          /\ \A i \in 1 .. n : posted'[l][i] = posted[l][i]
      BY <3>1, <3>2, AppendProperties
    <3>4. \A i \in 1 .. n : posted[l][i].tag # t
      BY <1>5, <2>0, <2>2 DEF PostedOn
    <3>5. \A i \in 1 .. (n + 1) : i \in 1 .. n \/ i = n + 1
      BY <2>0
    <3>6. \A i \in 1 .. (n + 1) : request'[posted'[l][i].tag][l] = "active"
      <4>1. ASSUME NEW i \in 1 .. n
            PROVE  request'[posted'[l][i].tag][l] = "active"
        <5>1. posted'[l][i].tag \in Tags /\ posted'[l][i].tag # t
          BY <2>0, <3>3, <3>4
        <5>2. request[posted[l][i].tag][l] = "active"
          BY <2>0 DEF PostedOn
        <5>3. posted'[l][i].tag = posted[l][i].tag
          BY <3>3
        <5>4. QED
          BY <1>3, <5>1, <5>2, <5>3
      <4>2. request'[posted'[l][n + 1].tag][l] = "active"
        BY <1>3, <2>2, <3>1, <3>3
      <4>3. QED
        BY <3>5, <4>1, <4>2
    <3>7. \A u \in Tags : request'[u][l] = "active" =>
            \E i \in 1 .. (n + 1) : posted'[l][i].tag = u
      <4>1. ASSUME NEW u \in Tags, request'[u][l] = "active"
            PROVE  \E i \in 1 .. (n + 1) : posted'[l][i].tag = u
        <5>1. CASE u = t
          BY <5>1, <2>0, <3>1, <3>3
        <5>2. CASE u # t
          <6>1. PICK i \in 1 .. n : posted[l][i].tag = u
            BY <1>3, <2>0, <4>1, <5>2 DEF PostedOn
          <6>2. i \in 1 .. (n + 1)
            BY <2>0
          <6>3. QED
            BY <3>3, <6>1, <6>2
        <5>3. QED
          BY <5>1, <5>2
      <4>2. QED
        BY <4>1
    <3>8. \A u \in Tags : request'[u][l] = "done" => recvBuf'[u][l] \in Received
      BY <1>1, <1>3, <2>0, <2>2 DEF PostedOn
    <3>9. \A i, j \in 1 .. (n + 1) : i < j => posted'[l][i].tag # posted'[l][j].tag
      <4>1. ASSUME NEW i \in 1 .. (n + 1), NEW j \in 1 .. (n + 1), i < j
            PROVE  posted'[l][i].tag # posted'[l][j].tag
        <5>1. i \in 1 .. n /\ (j \in 1 .. n \/ j = n + 1)
          BY <2>0, <4>1
        <5>2. CASE j \in 1 .. n
          <6>1. posted[l][i].tag # posted[l][j].tag
            BY <2>0, <4>1, <5>1, <5>2 DEF PostedOn
          <6>2. QED
            BY <3>3, <5>1, <5>2, <6>1
        <5>3. CASE j = n + 1
          BY <3>1, <3>3, <3>4, <5>1, <5>3
        <5>4. QED
          BY <5>1, <5>2, <5>3
      <4>2. QED
        BY <4>1
    <3>10. QED
      BY <3>3, <3>6, <3>7, <3>8, <3>9 DEF PostedOn
  <2>3. QED
    BY <2>1, <2>2
<1>8. QED
  BY <1>6, <1>7 DEF RequestInv

(* A matched receive is done and no longer posted; no two receives of a    *)
(* link have the same tag.                                                 *)
LEMMA MatchRequests ==
  ASSUME ProgramInv, RequestInv,
         NEW l \in Links, NEW i \in 1 .. Len(posted[l]), NEW j \in 1 .. Len(sent[l]),
         Match(l, i, j)
  PROVE  RequestInv'
<1> DEFINE T == MatchTag(l, i)
<1>0. Matched(l, i, j)
  BY MatchSteps
<1>1. /\ T \in Tags /\ request[T][l] = "active" /\ request'[T][l] = "done"
      /\ recvBuf'[T][l] \in Received
      /\ \A k \in Links, t \in Tags : k # l \/ t # T =>
           recvBuf'[t][k] = recvBuf[t][k] /\ request'[t][k] = request[t][k]
      /\ posted'[l] = RemoveAt(posted[l], i)
      /\ \A k \in Links : k # l => posted'[k] = posted[k]
      /\ UNCHANGED <<prog, at, pc, pendSend, pendRecv>>
  BY <1>0 DEF Matched, comms
<1>2. TypeOK /\ T = posted[l][i].tag
  BY DEF ProgramInv, MatchTag
<1> HIDE DEF T
<1>3. ASSUME NEW q \in Proc, NEW u \in Tags
      PROVE  RequestsOf(q, u)'
  <2>1. \A k \in In(q) : request'[u][k] = "free" <=> request[u][k] = "free"
    BY <1>1 DEF In
  <2>2. (Busy(q, u)' <=> Busy(q, u)) /\ (u \in Open(at[q])' => u \in Open(at[q]))
    BY <1>1, BusySame
  <2>3. QED
    BY <1>1, <2>1, <2>2, RequestsOfSame DEF RequestInv
<1>4. ASSUME NEW k \in Links
      PROVE  PostedOn(k)'
  <2>0. PostedOn(k) /\ \A n \in 1 .. Len(posted[k]) : posted[k][n].tag \in Tags
    BY <1>2, PostedTags DEF RequestInv
  <2>1. CASE k # l
    <3>1. /\ posted'[k] = posted[k]
          /\ \A t \in Tags : request'[t][k] = request[t][k] /\ recvBuf'[t][k] = recvBuf[t][k]
      BY <1>1, <2>1
    <3>2. PICK s : s = posted[k]
      OBVIOUS
    <3>3. posted'[k] = s /\ \A n \in 1 .. Len(s) : s[n].tag \in Tags
      BY <2>0, <3>1, <3>2
    <3>4. /\ \A n \in 1 .. Len(s) : request[s[n].tag][k] = "active"
          /\ \A t \in Tags : request[t][k] = "active" => \E n \in 1 .. Len(s) : s[n].tag = t
          /\ \A t \in Tags : request[t][k] = "done" => recvBuf[t][k] \in Received
          /\ \A m, n \in 1 .. Len(s) : m < n => s[m].tag # s[n].tag
      BY <2>0, <3>2 DEF PostedOn
    <3>5. /\ \A n \in 1 .. Len(s) : request'[s[n].tag][k] = "active"
          /\ \A t \in Tags : request'[t][k] = "active" => \E n \in 1 .. Len(s) : s[n].tag = t
      <4>1. \A n \in 1 .. Len(s) : request'[s[n].tag][k] = request[s[n].tag][k]
        BY <3>1, <3>3
      <4>2. \A t \in Tags : request'[t][k] = request[t][k]
        BY <3>1
      <4>3. \A t \in Tags : request'[t][k] = "active" => \E n \in 1 .. Len(s) : s[n].tag = t
        BY <3>4, <4>2
      <4>4. QED
        BY <3>4, <4>1, <4>3
    <3>6. \A t \in Tags : request'[t][k] = "done" => recvBuf'[t][k] \in Received
      BY <3>1, <3>4
    <3>7. QED
      BY <3>3, <3>4, <3>5, <3>6 DEF PostedOn
  <2>2. CASE k = l
    <3> DEFINE s == posted[l]
               r == RemoveAt(posted[l], i)
    <3>1. /\ \A m \in 1 .. Len(r) : \E n \in 1 .. Len(s) : n # i /\ r[m] = s[n]
          /\ \A n \in 1 .. Len(s) : n # i => \E m \in 1 .. Len(r) : r[m] = s[n]
          /\ \A a, b \in 1 .. Len(r) : a < b =>
               \E m, n \in 1 .. Len(s) : m < n /\ r[a] = s[m] /\ r[b] = s[n]
      <4>1. s \in Seq(Receive) /\ i \in 1 .. Len(s)
        BY <1>2, PostedTags
      <4>2. Dropped(s, r, i)
        BY <4>1, RemoveAtKeeps
      <4>3. QED
        BY <4>2 DEF Dropped
    <3>2. /\ \A n \in 1 .. Len(s) : s[n].tag \in Tags /\ request[s[n].tag][l] = "active"
          /\ \A m, n \in 1 .. Len(s) : m < n => s[m].tag # s[n].tag
          /\ \A t \in Tags : request[t][l] = "active" => \E n \in 1 .. Len(s) : s[n].tag = t
          /\ s[i].tag = T /\ Len(s) \in Nat
          /\ posted'[l] = r
      BY <1>1, <1>2, <2>0, <2>2, PostedTags DEF PostedOn
    <3> HIDE DEF s, r
    <3>3. \A n \in 1 .. Len(s) : n # i => s[n].tag # T
      <4>1. i \in 1 .. Len(s)
        BY DEF s
      <4>2. \A n \in 1 .. Len(s) : n # i => n < i \/ i < n
        BY <3>2, <4>1
      <4>3. QED
        BY <3>2, <4>1, <4>2
    <3>4. \A m \in 1 .. Len(r) : request'[r[m].tag][l] = "active"
      <4>1. ASSUME NEW m \in 1 .. Len(r)
            PROVE  request'[r[m].tag][l] = "active"
        <5>1. PICK n \in 1 .. Len(s) : n # i /\ r[m] = s[n]
          BY <3>1
        <5>2. s[n].tag \in Tags /\ s[n].tag # T /\ request[s[n].tag][l] = "active"
          BY <3>2, <3>3, <5>1
        <5>3. QED
          BY <1>1, <5>1, <5>2
      <4>2. QED
        BY <4>1
    <3>5. \A t \in Tags : request'[t][l] = "active" => \E m \in 1 .. Len(r) : r[m].tag = t
      <4>1. ASSUME NEW t \in Tags, request'[t][l] = "active"
            PROVE  \E m \in 1 .. Len(r) : r[m].tag = t
        <5>1. t # T /\ request[t][l] = "active"
          BY <1>1, <4>1
        <5>2. PICK n \in 1 .. Len(s) : s[n].tag = t
          BY <3>2, <5>1
        <5>3. n # i
          BY <3>2, <5>1, <5>2
        <5>4. QED
          BY <3>1, <5>2, <5>3
      <4>2. QED
        BY <4>1
    <3>6. \A t \in Tags : request'[t][l] = "done" => recvBuf'[t][l] \in Received
      BY <1>1, <2>0, <2>2 DEF PostedOn
    <3>7. \A a, b \in 1 .. Len(r) : a < b => r[a].tag # r[b].tag
      <4>1. ASSUME NEW a \in 1 .. Len(r), NEW b \in 1 .. Len(r), a < b
            PROVE  r[a].tag # r[b].tag
        <5>1. PICK m \in 1 .. Len(s), n \in 1 .. Len(s) : m < n /\ r[a] = s[m] /\ r[b] = s[n]
          BY <3>1, <4>1
        <5>2. QED
          BY <3>2, <5>1
      <4>2. QED
        BY <4>1
    <3>8. QED
      BY <2>2, <3>2, <3>4, <3>5, <3>6, <3>7 DEF PostedOn
  <2>3. QED
    BY <2>1, <2>2
<1>5. QED
  BY <1>3, <1>4 DEF RequestInv

(* Unpacking frees one request and takes it off the count.                 *)
LEMMA UnpackRequests ==
  ASSUME ProgramInv, RequestInv, NEW p \in Proc, NEW t \in Tags, NEW l \in Links,
         Unpack(p, t, l)
  PROVE  RequestInv'
<1>1. /\ TypeOK /\ Waiting(p, t) /\ l \in In(p) /\ request[t][l] = "done"
      /\ request' = [request EXCEPT ![t][l] = "free"]
      /\ pendRecv' = [pendRecv EXCEPT ![p][t] = @ - 1]
      /\ UNCHANGED <<prog, at, pc, pendSend, posted, recvBuf>>
  BY DEF ProgramInv, Unpack, FreeRecv, mpi
<1>2. /\ request'[t][l] = "free"
      /\ \A u \in Tags, k \in Links : u # t \/ k # l => request'[u][k] = request[u][k]
      /\ pendRecv'[p][t] = pendRecv[p][t] - 1
      /\ \A q \in Proc, u \in Tags : q # p \/ u # t => pendRecv'[q][u] = pendRecv[q][u]
  BY <1>1 DEF TypeOK
<1>3. \A q \in Proc, u \in Tags :
        (Busy(q, u)' <=> Busy(q, u)) /\ (u \in Open(at[q])' <=> u \in Open(at[q]))
  BY <1>1, BusySame
<1>4. ASSUME NEW q \in Proc, NEW u \in Tags
      PROVE  RequestsOf(q, u)'
  <2>1. CASE q = p /\ u = t
    <3> DEFINE S == {k \in In(p) : request[t][k] # "free"}
               S2 == {k \in In(p) : request'[t][k] # "free"}
    <3>1. S2 = S \ {l} /\ l \in S
      BY <1>1, <1>2 DEF In
    <3>2. IsFiniteSet(S) /\ pendRecv[p][t] = Cardinality(S)
      <4>1. RequestsOf(p, t)
        BY DEF RequestInv
      <4>2. QED
        BY <4>1, PendingFinite DEF RequestsOf
    <3> HIDE DEF S, S2
    <3>3. Cardinality(S2) = Cardinality(S) - 1
      BY <3>1, <3>2, FS_RemoveElement
    <3>4. pendRecv'[p][t] = Cardinality(S2)
      BY <1>2, <3>2, <3>3
    <3>5. t \notin Open(at[p]) /\ Busy(p, t) /\ RequestsOf(p, t)
      BY <1>1, WaitCloses DEF Busy, RequestInv
    <3>6. In(p)' = In(p) /\ Out(p)' = Out(p)
      BY DEF In, Out
    <3>7. QED
      BY <1>1, <1>3, <2>1, <3>4, <3>5, <3>6 DEF RequestsOf, S2
  <2>2. CASE q # p \/ u # t
    <3>1. \A k \in In(q) : request'[u][k] = "free" <=> request[u][k] = "free"
      BY <1>1, <1>2, <2>2 DEF In
    <3>2. QED
      BY <1>1, <1>2, <1>3, <2>2, <3>1, RequestsOfSame DEF RequestInv
  <2>3. QED
    BY <2>1, <2>2
<1>5. ASSUME NEW k \in Links
      PROVE  PostedOn(k)'
  <2>1. PostedOn(k) /\ \A n \in 1 .. Len(posted[k]) : posted[k][n].tag \in Tags
    BY <1>1, PostedTags DEF RequestInv
  <2>2. \A n \in 1 .. Len(posted[k]) : request'[posted[k][n].tag][k] = "active"
    BY <1>1, <1>2, <2>1 DEF PostedOn
  <2>3. \A u \in Tags : request'[u][k] = "active" => request[u][k] = "active"
    BY <1>2
  <2>4. \A u \in Tags : request'[u][k] = "done" => request[u][k] = "done"
    BY <1>2
  <2>5. QED
    BY <1>1, <2>1, <2>2, <2>3, <2>4 DEF PostedOn
<1>6. QED
  BY <1>4, <1>5 DEF RequestInv

(* The wait only ends when every receive is free, and then frees every     *)
(* send: nothing is lost, nothing stays counted.                           *)
LEMMA EndWaitRequests ==
  ASSUME ProgramInv, RequestInv, NEW p \in Proc, NEW t \in Tags, EndWait(p, t)
  PROVE  RequestInv'
<1>1. /\ TypeOK /\ \A l \in In(p) : request[t][l] = "free"
      /\ UNCHANGED <<prog, at, pendRecv, request, posted, recvBuf>>
  BY DEF ProgramInv, EndWait, AllUnpacked, data, mpi
<1>2. /\ pendSend'[p][t] = 0
      /\ \A q \in Proc, u \in Tags : q # p \/ u # t => pendSend'[q][u] = pendSend[q][u]
  <2>1. pendSend' = [pendSend EXCEPT ![p][t] = 0]
    BY EndWaitTypes
  <2>2. QED
    BY <1>1, <2>1 DEF TypeOK
<1>3. /\ ~Busy(p, t)' /\ \A q \in Proc : Open(at[q])' = Open(at[q])
      /\ \A q \in Proc, u \in Tags : q # p \/ u # t => (Busy(q, u)' <=> Busy(q, u))
  BY BusyEndWait
<1>4. ASSUME NEW q \in Proc, NEW u \in Tags
      PROVE  RequestsOf(q, u)'
  <2>1. CASE q = p /\ u = t
    <3>1. t \notin Open(at[p])'
      BY <1>3 DEF Busy
    <3>2. In(p)' = In(p) /\ Out(p)' = Out(p) /\ RequestsOf(p, t)
      BY DEF In, Out, RequestInv
    <3>3. QED
      BY <1>1, <1>2, <1>3, <2>1, <3>1, <3>2 DEF RequestsOf
  <2>2. CASE q # p \/ u # t
    BY <1>1, <1>2, <1>3, <2>2, RequestsOfSame DEF RequestInv
  <2>3. QED
    BY <2>1, <2>2
<1>5. \A l \in Links : PostedOn(l)'
  BY <1>1 DEF PostedOn, RequestInv
<1>6. QED
  BY <1>4, <1>5 DEF RequestInv

(* The steps that leave requests alone, while nobody's business changes.   *)
LEMMA OtherRequests ==
  ASSUME RequestInv, UNCHANGED <<pendSend, pendRecv, request, posted, recvBuf>>,
         \A q \in Proc, u \in Tags :
           (Busy(q, u)' <=> Busy(q, u)) /\ (u \in Open(at[q])' => u \in Open(at[q]))
  PROVE  RequestInv'
<1>1. \A q \in Proc, u \in Tags : RequestsOf(q, u)'
  BY RequestsOfSame DEF RequestInv
<1>2. \A l \in Links : PostedOn(l)'
  BY DEF PostedOn, RequestInv
<1>3. QED
  BY <1>1, <1>2 DEF RequestInv

(* What the steps that are no synchronization do to Busy and Open.         *)
LEMMA ThrowsBusy ==
  ASSUME ProgramInv, RequestInv, NEW p \in Proc, NEW t \in Tags,
         AsynchronousSynchronizeThrows(p, t), NEW q \in Proc, NEW u \in Tags
  PROVE  (Busy(q, u)' <=> Busy(q, u)) /\ Open(at[q])' = Open(at[q])
<1>1. Begins(p, Async(t)) /\ Async(t) \in Ops /\ pc' = pc /\ t \in Open(at[p])
  BY ThrowsPostsNothing, OpsDistinct DEF AsynchronousSynchronizeThrows
<1>2. CASE q = p
  <2>0. Open(at[p])' = Open(at[p]) \cup {t} /\ Busy(p, t) /\ Busy(p, t)'
    BY <1>1, BusyAsync
  <2>1. Open(at[p])' = Open(at[p]) /\ Busy(p, t) /\ Busy(p, t)'
    BY <1>1, <2>0
  <2>2. u # t => (Busy(p, u)' <=> Busy(p, u))
    BY <1>1, BusyAsync
  <2>3. QED
    BY <1>2, <2>1, <2>2
<1>3. CASE q # p
  BY <1>1, <1>3, BusyBegins, BeginsOpens
<1>4. QED
  BY <1>2, <1>3

(* What is under way anywhere is not changed by entering a wait.           *)
LEMMA BeginWaitBusy ==
  ASSUME ProgramInv, NEW p \in Proc, NEW t \in Tags, BeginWait(p, t),
         NEW q \in Proc, NEW u \in Tags
  PROVE  /\ Busy(q, u)' <=> Busy(q, u)
         /\ u \in Open(at[q])' => u \in Open(at[q])
         /\ q # p => pc'[q] = pc[q]
<1>1. Begins(p, Wait(t)) /\ Wait(t) \in Ops /\ pc' = [pc EXCEPT ![p] = "wait"]
  BY OpsDistinct DEF BeginWait
<1>2. q # p => pc'[q] = pc[q]
  BY <1>1 DEF ProgramInv, TypeOK
<1>3. CASE q = p
  BY <1>2, <1>3, BusyWait
<1>4. CASE q # p
  BY <1>1, <1>2, <1>4, BusyBegins, BeginsOpens
<1>5. QED
  BY <1>2, <1>3, <1>4

(* What is under way anywhere is not changed by entering filterScheme.     *)
LEMMA FilterRecvBusy ==
  ASSUME ProgramInv, NEW p \in Proc, NEW kept, FilterRecv(p, kept),
         NEW q \in Proc, NEW u \in Tags
  PROVE  /\ Busy(q, u)' <=> Busy(q, u)
         /\ Open(at[q])' = Open(at[q])
         /\ q # p => pc'[q] = pc[q]
         /\ pc'[p] = "filter" /\ ~Busy(p, u)
<1>1. Begins(p, Filter) /\ Filter \in Ops /\ pc' = [pc EXCEPT ![p] = "filter"]
  BY DEF FilterRecv, Ops
<1>2. (q # p => pc'[q] = pc[q]) /\ pc'[p] = "filter"
  BY <1>1 DEF ProgramInv, TypeOK
<1>3. ~Busy(p, u) /\ ~Busy(p, u)' /\ Open(at[p])' = Open(at[p])
  BY <1>1, BusyFilter, BeginsOpens
<1>4. q # p => (Busy(q, u)' <=> Busy(q, u)) /\ Open(at[q])' = Open(at[q])
  BY <1>1, <1>2, BusyBegins, BeginsOpens
<1>5. QED
  BY <1>2, <1>3, <1>4

(* What is under way anywhere is not changed within filterScheme.          *)
LEMMA FilteringBusy ==
  ASSUME ProgramInv, NEW p \in Proc, FilterSend(p) \/ FilterEnd(p),
         NEW q \in Proc, NEW u \in Tags
  PROVE  (Busy(q, u)' <=> Busy(q, u)) /\ Open(at[q])' = Open(at[q])
<1>1. UNCHANGED <<prog, at>> /\ (pc[q] = "wait" <=> pc'[q] = "wait")
  BY DEF FilterSend, FilterEnd, ProgramInv, TypeOK
<1>2. QED
  BY <1>1, BusySame

(* No step breaks the layer of the requests.                               *)
LEMMA RequestStep ==
  ASSUME ProgramInv, RequestInv, Step
  PROVE  RequestInv'
<1>1. ASSUME NEW p \in Proc, NEW t \in Tags, AsynchronousSynchronizeThrows(p, t)
      PROVE  RequestInv'
  <2>1. UNCHANGED <<pendSend, pendRecv, request, posted, recvBuf>>
    BY <1>1, ThrowsPostsNothing DEF AsynchronousSynchronizeThrows
  <2>2. QED
    BY <1>1, <2>1, ThrowsBusy, OtherRequests
<1>2. ASSUME NEW p \in Proc, NEW t \in Tags, BeginWait(p, t)
      PROVE  RequestInv'
  <2>1. UNCHANGED <<pendSend, pendRecv, request, posted, recvBuf>>
    BY <1>2 DEF BeginWait, comms, data, mpi
  <2>2. QED
    BY <1>2, <2>1, BeginWaitBusy, OtherRequests
<1>3. ASSUME NEW p \in Proc, NEW kept \in [In(p) -> 0 .. Entities], FilterRecv(p, kept)
      PROVE  RequestInv'
  <2>1. UNCHANGED <<pendSend, pendRecv, request, posted, recvBuf>>
    BY <1>3 DEF FilterRecv, comms, data
  <2>2. QED
    BY <1>3, <2>1, FilterRecvBusy, OtherRequests
<1>4. ASSUME NEW p \in Proc, FilterSend(p) \/ FilterEnd(p)
      PROVE  RequestInv'
  <2>1. UNCHANGED <<pendSend, pendRecv, request, posted, recvBuf>>
    BY <1>4 DEF FilterSend, FilterEnd, comms, data, mpi
  <2>2. QED
    BY <1>4, <2>1, FilteringBusy, OtherRequests
<1>5. ASSUME UNCHANGED vars
      PROVE  RequestInv'
  <2>1. UNCHANGED <<prog, at, pc, pendSend, pendRecv, request, posted, recvBuf>>
    BY <1>5 DEF vars, comms, data, mpi
  <2>2. QED
    BY <2>1, BusySame, OtherRequests
<1>6. QED
  BY <1>1, <1>2, <1>3, <1>4, <1>5,
     AsyncRequests, UnpackRequests, EndWaitRequests, MatchRequests DEF Step

-----------------------------------------------------------------------------
(* What is published.                                                      *)

(* The rank behind catches up by one operation: what it publishes, if      *)
(* anything, is what the rank ahead has published there.                   *)
LEMMA AheadAdvance ==
  ASSUME NEW s \in Seq(Nat), NEW r \in Seq(Nat), NEW n \in Nat, Ahead(s, r, n),
         \A j, k \in 1 .. Len(r) : j < k => r[j] < r[k],
         \A k \in 1 .. Len(s) : s[k] <= n,
         NEW next,
         \/ next = Append(s, n + 1) /\ \E k \in 1 .. Len(r) : r[k] = n + 1
         \/ next = s /\ \A k \in 1 .. Len(r) : r[k] # n + 1
  PROVE  Ahead(next, r, n + 1)
<1>0. /\ Len(s) \in Nat /\ Len(r) \in Nat /\ Len(s) <= Len(r)
      /\ \A k \in 1 .. Len(s) : r[k] = s[k]
      /\ \A k \in (Len(s) + 1) .. Len(r) : r[k] > n
      /\ \A k \in 1 .. Len(r) : r[k] \in Nat
  BY LenProperties, ElementOfSeq DEF Ahead
<1>1. CASE next = s /\ \A k \in 1 .. Len(r) : r[k] # n + 1
  <2>1. \A k \in (Len(s) + 1) .. Len(r) : r[k] > n + 1
    <3>1. ASSUME NEW k \in (Len(s) + 1) .. Len(r)
          PROVE  r[k] > n + 1
      <4>1. k \in 1 .. Len(r)
        BY <1>0
      <4>2. r[k] \in Nat /\ r[k] > n /\ r[k] # n + 1
        BY <1>0, <1>1, <4>1
      <4>3. QED
        BY <4>2
    <3>2. QED
      BY <3>1
  <2>2. QED
    BY <1>0, <1>1, <2>1 DEF Ahead
<1>2. CASE next = Append(s, n + 1) /\ \E k \in 1 .. Len(r) : r[k] = n + 1
  <2> DEFINE m == Len(s) + 1
  <2>1. PICK k \in 1 .. Len(r) : r[k] = n + 1
    BY <1>2
  <2>2. /\ Len(next) = m /\ next[m] = n + 1
        /\ \A j \in 1 .. Len(s) : next[j] = s[j]
    BY <1>2, AppendProperties
  <2>3. k = m
    <3>1. ~(k \in 1 .. Len(s))
      <4>1. ASSUME k \in 1 .. Len(s)
            PROVE  FALSE
        <5>1. r[k] = s[k] /\ s[k] <= n
          BY <1>0, <4>1
        <5>2. QED
          BY <2>1, <5>1
      <4>2. QED
        BY <4>1
    <3>2. m \in (Len(s) + 1) .. Len(r) /\ m \in 1 .. Len(r) /\ m <= k
      BY <1>0, <3>1
    <3>3. r[m] > n /\ r[m] \in Nat /\ (m < k => r[m] < r[k])
      BY <1>0, <3>2
    <3>4. QED
      BY <1>0, <2>1, <3>2, <3>3
  <2>4. \A j \in (m + 1) .. Len(r) : r[j] > n + 1
    <3>1. ASSUME NEW j \in (m + 1) .. Len(r)
          PROVE  r[j] > n + 1
      <4>1. j \in 1 .. Len(r) /\ k < j
        BY <1>0, <2>3
      <4>2. r[k] < r[j] /\ r[j] \in Nat
        BY <1>0, <4>1
      <4>3. QED
        BY <2>1, <4>2
    <3>2. QED
      BY <3>1
  <2>5. \A j \in 1 .. m : j \in 1 .. Len(s) \/ j = m
    BY <1>0
  <2>6. \A j \in 1 .. m : r[j] = next[j]
    BY <1>0, <2>1, <2>2, <2>3, <2>5
  <2>7. m <= Len(r)
    BY <2>3
  <2>8. QED
    BY <2>2, <2>4, <2>6, <2>7 DEF Ahead
<1>3. QED
  BY <1>1, <1>2

(* The rank ahead goes on: what it publishes now comes after all the rank  *)
(* behind has reached.                                                     *)
LEMMA AheadBehind ==
  ASSUME NEW s \in Seq(Nat), NEW r \in Seq(Nat), NEW n \in Nat, Ahead(s, r, n),
         NEW m \in Nat, n <= m, NEW next, next = Append(r, m + 1) \/ next = r
  PROVE  Ahead(s, next, n)
<1>0. /\ Len(s) \in Nat /\ Len(r) \in Nat /\ Len(s) <= Len(r)
      /\ \A k \in 1 .. Len(s) : r[k] = s[k]
      /\ \A k \in (Len(s) + 1) .. Len(r) : r[k] > n
  BY LenProperties DEF Ahead
<1>1. CASE next = Append(r, m + 1)
  <2>1. /\ Len(next) = Len(r) + 1 /\ next[Len(r) + 1] = m + 1
        /\ \A j \in 1 .. Len(r) : next[j] = r[j]
    BY <1>1, AppendProperties
  <2>2. Len(s) <= Len(next) /\ \A k \in 1 .. Len(s) : next[k] = s[k]
    BY <1>0, <2>1
  <2>3. ASSUME NEW k \in (Len(s) + 1) .. Len(next)
        PROVE  next[k] > n
    <3>1. CASE k = Len(r) + 1
      BY <2>1, <3>1
    <3>2. CASE k # Len(r) + 1
      <4>1. k \in (Len(s) + 1) .. Len(r) /\ k \in 1 .. Len(r)
        BY <1>0, <2>1, <3>2
      <4>2. QED
        BY <1>0, <2>1, <4>1
    <3>3. QED
      BY <3>1, <3>2
  <2>4. QED
    BY <2>2, <2>3 DEF Ahead
<1>2. QED
  BY <1>1

(* Two ranks at the same operation: either may be called the one ahead.    *)
LEMMA AheadBack ==
  ASSUME NEW s \in Seq(Nat), NEW r \in Seq(Nat), NEW n \in Nat, Ahead(s, r, n),
         \A k \in 1 .. Len(r) : r[k] <= n
  PROVE  Ahead(r, s, n)
<1>0. /\ Len(s) \in Nat /\ Len(r) \in Nat /\ Len(s) <= Len(r)
      /\ \A k \in 1 .. Len(s) : r[k] = s[k]
      /\ \A k \in (Len(s) + 1) .. Len(r) : r[k] > n
      /\ \A k \in 1 .. Len(r) : r[k] \in Nat
  BY LenProperties, ElementOfSeq DEF Ahead
<1>1. Len(s) = Len(r)
  <2>1. ASSUME Len(s) < Len(r)
        PROVE  FALSE
    <3>1. Len(r) \in (Len(s) + 1) .. Len(r) /\ Len(r) \in 1 .. Len(r)
      BY <1>0, <2>1
    <3>2. r[Len(r)] > n /\ r[Len(r)] <= n /\ r[Len(r)] \in Nat
      BY <1>0, <3>1
    <3>3. QED
      BY <3>2
  <2>2. QED
    BY <1>0, <2>1
<1>2. QED
  BY <1>0, <1>1 DEF Ahead

(* What a rank has published is a sequence of indices of operations.       *)
LEMMA PublishedType ==
  ASSUME ProgramInv, NEW p \in Proc, NEW t \in Tags
  PROVE  /\ published[p][t] \in Seq(Nat) /\ Len(published[p][t]) \in Nat
         /\ \A k \in 1 .. Len(published[p][t]) : published[p][t][k] \in 1 .. MaxOps
         /\ published[p][t] # <<>> => Len(published[p][t]) >= 1
<1>1. published[p][t] \in Seq(1 .. MaxOps)
  BY DEF ProgramInv, TypeOK
<1>2. published[p][t] \in Seq(Nat)
  BY <1>1, MaxOpsAssumption, SeqMonotonic
<1>3. \A k \in 1 .. Len(published[p][t]) : published[p][t][k] \in 1 .. MaxOps
  BY <1>1, ElementOfSeq
<1>4. Len(published[p][t]) \in Nat /\ (published[p][t] # <<>> => Len(published[p][t]) >= 1)
  BY <1>1, LenProperties, EmptySeq
<1>5. QED
  BY <1>2, <1>3, <1>4

(* Every rank is somewhere in the program.                                 *)
LEMMA WhereRanksAre ==
  ASSUME ProgramInv
  PROVE  /\ Len(prog) \in Nat /\ MaxOps \in Nat
         /\ \A p \in Proc : at[p] \in Nat /\ at[p] \in 0 .. Len(prog)
  BY MaxOpsAssumption, LenProperties DEF ProgramInv, TypeOK, RankInProgram

(* The operation that p begins counts, and publishes what is not open yet. *)
LEMMA BeginsPublishes ==
  ASSUME ProgramInv, NEW p \in Proc, NEW op \in Ops, Begins(p, op), NEW u \in Tags
  PROVE  /\ Publishes(at[p], u)' <=> op = Async(u) /\ u \notin Open(at[p])
         /\ \A i \in 1 .. Len(prog) : Publishes(i, u)' <=> Publishes(i, u)
         /\ Count(u, at[p])' = IF op = Async(u) THEN Count(u, at[p]) + 1 ELSE Count(u, at[p])
         /\ \A q \in Proc : q # p => Count(u, at[q])' = Count(u, at[q])
         /\ \A i \in 0 .. Len(prog) : Count(u, i)' = Count(u, i)
<1>1. /\ ProgramGrows /\ prog'[at[p] + 1] = op /\ at'[p] = at[p] + 1
      /\ \A q \in Proc : q # p => at'[q] = at[q]
  BY BeginsProgram
<1>2. Len(prog) \in Nat /\ \A q \in Proc : at[q] \in 0 .. Len(prog)
  BY WhereRanksAre
<1>3. /\ \A i \in 1 .. Len(prog) : Publishes(i, u)' <=> Publishes(i, u)
      /\ \A i \in 0 .. Len(prog) : Count(u, i)' = Count(u, i)
      /\ \A i \in 0 .. Len(prog) : Open(i)' = Open(i)
  BY <1>1, <1>2, ProgramStable
<1>4. PICK n \in 0 .. Len(prog) : n = at[p]
  BY <1>2
<1>5. Publishes(at[p], u)' <=> op = Async(u) /\ u \notin Open(at[p])
  <2>1. Publishes(at[p], u)' <=> Publishes(n + 1, u)'
    BY <1>1, <1>4 DEF Publishes, Open
  <2>2. Publishes(n + 1, u)' <=> prog'[n + 1] = Async(u) /\ u \notin Open(n + 1 - 1)'
    BY DEF Publishes
  <2>3. Open(n + 1 - 1)' = Open(n)'
    BY <1>2, <1>4 DEF Open
  <2>4. QED
    BY <1>1, <1>3, <1>4, <2>1, <2>2, <2>3
<1>6. Count(u, at[p])' = IF op = Async(u) THEN Count(u, at[p]) + 1 ELSE Count(u, at[p])
  <2>1. Count(u, at[p])' = Count(u, n + 1)'
    BY <1>1, <1>4 DEF Count, Starts
  <2>2. CountFollows(n, u)'
    BY CountNextPrime DEF CountFollowsProgram
  <2>3. QED
    BY <1>1, <1>3, <1>4, <2>1, <2>2 DEF CountFollows
<1>7. ASSUME NEW q \in Proc, q # p
      PROVE  Count(u, at[q])' = Count(u, at[q])
  <2>1. PICK k \in 0 .. Len(prog) : k = at[q]
    BY <1>2
  <2>2. Count(u, at[q])' = Count(u, k)'
    BY <1>1, <1>7, <2>1 DEF Count, Starts
  <2>3. QED
    BY <1>3, <2>1, <2>2
<1>8. QED
  BY <1>3, <1>5, <1>6, <1>7

(* The step of p publishes for u what the program says.                    *)
PublishStep(p, u) ==
  published'[p][u] = IF Publishes(at[p], u)' THEN Append(published[p][u], at'[p])
                     ELSE published[p][u]

(* The rank that begins an operation publishes it when it is a start of    *)
(* the tag, and has then published all it has begun.                       *)
LEMMA BeginsPublished ==
  ASSUME ProgramInv, PublishedInv, NEW p \in Proc, NEW op \in Ops, Begins(p, op),
         NEW u \in Tags, Linked(p), PublishStep(p, u)
  PROVE  PublishedBy(p, u)'
<1>s. PICK s : s = published[p][u]
  OBVIOUS
<1>r. PICK r : r = published'[p][u]
  OBVIOUS
<1>n. PICK n : n = at[p]
  OBVIOUS
<1>1. /\ s \in Seq(Nat) /\ Len(s) \in Nat /\ n \in Nat /\ n \in 0 .. Len(prog)
      /\ Len(prog) \in Nat /\ at'[p] = n + 1 /\ \A k \in 1 .. Len(s) : s[k] \in Nat /\ s[k] >= 1
  <2>1. s \in Seq(Nat) /\ Len(s) \in Nat
        /\ \A k \in 1 .. Len(s) : s[k] \in Nat /\ s[k] >= 1
    BY <1>s, PublishedType
  <2>2. n \in Nat /\ n \in 0 .. Len(prog) /\ Len(prog) \in Nat
    BY <1>n, WhereRanksAre
  <2>3. at'[p] = n + 1
    BY <1>n, BeginsProgram
  <2>4. QED
    BY <2>1, <2>2, <2>3
<1>2. /\ \A i \in 1 .. Len(prog) : Publishes(i, u)' <=> Publishes(i, u)
  BY BeginsPublishes
<1>3. /\ \A k \in 1 .. Len(s) : s[k] <= n /\ Publishes(s[k], u)
      /\ \A j, k \in 1 .. Len(s) : j < k => s[j] < s[k]
      /\ \A i \in 1 .. n : Publishes(i, u) => \E k \in 1 .. Len(s) : s[k] = i
  BY <1>s, <1>n DEF PublishedInv, PublishedBy
<1>4. /\ Publishes(at[p], u)' => r = Append(s, n + 1)
      /\ ~Publishes(at[p], u)' => r = s
  BY <1>1, <1>s, <1>r DEF PublishStep
<1>5. \A k \in 1 .. Len(s) : s[k] <= n + 1 /\ Publishes(s[k], u)'
  <2>1. \A k \in 1 .. Len(s) : s[k] \in 1 .. Len(prog)
    BY <1>1, <1>3
  <2>2. QED
    BY <1>1, <1>2, <1>3, <2>1
<1>6. Publishes(at[p], u)' <=> Publishes(n + 1, u)'
  BY <1>1, <1>n DEF Publishes, Open
<1>7. \A i \in 1 .. (n + 1) : i = n + 1 \/ (i \in 1 .. n /\ i \in 1 .. Len(prog))
  BY <1>1
<1>8. CASE Publishes(at[p], u)'
  <2>1. /\ Len(r) = Len(s) + 1 /\ r[Len(s) + 1] = n + 1
        /\ \A k \in 1 .. Len(s) : r[k] = s[k]
    BY <1>1, <1>4, <1>8, AppendProperties
  <2>2. \A k \in 1 .. Len(r) : k \in 1 .. Len(s) \/ k = Len(s) + 1
    BY <1>1, <2>1
  <2>3. \A k \in 1 .. Len(r) : r[k] <= n + 1 /\ Publishes(r[k], u)'
    <3>1. ASSUME NEW k \in 1 .. Len(r)
          PROVE  r[k] <= n + 1 /\ Publishes(r[k], u)'
      <4>1. CASE k = Len(s) + 1
        <5>1. r[k] = n + 1
          BY <2>1, <4>1
        <5>2. Publishes(r[k], u)'
          BY <1>6, <1>8, <5>1
        <5>3. QED
          BY <1>1, <5>1, <5>2
      <4>2. CASE k \in 1 .. Len(s)
        BY <1>5, <2>1, <4>2
      <4>3. QED
        BY <2>2, <4>1, <4>2
    <3>2. QED
      BY <3>1
  <2>4. \A j, k \in 1 .. Len(r) : j < k => r[j] < r[k]
    <3>1. ASSUME NEW j \in 1 .. Len(r), NEW k \in 1 .. Len(r), j < k
          PROVE  r[j] < r[k]
      <4>1. j \in 1 .. Len(s)
        BY <1>1, <2>1, <3>1
      <4>2. CASE k = Len(s) + 1
        <5>1. s[j] \in Nat /\ s[j] <= n
          BY <1>1, <1>3, <4>1
        <5>2. QED
          BY <1>1, <2>1, <4>1, <4>2, <5>1
      <4>3. CASE k \in 1 .. Len(s)
        BY <1>3, <2>1, <3>1, <4>1, <4>3
      <4>4. QED
        BY <2>2, <4>2, <4>3
    <3>2. QED
      BY <3>1
  <2>5. \A i \in 1 .. (n + 1) : Publishes(i, u)' => \E k \in 1 .. Len(r) : r[k] = i
    <3>1. ASSUME NEW i \in 1 .. (n + 1), Publishes(i, u)'
          PROVE  \E k \in 1 .. Len(r) : r[k] = i
      <4>1. CASE i = n + 1
        BY <1>1, <2>1, <4>1
      <4>2. CASE i \in 1 .. n /\ i \in 1 .. Len(prog)
        <5>1. PICK k \in 1 .. Len(s) : s[k] = i
          BY <1>2, <1>3, <3>1, <4>2
        <5>2. k \in 1 .. Len(r)
          BY <1>1, <2>1
        <5>3. QED
          BY <2>1, <5>1, <5>2
      <4>3. QED
        BY <1>7, <4>1, <4>2
    <3>2. QED
      BY <3>1
  <2>6. QED
    BY <1>1, <1>r, <2>3, <2>4, <2>5 DEF PublishedBy
<1>9. CASE ~Publishes(at[p], u)'
  <2>1. \A i \in 1 .. (n + 1) : Publishes(i, u)' => \E k \in 1 .. Len(s) : s[k] = i
    <3>1. ASSUME NEW i \in 1 .. (n + 1), Publishes(i, u)'
          PROVE  \E k \in 1 .. Len(s) : s[k] = i
      <4>1. i # n + 1
        BY <1>6, <1>9, <3>1
      <4>2. i \in 1 .. n /\ i \in 1 .. Len(prog)
        BY <1>7, <4>1
      <4>3. QED
        BY <1>2, <1>3, <3>1, <4>2
    <3>2. QED
      BY <3>1
  <2>2. r = s
    BY <1>4, <1>9
  <2>3. QED
    BY <1>1, <1>3, <1>5, <1>r, <2>1, <2>2 DEF PublishedBy
<1>10. QED
  BY <1>8, <1>9

(* The operations a rank has published are its own: those of the others do *)
(* not change, nor does what they are.                                     *)
LEMMA OthersPublished ==
  ASSUME ProgramInv, PublishedInv, NEW p \in Proc, NEW op \in Ops, Begins(p, op),
         NEW q \in Proc, q # p, NEW u \in Tags, Linked(q), published'[q][u] = published[q][u]
  PROVE  PublishedBy(q, u)'
<1>s. PICK s : s = published[q][u]
  OBVIOUS
<1>n. PICK n : n = at[q]
  OBVIOUS
<1>1. /\ Len(s) \in Nat /\ n \in 0 .. Len(prog) /\ Len(prog) \in Nat /\ at'[q] = n
      /\ \A k \in 1 .. Len(s) : s[k] \in Nat /\ s[k] >= 1
  <2>1. s \in Seq(Nat) /\ Len(s) \in Nat
        /\ \A k \in 1 .. Len(s) : s[k] \in Nat /\ s[k] >= 1
    BY <1>s, PublishedType
  <2>2. n \in Nat /\ n \in 0 .. Len(prog) /\ Len(prog) \in Nat
    BY <1>n, WhereRanksAre
  <2>3. at'[q] = n
    BY <1>n, BeginsProgram
  <2>4. QED
    BY <2>1, <2>2, <2>3
<1>2. \A i \in 1 .. Len(prog) : Publishes(i, u)' <=> Publishes(i, u)
  BY BeginsPublishes
<1>3. /\ \A k \in 1 .. Len(s) : s[k] <= n /\ Publishes(s[k], u)
      /\ \A j, k \in 1 .. Len(s) : j < k => s[j] < s[k]
      /\ \A i \in 1 .. n : Publishes(i, u) => \E k \in 1 .. Len(s) : s[k] = i
  BY <1>s, <1>n DEF PublishedInv, PublishedBy
<1>4. /\ \A k \in 1 .. Len(s) : s[k] \in 1 .. Len(prog)
      /\ \A i \in 1 .. n : i \in 1 .. Len(prog)
  BY <1>1, <1>3
<1>5. /\ \A k \in 1 .. Len(s) : s[k] <= n /\ Publishes(s[k], u)'
      /\ \A i \in 1 .. n : Publishes(i, u)' => \E k \in 1 .. Len(s) : s[k] = i
  BY <1>2, <1>3, <1>4
<1>6. published'[q][u] = s
  BY <1>s
<1>7. QED
  BY <1>1, <1>3, <1>5, <1>6 DEF PublishedBy

(* The rank that begins an operation others have already begun publishes   *)
(* what they published for it.                                             *)
LEMMA PrefixAdvances ==
  ASSUME ProgramInv, PublishedInv, NEW p \in Proc, NEW op \in Ops, Begins(p, op),
         NEW q \in Proc, q # p, NEW u \in Tags, Linked(p), Linked(q),
         published'[q][u] = published[q][u], PublishStep(p, u),
         at[p] < at[q]
  PROVE  Ahead(published'[p][u], published'[q][u], at'[p])
<1>s. PICK s : s = published[p][u]
  OBVIOUS
<1>r. PICK r : r = published[q][u]
  OBVIOUS
<1>n. PICK n : n = at[p]
  OBVIOUS
<1>1. /\ s \in Seq(Nat) /\ r \in Seq(Nat) /\ n \in Nat /\ Len(s) \in Nat /\ Len(r) \in Nat
      /\ \A k \in 1 .. Len(r) : r[k] \in Nat /\ r[k] >= 1
      /\ at[q] \in 0 .. Len(prog) /\ Len(prog) \in Nat /\ at'[p] = n + 1
  <2>1. /\ s \in Seq(Nat) /\ Len(s) \in Nat /\ r \in Seq(Nat) /\ Len(r) \in Nat
        /\ \A k \in 1 .. Len(r) : r[k] \in Nat /\ r[k] >= 1
    BY <1>s, <1>r, PublishedType
  <2>2. n \in Nat /\ at[q] \in 0 .. Len(prog) /\ Len(prog) \in Nat
    BY <1>n, WhereRanksAre
  <2>3. at'[p] = n + 1
    BY <1>n, BeginsProgram
  <2>4. QED
    BY <2>1, <2>2, <2>3
<1>2. /\ Ahead(s, r, n) /\ \A k \in 1 .. Len(s) : s[k] <= n
      /\ \A j, k \in 1 .. Len(r) : j < k => r[j] < r[k]
      /\ \A k \in 1 .. Len(r) : r[k] <= at[q] /\ Publishes(r[k], u)
      /\ \A i \in 1 .. at[q] : Publishes(i, u) => \E k \in 1 .. Len(r) : r[k] = i
  <2>1. PublishedBy(p, u) /\ PublishedBy(q, u) /\ Prefix(p, q, u)
    BY DEF PublishedInv
  <2>2. at[p] <= at[q]
    BY <1>1, <1>n
  <2>3. QED
    BY <1>s, <1>r, <1>n, <2>1, <2>2 DEF PublishedBy, Prefix
<1>3. n + 1 \in 1 .. at[q] /\ n + 1 \in 1 .. Len(prog)
  BY <1>1, <1>n
<1>4. Publishes(at[p], u)' <=> Publishes(n + 1, u)
  <2>1. Publishes(at[p], u)' <=> Publishes(n + 1, u)'
    BY <1>1 DEF Publishes, Open
  <2>2. QED
    BY <1>3, <2>1, BeginsPublishes
<1>5. CASE Publishes(at[p], u)'
  <2>1. published'[p][u] = Append(s, n + 1)
    BY <1>1, <1>5, <1>s DEF PublishStep
  <2>2. \E k \in 1 .. Len(r) : r[k] = n + 1
    BY <1>2, <1>3, <1>4, <1>5
  <2>3. Ahead(Append(s, n + 1), r, n + 1)
    BY <1>1, <1>2, <2>2, AheadAdvance
  <2>4. QED
    BY <1>1, <1>r, <2>1, <2>3
<1>6. CASE ~Publishes(at[p], u)'
  <2>1. published'[p][u] = s
    BY <1>6, <1>s DEF PublishStep
  <2>2. \A k \in 1 .. Len(r) : r[k] # n + 1
    BY <1>2, <1>4, <1>6
  <2>3. Ahead(s, r, n + 1)
    BY <1>1, <1>2, <2>2, AheadAdvance
  <2>4. QED
    BY <1>1, <1>r, <2>1, <2>3
<1>7. QED
  BY <1>5, <1>6

(* Of any two ranks one has published what the other has, up to where the  *)
(* one behind is: the program is the same for both.                        *)
LEMMA BeginsPrefix ==
  ASSUME ProgramInv, PublishedInv, NEW p \in Proc, NEW op \in Ops, Begins(p, op),
         NEW a \in Proc, NEW b \in Proc, NEW u \in Tags, Linked(a), Linked(b),
         \A q \in Proc : q # p => published'[q][u] = published[q][u],
         Linked(p) => PublishStep(p, u)
  PROVE  Prefix(a, b, u)'
<1>0. /\ \A q \in Proc : at[q] \in Nat
      /\ \A q \in Proc : published[q][u] \in Seq(Nat) /\ Len(published[q][u]) \in Nat
      /\ at'[p] = at[p] + 1 /\ \A q \in Proc : q # p => at'[q] = at[q]
  BY PublishedType, WhereRanksAre, BeginsProgram
<1>x. Linked(p) => published'[p][u] \in Seq(Nat)
  <2>1. Append(published[p][u], at[p] + 1) \in Seq(Nat)
    <3>1. at[p] + 1 \in Nat
      BY <1>0
    <3>2. QED
      BY <1>0, <3>1, AppendProperties
  <2>2. QED
    BY <1>0, <2>1 DEF PublishStep
<1>1. CASE a # p /\ b # p
  BY <1>0, <1>1 DEF PublishedInv, Prefix
<1>2. CASE a = p /\ b # p
  <2>1. SUFFICES ASSUME at'[p] <= at'[b]
                 PROVE  Ahead(published'[p][u], published'[b][u], at'[p])
    BY <1>2 DEF Prefix
  <2>2. at[p] < at[b]
    BY <1>0, <1>2, <2>1
  <2>3. QED
    BY <1>2, <2>2, PrefixAdvances
<1>3. CASE a # p /\ b = p
  <2>1. SUFFICES ASSUME at'[a] <= at'[p]
                 PROVE  Ahead(published'[a][u], published'[p][u], at'[a])
    BY <1>3 DEF Prefix
  <2>2. published'[a][u] = published[a][u] /\ at'[a] = at[a]
    BY <1>0, <1>3
  <2>3. CASE at[a] <= at[p]
    <3>1. Ahead(published[a][u], published[p][u], at[a])
      BY <1>3, <2>3 DEF PublishedInv, Prefix
    <3>2. \/ published'[p][u] = Append(published[p][u], at[p] + 1)
          \/ published'[p][u] = published[p][u]
      BY <1>0, <1>3 DEF PublishStep
    <3>3. Ahead(published[a][u], published'[p][u], at[a])
      BY <1>0, <2>3, <3>1, <3>2, AheadBehind
    <3>4. QED
      BY <2>2, <3>3
  <2>4. CASE ~(at[a] <= at[p])
    <3>1. at[p] < at[a] /\ at'[p] = at'[a]
      BY <1>0, <1>3, <2>1, <2>4
    <3>2. Ahead(published'[p][u], published'[a][u], at'[p])
      BY <1>3, <2>2, <3>1, PrefixAdvances
    <3>3. \A k \in 1 .. Len(published'[a][u]) : published'[a][u][k] <= at'[p]
      BY <2>2, <3>1 DEF PublishedInv, PublishedBy
    <3>4. published'[p][u] \in Seq(Nat) /\ published'[a][u] \in Seq(Nat) /\ at'[p] \in Nat
      <4>1. published'[p][u] \in Seq(Nat)
        BY <1>3, <1>x
      <4>2. QED
        BY <1>0, <2>2, <4>1
    <3>5. Ahead(published'[a][u], published'[p][u], at'[p])
      BY <3>2, <3>3, <3>4, AheadBack
    <3>6. QED
      BY <3>1, <3>5
  <2>5. QED
    BY <2>3, <2>4
<1>4. CASE a = p /\ b = p
  <2>1. Len(published'[p][u]) \in Nat
    <3>1. published'[p][u] \in Seq(Nat)
      BY <1>4, <1>x
    <3>2. QED
      BY <3>1, LenProperties
  <2>2. Ahead(published'[p][u], published'[p][u], at'[p])
    BY <2>1 DEF Ahead
  <2>3. QED
    BY <1>4, <2>2 DEF Prefix
<1>5. QED
  BY <1>1, <1>2, <1>3, <1>4

(* No filterScheme has begun since a rank published what is under way, as  *)
(* long as it begins none.                                                 *)
LEMMA UnfilteredSame ==
  ASSUME ProgramInv, NEW q \in Proc, NEW u \in Tags, UnfilteredSince(q, u),
         Busy(q, u)' => Busy(q, u), published'[q][u] = published[q][u],
         ProgramGrows, at'[q] = at[q] \/ (at'[q] = at[q] + 1 /\ prog'[at'[q]] # Filter)
  PROVE  UnfilteredSince(q, u)'
<1>n. PICK n : n = at[q]
  OBVIOUS
<1>s. PICK s : s = published[q][u]
  OBVIOUS
<1>1. n \in 0 .. Len(prog) /\ Len(prog) \in Nat
  BY <1>n, WhereRanksAre
<1>2. SUFFICES ASSUME Busy(q, u)
               PROVE  /\ s # <<>>
                      /\ \A f \in 1 .. at'[q] : prog'[f] = Filter => f < Last(s)
  BY <1>s DEF UnfilteredSince, LastPublished
<1>3. s # <<>> /\ \A f \in 1 .. n : prog[f] = Filter => f < Last(s)
  BY <1>2, <1>n, <1>s DEF UnfilteredSince, LastPublished
<1>4. ASSUME NEW f \in 1 .. at'[q], prog'[f] = Filter
      PROVE  f \in 1 .. n /\ prog[f] = Filter
  <2>1. f \in 1 .. n
    <3>1. CASE at'[q] = n
      BY <3>1
    <3>2. CASE at'[q] = n + 1 /\ prog'[n + 1] # Filter
      BY <1>1, <1>4, <3>2
    <3>3. QED
      BY <1>n, <3>1, <3>2
  <2>2. f \in 1 .. Len(prog)
    BY <1>1, <2>1
  <2>3. QED
    BY <1>4, <2>1, <2>2 DEF ProgramGrows
<1>5. QED
  BY <1>3, <1>4

(* The steps in which no rank begins an operation.                         *)
LEMMA StaysPublished ==
  ASSUME ProgramInv, PublishedInv, UNCHANGED <<prog, at, counter, published>>,
         \A q \in Proc, u \in Tags : Busy(q, u)' => Busy(q, u)
  PROVE  PublishedInv'
<1>1. \A q \in Proc, u \in Tags : counter'[q][u] = Count(u, at[q])'
  BY DEF PublishedInv, Count, Starts
<1>2. \A i, u : Publishes(i, u)' <=> Publishes(i, u)
  BY DEF Publishes, Open
<1>3. \A q \in Proc : Linked(q)' <=> Linked(q)
  BY DEF Linked, In, Out
<1>4. ASSUME NEW q \in Proc, NEW u \in Tags, Linked(q)
      PROVE  PublishedBy(q, u)' /\ UnfilteredSince(q, u)'
  <2>1. PublishedBy(q, u) /\ UnfilteredSince(q, u) /\ (Busy(q, u)' => Busy(q, u))
    BY <1>4 DEF PublishedInv
  <2>2. PublishedBy(q, u)'
    BY <1>2, <2>1 DEF PublishedBy
  <2>3. UnfilteredSince(q, u)'
    BY <2>1 DEF UnfilteredSince, LastPublished
  <2>4. QED
    BY <2>2, <2>3
<1>5. \A p, q \in Proc, u \in Tags : Linked(p) /\ Linked(q) => Prefix(p, q, u)'
  BY DEF PublishedInv, Prefix
<1>6. QED
  BY <1>1, <1>3, <1>4, <1>5 DEF PublishedInv

(* The steps in which rank p begins an operation op.                       *)
LEMMA BeginsKeepsPublished ==
  ASSUME ProgramInv, PublishedInv, NEW p \in Proc, NEW op \in Ops, Begins(p, op),
         \A u \in Tags : counter'[p][u] = IF op = Async(u) THEN counter[p][u] + 1
                                                           ELSE counter[p][u],
         \A q \in Proc, u \in Tags : q # p =>
           counter'[q][u] = counter[q][u] /\ published'[q][u] = published[q][u],
         \A u \in Tags : Linked(p) => PublishStep(p, u) /\ UnfilteredSince(p, u)',
         \A q \in Proc, u \in Tags : q # p => (Busy(q, u)' <=> Busy(q, u))
  PROVE  PublishedInv'
<1>1. ASSUME NEW q \in Proc, NEW u \in Tags
      PROVE  counter'[q][u] = Count(u, at[q])'
  <2>1. counter[q][u] = Count(u, at[q])
    BY DEF PublishedInv
  <2>2. CASE q = p
    BY <2>1, <2>2, BeginsPublishes
  <2>3. CASE q # p
    BY <2>1, <2>3, BeginsPublishes
  <2>4. QED
    BY <2>2, <2>3
<1>2. \A q \in Proc : Linked(q)' <=> Linked(q)
  BY DEF Linked, In, Out
<1>3. ASSUME NEW q \in Proc, NEW u \in Tags, Linked(q)
      PROVE  PublishedBy(q, u)' /\ UnfilteredSince(q, u)'
  <2>1. CASE q = p
    BY <1>3, <2>1, BeginsPublished
  <2>2. CASE q # p
    <3>1. PublishedBy(q, u)'
      BY <1>3, <2>2, OthersPublished
    <3>2. at'[q] = at[q] /\ ProgramGrows /\ UnfilteredSince(q, u)
      BY <1>3, <2>2, BeginsProgram DEF PublishedInv
    <3>3. UnfilteredSince(q, u)'
      BY <2>2, <3>2, UnfilteredSame
    <3>4. QED
      BY <3>1, <3>3
  <2>3. QED
    BY <2>1, <2>2
<1>4. ASSUME NEW a \in Proc, NEW b \in Proc, NEW u \in Tags, Linked(a), Linked(b)
      PROVE  Prefix(a, b, u)'
  BY <1>4, BeginsPrefix
<1>5. QED
  BY <1>1, <1>2, <1>3, <1>4 DEF PublishedInv

(* Operations other than a start that succeeds publish nothing.            *)
LEMMA BeginsWithoutPublishing ==
  ASSUME ProgramInv, PublishedInv, NEW p \in Proc, NEW op \in Ops, Begins(p, op),
         UNCHANGED <<counter, published>>, \A u \in Tags : op # Async(u),
         \A u \in Tags : op = Filter => ~Busy(p, u)',
         \A q \in Proc, u \in Tags : Busy(q, u)' <=> Busy(q, u)
  PROVE  PublishedInv'
<1>1. \A u \in Tags : PublishStep(p, u)
  BY BeginsPublishes DEF PublishStep
<1>2. ASSUME NEW u \in Tags, Linked(p)
      PROVE  UnfilteredSince(p, u)'
  <2>1. CASE op = Filter
    BY <2>1 DEF UnfilteredSince
  <2>2. CASE op # Filter
    <3>1. /\ ProgramGrows /\ at'[p] = at[p] + 1 /\ prog'[at'[p]] # Filter
          /\ UnfilteredSince(p, u)
      BY <1>2, <2>2, BeginsProgram DEF PublishedInv
    <3>2. QED
      BY <3>1, UnfilteredSame
  <2>3. QED
    BY <2>1, <2>2
<1>3. QED
  BY <1>1, <1>2, BeginsKeepsPublished

(* asynchronousSynchronize publishes the operation it begins.              *)
LEMMA AsyncPublished ==
  ASSUME ProgramInv, RequestInv, PublishedInv, NEW p \in Proc, NEW t \in Tags,
         AsynchronousSynchronize(p, t)
  PROVE  PublishedInv'
<1>1. /\ TypeOK /\ Begins(p, Async(t)) /\ Async(t) \in Ops /\ pc' = pc
      /\ counter' = [counter EXCEPT ![p][t] = @ + 1]
      /\ published' = [published EXCEPT ![p][t] = Append(@, at'[p])]
      /\ Linked(p) => t \notin Open(at[p])
  BY OpsDistinct, StartsFree DEF AsynchronousSynchronize, ProgramInv
<1>2. /\ counter'[p][t] = counter[p][t] + 1
      /\ \A q \in Proc, u \in Tags : q # p \/ u # t => counter'[q][u] = counter[q][u]
      /\ published'[p][t] = Append(published[p][t], at'[p])
      /\ \A q \in Proc, u \in Tags : q # p \/ u # t => published'[q][u] = published[q][u]
  BY <1>1 DEF TypeOK
<1>3. \A u \in Tags : Async(t) = Async(u) <=> u = t
  BY OpsDistinct
<1>4. \A u \in Tags : counter'[p][u] = IF Async(t) = Async(u) THEN counter[p][u] + 1
                                                              ELSE counter[p][u]
  BY <1>2, <1>3
<1>5. \A u \in Tags : Publishes(at[p], u)' <=> u = t /\ t \notin Open(at[p])
  BY <1>1, <1>3, BeginsPublishes
<1>6. \A u \in Tags : Linked(p) => PublishStep(p, u)
  BY <1>1, <1>2, <1>5 DEF PublishStep
<1>7. ASSUME NEW u \in Tags, Linked(p)
      PROVE  UnfilteredSince(p, u)'
  <2>0. /\ ProgramGrows /\ at'[p] = at[p] + 1 /\ prog'[at'[p]] = Async(t) /\ at'[p] \in Nat
        /\ Async(t) # Filter
    BY <1>1, BeginsProgram, WhereRanksAre, OpsDistinct
  <2>1. CASE u = t
    <3>n. PICK n : n = at'[p]
      OBVIOUS
    <3>1. /\ published'[p][t] \in Seq(Nat) /\ published'[p][t] # <<>>
          /\ Len(published'[p][t]) = Len(published[p][t]) + 1
          /\ published'[p][t][Len(published[p][t]) + 1] = at'[p]
      <4>1. published[p][t] \in Seq(Nat) /\ n \in Nat
        BY <2>0, <3>n, PublishedType
      <4>2. /\ Append(published[p][t], n) \in Seq(Nat) /\ Append(published[p][t], n) # <<>>
            /\ Len(Append(published[p][t], n)) = Len(published[p][t]) + 1
            /\ Append(published[p][t], n)[Len(published[p][t]) + 1] = n
        BY <4>1, AppendProperties
      <4>3. QED
        BY <1>2, <3>n, <4>2
    <3>2. LastPublished(p, t)' = n
      BY <3>n, <3>1 DEF LastPublished, Last
    <3>3. \A f \in 1 .. n : prog'[f] = Filter => f < n
      BY <2>0, <3>n
    <3>4. QED
      BY <2>1, <3>n, <3>1, <3>2, <3>3 DEF UnfilteredSince
  <2>2. CASE u # t
    <3>1. Busy(p, u)' <=> Busy(p, u)
      BY <1>1, <2>2, BusyAsync
    <3>2. UnfilteredSince(p, u)
      BY <1>7 DEF PublishedInv
    <3>3. QED
      BY <1>2, <2>0, <2>2, <3>1, <3>2, UnfilteredSame
  <2>3. QED
    BY <2>1, <2>2
<1>8. \A q \in Proc, u \in Tags : q # p => (Busy(q, u)' <=> Busy(q, u))
  BY <1>1, BusyBegins
<1>9. QED
  BY <1>1, <1>2, <1>4, <1>6, <1>7, <1>8, BeginsKeepsPublished

(* The asynchronousSynchronize that throws publishes nothing: its tag was  *)
(* under way, so the operation is no start of a synchronization.           *)
LEMMA ThrowsPublished ==
  ASSUME ProgramInv, RequestInv, PublishedInv, NEW p \in Proc, NEW t \in Tags,
         AsynchronousSynchronizeThrows(p, t)
  PROVE  PublishedInv'
<1>1. /\ TypeOK /\ Begins(p, Async(t)) /\ Async(t) \in Ops /\ published' = published
      /\ counter' = [counter EXCEPT ![p][t] = @ + 1] /\ t \in Open(at[p])
  BY OpsDistinct, ThrowsPostsNothing DEF AsynchronousSynchronizeThrows, ProgramInv
<1>2. /\ counter'[p][t] = counter[p][t] + 1
      /\ \A q \in Proc, u \in Tags : q # p \/ u # t => counter'[q][u] = counter[q][u]
  BY <1>1 DEF TypeOK
<1>3. \A u \in Tags : Async(t) = Async(u) <=> u = t
  BY OpsDistinct
<1>4. \A u \in Tags : counter'[p][u] = IF Async(t) = Async(u) THEN counter[p][u] + 1
                                                              ELSE counter[p][u]
  BY <1>2, <1>3
<1>5. \A u \in Tags : ~Publishes(at[p], u)'
  BY <1>1, <1>3, BeginsPublishes
<1>6. \A u \in Tags : PublishStep(p, u)
  BY <1>1, <1>5 DEF PublishStep
<1>7. \A q \in Proc, u \in Tags : Busy(q, u)' <=> Busy(q, u)
  BY ThrowsBusy
<1>8. ASSUME NEW u \in Tags, Linked(p)
      PROVE  UnfilteredSince(p, u)'
  <2>1. /\ ProgramGrows /\ at'[p] = at[p] + 1 /\ prog'[at'[p]] # Filter /\ UnfilteredSince(p, u)
    BY <1>1, <1>8, BeginsProgram, OpsDistinct DEF PublishedInv
  <2>2. QED
    BY <1>1, <1>7, <2>1, UnfilteredSame
<1>9. QED
  BY <1>1, <1>2, <1>4, <1>6, <1>7, <1>8, BeginsKeepsPublished

(* No step breaks the layer of the published operations.                   *)
LEMMA PublishedStep ==
  ASSUME ProgramInv, RequestInv, PublishedInv, Step
  PROVE  PublishedInv'
<1>1. ASSUME NEW p \in Proc, NEW t \in Tags, BeginWait(p, t)
      PROVE  PublishedInv'
  <2>1. Begins(p, Wait(t)) /\ UNCHANGED <<counter, published>>
    BY <1>1 DEF BeginWait, comms, data
  <2>2. \A q \in Proc, u \in Tags : Busy(q, u)' <=> Busy(q, u)
    BY <1>1, BeginWaitBusy
  <2>3. \A u \in Tags : Wait(t) # Async(u) /\ Wait(t) # Filter /\ Wait(t) \in Ops
    BY OpsDistinct
  <2>4. QED
    BY <2>1, <2>2, <2>3, BeginsWithoutPublishing
<1>2. ASSUME NEW p \in Proc, NEW kept \in [In(p) -> 0 .. Entities], FilterRecv(p, kept)
      PROVE  PublishedInv'
  <2>1. Begins(p, Filter) /\ UNCHANGED <<counter, published>> /\ Filter \in Ops
    BY <1>2 DEF FilterRecv, comms, data, Ops
  <2>2. /\ \A q \in Proc, u \in Tags : Busy(q, u)' <=> Busy(q, u)
        /\ \A u \in Tags : ~Busy(p, u)'
    BY <1>2, FilterRecvBusy
  <2>3. \A u \in Tags : Filter # Async(u)
    BY OpsDistinct
  <2>4. QED
    BY <2>1, <2>2, <2>3, BeginsWithoutPublishing
<1>3. ASSUME NEW p \in Proc, NEW t \in Tags, NEW l \in Links, Unpack(p, t, l)
      PROVE  PublishedInv'
  <2>1. UNCHANGED <<prog, at, pc, counter, published>>
    BY <1>3 DEF Unpack
  <2>2. QED
    BY <2>1, BusySame, StaysPublished
<1>4. ASSUME NEW p \in Proc, NEW t \in Tags, EndWait(p, t)
      PROVE  PublishedInv'
  <2>1. UNCHANGED <<prog, at, counter, published>>
    BY <1>4 DEF EndWait, data
  <2>2. \A q \in Proc, u \in Tags : Busy(q, u)' => Busy(q, u)
    BY <1>4, BusyEndWait
  <2>3. QED
    BY <2>1, <2>2, StaysPublished
<1>5. ASSUME NEW p \in Proc, FilterSend(p) \/ FilterEnd(p)
      PROVE  PublishedInv'
  <2>1. UNCHANGED <<prog, at, counter, published>>
    BY <1>5 DEF FilterSend, FilterEnd, comms, data
  <2>2. QED
    BY <1>5, <2>1, FilteringBusy, StaysPublished
<1>6. ASSUME NEW l \in Links, NEW i \in 1 .. Len(posted[l]), NEW j \in 1 .. Len(sent[l]),
             Match(l, i, j)
      PROVE  PublishedInv'
  <2>1. UNCHANGED <<prog, at, pc, counter, published>>
    BY <1>6, MatchSteps DEF Matched, comms
  <2>2. QED
    BY <2>1, BusySame, StaysPublished
<1>7. ASSUME UNCHANGED vars
      PROVE  PublishedInv'
  <2>1. UNCHANGED <<prog, at, pc, counter, published>>
    BY <1>7 DEF vars, comms, data
  <2>2. QED
    BY <2>1, BusySame, StaysPublished
<1>8. QED
  BY <1>1, <1>2, <1>3, <1>4, <1>5, <1>6, <1>7, AsyncPublished, ThrowsPublished DEF Step

-----------------------------------------------------------------------------
(* Sizes and schemes.                                                      *)

(* The sizes of a tag stay right when neither they nor the schemes change. *)
LEMMA SizesSame ==
  ASSUME NEW q \in Proc, NEW u \in Tags, SizesOf(q, u),
         Busy(q, u)' => Busy(q, u),
         sizeKnown'[q][u] = sizeKnown[q][u], pc'[q] \in {"run", "wait"} => pc[q] \in {"run", "wait"},
         \A l \in Out(q) : sendSize'[u][l] = sendSize[u][l] /\ sendLen'[l] = sendLen[l],
         \A l \in In(q) : recvSize'[u][l] = recvSize[u][l] /\ recvLen'[l] = recvLen[l]
  PROVE  SizesOf(q, u)'
<1>1. In(q)' = In(q) /\ Out(q)' = Out(q)
  BY DEF In, Out
<1>2. QED
  BY <1>1 DEF SizesOf

(* After computeBufferSize the sizes of p are known, and those of others   *)
(* and of other tags are what they were.                                   *)
LEMMA ComputeSizes ==
  ASSUME TypeOK, NEW p \in Proc, NEW t \in Tags, ComputeBufferSize(p, t), SizesOf(p, t),
         pc[p] = "run", pc' = pc, UNCHANGED schemes
  PROVE  /\ SizesOf(p, t)'
         /\ \A q \in Proc, u \in Tags : q # p \/ u # t =>
              /\ sizeKnown'[q][u] = sizeKnown[q][u]
              /\ \A l \in Out(q) : sendSize'[u][l] = sendSize[u][l]
              /\ \A l \in In(q) : recvSize'[u][l] = recvSize[u][l]
<1>1. /\ sizeKnown'[p][t] = TRUE
      /\ \A q \in Proc, u \in Tags : q # p \/ u # t => sizeKnown'[q][u] = sizeKnown[q][u]
  BY DEF TypeOK, ComputeBufferSize
<1>2. /\ \A l \in Out(p) : l \in Links
      /\ \A l \in In(p) : l \in Links
      /\ \A q \in Proc : q # p => /\ \A l \in Out(q) : l \in Links /\ l \notin Out(p)
                                  /\ \A l \in In(q) : l \in Links /\ l \notin In(p)
      /\ \A q \in Proc : \A l \in Out(q) \cup In(q) : l \in Links
  BY DEF In, Out
<1>3. CASE sizeKnown[p][t]
  <2>1. UNCHANGED <<sendSize, recvSize>>
    BY <1>3 DEF ComputeBufferSize
  <2>2. SizesOf(p, t)'
    BY <1>1, <1>3, <2>1 DEF SizesOf, schemes, In, Out
  <2>3. QED
    BY <1>1, <2>1, <2>2
<1>4. CASE ~sizeKnown[p][t]
  <2>1. /\ sendSize' = [sendSize EXCEPT ![t] =
             [l \in Links |-> IF l \in Out(p) THEN sendLen[l] ELSE @[l]]]
        /\ recvSize' = [recvSize EXCEPT ![t] =
             [l \in Links |-> IF l \in In(p) THEN recvLen[l] ELSE @[l]]]
    BY <1>4 DEF ComputeBufferSize
  <2>2. /\ \A l \in Links : sendSize'[t][l] = IF l \in Out(p) THEN sendLen[l] ELSE sendSize[t][l]
        /\ \A u \in Tags : u # t => sendSize'[u] = sendSize[u]
    BY <2>1 DEF TypeOK
  <2>3. /\ \A l \in Links : recvSize'[t][l] = IF l \in In(p) THEN recvLen[l] ELSE recvSize[t][l]
        /\ \A u \in Tags : u # t => recvSize'[u] = recvSize[u]
    BY <2>1 DEF TypeOK
  <2>4. SizesOf(p, t)'
    BY <1>1, <1>2, <2>2, <2>3 DEF SizesOf, schemes, In, Out
  <2>5. ASSUME NEW q \in Proc, NEW u \in Tags, q # p \/ u # t
        PROVE  /\ \A l \in Out(q) : sendSize'[u][l] = sendSize[u][l]
               /\ \A l \in In(q) : recvSize'[u][l] = recvSize[u][l]
    <3>1. CASE u # t
      BY <2>2, <2>3, <3>1
    <3>2. CASE u = t /\ q # p
      BY <1>2, <2>2, <2>3, <3>2
    <3>3. QED
      BY <2>5, <3>1, <3>2
  <2>6. QED
    BY <1>1, <2>4, <2>5
<1>5. QED
  BY <1>3, <1>4

(* No step leaves a size that was computed from an older scheme:           *)
(* filterScheme forgets all of them before the next computeBufferSize.     *)
LEMMA SizesStep ==
  ASSUME ProgramInv, RequestInv, Step, NEW q \in Proc, NEW u \in Tags,
         \A r \in Proc, w \in Tags : SizesOf(r, w)
  PROVE  SizesOf(q, u)'
<1>0. TypeOK
  BY DEF ProgramInv
<1>1. ASSUME NEW p \in Proc, NEW t \in Tags,
             AsynchronousSynchronize(p, t) \/ AsynchronousSynchronizeThrows(p, t)
      PROVE  SizesOf(q, u)'
  <2>1. /\ Begins(p, Async(t)) /\ Async(t) \in Ops /\ pc' = pc /\ pc[p] = "run"
        /\ ComputeBufferSize(p, t) /\ UNCHANGED schemes
    BY <1>1, OpsDistinct DEF AsynchronousSynchronize, AsynchronousSynchronizeThrows, Begins
  <2>2. CASE q = p /\ u = t
    BY <1>0, <2>1, <2>2, ComputeSizes
  <2>3. CASE q # p \/ u # t
    <3>1. Busy(q, u)' <=> Busy(q, u)
      BY <2>1, <2>3, BusyAsync, BusyBegins
    <3>2. /\ sizeKnown'[q][u] = sizeKnown[q][u]
          /\ \A l \in Out(q) : sendSize'[u][l] = sendSize[u][l]
          /\ \A l \in In(q) : recvSize'[u][l] = recvSize[u][l]
      BY <1>0, <2>1, <2>3, ComputeSizes
    <3>3. QED
      BY <2>1, <3>1, <3>2, SizesSame DEF schemes
  <2>4. QED
    BY <2>2, <2>3
<1>2. ASSUME NEW p \in Proc, NEW t \in Tags, BeginWait(p, t)
      PROVE  SizesOf(q, u)'
  <2>1. /\ UNCHANGED <<schemes, sizeKnown, sendSize, recvSize>>
        /\ pc' = [pc EXCEPT ![p] = "wait"] /\ pc[p] = "run"
    BY <1>2 DEF BeginWait, comms, Begins
  <2>2. pc'[q] \in {"run", "wait"} => pc[q] \in {"run", "wait"}
    BY <1>0, <2>1 DEF TypeOK
  <2>3. QED
    BY <1>2, <2>1, <2>2, BeginWaitBusy, SizesSame DEF schemes
<1>3. ASSUME NEW p \in Proc, NEW t \in Tags, NEW l \in Links, Unpack(p, t, l)
      PROVE  SizesOf(q, u)'
  <2>1. UNCHANGED <<prog, at, pc, schemes, sizeKnown, sendSize, recvSize>>
    BY <1>3 DEF Unpack
  <2>2. QED
    BY <2>1, BusySame, SizesSame DEF schemes
<1>4. ASSUME NEW p \in Proc, NEW t \in Tags, EndWait(p, t)
      PROVE  SizesOf(q, u)'
  <2>1. /\ UNCHANGED <<schemes, sizeKnown, sendSize, recvSize>>
        /\ pc' = [pc EXCEPT ![p] = "run"] /\ pc[p] = "wait"
    BY <1>4 DEF EndWait, Waiting
  <2>2. pc'[q] \in {"run", "wait"} => pc[q] \in {"run", "wait"}
    BY <1>0, <2>1 DEF TypeOK
  <2>3. Busy(q, u)' => Busy(q, u)
    BY <1>4, BusyEndWait
  <2>4. QED
    BY <2>1, <2>2, <2>3, SizesSame DEF schemes
<1>5. ASSUME NEW p \in Proc, NEW kept \in [In(p) -> 0 .. Entities], FilterRecv(p, kept)
      PROVE  SizesOf(q, u)'
  <2>1. /\ UNCHANGED <<sendLen, sizeKnown, sendSize, recvSize>>
        /\ recvLen' = [l \in Links |-> IF l \in In(p) THEN kept[l] ELSE recvLen[l]]
    BY <1>5 DEF FilterRecv, comms
  <2>2. /\ Busy(q, u)' <=> Busy(q, u)
        /\ q # p => pc'[q] = pc[q]
        /\ pc'[p] = "filter" /\ ~Busy(p, u)
    BY <1>5, FilterRecvBusy
  <2>3. CASE q = p
    BY <2>2, <2>3 DEF SizesOf
  <2>4. CASE q # p
    <3>1. \A l \in In(q) : recvLen'[l] = recvLen[l]
      BY <2>1, <2>4 DEF In
    <3>2. QED
      BY <2>1, <2>2, <2>4, <3>1, SizesSame
  <2>5. QED
    BY <2>3, <2>4
<1>6. ASSUME NEW p \in Proc, FilterSend(p)
      PROVE  SizesOf(q, u)'
  <2>1. /\ UNCHANGED <<recvLen, sizeKnown, sendSize, recvSize>>
        /\ sendLen' = [l \in Links |-> IF l \in Out(p) THEN Head(keep[l]) ELSE sendLen[l]]
        /\ pc' = [pc EXCEPT ![p] = "drain"] /\ pc[p] = "filter"
    BY <1>6 DEF FilterSend, comms
  <2>2. Busy(q, u)' <=> Busy(q, u)
    BY <1>6, FilteringBusy
  <2>3. CASE q = p
    <3>1. ~Busy(p, u) /\ pc'[p] = "drain"
      BY <1>0, <2>1, FilteringIsIdle DEF TypeOK
    <3>2. QED
      BY <2>2, <2>3, <3>1 DEF SizesOf
  <2>4. CASE q # p
    <3>1. /\ \A l \in Out(q) : sendLen'[l] = sendLen[l]
          /\ pc'[q] = pc[q]
      BY <1>0, <2>1, <2>4 DEF Out, TypeOK
    <3>2. QED
      BY <2>1, <2>2, <3>1, SizesSame
  <2>5. QED
    BY <2>3, <2>4
<1>7. ASSUME NEW p \in Proc, FilterEnd(p)
      PROVE  SizesOf(q, u)'
  <2>1. /\ UNCHANGED <<schemes, sendSize, recvSize>>
        /\ sizeKnown' = [sizeKnown EXCEPT ![p] = [w \in Tags |-> FALSE]]
        /\ pc' = [pc EXCEPT ![p] = "run"] /\ pc[p] = "drain"
    BY <1>7 DEF FilterEnd, InvalidateSizes
  <2>2. Busy(q, u)' <=> Busy(q, u)
    BY <1>7, FilteringBusy
  <2>3. CASE q = p
    <3>1. ~Busy(p, u) /\ ~sizeKnown'[p][u]
      BY <1>0, <2>1, FilteringIsIdle DEF TypeOK
    <3>2. QED
      BY <2>2, <2>3, <3>1 DEF SizesOf
  <2>4. CASE q # p
    <3>1. pc'[q] = pc[q] /\ sizeKnown'[q][u] = sizeKnown[q][u]
      BY <1>0, <2>1, <2>4 DEF TypeOK
    <3>2. QED
      BY <2>1, <2>2, <3>1, SizesSame DEF schemes
  <2>5. QED
    BY <2>3, <2>4
<1>8. ASSUME NEW l \in Links, NEW i \in 1 .. Len(posted[l]), NEW j \in 1 .. Len(sent[l]),
             Match(l, i, j)
      PROVE  SizesOf(q, u)'
  <2>1. UNCHANGED <<prog, at, pc, schemes, sizeKnown, sendSize, recvSize>>
    BY <1>8, MatchSteps DEF Matched, comms
  <2>2. QED
    BY <2>1, BusySame, SizesSame DEF schemes
<1>9. ASSUME UNCHANGED vars
      PROVE  SizesOf(q, u)'
  <2>1. UNCHANGED <<prog, at, pc, schemes, sizeKnown, sendSize, recvSize>>
    BY <1>9 DEF vars, comms, schemes
  <2>2. QED
    BY <2>1, BusySame, SizesSame DEF schemes
<1>10. QED
  BY <1>1, <1>2, <1>3, <1>4, <1>5, <1>6, <1>7, <1>8, <1>9 DEF Step

(* A link leads from one rank to another; each of them has a neighbour.    *)
LEMMA LinkEnds ==
  ASSUME NEW l \in Links
  PROVE  /\ l[1] \in Proc /\ l[2] \in Proc /\ l[1] # l[2]
         /\ \A p : (l \in Out(p) <=> l[1] = p) /\ (l \in In(p) <=> l[2] = p)
         /\ Linked(l[1]) /\ Linked(l[2])
<1>1. l \in Proc \X Proc /\ l[1] # l[2]
  BY LinksAssumption
<1>2. l \in Out(l[1]) /\ l \in In(l[2])
  BY DEF Out, In
<1>3. QED
  BY <1>1, <1>2 DEF Out, In, Linked

(* The lists a receiver has sent and its sender has not taken over can be  *)
(* counted.                                                                *)
LEMMA ToldFinite ==
  ASSUME ProgramInv, NEW l \in Links
  PROVE  IsFiniteSet(Told(l)) /\ Cardinality(Told(l)) \in Nat
<1>1. at[l[2]] \in Nat
  BY WhereRanksAre, LinkEnds
<1>2. IsFiniteSet(1 .. at[l[2]])
  BY <1>1, FS_Interval
<1>3. Told(l) \in SUBSET (1 .. at[l[2]])
  BY DEF Told
<1>4. QED
  BY <1>2, <1>3, FS_Subset, FS_CardinalityType

(* The lists under way on a link stay those of the filters its sender has  *)
(* not been through, when neither of its ends moves.                       *)
LEMMA KeepSame ==
  ASSUME NEW l \in Links, KeepOn(l), UNCHANGED <<prog, at>>,
         pc'[l[1]] = "filter" <=> pc[l[1]] = "filter",
         keep'[l] = keep[l], sendLen'[l] = sendLen[l], recvLen'[l] = recvLen[l]
  PROVE  KeepOn(l)'
<1>1. \A f : Untaken(l, f)' <=> Untaken(l, f)
  BY DEF Untaken
<1>2. Told(l)' = Told(l)
  BY <1>1 DEF Told
<1>3. QED
  BY <1>1, <1>2 DEF KeepOn

(* An operation that drops no entities.                                    *)
LEMMA KeepBegins ==
  ASSUME ProgramInv, NEW p \in Proc, NEW op \in Ops, Begins(p, op), op # Filter,
         pc'[p] # "filter", \A q \in Proc : q # p => pc'[q] = pc[q],
         NEW l \in Links, KeepOn(l),
         keep'[l] = keep[l], sendLen'[l] = sendLen[l], recvLen'[l] = recvLen[l]
  PROVE  KeepOn(l)'
<1>0. /\ ProgramGrows /\ at'[p] = at[p] + 1 /\ prog'[at[p] + 1] = op /\ pc[p] = "run"
      /\ \A q \in Proc : q # p => at'[q] = at[q]
      /\ \A q \in Proc : at[q] \in 0 .. Len(prog) /\ at[q] \in Nat
      /\ Len(prog) \in Nat /\ l[1] \in Proc /\ l[2] \in Proc
  BY BeginsProgram, WhereRanksAre, LinkEnds
<1>1. ASSUME NEW f \in Nat, f # at[p] + 1
      PROVE  Untaken(l, f)' <=> Untaken(l, f)
  <2>1. CASE l[1] = p
    BY <1>0, <1>1, <2>1 DEF Untaken
  <2>2. CASE l[1] # p
    BY <1>0, <2>2 DEF Untaken
  <2>3. QED
    BY <2>1, <2>2
<1>2. \A q \in Proc : \A f \in 1 .. at'[q] : prog'[f] = Filter =>
        f \in 1 .. at[q] /\ prog[f] = Filter /\ f # at[p] + 1 /\ f \in Nat
  <2>1. ASSUME NEW q \in Proc, NEW f \in 1 .. at'[q], prog'[f] = Filter
        PROVE  f \in 1 .. at[q] /\ prog[f] = Filter /\ f # at[p] + 1 /\ f \in Nat
    <3>1. f # at[p] + 1
      BY <1>0, <2>1
    <3>2. f \in 1 .. at[q]
      BY <1>0, <2>1, <3>1
    <3>3. f \in 1 .. Len(prog)
      BY <1>0, <3>2
    <3>4. QED
      BY <1>0, <2>1, <3>1, <3>2, <3>3 DEF ProgramGrows
  <2>2. QED
    BY <2>1
<1>3. \A q \in Proc : \A f \in 1 .. at[q] : prog[f] = Filter =>
        f \in 1 .. at'[q] /\ prog'[f] = Filter
  <2>1. ASSUME NEW q \in Proc, NEW f \in 1 .. at[q], prog[f] = Filter
        PROVE  f \in 1 .. at'[q] /\ prog'[f] = Filter
    <3>1. f \in 1 .. Len(prog) /\ f \in 1 .. at'[q]
      BY <1>0
    <3>2. QED
      BY <1>0, <2>1, <3>1 DEF ProgramGrows
  <2>2. QED
    BY <2>1
<1>4. Told(l)' = Told(l)
  <2>1. \A f \in Told(l)' : f \in Told(l)
    BY <1>0, <1>1, <1>2 DEF Told
  <2>2. \A f \in Told(l) : f \in Told(l)'
    BY <1>0, <1>1, <1>2, <1>3 DEF Told
  <2>3. QED
    BY <2>1, <2>2
<1>5. \A f \in 1 .. at'[l[1]] : prog'[f] = Filter /\ ~Untaken(l, f)' => f <= at'[l[2]]
  <2>1. ASSUME NEW f \in 1 .. at'[l[1]], prog'[f] = Filter, ~Untaken(l, f)'
        PROVE  f <= at'[l[2]]
    <3>1. f \in 1 .. at[l[1]] /\ prog[f] = Filter /\ f # at[p] + 1 /\ f \in Nat
      BY <1>0, <1>2, <2>1
    <3>2. f <= at[l[2]]
      BY <1>1, <2>1, <3>1 DEF KeepOn
    <3>3. QED
      BY <1>0, <3>1, <3>2
  <2>2. QED
    BY <2>1
<1>6. QED
  BY <1>4, <1>5 DEF KeepOn

(* The receiver of l drops entities and tells the sender.                  *)
LEMMA KeepTold ==
  ASSUME ProgramInv, NEW p \in Proc, NEW kept \in [In(p) -> 0 .. Entities],
         FilterRecv(p, kept), NEW l \in Links, l[2] = p, KeepOn(l)
  PROVE  KeepOn(l)'
<1>n. PICK n \in Nat : n = at[p]
  BY WhereRanksAre
<1>0. /\ TypeOK /\ Begins(p, Filter) /\ Filter \in Ops /\ l \in In(p)
      /\ pc' = [pc EXCEPT ![p] = "filter"]
      /\ recvLen' = [k \in Links |-> IF k \in In(p) THEN kept[k] ELSE recvLen[k]]
      /\ keep' = [k \in Links |-> IF k \in In(p) THEN Append(keep[k], kept[k]) ELSE keep[k]]
      /\ sendLen' = sendLen
  BY LinkEnds DEF ProgramInv, FilterRecv, Tell, Ops
<1>1. /\ ProgramGrows /\ at'[p] = n + 1 /\ prog'[n + 1] = Filter
      /\ l[1] \in Proc /\ l[1] # p /\ at'[l[1]] = at[l[1]] /\ pc'[l[1]] = pc[l[1]]
      /\ at[l[1]] \in 0 .. Len(prog) /\ n \in 0 .. Len(prog) /\ Len(prog) \in Nat
  <2>1. l[1] \in Proc /\ l[1] # p
    BY LinkEnds
  <2>2. ProgramGrows /\ at'[p] = n + 1 /\ prog'[n + 1] = Filter /\ at'[l[1]] = at[l[1]]
    BY <1>n, <1>0, <2>1, BeginsProgram
  <2>3. at[l[1]] \in 0 .. Len(prog) /\ n \in 0 .. Len(prog) /\ Len(prog) \in Nat
    BY <1>n, <2>1, WhereRanksAre
  <2>4. pc'[l[1]] = pc[l[1]]
    BY <1>0, <2>1 DEF TypeOK
  <2>5. QED
    BY <2>1, <2>2, <2>3, <2>4
<1>2. \A f : Untaken(l, f)' <=> Untaken(l, f)
  BY <1>1 DEF Untaken
<1>3. Untaken(l, n + 1)
  <2>1. ASSUME ~Untaken(l, n + 1)
        PROVE  FALSE
    <3>1. n + 1 \in 1 .. at[l[1]] /\ n + 1 \in 1 .. Len(prog)
      BY <1>1, <2>1 DEF Untaken
    <3>2. prog[n + 1] = Filter
      BY <1>1, <3>1 DEF ProgramGrows
    <3>3. n + 1 <= at[l[2]]
      BY <2>1, <3>1, <3>2 DEF KeepOn
    <3>4. QED
      BY <1>n, <3>3
  <2>2. QED
    BY <2>1
<1>4. Told(l)' = Told(l) \cup {n + 1} /\ n + 1 \notin Told(l)
  <2>1. /\ \A f \in 1 .. (n + 1) : f \in 1 .. n \/ f = n + 1
        /\ \A f \in 1 .. n : f \in 1 .. (n + 1) /\ prog'[f] = prog[f] /\ f # n + 1
        /\ n + 1 \in 1 .. (n + 1)
    <3>1. 1 .. n \subseteq 1 .. Len(prog)
      BY <1>1
    <3>2. \A f \in 1 .. n : prog'[f] = prog[f]
      BY <1>1, <3>1 DEF ProgramGrows
    <3>3. QED
      BY <3>2
  <2>2. /\ Told(l) = {f \in 1 .. n : prog[f] = Filter /\ Untaken(l, f)}
        /\ Told(l)' = {f \in 1 .. (n + 1) : prog'[f] = Filter /\ Untaken(l, f)'}
    BY <1>n, <1>1 DEF Told
  <2>3. QED
    BY <1>1, <1>2, <1>3, <2>1, <2>2
<1>5. Cardinality(Told(l)') = Cardinality(Told(l)) + 1
  BY <1>4, ToldFinite, FS_AddElement
<1>6. /\ keep'[l] = Append(keep[l], kept[l]) /\ recvLen'[l] = kept[l]
      /\ Len(keep'[l]) = Len(keep[l]) + 1 /\ keep'[l] # <<>>
      /\ Last(keep'[l]) = recvLen'[l]
  <2>1. keep[l] \in Seq(0 .. Entities) /\ kept[l] \in 0 .. Entities
    BY <1>0 DEF TypeOK
  <2>2. keep'[l] = Append(keep[l], kept[l]) /\ recvLen'[l] = kept[l]
    BY <1>0
  <2>3. QED
    BY <2>1, <2>2, AppendProperties DEF Last
<1>7. \A f \in 1 .. at'[l[1]] : prog'[f] = Filter /\ ~Untaken(l, f)' => f <= at'[l[2]]
  <2>1. ASSUME NEW f \in 1 .. at'[l[1]], prog'[f] = Filter, ~Untaken(l, f)'
        PROVE  f <= at'[l[2]]
    <3>1. f \in 1 .. at[l[1]] /\ prog[f] = Filter /\ ~Untaken(l, f)
      BY <1>1, <1>2, <2>1 DEF ProgramGrows
    <3>2. f <= n /\ f \in Nat
      BY <1>n, <3>1 DEF KeepOn
    <3>3. QED
      BY <1>1, <3>2
  <2>2. QED
    BY <2>1
<1>8. Len(keep[l]) = Cardinality(Told(l))
  BY DEF KeepOn
<1>9. QED
  BY <1>5, <1>6, <1>7, <1>8 DEF KeepOn

(* The sender of l begins to drop entities, and has not been told anew.    *)
LEMMA KeepAwaited ==
  ASSUME ProgramInv, NEW p \in Proc, NEW kept \in [In(p) -> 0 .. Entities],
         FilterRecv(p, kept), NEW l \in Links, l[2] # p, KeepOn(l)
  PROVE  KeepOn(l)'
<1>0. /\ TypeOK /\ Begins(p, Filter) /\ Filter \in Ops /\ l \notin In(p)
      /\ pc' = [pc EXCEPT ![p] = "filter"]
      /\ recvLen'[l] = recvLen[l] /\ keep'[l] = keep[l] /\ sendLen'[l] = sendLen[l]
  BY LinkEnds DEF ProgramInv, FilterRecv, Ops
<1>1. /\ ProgramGrows /\ at'[p] = at[p] + 1 /\ pc[p] = "run" /\ pc'[p] = "filter"
      /\ l[1] \in Proc /\ l[2] \in Proc /\ at'[l[2]] = at[l[2]]
      /\ \A q \in Proc : q # p => at'[q] = at[q] /\ pc'[q] = pc[q]
      /\ \A q \in Proc : at[q] \in 0 .. Len(prog) /\ at[q] \in Nat
      /\ Len(prog) \in Nat
  <2>1. /\ ProgramGrows /\ at'[p] = at[p] + 1 /\ pc[p] = "run"
        /\ \A q \in Proc : q # p => at'[q] = at[q]
    BY <1>0, BeginsProgram
  <2>2. l[1] \in Proc /\ l[2] \in Proc /\ l[2] # p
    BY LinkEnds
  <2>3. pc'[p] = "filter" /\ \A q \in Proc : q # p => pc'[q] = pc[q]
    BY <1>0 DEF TypeOK
  <2>4. \A q \in Proc : at[q] \in 0 .. Len(prog) /\ at[q] \in Nat
    BY WhereRanksAre
  <2>5. Len(prog) \in Nat
    BY WhereRanksAre
  <2>6. QED
    BY <2>1, <2>2, <2>3, <2>4, <2>5
<1>2. \A f \in Nat : Untaken(l, f)' <=> Untaken(l, f)
  <2>1. CASE l[1] = p
    BY <1>1, <2>1 DEF Untaken
  <2>2. CASE l[1] # p
    BY <1>1, <2>2 DEF Untaken
  <2>3. QED
    BY <2>1, <2>2
<1>3. Told(l)' = Told(l)
  <2>1. \A f \in 1 .. at[l[2]] : prog'[f] = prog[f] /\ f \in Nat
    BY <1>1 DEF ProgramGrows
  <2>2. QED
    BY <1>1, <1>2, <2>1 DEF Told
<1>4. \A f \in 1 .. at'[l[1]] : prog'[f] = Filter /\ ~Untaken(l, f)' => f <= at'[l[2]]
  <2>1. ASSUME NEW f \in 1 .. at'[l[1]], prog'[f] = Filter, ~Untaken(l, f)'
        PROVE  f <= at'[l[2]]
    <3>1. ~Untaken(l, f) /\ f \in Nat
      BY <1>2, <2>1
    <3>2. f \in 1 .. at[l[1]]
      BY <1>1, <2>1, <3>1 DEF Untaken
    <3>3. prog[f] = Filter
      BY <1>1, <2>1, <3>2 DEF ProgramGrows
    <3>4. QED
      BY <1>1, <3>1, <3>2, <3>3 DEF KeepOn
  <2>2. QED
    BY <2>1
<1>5. QED
  BY <1>0, <1>3, <1>4 DEF KeepOn

(* What the sender of l takes is what the receiver told in the same        *)
(* operation.                                                              *)
LEMMA TakesOwnFilter ==
  ASSUME ProgramInv, NEW p \in Proc, FilterSend(p), NEW l \in Links, l[1] = p, KeepOn(l)
  PROVE  at[p] \in Told(l) /\ at[p] <= at[l[2]] /\ prog[at[p]] = Filter
<1>1. /\ pc[p] = "filter" /\ keep[l] # <<>> /\ at[p] \in Nat /\ at[p] >= 1
      /\ prog[at[p]] = Filter /\ at[l[2]] \in Nat
  BY LinkEnds, WhereRanksAre DEF ProgramInv, RankInProgram, FilterSend
<1>2. Told(l) # {}
  <2>1. keep[l] \in Seq(0 .. Entities)
    BY DEF ProgramInv, TypeOK
  <2>2. Len(keep[l]) # 0
    BY <1>1, <2>1, EmptySeq
  <2>3. Cardinality(Told(l)) # 0
    BY <2>2 DEF KeepOn
  <2>4. QED
    BY <2>3, FS_EmptySet
<1>3. PICK f \in 1 .. at[l[2]] : Untaken(l, f)
  BY <1>2 DEF Told
<1>4. f >= at[p]
  BY <1>1, <1>3 DEF Untaken
<1>5. at[p] \in 1 .. at[l[2]] /\ Untaken(l, at[p])
  BY <1>1, <1>3, <1>4 DEF Untaken
<1>6. QED
  BY <1>1, <1>5 DEF Told

(* The sender takes over the first list under way: that of the filter it   *)
(* is in.                                                                  *)
LEMMA KeepTaken ==
  ASSUME ProgramInv, NEW p \in Proc, FilterSend(p), NEW l \in Links, l[1] = p, KeepOn(l)
  PROVE  KeepOn(l)'
<1>n. PICK n \in Nat : n = at[p]
  BY WhereRanksAre
<1>0. /\ TypeOK /\ l \in Out(p) /\ UNCHANGED <<prog, at, recvLen>> /\ keep[l] # <<>>
      /\ pc' = [pc EXCEPT ![p] = "drain"] /\ pc[p] = "filter"
      /\ sendLen'[l] = Head(keep[l]) /\ keep'[l] = Tail(keep[l])
  BY LinkEnds DEF ProgramInv, FilterSend
<1>1. n \in Told(l) /\ n <= at[l[2]]
  BY <1>n, TakesOwnFilter
<1>2. \A f \in Nat : Untaken(l, f)' <=> Untaken(l, f) /\ f # n
  <2>1. pc'[p] = "drain"
    BY <1>0 DEF TypeOK
  <2>2. QED
    BY <1>n, <1>0, <2>1 DEF Untaken
<1>3. Told(l)' = Told(l) \ {n}
  BY <1>0, <1>2 DEF Told
<1>4. Cardinality(Told(l)') = Cardinality(Told(l)) - 1
  BY <1>1, <1>3, ToldFinite, FS_RemoveElement
<1>5. /\ keep[l] \in Seq(0 .. Entities) /\ Len(keep[l]) \in Nat
      /\ Tail(keep[l]) \in Seq(0 .. Entities)
      /\ Len(Tail(keep[l])) = Len(keep[l]) - 1
      /\ \A i \in 1 .. Len(Tail(keep[l])) : Tail(keep[l])[i] = keep[l][i + 1]
      /\ Len(keep[l]) >= 1
  <2>1. keep[l] \in Seq(0 .. Entities)
    BY <1>0 DEF TypeOK
  <2>2. Len(keep[l]) \in Nat /\ Len(keep[l]) # 0
    BY <1>0, <2>1, EmptySeq, LenProperties
  <2>3. /\ Tail(keep[l]) \in Seq(0 .. Entities)
        /\ Len(Tail(keep[l])) = Len(keep[l]) - 1
        /\ \A i \in 1 .. Len(Tail(keep[l])) : Tail(keep[l])[i] = keep[l][i + 1]
    BY <1>0, <2>1, HeadTailProperties
  <2>4. QED
    BY <2>1, <2>2, <2>3
<1>6. recvLen'[l] = IF keep'[l] = <<>> THEN sendLen'[l] ELSE Last(keep'[l])
  <2>1. recvLen[l] = keep[l][Len(keep[l])] /\ Head(keep[l]) = keep[l][1]
    BY <1>0, <1>5 DEF KeepOn, Last
  <2>2. CASE Tail(keep[l]) = <<>>
    <3>1. Len(keep[l]) = 1
      <4>1. Len(Tail(keep[l])) = 0
        BY <2>2, EmptySeq
      <4>2. QED
        BY <1>5, <4>1
    <3>2. QED
      BY <1>0, <2>1, <2>2, <3>1
  <2>3. CASE Tail(keep[l]) # <<>>
    <3>1. Len(Tail(keep[l])) >= 1
      BY <1>5, <2>3, EmptySeq
    <3>2. Tail(keep[l])[Len(Tail(keep[l]))] = keep[l][Len(keep[l])]
      BY <1>5, <3>1
    <3>3. QED
      BY <1>0, <2>1, <2>3, <3>2 DEF Last
  <2>4. QED
    BY <2>2, <2>3
<1>7. \A f \in 1 .. at'[l[1]] : prog'[f] = Filter /\ ~Untaken(l, f)' => f <= at'[l[2]]
  BY <1>0, <1>1, <1>2 DEF KeepOn
<1>8. Len(keep'[l]) = Cardinality(Told(l)')
  BY <1>0, <1>4, <1>5 DEF KeepOn
<1>9. QED
  BY <1>6, <1>7, <1>8 DEF KeepOn

(* No step breaks what is said of the lists under way on a link.           *)
LEMMA KeepStep ==
  ASSUME ProgramInv, RequestInv, Step, NEW l \in Links, KeepOn(l)
  PROVE  KeepOn(l)'
<1>0. /\ TypeOK /\ l[1] \in Proc /\ l[2] \in Proc /\ l[1] # l[2]
      /\ \A p : (l \in Out(p) <=> l[1] = p) /\ (l \in In(p) <=> l[2] = p)
  BY LinkEnds DEF ProgramInv
<1>1. ASSUME NEW p \in Proc, NEW t \in Tags, AsynchronousSynchronize(p, t)
      PROVE  KeepOn(l)'
  <2>1. /\ Begins(p, Async(t)) /\ Async(t) \in Ops /\ Async(t) # Filter
        /\ pc' = pc /\ UNCHANGED <<keep, sendLen, recvLen>>
    BY <1>1, OpsDistinct DEF AsynchronousSynchronize, schemes
  <2>2. pc'[p] # "filter"
    BY <2>1 DEF Begins
  <2>3. QED
    BY <2>1, <2>2, KeepBegins
<1>2. ASSUME NEW p \in Proc, NEW t \in Tags, AsynchronousSynchronizeThrows(p, t)
      PROVE  KeepOn(l)'
  <2>1. /\ Begins(p, Async(t)) /\ Async(t) \in Ops /\ Async(t) # Filter
        /\ pc' = pc /\ UNCHANGED <<keep, sendLen, recvLen>>
    BY <1>2, OpsDistinct DEF AsynchronousSynchronizeThrows, schemes
  <2>2. pc'[p] # "filter"
    BY <2>1 DEF Begins
  <2>3. QED
    BY <2>1, <2>2, KeepBegins
<1>3. ASSUME NEW p \in Proc, NEW t \in Tags, BeginWait(p, t)
      PROVE  KeepOn(l)'
  <2>1. /\ Begins(p, Wait(t)) /\ Wait(t) \in Ops /\ Wait(t) # Filter
        /\ pc' = [pc EXCEPT ![p] = "wait"] /\ UNCHANGED <<keep, sendLen, recvLen>>
    BY <1>3, OpsDistinct DEF BeginWait, schemes, mpi
  <2>2. pc'[p] # "filter" /\ \A q \in Proc : q # p => pc'[q] = pc[q]
    BY <1>0, <2>1 DEF TypeOK
  <2>3. QED
    BY <2>1, <2>2, KeepBegins
<1>4. ASSUME NEW p \in Proc, NEW t \in Tags, NEW k \in Links, Unpack(p, t, k)
      PROVE  KeepOn(l)'
  <2>1. UNCHANGED <<prog, at, pc, keep, sendLen, recvLen>>
    BY <1>4 DEF Unpack, schemes, mpi
  <2>2. QED
    BY <2>1, KeepSame
<1>5. ASSUME NEW p \in Proc, NEW t \in Tags, EndWait(p, t)
      PROVE  KeepOn(l)'
  <2>1. UNCHANGED <<prog, at, keep, sendLen, recvLen>> /\ pc[p] = "wait"
        /\ pc' = [pc EXCEPT ![p] = "run"]
    BY <1>5 DEF EndWait, Waiting, schemes, mpi
  <2>2. pc'[l[1]] = "filter" <=> pc[l[1]] = "filter"
    BY <1>0, <2>1 DEF TypeOK
  <2>3. QED
    BY <2>1, <2>2, KeepSame
<1>6. ASSUME NEW p \in Proc, NEW kept \in [In(p) -> 0 .. Entities], FilterRecv(p, kept)
      PROVE  KeepOn(l)'
  BY <1>6, KeepTold, KeepAwaited
<1>7. ASSUME NEW p \in Proc, FilterSend(p)
      PROVE  KeepOn(l)'
  <2>1. CASE l[1] = p
    BY <1>7, <2>1, KeepTaken
  <2>2. CASE l[1] # p
    <3>1. /\ UNCHANGED <<prog, at, recvLen>> /\ pc' = [pc EXCEPT ![p] = "drain"]
          /\ keep'[l] = keep[l] /\ sendLen'[l] = sendLen[l]
      BY <1>0, <1>7, <2>2 DEF FilterSend
    <3>2. pc'[l[1]] = "filter" <=> pc[l[1]] = "filter"
      BY <1>0, <2>2, <3>1 DEF TypeOK
    <3>3. QED
      BY <3>1, <3>2, KeepSame
  <2>3. QED
    BY <2>1, <2>2
<1>8. ASSUME NEW p \in Proc, FilterEnd(p)
      PROVE  KeepOn(l)'
  <2>1. UNCHANGED <<prog, at, keep, sendLen, recvLen>> /\ pc[p] = "drain"
        /\ pc' = [pc EXCEPT ![p] = "run"]
    BY <1>8 DEF FilterEnd, schemes, mpi
  <2>2. pc'[l[1]] = "filter" <=> pc[l[1]] = "filter"
    BY <1>0, <2>1 DEF TypeOK
  <2>3. QED
    BY <2>1, <2>2, KeepSame
<1>9. ASSUME NEW k \in Links, NEW i \in 1 .. Len(posted[k]), NEW j \in 1 .. Len(sent[k]),
             Match(k, i, j)
      PROVE  KeepOn(l)'
  <2>1. UNCHANGED <<prog, at, pc, keep, sendLen, recvLen>>
    BY <1>9, MatchSteps DEF Matched, schemes
  <2>2. QED
    BY <2>1, KeepSame
<1>10. ASSUME UNCHANGED vars
       PROVE  KeepOn(l)'
  <2>1. UNCHANGED <<prog, at, pc, keep, sendLen, recvLen>>
    BY <1>10 DEF vars, schemes, mpi
  <2>2. QED
    BY <2>1, KeepSame
<1>11. QED
  BY <1>1, <1>2, <1>3, <1>4, <1>5, <1>6, <1>7, <1>8, <1>9, <1>10 DEF Step

(* Every step keeps what the ranks know of sizes and schemes.              *)
LEMMA SchemeStep ==
  ASSUME ProgramInv, RequestInv, SchemeInv, Step
  PROVE  SchemeInv'
BY SizesStep, KeepStep DEF SchemeInv

-----------------------------------------------------------------------------
(* Messages and receives.                                                  *)

(* The elements of a sequence and of one more.                             *)
LEMMA AppendElements ==
  ASSUME NEW S, NEW s \in Seq(S), NEW e \in S
  PROVE  Elements(Append(s, e)) = Elements(s) \cup {e}
<1>1. /\ Len(s) \in Nat /\ Len(Append(s, e)) = Len(s) + 1
      /\ \A k \in 1 .. Len(s) : Append(s, e)[k] = s[k]
      /\ Append(s, e)[Len(s) + 1] = e
  BY AppendProperties, LenProperties
<1>2. ASSUME NEW x \in Elements(Append(s, e))
      PROVE  x \in Elements(s) \cup {e}
  <2>1. PICK k \in 1 .. Len(Append(s, e)) : x = Append(s, e)[k]
    BY DEF Elements
  <2>2. k \in 1 .. Len(s) \/ k = Len(s) + 1
    BY <1>1
  <2>3. QED
    BY <1>1, <2>1, <2>2 DEF Elements
<1>3. ASSUME NEW k \in 1 .. Len(s)
      PROVE  s[k] \in Elements(Append(s, e))
  <2>1. k \in 1 .. Len(Append(s, e)) /\ Append(s, e)[k] = s[k]
    BY <1>1
  <2>2. QED
    BY <2>1 DEF Elements
<1>4. e \in Elements(Append(s, e))
  <2>1. Len(s) + 1 \in 1 .. Len(Append(s, e))
    BY <1>1
  <2>2. QED
    BY <1>1, <2>1 DEF Elements
<1>5. QED
  BY <1>2, <1>3, <1>4 DEF Elements

(* The elements of a sequence of S are in S; only the empty sequence has   *)
(* none.                                                                   *)
LEMMA ElementsTyped ==
  ASSUME NEW S, NEW s \in Seq(S)
  PROVE  /\ Elements(s) \subseteq S /\ Len(s) \in Nat
         /\ Elements(s) = {} <=> s = <<>>
<1>1. Len(s) \in Nat /\ \A k \in 1 .. Len(s) : s[k] \in S
  BY ElementOfSeq, LenProperties
<1>2. ASSUME s # <<>>
      PROVE  Elements(s) # {}
  <2>1. Len(s) # 0
    BY <1>2, EmptySeq
  <2>2. 1 \in 1 .. Len(s)
    BY <1>1, <2>1
  <2>3. QED
    BY <2>2 DEF Elements
<1>3. ASSUME s = <<>>
      PROVE  Elements(s) = {}
  <2>1. Len(s) = 0
    BY <1>3, EmptySeq
  <2>2. QED
    BY <2>1 DEF Elements
<1>4. QED
  BY <1>1, <1>2, <1>3 DEF Elements

(* A message under way is of a tag.                                        *)
LEMMA MessageTags ==
  ASSUME ProgramInv, NEW l \in Links, NEW m \in Elements(sent[l])
  PROVE  m \in Message /\ m.tag \in Tags
<1>1. sent[l] \in Seq(Message)
  BY DEF ProgramInv, TypeOK
<1>2. Elements(sent[l]) \subseteq Message
  BY <1>1, ElementsTyped
<1>3. QED
  BY <1>2 DEF Message

(* The last operation a rank has published.                                *)
LEMMA LastPublishedProperties ==
  ASSUME ProgramInv, PublishedInv, NEW q \in Proc, NEW u \in Tags, Linked(q)
  PROVE  /\ LastPublished(q, u) \in Nat /\ LastPublished(q, u) \in 0 .. at[q]
         /\ LastPublished(q, u) \in 0 .. Len(prog)
         /\ published[q][u] # <<>> =>
              LastPublished(q, u) >= 1 /\ Publishes(LastPublished(q, u), u)
         /\ Busy(q, u) => published[q][u] # <<>>
<1>1. /\ published[q][u] \in Seq(Nat) /\ Len(published[q][u]) \in Nat
      /\ \A k \in 1 .. Len(published[q][u]) : published[q][u][k] \in 1 .. MaxOps
      /\ published[q][u] # <<>> => Len(published[q][u]) >= 1
      /\ at[q] \in 0 .. Len(prog) /\ Len(prog) \in Nat /\ MaxOps \in Nat
  BY PublishedType, WhereRanksAre
<1>2. \A k \in 1 .. Len(published[q][u]) :
        published[q][u][k] <= at[q] /\ Publishes(published[q][u][k], u)
  BY DEF PublishedInv, PublishedBy
<1>3. CASE published[q][u] = <<>>
  BY <1>1, <1>3 DEF LastPublished, PublishedInv, UnfilteredSince
<1>4. CASE published[q][u] # <<>>
  <2>1. PICK k \in 1 .. Len(published[q][u]) : LastPublished(q, u) = published[q][u][k]
    <3>1. LastPublished(q, u) = published[q][u][Len(published[q][u])]
      BY <1>4 DEF LastPublished, Last
    <3>2. Len(published[q][u]) \in 1 .. Len(published[q][u])
      BY <1>1, <1>4
    <3>3. QED
      BY <3>1, <3>2
  <2>2. PICK x : x = LastPublished(q, u)
    OBVIOUS
  <2>3. x \in 1 .. MaxOps /\ x <= at[q] /\ Publishes(x, u)
    BY <1>1, <1>2, <2>1, <2>2
  <2>4. QED
    BY <1>1, <1>4, <2>2, <2>3
<1>5. QED
  BY <1>3, <1>4

(* What a busy rank posted and published is past every dropping of         *)
(* entities.                                                               *)
LEMMA BusyUnfiltered ==
  ASSUME ProgramInv, PublishedInv, NEW q \in Proc, NEW u \in Tags, Linked(q), Busy(q, u),
         NEW f \in 1 .. at[q], prog[f] = Filter
  PROVE  f < LastPublished(q, u)
BY DEF PublishedInv, UnfilteredSince

(* The operation an active request belongs to.                             *)
LEMMA ActiveRequest ==
  ASSUME ProgramInv, RequestInv, PublishedInv, NEW l \in Links, NEW u \in Tags,
         request[u][l] = "active"
  PROVE  /\ Busy(l[2], u)
         /\ LastPublished(l[2], u) \in 1 .. at[l[2]]
         /\ LastPublished(l[2], u) \in 1 .. Len(prog)
         /\ Publishes(LastPublished(l[2], u), u)
         /\ InPosted(l, LastPublished(l[2], u), u)
<1>1. l[2] \in Proc /\ Linked(l[2]) /\ l \in In(l[2])
  BY LinkEnds
<1>2. Busy(l[2], u)
  BY <1>1 DEF RequestInv, RequestsOf
<1>3. /\ LastPublished(l[2], u) \in 0 .. at[l[2]] /\ LastPublished(l[2], u) >= 1
      /\ LastPublished(l[2], u) \in 0 .. Len(prog)
      /\ Publishes(LastPublished(l[2], u), u)
  BY <1>1, <1>2, LastPublishedProperties
<1>4. QED
  BY <1>2, <1>3 DEF InPosted

(* A message or a receive that a step leaves alone.                        *)
LEMMA SentAtSame ==
  ASSUME ProgramInv, ProgramGrows, NEW l \in Links, NEW m \in Message, SentAt(l, m),
         sendLen'[l] = sendLen[l], at'[l[1]] = at[l[1]] \/ at'[l[1]] = at[l[1]] + 1,
         ~m.buffered => Busy(l[1], m.tag)' /\ sendBuf'[m.tag][l] = sendBuf[m.tag][l]
  PROVE  SentAt(l, m)'
<1>1. m.tag \in Tags /\ m.value \in Nat
  BY DEF Message
<1>2. at[l[1]] \in 0 .. Len(prog) /\ at[l[1]] \in Nat /\ Len(prog) \in Nat
  BY LinkEnds, WhereRanksAre
<1>3. m.value \in 1 .. Len(prog) /\ m.value \in 0 .. Len(prog) /\ m.value \in 1 .. at'[l[1]]
  BY <1>1, <1>2 DEF SentAt
<1>4. Publishes(m.value, m.tag)'
  <2>1. Publishes(m.value, m.tag)
    BY DEF SentAt
  <2>2. QED
    BY <1>1, <1>2, <1>3, <2>1, ProgramStable
<1>5. Count(m.tag, m.value)' = Count(m.tag, m.value)
  BY <1>1, <1>2, <1>3, ProgramStable
<1>6. m.wire = Wire(m.tag, Count(m.tag, m.value))'
  BY <1>5 DEF SentAt, Wire
<1>7. QED
  BY <1>3, <1>4, <1>6 DEF SentAt

(* A posted receive stays right when its receiver publishes nothing more   *)
(* of the tag and keeps its scheme.                                        *)
LEMMA PostedAtSame ==
  ASSUME ProgramInv, PublishedInv, ProgramGrows, NEW l \in Links, NEW r \in Receive,
         PostedAt(l, r), recvLen'[l] = recvLen[l],
         published'[l[2]][r.tag] = published[l[2]][r.tag]
  PROVE  PostedAt(l, r)'
<1>1. r.tag \in Tags /\ l[2] \in Proc /\ Linked(l[2])
  BY LinkEnds DEF Receive
<1>2. Len(prog) \in Nat
  BY WhereRanksAre
<1>3. PICK n : n = LastPublished(l[2], r.tag)
  OBVIOUS
<1>4. n \in 0 .. Len(prog)
  BY <1>1, <1>3, LastPublishedProperties
<1>5. LastPublished(l[2], r.tag)' = n
  BY <1>3 DEF LastPublished
<1>6. Count(r.tag, n)' = Count(r.tag, n)
  BY <1>1, <1>2, <1>4, ProgramStable
<1>7. Count(r.tag, LastPublished(l[2], r.tag))' = Count(r.tag, n)'
  BY <1>5 DEF Count, Starts
<1>8. QED
  BY <1>3, <1>6, <1>7 DEF PostedAt, Wire

(* The messages and the receives of a link that a step leaves alone.       *)
LEMMA SentOnSame ==
  ASSUME ProgramInv, ProgramGrows, NEW l \in Links, SentOn(l), sent'[l] = sent[l],
         sendLen'[l] = sendLen[l], at'[l[1]] = at[l[1]] \/ at'[l[1]] = at[l[1]] + 1,
         \A m \in Elements(sent[l]) : ~m.buffered /\ Busy(l[1], m.tag) =>
           Busy(l[1], m.tag)' /\ sendBuf'[m.tag][l] = sendBuf[m.tag][l]
  PROVE  SentOn(l)'
<1>1. \A m \in Elements(sent[l]) : SentAt(l, m)'
  <2>1. sent[l] \in Seq(Message)
    BY DEF ProgramInv, TypeOK
  <2>2. Elements(sent[l]) \subseteq Message
    BY <2>1, ElementsTyped
  <2>3. ASSUME NEW m \in Elements(sent[l])
        PROVE  SentAt(l, m)'
    <3>1. SentAt(l, m) /\ m \in Message
      BY <2>2 DEF SentOn
    <3>2. ~m.buffered => Busy(l[1], m.tag)' /\ sendBuf'[m.tag][l] = sendBuf[m.tag][l]
      BY <3>1 DEF SentAt
    <3>3. QED
      BY <3>1, <3>2, SentAtSame
  <2>4. QED
    BY <2>3
<1>2. QED
  BY <1>1 DEF SentOn

(* All receives posted on a link stay right under the same condition.      *)
LEMMA ReceivesOnSame ==
  ASSUME ProgramInv, PublishedInv, ProgramGrows, NEW l \in Links, ReceivesOn(l),
         posted'[l] = posted[l], recvLen'[l] = recvLen[l],
         \A r \in Elements(posted[l]) : published'[l[2]][r.tag] = published[l[2]][r.tag]
  PROVE  ReceivesOn(l)'
<1>1. \A r \in Elements(posted[l]) : PostedAt(l, r)'
  <2>1. posted[l] \in Seq(Receive)
    BY DEF ProgramInv, TypeOK
  <2>2. Elements(posted[l]) \subseteq Receive
    BY <2>1, ElementsTyped
  <2>3. ASSUME NEW r \in Elements(posted[l])
        PROVE  PostedAt(l, r)'
    BY <2>2, PostedAtSame DEF ReceivesOn
  <2>4. QED
    BY <2>3
<1>2. ASSUME NEW i \in 1 .. Len(posted[l]), NEW j \in 1 .. Len(posted[l]), i < j
      PROVE  (LastPublished(l[2], posted[l][i].tag) < LastPublished(l[2], posted[l][j].tag))'
  <2>1. PICK a, b : a = posted[l][i].tag /\ b = posted[l][j].tag
    OBVIOUS
  <2>2. LastPublished(l[2], a) < LastPublished(l[2], b)
    BY <1>2, <2>1 DEF ReceivesOn
  <2>3. published'[l[2]][a] = published[l[2]][a] /\ published'[l[2]][b] = published[l[2]][b]
    BY <2>1 DEF Elements
  <2>4. posted'[l][i].tag = a /\ posted'[l][j].tag = b
    BY <2>1
  <2>5. QED
    BY <2>2, <2>3, <2>4 DEF LastPublished
<1>3. \A r \in Elements(posted'[l]) : PostedAt(l, r)'
  BY <1>1
<1>4. \A i, j \in 1 .. Len(posted'[l]) : i < j =>
        (LastPublished(l[2], posted[l][i].tag) < LastPublished(l[2], posted[l][j].tag))'
  BY <1>2
<1>5. QED
  BY <1>3, <1>4 DEF ReceivesOn

(* An operation has its message and its receive where it had them.         *)
LEMMA BeginsIndex ==
  ASSUME ProgramInv, NEW p \in Proc, NEW op \in Ops, Begins(p, op),
         NEW i \in 1 .. Len(prog'), i # at[p] + 1
  PROVE  /\ i \in 1 .. Len(prog)
         /\ \A q \in Proc : i <= at'[q] <=> i <= at[q]
<1>1. /\ Len(prog) \in Nat /\ at[p] \in 0 .. Len(prog) /\ at'[p] = at[p] + 1
      /\ \A q \in Proc : (q # p => at'[q] = at[q]) /\ at[q] \in Nat
  BY BeginsProgram, WhereRanksAre
<1>2. prog' = prog \/ (at[p] = Len(prog) /\ prog' = Append(prog, op))
  BY DEF Begins
<1>3. i \in 1 .. Len(prog)
  <2>1. CASE prog' = prog
    BY <2>1
  <2>2. CASE at[p] = Len(prog) /\ prog' = Append(prog, op)
    <3>1. prog \in Seq(Ops)
      BY DEF ProgramInv, TypeOK
    <3>2. Len(prog') = Len(prog) + 1
      BY <2>2, <3>1, AppendProperties
    <3>3. QED
      BY <1>1, <2>2, <3>2
  <2>3. QED
    BY <1>2, <2>1, <2>2
<1>4. QED
  BY <1>1, <1>3

(* An operation stays in step on a link when nothing is sent, matched or   *)
(* begun.                                                                  *)
LEMMA InStepSame ==
  ASSUME NEW l \in Links, InStepOn(l), UNCHANGED <<prog, at>>, sent'[l] = sent[l],
         \A u \in Tags : /\ request'[u][l] = "active" <=> request[u][l] = "active"
                         /\ published'[l[2]][u] = published[l[2]][u]
  PROVE  InStepOn(l)'
<1>1. \A i : InSent(l, i)' <=> InSent(l, i)
  BY DEF InSent
<1>2. \A i : \A u \in Tags : InPosted(l, i, u)' <=> InPosted(l, i, u)
  BY DEF InPosted, LastPublished
<1>3. \A i : \A u \in Tags : Publishes(i, u)' <=> Publishes(i, u)
  BY DEF Publishes, Open
<1>4. QED
  BY <1>1, <1>2, <1>3 DEF InStepOn, InStep

(* A rank begins an operation: the others it has published, or will        *)
(* publish, stay in step on its links.                                     *)
LEMMA InStepBegins ==
  ASSUME ProgramInv, NEW p \in Proc, NEW op \in Ops, Begins(p, op), NEW l \in Links,
         InStepOn(l), NEW u \in Tags, NEW i \in 1 .. Len(prog'), i # at[p] + 1,
         Publishes(i, u)',
         InSent(l, i)' <=> InSent(l, i), InPosted(l, i, u)' <=> InPosted(l, i, u)
  PROVE  InStep(l, i, u)'
<1>1. /\ i \in 1 .. Len(prog) /\ \A q \in Proc : i <= at'[q] <=> i <= at[q]
      /\ l[1] \in Proc /\ l[2] \in Proc
      /\ \A q \in Proc : at[q] \in Nat /\ at'[q] \in Nat
  <2>1. at' \in [Proc -> 0 .. MaxOps] /\ MaxOps \in Nat
    BY BeginsProgram, WhereRanksAre
  <2>2. QED
    BY <2>1, BeginsIndex, LinkEnds, WhereRanksAre
<1>2. Publishes(i, u)
  BY <1>1, BeginsPublishes
<1>3. InStep(l, i, u)
  BY <1>1, <1>2 DEF InStepOn
<1>4. QED
  BY <1>1, <1>3 DEF InStep

(* An operation that publishes nothing.                                    *)
LEMMA InStepUnpublished ==
  ASSUME ProgramInv, NEW p \in Proc, NEW op \in Ops, Begins(p, op), NEW l \in Links,
         InStepOn(l), \A u \in Tags : op = Async(u) => u \in Open(at[p]),
         sent'[l] = sent[l],
         \A u \in Tags : /\ request'[u][l] = "active" <=> request[u][l] = "active"
                         /\ published'[l[2]][u] = published[l[2]][u]
  PROVE  InStepOn(l)'
<1>1. \A i : InSent(l, i)' <=> InSent(l, i)
  BY DEF InSent
<1>2. \A i : \A u \in Tags : InPosted(l, i, u)' <=> InPosted(l, i, u)
  BY DEF InPosted, LastPublished
<1>3. ASSUME NEW u \in Tags, NEW i \in 1 .. Len(prog'), Publishes(i, u)'
      PROVE  InStep(l, i, u)'
  <2>1. i # at[p] + 1
    <3>1. ASSUME i = at[p] + 1
          PROVE  FALSE
      <4>1. i = at'[p]
        BY <3>1, BeginsProgram
      <4>2. Publishes(at[p], u)'
        BY <1>3, <4>1 DEF Publishes, Open
      <4>3. QED
        BY <4>2, BeginsPublishes
    <3>2. QED
      BY <3>1
  <2>2. QED
    BY <1>1, <1>2, <1>3, <2>1, InStepBegins
<1>4. QED
  BY <1>3 DEF InStepOn

-----------------------------------------------------------------------------
(* Matching.                                                               *)

(* A message and a receive on a link are those of operations.              *)
LEMMA MessageAt ==
  ASSUME ProgramInv, NEW l \in Links, SentOn(l), NEW j \in 1 .. Len(sent[l])
  PROVE  /\ SentAt(l, sent[l][j]) /\ sent[l][j] \in Message
         /\ sent[l][j].tag \in Tags /\ sent[l][j].value \in Nat
         /\ sent[l][j].value \in 1 .. at[l[1]] /\ sent[l][j].value \in 1 .. Len(prog)
         /\ InSent(l, sent[l][j].value)
<1>1. sent[l] \in Seq(Message)
  BY DEF ProgramInv, TypeOK
<1>2. sent[l][j] \in Elements(sent[l]) /\ sent[l][j] \in Message
  BY <1>1, ElementOfSeq DEF Elements
<1>3. SentAt(l, sent[l][j]) /\ InSent(l, sent[l][j].value)
  BY <1>2 DEF SentOn, InSent
<1>4. at[l[1]] \in 0 .. Len(prog) /\ Len(prog) \in Nat
  BY LinkEnds, WhereRanksAre
<1>5. PICK m : m = sent[l][j]
  OBVIOUS
<1>6. m.tag \in Tags /\ m.value \in Nat
  BY <1>2, <1>5 DEF Message
<1>7. m.value \in 1 .. at[l[1]]
  BY <1>3, <1>5 DEF SentAt
<1>8. m.value \in 1 .. Len(prog)
  BY <1>4, <1>7
<1>9. QED
  BY <1>2, <1>3, <1>5, <1>6, <1>7, <1>8

(* What the invariant says of the receive at one place of a link.          *)
LEMMA ReceiveAt ==
  ASSUME ProgramInv, RequestInv, NEW l \in Links, ReceivesOn(l),
         NEW i \in 1 .. Len(posted[l])
  PROVE  /\ PostedAt(l, posted[l][i]) /\ posted[l][i].tag \in Tags
         /\ request[posted[l][i].tag][l] = "active"
<1>1. posted[l][i].tag \in Tags
  BY PostedTags DEF ProgramInv
<1>2. posted[l][i] \in Elements(posted[l])
  BY DEF Elements
<1>3. QED
  BY <1>1, <1>2 DEF ReceivesOn, RequestInv, PostedOn

(* An operation has one tag.                                               *)
LEMMA OneTag ==
  ASSUME NEW i, NEW t \in Tags, NEW u \in Tags, Publishes(i, t), Publishes(i, u)
  PROVE  t = u
BY OpsDistinct DEF Publishes

(* While a receive is posted that the sender's message is there for, the   *)
(* schemes of the link have the same length.                               *)
LEMMA SameLength ==
  ASSUME ProgramInv, PublishedInv, NEW l \in Links, KeepOn(l), NEW u \in Tags,
         Busy(l[2], u), LastPublished(l[2], u) <= at[l[1]]
  PROVE  recvLen[l] = sendLen[l]
<1>1. SUFFICES ASSUME keep[l] # <<>>
               PROVE  FALSE
  BY DEF KeepOn
<1>2. l[1] \in Proc /\ l[2] \in Proc /\ Linked(l[2]) /\ at[l[1]] \in Nat
      /\ at[l[2]] \in Nat /\ LastPublished(l[2], u) \in Nat
  BY LinkEnds, WhereRanksAre, LastPublishedProperties
<1>3. Told(l) # {}
  <2>1. keep[l] \in Seq(0 .. Entities)
    BY DEF ProgramInv, TypeOK
  <2>2. Len(keep[l]) # 0
    BY <1>1, <2>1, EmptySeq
  <2>3. Cardinality(Told(l)) # 0
    BY <2>2 DEF KeepOn
  <2>4. QED
    BY <2>3, FS_EmptySet
<1>4. PICK f \in 1 .. at[l[2]] : prog[f] = Filter /\ Untaken(l, f)
  BY <1>3 DEF Told
<1>5. f >= at[l[1]]
  BY <1>2, <1>4 DEF Untaken
<1>6. f < LastPublished(l[2], u)
  BY <1>2, <1>4, BusyUnfiltered
<1>7. QED
  BY <1>2, <1>5, <1>6

(* What MPI matches is what the same operation has sent and posted,        *)
(* although others may have the same MPI tag: on either side the earlier   *)
(* ones would have been found first.                                       *)
LEMMA MatchesOwn ==
  ASSUME ProgramInv, RequestInv, PublishedInv, SchemeInv, MessageInv,
         NEW l \in Links, NEW i \in 1 .. Len(posted[l]), NEW j \in 1 .. Len(sent[l]),
         Matched(l, i, j)
  PROVE  /\ sent[l][j].tag = MatchTag(l, i)
         /\ sent[l][j].value = LastPublished(l[2], MatchTag(l, i))
         /\ MatchValue(l, j) = LastPublished(l[2], MatchTag(l, i))
         /\ sent[l][j].size = posted[l][i].size
         /\ LastPublished(l[2], MatchTag(l, i)) <= at[l[1]]
<1>t. PICK u, w, R, M : /\ u = posted[l][i].tag /\ w = sent[l][j].tag
                        /\ R = LastPublished(l[2], u) /\ M = sent[l][j].value
  OBVIOUS
<1>0. /\ SentOn(l) /\ ReceivesOn(l) /\ InStepOn(l) /\ KeepOn(l) /\ PostedOn(l)
      /\ l[1] \in Proc /\ l[2] \in Proc /\ Linked(l[2])
      /\ at[l[1]] \in Nat /\ at[l[2]] \in Nat /\ Len(prog) \in Nat
      /\ Len(sent[l]) \in Nat /\ Len(posted[l]) \in Nat
  <2>1. sent[l] \in Seq(Message) /\ posted[l] \in Seq(Receive)
    BY DEF ProgramInv, TypeOK
  <2>2. QED
    BY <2>1, LinkEnds, WhereRanksAre, LenProperties DEF MessageInv, SchemeInv, RequestInv
<1>1. /\ posted[l][i].wire = sent[l][j].wire
      /\ \A k \in 1 .. (i - 1) : posted[l][k].wire # sent[l][j].wire
      /\ \A k \in 1 .. (j - 1) : sent[l][k].wire # sent[l][j].wire
  BY DEF Matched
<1>2. /\ SentAt(l, sent[l][j]) /\ w \in Tags /\ M \in Nat /\ M \in 1 .. at[l[1]]
      /\ M \in 1 .. Len(prog) /\ InSent(l, M) /\ Publishes(M, w)
      /\ sent[l][j].wire = Wire(w, Count(w, M))
  BY <1>0, <1>t, MessageAt DEF SentAt
<1>3. /\ u \in Tags /\ request[u][l] = "active" /\ PostedAt(l, posted[l][i])
      /\ Busy(l[2], u) /\ R \in 1 .. at[l[2]] /\ R \in 1 .. Len(prog)
      /\ Publishes(R, u) /\ InPosted(l, R, u)
      /\ posted[l][i].wire = Wire(u, Count(u, R))
  <2>1. u \in Tags /\ request[u][l] = "active" /\ PostedAt(l, posted[l][i])
    BY <1>0, <1>t, ReceiveAt
  <2>2. QED
    BY <1>t, <2>1, ActiveRequest DEF PostedAt
<1>4. M <= R
  <2>1. CASE R <= at[l[1]]
    <3>1. InStep(l, R, u)
      BY <1>0, <1>3 DEF InStepOn
    <3>2. InSent(l, R)
      BY <1>0, <1>3, <2>1, <3>1 DEF InStep
    <3>3. PICK k \in 1 .. Len(sent[l]) : sent[l][k].value = R
      BY <3>2 DEF InSent, Elements
    <3>4. /\ sent[l][k].tag \in Tags /\ Publishes(R, sent[l][k].tag)
          /\ sent[l][k].wire = Wire(sent[l][k].tag, Count(sent[l][k].tag, R))
      BY <1>0, <3>3, MessageAt DEF SentAt
    <3>5. sent[l][k].tag = u
      BY <1>3, <3>4, OneTag
    <3>6. sent[l][k].wire = sent[l][j].wire
      BY <1>1, <1>3, <3>4, <3>5
    <3>7. ~(k < j)
      BY <1>0, <1>1, <3>6
    <3>8. k = j \/ j < k
      BY <1>0, <3>7
    <3>9. j < k => M < R
      BY <1>0, <1>t, <3>3 DEF SentOn
    <3>10. k = j => M = R
      BY <1>t, <3>3
    <3>11. QED
      BY <1>2, <1>3, <3>8, <3>9, <3>10
  <2>2. CASE ~(R <= at[l[1]])
    BY <1>0, <1>2, <1>3, <2>2
  <2>3. QED
    BY <2>1, <2>2
<1>5. ~(M < R)
  <2>1. SUFFICES ASSUME M < R
                 PROVE  FALSE
    OBVIOUS
  <2>2. M <= at[l[1]] /\ M <= at[l[2]]
    BY <1>0, <1>2, <1>3, <2>1
  <2>3. InStep(l, M, w)
    BY <1>0, <1>2 DEF InStepOn
  <2>4. InPosted(l, M, w)
    BY <1>2, <2>2, <2>3 DEF InStep
  <2>5. request[w][l] = "active" /\ LastPublished(l[2], w) = M
    BY <2>4 DEF InPosted
  <2>6. PICK k \in 1 .. Len(posted[l]) : posted[l][k].tag = w
    BY <1>0, <1>2, <2>5 DEF PostedOn
  <2>7. posted[l][k].wire = Wire(w, Count(w, M))
    BY <1>0, <2>5, <2>6, ReceiveAt DEF PostedAt
  <2>8. ~(k < i)
    BY <1>0, <1>1, <1>2, <2>7
  <2>9. k # i
    BY <1>t, <1>2, <1>3, <2>1, <2>5, <2>6
  <2>10. i < k
    BY <1>0, <2>8, <2>9
  <2>11. R < M
    BY <1>0, <1>t, <2>5, <2>6, <2>10 DEF ReceivesOn
  <2>12. QED
    BY <1>2, <1>3, <2>1, <2>11
<1>6. M = R
  BY <1>2, <1>3, <1>4, <1>5
<1>7. u = w
  BY <1>2, <1>3, <1>6, OneTag
<1>8. R <= at[l[1]]
  BY <1>2, <1>6
<1>9. sent[l][j].size = posted[l][i].size
  <2>1. recvLen[l] = sendLen[l]
    BY <1>0, <1>t, <1>3, <1>8, SameLength
  <2>2. QED
    BY <1>2, <1>3, <2>1 DEF SentAt, PostedAt
<1>10. MatchValue(l, j) = M
  BY <1>t, <1>2 DEF MatchValue, SentAt
<1>11. QED
  BY <1>t, <1>6, <1>7, <1>8, <1>9, <1>10 DEF MatchTag

(* Matching takes one message and its receive off the link.                *)
LEMMA MatchSent ==
  ASSUME ProgramInv, RequestInv, PublishedInv, MessageInv,
         NEW l \in Links, NEW i \in 1 .. Len(posted[l]), NEW j \in 1 .. Len(sent[l]),
         Matched(l, i, j)
  PROVE  /\ SentOn(l)'
         /\ \A k : InSent(l, k)' <=> InSent(l, k) /\ k # sent[l][j].value
<1>0. /\ SentOn(l) /\ sent[l] \in Seq(Message) /\ Len(sent[l]) \in Nat
      /\ UNCHANGED <<prog, at, pc, sendLen, sendBuf>>
      /\ l[1] \in Proc /\ TypeOK
  BY LinkEnds, LenProperties DEF MessageInv, ProgramInv, TypeOK, Matched, schemes
<1>1. PICK s, r : s = sent[l] /\ r = sent'[l]
  OBVIOUS
<1>2. Dropped(s, r, j)
  <2>1. s \in Seq(Message) /\ j \in 1 .. Len(s)
    BY <1>0, <1>1
  <2>2. r = RemoveAt(s, j)
    BY <1>1 DEF Matched
  <2>3. QED
    BY <2>1, <2>2, RemoveAtKeeps
<1>3. \A a, b \in 1 .. Len(s) : a < b => s[a].value < s[b].value
  BY <1>0, <1>1 DEF SentOn
<1>4. \A n \in 1 .. Len(s) : s[n].value \in Nat
  BY <1>0, <1>1, MessageAt
<1>5. \A n \in 1 .. Len(s) : n # j => s[n].value # s[j].value
  <2>1. j \in 1 .. Len(s) /\ Len(s) \in Nat
    BY <1>0, <1>1
  <2>2. \A n \in 1 .. Len(s) : n # j => n < j \/ j < n
    BY <2>1
  <2>3. QED
    BY <1>3, <1>4, <2>1, <2>2
<1>6. ASSUME NEW m \in Elements(r)
      PROVE  SentAt(l, m)'
  <2>1. m \in Elements(s)
    <3>1. PICK a \in 1 .. Len(r) : m = r[a]
      BY DEF Elements
    <3>2. PICK n \in 1 .. Len(s) : r[a] = s[n]
      BY <1>2 DEF Dropped
    <3>3. QED
      BY <3>1, <3>2 DEF Elements
  <2>2. m \in Message /\ SentAt(l, m)
    BY <1>0, <1>1, <2>1, ElementsTyped DEF SentOn
  <2>3. ProgramGrows
    BY <1>0, WhereRanksAre DEF ProgramGrows
  <2>4. ~m.buffered => Busy(l[1], m.tag)' /\ sendBuf'[m.tag][l] = sendBuf[m.tag][l]
    <3>1. m.tag \in Tags
      BY <2>2 DEF Message
    <3>2. Busy(l[1], m.tag)' <=> Busy(l[1], m.tag)
      BY <1>0, <3>1, BusySame
    <3>3. QED
      BY <1>0, <2>2, <3>2 DEF SentAt
  <2>5. QED
    BY <1>0, <2>2, <2>3, <2>4, SentAtSame
<1>7. ASSUME NEW a \in 1 .. Len(r), NEW b \in 1 .. Len(r), a < b
      PROVE  r[a].value < r[b].value
  <2>1. PICK m \in 1 .. Len(s), n \in 1 .. Len(s) : m < n /\ r[a] = s[m] /\ r[b] = s[n]
    BY <1>2, <1>7 DEF Dropped
  <2>2. QED
    BY <1>3, <2>1
<1>8. SentOn(l)'
  BY <1>1, <1>6, <1>7 DEF SentOn
<1>9. ASSUME NEW k
      PROVE  InSent(l, k)' <=> InSent(l, k) /\ k # sent[l][j].value
  <2>1. InSent(l, k)' <=> \E m \in 1 .. Len(r) : r[m].value = k
    BY <1>1 DEF InSent, Elements
  <2>2. InSent(l, k) <=> \E m \in 1 .. Len(s) : s[m].value = k
    BY <1>1 DEF InSent, Elements
  <2>3. ASSUME NEW m \in 1 .. Len(r), r[m].value = k
        PROVE  (\E n \in 1 .. Len(s) : s[n].value = k) /\ k # s[j].value
    <3>1. PICK n \in 1 .. Len(s) : n # j /\ r[m] = s[n]
      BY <1>2 DEF Dropped
    <3>2. QED
      BY <1>5, <2>3, <3>1
  <2>4. ASSUME NEW n \in 1 .. Len(s), s[n].value = k, k # s[j].value
        PROVE  \E m \in 1 .. Len(r) : r[m].value = k
    <3>1. PICK m \in 1 .. Len(r) : r[m] = s[n]
      BY <1>2, <2>4 DEF Dropped
    <3>2. QED
      BY <2>4, <3>1
  <2>5. QED
    BY <1>1, <2>1, <2>2, <2>3, <2>4
<1>10. QED
  BY <1>8, <1>9

(* A match leaves the receives on the link right, and takes away exactly   *)
(* the one of its tag.                                                     *)
LEMMA MatchReceives ==
  ASSUME ProgramInv, RequestInv, PublishedInv, MessageInv,
         NEW l \in Links, NEW i \in 1 .. Len(posted[l]), NEW j \in 1 .. Len(sent[l]),
         Matched(l, i, j)
  PROVE  /\ ReceivesOn(l)'
         /\ \A k : \A x \in Tags :
              InPosted(l, k, x)' <=> InPosted(l, k, x) /\ x # MatchTag(l, i)
<1>0. /\ ReceivesOn(l) /\ posted[l] \in Seq(Receive) /\ Len(posted[l]) \in Nat
      /\ UNCHANGED <<prog, at, recvLen, published>>
      /\ l[2] \in Proc
  BY LinkEnds, LenProperties DEF MessageInv, ProgramInv, TypeOK, Matched, schemes
<1>1. PICK s, r : s = posted[l] /\ r = posted'[l]
  OBVIOUS
<1>2. Dropped(s, r, i)
  <2>1. s \in Seq(Receive) /\ i \in 1 .. Len(s)
    BY <1>0, <1>1
  <2>2. r = RemoveAt(s, i)
    BY <1>1 DEF Matched
  <2>3. QED
    BY <2>1, <2>2, RemoveAtKeeps
<1>3. \A x : LastPublished(l[2], x)' = LastPublished(l[2], x)
  BY <1>0 DEF LastPublished
<1>4. ASSUME NEW m \in Elements(r)
      PROVE  PostedAt(l, m)'
  <2>1. m \in Elements(s)
    <3>1. PICK a \in 1 .. Len(r) : m = r[a]
      BY DEF Elements
    <3>2. PICK n \in 1 .. Len(s) : r[a] = s[n]
      BY <1>2 DEF Dropped
    <3>3. QED
      BY <3>1, <3>2 DEF Elements
  <2>2. m \in Receive /\ PostedAt(l, m)
    BY <1>0, <1>1, <2>1, ElementsTyped DEF ReceivesOn
  <2>3. ProgramGrows
    BY <1>0, WhereRanksAre DEF ProgramGrows
  <2>4. QED
    BY <1>0, <2>2, <2>3, PostedAtSame
<1>5. ASSUME NEW a \in 1 .. Len(r), NEW b \in 1 .. Len(r), a < b
      PROVE  (LastPublished(l[2], posted[l][a].tag) < LastPublished(l[2], posted[l][b].tag))'
  <2>1. PICK m \in 1 .. Len(s), n \in 1 .. Len(s) : m < n /\ r[a] = s[m] /\ r[b] = s[n]
    BY <1>2, <1>5 DEF Dropped
  <2>2. PICK x, y : x = s[m].tag /\ y = s[n].tag
    OBVIOUS
  <2>3. LastPublished(l[2], x) < LastPublished(l[2], y)
    BY <1>0, <1>1, <2>1, <2>2 DEF ReceivesOn
  <2>4. published' = published /\ posted'[l][a].tag = x /\ posted'[l][b].tag = y
    BY <1>0, <1>1, <2>1, <2>2
  <2>5. QED
    BY <2>3, <2>4 DEF LastPublished
<1>6. ReceivesOn(l)'
  BY <1>1, <1>4, <1>5 DEF ReceivesOn
<1>7. ASSUME NEW k, NEW x \in Tags
      PROVE  InPosted(l, k, x)' <=> InPosted(l, k, x) /\ x # MatchTag(l, i)
  <2>1. x # MatchTag(l, i) => request'[x][l] = request[x][l]
    BY DEF Matched
  <2>2. request'[MatchTag(l, i)][l] = "done"
    BY DEF Matched
  <2>3. QED
    BY <1>3, <2>1, <2>2 DEF InPosted
<1>8. QED
  BY <1>6, <1>7

(* A match of a receive and a message keeps the layer of the messages:     *)
(* both are of the same operation, so that the operation is over on this   *)
(* link for both.                                                          *)
LEMMA MatchMessages ==
  ASSUME ProgramInv, RequestInv, PublishedInv, SchemeInv, MessageInv,
         NEW l \in Links, NEW i \in 1 .. Len(posted[l]), NEW j \in 1 .. Len(sent[l]),
         Matched(l, i, j)
  PROVE  MessageInv'
<1>t. PICK u, R : u = MatchTag(l, i) /\ R = LastPublished(l[2], u)
  OBVIOUS
<1>0. /\ u \in Tags /\ request[u][l] = "active"
      /\ UNCHANGED <<prog, at, pc, sendLen, recvLen, sendBuf, published>>
  BY <1>t DEF Matched, schemes
<1>1. sent[l][j].value = R /\ R <= at[l[1]] /\ R \in 1 .. at[l[2]] /\ Publishes(R, u)
  BY <1>t, <1>0, MatchesOwn, ActiveRequest
<1>2. /\ SentOn(l)' /\ ReceivesOn(l)'
      /\ \A k : InSent(l, k)' <=> InSent(l, k) /\ k # R
      /\ \A k : \A x \in Tags : InPosted(l, k, x)' <=> InPosted(l, k, x) /\ x # u
  BY <1>t, <1>1, MatchSent, MatchReceives
<1>3. ASSUME NEW x \in Tags, NEW k \in 1 .. Len(prog), Publishes(k, x)
      PROVE  InStep(l, k, x)'
  <2>1. InStep(l, k, x)
    BY <1>3 DEF MessageInv, InStepOn
  <2>2. InPosted(l, k, u) => k = R
    BY <1>t DEF InPosted
  <2>3. k = R => x = u
    BY <1>0, <1>1, <1>3, OneTag
  <2>4. /\ at' = at /\ at[l[1]] \in Nat /\ at[l[2]] \in Nat /\ R \in Nat
    BY <1>0, <1>1, LinkEnds, WhereRanksAre
  <2>5. CASE k = R
    <3>1. k <= at[l[1]] /\ k <= at[l[2]] /\ ~InSent(l, k)' /\ ~InPosted(l, k, x)'
      BY <1>0, <1>1, <1>2, <2>3, <2>4, <2>5
    <3>2. QED
      BY <2>4, <3>1 DEF InStep
  <2>6. CASE k # R
    <3>1. /\ InSent(l, k)' <=> InSent(l, k)
          /\ InPosted(l, k, x)' <=> InPosted(l, k, x)
      BY <1>2, <2>2, <2>6
    <3>2. QED
      BY <2>1, <2>4, <3>1 DEF InStep
  <2>7. QED
    BY <2>5, <2>6
<1>4. InStepOn(l)'
  <2>1. \A k : \A x \in Tags : Publishes(k, x)' <=> Publishes(k, x)
    BY <1>0 DEF Publishes, Open
  <2>2. QED
    BY <1>0, <1>3, <2>1 DEF InStepOn
<1>5. ASSUME NEW k \in Links, k # l
      PROVE  SentOn(k)' /\ ReceivesOn(k)' /\ InStepOn(k)'
  <2>1. /\ posted'[k] = posted[k] /\ sent'[k] = sent[k]
        /\ \A x \in Tags : request'[x][k] = request[x][k]
        /\ SentOn(k) /\ ReceivesOn(k) /\ InStepOn(k)
    BY <1>5 DEF Matched, MessageInv
  <2>2. ProgramGrows
    BY <1>0, WhereRanksAre DEF ProgramGrows
  <2>3. \A x \in Tags : Busy(k[1], x)' <=> Busy(k[1], x)
    BY <1>0, LinkEnds, BusySame
  <2>4. \A m \in Elements(sent[k]) : m.tag \in Tags
    BY MessageTags
  <2>5. SentOn(k)'
    BY <1>0, <2>1, <2>2, <2>3, <2>4, SentOnSame
  <2>6. ReceivesOn(k)'
    BY <1>0, <2>1, <2>2, ReceivesOnSame
  <2>7. InStepOn(k)'
    BY <1>0, <2>1, InStepSame
  <2>8. QED
    BY <2>5, <2>6, <2>7
<1>6. QED
  BY <1>2, <1>4, <1>5 DEF MessageInv

-----------------------------------------------------------------------------
(* Starting a synchronization.                                             *)

(* asynchronousSynchronize of a rank with neighbours publishes the         *)
(* operation it begins, with the count of that operation in its tag, and   *)
(* publishes nothing else.                                                 *)
LEMMA AsyncPublishes ==
  ASSUME ProgramInv, RequestInv, PublishedInv, NEW p \in Proc, NEW t \in Tags,
         AsynchronousSynchronize(p, t), Linked(p), NEW n, n = at[p] + 1
  PROVE  /\ n \in Nat /\ n \in 1 .. Len(prog') /\ at'[p] = n /\ at[p] \in Nat
         /\ Publishes(n, t)' /\ \A u \in Tags : u # t => ~Publishes(n, u)'
         /\ counter'[p][t] = Count(t, n)' /\ LastPublished(p, t)' = n
         /\ \A u \in Tags : u # t => published'[p][u] = published[p][u]
         /\ \A q \in Proc : q # p => published'[q] = published[q]
         /\ ~Busy(p, t) /\ Busy(p, t)'
         /\ \A u \in Tags : u # t => (Busy(p, u)' <=> Busy(p, u))
<1>1. /\ Begins(p, Async(t)) /\ Async(t) \in Ops /\ pc' = pc
      /\ published' = [published EXCEPT ![p][t] = Append(@, at'[p])]
  BY OpsDistinct DEF AsynchronousSynchronize
<1>2. n \in Nat /\ n \in 1 .. Len(prog') /\ at'[p] = n /\ at[p] \in Nat
  BY <1>1, BeginsProgram
<1>3. t \notin Open(at[p])
  BY StartsFree
<1>4. Publishes(n, t)'
  <2>1. Publishes(at[p], t)'
    BY <1>1, <1>3, BeginsPublishes
  <2>2. QED
    BY <1>2, <2>1 DEF Publishes, Open
<1>5. \A u \in Tags : u # t => ~Publishes(n, u)'
  BY <1>4, OpsDistinct DEF Publishes
<1>6. counter'[p][t] = Count(t, n)'
  <2>1. counter'[p][t] = Count(t, at[p])'
    BY AsyncPublished DEF PublishedInv
  <2>2. QED
    BY <1>2, <2>1 DEF Count, Starts
<1>7. /\ published'[p][t] = Append(published[p][t], n)
      /\ \A u \in Tags : u # t => published'[p][u] = published[p][u]
      /\ \A q \in Proc : q # p => published'[q] = published[q]
  BY <1>1, <1>2 DEF ProgramInv, TypeOK
<1>8. LastPublished(p, t)' = n
  <2>1. published[p][t] \in Seq(Nat)
    BY PublishedType
  <2>2. PICK s : s = published[p][t]
    OBVIOUS
  <2>3. s \in Seq(Nat) /\ n \in Nat /\ published'[p][t] = Append(s, n)
    BY <1>2, <1>7, <2>1, <2>2
  <2>4. /\ Len(Append(s, n)) = Len(s) + 1 /\ Append(s, n)[Len(s) + 1] = n
        /\ Append(s, n) # <<>>
    BY <2>3, AppendProperties
  <2>5. QED
    BY <2>3, <2>4 DEF LastPublished, Last
<1>9. /\ ~Busy(p, t) /\ Busy(p, t)'
      /\ \A u \in Tags : u # t => (Busy(p, u)' <=> Busy(p, u))
  BY <1>1, <1>3, BusyAsync
<1>10. QED
  BY <1>2, <1>4, <1>5, <1>6, <1>7, <1>8, <1>9

(* The sizes asynchronousSynchronize uses are those of the schemes,        *)
(* whether it has just computed them or finds them computed.               *)
LEMMA AsyncSizes ==
  ASSUME ProgramInv, RequestInv, SchemeInv, NEW p \in Proc, NEW t \in Tags,
         AsynchronousSynchronize(p, t)
  PROVE  /\ \A l \in Out(p) : sendSize'[t][l] = sendLen[l]
         /\ \A l \in In(p) : recvSize'[t][l] = recvLen[l]
<1>1. Begins(p, Async(t)) /\ pc' = pc /\ UNCHANGED <<sendLen, recvLen>>
  BY DEF AsynchronousSynchronize, schemes
<1>2. pc'[p] = "run" /\ Busy(p, t)'
  BY <1>1, BusyAsync DEF Begins
<1>3. SizesOf(p, t)'
  BY SizesStep DEF SchemeInv, Step
<1>4. QED
  BY <1>1, <1>2, <1>3 DEF SizesOf, Out, In

(* The messages asynchronousSynchronize sends are those of the operation   *)
(* it begins, after all that were sent before.                             *)
LEMMA AsyncSent ==
  ASSUME ProgramInv, RequestInv, PublishedInv, SchemeInv, MessageInv,
         NEW p \in Proc, NEW t \in Tags, AsynchronousSynchronize(p, t),
         NEW l \in Links, l[1] = p, NEW n, n = at[p] + 1
  PROVE  SentOn(l)' /\ \A k : InSent(l, k)' <=> InSent(l, k) \/ k = n
<1>0. /\ n \in Nat /\ n \in 1 .. Len(prog') /\ at'[p] = n /\ at[p] \in Nat
      /\ Publishes(n, t)' /\ counter'[p][t] = Count(t, n)'
      /\ ~Busy(p, t) /\ Busy(p, t)'
      /\ \A u \in Tags : u # t => (Busy(p, u)' <=> Busy(p, u))
      /\ l \in Out(p) /\ Linked(p) /\ ProgramGrows
      /\ TypeOK /\ SentOn(l) /\ sent[l] \in Seq(Message)
  <2>1. Begins(p, Async(t)) /\ Async(t) \in Ops /\ TypeOK /\ SentOn(l)
    BY OpsDistinct DEF AsynchronousSynchronize, ProgramInv, MessageInv
  <2>2. l \in Out(p) /\ Linked(p)
    BY LinkEnds
  <2>3. /\ n \in Nat /\ n \in 1 .. Len(prog') /\ at'[p] = n /\ at[p] \in Nat
        /\ Publishes(n, t)' /\ counter'[p][t] = Count(t, n)'
        /\ ~Busy(p, t) /\ Busy(p, t)'
        /\ \A u \in Tags : u # t => (Busy(p, u)' <=> Busy(p, u))
    BY <2>2, AsyncPublishes
  <2>4. ProgramGrows
    BY <2>1, BeginsProgram
  <2>5. sent[l] \in Seq(Message)
    BY <2>1 DEF TypeOK
  <2>6. QED
    BY <2>1, <2>2, <2>3, <2>4, <2>5
<1>1. PICK buffered \in SUBSET Out(p) : PostSends(p, t, counter'[p][t], buffered)
  BY DEF AsynchronousSynchronize
<1>2. PICK m : m = [wire |-> Wire(t, counter'[p][t]), tag |-> t, value |-> n,
                    size |-> sendSize'[t][l], buffered |-> l \in buffered]
  OBVIOUS
<1>3. /\ sent'[l] = Append(sent[l], m)
      /\ sendBuf'[t][l] = n
      /\ \A u \in Tags : u # t => sendBuf'[u] = sendBuf[u]
  BY <1>0, <1>1, <1>2 DEF PostSends, TypeOK
<1>4. sendSize'[t][l] = sendLen[l] /\ sendLen' = sendLen
  BY <1>0, AsyncSizes DEF AsynchronousSynchronize, schemes
<1>5. m \in Message
  <2>1. Wire(t, counter'[p][t]) \in Nat \X Nat
    <3>1. counter'[p][t] \in Nat
      BY AsynchronousSynchronizeTypes DEF TypeOK
    <3>2. QED
      BY <3>1, WireType
  <2>2. sendSize'[t][l] \in Nat
    BY <1>0, <1>4, EntitiesAssumption DEF TypeOK
  <2>3. QED
    BY <1>0, <1>2, <2>1, <2>2 DEF Message
<1>6. /\ Elements(sent'[l]) = Elements(sent[l]) \cup {m}
      /\ Len(sent'[l]) = Len(sent[l]) + 1 /\ Len(sent[l]) \in Nat
      /\ \A k \in 1 .. Len(sent[l]) : sent'[l][k] = sent[l][k]
      /\ sent'[l][Len(sent[l]) + 1] = m
  <2>1. Elements(Append(sent[l], m)) = Elements(sent[l]) \cup {m}
    BY <1>0, <1>5, AppendElements
  <2>2. /\ Len(Append(sent[l], m)) = Len(sent[l]) + 1 /\ Len(sent[l]) \in Nat
        /\ \A k \in 1 .. Len(sent[l]) : Append(sent[l], m)[k] = sent[l][k]
        /\ Append(sent[l], m)[Len(sent[l]) + 1] = m
    BY <1>0, <1>5, AppendProperties, LenProperties
  <2>3. QED
    BY <1>3, <2>1, <2>2
<1>7. SentAt(l, m)'
  <2>1. /\ m.value = n /\ m.tag = t /\ m.wire = Wire(t, counter'[p][t])
        /\ m.size = sendSize'[t][l]
    BY <1>2
  <2>2. n \in 1 .. at'[l[1]]
    BY <1>0
  <2>3. Wire(m.tag, Count(m.tag, m.value))' = Wire(t, Count(t, n)')
    BY <2>1 DEF Wire, Count, Starts
  <2>4. Publishes(m.value, m.tag)' /\ Busy(l[1], m.tag)'
    BY <1>0, <2>1
  <2>5. QED
    BY <1>0, <1>3, <1>4, <2>1, <2>2, <2>3, <2>4 DEF SentAt
<1>8. ASSUME NEW x \in Elements(sent[l])
      PROVE  SentAt(l, x)'
  <2>1. x \in Message /\ SentAt(l, x)
    BY <1>0, ElementsTyped DEF SentOn
  <2>2. ~x.buffered => x.tag # t /\ Busy(l[1], x.tag)
    BY <1>0, <2>1 DEF SentAt
  <2>3. ~x.buffered => Busy(l[1], x.tag)' /\ sendBuf'[x.tag][l] = sendBuf[x.tag][l]
    <3>1. x.tag \in Tags
      BY <2>1 DEF Message
    <3>2. QED
      BY <1>0, <1>3, <2>2, <3>1
  <2>4. QED
    BY <1>0, <1>4, <2>1, <2>3, SentAtSame
<1>9. ASSUME NEW i \in 1 .. Len(sent'[l]), NEW j \in 1 .. Len(sent'[l]), i < j
      PROVE  sent'[l][i].value < sent'[l][j].value
  <2>1. i \in 1 .. Len(sent[l]) /\ (j \in 1 .. Len(sent[l]) \/ j = Len(sent[l]) + 1)
    BY <1>6, <1>9
  <2>2. CASE j \in 1 .. Len(sent[l])
    BY <1>0, <1>6, <1>9, <2>1, <2>2 DEF SentOn
  <2>3. CASE j = Len(sent[l]) + 1
    <3>1. sent[l][i].value \in Nat /\ sent[l][i].value <= at[p]
      BY <1>0, <2>1, MessageAt
    <3>2. sent'[l][j].value = n /\ sent'[l][i] = sent[l][i]
      BY <1>2, <1>6, <2>1, <2>3
    <3>3. QED
      BY <1>0, <3>1, <3>2
  <2>4. QED
    BY <2>1, <2>2, <2>3
<1>10. SentOn(l)'
  <2>1. \A x \in Elements(sent'[l]) : SentAt(l, x)'
    BY <1>6, <1>7, <1>8
  <2>2. QED
    BY <1>9, <2>1 DEF SentOn
<1>11. \A k : InSent(l, k)' <=> InSent(l, k) \/ k = n
  <2>1. m.value = n
    BY <1>2
  <2>2. \A k : InSent(l, k)' <=> \E x \in Elements(sent'[l]) : x.value = k
    BY DEF InSent
  <2>3. QED
    BY <1>6, <2>1, <2>2 DEF InSent
<1>12. QED
  BY <1>10, <1>11

(* The receives asynchronousSynchronize posts are those of the operation   *)
(* it begins, after all that were posted before.                           *)
LEMMA AsyncPosted ==
  ASSUME ProgramInv, RequestInv, PublishedInv, SchemeInv, MessageInv,
         NEW p \in Proc, NEW t \in Tags, AsynchronousSynchronize(p, t),
         NEW l \in Links, l[2] = p, NEW n, n = at[p] + 1
  PROVE  /\ ReceivesOn(l)'
         /\ \A k : \A u \in Tags :
              InPosted(l, k, u)' <=> InPosted(l, k, u) \/ (k = n /\ u = t)
<1>0. /\ n \in Nat /\ n \in 1 .. Len(prog') /\ at'[p] = n /\ at[p] \in Nat
      /\ counter'[p][t] = Count(t, n)' /\ LastPublished(p, t)' = n
      /\ \A u \in Tags : u # t => published'[p][u] = published[p][u]
      /\ l \in In(p) /\ Linked(p) /\ ProgramGrows
      /\ TypeOK /\ ReceivesOn(l) /\ posted[l] \in Seq(Receive)
      /\ request[t][l] = "free"
  <2>1. Begins(p, Async(t)) /\ Async(t) \in Ops /\ TypeOK /\ ReceivesOn(l)
    BY OpsDistinct DEF AsynchronousSynchronize, ProgramInv, MessageInv
  <2>2. l \in In(p) /\ Linked(p)
    BY LinkEnds
  <2>3. request[t][l] = "free"
    BY <2>2, StartsFree
  <2>4. /\ n \in Nat /\ n \in 1 .. Len(prog') /\ at'[p] = n /\ at[p] \in Nat
        /\ counter'[p][t] = Count(t, n)' /\ LastPublished(p, t)' = n
        /\ \A u \in Tags : u # t => published'[p][u] = published[p][u]
    BY <2>2, AsyncPublishes
  <2>5. ProgramGrows
    BY <2>1, BeginsProgram
  <2>6. QED
    BY <2>1, <2>2, <2>3, <2>4, <2>5 DEF TypeOK
<1>1. PostRecvs(p, t, counter'[p][t])
  BY DEF AsynchronousSynchronize
<1>2. PICK r : r = [wire |-> Wire(t, counter'[p][t]), tag |-> t, size |-> recvSize'[t][l]]
  OBVIOUS
<1>3. /\ posted'[l] = Append(posted[l], r)
      /\ request'[t][l] = "active"
      /\ \A u \in Tags : u # t => request'[u] = request[u]
  BY <1>0, <1>1, <1>2 DEF PostRecvs, TypeOK
<1>4. recvSize'[t][l] = recvLen[l] /\ recvLen' = recvLen
  BY <1>0, AsyncSizes DEF AsynchronousSynchronize, schemes
<1>5. r \in Receive
  <2>1. Wire(t, counter'[p][t]) \in Nat \X Nat
    <3>1. counter'[p][t] \in Nat
      BY AsynchronousSynchronizeTypes DEF TypeOK
    <3>2. QED
      BY <3>1, WireType
  <2>2. recvSize'[t][l] \in Nat
    BY <1>0, <1>4, EntitiesAssumption DEF TypeOK
  <2>3. QED
    BY <1>0, <1>2, <2>1, <2>2 DEF Receive
<1>6. /\ Elements(posted'[l]) = Elements(posted[l]) \cup {r}
      /\ Len(posted'[l]) = Len(posted[l]) + 1 /\ Len(posted[l]) \in Nat
      /\ \A k \in 1 .. Len(posted[l]) : posted'[l][k] = posted[l][k]
      /\ posted'[l][Len(posted[l]) + 1] = r
  <2>1. Elements(Append(posted[l], r)) = Elements(posted[l]) \cup {r}
    BY <1>0, <1>5, AppendElements
  <2>2. /\ Len(Append(posted[l], r)) = Len(posted[l]) + 1 /\ Len(posted[l]) \in Nat
        /\ \A k \in 1 .. Len(posted[l]) : Append(posted[l], r)[k] = posted[l][k]
        /\ Append(posted[l], r)[Len(posted[l]) + 1] = r
    BY <1>0, <1>5, AppendProperties, LenProperties
  <2>3. QED
    BY <1>3, <2>1, <2>2
<1>7. PostedAt(l, r)'
  <2>1. r.tag = t /\ r.wire = Wire(t, counter'[p][t]) /\ r.size = recvSize'[t][l]
    BY <1>2
  <2>2. LastPublished(l[2], r.tag)' = n
    BY <1>0, <2>1
  <2>3. Wire(r.tag, Count(r.tag, LastPublished(l[2], r.tag)))' = Wire(t, Count(t, n)')
    BY <2>1, <2>2 DEF Wire, Count, Starts
  <2>4. QED
    BY <1>0, <1>4, <2>1, <2>3 DEF PostedAt
<1>8. \A i \in 1 .. Len(posted[l]) : posted[l][i].tag \in Tags /\ posted[l][i].tag # t
  BY <1>0, ReceiveAt
<1>9. ASSUME NEW x \in Elements(posted[l])
      PROVE  PostedAt(l, x)'
  <2>1. x \in Receive /\ PostedAt(l, x)
    BY <1>0, ElementsTyped DEF ReceivesOn
  <2>2. x.tag \in Tags /\ x.tag # t
    BY <1>8 DEF Elements
  <2>3. QED
    BY <1>0, <1>4, <2>1, <2>2, PostedAtSame
<1>10. ASSUME NEW i \in 1 .. Len(posted'[l]), NEW j \in 1 .. Len(posted'[l]), i < j
       PROVE  (LastPublished(l[2], posted[l][i].tag) < LastPublished(l[2], posted[l][j].tag))'
  <2>1. i \in 1 .. Len(posted[l]) /\ (j \in 1 .. Len(posted[l]) \/ j = Len(posted[l]) + 1)
    BY <1>6, <1>10
  <2>2. PICK a, b : a = posted'[l][i].tag /\ b = posted'[l][j].tag
    OBVIOUS
  <2>3. /\ a = posted[l][i].tag /\ a \in Tags /\ LastPublished(p, a)' = LastPublished(p, a)
        /\ LastPublished(p, a) \in Nat /\ LastPublished(p, a) <= at[p]
    <3>1. a = posted[l][i].tag /\ a \in Tags /\ a # t
      BY <1>6, <1>8, <2>1, <2>2
    <3>2. LastPublished(p, a) \in Nat /\ LastPublished(p, a) <= at[p]
      BY <1>0, <3>1, LastPublishedProperties
    <3>3. QED
      BY <1>0, <3>1, <3>2 DEF LastPublished
  <2>4. LastPublished(p, a)' < LastPublished(p, b)'
    <3>1. CASE j \in 1 .. Len(posted[l])
      <4>1. b = posted[l][j].tag /\ b \in Tags /\ b # t
        BY <1>6, <1>8, <2>2, <3>1
      <4>2. LastPublished(p, b)' = LastPublished(p, b)
        BY <1>0, <4>1 DEF LastPublished
      <4>3. LastPublished(p, a) < LastPublished(p, b)
        BY <1>0, <1>10, <2>1, <2>3, <3>1, <4>1 DEF ReceivesOn
      <4>4. QED
        BY <2>3, <4>2, <4>3
    <3>2. CASE j = Len(posted[l]) + 1
      <4>1. b = t
        BY <1>2, <1>6, <2>2, <3>2
      <4>2. LastPublished(p, b)' = n
        BY <1>0, <4>1
      <4>3. QED
        BY <1>0, <2>3, <4>2
    <3>3. QED
      BY <2>1, <3>1, <3>2
  <2>5. QED
    BY <2>2, <2>4 DEF LastPublished
<1>11. ReceivesOn(l)'
  <2>1. \A x \in Elements(posted'[l]) : PostedAt(l, x)'
    BY <1>6, <1>7, <1>9
  <2>2. QED
    BY <1>10, <2>1 DEF ReceivesOn
<1>12. ASSUME NEW k, NEW u \in Tags
       PROVE  InPosted(l, k, u)' <=> InPosted(l, k, u) \/ (k = n /\ u = t)
  <2>1. CASE u = t
    BY <1>0, <1>3, <2>1 DEF InPosted
  <2>2. CASE u # t
    BY <1>0, <1>3, <2>2 DEF InPosted, LastPublished
  <2>3. QED
    BY <2>1, <2>2
<1>13. QED
  BY <1>11, <1>12

(* asynchronousSynchronize sends and posts nothing on the links of others, *)
(* and nothing for others.                                                 *)
LEMMA AsyncElsewhere ==
  ASSUME ProgramInv, NEW p \in Proc, NEW t \in Tags, AsynchronousSynchronize(p, t),
         NEW l \in Links
  PROVE  /\ l[2] # p => posted'[l] = posted[l] /\ \A u \in Tags : request'[u][l] = request[u][l]
         /\ l[1] # p => sent'[l] = sent[l] /\ \A u \in Tags : sendBuf'[u][l] = sendBuf[u][l]
         /\ \A q \in Proc : q # p =>
              /\ at'[q] = at[q] /\ published'[q] = published[q]
              /\ \A u \in Tags : Busy(q, u)' <=> Busy(q, u)
         /\ UNCHANGED <<sendLen, recvLen>> /\ ProgramGrows
         /\ Begins(p, Async(t)) /\ Async(t) \in Ops
<1>0. /\ TypeOK /\ Begins(p, Async(t)) /\ Async(t) \in Ops /\ pc' = pc
      /\ UNCHANGED <<sendLen, recvLen>>
  BY OpsDistinct DEF AsynchronousSynchronize, ProgramInv, schemes
<1>1. l[2] # p => posted'[l] = posted[l] /\ \A u \in Tags : request'[u][l] = request[u][l]
  <2>1. PostRecvs(p, t, counter'[p][t])
    BY DEF AsynchronousSynchronize
  <2>2. l[2] # p => l \notin In(p)
    BY LinkEnds
  <2>3. l[2] # p => posted'[l] = posted[l]
    BY <2>1, <2>2 DEF PostRecvs
  <2>4. l[2] # p => \A u \in Tags : request'[u][l] = request[u][l]
    BY <1>0, <2>1, <2>2 DEF PostRecvs, TypeOK
  <2>5. QED
    BY <2>3, <2>4
<1>2. l[1] # p => sent'[l] = sent[l] /\ \A u \in Tags : sendBuf'[u][l] = sendBuf[u][l]
  <2>1. PICK buffered \in SUBSET Out(p) : PostSends(p, t, counter'[p][t], buffered)
    BY DEF AsynchronousSynchronize
  <2>2. l[1] # p => l \notin Out(p)
    BY LinkEnds
  <2>3. l[1] # p => sent'[l] = sent[l]
    BY <2>1, <2>2 DEF PostSends
  <2>4. l[1] # p => \A u \in Tags : sendBuf'[u][l] = sendBuf[u][l]
    BY <1>0, <2>1, <2>2 DEF PostSends, TypeOK
  <2>5. QED
    BY <2>3, <2>4
<1>3. ASSUME NEW q \in Proc, q # p
      PROVE  /\ at'[q] = at[q] /\ published'[q] = published[q]
             /\ \A u \in Tags : Busy(q, u)' <=> Busy(q, u)
  <2>1. at'[q] = at[q]
    BY <1>0, <1>3, BeginsProgram
  <2>2. published'[q] = published[q]
    BY <1>0, <1>3 DEF AsynchronousSynchronize, TypeOK
  <2>3. \A u \in Tags : Busy(q, u)' <=> Busy(q, u)
    BY <1>0, <1>3, BusyBegins
  <2>4. QED
    BY <2>1, <2>2, <2>3
<1>4. ProgramGrows
  BY <1>0, BeginsProgram
<1>5. QED
  BY <1>0, <1>1, <1>2, <1>3, <1>4

(* The operation that is begun becomes one that is in step on the links of *)
(* the rank: sent and awaited, or still to be begun by the other end.      *)
LEMMA AsyncInStep ==
  ASSUME ProgramInv, RequestInv, PublishedInv, SchemeInv, MessageInv,
         NEW p \in Proc, NEW t \in Tags, AsynchronousSynchronize(p, t),
         NEW l \in Links, l[1] = p \/ l[2] = p
  PROVE  InStepOn(l)'
<1>n. PICK n : n = at[p] + 1
  OBVIOUS
<1>0. /\ Begins(p, Async(t)) /\ Async(t) \in Ops /\ InStepOn(l)
      /\ l[1] \in Proc /\ l[2] \in Proc /\ l[1] # l[2] /\ Linked(p)
      /\ \A q \in Proc : q # p => at'[q] = at[q] /\ published'[q] = published[q]
      /\ \A q \in Proc : at[q] \in Nat /\ at[q] \in 0 .. Len(prog)
      /\ Len(prog) \in Nat
  BY AsyncElsewhere, LinkEnds, WhereRanksAre DEF MessageInv
<1>1. /\ n \in Nat /\ at'[p] = n /\ Publishes(n, t)'
      /\ \A u \in Tags : u # t => ~Publishes(n, u)'
  BY <1>n, <1>0, AsyncPublishes
<1>2. l[1] = p =>
        /\ \A k : InSent(l, k)' <=> InSent(l, k) \/ k = n
        /\ \A k : \A u \in Tags : InPosted(l, k, u)' <=> InPosted(l, k, u)
  <2>1. CASE l[1] = p
    <3>1. \A k : InSent(l, k)' <=> InSent(l, k) \/ k = n
      BY <1>n, <2>1, AsyncSent
    <3>2. /\ \A u \in Tags : request'[u][l] = request[u][l]
          /\ published'[l[2]] = published[l[2]]
      BY <1>0, <2>1, AsyncElsewhere
    <3>3. QED
      BY <3>1, <3>2 DEF InPosted, LastPublished
  <2>2. QED
    BY <2>1
<1>3. l[2] = p =>
        /\ \A k : InSent(l, k)' <=> InSent(l, k)
        /\ \A k : \A u \in Tags : InPosted(l, k, u)' <=> InPosted(l, k, u) \/ (k = n /\ u = t)
  <2>1. CASE l[2] = p
    <3>1. \A k : \A u \in Tags : InPosted(l, k, u)' <=> InPosted(l, k, u) \/ (k = n /\ u = t)
      BY <1>n, <2>1, AsyncPosted
    <3>2. sent'[l] = sent[l]
      BY <1>0, <2>1, AsyncElsewhere
    <3>3. QED
      BY <3>1, <3>2 DEF InSent
  <2>2. QED
    BY <2>1
<1>4. ASSUME NEW u \in Tags, NEW i \in 1 .. Len(prog'), Publishes(i, u)'
      PROVE  InStep(l, i, u)'
  <2>1. CASE i # n
    <3>1. InSent(l, i)' <=> InSent(l, i)
      BY <1>2, <1>3, <2>1
    <3>2. InPosted(l, i, u)' <=> InPosted(l, i, u)
      BY <1>2, <1>3, <2>1
    <3>3. QED
      BY <1>n, <1>0, <1>4, <2>1, <3>1, <3>2, InStepBegins
  <2>2. CASE i = n
    <3>1. u = t
      BY <1>1, <1>4, <2>2
    <3>2. \A q \in Proc : n <= at[q] => InStep(l, n, t)
      <4>1. ASSUME NEW q \in Proc, n <= at[q]
            PROVE  InStep(l, n, t)
        <5>1. n \in 1 .. Len(prog)
          BY <1>n, <1>0, <1>1, <4>1
        <5>2. Publishes(n, t)
          BY <1>0, <1>1, <5>1, BeginsPublishes
        <5>3. QED
          BY <1>0, <5>1, <5>2 DEF InStepOn
      <4>2. QED
        BY <4>1
    <3>3. CASE l[1] = p
      <4>1. InSent(l, n)' /\ at'[l[1]] = n /\ at'[l[2]] = at[l[2]]
        BY <1>0, <1>1, <1>2, <3>3
      <4>2. n <= at[l[2]] => InPosted(l, n, t)'
        <5>1. n > at[l[1]]
          BY <1>n, <1>0, <3>3
        <5>2. QED
          BY <1>0, <1>2, <3>2, <3>3, <5>1 DEF InStep
      <4>3. QED
        BY <1>0, <1>1, <2>2, <3>1, <4>1, <4>2 DEF InStep
    <3>4. CASE l[2] = p
      <4>1. InPosted(l, n, t)' /\ at'[l[2]] = n /\ at'[l[1]] = at[l[1]]
        BY <1>0, <1>1, <1>3, <3>4
      <4>2. n <= at[l[1]] => InSent(l, n)'
        <5>1. n > at[l[2]]
          BY <1>n, <1>0, <3>4
        <5>2. QED
          BY <1>0, <1>3, <3>2, <3>4, <5>1 DEF InStep
      <4>3. QED
        BY <1>0, <1>1, <2>2, <3>1, <4>1, <4>2 DEF InStep
    <3>5. QED
      BY <3>3, <3>4
  <2>3. QED
    BY <2>1, <2>2
<1>5. QED
  BY <1>4 DEF InStepOn

(* asynchronousSynchronize keeps the layer of the messages.                *)
LEMMA AsyncMessages ==
  ASSUME ProgramInv, RequestInv, PublishedInv, SchemeInv, MessageInv,
         NEW p \in Proc, NEW t \in Tags, AsynchronousSynchronize(p, t)
  PROVE  MessageInv'
<1> SUFFICES ASSUME NEW l \in Links
             PROVE  SentOn(l)' /\ ReceivesOn(l)' /\ InStepOn(l)'
  BY DEF MessageInv
<1>n. PICK n : n = at[p] + 1
  OBVIOUS
<1>0. /\ SentOn(l) /\ ReceivesOn(l) /\ InStepOn(l)
      /\ l[1] \in Proc /\ l[2] \in Proc
      /\ UNCHANGED <<sendLen, recvLen>> /\ ProgramGrows
      /\ Begins(p, Async(t)) /\ Async(t) \in Ops
      /\ \A q \in Proc : q # p =>
           /\ at'[q] = at[q] /\ published'[q] = published[q]
           /\ \A u \in Tags : Busy(q, u)' <=> Busy(q, u)
  BY AsyncElsewhere, LinkEnds DEF MessageInv
<1>1. SentOn(l)'
  <2>1. CASE l[1] = p
    BY <1>n, <2>1, AsyncSent
  <2>2. CASE l[1] # p
    <3>1. sent'[l] = sent[l] /\ \A u \in Tags : sendBuf'[u][l] = sendBuf[u][l]
      BY <2>2, AsyncElsewhere
    <3>2. \A m \in Elements(sent[l]) : m.tag \in Tags
      BY MessageTags
    <3>3. \A m \in Elements(sent[l]) : ~m.buffered /\ Busy(l[1], m.tag) =>
            Busy(l[1], m.tag)' /\ sendBuf'[m.tag][l] = sendBuf[m.tag][l]
      BY <1>0, <2>2, <3>1, <3>2
    <3>4. QED
      BY <1>0, <2>2, <3>1, <3>3, SentOnSame
  <2>3. QED
    BY <2>1, <2>2
<1>2. ReceivesOn(l)'
  <2>1. CASE l[2] = p
    BY <1>n, <2>1, AsyncPosted
  <2>2. CASE l[2] # p
    <3>1. posted'[l] = posted[l]
      BY <2>2, AsyncElsewhere
    <3>2. QED
      BY <1>0, <2>2, <3>1, ReceivesOnSame
  <2>3. QED
    BY <2>1, <2>2
<1>3. InStepOn(l)'
  <2>1. CASE l[1] = p \/ l[2] = p
    BY <2>1, AsyncInStep
  <2>2. CASE l[1] # p /\ l[2] # p
    <3>1. /\ sent'[l] = sent[l] /\ \A u \in Tags : request'[u][l] = request[u][l]
          /\ published'[l[2]] = published[l[2]]
          /\ at'[l[1]] = at[l[1]] /\ at'[l[2]] = at[l[2]]
      BY <1>0, <2>2, AsyncElsewhere
    <3>2. /\ \A k : InSent(l, k)' <=> InSent(l, k)
          /\ \A k : \A u \in Tags : InPosted(l, k, u)' <=> InPosted(l, k, u)
      BY <3>1 DEF InSent, InPosted, LastPublished
    <3>3. ASSUME NEW u \in Tags, NEW i \in 1 .. Len(prog'), Publishes(i, u)'
          PROVE  InStep(l, i, u)'
      <4>1. CASE i \in 1 .. Len(prog)
        <5>1. Publishes(i, u)
          BY <1>0, <3>3, <4>1, BeginsPublishes
        <5>2. InStep(l, i, u)
          BY <1>0, <4>1, <5>1 DEF InStepOn
        <5>3. QED
          BY <3>1, <3>2, <5>2 DEF InStep
      <4>2. CASE i \notin 1 .. Len(prog)
        <5>1. ~(i <= at[l[1]]) /\ ~(i <= at[l[2]])
          BY <1>0, <4>2, WhereRanksAre
        <5>2. QED
          BY <1>0, <3>1, <5>1, WhereRanksAre DEF InStep
      <4>3. QED
        BY <4>1, <4>2
    <3>4. QED
      BY <3>3 DEF InStepOn
  <2>3. QED
    BY <2>1, <2>2
<1>4. QED
  BY <1>1, <1>2, <1>3

-----------------------------------------------------------------------------
(* The steps that send nothing and receive nothing.                        *)

(* A step that sends, posts and publishes nothing keeps the layer of the   *)
(* messages when the schemes of links in use do not change and no          *)
(* synchronization with unsent data ends.                                  *)
LEMMA NothingSent ==
  ASSUME ProgramInv, PublishedInv, MessageInv, ProgramGrows,
         UNCHANGED <<sent, posted, published, sendBuf>>,
         \A l \in Links : InStepOn(l)',
         \A l \in Links : posted[l] # <<>> => recvLen'[l] = recvLen[l],
         \A l \in Links : sent[l] # <<>> => sendLen'[l] = sendLen[l],
         \A q \in Proc : at'[q] = at[q] \/ at'[q] = at[q] + 1,
         \A l \in Links : \A m \in Elements(sent[l]) :
           ~m.buffered /\ Busy(l[1], m.tag) => Busy(l[1], m.tag)'
  PROVE  MessageInv'
<1> SUFFICES ASSUME NEW l \in Links
             PROVE  SentOn(l)' /\ ReceivesOn(l)'
  BY DEF MessageInv
<1>0. /\ SentOn(l) /\ ReceivesOn(l) /\ l[1] \in Proc
      /\ sent[l] \in Seq(Message) /\ posted[l] \in Seq(Receive)
      /\ sent'[l] = sent[l] /\ posted'[l] = posted[l]
  BY LinkEnds DEF MessageInv, ProgramInv, TypeOK
<1>1. SentOn(l)'
  <2>1. CASE sent[l] # <<>>
    BY <1>0, <2>1, SentOnSame
  <2>2. CASE sent[l] = <<>>
    <3>1. Elements(sent'[l]) = {} /\ Len(sent'[l]) = 0
      BY <1>0, <2>2, ElementsTyped, EmptySeq
    <3>2. QED
      BY <3>1 DEF SentOn
  <2>3. QED
    BY <2>1, <2>2
<1>2. ReceivesOn(l)'
  <2>1. CASE posted[l] # <<>>
    BY <1>0, <2>1, ReceivesOnSame
  <2>2. CASE posted[l] = <<>>
    <3>1. Elements(posted'[l]) = {} /\ Len(posted'[l]) = 0
      BY <1>0, <2>2, ElementsTyped, EmptySeq
    <3>2. QED
      BY <3>1 DEF ReceivesOn
  <2>3. QED
    BY <2>1, <2>2
<1>3. QED
  BY <1>1, <1>2

(* A rank that has received everything has nothing posted.                 *)
LEMMA IdlePostsNothing ==
  ASSUME ProgramInv, RequestInv, NEW p \in Proc, \A u \in Tags : ~Busy(p, u),
         NEW l \in Links, l[2] = p
  PROVE  posted[l] = <<>>
<1>1. SUFFICES ASSUME posted[l] # <<>>
               PROVE  FALSE
  OBVIOUS
<1>2. /\ posted[l] \in Seq(Receive) /\ Len(posted[l]) \in Nat
      /\ \A i \in 1 .. Len(posted[l]) : posted[l][i].tag \in Tags
  BY PostedTags DEF ProgramInv
<1>3. 1 \in 1 .. Len(posted[l])
  BY <1>1, <1>2, EmptySeq
<1>4. request[posted[l][1].tag][l] = "active"
  BY <1>3 DEF RequestInv, PostedOn
<1>5. request[posted[l][1].tag][l] = "free"
  <2>1. posted[l][1].tag \in Tags /\ l \in In(p)
    BY <1>2, <1>3, LinkEnds
  <2>2. RequestsOf(p, posted[l][1].tag) /\ ~Busy(p, posted[l][1].tag)
    BY <2>1 DEF RequestInv
  <2>3. QED
    BY <2>1, <2>2 DEF RequestsOf
<1>6. QED
  BY <1>4, <1>5

(* When the send schemes are cut, no message of before is on its way: the  *)
(* receiver has dropped its entities by then, and does so only when it has *)
(* received everything.                                                    *)
LEMMA CutWhenQuiet ==
  ASSUME ProgramInv, RequestInv, PublishedInv, SchemeInv, MessageInv,
         NEW p \in Proc, FilterSend(p), NEW l \in Links, l[1] = p
  PROVE  sent[l] = <<>>
<1>1. SUFFICES ASSUME sent[l] # <<>>
               PROVE  FALSE
  OBVIOUS
<1>0. /\ SentOn(l) /\ InStepOn(l) /\ KeepOn(l) /\ sent[l] \in Seq(Message)
      /\ l[2] \in Proc /\ Linked(l[2])
      /\ at[l[1]] \in Nat /\ at[l[2]] \in Nat
  BY LinkEnds, WhereRanksAre DEF MessageInv, SchemeInv, ProgramInv, TypeOK
<1>2. 1 \in 1 .. Len(sent[l])
  BY <1>0, <1>1, EmptySeq, LenProperties
<1>3. PICK v, u : v = sent[l][1].value /\ u = sent[l][1].tag
  OBVIOUS
<1>4. /\ v \in Nat /\ v \in 1 .. at[l[1]] /\ v \in 1 .. Len(prog) /\ u \in Tags
      /\ Publishes(v, u) /\ InSent(l, v)
  BY <1>0, <1>2, <1>3, MessageAt DEF SentAt
<1>5. at[p] \in Told(l) /\ at[p] <= at[l[2]] /\ prog[at[p]] = Filter
  BY <1>0, TakesOwnFilter
<1>6. v # at[p]
  BY <1>4, <1>5, OpsDistinct DEF Publishes
<1>7. v < at[p] /\ v <= at[l[1]] /\ v <= at[l[2]]
  BY <1>0, <1>4, <1>5, <1>6
<1>8. InPosted(l, v, u)
  <2>1. InStep(l, v, u)
    BY <1>0, <1>4 DEF InStepOn
  <2>2. QED
    BY <1>4, <1>7, <2>1 DEF InStep
<1>9. request[u][l] = "active" /\ LastPublished(l[2], u) = v
  BY <1>8 DEF InPosted
<1>10. Busy(l[2], u)
  BY <1>4, <1>9, ActiveRequest
<1>11. at[p] \in 1 .. at[l[2]]
  BY <1>0, <1>4, <1>5, <1>7
<1>12. at[p] < v
  BY <1>0, <1>4, <1>5, <1>9, <1>10, <1>11, BusyUnfiltered
<1>13. QED
  BY <1>0, <1>4, <1>7, <1>12

(* An operation that publishes nothing, as for messages.                   *)
LEMMA BeginsSendsNothing ==
  ASSUME ProgramInv, RequestInv, PublishedInv, MessageInv,
         NEW p \in Proc, NEW op \in Ops, Begins(p, op),
         \A u \in Tags : op = Async(u) => u \in Open(at[p]),
         UNCHANGED <<sent, posted, published, sendBuf, request, sendLen>>,
         \A l \in Links : posted[l] # <<>> => recvLen'[l] = recvLen[l],
         \A q \in Proc, u \in Tags : Busy(q, u)' <=> Busy(q, u)
  PROVE  MessageInv'
<1>1. ProgramGrows /\ \A q \in Proc : at'[q] = at[q] \/ at'[q] = at[q] + 1
  BY BeginsProgram
<1>2. \A l \in Links : InStepOn(l)'
  BY InStepUnpublished DEF MessageInv
<1>3. \A l \in Links : \A m \in Elements(sent[l]) : m.tag \in Tags /\ l[1] \in Proc
  BY MessageTags, LinkEnds
<1>4. \A l \in Links : \A m \in Elements(sent[l]) :
        ~m.buffered /\ Busy(l[1], m.tag) => Busy(l[1], m.tag)'
  BY <1>3
<1>5. QED
  BY <1>1, <1>2, <1>4, NothingSent

(* A step within an operation, as for messages.                            *)
LEMMA StaysSendsNothing ==
  ASSUME ProgramInv, RequestInv, PublishedInv, MessageInv,
         UNCHANGED <<prog, at, sent, posted, published, sendBuf, recvLen>>,
         \A l \in Links, u \in Tags : request'[u][l] = "active" <=> request[u][l] = "active",
         \A l \in Links : sent[l] # <<>> => sendLen'[l] = sendLen[l],
         \A l \in Links : \A m \in Elements(sent[l]) :
           ~m.buffered /\ Busy(l[1], m.tag) => Busy(l[1], m.tag)'
  PROVE  MessageInv'
<1>1. ProgramGrows
  BY WhereRanksAre DEF ProgramGrows
<1>2. \A l \in Links : InStepOn(l)'
  BY InStepSame DEF MessageInv
<1>3. QED
  BY <1>1, <1>2, NothingSent

(* The asynchronousSynchronize that throws keeps the layer of the          *)
(* messages.                                                               *)
LEMMA ThrowsMessages ==
  ASSUME ProgramInv, RequestInv, PublishedInv, MessageInv, NEW p \in Proc, NEW t \in Tags,
         AsynchronousSynchronizeThrows(p, t)
  PROVE  MessageInv'
<1>1. Begins(p, Async(t)) /\ Async(t) \in Ops
  BY OpsDistinct DEF AsynchronousSynchronizeThrows
<1>2. t \in Open(at[p]) /\ UNCHANGED <<request, posted>>
  BY ThrowsPostsNothing
<1>3. UNCHANGED <<sent, published, sendBuf, sendLen, recvLen>>
  BY DEF AsynchronousSynchronizeThrows, schemes
<1>4. \A u \in Tags : Async(t) = Async(u) => u \in Open(at[p])
  BY <1>2, OpsDistinct
<1>5. \A q \in Proc, u \in Tags : Busy(q, u)' <=> Busy(q, u)
  BY ThrowsBusy
<1>6. QED
  BY <1>1, <1>2, <1>3, <1>4, <1>5, BeginsSendsNothing

(* Entering a wait keeps it: the sends are still under way.                *)
LEMMA BeginWaitMessages ==
  ASSUME ProgramInv, RequestInv, PublishedInv, MessageInv, NEW p \in Proc, NEW t \in Tags,
         BeginWait(p, t)
  PROVE  MessageInv'
<1>1. Begins(p, Wait(t)) /\ Wait(t) \in Ops
  BY OpsDistinct DEF BeginWait
<1>2. UNCHANGED <<sent, posted, published, sendBuf, request, sendLen, recvLen>>
  BY DEF BeginWait, schemes, data, mpi
<1>3. \A u \in Tags : Wait(t) # Async(u)
  BY OpsDistinct
<1>4. \A q \in Proc, u \in Tags : Busy(q, u)' <=> Busy(q, u)
  BY BeginWaitBusy
<1>5. QED
  BY <1>1, <1>2, <1>3, <1>4, BeginsSendsNothing

(* Entering filterScheme keeps it: nothing is posted on the links whose    *)
(* receive schemes shrink.                                                 *)
LEMMA FilterRecvMessages ==
  ASSUME ProgramInv, RequestInv, PublishedInv, MessageInv, NEW p \in Proc,
         NEW kept \in [In(p) -> 0 .. Entities], FilterRecv(p, kept)
  PROVE  MessageInv'
<1>1. Begins(p, Filter) /\ Filter \in Ops
  BY DEF FilterRecv, Ops
<1>2. UNCHANGED <<sent, posted, published, sendBuf, request, sendLen>>
  BY DEF FilterRecv, data
<1>3. \A u \in Tags : Filter # Async(u)
  BY OpsDistinct
<1>4. \A q \in Proc, u \in Tags : (Busy(q, u)' <=> Busy(q, u)) /\ ~Busy(p, u)
  BY FilterRecvBusy
<1>5. ASSUME NEW l \in Links, posted[l] # <<>>
      PROVE  recvLen'[l] = recvLen[l]
  <2>1. l[2] # p
    BY <1>4, <1>5, IdlePostsNothing
  <2>2. QED
    BY <2>1, LinkEnds DEF FilterRecv
<1>6. QED
  BY <1>1, <1>2, <1>3, <1>4, <1>5, BeginsSendsNothing

(* Unpacking a completed receive keeps it: the request was not active any  *)
(* more.                                                                   *)
LEMMA UnpackMessages ==
  ASSUME ProgramInv, RequestInv, PublishedInv, MessageInv,
         NEW p \in Proc, NEW t \in Tags, NEW k \in Links, Unpack(p, t, k)
  PROVE  MessageInv'
<1>1. /\ UNCHANGED <<prog, at, pc, sent, posted, published, sendBuf, sendLen, recvLen>>
      /\ request' = [request EXCEPT ![t][k] = "free"] /\ request[t][k] = "done"
      /\ TypeOK
  BY DEF Unpack, FreeRecv, schemes, mpi, ProgramInv
<1>2. \A l \in Links, u \in Tags : request'[u][l] = "active" <=> request[u][l] = "active"
  BY <1>1 DEF TypeOK
<1>3. \A q \in Proc, u \in Tags : Busy(q, u)' <=> Busy(q, u)
  BY <1>1, BusySame
<1>4. \A l \in Links : \A m \in Elements(sent[l]) : m.tag \in Tags /\ l[1] \in Proc
  BY MessageTags, LinkEnds
<1>5. QED
  BY <1>1, <1>2, <1>3, <1>4, StaysSendsNothing

(* The wait has seen its own sends complete.                               *)
LEMMA EndWaitMessages ==
  ASSUME ProgramInv, RequestInv, PublishedInv, MessageInv,
         NEW p \in Proc, NEW t \in Tags, EndWait(p, t)
  PROVE  MessageInv'
<1>1. UNCHANGED <<prog, at, sent, posted, published, sendBuf, sendLen, recvLen, request>>
  BY DEF EndWait, schemes, data, mpi
<1>2. \A q \in Proc, u \in Tags : q # p \/ u # t => (Busy(q, u)' <=> Busy(q, u))
  BY BusyEndWait
<1>3. ASSUME NEW l \in Links, NEW m \in Elements(sent[l]), ~m.buffered, Busy(l[1], m.tag)
      PROVE  Busy(l[1], m.tag)'
  <2>1. m.tag \in Tags /\ l[1] \in Proc
    BY MessageTags, LinkEnds
  <2>2. CASE l[1] # p
    BY <1>2, <1>3, <2>1, <2>2
  <2>3. CASE l[1] = p
    <3>1. PICK j \in 1 .. Len(sent[l]) : m = sent[l][j]
      BY DEF Elements
    <3>2. sent[l] \in Seq(Message) /\ j \in DOMAIN sent[l]
      <4>1. sent[l] \in Seq(Message)
        BY DEF ProgramInv, TypeOK
      <4>2. QED
        BY <3>1, <4>1
    <3>3. l \in Out(p) /\ SendsComplete(p, t)
      BY <2>3, LinkEnds DEF EndWait
    <3>4. m.tag # t
      BY <1>3, <3>1, <3>2, <3>3 DEF SendsComplete
    <3>5. QED
      BY <1>2, <1>3, <2>1, <3>4
  <2>4. QED
    BY <2>2, <2>3
<1>4. QED
  BY <1>1, <1>3, StaysSendsNothing

(* Shrinking the send schemes keeps it: nothing the rank has sent is still *)
(* under way, for its receivers have finished all that was sent before     *)
(* their lists.                                                            *)
LEMMA FilterSendMessages ==
  ASSUME ProgramInv, RequestInv, PublishedInv, SchemeInv, MessageInv,
         NEW p \in Proc, FilterSend(p)
  PROVE  MessageInv'
<1>1. UNCHANGED <<prog, at, sent, posted, published, sendBuf, recvLen, request>>
  BY DEF FilterSend, data
<1>2. \A q \in Proc, u \in Tags : Busy(q, u)' <=> Busy(q, u)
  BY FilteringBusy
<1>3. ASSUME NEW l \in Links, sent[l] # <<>>
      PROVE  sendLen'[l] = sendLen[l]
  <2>1. l[1] # p
    BY <1>3, CutWhenQuiet
  <2>2. QED
    BY <2>1, LinkEnds DEF FilterSend
<1>4. \A l \in Links : \A m \in Elements(sent[l]) : m.tag \in Tags /\ l[1] \in Proc
  BY MessageTags, LinkEnds
<1>5. QED
  BY <1>1, <1>2, <1>3, <1>4, StaysSendsNothing

(* Every step keeps messages and receives in step.                         *)
LEMMA MessageStep ==
  ASSUME ProgramInv, RequestInv, PublishedInv, SchemeInv, MessageInv, Step
  PROVE  MessageInv'
<1>1. ASSUME NEW p \in Proc, FilterEnd(p)
      PROVE  MessageInv'
  <2>1. UNCHANGED <<prog, at, sent, posted, published, sendBuf, sendLen, recvLen, request>>
    BY <1>1 DEF FilterEnd, schemes, data, mpi
  <2>2. \A q \in Proc, u \in Tags : Busy(q, u)' <=> Busy(q, u)
    BY <1>1, FilteringBusy
  <2>3. \A l \in Links : \A m \in Elements(sent[l]) : m.tag \in Tags /\ l[1] \in Proc
    BY MessageTags, LinkEnds
  <2>4. QED
    BY <2>1, <2>2, <2>3, StaysSendsNothing
<1>2. ASSUME UNCHANGED vars
      PROVE  MessageInv'
  <2>1. UNCHANGED <<prog, at, pc, sent, posted, published, sendBuf, sendLen, recvLen, request>>
    BY <1>2 DEF vars, schemes, data, mpi
  <2>2. \A q \in Proc, u \in Tags : Busy(q, u)' <=> Busy(q, u)
    BY <2>1, BusySame
  <2>3. \A l \in Links : \A m \in Elements(sent[l]) : m.tag \in Tags /\ l[1] \in Proc
    BY MessageTags, LinkEnds
  <2>4. QED
    BY <2>1, <2>2, <2>3, StaysSendsNothing
<1>3. ASSUME NEW l \in Links, NEW i \in 1 .. Len(posted[l]), NEW j \in 1 .. Len(sent[l]),
             Match(l, i, j)
      PROVE  MessageInv'
  BY <1>3, MatchSteps, MatchMessages
<1>4. ASSUME NEW p \in Proc, NEW t \in Tags,
             \/ AsynchronousSynchronize(p, t)
             \/ AsynchronousSynchronizeThrows(p, t)
             \/ BeginWait(p, t)
             \/ EndWait(p, t)
      PROVE  MessageInv'
  BY <1>4, AsyncMessages, ThrowsMessages, BeginWaitMessages, EndWaitMessages
<1>5. ASSUME NEW p \in Proc, NEW t \in Tags, NEW l \in Links, Unpack(p, t, l)
      PROVE  MessageInv'
  BY <1>5, UnpackMessages
<1>6. ASSUME NEW p \in Proc, NEW kept \in [In(p) -> 0 .. Entities], FilterRecv(p, kept)
      PROVE  MessageInv'
  BY <1>6, FilterRecvMessages
<1>7. ASSUME NEW p \in Proc, FilterSend(p)
      PROVE  MessageInv'
  BY <1>7, FilterSendMessages
<1>8. QED
  BY <1>1, <1>2, <1>3, <1>4, <1>5, <1>6, <1>7 DEF Step

-----------------------------------------------------------------------------
(* What is received, and what the ghosts hold.                             *)

(* What a request has received stays right when the step is none of its    *)
(* own.                                                                    *)
LEMMA ReceivedSame ==
  ASSUME ProgramInv, RequestInv, NEW l \in Links, NEW u \in Tags, ReceivedOn(l, u),
         request'[u][l] = request[u][l] \/ request'[u][l] = "active",
         recvBuf'[u][l] = recvBuf[u][l], ghost'[u][l] = ghost[u][l],
         request'[u][l] # "active" => published'[l[2]][u] = published[l[2]][u],
         at'[l[1]] = at[l[1]] \/ at'[l[1]] = at[l[1]] + 1,
         LastPublished(l[2], u) \in Nat
  PROVE  ReceivedOn(l, u)'
<1>1. request'[u][l] # "active" => LastPublished(l[2], u)' = LastPublished(l[2], u)
  BY DEF LastPublished
<1>2. at[l[1]] \in Nat
  BY WhereRanksAre, LinkEnds
<1>3. CASE request'[u][l] = "active"
  BY <1>3 DEF ReceivedOn
<1>4. CASE request'[u][l] # "active"
  BY <1>1, <1>2, <1>4 DEF ReceivedOn
<1>5. QED
  BY <1>3, <1>4

(* No step breaks the layer of what was received.                          *)
LEMMA ReceivedStep ==
  ASSUME ProgramInv, RequestInv, PublishedInv, SchemeInv, MessageInv, ReceivedInv, Step
  PROVE  ReceivedInv'
<1> SUFFICES ASSUME NEW l \in Links, NEW u \in Tags
             PROVE  ReceivedOn(l, u)'
  BY DEF ReceivedInv
<1>0. /\ TypeOK /\ ReceivedOn(l, u) /\ l[1] \in Proc /\ l[2] \in Proc
      /\ LastPublished(l[2], u) \in Nat
  BY LinkEnds, LastPublishedProperties DEF ProgramInv, ReceivedInv
<1>1. ASSUME NEW p \in Proc, NEW t \in Tags, AsynchronousSynchronize(p, t)
      PROVE  ReceivedOn(l, u)'
  <2>1. at'[l[1]] = at[l[1]] \/ at'[l[1]] = at[l[1]] + 1
    BY <1>0, <1>1, AsyncElsewhere, BeginsProgram
  <2>2. UNCHANGED <<recvBuf, ghost>>
    BY <1>1 DEF AsynchronousSynchronize
  <2>3. request'[u][l] = IF l[2] = p /\ u = t THEN "active" ELSE request[u][l]
    <3>1. PostRecvs(p, t, counter'[p][t])
      BY <1>1 DEF AsynchronousSynchronize
    <3>2. QED
      BY <1>0, <3>1, LinkEnds DEF PostRecvs, TypeOK
  <2>4. l[2] # p \/ u # t => published'[l[2]][u] = published[l[2]][u]
    BY <1>0, <1>1 DEF AsynchronousSynchronize, TypeOK
  <2>5. QED
    BY <1>0, <2>1, <2>2, <2>3, <2>4, ReceivedSame
<1>2. ASSUME NEW p \in Proc, NEW t \in Tags, AsynchronousSynchronizeThrows(p, t)
      PROVE  ReceivedOn(l, u)'
  <2>1. Begins(p, Async(t)) /\ Async(t) \in Ops /\ UNCHANGED <<recvBuf, ghost, published>>
    BY <1>2, OpsDistinct DEF AsynchronousSynchronizeThrows
  <2>2. request' = request
    BY <1>2, ThrowsPostsNothing
  <2>3. at'[l[1]] = at[l[1]] \/ at'[l[1]] = at[l[1]] + 1
    BY <1>0, <2>1, BeginsProgram
  <2>4. QED
    BY <1>0, <2>1, <2>2, <2>3, ReceivedSame
<1>3. ASSUME NEW p \in Proc, NEW t \in Tags, BeginWait(p, t)
      PROVE  ReceivedOn(l, u)'
  <2>1. Begins(p, Wait(t)) /\ Wait(t) \in Ops
        /\ UNCHANGED <<recvBuf, ghost, published, request>>
    BY <1>3, OpsDistinct DEF BeginWait, data
  <2>2. at'[l[1]] = at[l[1]] \/ at'[l[1]] = at[l[1]] + 1
    BY <1>0, <2>1, BeginsProgram
  <2>3. QED
    BY <1>0, <2>1, <2>2, ReceivedSame
<1>4. ASSUME NEW p \in Proc, NEW t \in Tags, NEW k \in Links, Unpack(p, t, k)
      PROVE  ReceivedOn(l, u)'
  <2>1. /\ UNCHANGED <<at, recvBuf, published>> /\ request[t][k] = "done"
        /\ request' = [request EXCEPT ![t][k] = "free"]
        /\ ghost' = [ghost EXCEPT ![t][k] = recvBuf[t][k].value]
    BY <1>4 DEF Unpack, FreeRecv
  <2>2. CASE l = k /\ u = t
    <3>1. request'[u][l] = "free" /\ ghost'[u][l] = recvBuf[u][l].value
      BY <1>0, <2>1, <2>2 DEF TypeOK
    <3>2. recvBuf[u][l].value = LastPublished(l[2], u)
      BY <1>0, <2>1, <2>2 DEF ReceivedOn
    <3>3. LastPublished(l[2], u)' = LastPublished(l[2], u)
      BY <2>1 DEF LastPublished
    <3>4. QED
      BY <3>1, <3>2, <3>3 DEF ReceivedOn
  <2>3. CASE ~(l = k /\ u = t)
    <3>1. request'[u][l] = request[u][l] /\ ghost'[u][l] = ghost[u][l]
      BY <1>0, <2>1, <2>3 DEF TypeOK
    <3>2. QED
      BY <1>0, <2>1, <3>1, ReceivedSame
  <2>4. QED
    BY <2>2, <2>3
<1>5. ASSUME NEW p \in Proc, NEW t \in Tags, EndWait(p, t)
      PROVE  ReceivedOn(l, u)'
  <2>1. UNCHANGED <<at, recvBuf, ghost, published, request>>
    BY <1>5 DEF EndWait, data
  <2>2. QED
    BY <1>0, <2>1, ReceivedSame
<1>6. ASSUME NEW p \in Proc, NEW kept \in [In(p) -> 0 .. Entities], FilterRecv(p, kept)
      PROVE  ReceivedOn(l, u)'
  <2>1. Begins(p, Filter) /\ Filter \in Ops
        /\ UNCHANGED <<recvBuf, ghost, published, request>>
    BY <1>6 DEF FilterRecv, data, Ops
  <2>2. at'[l[1]] = at[l[1]] \/ at'[l[1]] = at[l[1]] + 1
    BY <1>0, <2>1, BeginsProgram
  <2>3. QED
    BY <1>0, <2>1, <2>2, ReceivedSame
<1>7. ASSUME NEW p \in Proc, FilterSend(p) \/ FilterEnd(p)
      PROVE  ReceivedOn(l, u)'
  <2>1. UNCHANGED <<at, recvBuf, ghost, published, request>>
    BY <1>7 DEF FilterSend, FilterEnd, data
  <2>2. QED
    BY <1>0, <2>1, ReceivedSame
<1>8. ASSUME NEW k \in Links, NEW i \in 1 .. Len(posted[k]), NEW j \in 1 .. Len(sent[k]),
             Match(k, i, j)
      PROVE  ReceivedOn(l, u)'
  <2>0. Matched(k, i, j)
    BY <1>8, MatchSteps
  <2>1. UNCHANGED <<at, ghost, published>>
    BY <2>0 DEF Matched
  <2>2. CASE l = k /\ u = MatchTag(k, i)
    <3>1. request'[u][l] = "done"
      BY <2>0, <2>2 DEF Matched
    <3>2. recvBuf'[u][l] = [tag |-> sent[l][j].tag, value |-> MatchValue(l, j),
                            size |-> sent[l][j].size, room |-> posted[l][i].size]
      BY <2>0, <2>2 DEF Matched
    <3>3. /\ sent[l][j].tag = u /\ MatchValue(l, j) = LastPublished(l[2], u)
          /\ sent[l][j].size = posted[l][i].size /\ LastPublished(l[2], u) <= at[l[1]]
      BY <2>0, <2>2, MatchesOwn
    <3>4. LastPublished(l[2], u)' = LastPublished(l[2], u)
      BY <2>1 DEF LastPublished
    <3>5. QED
      BY <2>1, <3>1, <3>2, <3>3, <3>4 DEF ReceivedOn
  <2>3. CASE ~(l = k /\ u = MatchTag(k, i))
    <3>1. recvBuf'[u][l] = recvBuf[u][l] /\ request'[u][l] = request[u][l]
      BY <2>0, <2>3 DEF Matched
    <3>2. QED
      BY <1>0, <2>1, <3>1, ReceivedSame
  <2>4. QED
    BY <2>2, <2>3
<1>9. ASSUME UNCHANGED vars
      PROVE  ReceivedOn(l, u)'
  <2>1. UNCHANGED <<at, recvBuf, ghost, published, request>>
    BY <1>9 DEF vars, data
  <2>2. QED
    BY <1>0, <2>1, ReceivedSame
<1>10. QED
  BY <1>1, <1>2, <1>3, <1>4, <1>5, <1>6, <1>7, <1>8, <1>9 DEF Step

-----------------------------------------------------------------------------
(* The invariant, and what it says.                                        *)

IInv == ProgramInv /\ RequestInv /\ PublishedInv /\ SchemeInv /\ MessageInv /\ ReceivedInv

(* The initial states satisfy the inductive invariant.                     *)
LEMMA InitIInv == Init => IInv
<1> SUFFICES ASSUME Init
             PROVE  IInv
  OBVIOUS
<1>0. /\ prog = <<>> /\ Len(prog) = 0 /\ TypeOK
      /\ \A p \in Proc : at[p] = 0 /\ pc[p] = "run"
      /\ \A i : i \in 1 .. 0 => FALSE
  <2>1. Len(prog) = 0
    BY EmptySeq DEF Init
  <2>2. QED
    BY <2>1, InitTypeOK DEF Init
<1>1. \A p \in Proc : Open(at[p]) = {} /\ \A t \in Tags : ~Busy(p, t)
  BY <1>0 DEF Open, Busy, Waiting
<1>2. ProgramInv
  BY <1>0 DEF ProgramInv, RankInProgram
<1>3. RequestInv
  <2>1. ASSUME NEW p \in Proc, NEW t \in Tags
        PROVE  RequestsOf(p, t)
    <3>1. \A l \in In(p) : request[t][l] = "free"
      BY DEF Init, In
    <3>2. Cardinality({l \in In(p) : request[t][l] # "free"}) = 0
      BY <3>1, PendingFinite
    <3>3. pendSend[p][t] = 0 /\ pendRecv[p][t] = 0
      BY DEF Init
    <3>4. QED
      BY <1>1, <3>1, <3>2, <3>3 DEF RequestsOf
  <2>2. ASSUME NEW l \in Links
        PROVE  PostedOn(l)
    <3>1. Len(posted[l]) = 0 /\ \A t \in Tags : request[t][l] = "free"
      BY EmptySeq DEF Init
    <3>2. QED
      BY <3>1 DEF PostedOn
  <2>3. QED
    BY <2>1, <2>2 DEF RequestInv
<1>4. PublishedInv
  <2>1. ASSUME NEW p \in Proc, NEW t \in Tags
        PROVE  /\ counter[p][t] = Count(t, at[p])
               /\ PublishedBy(p, t) /\ UnfilteredSince(p, t)
               /\ published[p][t] = <<>> /\ Len(published[p][t]) = 0
    <3>1. published[p][t] = <<>> /\ Len(published[p][t]) = 0 /\ counter[p][t] = 0
      BY EmptySeq DEF Init
    <3>2. Count(t, at[p]) = 0
      BY <1>0, CountNext DEF CountFollowsProgram
    <3>3. PublishedBy(p, t)
      BY <1>0, <3>1 DEF PublishedBy
    <3>4. QED
      BY <1>1, <3>1, <3>2, <3>3 DEF UnfilteredSince
  <2>2. ASSUME NEW p \in Proc, NEW q \in Proc, NEW t \in Tags
        PROVE  Prefix(p, q, t)
    <3>1. Len(published[p][t]) = 0 /\ Len(published[q][t]) = 0
      BY <2>1
    <3>2. QED
      BY <3>1 DEF Prefix, Ahead
  <2>3. QED
    BY <2>1, <2>2 DEF PublishedInv
<1>5. SchemeInv
  <2>1. ASSUME NEW p \in Proc, NEW t \in Tags
        PROVE  SizesOf(p, t)
    BY <1>1 DEF SizesOf, Init
  <2>2. ASSUME NEW l \in Links
        PROVE  KeepOn(l)
    <3>1. l[1] \in Proc /\ l[2] \in Proc
      BY LinkEnds
    <3>2. Told(l) = {}
      BY <1>0, <3>1 DEF Told
    <3>3. keep[l] = <<>> /\ Len(keep[l]) = 0 /\ recvLen[l] = sendLen[l]
      BY EmptySeq DEF Init
    <3>4. QED
      BY <1>0, <3>1, <3>2, <3>3, FS_EmptySet DEF KeepOn
  <2>3. QED
    BY <2>1, <2>2 DEF SchemeInv
<1>6. MessageInv
  <2>1. ASSUME NEW l \in Links
        PROVE  SentOn(l) /\ ReceivesOn(l) /\ InStepOn(l)
    <3>1. Len(sent[l]) = 0 /\ Len(posted[l]) = 0
      BY EmptySeq DEF Init
    <3>2. QED
      BY <1>0, <3>1 DEF SentOn, ReceivesOn, InStepOn, Elements
  <2>2. QED
    BY <2>1 DEF MessageInv
<1>7. ReceivedInv
  <2>1. ASSUME NEW l \in Links, NEW t \in Tags
        PROVE  ReceivedOn(l, t)
    <3>1. request[t][l] = "free" /\ ghost[t][l] = 0 /\ published[l[2]][t] = <<>>
      BY LinkEnds DEF Init
    <3>2. QED
      BY <3>1 DEF ReceivedOn, LastPublished
  <2>2. QED
    BY <2>1 DEF ReceivedInv
<1>8. QED
  BY <1>2, <1>3, <1>4, <1>5, <1>6, <1>7 DEF IInv

(* Every step keeps the inductive invariant.                               *)
LEMMA NextIInv == IInv /\ [Next]_vars => IInv'
<1> SUFFICES ASSUME IInv, [Next]_vars
             PROVE  IInv'
  OBVIOUS
<1>1. ProgramInv /\ RequestInv /\ PublishedInv /\ SchemeInv /\ MessageInv /\ ReceivedInv
  BY DEF IInv
<1>2. Step
  BY <1>1, NextIsStep
<1>3. ProgramInv' /\ RequestInv' /\ PublishedInv'
  BY <1>1, <1>2, ProgramStep, RequestStep, PublishedStep
<1>4. SchemeInv' /\ MessageInv' /\ ReceivedInv'
  BY <1>1, <1>2, SchemeStep, MessageStep, ReceivedStep
<1>5. QED
  BY <1>3, <1>4 DEF IInv

(* The invariant holds in every state: the layers above are inductive.     *)
THEOREM Invariance == Spec => []IInv
<1>1. Init => IInv
  BY InitIInv
<1>2. IInv /\ [Next]_vars => IInv'
  BY NextIInv
<1>3. QED
  BY <1>1, <1>2, PTL DEF Spec

(* No request is lost: what the pending counters count are the requests    *)
(* that are not freed, and MPI holds one receive for each active request.  *)
THEOREM RequestsAreCounted == Spec => []GhostInv
<1>1. IInv => GhostInv
  <2> SUFFICES ASSUME IInv
               PROVE  TypeOK /\ PendingIsRequests
    BY DEF GhostInv
  <2>1. TypeOK /\ ProgramInv /\ RequestInv
    BY DEF IInv, ProgramInv
  <2>2. \A p \in Proc, t \in Tags :
          pendRecv[p][t] = Cardinality({l \in In(p) : request[t][l] # "free"})
    BY <2>1 DEF RequestInv, RequestsOf
  <2>3. ASSUME NEW t \in Tags, NEW l \in Links
        PROVE  Cardinality({i \in DOMAIN posted[l] : posted[l][i].tag = t})
                 = IF request[t][l] = "active" THEN 1 ELSE 0
    <3> DEFINE D == {i \in DOMAIN posted[l] : posted[l][i].tag = t}
    <3>1. DOMAIN posted[l] = 1 .. Len(posted[l]) /\ Len(posted[l]) \in Nat /\ PostedOn(l)
      BY <2>1, PostedTags, LenProperties DEF RequestInv
    <3>2. CASE request[t][l] = "active"
      <4>1. PICK i \in 1 .. Len(posted[l]) : posted[l][i].tag = t
        BY <3>1, <3>2 DEF PostedOn
      <4>2. \A j \in 1 .. Len(posted[l]) : posted[l][j].tag = t => j = i
        BY <3>1, <4>1 DEF PostedOn
      <4>3. D = {i}
        BY <3>1, <4>1, <4>2
      <4>4. Cardinality(D) = 1
        BY <4>3, FS_Singleton
      <4>5. QED
        BY <3>2, <4>4
    <3>3. CASE request[t][l] # "active"
      <4>1. D = {}
        BY <3>1, <3>3 DEF PostedOn
      <4>2. Cardinality(D) = 0
        BY <4>1, FS_EmptySet
      <4>3. QED
        BY <3>3, <4>2
    <3>4. QED
      BY <3>2, <3>3
  <2>4. QED
    BY <2>1, <2>2, <2>3 DEF PendingIsRequests
<1>2. QED
  BY <1>1, Invariance, PTL

(* Every receive gets the message of its own synchronization, and the      *)
(* message fits: MPI tags that repeat never confuse two of them.           *)
THEOREM MessagesAreNotConfused == Spec => []RightMessage
<1>1. IInv => RightMessage
  BY DEF IInv, ReceivedInv, ReceivedOn, RightMessage
<1>2. QED
  BY <1>1, Invariance, PTL

(* No size from before a dropping of entities is used after it.            *)
THEOREM NoStaleSize == Spec => []SizesAreCurrent
<1>1. IInv => SizesAreCurrent
  <2> SUFFICES ASSUME IInv, NEW p \in Proc, NEW t \in Tags
               PROVE  /\ pendSend[p][t] > 0 => \A l \in Out(p) : sendSize[t][l] = sendLen[l]
                      /\ pendRecv[p][t] > 0 => \A l \in In(p) : recvSize[t][l] = recvLen[l]
    BY DEF SizesAreCurrent
  <2>1. ProgramInv /\ TypeOK /\ RequestsOf(p, t) /\ SizesOf(p, t)
    BY DEF IInv, ProgramInv, RequestInv, SchemeInv
  <2>2. pendSend[p][t] > 0 => Busy(p, t)
    BY <2>1 DEF RequestsOf
  <2>3. pendRecv[p][t] > 0 => Busy(p, t)
    <3>1. CASE ~Busy(p, t)
      <4>1. pendRecv[p][t] = 0
        BY <2>1, <3>1, PendingFinite DEF RequestsOf
      <4>2. QED
        BY <4>1
    <3>2. QED
      BY <3>1
  <2>4. ASSUME Busy(p, t)
        PROVE  /\ \A l \in Out(p) : sendSize[t][l] = sendLen[l]
               /\ \A l \in In(p) : recvSize[t][l] = recvLen[l]
    <3>1. pc[p] \in {"run", "wait"}
      BY <2>1, <2>4, FilteringIsIdle DEF TypeOK
    <3>2. QED
      BY <2>1, <2>4, <3>1 DEF SizesOf
  <2>5. QED
    BY <2>2, <2>3, <2>4
<1>2. QED
  BY <1>1, Invariance, PTL

(* After the wait every ghost holds what its owner packed for it.          *)
THEOREM GhostsAreFresh == Spec => []GhostsFresh
<1>1. IInv => GhostsFresh
  <2> SUFFICES ASSUME IInv, NEW p \in Proc, NEW t \in Tags,
                      pc[p] = "run", t \notin Open(at[p]), NEW l \in In(p)
               PROVE  ghost[t][l] = LastPublished(p, t)
    BY DEF GhostsFresh
  <2>1. l \in Links /\ l[2] = p
    BY DEF In
  <2>2. request[t][l] = "free"
    BY DEF IInv, RequestInv, RequestsOf, Busy, Waiting
  <2>3. QED
    BY <2>1, <2>2 DEF IInv, ReceivedInv, ReceivedOn
<1>2. QED
  BY <1>1, Invariance, PTL

-----------------------------------------------------------------------------
(* The protocol keeps the promise of GhostExchange.                        *)

(* What the abstract variables open and missing stand for.                 *)
OpenOf(p) == {t \in Tags : Waiting(p, t)} \cup Open(at[p])
MissingOf(p, t) == {l \in In(p) : request[t][l] # "free"}
OpenNow == [p \in Proc |-> OpenOf(p)]
MissingNow == [p \in Proc |-> [t \in Tags |-> MissingOf(p, t)]]

(* The abstract variables, as state functions of GhostSync.                *)
LEMMA AbstractVars ==
  Abstract!vars = <<published, OpenNow, MissingNow, ghost>>
BY DEF Abstract!vars, OpenNow, OpenOf, MissingNow, MissingOf

(* A tag is open in the abstract specification while its synchronization   *)
(* is under way.                                                           *)
LEMMA OpenIsBusy ==
  ASSUME NEW p \in Proc, NEW t \in Tags
  PROVE  t \in OpenOf(p) <=> Busy(p, t)
BY DEF OpenOf, Busy

(* What is open is a set of tags.                                          *)
LEMMA OpenOfTags ==
  ASSUME NEW p \in Proc
  PROVE  OpenOf(p) \subseteq Tags
BY OpenIsTags DEF OpenOf

(* A step that publishes nothing, ends no wait and frees no request.       *)
LEMMA AbstractStutters ==
  ASSUME UNCHANGED <<published, ghost>>,
         \A q \in Proc, u \in Tags : Busy(q, u)' <=> Busy(q, u),
         \A l \in Links, u \in Tags : request'[u][l] = "free" <=> request[u][l] = "free"
  PROVE  UNCHANGED Abstract!vars
<1>1. ASSUME NEW q \in Proc
      PROVE  OpenOf(q)' = OpenOf(q)
  <2>1. \A u \in Tags : (u \in OpenOf(q)' <=> Busy(q, u)') /\ (u \in OpenOf(q) <=> Busy(q, u))
    BY DEF OpenOf, Busy
  <2>2. OpenOf(q) \subseteq Tags /\ OpenOf(q)' \subseteq Tags
    BY DEF OpenOf, Open
  <2>3. QED
    BY <2>1, <2>2
<1>2. ASSUME NEW q \in Proc, NEW u \in Tags
      PROVE  MissingOf(q, u)' = MissingOf(q, u)
  BY DEF MissingOf, In
<1>3. OpenNow' = OpenNow /\ MissingNow' = MissingNow
  BY <1>1, <1>2 DEF OpenNow, MissingNow
<1>4. Abstract!vars' = <<published', OpenNow', MissingNow', ghost'>>
  BY DEF Abstract!vars, OpenNow, OpenOf, MissingNow, MissingOf
<1>5. QED
  BY <1>3, <1>4, AbstractVars

(* asynchronousSynchronize implements Publish.                             *)
LEMMA AsyncPublishesAbstractly ==
  ASSUME IInv, NEW p \in Proc, NEW t \in Tags, AsynchronousSynchronize(p, t)
  PROVE  Abstract!Publish(p, t)
<1>0. /\ TypeOK /\ ProgramInv /\ RequestInv /\ Begins(p, Async(t)) /\ Async(t) \in Ops
      /\ pc' = pc /\ UNCHANGED ghost
      /\ published' = [published EXCEPT ![p][t] = Append(@, at'[p])]
  BY OpsDistinct DEF IInv, ProgramInv, AsynchronousSynchronize
<1>1. at'[p] \in 0 .. MaxOps
  BY <1>0, BeginsProgram
<1>2. t \notin OpenOf(p) \/ \A l \in Links : p \notin {l[1], l[2]}
  <2>1. CASE Linked(p)
    <3>1. t \notin Open(at[p])
      BY <1>0, <2>1, StartsFree
    <3>2. QED
      BY <1>0, <3>1 DEF OpenOf, Waiting, Begins
  <2>2. CASE ~Linked(p)
    BY <2>2 DEF Linked, Out, In
  <2>3. QED
    BY <2>1, <2>2
<1>3. \A q \in Proc : OpenOf(q)' = IF q = p THEN OpenOf(p) \cup {t} ELSE OpenOf(q)
  <2>1. /\ \A u \in Tags : u # t => (Busy(p, u)' <=> Busy(p, u))
        /\ Busy(p, t)'
        /\ \A q \in Proc, u \in Tags : q # p => (Busy(q, u)' <=> Busy(q, u))
    BY <1>0, BusyAsync, BusyBegins
  <2>2. \A q \in Proc, u \in Tags :
          (u \in OpenOf(q)' <=> Busy(q, u)') /\ (u \in OpenOf(q) <=> Busy(q, u))
    BY DEF OpenOf, Busy
  <2>3. \A q \in Proc : OpenOf(q) \subseteq Tags /\ OpenOf(q)' \subseteq Tags
    BY DEF OpenOf, Open
  <2>4. QED
    BY <2>1, <2>2, <2>3
<1>4. \A q \in Proc, u \in Tags :
        MissingOf(q, u)' = IF q = p /\ u = t THEN {l \in Links : l[2] = p} ELSE MissingOf(q, u)
  <2>1. PostRecvs(p, t, counter'[p][t])
    BY DEF AsynchronousSynchronize
  <2>2. \A u \in Tags, l \in Links :
          request'[u][l] = IF u = t /\ l[2] = p THEN "active" ELSE request[u][l]
    BY <1>0, <2>1 DEF PostRecvs, In, TypeOK
  <2>3. QED
    BY <2>2 DEF MissingOf, In
<1>5. OpenNow' = [OpenNow EXCEPT ![p] = @ \cup {t}]
  BY <1>3 DEF OpenNow
<1>6. MissingNow' = [MissingNow EXCEPT ![p][t] = {l \in Links : l[2] = p}]
  BY <1>4 DEF MissingNow
<1>7. OpenNow[p] = OpenOf(p)
  BY DEF OpenNow
<1>8. QED
  BY <1>0, <1>1, <1>2, <1>5, <1>6, <1>7
     DEF Abstract!Publish, Abstract!Isolated, OpenNow, OpenOf, MissingNow, MissingOf

(* The message that is unpacked is that of the owner's turn with the       *)
(* number of the receiver's own.                                           *)
LEMMA OwnTurn ==
  ASSUME IInv, NEW l \in Links, NEW t \in Tags, request[t][l] = "done"
  PROVE  /\ Len(published[l[2]][t]) <= Len(published[l[1]][t])
         /\ recvBuf[t][l].value = published[l[1]][t][Len(published[l[2]][t])]
<1>0. /\ ProgramInv /\ PublishedInv /\ l[1] \in Proc /\ l[2] \in Proc
      /\ Linked(l[1]) /\ Linked(l[2]) /\ at[l[1]] \in Nat /\ at[l[2]] \in Nat
  BY LinkEnds, WhereRanksAre DEF IInv
<1>t. PICK s, r, n : s = published[l[2]][t] /\ r = published[l[1]][t] /\ n = Len(s)
  OBVIOUS
<1>1. Busy(l[2], t)
  BY LinkEnds DEF IInv, RequestInv, RequestsOf
<1>2. /\ s \in Seq(Nat) /\ r \in Seq(Nat) /\ n \in Nat /\ n >= 1 /\ Len(r) \in Nat
      /\ s # <<>>
  BY <1>t, <1>0, <1>1, PublishedType, LastPublishedProperties
<1>3. recvBuf[t][l].value = s[n] /\ s[n] <= at[l[1]]
  <2>1. /\ recvBuf[t][l].value = LastPublished(l[2], t) /\ LastPublished(l[2], t) <= at[l[1]]
    BY DEF IInv, ReceivedInv, ReceivedOn
  <2>2. LastPublished(l[2], t) = s[n]
    BY <1>t, <1>2 DEF LastPublished, Last
  <2>3. QED
    BY <2>1, <2>2
<1>4. n <= Len(r) /\ r[n] = s[n]
  <2>1. CASE at[l[2]] <= at[l[1]]
    <3>1. Ahead(s, r, at[l[2]])
      BY <1>t, <1>0, <2>1 DEF PublishedInv, Prefix
    <3>2. n \in 1 .. Len(s) /\ n = Len(s)
      BY <1>t, <1>2
    <3>3. QED
      BY <3>1, <3>2 DEF Ahead
  <2>2. CASE at[l[1]] <= at[l[2]]
    <3>1. Ahead(r, s, at[l[1]])
      BY <1>t, <1>0, <2>2 DEF PublishedInv, Prefix
    <3>2. n \in 1 .. Len(r)
      <4>1. CASE n > Len(r)
        <5>1. n \in (Len(r) + 1) .. Len(s)
          BY <1>t, <1>2, <4>1
        <5>2. s[n] > at[l[1]]
          BY <3>1, <5>1 DEF Ahead
        <5>3. s[n] \in Nat
          <6>1. n \in 1 .. Len(s)
            BY <1>t, <1>2
          <6>2. QED
            BY <1>2, <6>1, ElementOfSeq
        <5>4. QED
          BY <1>0, <1>3, <5>2, <5>3
      <4>2. QED
        BY <1>2, <4>1
    <3>3. Len(r) = n /\ Len(s) = n
      BY <1>t, <1>2, <3>1, <3>2 DEF Ahead
    <3>4. n \in 1 .. Len(r) /\ s[n] = r[n]
      BY <3>1, <3>2 DEF Ahead
    <3>5. QED
      BY <1>2, <3>3, <3>4
  <2>3. QED
    BY <1>0, <2>1, <2>2
<1>5. QED
  BY <1>t, <1>3, <1>4

(* Unpack implements Collect: what is unpacked is what the sender          *)
(* published last, or what it published before going on.                   *)
LEMMA UnpackCollects ==
  ASSUME IInv, NEW p \in Proc, NEW t \in Tags, NEW l \in Links, Unpack(p, t, l)
  PROVE  Abstract!Collect(p, t, l)
<1>0. /\ TypeOK /\ l \in In(p) /\ l[2] = p /\ request[t][l] = "done"
      /\ ghost' = [ghost EXCEPT ![t][l] = recvBuf[t][l].value]
      /\ request' = [request EXCEPT ![t][l] = "free"]
      /\ UNCHANGED <<prog, at, pc, published>>
  BY DEF IInv, ProgramInv, Unpack, FreeRecv, In
<1>1. /\ Len(published[p][t]) <= Len(published[l[1]][t])
      /\ recvBuf[t][l].value = published[l[1]][t][Len(published[p][t])]
  BY <1>0, OwnTurn
<1>2. l \in MissingOf(p, t)
  BY <1>0 DEF MissingOf
<1>3. \A q \in Proc, u \in Tags :
        MissingOf(q, u)' = IF q = p /\ u = t THEN MissingOf(q, u) \ {l} ELSE MissingOf(q, u)
  <2>1. \A u \in Tags, k \in Links :
          request'[u][k] = IF u = t /\ k = l THEN "free" ELSE request[u][k]
    BY <1>0 DEF TypeOK
  <2>2. QED
    BY <1>0, <2>1 DEF MissingOf, In
<1>4. MissingNow' = [MissingNow EXCEPT ![p][t] = @ \ {l}] /\ MissingNow[p][t] = MissingOf(p, t)
  BY <1>3 DEF MissingNow
<1>5. OpenNow' = OpenNow
  BY <1>0 DEF OpenNow, OpenOf, Waiting, Open
<1>6. QED
  BY <1>0, <1>1, <1>2, <1>4, <1>5
     DEF Abstract!Collect, OpenNow, OpenOf, MissingNow, MissingOf

(* The end of waitEndSynchronize implements Close: nothing is missing      *)
(* then.                                                                   *)
LEMMA EndWaitCloses ==
  ASSUME IInv, NEW p \in Proc, NEW t \in Tags, EndWait(p, t)
  PROVE  Abstract!Close(p, t)
<1>0. /\ ProgramInv /\ UNCHANGED <<published, ghost, request>>
      /\ \A l \in In(p) : request[t][l] = "free"
  BY DEF IInv, EndWait, data, AllUnpacked
<1>1. /\ Busy(p, t) /\ ~Busy(p, t)'
      /\ \A q \in Proc, u \in Tags : q # p \/ u # t => (Busy(q, u)' <=> Busy(q, u))
  BY <1>0, BusyEndWait
<1>2. \A q \in Proc : OpenOf(q)' = IF q = p THEN OpenOf(p) \ {t} ELSE OpenOf(q)
  <2>1. \A q \in Proc, u \in Tags :
          (u \in OpenOf(q)' <=> Busy(q, u)') /\ (u \in OpenOf(q) <=> Busy(q, u))
    BY DEF OpenOf, Busy
  <2>2. \A q \in Proc : OpenOf(q) \subseteq Tags /\ OpenOf(q)' \subseteq Tags
    BY DEF OpenOf, Open
  <2>3. QED
    BY <1>1, <2>1, <2>2
<1>3. OpenNow' = [OpenNow EXCEPT ![p] = @ \ {t}] /\ OpenNow[p] = OpenOf(p)
  BY <1>2 DEF OpenNow
<1>4. t \in OpenOf(p)
  BY <1>1, OpenIsBusy
<1>5. MissingOf(p, t) = {} /\ MissingNow[p][t] = MissingOf(p, t) /\ MissingNow' = MissingNow
  BY <1>0 DEF MissingNow, MissingOf
<1>6. QED
  BY <1>0, <1>3, <1>4, <1>5
     DEF Abstract!Close, OpenNow, OpenOf, MissingNow, MissingOf

(* Every step implements a step of GhostExchange or changes none of its    *)
(* variables.                                                              *)
LEMMA StepKeepsPromise ==
  ASSUME IInv, [Next]_vars
  PROVE  [Abstract!Next]_(Abstract!vars)
<1>0. ProgramInv /\ RequestInv /\ TypeOK /\ Step
  BY NextIsStep DEF IInv, ProgramInv
<1>1. ASSUME NEW p \in Proc, NEW t \in Tags, AsynchronousSynchronize(p, t)
      PROVE  Abstract!Next
  BY <1>1, AsyncPublishesAbstractly DEF Abstract!Next
<1>2. ASSUME NEW p \in Proc, NEW t \in Tags, AsynchronousSynchronizeThrows(p, t)
      PROVE  UNCHANGED Abstract!vars
  <2>1. UNCHANGED <<published, ghost, request>>
    BY <1>0, <1>2, ThrowsPostsNothing DEF AsynchronousSynchronizeThrows
  <2>2. QED
    BY <1>0, <1>2, <2>1, ThrowsBusy, AbstractStutters
<1>3. ASSUME NEW p \in Proc, NEW t \in Tags, BeginWait(p, t)
      PROVE  UNCHANGED Abstract!vars
  <2>1. UNCHANGED <<published, ghost, request>>
    BY <1>3 DEF BeginWait, data
  <2>2. QED
    BY <1>0, <1>3, <2>1, BeginWaitBusy, AbstractStutters
<1>4. ASSUME NEW p \in Proc, NEW t \in Tags, NEW l \in Links, Unpack(p, t, l)
      PROVE  Abstract!Next
  BY <1>4, UnpackCollects DEF Abstract!Next
<1>5. ASSUME NEW p \in Proc, NEW t \in Tags, EndWait(p, t)
      PROVE  Abstract!Next
  BY <1>5, EndWaitCloses DEF Abstract!Next
<1>6. ASSUME NEW p \in Proc, NEW kept \in [In(p) -> 0 .. Entities], FilterRecv(p, kept)
      PROVE  UNCHANGED Abstract!vars
  <2>1. UNCHANGED <<published, ghost, request>>
    BY <1>6 DEF FilterRecv, data
  <2>2. QED
    BY <1>0, <1>6, <2>1, FilterRecvBusy, AbstractStutters
<1>7. ASSUME NEW p \in Proc, FilterSend(p) \/ FilterEnd(p)
      PROVE  UNCHANGED Abstract!vars
  <2>1. UNCHANGED <<published, ghost, request>>
    BY <1>7 DEF FilterSend, FilterEnd, data
  <2>2. QED
    BY <1>0, <1>7, <2>1, FilteringBusy, AbstractStutters
<1>8. ASSUME NEW l \in Links, NEW i \in 1 .. Len(posted[l]), NEW j \in 1 .. Len(sent[l]),
             Match(l, i, j)
      PROVE  UNCHANGED Abstract!vars
  <2>1. Matched(l, i, j)
    BY <1>0, <1>8, MatchSteps
  <2>2. UNCHANGED <<prog, at, pc, published, ghost>>
    BY <2>1 DEF Matched
  <2>3. ASSUME NEW k \in Links, NEW u \in Tags
        PROVE  request'[u][k] = "free" <=> request[u][k] = "free"
    <3>1. CASE k = l /\ u = MatchTag(l, i)
      <4>1. request'[u][k] = "done" /\ request[u][k] = "active"
        BY <2>1, <3>1 DEF Matched
      <4>2. QED
        BY <4>1
    <3>2. CASE ~(k = l /\ u = MatchTag(l, i))
      BY <2>1, <3>2 DEF Matched
    <3>3. QED
      BY <3>1, <3>2
  <2>4. QED
    BY <2>2, <2>3, BusySame, AbstractStutters
<1>9. ASSUME UNCHANGED vars
      PROVE  UNCHANGED Abstract!vars
  <2>1. UNCHANGED <<prog, at, pc, published, ghost, request>>
    BY <1>9 DEF vars, data
  <2>2. QED
    BY <2>1, BusySame, AbstractStutters
<1>10. QED
  BY <1>0, <1>1, <1>2, <1>3, <1>4, <1>5, <1>6, <1>7, <1>8, <1>9 DEF Step

(* The n-th time a rank waits for a tag it gets from each owner what that  *)
(* one has packed the n-th time, and it goes on only when it has all of    *)
(* them; a start that throws publishes nothing.                            *)
THEOREM KeepsPromise == Spec => GhostPromise
<1>1. Init => Abstract!Init
  <2> SUFFICES ASSUME Init
               PROVE  Abstract!Init
    OBVIOUS
  <2>1. IInv
    BY InitIInv
  <2>2. ghost \in [Tags -> [Links -> 0 .. MaxOps]]
    BY MaxOpsAssumption DEF Init
  <2>3. ASSUME NEW p \in Proc
        PROVE  {t \in Tags : Waiting(p, t)} \cup Open(at[p]) = {}
    BY DEF Init, Waiting, Open
  <2>4. ASSUME NEW p \in Proc, NEW t \in Tags
        PROVE  {l \in In(p) : request[t][l] # "free"} = {}
    BY DEF Init, In
  <2>5. published = [p \in Proc |-> [t \in Tags |-> <<>>]]
    BY DEF Init
  <2>6. QED
    BY <2>2, <2>3, <2>4, <2>5 DEF Abstract!Init
<1>2. IInv /\ [Next]_vars => [Abstract!Next]_(Abstract!vars)
  BY StepKeepsPromise
<1>3. QED
  BY <1>1, <1>2, Invariance, PTL DEF Spec, GhostPromise, Abstract!Spec

=============================================================================
