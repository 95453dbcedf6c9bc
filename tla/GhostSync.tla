----------------------------- MODULE GhostSync -----------------------------
(***************************************************************************)
(* SynchronizerImpl<Entity>: how the ranks bring their ghost entities up   *)
(* to date, with asynchronousSynchronize and waitEndSynchronize, and how   *)
(* they drop entities from the schemes in between (filterScheme).          *)
(*                                                                         *)
(* A link <<o, g>> is a pair of schemes: o has a send scheme for g, and g  *)
(* a receive scheme for o.  Per link and synchronization tag there is a    *)
(* Communication on either side, with its buffer, size and request; per    *)
(* rank and tag the counters of class Communications.                      *)
(*                                                                         *)
(* The ranks run the same program of operations (prog), each at its own    *)
(* pace.  MPI is modelled from its use: on a link, a message is matched by *)
(* the first posted receive with its MPI tag and a receive by the first    *)
(* message with its tag; a send may be buffered by MPI or may read the     *)
(* sender's buffer as late as the moment it is matched.  MPI tags repeat:  *)
(* the count is cut to 8 bits, the synchronization tag to 4.               *)
(***************************************************************************)
EXTENDS Naturals, FiniteSets, SequencesExt

CONSTANTS
  Proc,       \* the ranks of the communicator
  Links,      \* the pairs <<owner, ghost>> that share entities
  Tags,       \* synchronization tags
  TagBits,    \* TagBits[t]: what the MPI tag keeps of t, its low 4 bits
  CountMod,   \* the number of counts the MPI tag can hold: 256
  Entities,   \* the number of entities a link starts with
  MaxOps      \* bound: the operations of a program

ASSUME ProcAssumption == IsFiniteSet(Proc)
ASSUME LinksAssumption == Links \subseteq {l \in Proc \X Proc : l[1] # l[2]}
ASSUME TagBitsAssumption == TagBits \in [Tags -> Nat]
ASSUME CountModAssumption == CountMod \in Nat \ {0}
ASSUME EntitiesAssumption == Entities \in Nat
ASSUME MaxOpsAssumption == MaxOps \in Nat

VARIABLES
  prog,       \* the program, as far as some rank has got
  at,         \* at[p]: the operation of prog that p is in or has just done
  pc,         \* whether p is between operations, waiting, filtering, or
              \* draining what it sent in filterScheme
  sendLen,    \* sendLen[l]: the entities in the send scheme, on rank l[1]
  recvLen,    \* recvLen[l]: the entities in the receive scheme, on l[2]
  keep,       \* keep[l]: what filterScheme sent from l[2] to l[1]
  sizeKnown,  \* comm_size_computed
  sendSize,   \* sendSize[t][l]: the size of the send Communication
  recvSize,   \* recvSize[t][l]: the size of the receive Communication
  counter,    \* comm_counter
  pendSend,   \* pending_communications[_send]
  pendRecv,   \* pending_communications[_recv]
  sendBuf,    \* sendBuf[t][l]: what is packed in the send buffer
  request,    \* request[t][l]: the receive request: free, active or done
  recvBuf,    \* recvBuf[t][l]: what a done request has received
  sent,       \* sent[l]: MPI's messages on their way, in the order sent
  posted,     \* posted[l]: MPI's receives not matched, in the order posted
  ghost,      \* ghost[t][l]: what the ghosts of l[2] last got from l[1]
  published   \* history: published[p][t], the operations that packed t on p

comms == <<sizeKnown, sendSize, recvSize, counter, pendSend, pendRecv>>
mpi == <<sent, posted, keep>>
data == <<sendBuf, request, recvBuf, ghost, published>>
schemes == <<sendLen, recvLen>>
vars == <<prog, at, pc, schemes, comms, data, mpi>>

Out(p) == {l \in Links : l[1] = p}
In(p) == {l \in Links : l[2] = p}

Async(t) == <<"async", t>>
Wait(t) == <<"wait", t>>
Filter == <<"filter">>
Ops == {Async(t) : t \in Tags} \cup {Wait(t) : t \in Tags} \cup {Filter}

Message == [wire : Nat \X Nat, tag : Tags, value : Nat, size : Nat, buffered : BOOLEAN]
Receive == [wire : Nat \X Nat, tag : Tags, size : Nat]
Received == [tag : Tags, value : Nat, size : Nat, room : Nat]

Init ==
  /\ prog = <<>>
  /\ at = [p \in Proc |-> 0]
  /\ pc = [p \in Proc |-> "run"]
  /\ sendLen = [l \in Links |-> Entities]
  /\ recvLen = [l \in Links |-> Entities]
  /\ keep = [l \in Links |-> <<>>]
  /\ sizeKnown = [p \in Proc |-> [t \in Tags |-> FALSE]]
  /\ sendSize = [t \in Tags |-> [l \in Links |-> 0]]
  /\ recvSize = [t \in Tags |-> [l \in Links |-> 0]]
  /\ counter = [p \in Proc |-> [t \in Tags |-> 0]]
  /\ pendSend = [p \in Proc |-> [t \in Tags |-> 0]]
  /\ pendRecv = [p \in Proc |-> [t \in Tags |-> 0]]
  /\ sendBuf = [t \in Tags |-> [l \in Links |-> 0]]
  /\ request = [t \in Tags |-> [l \in Links |-> "free"]]
  /\ recvBuf = [t \in Tags |-> [l \in Links |-> <<>>]]
  /\ sent = [l \in Links |-> <<>>]
  /\ posted = [l \in Links |-> <<>>]
  /\ ghost = [t \in Tags |-> [l \in Links |-> 0]]
  /\ published = [p \in Proc |-> [t \in Tags |-> <<>>]]

(* Definitions named after a mistake state what a wrong version of the     *)
(* definition that follows them would do.                                  *)
-----------------------------------------------------------------------------
(* The tags with a synchronization that is started and not waited for      *)
(* within the first i operations.                                          *)
Open(i) ==
  {t \in Tags : \E j \in 1 .. i :
     prog[j] = Async(t) /\ \A k \in (j + 1) .. i : prog[k] # Wait(t)}

(* The programs the callers write: a synchronization is waited for after   *)
(* it is started, and entities are dropped between synchronizations.       *)
Legal(op) ==
  /\ \A t \in Tags : op = Wait(t) => t \in Open(Len(prog))
  /\ op = Filter => Open(Len(prog)) = {}

(* Rank p begins op: the next of the program, or one that p is first to    *)
(* reach and that extends it.                                              *)
Begins(p, op) ==
  /\ pc[p] = "run"
  /\ at' = [at EXCEPT ![p] = @ + 1]
  /\ \/ /\ at[p] < Len(prog)
        /\ op = prog[at[p] + 1]
        /\ UNCHANGED prog
     \/ /\ at[p] = Len(prog)
        /\ Len(prog) < MaxOps
        /\ Legal(op)
        /\ prog' = Append(prog, op)

(* genTag(rank, counter, tag, hash): the rank and the hash are the link's. *)
Wire(t, count) == <<count % CountMod, TagBits[t]>>

(* computeBufferSize, unless comm_size_computed says it is not needed.     *)
ComputeBufferSize(p, t) ==
  /\ sizeKnown' = [sizeKnown EXCEPT ![p][t] = TRUE]
  /\ IF sizeKnown[p][t] THEN UNCHANGED <<sendSize, recvSize>>
     ELSE /\ sendSize' = [sendSize EXCEPT ![t] =
               [l \in Links |-> IF l \in Out(p) THEN sendLen[l] ELSE @[l]]]
          /\ recvSize' = [recvSize EXCEPT ![t] =
               [l \in Links |-> IF l \in In(p) THEN recvLen[l] ELSE @[l]]]

(* postRecv for every receive Communication of p for t.                    *)
PostRecvs(p, t, count) ==
  /\ request' = [request EXCEPT ![t] =
       [l \in Links |-> IF l \in In(p) THEN "active" ELSE @[l]]]
  /\ posted' = [l \in Links |->
       IF l \in In(p)
       THEN Append(posted[l], [wire |-> Wire(t, count), tag |-> t, size |-> recvSize'[t][l]])
       ELSE posted[l]]
  /\ pendRecv' = [pendRecv EXCEPT ![p][t] = @ + Cardinality(In(p))]

(* resetBuffer, packData and postSend for every send Communication of p    *)
(* for t.  MPI buffers the messages to the links of buffered.              *)
PostSends(p, t, count, buffered) ==
  /\ sendBuf' = [sendBuf EXCEPT ![t] =
       [l \in Links |-> IF l \in Out(p) THEN at'[p] ELSE @[l]]]
  /\ sent' = [l \in Links |->
       IF l \in Out(p)
       THEN Append(sent[l], [wire |-> Wire(t, count), tag |-> t, value |-> at'[p],
                             size |-> sendSize'[t][l], buffered |-> l \in buffered])
       ELSE sent[l]]
  /\ pendSend' = [pendSend EXCEPT ![p][t] = @ + Cardinality(Out(p))]

(* asynchronousSynchronize.                                                *)
AsynchronousSynchronize(p, t) ==
  /\ Begins(p, Async(t))
  /\ ComputeBufferSize(p, t)
  /\ counter' = [counter EXCEPT ![p][t] = @ + 1]
  /\ pendRecv[p][t] = 0 /\ pendSend[p][t] = 0
  /\ PostRecvs(p, t, counter'[p][t])
  /\ \E buffered \in SUBSET Out(p) : PostSends(p, t, counter'[p][t], buffered)
  /\ published' = [published EXCEPT ![p][t] = Append(@, at'[p])]
  /\ UNCHANGED <<pc, schemes, keep, recvBuf, ghost>>

(* asynchronousSynchronize when the last one is still pending: the count   *)
(* has gone up by the time the exception is thrown.                        *)
AsynchronousSynchronizeThrows(p, t) ==
  /\ Begins(p, Async(t))
  /\ ComputeBufferSize(p, t)
  /\ counter' = [counter EXCEPT ![p][t] = @ + 1]
  /\ \/ /\ pendRecv[p][t] # 0
        /\ UNCHANGED <<request, posted, pendRecv>>
     \/ /\ pendRecv[p][t] = 0 /\ pendSend[p][t] # 0
        /\ PostRecvs(p, t, counter'[p][t])
  /\ UNCHANGED <<pc, schemes, keep, pendSend, sendBuf, sent, recvBuf, ghost, published>>

(* MPI matches the first receive and the first message with the same tag   *)
(* on a link.  A message that MPI has not buffered is read from the send   *)
(* buffer now.                                                             *)
Match(l, i, j) ==
  LET r == posted[l][i]
      m == sent[l][j]
      value == IF m.buffered THEN m.value ELSE sendBuf[m.tag][l]
  IN /\ r.wire = m.wire
     /\ \A k \in 1 .. (i - 1) : posted[l][k].wire # r.wire
     /\ \A k \in 1 .. (j - 1) : sent[l][k].wire # m.wire
     /\ posted' = [posted EXCEPT ![l] = RemoveAt(@, i)]
     /\ sent' = [sent EXCEPT ![l] = RemoveAt(@, j)]
     /\ request' = [request EXCEPT ![r.tag][l] = "done"]
     /\ recvBuf' = [recvBuf EXCEPT ![r.tag][l] =
          [tag |-> m.tag, value |-> value, size |-> m.size, room |-> r.size]]
     /\ UNCHANGED <<prog, at, pc, schemes, comms, sendBuf, ghost, published, keep>>

(* waitEndSynchronize begins.                                              *)
BeginWait(p, t) ==
  /\ Begins(p, Wait(t))
  /\ pc' = [pc EXCEPT ![p] = "wait"]
  /\ UNCHANGED <<schemes, comms, data, mpi>>

Waiting(p, t) == pc[p] = "wait" /\ prog[at[p]] = Wait(t)

(* The mistake of freeing the request without decrementPending.            *)
FreeUncounted(p, t, l) ==
  request' = [request EXCEPT ![t][l] = "free"] /\ UNCHANGED pendRecv

(* CommunicationDescriptor::freeRequest on a receive.                      *)
FreeRecv(p, t, l) ==
  /\ request' = [request EXCEPT ![t][l] = "free"]
  /\ pendRecv' = [pendRecv EXCEPT ![p][t] = @ - 1]

(* waitAnyRecv has found a request: unpackData, resetBuffer, freeRequest.  *)
Unpack(p, t, l) ==
  /\ Waiting(p, t)
  /\ l \in In(p) /\ request[t][l] = "done"
  /\ ghost' = [ghost EXCEPT ![t][l] = recvBuf[t][l].value]
  /\ FreeRecv(p, t, l)
  /\ UNCHANGED <<prog, at, pc, schemes, sizeKnown, sendSize, recvSize, counter, pendSend,
                 sendBuf, recvBuf, published, mpi>>

(* The mistake of ending the wait with the first message.                  *)
AnyUnpacked(p, t) == In(p) = {} \/ \E l \in In(p) : request[t][l] # "active"

(* waitAnyRecv returns the end: no receive request is left.                *)
AllUnpacked(p, t) == \A l \in In(p) : request[t][l] = "free"

(* The mistake of not waiting for the sends.                               *)
SendsForgotten(p, t) == TRUE

(* waitAllSend: a send is complete when MPI has buffered it or matched it. *)
SendsComplete(p, t) ==
  \A l \in Out(p) : \A j \in DOMAIN sent[l] : sent[l][j].tag = t => sent[l][j].buffered

(* Every receive request is freed: wait for the sends and free them.       *)
EndWait(p, t) ==
  /\ Waiting(p, t)
  /\ AllUnpacked(p, t)
  /\ SendsComplete(p, t)
  /\ pendSend' = [pendSend EXCEPT ![p][t] = @ - Cardinality(Out(p))]
  /\ pc' = [pc EXCEPT ![p] = "run"]
  /\ UNCHANGED <<prog, at, schemes, sizeKnown, sendSize, recvSize, counter, pendRecv,
                 data, mpi>>

(* The mistake of sending no list when nothing is kept.                    *)
TellUnlessEmpty(l, n) == IF n = 0 THEN keep[l] ELSE Append(keep[l], n)

(* The list of the n entities that are kept, sent whether empty or not.    *)
Tell(l, n) == Append(keep[l], n)

(* filterScheme begins: every receive scheme loses some of its entities,   *)
(* and the other side is told which ones are kept.                         *)
FilterRecv(p, kept) ==
  /\ Begins(p, Filter)
  /\ pc' = [pc EXCEPT ![p] = "filter"]
  /\ \A l \in In(p) : kept[l] <= recvLen[l]
  /\ recvLen' = [l \in Links |-> IF l \in In(p) THEN kept[l] ELSE recvLen[l]]
  /\ keep' = [l \in Links |-> IF l \in In(p) THEN Tell(l, kept[l]) ELSE keep[l]]
  /\ UNCHANGED <<sendLen, comms, data, sent, posted>>

(* The mistake of keeping the sizes that were computed.                    *)
KeepSizes(p) == UNCHANGED sizeKnown

(* invalidateSizes.                                                        *)
InvalidateSizes(p) == sizeKnown' = [sizeKnown EXCEPT ![p] = [t \in Tags |-> FALSE]]

(* The lists of all receivers are in, and the send schemes are cut to them. *)
FilterSend(p) ==
  /\ pc[p] = "filter"
  /\ \A l \in Out(p) : keep[l] # <<>>
  /\ sendLen' = [l \in Links |-> IF l \in Out(p) THEN Head(keep[l]) ELSE sendLen[l]]
  /\ keep' = [l \in Links |-> IF l \in Out(p) THEN Tail(keep[l]) ELSE keep[l]]
  /\ pc' = [pc EXCEPT ![p] = "drain"]
  /\ UNCHANGED <<prog, at, recvLen, comms, data, sent, posted>>

(* filterScheme ends: sizes are computed anew at the next use.             *)
FilterEnd(p) ==
  /\ pc[p] = "drain"
  /\ InvalidateSizes(p)
  /\ pc' = [pc EXCEPT ![p] = "run"]
  /\ UNCHANGED <<prog, at, schemes, sendSize, recvSize, counter, pendSend, pendRecv,
                 data, mpi>>

(* waitAll(requests) returns since the lists p has sent are received.      *)
ListsReceived(p) == (\A l \in In(p) : keep[l] = <<>>) /\ FilterEnd(p)

(* waitAll(requests) returns since MPI has buffered what is not received.  *)
ListsBuffered(p) == (\E l \in In(p) : keep[l] # <<>>) /\ FilterEnd(p)

Terminated ==
  /\ \A p \in Proc : pc[p] = "run" /\ at[p] = MaxOps
  /\ UNCHANGED vars

RankStep(p) ==
  \/ \E t \in Tags : AsynchronousSynchronize(p, t)
  \/ \E t \in Tags : AsynchronousSynchronizeThrows(p, t)
  \/ \E t \in Tags : BeginWait(p, t)
  \/ \E t \in Tags, l \in Links : Unpack(p, t, l)
  \/ \E t \in Tags : EndWait(p, t)
  \/ \E kept \in [In(p) -> 0 .. Entities] : FilterRecv(p, kept)
  \/ FilterSend(p)
  \/ ListsReceived(p)

Matching == \E l \in Links : \E i \in DOMAIN posted[l], j \in DOMAIN sent[l] : Match(l, i, j)

Next ==
  \/ \E p \in Proc : RankStep(p)
  \/ \E p \in Proc : ListsBuffered(p)
  \/ Matching
  \/ Terminated

Spec == Init /\ [][Next]_vars

(* Every rank goes on with its program, and MPI matches what can be        *)
(* matched (progress of posted receives).  That MPI buffers a message or a *)
(* list is never promised.                                                 *)
Fairness == (\A p \in Proc : WF_vars(RankStep(p))) /\ WF_vars(Matching)

FairSpec == Spec /\ Fairness
-----------------------------------------------------------------------------
TypeOK ==
  /\ prog \in Seq(Ops) /\ Len(prog) <= MaxOps
  /\ at \in [Proc -> 0 .. MaxOps]
  /\ pc \in [Proc -> {"run", "wait", "filter", "drain"}]
  /\ sendLen \in [Links -> 0 .. Entities] /\ recvLen \in [Links -> 0 .. Entities]
  /\ keep \in [Links -> Seq(0 .. Entities)]
  /\ sizeKnown \in [Proc -> [Tags -> BOOLEAN]]
  /\ sendSize \in [Tags -> [Links -> Nat]] /\ recvSize \in [Tags -> [Links -> Nat]]
  /\ counter \in [Proc -> [Tags -> Nat]]
  /\ pendSend \in [Proc -> [Tags -> Nat]] /\ pendRecv \in [Proc -> [Tags -> Nat]]
  /\ sendBuf \in [Tags -> [Links -> Nat]]
  /\ request \in [Tags -> [Links -> {"free", "active", "done"}]]
  /\ recvBuf \in [Tags -> [Links -> Received \cup {<<>>}]]
  /\ sent \in [Links -> Seq(Message)] /\ posted \in [Links -> Seq(Receive)]
  /\ ghost \in [Tags -> [Links -> Nat]]
  /\ published \in [Proc -> [Tags -> Seq(1 .. MaxOps)]]

(* The pending counters are the requests that are not freed, and MPI holds *)
(* one receive for every active request and none for any other.            *)
PendingIsRequests ==
  /\ \A p \in Proc, t \in Tags :
       pendRecv[p][t] = Cardinality({l \in In(p) : request[t][l] # "free"})
  /\ \A t \in Tags, l \in Links :
       Cardinality({i \in DOMAIN posted[l] : posted[l][i].tag = t})
         = IF request[t][l] = "active" THEN 1 ELSE 0

GhostInv == TypeOK /\ PendingIsRequests

LastPublished(p, t) == IF published[p][t] = <<>> THEN 0 ELSE Last(published[p][t])

(* What a receive has received is the message that the owner sent for this *)
(* very synchronization, of the same tag, however MPI tags repeat and      *)
(* whichever rank is ahead; and it fills the buffer exactly.               *)
RightMessage ==
  \A t \in Tags, l \in Links : request[t][l] = "done" =>
    /\ recvBuf[t][l].tag = t
    /\ recvBuf[t][l].value = LastPublished(l[2], t)
    /\ recvBuf[t][l].size = recvBuf[t][l].room

(* While a synchronization is pending, the sizes it was posted with are    *)
(* those of the schemes that are packed and unpacked: no size computed     *)
(* before entities were removed is used after it (the assertion of         *)
(* CommunicationDescriptor::postSend).                                     *)
SizesAreCurrent ==
  \A p \in Proc, t \in Tags :
    /\ pendSend[p][t] > 0 => \A l \in Out(p) : sendSize[t][l] = sendLen[l]
    /\ pendRecv[p][t] > 0 => \A l \in In(p) : recvSize[t][l] = recvLen[l]

(* After waitEndSynchronize every ghost of the rank holds what its owner   *)
(* packed in the synchronization that was waited for, and keeps it until   *)
(* the next one.                                                           *)
GhostsFresh ==
  \A p \in Proc, t \in Tags :
    (pc[p] = "run" /\ t \notin Open(at[p])) =>
      \A l \in In(p) : ghost[t][l] = LastPublished(p, t)

(* The protocol keeps the promise of GhostExchange: the n-th time a rank   *)
(* waits for a tag it gets from each owner what that one has packed the    *)
(* n-th time, and it only goes on when it has all of them; a start that    *)
(* throws publishes nothing.                                               *)
Abstract ==
  INSTANCE GhostExchange WITH
    Value <- 0 .. MaxOps,
    open <- [p \in Proc |-> {t \in Tags : Waiting(p, t)} \cup Open(at[p])],
    missing <- [p \in Proc |-> [t \in Tags |-> {l \in In(p) : request[t][l] # "free"}]]

GhostPromise == Abstract!Spec

(* No operation blocks a rank for ever, even if MPI never buffers a        *)
(* message: waits and filters end once every rank gets to them.            *)
EveryOperationEnds == \A p \in Proc : pc[p] # "run" ~> pc[p] = "run"
=============================================================================
