-------------------------- MODULE PeriodicNodeSync --------------------------
(***************************************************************************)
(* PeriodicNodeSynchronizer::update, the caller of the sparse exchange     *)
(* that rebuilds the communication schemes of periodic nodes.  A rank      *)
(* knows the masters it needs and who owns them: these are its receive     *)
(* schemes, and their global ids are what it sends.  The owners learn what *)
(* they have to send from the messages alone, so a rank's send schemes     *)
(* must come out as the mirror of the others' receive schemes.             *)
(*                                                                         *)
(* A scheme is the set of its nodes: both sides keep the order of the      *)
(* message.  The exchange is SparseExchange, its steps extended by what    *)
(* update does before the call and in the processor it passes.             *)
(***************************************************************************)
EXTENDS SparseExchange

CONSTANTS
  Node,       \* master nodes, by global id
  Owner       \* Owner[n]: the rank whose master or local node n is

ASSUME OwnerAssumption == Owner \in [Node -> Proc]
ASSUME PayloadAssumption == Payload = SUBSET Node

VARIABLES
  recvScheme, \* recvScheme[p][q]: the nodes p receives from q, for known q
  sendScheme  \* sendScheme[p][q]: the nodes p sends to q, for known q

pvars == <<vars, recvScheme, sendScheme>>

(* A Communications scheme map: entries for the processors seen so far.    *)
Scheme == UNION {[Q -> SUBSET Node] : Q \in SUBSET Proc}

PeriodicTypeOK ==
  /\ TypeOK
  /\ recvScheme \in [Proc -> Scheme]
  /\ sendScheme \in [Proc -> Scheme]

PeriodicInit ==
  /\ Init
  /\ recvScheme = [p \in Proc |-> [q \in {} |-> {}]]
  /\ sendScheme = [p \in Proc |-> [q \in {} |-> {}]]

(* What a scheme map holds for q: nothing if q has no entry.               *)
Entry(scheme, q) == IF q \in DOMAIN scheme THEN scheme[q] ELSE {}

(* createScheme(proc, sr) for the processors of "to", and the pushes to it. *)
Pushed(scheme, to) ==
  [q \in DOMAIN scheme \cup DOMAIN to |-> Entry(scheme, q) \cup Entry(to, q)]

(* The mistake of leaving the schemes of the last update in place.         *)
KeepSchemes(scheme) == scheme

(* resetSchemes: every scheme is emptied, none is removed.                 *)
ResetSchemes(scheme) == [q \in DOMAIN scheme |-> {}]

(* What rank p asks of each owner when it needs these masters.             *)
Requests(p, masters) ==
  [q \in {Owner[n] : n \in masters} \ {p} |-> {n \in masters : Owner[n] = q}]

(* update up to the exchange: masters are those of the current periodic    *)
(* pairs; the ones p does not own are received and asked for.              *)
Update(p, masters) ==
  /\ Begin(p, Requests(p, masters))
  /\ recvScheme' =
       [recvScheme EXCEPT ![p] = Pushed(ResetSchemes(@), Requests(p, masters))]
  /\ sendScheme' = [sendScheme EXCEPT ![p] = ResetSchemes(@)]

(* The processor: the sender of the message becomes someone to send to.    *)
ReceiveRequest(p, m) ==
  /\ Receive(p, m)
  /\ sendScheme' = [sendScheme EXCEPT ![p] = Pushed(@, [q \in {m.src} |-> m.data])]
  /\ UNCHANGED recvScheme

(* The other steps of receiveAnyNumber leave the schemes alone.            *)
OtherStep(p) ==
  /\ NothingProbed(p) \/ TestSends(p) \/ BarrierPending(p) \/ Leave(p)
  /\ UNCHANGED <<recvScheme, sendScheme>>

RankStep(p) == (\E m \in arrived : ReceiveRequest(p, m)) \/ OtherStep(p)

Deliver == (\E m \in travelling : Arrive(m)) /\ UNCHANGED <<recvScheme, sendScheme>>

PeriodicNext ==
  \/ \E p \in Proc, masters \in SUBSET Node : Update(p, masters)
  \/ \E p \in Proc : RankStep(p)
  \/ Deliver
  \/ Terminated /\ UNCHANGED <<recvScheme, sendScheme>>

PeriodicSpec == PeriodicInit /\ [][PeriodicNext]_pvars

(* A rank in a call runs its loop, MPI delivers, and the program is SPMD:  *)
(* every rank makes every update.                                          *)
PeriodicFairness ==
  /\ \A p \in Proc : WF_pvars(RankStep(p))
  /\ WF_pvars(Deliver)
  /\ \A p \in Proc : WF_pvars(\E masters \in SUBSET Node : Update(p, masters))

PeriodicFairSpec == PeriodicSpec /\ PeriodicFairness
-----------------------------------------------------------------------------
(* The number of updates rank p has begun.                                 *)
Begun(p) == round[p] + (IF pc[p] = "out" THEN 0 ELSE 1)

(* What p has asked of q and q has not received yet.                       *)
Asked(p, q) == UNION {m.data : m \in {n \in Unreceived : n.src = p /\ n.dst = q}}

(* What q asked of p is in p's send scheme or still to be received; a rank *)
(* that has not begun the other's update has not received any of it, and   *)
(* one that is ahead has nothing from it yet.                              *)
Ledger ==
  \A p, q \in Proc : p # q =>
    /\ Begun(p) = Begun(q) =>
         Entry(sendScheme[p], q) \cup Asked(q, p) = Entry(recvScheme[q], p)
    /\ Begun(p) < Begun(q) => Asked(q, p) = Entry(recvScheme[q], p)
    /\ Begun(p) > Begun(q) => Entry(sendScheme[p], q) = {} /\ Asked(q, p) = {}

PeriodicInv == PeriodicTypeOK /\ Ledger

(* When any rank is back from its k-th update, all ranks that are in or    *)
(* after theirs have send schemes that mirror the receive schemes: what a  *)
(* rank will send is what the other will wait for, so the exchanges of     *)
(* SynchronizerImpl::communicateOnce that follow cannot miss a partner.    *)
SchemesMirror ==
  \A p, q \in Proc :
    (p # q /\ Begun(p) = Begun(q) /\ \E s \in Proc : round[s] >= Begun(p)) =>
      Entry(sendScheme[p], q) = Entry(recvScheme[q], p)

(* The same for the entries, empty ones included: an asynchronous          *)
(* synchronization posts a receive and a send for every entry.             *)
EntriesMirror ==
  \A p, q \in Proc :
    (Begun(p) = Begun(q) /\ \E s \in Proc : round[s] >= Begun(p)) =>
      (q \in DOMAIN sendScheme[p] <=> p \in DOMAIN recvScheme[q])

(* Every update ends with every rank back in the program.                  *)
EveryUpdateEnds == <>[](\A p \in Proc : pc[p] = "out" /\ round[p] = MaxRound)
=============================================================================
