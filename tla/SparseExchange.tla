--------------------------- MODULE SparseExchange ---------------------------
(***************************************************************************)
(* Communicator::receiveAnyNumber, the exchange in which a rank knows whom *)
(* it sends to and not who sends to it (communicator_inline_impl.hh).  Its *)
(* callers post synchronous sends, then every rank loops: receive whatever *)
(* the probe finds; once all of its own sends have been received, enter a  *)
(* nonblocking barrier; leave when the barrier has completed.              *)
(*                                                                         *)
(* A round is one call.  The callers number their calls and put the number *)
(* modulo 256 in the tag (PeriodicNodeSynchronizer::update), so a rank     *)
(* that runs ahead into its next call does not feed a slower one the       *)
(* wrong messages.  MPI is modelled from the way the code uses it: a       *)
(* message travels, is seen by a probe once it has arrived, a synchronous  *)
(* send is complete once its message is received, and a rank's n-th        *)
(* barrier completes when every rank has entered n barriers.               *)
(***************************************************************************)
EXTENDS Naturals

CONSTANTS
  Proc,       \* the ranks of the communicator
  Payload,    \* what a message can carry
  TagMod,     \* the number of distinct round numbers a tag can hold: 256
  MaxRound    \* bound: the number of calls a run makes

ASSUME TagModAssumption == TagMod \in Nat /\ TagMod > 1
ASSUME MaxRoundAssumption == MaxRound \in Nat

VARIABLES
  pc,         \* where rank p is: outside, or at one of the calls of the loop
  round,      \* round[p]: the number of calls p has finished
  sendDone,   \* are_send_finished
  entered,    \* entered[p]: the barriers p has started
  travelling, \* messages sent that a probe cannot see yet
  arrived     \* messages a probe of their receiver can see

vars == <<pc, round, sendDone, entered, travelling, arrived>>

Messages == [src : Proc, dst : Proc, round : Nat, data : Payload]

Unreceived == travelling \cup arrived

TypeOK ==
  /\ pc \in [Proc -> {"out", "probe", "test", "barrier"}]
  /\ round \in [Proc -> Nat]
  /\ sendDone \in [Proc -> BOOLEAN]
  /\ entered \in [Proc -> Nat]
  /\ travelling \in SUBSET Messages
  /\ arrived \in SUBSET Messages

Init ==
  /\ pc = [p \in Proc |-> "out"]
  /\ round = [p \in Proc |-> 0]
  /\ sendDone = [p \in Proc |-> FALSE]
  /\ entered = [p \in Proc |-> 0]
  /\ travelling = {}
  /\ arrived = {}

(* Mistaken forms of the definitions that follow them carry the name of the *)
(* mistake.  Here: genTag without the call number.                         *)
TagWithoutCount(r) == 0

(* genTag(0, count, _modify_scheme): the call number, cut to its low bits. *)
Tag(r) == r % TagMod

(* A caller of the exchange, PeriodicNodeSynchronizer::update, starts its  *)
(* call: synchronous sends to the ranks it has something for.              *)
Begin(p, to) ==
  /\ pc[p] = "out"
  /\ round[p] < MaxRound
  /\ pc' = [pc EXCEPT ![p] = "probe"]
  /\ travelling' = travelling \cup
       {[src |-> p, dst |-> q, round |-> round[p], data |-> to[q]] : q \in DOMAIN to}
  /\ UNCHANGED <<round, sendDone, entered, arrived>>

(* The network brings a message within reach of the receiver's probe.      *)
Arrive(m) ==
  /\ m \in travelling
  /\ travelling' = travelling \ {m}
  /\ arrived' = arrived \cup {m}
  /\ UNCHANGED <<pc, round, sendDone, entered>>

(* The mistake of no longer probing once the own sends are finished.       *)
ProbedWhileSending(p) ==
  {m \in arrived : ~sendDone[p] /\ m.dst = p /\ Tag(m.round) = Tag(round[p])}

(* What asyncProbe(_any_source, tag) can find for rank p.                  *)
Probed(p) == {m \in arrived : m.dst = p /\ Tag(m.round) = Tag(round[p])}

(* The probe found m: it is received and handed to the processor.          *)
Receive(p, m) ==
  /\ pc[p] = "probe"
  /\ m \in Probed(p)
  /\ arrived' = arrived \ {m}
  /\ UNCHANGED <<pc, round, sendDone, entered, travelling>>

(* The mistake of going back to testAll, and so to a new barrier, each time. *)
AlwaysTestSends(p) ==
  /\ pc[p] = "probe"
  /\ Probed(p) = {}
  /\ pc' = [pc EXCEPT ![p] = "test"]
  /\ UNCHANGED <<round, sendDone, entered, travelling, arrived>>

(* The probe found nothing: on to testAll, or to the barrier's test when   *)
(* the sends are known to be finished.                                     *)
NothingProbed(p) ==
  /\ pc[p] = "probe"
  /\ Probed(p) = {}
  /\ pc' = [pc EXCEPT ![p] = IF sendDone[p] THEN "barrier" ELSE "test"]
  /\ UNCHANGED <<round, sendDone, entered, travelling, arrived>>

(* The mistake of a standard send, complete once it has left the sender.   *)
StandardSendsFinished(p) == \A m \in travelling : m.src # p

(* A synchronous send is complete once its receiver has received it.       *)
SendsFinished(p) == \A m \in Unreceived : m.src # p

(* testAll(send_requests): go round the loop, or enter the barrier.        *)
TestSends(p) ==
  /\ pc[p] = "test"
  /\ IF SendsFinished(p)
     THEN /\ sendDone' = [sendDone EXCEPT ![p] = TRUE]
          /\ entered' = [entered EXCEPT ![p] = @ + 1]
          /\ pc' = [pc EXCEPT ![p] = "barrier"]
     ELSE /\ pc' = [pc EXCEPT ![p] = "probe"]
          /\ UNCHANGED <<sendDone, entered>>
  /\ UNCHANGED <<round, travelling, arrived>>

(* The mistake of taking the own arrival for the barrier's completion.     *)
OwnArrivalOnly(p) == \E q \in Proc \ {p} : entered[q] >= entered[p]

(* Everyone has entered the barrier that p entered last.                   *)
BarrierComplete(p) == \A q \in Proc : entered[q] >= entered[p]

(* test(barrier_request) says no: go round the loop.                       *)
BarrierPending(p) ==
  /\ pc[p] = "barrier"
  /\ ~BarrierComplete(p)
  /\ pc' = [pc EXCEPT ![p] = "probe"]
  /\ UNCHANGED <<round, sendDone, entered, travelling, arrived>>

(* got_all: the call returns, and the caller counts it.                    *)
Leave(p) ==
  /\ pc[p] = "barrier"
  /\ BarrierComplete(p)
  /\ pc' = [pc EXCEPT ![p] = "out"]
  /\ round' = [round EXCEPT ![p] = @ + 1]
  /\ sendDone' = [sendDone EXCEPT ![p] = FALSE]
  /\ UNCHANGED <<entered, travelling, arrived>>

(* The loop of receiveAnyNumber on rank p.                                 *)
Loop(p) ==
  \/ \E m \in arrived : Receive(p, m)
  \/ NothingProbed(p)
  \/ TestSends(p)
  \/ BarrierPending(p)
  \/ Leave(p)

(* The run is over: every rank has made its calls.                         *)
Terminated ==
  /\ \A p \in Proc : pc[p] = "out" /\ round[p] = MaxRound
  /\ UNCHANGED vars

Next ==
  \/ \E p \in Proc : \E D \in SUBSET (Proc \ {p}) :
       \E to \in [D -> Payload] : Begin(p, to)
  \/ \E m \in travelling : Arrive(m)
  \/ \E p \in Proc : Loop(p)
  \/ Terminated

Spec == Init /\ [][Next]_vars

(* A running rank keeps running its loop, and MPI delivers what was sent.  *)
(* Nothing here says that a rank ever makes a call.                        *)
Fairness ==
  /\ \A p \in Proc : WF_vars(Loop(p))
  /\ WF_vars(\E m \in travelling : Arrive(m))

(* Every rank of the program makes its next call at some point.            *)
Calls ==
  \A p \in Proc : WF_vars(\E D \in SUBSET (Proc \ {p}) :
                            \E to \in [D -> Payload] : Begin(p, to))

FairSpec == Spec /\ Fairness /\ Calls
-----------------------------------------------------------------------------
(* A message that is not received yet belongs to the call its sender is in, *)
(* and that call has not seen all of its sends finished.                   *)
SendsOpen ==
  \A m \in Unreceived :
    /\ m.round = round[m.src]
    /\ m.dst # m.src
    /\ pc[m.src] # "out"
    /\ ~sendDone[m.src]

(* A rank enters one barrier a call, when its sends are finished.          *)
OneBarrierPerCall ==
  \A p \in Proc :
    /\ entered[p] = round[p] + (IF sendDone[p] THEN 1 ELSE 0)
    /\ pc[p] \in {"out", "test"} => ~sendDone[p]
    /\ pc[p] = "barrier" => sendDone[p]

(* Nobody has finished more calls than another has entered barriers.       *)
BarrierSeparates == \A p, q \in Proc : round[p] <= entered[q]

(* A message is on its way or within reach of the probe, not both.         *)
InOnePlace == travelling \cap arrived = {}

(* The inductive invariant: how sends, barriers and calls hold together    *)
(* (are_send_finished and barrier_request in receiveAnyNumber).            *)
ExchangeInv ==
  TypeOK /\ SendsOpen /\ OneBarrierPerCall /\ BarrierSeparates /\ InOnePlace

(* When some rank has returned from a call, every message of that call has *)
(* been received: no one finishes receiveAnyNumber with a message left     *)
(* behind, although nobody was told how many to expect.                    *)
NothingLeftBehind == \A m \in Unreceived : \A p \in Proc : round[p] <= m.round

(* Whatever the probe of a rank finds was sent in the same call of the     *)
(* program: ranks that already are in the next call carry another tag,     *)
(* even though tags repeat after TagMod calls.                             *)
RightCall ==
  \A p \in Proc : pc[p] # "out" => \A m \in Probed(p) : m.round = round[p]

(* The protocol keeps the promise of an exchange: ranks leave together and *)
(* messages arrive in their round, and all of them do arrive.              *)
Abstract ==
  INSTANCE Exchange WITH inside <- {p \in Proc : pc[p] # "out"},
                         pending <- Unreceived

Promise == Abstract!Spec

(* receiveAnyNumber returns: no rank stays in a call for ever, provided    *)
(* that every rank makes the call.                                         *)
EveryCallReturns == \A p \in Proc : pc[p] # "out" ~> pc[p] = "out"
=============================================================================
