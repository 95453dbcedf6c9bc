------------------------------ MODULE Exchange ------------------------------
(***************************************************************************)
(* What a sparse exchange promises, whatever protocol carries it out.      *)
(*                                                                         *)
(* The ranks of a parallel run repeat the same exchange: in each round     *)
(* every rank posts messages to ranks of its choice, and nobody knows how  *)
(* many messages it will get.  A rank that leaves the round has been       *)
(* waited for by everyone and leaves no message of that round behind, and  *)
(* a message is only ever delivered in the round it was posted for.        *)
(***************************************************************************)
EXTENDS Naturals

CONSTANTS
  Proc,       \* the ranks of the communicator
  Payload,    \* what a message can carry
  MaxRound    \* bound: the number of rounds a run makes

VARIABLES
  round,      \* round[p]: the number of rounds rank p has left
  inside,     \* the ranks that have posted and not left their round
  pending     \* the messages posted and not delivered

vars == <<round, inside, pending>>

Init ==
  /\ round = [p \in Proc |-> 0]
  /\ inside = {}
  /\ pending = {}

(* What rank p posts when it has to[q] for rank q.                          *)
Posted(p, to) ==
  {[src |-> p, dst |-> q, round |-> round[p], data |-> to[q]] : q \in DOMAIN to}

(* Rank p enters its next round with at most one message per other rank.   *)
Post(p, to) ==
  /\ p \notin inside
  /\ round[p] < MaxRound
  /\ inside' = inside \cup {p}
  /\ pending' = pending \cup Posted(p, to)
  /\ UNCHANGED round

(* A message is handed over in the round of its receiver it was meant for. *)
Deliver(m) ==
  /\ m \in pending
  /\ m.dst \in inside
  /\ m.round = round[m.dst]
  /\ pending' = pending \ {m}
  /\ UNCHANGED <<round, inside>>

(* Everyone has posted for the round that p is in, or is already past it.  *)
EveryonePosted(p) ==
  \A q \in Proc : round[q] > round[p] \/ (round[q] = round[p] /\ q \in inside)

(* Rank p leaves: everyone has posted and nothing of this round is left.   *)
Leave(p) ==
  /\ p \in inside
  /\ EveryonePosted(p)
  /\ \A m \in pending : m.round > round[p]
  /\ round' = [round EXCEPT ![p] = @ + 1]
  /\ inside' = inside \ {p}
  /\ UNCHANGED pending

Next ==
  \/ \E p \in Proc : \E D \in SUBSET (Proc \ {p}) :
       \E to \in [D -> Payload] : Post(p, to)
  \/ \E m \in pending : Deliver(m)
  \/ \E p \in Proc : Leave(p)

Safe == Init /\ [][Next]_vars

(* The exchange also promises progress: a posted message is delivered, and *)
(* a rank that may leave its round does.                                   *)
Fairness ==
  /\ WF_vars(\E m \in pending : Deliver(m))
  /\ \A p \in Proc : WF_vars(Leave(p))

Spec == Safe /\ Fairness
=============================================================================
