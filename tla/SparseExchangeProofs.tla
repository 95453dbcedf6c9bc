------------------------ MODULE SparseExchangeProofs ------------------------
(***************************************************************************)
(* Proofs about SparseExchange for every set of ranks, every payload, any  *)
(* number of calls and any number of call numbers in a tag from two on.    *)
(***************************************************************************)
EXTENDS SparseExchange, Integers, TLAPS

(* Two calls in a row have different tags: genTag(0, count, ...) of count  *)
(* and of count + 1.                                                       *)
LEMMA NeighbouringTagsDiffer ==
  ASSUME NEW r \in Nat
  PROVE  Tag(r) # Tag(r + 1)
<1> DEFINE a == r \div TagMod
           b == (r + 1) \div TagMod
<1>1. TagMod \in Int /\ TagMod > 1 /\ r \in Int
  BY TagModAssumption
<1>2. r = TagMod * a + (r % TagMod) /\ a \in Int
  BY <1>1, SMT
<1>3. r + 1 = TagMod * b + ((r + 1) % TagMod) /\ b \in Int
  BY <1>1, SMT
<1>4. SUFFICES ASSUME r % TagMod = (r + 1) % TagMod PROVE FALSE
  BY DEF Tag
<1>5. TagMod * (b - a) = 1
  BY <1>1, <1>2, <1>3, <1>4, SMT
<1> DEFINE c == b - a
<1>6. c \in Int /\ TagMod * c = 1
  BY <1>2, <1>3, <1>5
<1>7. ASSUME NEW k \in Int, k >= 1 PROVE TagMod * k >= TagMod
  BY <1>1, <1>7, Z3
<1>8. ASSUME NEW k \in Int, k <= 0 PROVE TagMod * k <= 0
  BY <1>1, <1>8, Z3
<1>9. QED
  <2> HIDE DEF a, b, c
  <2>1. CASE c >= 1
    BY <1>1, <1>6, <1>7, <2>1
  <2>2. CASE c <= 0
    BY <1>6, <1>8, <2>2
  <2> QED BY <1>6, <2>1, <2>2

-----------------------------------------------------------------------------
LEMMA InitInv == Init => ExchangeInv
  BY DEF Init, ExchangeInv, TypeOK, SendsOpen, OneBarrierPerCall, BarrierSeparates,
         InOnePlace, Unreceived

(* What a caller posts are messages of its current call to other ranks.    *)
LEMMA BeginInv ==
  ASSUME ExchangeInv, NEW p \in Proc, NEW D \in SUBSET (Proc \ {p}),
         NEW to \in [D -> Payload], Begin(p, to)
  PROVE  ExchangeInv'
<1> DEFINE out == {[src |-> p, dst |-> q, round |-> round[p], data |-> to[q]]
                     : q \in DOMAIN to}
<1> USE DEF ExchangeInv
<1>1. \A m \in out : m \in Messages /\ m.src = p /\ m.dst # p /\ m.round = round[p]
  BY DEF TypeOK, Messages
<1>2. travelling' = travelling \cup out /\ arrived' = arrived
  BY DEF Begin
<1> HIDE DEF out
<1>3. TypeOK'
  BY <1>1, <1>2 DEF TypeOK, Begin
<1>4. SendsOpen'
  <2> SUFFICES ASSUME NEW m \in Unreceived'
               PROVE  /\ m.round = round'[m.src]
                      /\ m.dst # m.src
                      /\ pc'[m.src] # "out"
                      /\ ~sendDone'[m.src]
    BY DEF SendsOpen
  <2>1. CASE m \in Unreceived
    BY <2>1, <1>2 DEF SendsOpen, TypeOK, Messages, Begin, Unreceived
  <2>2. CASE m \in out
    BY <2>2, <1>1 DEF OneBarrierPerCall, TypeOK, Begin
  <2>3. QED
    BY <1>2, <2>1, <2>2 DEF Unreceived
<1>5. OneBarrierPerCall'
  BY DEF OneBarrierPerCall, TypeOK, Begin
<1>6. BarrierSeparates'
  BY DEF BarrierSeparates, Begin
<1>7. InOnePlace'
  BY <1>1, <1>2 DEF InOnePlace, SendsOpen, Unreceived, Begin
<1>8. QED
  BY <1>3, <1>4, <1>5, <1>6, <1>7

LEMMA NextInv == ExchangeInv /\ [Next]_vars => ExchangeInv'
<1> SUFFICES ASSUME ExchangeInv, [Next]_vars PROVE ExchangeInv'
  OBVIOUS
<1> USE DEF ExchangeInv
<1>1. ASSUME NEW p \in Proc, NEW D \in SUBSET (Proc \ {p}), NEW to \in [D -> Payload],
             Begin(p, to)
      PROVE  ExchangeInv'
  BY <1>1, BeginInv
<1>2. ASSUME NEW m \in travelling, Arrive(m)
      PROVE  ExchangeInv'
  BY <1>2 DEF Arrive, TypeOK, SendsOpen, OneBarrierPerCall, BarrierSeparates, InOnePlace,
         Unreceived
<1>3. ASSUME NEW p \in Proc, NEW m \in arrived, Receive(p, m)
      PROVE  ExchangeInv'
  BY <1>3 DEF Receive, TypeOK, SendsOpen, OneBarrierPerCall, BarrierSeparates, InOnePlace,
         Unreceived
<1>4. ASSUME NEW p \in Proc, NothingProbed(p)
      PROVE  ExchangeInv'
  <2>1. TypeOK' /\ OneBarrierPerCall' /\ BarrierSeparates'
    BY <1>4 DEF NothingProbed, TypeOK, OneBarrierPerCall, BarrierSeparates
  <2>0. InOnePlace'
    BY <1>4 DEF NothingProbed, InOnePlace
  <2>2. SendsOpen'
    BY <1>4 DEF NothingProbed, TypeOK, SendsOpen, Unreceived, Messages
  <2>3. QED
    BY <2>0, <2>1, <2>2
<1>5. ASSUME NEW p \in Proc, TestSends(p)
      PROVE  ExchangeInv'
  <2>0. InOnePlace'
    BY <1>5 DEF TestSends, InOnePlace
  <2>1. CASE SendsFinished(p)
    <3> HIDE DEF ExchangeInv
    <3>1. TypeOK /\ SendsOpen
      BY DEF ExchangeInv
    <3>2. TypeOK'
      <4>1. sendDone' = [sendDone EXCEPT ![p] = TRUE] /\ sendDone \in [Proc -> BOOLEAN]
        BY <1>5, <2>1, <3>1 DEF TestSends, TypeOK
      <4>2. sendDone' \in [Proc -> BOOLEAN]
        BY <4>1, Zenon
      <4>3. QED
        BY <1>5, <2>1, <3>1, <4>2 DEF TestSends, TypeOK
    <3>3. SendsOpen'
      <4>1. Unreceived' = Unreceived
        BY <1>5 DEF TestSends, Unreceived
      <4>2. ASSUME NEW m \in Unreceived
            PROVE  /\ m.src \in Proc /\ m.src # p
                   /\ pc'[m.src] = pc[m.src] /\ sendDone'[m.src] = sendDone[m.src]
        BY <1>5, <2>1, <3>1 DEF TestSends, SendsFinished, TypeOK, Unreceived, Messages
      <4>3. round' = round
        BY <1>5 DEF TestSends
      <4>4. QED
        BY <3>1, <4>1, <4>2, <4>3 DEF SendsOpen
    <3> USE DEF ExchangeInv
    <3>4. OneBarrierPerCall'
      BY <1>5, <2>1 DEF TestSends, TypeOK, OneBarrierPerCall
    <3>5. BarrierSeparates'
      BY <1>5, <2>1 DEF TestSends, TypeOK, BarrierSeparates
    <3>6. QED
      BY <2>0, <3>2, <3>3, <3>4, <3>5
  <2>2. CASE ~SendsFinished(p)
    <3>1. TypeOK' /\ SendsOpen'
      BY <1>5, <2>2 DEF TestSends, TypeOK, SendsOpen, Unreceived, Messages
    <3>2. OneBarrierPerCall' /\ BarrierSeparates'
      BY <1>5, <2>2 DEF TestSends, TypeOK, OneBarrierPerCall, BarrierSeparates
    <3>3. QED
      BY <2>0, <3>1, <3>2
  <2>3. QED
    BY <2>1, <2>2
<1>6. ASSUME NEW p \in Proc, BarrierPending(p)
      PROVE  ExchangeInv'
  <2>1. TypeOK' /\ OneBarrierPerCall' /\ BarrierSeparates'
    BY <1>6 DEF BarrierPending, TypeOK, OneBarrierPerCall, BarrierSeparates
  <2>0. InOnePlace'
    BY <1>6 DEF BarrierPending, InOnePlace
  <2>2. SendsOpen'
    BY <1>6 DEF BarrierPending, TypeOK, SendsOpen, Unreceived, Messages
  <2>3. QED
    BY <2>0, <2>1, <2>2
<1>7. ASSUME NEW p \in Proc, Leave(p)
      PROVE  ExchangeInv'
  <2>1. sendDone[p] /\ entered[p] = round[p] + 1
    BY <1>7 DEF Leave, OneBarrierPerCall, TypeOK
  <2>2. \A m \in Unreceived : m.src # p
    BY <2>1 DEF SendsOpen
  <2>3. TypeOK'
    BY <1>7 DEF Leave, TypeOK
  <2>4. SendsOpen'
    BY <1>7, <2>2 DEF Leave, TypeOK, SendsOpen, Unreceived, Messages
  <2>5. OneBarrierPerCall'
    BY <1>7, <2>1 DEF Leave, TypeOK, OneBarrierPerCall
  <2>6. BarrierSeparates'
    BY <1>7, <2>1 DEF Leave, BarrierComplete, TypeOK, BarrierSeparates
  <2>7. InOnePlace'
    BY <1>7 DEF Leave, InOnePlace
  <2>8. QED
    BY <2>3, <2>4, <2>5, <2>6, <2>7
<1>8. CASE UNCHANGED vars
  BY <1>8 DEF vars, TypeOK, SendsOpen, OneBarrierPerCall, BarrierSeparates, InOnePlace,
         Unreceived
<1>9. QED
  BY <1>1, <1>2, <1>3, <1>4, <1>5, <1>6, <1>7, <1>8 DEF Next, Loop, Terminated

(* The invariant that ties sends, barriers and calls together holds        *)
(* throughout receiveAnyNumber, for any number of ranks and calls.         *)
THEOREM ExchangeInvariant == Spec => []ExchangeInv
  BY InitInv, NextInv, PTL DEF Spec

(* A rank that returns from receiveAnyNumber leaves no message of that     *)
(* call unreceived, on any rank.                                           *)
LEMMA InvLeavesNothing == ExchangeInv => NothingLeftBehind
<1> SUFFICES ASSUME ExchangeInv, NEW m \in Unreceived, NEW p \in Proc
             PROVE  round[p] <= m.round
  BY DEF NothingLeftBehind
<1>1. m.src \in Proc /\ m.round = round[m.src] /\ ~sendDone[m.src]
  BY DEF ExchangeInv, SendsOpen, TypeOK, Unreceived, Messages
<1>2. entered[m.src] = round[m.src]
  BY <1>1 DEF ExchangeInv, OneBarrierPerCall, TypeOK
<1>3. QED
  BY <1>1, <1>2 DEF ExchangeInv, BarrierSeparates

THEOREM ExchangeIsComplete == Spec => []NothingLeftBehind
  BY ExchangeInvariant, InvLeavesNothing, PTL

(* Inside a call, a message with the tag of the call was sent in it: the   *)
(* sender is at most one call ahead, and neighbouring tags differ.         *)
LEMMA InvRightCall == ExchangeInv => RightCall
<1> SUFFICES ASSUME ExchangeInv, NEW p \in Proc, pc[p] # "out", NEW m \in Probed(p)
             PROVE  m.round = round[p]
  BY DEF RightCall
<1>1. /\ m \in Unreceived /\ m.src \in Proc /\ m.round \in Nat
      /\ round[p] \in Nat /\ Tag(m.round) = Tag(round[p])
  BY DEF Probed, Unreceived, ExchangeInv, TypeOK, Messages
<1>2. round[p] <= m.round
  BY <1>1, InvLeavesNothing DEF NothingLeftBehind
<1>3. m.round <= entered[p] /\ entered[p] <= round[p] + 1
  BY <1>1 DEF ExchangeInv, SendsOpen, BarrierSeparates, OneBarrierPerCall, TypeOK
<1>4. m.round = round[p] \/ m.round = round[p] + 1
  BY <1>1, <1>2, <1>3 DEF ExchangeInv, TypeOK
<1>5. QED
  BY <1>1, <1>4, NeighbouringTagsDiffer

THEOREM ExchangeSeparatesCalls == Spec => []RightCall
  BY ExchangeInvariant, InvRightCall, PTL

-----------------------------------------------------------------------------
(* Every step of the protocol is a step of the exchange it promises, or    *)
(* changes nothing there.                                                  *)
LEMMA StepRefines ==
  ASSUME ExchangeInv, [Next]_vars
  PROVE  [Abstract!Next]_(Abstract!vars)
<1> DEFINE inside == {p \in Proc : pc[p] # "out"}
<1>1. ASSUME NEW p \in Proc, NEW D \in SUBSET (Proc \ {p}), NEW to \in [D -> Payload],
             Begin(p, to)
      PROVE  Abstract!Post(p, to)
  <2>1. inside' = inside \cup {p} /\ p \notin inside
    BY <1>1 DEF Begin, ExchangeInv, TypeOK
  <2>2. Unreceived' = Unreceived \cup Abstract!Posted(p, to)
    BY <1>1 DEF Begin, Unreceived, Abstract!Posted
  <2>3. QED
    BY <1>1, <2>1, <2>2 DEF Begin, Abstract!Post
<1>2. ASSUME NEW m \in travelling, Arrive(m)
      PROVE  UNCHANGED Abstract!vars
  BY <1>2 DEF Arrive, Unreceived, Abstract!vars
<1>3. ASSUME NEW p \in Proc, NEW m \in arrived, Receive(p, m)
      PROVE  m \in Unreceived /\ Abstract!Deliver(m)
  <2>1. m.dst = p /\ p \in inside /\ m.round = round[p]
    BY <1>3, InvRightCall DEF Receive, RightCall, Probed
  <2>2. Unreceived' = Unreceived \ {m} /\ m \in Unreceived
    BY <1>3 DEF Receive, Unreceived, ExchangeInv, InOnePlace
  <2>3. inside' = inside /\ round' = round
    BY <1>3 DEF Receive
  <2>4. QED
    BY <2>1, <2>2, <2>3 DEF Abstract!Deliver
<1>4. ASSUME NEW p \in Proc, NothingProbed(p) \/ TestSends(p) \/ BarrierPending(p)
      PROVE  UNCHANGED Abstract!vars
  <2>1. inside' = inside
    BY <1>4 DEF NothingProbed, TestSends, BarrierPending, ExchangeInv, TypeOK
  <2>2. round' = round /\ Unreceived' = Unreceived
    BY <1>4 DEF NothingProbed, TestSends, BarrierPending, Unreceived
  <2>3. QED
    BY <2>1, <2>2 DEF Abstract!vars
<1>5. ASSUME NEW p \in Proc, Leave(p)
      PROVE  Abstract!Leave(p)
  <2>1. /\ sendDone[p] /\ entered[p] = round[p] + 1
        /\ \A q \in Proc : entered[q] >= round[p] + 1
    BY <1>5 DEF Leave, BarrierComplete, ExchangeInv, OneBarrierPerCall, TypeOK
  <2>2. Abstract!EveryonePosted(p)
    <3> SUFFICES ASSUME NEW q \in Proc
                 PROVE  round[q] > round[p] \/ (round[q] = round[p] /\ q \in inside)
      BY DEF Abstract!EveryonePosted
    <3>1. CASE sendDone[q]
      BY <2>1, <3>1 DEF ExchangeInv, OneBarrierPerCall, TypeOK
    <3>2. CASE ~sendDone[q]
      BY <2>1, <3>2 DEF ExchangeInv, OneBarrierPerCall, TypeOK
    <3>3. QED
      BY <3>1, <3>2
  <2>3. \A m \in Unreceived : m.round > round[p]
    <3> SUFFICES ASSUME NEW m \in Unreceived PROVE m.round > round[p]
      OBVIOUS
    <3>1. m.src \in Proc /\ m.round = round[m.src] /\ ~sendDone[m.src]
      BY DEF ExchangeInv, SendsOpen, TypeOK, Unreceived, Messages
    <3>2. entered[m.src] = round[m.src]
      BY <3>1 DEF ExchangeInv, OneBarrierPerCall, TypeOK
    <3>3. QED
      BY <2>1, <3>1, <3>2 DEF ExchangeInv, TypeOK
  <2>4. inside' = inside \ {p} /\ p \in inside
    BY <1>5 DEF Leave, ExchangeInv, TypeOK
  <2>5. Unreceived' = Unreceived
    BY <1>5 DEF Leave, Unreceived
  <2>6. QED
    BY <1>5, <2>2, <2>3, <2>4, <2>5 DEF Leave, Abstract!Leave
<1>6. CASE UNCHANGED vars
  BY <1>6 DEF vars, Unreceived, Abstract!vars
<1>7. QED
  BY <1>1, <1>2, <1>3, <1>4, <1>5, <1>6 DEF Next, Loop, Terminated, Abstract!Next

(* receiveAnyNumber implements the exchange: ranks leave a round together  *)
(* and a message is handed over in the round it was posted for.            *)
THEOREM ImplementsExchange == Spec => Abstract!Safe
<1>1. Init => Abstract!Init
  BY DEF Init, Unreceived, Abstract!Init
<1>2. QED
  BY <1>1, ExchangeInvariant, StepRefines, PTL DEF Spec, Abstract!Safe
=============================================================================
