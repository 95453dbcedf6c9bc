----------------------- MODULE PeriodicNodeSyncProofs -----------------------
(***************************************************************************)
(* Proofs about PeriodicNodeSync for every set of ranks and nodes: it uses *)
(* the sparse exchange as SparseExchange describes it, and the schemes it  *)
(* builds from the messages mirror the ones they were sent for.            *)
(***************************************************************************)
EXTENDS PeriodicNodeSync, SparseExchangeProofs

-----------------------------------------------------------------------------
(* What the scheme maps hold after createScheme, push_back and reset.      *)
LEMMA EntryOfReset ==
  ASSUME NEW scheme, NEW q
  PROVE  Entry(ResetSchemes(scheme), q) = {}
  BY DEF Entry, ResetSchemes

LEMMA EntryOfPushed ==
  ASSUME NEW scheme, NEW to, NEW q
  PROVE  Entry(Pushed(scheme, to), q) = Entry(scheme, q) \cup Entry(to, q)
  BY DEF Entry, Pushed

LEMMA RequestsType ==
  ASSUME NEW p \in Proc, NEW masters \in SUBSET Node
  PROVE  /\ DOMAIN Requests(p, masters) \in SUBSET (Proc \ {p})
         /\ Requests(p, masters) \in [DOMAIN Requests(p, masters) -> Payload]
         /\ Requests(p, masters) \in Scheme
<1> DEFINE D == {Owner[n] : n \in masters} \ {p}
<1>1. D \in SUBSET (Proc \ {p})
  BY OwnerAssumption
<1>2. Requests(p, masters) \in [D -> SUBSET Node] /\ DOMAIN Requests(p, masters) = D
  BY DEF Requests
<1>3. [D -> SUBSET Node] \subseteq Scheme
  BY <1>1 DEF Scheme
<1>4. QED
  BY <1>1, <1>2, <1>3, PayloadAssumption

LEMMA ResetType ==
  ASSUME NEW scheme \in Scheme
  PROVE  ResetSchemes(scheme) \in Scheme
  BY DEF Scheme, ResetSchemes

LEMMA PushedType ==
  ASSUME NEW scheme \in Scheme, NEW to \in Scheme
  PROVE  Pushed(scheme, to) \in Scheme
<1> DEFINE D == DOMAIN scheme \cup DOMAIN to
<1>1. D \in SUBSET Proc
  BY DEF Scheme
<1>2. \A q \in D : Entry(scheme, q) \cup Entry(to, q) \in SUBSET Node
  BY DEF Scheme, Entry
<1>3. Pushed(scheme, to) \in [D -> SUBSET Node]
  BY <1>2 DEF Pushed
<1>4. QED
  BY <1>1, <1>3 DEF Scheme

(* Each step of the synchronizer is a step of the exchange.                *)
LEMMA StepIsExchangeStep ==
  ASSUME [PeriodicNext]_pvars
  PROVE  [Next]_vars
<1>1. ASSUME NEW p \in Proc, NEW masters \in SUBSET Node, Update(p, masters)
      PROVE  Next
  BY <1>1, RequestsType DEF Update, Next
<1>2. ASSUME NEW p \in Proc, RankStep(p)
      PROVE  Next
  BY <1>2 DEF RankStep, ReceiveRequest, OtherStep, Next, Loop
<1>3. ASSUME Deliver PROVE Next
  BY <1>3 DEF Deliver, Next
<1>4. CASE UNCHANGED pvars
  BY <1>4 DEF pvars
<1>5. QED
  BY <1>1, <1>2, <1>3, <1>4 DEF PeriodicNext, Next

(* update uses receiveAnyNumber as the exchange is modelled: what holds of *)
(* the exchange holds in it.                                               *)
THEOREM UpdateUsesExchange == PeriodicSpec => Spec
  BY StepIsExchangeStep, PTL DEF PeriodicSpec, PeriodicInit, Spec

THEOREM UpdateKeepsExchangeInv == PeriodicSpec => []ExchangeInv
  BY UpdateUsesExchange, ExchangeInvariant, PTL

-----------------------------------------------------------------------------
LEMMA PeriodicType ==
  ASSUME PeriodicTypeOK, TypeOK', [PeriodicNext]_pvars
  PROVE  PeriodicTypeOK'
<1> USE DEF PeriodicTypeOK
<1>1. ASSUME NEW p \in Proc, NEW masters \in SUBSET Node, Update(p, masters)
      PROVE  PeriodicTypeOK'
  <2>1. /\ Pushed(ResetSchemes(recvScheme[p]), Requests(p, masters)) \in Scheme
        /\ ResetSchemes(sendScheme[p]) \in Scheme
    BY RequestsType, ResetType, PushedType
  <2>2. QED
    BY <1>1, <2>1 DEF Update
<1>2. ASSUME NEW p \in Proc, NEW m \in arrived, ReceiveRequest(p, m)
      PROVE  PeriodicTypeOK'
  <2>1. m.src \in Proc /\ m.data \in SUBSET Node
    BY PayloadAssumption DEF TypeOK, Messages
  <2>2. [q \in {m.src} |-> m.data] \in Scheme
    <3>1. [q \in {m.src} |-> m.data] \in [{m.src} -> SUBSET Node] /\ {m.src} \in SUBSET Proc
      BY <2>1
    <3>2. QED
      BY <3>1 DEF Scheme
  <2>3. Pushed(sendScheme[p], [q \in {m.src} |-> m.data]) \in Scheme
    BY <2>2, PushedType
  <2>4. QED
    BY <1>2, <2>3 DEF ReceiveRequest
<1>3. ASSUME UNCHANGED <<recvScheme, sendScheme>>
      PROVE  PeriodicTypeOK'
  BY <1>3
<1>4. QED
  BY <1>1, <1>2, <1>3 DEF PeriodicNext, RankStep, OtherStep, Deliver, pvars

(* A rank outside an update has no message unreceived, and a rank that has *)
(* finished an update has seen every other rank begin it.                  *)
LEMMA NothingAskedOutside ==
  ASSUME ExchangeInv, NEW p \in Proc, NEW q \in Proc, pc[p] = "out"
  PROVE  Asked(p, q) = {}
  BY DEF Asked, ExchangeInv, SendsOpen

LEMMA NothingUnreceivedInFinished ==
  ASSUME ExchangeInv, NEW p \in Proc, NEW s \in Proc, round[s] >= Begun(p),
         NEW m \in Unreceived, m.src = p
  PROVE  FALSE
<1>1. m.round = round[p] /\ pc[p] # "out"
  BY DEF ExchangeInv, SendsOpen
<1>2. round[s] <= m.round
  BY InvLeavesNothing DEF NothingLeftBehind
<1>3. QED
  BY <1>1, <1>2 DEF Begun, ExchangeInv, TypeOK

LEMMA NothingAskedInFinished ==
  ASSUME ExchangeInv, NEW p \in Proc, NEW q \in Proc, NEW s \in Proc,
         round[s] >= Begun(p)
  PROVE  Asked(p, q) = {}
  BY NothingUnreceivedInFinished DEF Asked

LEMMA BegunAfterFinished ==
  ASSUME ExchangeInv, NEW p \in Proc, NEW q \in Proc
  PROVE  round[p] <= Begun(q)
<1>1. entered[q] <= Begun(q)
  BY DEF ExchangeInv, OneBarrierPerCall, TypeOK, Begun
<1>2. Begun(q) \in Nat
  BY DEF ExchangeInv, TypeOK, Begun
<1>3. QED
  BY <1>1, <1>2 DEF ExchangeInv, BarrierSeparates, TypeOK

(* What an update asks of q is all that is on its way to q, and all that   *)
(* the receive scheme for q holds.                                         *)
LEMMA AskedByUpdate ==
  ASSUME PeriodicTypeOK, ExchangeInv, NEW p \in Proc, NEW masters \in SUBSET Node,
         Update(p, masters), NEW q \in Proc
  PROVE  Asked(p, q)' = Entry(recvScheme[p], q)'
<1> DEFINE to == Requests(p, masters)
           out == {[src |-> p, dst |-> r, round |-> round[p], data |-> to[r]] : r \in DOMAIN to}
<1>1. Unreceived' = Unreceived \cup out
  BY DEF Update, Begin, Unreceived
<1>2. \A m \in Unreceived : m.src # p
  BY DEF Update, Begin, ExchangeInv, SendsOpen
<1>3. Entry(recvScheme[p], q)' = Entry(to, q)
  <2>1. recvScheme'[p] = Pushed(ResetSchemes(recvScheme[p]), to)
    BY DEF Update, PeriodicTypeOK
  <2>2. Entry(recvScheme'[p], q) = {} \cup Entry(to, q)
    BY <2>1, EntryOfPushed, EntryOfReset
  <2>3. QED
    BY <2>2 DEF Entry
<1>4. CASE q \in DOMAIN to
  <2> DEFINE m0 == [src |-> p, dst |-> q, round |-> round[p], data |-> to[q]]
  <2>1. m0 \in out /\ m0.data = to[q]
    BY <1>4
  <2> HIDE DEF m0
  <2>2. {n \in Unreceived' : n.src = p /\ n.dst = q} = {m0}
    BY <1>1, <1>2, <1>4 DEF m0
  <2>3. Asked(p, q)' = m0.data
    BY <2>2 DEF Asked
  <2>4. QED
    BY <1>3, <1>4, <2>1, <2>3 DEF Entry
<1>5. CASE q \notin DOMAIN to
  <2>1. {n \in Unreceived' : n.src = p /\ n.dst = q} = {}
    BY <1>1, <1>2, <1>5
  <2>2. QED
    BY <1>3, <1>5, <2>1 DEF Asked, Entry
<1>6. QED
  BY <1>4, <1>5

(* The messages of the other ranks are not touched by an update.           *)
LEMMA AskedByOthers ==
  ASSUME NEW p \in Proc, NEW masters \in SUBSET Node, Update(p, masters),
         NEW q \in Proc, NEW r \in Proc, q # p
  PROVE  Asked(q, r)' = Asked(q, r)
<1>1. {n \in Unreceived' : n.src = q /\ n.dst = r} = {n \in Unreceived : n.src = q /\ n.dst = r}
  BY DEF Update, Begin, Unreceived
<1>2. QED
  BY <1>1 DEF Asked

LEMMA LedgerUpdate ==
  ASSUME PeriodicTypeOK, Ledger, ExchangeInv, NEW a \in Proc, NEW masters \in SUBSET Node,
         Update(a, masters)
  PROVE  Ledger'
<1>1. /\ Begun(a) = round[a] /\ Begun(a)' = round[a] + 1
      /\ pc[a] = "out" /\ round' = round
  BY DEF Begun, Update, Begin, ExchangeInv, TypeOK
<1>2. \A q \in Proc : q # a => Begun(q)' = Begun(q)
  BY DEF Begun, Update, Begin, ExchangeInv, TypeOK
<1>3. /\ \A q \in Proc : Entry(sendScheme[a], q)' = {}
      /\ \A q, r \in Proc : q # a => /\ Entry(sendScheme[q], r)' = Entry(sendScheme[q], r)
                                     /\ Entry(recvScheme[q], r)' = Entry(recvScheme[q], r)
  <2>1. sendScheme'[a] = ResetSchemes(sendScheme[a])
    BY DEF Update, PeriodicTypeOK
  <2>2. \A q \in Proc : q # a => sendScheme'[q] = sendScheme[q] /\ recvScheme'[q] = recvScheme[q]
    BY DEF Update, PeriodicTypeOK
  <2>3. \A q \in Proc : Entry(sendScheme'[a], q) = {}
    BY <2>1, EntryOfReset
  <2>4. QED
    BY <2>2, <2>3 DEF Entry
<1>4. \A q \in Proc : round[q] \in Nat /\ Begun(q) \in Nat
  BY DEF ExchangeInv, TypeOK, Begun
<1>5. \A q \in Proc : q # a => Begun(q) = Begun(a) \/ Begun(q) = Begun(a)'
  <2> SUFFICES ASSUME NEW q \in Proc, q # a
               PROVE  Begun(q) = Begun(a) \/ Begun(q) = Begun(a)'
    OBVIOUS
  <2>1. round[a] <= Begun(q) /\ round[q] <= Begun(a)
    BY BegunAfterFinished
  <2>2. Begun(q) = round[q] \/ Begun(q) = round[q] + 1
    BY <1>4 DEF Begun
  <2>3. QED
    BY <1>1, <1>4, <2>1, <2>2
<1> SUFFICES ASSUME NEW p \in Proc, NEW q \in Proc, p # q
             PROVE  /\ Begun(p)' = Begun(q)' =>
                         (Entry(sendScheme[p], q) \cup Asked(q, p))' = Entry(recvScheme[q], p)'
                    /\ Begun(p)' < Begun(q)' => Asked(q, p)' = Entry(recvScheme[q], p)'
                    /\ Begun(p)' > Begun(q)' =>
                         Entry(sendScheme[p], q)' = {} /\ Asked(q, p)' = {}
  BY DEF Ledger
<1>6. CASE p = a
  <2>1. Asked(q, p)' = Asked(q, p) /\ Entry(recvScheme[q], p)' = Entry(recvScheme[q], p)
    BY <1>3, <1>6, AskedByOthers
  <2>2. CASE Begun(q) = Begun(a)
    <3>0. round[a] >= Begun(q)
      BY <1>1, <1>4, <2>2
    <3>1. Asked(q, p) = {}
      BY <3>0, NothingAskedInFinished
    <3>2. Begun(p)' > Begun(q)'
      BY <1>1, <1>2, <1>4, <1>6, <2>2
    <3>3. QED
      BY <1>1, <1>2, <1>3, <1>4, <1>6, <2>1, <2>2, <3>1, <3>2
  <2>3. CASE Begun(q) = Begun(a)'
    <3>1. Begun(p) < Begun(q)
      BY <1>1, <1>4, <1>6, <2>3
    <3>2. Asked(q, p) = Entry(recvScheme[q], p)
      BY <3>1 DEF Ledger
    <3>3. QED
      BY <1>2, <1>3, <1>4, <1>6, <2>1, <2>3, <3>2
  <2>4. QED
    BY <1>5, <1>6, <2>2, <2>3
<1>7. CASE q = a
  <2>1. Asked(q, p)' = Entry(recvScheme[q], p)'
    BY <1>7, AskedByUpdate
  <2>2. Entry(sendScheme[p], q)' = Entry(sendScheme[p], q)
    BY <1>3, <1>7
  <2>3. CASE Begun(p) = Begun(a)
    <3>1. Begun(p)' < Begun(q)'
      BY <1>1, <1>2, <1>4, <1>7, <2>3
    <3>2. QED
      BY <1>1, <1>2, <1>4, <1>7, <2>1, <2>3, <3>1
  <2>4. CASE Begun(p) = Begun(a)'
    <3>1. Begun(p) > Begun(q)
      BY <1>1, <1>4, <1>7, <2>4
    <3>2. Entry(sendScheme[p], q) = {}
      BY <3>1 DEF Ledger
    <3>3. QED
      BY <1>2, <1>4, <1>7, <2>1, <2>2, <2>4, <3>2
  <2>5. QED
    BY <1>5, <1>7, <2>3, <2>4
<1>8. CASE p # a /\ q # a
  BY <1>2, <1>3, <1>8, AskedByOthers DEF Ledger
<1>9. QED
  BY <1>6, <1>7, <1>8

(* Receiving a request moves its nodes from what is asked to the scheme.   *)
LEMMA LedgerReceive ==
  ASSUME PeriodicTypeOK, Ledger, ExchangeInv, NEW a \in Proc, NEW m \in arrived,
         ReceiveRequest(a, m)
  PROVE  Ledger'
<1>1. /\ m \in Unreceived /\ m.dst = a /\ m.src \in Proc /\ m.src # a
      /\ m.round = round[a] /\ pc[a] = "probe"
  BY InvRightCall DEF ReceiveRequest, Receive, RightCall, Probed, Unreceived,
                      ExchangeInv, SendsOpen, TypeOK, Messages
<1>2. \A p \in Proc : Begun(p)' = Begun(p)
  BY DEF ReceiveRequest, Receive, Begun
<1>3. Begun(m.src) = Begun(a)
  BY <1>1 DEF ExchangeInv, SendsOpen, Begun
<1>4. Unreceived' = Unreceived \ {m}
  BY DEF ReceiveRequest, Receive, Unreceived, ExchangeInv, InOnePlace
<1>5. \A p, q \in Proc : Entry(recvScheme[p], q)' = Entry(recvScheme[p], q)
  BY DEF ReceiveRequest, Entry
<1>6. \A p, q \in Proc :
        Entry(sendScheme[p], q)' =
          IF p = a /\ q = m.src THEN Entry(sendScheme[p], q) \cup m.data
                                ELSE Entry(sendScheme[p], q)
  <2>1. sendScheme'[a] = Pushed(sendScheme[a], [q \in {m.src} |-> m.data])
    BY DEF ReceiveRequest, PeriodicTypeOK
  <2>2. \A p \in Proc : p # a => sendScheme'[p] = sendScheme[p]
    BY DEF ReceiveRequest, PeriodicTypeOK
  <2>3. \A q \in Proc : Entry(sendScheme'[a], q) =
          Entry(sendScheme[a], q) \cup (IF q = m.src THEN m.data ELSE {})
    <3> TAKE q \in Proc
    <3>1. Entry(Pushed(sendScheme[a], [r \in {m.src} |-> m.data]), q)
            = Entry(sendScheme[a], q) \cup Entry([r \in {m.src} |-> m.data], q)
      BY EntryOfPushed
    <3>2. Entry([r \in {m.src} |-> m.data], q) = IF q = m.src THEN m.data ELSE {}
      BY DEF Entry
    <3>3. QED
      BY <2>1, <3>1, <3>2
  <2>4. QED
    BY <2>2, <2>3 DEF Entry
<1>7. \A p, q \in Proc :
        IF p = m.src /\ q = a THEN Asked(p, q) = Asked(p, q)' \cup m.data
                              ELSE Asked(p, q)' = Asked(p, q)
  <2> TAKE p, q \in Proc
  <2>1. CASE p = m.src /\ q = a
    <3>1. {n \in Unreceived : n.src = p /\ n.dst = q}
            = {n \in Unreceived' : n.src = p /\ n.dst = q} \cup {m}
      BY <1>1, <1>4, <2>1
    <3>2. QED
      BY <2>1, <3>1 DEF Asked
  <2>2. CASE ~(p = m.src /\ q = a)
    <3>1. {n \in Unreceived : n.src = p /\ n.dst = q}
            = {n \in Unreceived' : n.src = p /\ n.dst = q}
      BY <1>1, <1>4, <2>2
    <3>2. QED
      BY <2>2, <3>1 DEF Asked
  <2>3. QED
    BY <2>1, <2>2
<1> SUFFICES ASSUME NEW p \in Proc, NEW q \in Proc, p # q
             PROVE  /\ Begun(p)' = Begun(q)' =>
                         (Entry(sendScheme[p], q) \cup Asked(q, p))' = Entry(recvScheme[q], p)'
                    /\ Begun(p)' < Begun(q)' => Asked(q, p)' = Entry(recvScheme[q], p)'
                    /\ Begun(p)' > Begun(q)' =>
                         Entry(sendScheme[p], q)' = {} /\ Asked(q, p)' = {}
  BY DEF Ledger
<1>8. CASE p = a /\ q = m.src
  <2>1. Begun(p)' = Begun(q)' /\ Begun(p)' \in Nat
    BY <1>2, <1>3, <1>8 DEF Begun, ExchangeInv, TypeOK
  <2>0. ~(Begun(p)' < Begun(q)') /\ ~(Begun(p)' > Begun(q)')
    BY <2>1
  <2>2. Entry(sendScheme[p], q) \cup Asked(q, p) = Entry(recvScheme[q], p)
    BY <1>3, <1>8 DEF Ledger
  <2>3. (Entry(sendScheme[p], q) \cup Asked(q, p))' = Entry(recvScheme[q], p)'
    BY <1>5, <1>6, <1>7, <1>8, <2>2
  <2>4. QED
    BY <2>0, <2>3
<1>9. CASE ~(p = a /\ q = m.src)
  <2>1. /\ Entry(sendScheme[p], q)' = Entry(sendScheme[p], q)
        /\ Entry(recvScheme[q], p)' = Entry(recvScheme[q], p)
        /\ Asked(q, p)' = Asked(q, p)
        /\ Begun(p)' = Begun(p) /\ Begun(q)' = Begun(q)
    BY <1>2, <1>5, <1>6, <1>7, <1>9
  <2>2. /\ Begun(p) = Begun(q) =>
             Entry(sendScheme[p], q) \cup Asked(q, p) = Entry(recvScheme[q], p)
        /\ Begun(p) < Begun(q) => Asked(q, p) = Entry(recvScheme[q], p)
        /\ Begun(p) > Begun(q) => Entry(sendScheme[p], q) = {} /\ Asked(q, p) = {}
    BY DEF Ledger
  <2>3. (Entry(sendScheme[p], q) \cup Asked(q, p))' = Entry(sendScheme[p], q) \cup Asked(q, p)
    BY <2>1
  <2>4. QED
    BY <2>1, <2>2, <2>3
<1>10. QED
  BY <1>8, <1>9

(* The other steps change neither schemes nor messages nor updates begun.  *)
LEMMA LedgerOther ==
  ASSUME Ledger, ExchangeInv, UNCHANGED <<recvScheme, sendScheme>>,
         UNCHANGED Unreceived, \A p \in Proc : Begun(p)' = Begun(p)
  PROVE  Ledger'
<1>1. \A p, q \in Proc : /\ Asked(p, q)' = Asked(p, q)
                         /\ Entry(sendScheme[p], q)' = Entry(sendScheme[p], q)
                         /\ Entry(recvScheme[p], q)' = Entry(recvScheme[p], q)
  BY DEF Asked, Entry
<1>2. QED
  BY <1>1 DEF Ledger

LEMMA PeriodicStep ==
  ASSUME PeriodicInv, ExchangeInv, ExchangeInv', [PeriodicNext]_pvars
  PROVE  PeriodicInv'
<1>1. PeriodicTypeOK'
  BY PeriodicType DEF PeriodicInv, ExchangeInv
<1>2. PeriodicTypeOK /\ Ledger
  BY DEF PeriodicInv
<1>3. ASSUME NEW p \in Proc, NEW masters \in SUBSET Node, Update(p, masters)
      PROVE  Ledger'
  BY <1>2, <1>3, LedgerUpdate
<1>4. ASSUME NEW p \in Proc, NEW m \in arrived, ReceiveRequest(p, m)
      PROVE  Ledger'
  BY <1>2, <1>4, LedgerReceive
<1>5. ASSUME NEW p \in Proc, OtherStep(p)
      PROVE  Ledger'
  <2>1. Unreceived' = Unreceived
    BY <1>5 DEF OtherStep, NothingProbed, TestSends, BarrierPending, Leave, Unreceived
  <2>2. \A q \in Proc : Begun(q)' = Begun(q)
    BY <1>5 DEF OtherStep, NothingProbed, TestSends, BarrierPending, Leave, Begun,
                ExchangeInv, TypeOK
  <2>3. QED
    BY <1>2, <1>5, <2>1, <2>2, LedgerOther DEF OtherStep
<1>6. ASSUME Deliver PROVE Ledger'
  <2>1. Unreceived' = Unreceived /\ \A q \in Proc : Begun(q)' = Begun(q)
    BY <1>6 DEF Deliver, Arrive, Unreceived, Begun
  <2>2. QED
    BY <1>2, <1>6, <2>1, LedgerOther DEF Deliver
<1>7. ASSUME UNCHANGED pvars PROVE Ledger'
  <2>1. Unreceived' = Unreceived /\ \A q \in Proc : Begun(q)' = Begun(q)
    BY <1>7 DEF pvars, vars, Unreceived, Begun
  <2>2. QED
    BY <1>2, <1>7, <2>1, LedgerOther DEF pvars
<1>8. Ledger'
  BY <1>3, <1>4, <1>5, <1>6, <1>7 DEF PeriodicNext, RankStep, Terminated, pvars
<1>9. QED
  BY <1>1, <1>8 DEF PeriodicInv

LEMMA PeriodicStart == PeriodicInit => PeriodicInv
<1> SUFFICES ASSUME PeriodicInit PROVE PeriodicInv
  OBVIOUS
<1>1. [q \in {} |-> {}] \in Scheme
  <2>1. [q \in {} |-> {}] \in [{} -> SUBSET Node] /\ {} \in SUBSET Proc
    OBVIOUS
  <2>2. QED
    BY <2>1 DEF Scheme
<1>2. PeriodicTypeOK
  BY <1>1, InitInv DEF PeriodicInit, PeriodicTypeOK, ExchangeInv
<1>3. /\ \A p, q \in Proc : Entry(sendScheme[p], q) = {} /\ Entry(recvScheme[p], q) = {}
      /\ \A p, q \in Proc : Asked(p, q) = {}
  BY DEF PeriodicInit, Init, Entry, Asked, Unreceived
<1>4. QED
  BY <1>2, <1>3 DEF PeriodicInv, Ledger

(* What a rank will send another is, at any time, what the other's receive *)
(* scheme says less what it has not been told yet.                         *)
THEOREM PeriodicInvariant == PeriodicSpec => []PeriodicInv
  BY PeriodicStart, PeriodicStep, UpdateKeepsExchangeInv, PTL DEF PeriodicSpec

LEMMA InvMirrors == PeriodicInv /\ ExchangeInv => SchemesMirror
<1> SUFFICES ASSUME PeriodicInv, ExchangeInv, NEW p \in Proc, NEW q \in Proc, p # q,
                    Begun(p) = Begun(q), NEW s \in Proc, round[s] >= Begun(p)
             PROVE  Entry(sendScheme[p], q) = Entry(recvScheme[q], p)
  BY DEF SchemesMirror
<1>1. Asked(q, p) = {}
  BY NothingAskedInFinished
<1>2. QED
  BY <1>1 DEF PeriodicInv, Ledger

(* Once a rank is back from an update, the send schemes built from the     *)
(* messages of that update mirror the receive schemes they stand for.      *)
THEOREM UpdateMirrorsSchemes == PeriodicSpec => []SchemesMirror
  BY PeriodicInvariant, UpdateKeepsExchangeInv, InvMirrors, PTL

-----------------------------------------------------------------------------
(* Entries, empty ones included: one is never removed, and q has one for p *)
(* exactly if p has one for q or a message that will make it.              *)
HasAsked(q, p) == \E m \in Unreceived : m.src = q /\ m.dst = p

EntryLedger ==
  \A p, q \in Proc :
    p \in DOMAIN recvScheme[q] <=> q \in DOMAIN sendScheme[p] \/ HasAsked(q, p)

LEMMA DomainsOfSchemes ==
  ASSUME NEW scheme, NEW to
  PROVE  /\ DOMAIN ResetSchemes(scheme) = DOMAIN scheme
         /\ DOMAIN Pushed(scheme, to) = DOMAIN scheme \cup DOMAIN to
  BY DEF ResetSchemes, Pushed

(* An update makes an entry and a message for each rank it asks.           *)
LEMMA EntriesUpdate ==
  ASSUME PeriodicTypeOK, EntryLedger, NEW a \in Proc, NEW masters \in SUBSET Node,
         Update(a, masters)
  PROVE  EntryLedger'
<1> DEFINE to == Requests(a, masters)
           out == {[src |-> a, dst |-> r, round |-> round[a], data |-> to[r]] : r \in DOMAIN to}
<1>1. Unreceived' = Unreceived \cup out
  BY DEF Update, Begin, Unreceived
<1>2. \A p, q \in Proc : HasAsked(q, p)' <=> HasAsked(q, p) \/ (q = a /\ p \in DOMAIN to)
  <2> TAKE p, q \in Proc
  <2>1. ASSUME NEW m \in out, m.src = q, m.dst = p
        PROVE  q = a /\ p \in DOMAIN to
    BY <2>1
  <2>2. ASSUME q = a, p \in DOMAIN to
        PROVE  \E m \in out : m.src = q /\ m.dst = p
    <3>1. [src |-> a, dst |-> p, round |-> round[a], data |-> to[p]] \in out
      BY <2>2
    <3>2. QED
      BY <2>2, <3>1
  <2> HIDE DEF out, to
  <2>3. QED
    BY <1>1, <2>1, <2>2 DEF HasAsked
<1>3. \A p \in Proc : DOMAIN sendScheme'[p] = DOMAIN sendScheme[p]
  <2>1. /\ sendScheme'[a] = ResetSchemes(sendScheme[a])
        /\ \A p \in Proc : p # a => sendScheme'[p] = sendScheme[p]
    BY DEF Update, PeriodicTypeOK
  <2>2. DOMAIN ResetSchemes(sendScheme[a]) = DOMAIN sendScheme[a]
    BY DomainsOfSchemes
  <2>3. QED
    BY <2>1, <2>2
<1>4. \A q \in Proc : DOMAIN recvScheme'[q] =
        IF q = a THEN DOMAIN recvScheme[q] \cup DOMAIN to ELSE DOMAIN recvScheme[q]
  <2>1. /\ recvScheme'[a] = Pushed(ResetSchemes(recvScheme[a]), to)
        /\ \A q \in Proc : q # a => recvScheme'[q] = recvScheme[q]
    BY DEF Update, PeriodicTypeOK
  <2> HIDE DEF out, to
  <2>2. /\ DOMAIN ResetSchemes(recvScheme[a]) = DOMAIN recvScheme[a]
        /\ DOMAIN Pushed(ResetSchemes(recvScheme[a]), to)
             = DOMAIN ResetSchemes(recvScheme[a]) \cup DOMAIN to
    BY DomainsOfSchemes
  <2>3. DOMAIN recvScheme'[a] = DOMAIN recvScheme[a] \cup DOMAIN to
    BY <2>1, <2>2
  <2>4. QED
    BY <2>1, <2>3
<1> HIDE DEF out, to
<1> SUFFICES ASSUME NEW p \in Proc, NEW q \in Proc
             PROVE  p \in DOMAIN recvScheme'[q] <=> q \in DOMAIN sendScheme'[p] \/ HasAsked(q, p)'
  BY DEF EntryLedger
<1>5. p \in DOMAIN recvScheme[q] <=> q \in DOMAIN sendScheme[p] \/ HasAsked(q, p)
  BY DEF EntryLedger
<1>6. HasAsked(q, p)' <=> HasAsked(q, p) \/ (q = a /\ p \in DOMAIN to)
  BY <1>2
<1>7. QED
  BY <1>3, <1>4, <1>5, <1>6

(* The processor makes an entry for the sender of the message it takes.    *)
LEMMA EntriesReceive ==
  ASSUME PeriodicTypeOK, EntryLedger, ExchangeInv, NEW a \in Proc, NEW m \in arrived,
         ReceiveRequest(a, m)
  PROVE  EntryLedger'
<1>1. m \in Unreceived /\ m.dst = a /\ m.src \in Proc
  BY DEF ReceiveRequest, Receive, Probed, Unreceived, ExchangeInv, TypeOK, Messages
<1>2. Unreceived' = Unreceived \ {m}
  BY DEF ReceiveRequest, Receive, Unreceived, ExchangeInv, InOnePlace
<1>3. \A p \in Proc : DOMAIN sendScheme'[p] =
        IF p = a THEN DOMAIN sendScheme[p] \cup {m.src} ELSE DOMAIN sendScheme[p]
  <2> DEFINE asked == [q \in {m.src} |-> m.data]
  <2>1. /\ sendScheme'[a] = Pushed(sendScheme[a], asked)
        /\ \A p \in Proc : p # a => sendScheme'[p] = sendScheme[p]
    BY DEF ReceiveRequest, PeriodicTypeOK
  <2>2. DOMAIN asked = {m.src}
    OBVIOUS
  <2> HIDE DEF asked
  <2>3. DOMAIN Pushed(sendScheme[a], asked) = DOMAIN sendScheme[a] \cup DOMAIN asked
    BY DomainsOfSchemes
  <2>4. QED
    BY <2>1, <2>2, <2>3
<1>4. \A p, q \in Proc : HasAsked(q, p) <=> HasAsked(q, p)' \/ (q = m.src /\ p = a)
  BY <1>1, <1>2 DEF HasAsked
<1>5. recvScheme' = recvScheme
  BY DEF ReceiveRequest
<1> SUFFICES ASSUME NEW p \in Proc, NEW q \in Proc
             PROVE  p \in DOMAIN recvScheme'[q] <=> q \in DOMAIN sendScheme'[p] \/ HasAsked(q, p)'
  BY DEF EntryLedger
<1>6. p \in DOMAIN recvScheme[q] <=> q \in DOMAIN sendScheme[p] \/ HasAsked(q, p)
  BY DEF EntryLedger
<1>7. HasAsked(q, p) <=> HasAsked(q, p)' \/ (q = m.src /\ p = a)
  BY <1>4
<1>8. QED
  BY <1>3, <1>5, <1>6, <1>7

LEMMA EntriesStep ==
  ASSUME PeriodicInv, EntryLedger, ExchangeInv, [PeriodicNext]_pvars
  PROVE  EntryLedger'
<1>1. ASSUME NEW p \in Proc, NEW masters \in SUBSET Node, Update(p, masters)
      PROVE  EntryLedger'
  BY <1>1, EntriesUpdate DEF PeriodicInv
<1>2. ASSUME NEW p \in Proc, NEW m \in arrived, ReceiveRequest(p, m)
      PROVE  EntryLedger'
  BY <1>2, EntriesReceive DEF PeriodicInv
<1>3. ASSUME UNCHANGED <<recvScheme, sendScheme>>, UNCHANGED Unreceived
      PROVE  EntryLedger'
  BY <1>3 DEF EntryLedger, HasAsked
<1>4. ASSUME NEW p \in Proc, OtherStep(p)
      PROVE  UNCHANGED <<recvScheme, sendScheme>> /\ UNCHANGED Unreceived
  BY <1>4 DEF OtherStep, NothingProbed, TestSends, BarrierPending, Leave, Unreceived
<1>5. ASSUME Deliver \/ UNCHANGED pvars
      PROVE  UNCHANGED <<recvScheme, sendScheme>> /\ UNCHANGED Unreceived
  BY <1>5 DEF Deliver, Arrive, Unreceived, pvars, vars
<1>6. QED
  BY <1>1, <1>2, <1>3, <1>4, <1>5 DEF PeriodicNext, RankStep, Terminated, pvars

LEMMA EntriesStart == PeriodicInit => EntryLedger
  BY DEF PeriodicInit, Init, EntryLedger, HasAsked, Unreceived

LEMMA InvMirrorsEntries == EntryLedger /\ ExchangeInv => EntriesMirror
<1> SUFFICES ASSUME EntryLedger, ExchangeInv, NEW p \in Proc, NEW q \in Proc,
                    Begun(p) = Begun(q), NEW s \in Proc, round[s] >= Begun(p)
             PROVE  q \in DOMAIN sendScheme[p] <=> p \in DOMAIN recvScheme[q]
  BY DEF EntriesMirror
<1>1. ~HasAsked(q, p)
  BY NothingUnreceivedInFinished DEF HasAsked
<1>2. QED
  BY <1>1 DEF EntryLedger

(* Once a rank is back from an update, an entry to send to a rank is on    *)
(* one side exactly if one to receive is on the other, so that no          *)
(* synchronization over the schemes posts a message nobody matches.        *)
THEOREM UpdateMirrorsEntries == PeriodicSpec => []EntriesMirror
<1>1. PeriodicSpec => []EntryLedger
  BY EntriesStart, EntriesStep, PeriodicInvariant, UpdateKeepsExchangeInv, PTL DEF PeriodicSpec
<1>2. QED
  BY <1>1, InvMirrorsEntries, UpdateKeepsExchangeInv, PTL
=============================================================================
