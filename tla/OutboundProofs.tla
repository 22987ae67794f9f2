---------------------------- MODULE OutboundProofs ----------------------------
(***************************************************************************)
(* However many positions, attempts and commands: a position is bought at  *)
(* most once with real money, and two alerts about one thing are tested at *)
(* least the cooldown apart.                                               *)
(***************************************************************************)
EXTENDS Outbound, FiniteSetTheorems, TLAPS

Messages == {Message(k, FALSE) : k \in Keys} \cup {Forced}
OrderRecords == [mint : Mints, attempt : Nat,
                 stage : {"quote", "send", "confirm", "bought", "failed", "lost"}]
Sending == [key : Keys \cup {None}, force : BOOLEAN, age : Nat, since : Nat \cup {None}]

CycleTypes ==
    /\ todo \in Seq(Messages)
    /\ held \subseteq Mints /\ opened \in Nat
    /\ actions \in [open : SUBSET Mints, close : SUBSET Mints]

SendTypes ==
    /\ anyAge \in Nat /\ keyAge \in [Keys -> Nat] /\ gap \in Nat
    /\ DOMAIN pending = Senders
    /\ \A s \in Senders : ~ Idle(s) => pending[s] \in Sending

\* Only the cycle sends alerts that have a key, and it awaits each of them.
OnlyCycleAlerts == \A s \in Senders \ {TheCycle} : ~ Idle(s) => pending[s].key = None

\* The alert in flight was tested a cooldown after the last one of its key.
Spaced ==
    /\ gap >= KeyCooldown
    /\ ~ Idle(TheCycle) /\ pending[TheCycle].key # None =>
          pending[TheCycle].since \in Nat /\ pending[TheCycle].since >= KeyCooldown

\* Orders in use; those of a step are counted from the moment it has opened them.
Used == {o \in Orders : order[o] # None}
Unbought == IF pc = "publish" THEN Cardinality(actions.open) ELSE 0

OrdersOK ==
    /\ order \in [Orders -> {None} \cup OrderRecords]
    /\ Cardinality(Used) + Unbought <= opened

\* One signature per order; what landed was sent; what is bought has landed.
ChainOK ==
    /\ broadcast \subseteq {SignatureOf(o) : o \in Orders}
    /\ chain \subseteq broadcast
    /\ \A o \in Orders : At(o, "bought") => SignatureOf(o) \in chain

AlertInv == SendTypes /\ OnlyCycleAlerts /\ Spaced
BuyInv == OrdersOK /\ ChainOK
OutInv == CycleTypes /\ AlertInv /\ BuyInv

-----------------------------------------------------------------------------
(* Sequences made from sets.                                               *)

LEMMA ListOfSet ==
    ASSUME NEW S, IsFiniteSet(S)
    PROVE  /\ SetToSeq(S) \in [1..Cardinality(S) -> S]
           /\ SetToSeq(S) \in Seq(S)
           /\ Len(SetToSeq(S)) = Cardinality(S)
           /\ Cardinality(S) \in Nat
<1>1. Cardinality(S) \in Nat
    BY FS_CardinalityType
<1>2. ExistsBijection(1..Cardinality(S), S)
    BY FS_CardinalityType
<1>3. \E f \in [1..Cardinality(S) -> S] : IsInjective(f)
    BY <1>2 DEF ExistsBijection, Bijection, Injection
<1>4. PICK r : r = SetToSeq(S)
    OBVIOUS
<1>5. r \in [1..Cardinality(S) -> S]
    BY <1>3, <1>4 DEF SetToSeq
<1>6. r \in Seq(S) /\ Len(r) = Cardinality(S)
    BY <1>1, <1>5
<1>. QED  BY <1>1, <1>4, <1>5, <1>6

LEMMA ImageIsFinite ==
    ASSUME NEW M \in SUBSET Mints, NEW f, DOMAIN f = M
    PROVE  IsFiniteSet({f[m] : m \in M})
<1>. DEFINE T == {f[m] : m \in M}
           g == [m \in M |-> f[m]]
<1>1. IsFiniteSet(M)
    BY FS_Subset, OutboundAssumption
<1>2. g \in Surjection(M, T)
    BY Zenon DEF Surjection
<1>3. IsFiniteSet(T)
    <2>. HIDE DEF g, T
    <2>. QED  BY <1>1, <1>2, FS_Surjection
<1>. QED  BY <1>3

LEMMA AlertsListed ==
    ASSUME NEW M \in SUBSET Mints
    PROVE  /\ SetToSeq({Message(Recheck(m), FALSE) : m \in M}) \in Seq(Messages)
           /\ SetToSeq({Message(Signal(m), FALSE) : m \in M}) \in Seq(Messages)
<1>1. ASSUME NEW S \in SUBSET Messages, IsFiniteSet(S)
      PROVE  SetToSeq(S) \in Seq(Messages)
    <2>1. /\ SetToSeq(S) \in [1..Cardinality(S) -> S]
          /\ Cardinality(S) \in Nat
        BY <1>1, ListOfSet
    <2>. QED  BY <2>1
<1>. DEFINE R == {Message(Recheck(m), FALSE) : m \in M}
           A == {Message(Signal(m), FALSE) : m \in M}
           r == [m \in M |-> Message(Recheck(m), FALSE)]
           a == [m \in M |-> Message(Signal(m), FALSE)]
<1>2. R \subseteq Messages /\ A \subseteq Messages
    BY Zenon DEF Messages, Keys
<1>3. R = {r[m] : m \in M} /\ A = {a[m] : m \in M}
    BY Zenon
<1>4. IsFiniteSet({r[m] : m \in M}) /\ IsFiniteSet({a[m] : m \in M})
    <2>1. DOMAIN r = M /\ DOMAIN a = M
        OBVIOUS
    <2>. HIDE DEF r, a
    <2>. QED  BY <2>1, ImageIsFinite
<1>5. SetToSeq(R) \in Seq(Messages) /\ SetToSeq(A) \in Seq(Messages)
    <2>. HIDE DEF r, a, R, A
    <2>. QED  BY <1>1, <1>2, <1>3, <1>4
<1>. QED  BY <1>5

-----------------------------------------------------------------------------
(* The start.                                                              *)

LEMMA InitOut == Init => OutInv
<1>. SUFFICES ASSUME Init PROVE OutInv
    OBVIOUS
<1>. USE OutboundAssumption
<1>1. CycleTypes
    BY DEF Init, CycleTypes
<1>2. SendTypes /\ OnlyCycleAlerts
    BY Zenon DEF Init, SendTypes, OnlyCycleAlerts, Idle, Senders
<1>3. Spaced
    BY DEF Init, Spaced, Idle, Senders, TheCycle
<1>4. Used = {}
    BY DEF Init, Used
<1>5. Cardinality(Used) = 0
    BY <1>4, FS_EmptySet
<1>6. OrdersOK
    BY <1>5 DEF Init, OrdersOK, Unbought
<1>7. ChainOK
    BY DEF Init, ChainOK, At
<1>. QED  BY <1>1, <1>2, <1>3, <1>6, <1>7 DEF OutInv, AlertInv, BuyInv

-----------------------------------------------------------------------------
(* Sending.                                                                *)

LEMMA SendFrame ==
    ASSUME AlertInv, UNCHANGED sendVars
    PROVE  AlertInv'
<1>1. pending' = pending /\ anyAge' = anyAge /\ keyAge' = keyAge /\ gap' = gap
    BY DEF sendVars
<1>2. \A s : Idle(s)' <=> Idle(s)
    BY <1>1 DEF Idle
<1>3. SendTypes'
    BY <1>1, <1>2 DEF AlertInv, SendTypes
<1>4. OnlyCycleAlerts'
    BY <1>1, <1>2 DEF AlertInv, OnlyCycleAlerts
<1>5. Spaced'
    BY <1>1, <1>2 DEF AlertInv, Spaced
<1>. QED  BY <1>3, <1>4, <1>5 DEF AlertInv

\* Every sender but one as it was, and that one idle.
LEMMA SenderDone ==
    ASSUME NEW sender \in Senders, AlertInv, gap' \in Nat, gap' >= KeyCooldown,
           anyAge' \in Nat, keyAge' \in [Keys -> Nat], DOMAIN pending' = Senders,
           pending'[sender] = None,
           \A s \in Senders : s # sender => pending'[s] = pending[s]
    PROVE  AlertInv'
<1>1. \A s \in Senders : ~ Idle(s)' => pending'[s] = pending[s] /\ ~ Idle(s)
    BY DEF Idle
<1>2. SendTypes'
    BY <1>1 DEF AlertInv, SendTypes
<1>3. OnlyCycleAlerts'
    BY <1>1 DEF AlertInv, OnlyCycleAlerts
<1>4. Spaced'
    <2>1. TheCycle \in Senders
        BY DEF Senders
    <2>. QED  BY <1>1, <2>1 DEF AlertInv, Spaced
<1>. QED  BY <1>2, <1>3, <1>4 DEF AlertInv

LEMMA SubmitKeeps ==
    ASSUME NEW sender \in Senders, NEW msg \in Messages, AlertInv,
           UNCHANGED <<anyAge, keyAge, gap>>, Submit(sender, msg),
           msg.key = None \/ (sender = TheCycle /\ ~ Cooling(msg))
    PROVE  AlertInv'
<1>. DEFINE new == [key |-> msg.key, force |-> msg.force, age |-> 0,
                    since |-> IF msg.key = None THEN None ELSE keyAge[msg.key]]
<1>1. /\ DOMAIN pending' = Senders /\ pending'[sender] = new
      /\ \A s \in Senders : s # sender => pending'[s] = pending[s]
    BY DEF Submit, AlertInv, SendTypes
<1>2. /\ msg.key \in Keys \cup {None} /\ msg.force \in BOOLEAN
      /\ msg.key # None => msg.key \in Keys /\ msg.force = FALSE
    <2>1. CASE msg = Forced
        BY <2>1 DEF Message, Forced
    <2>2. CASE \E k \in Keys : msg = Message(k, FALSE)
        BY <2>2 DEF Message
    <2>. QED  BY <2>1, <2>2 DEF Messages
<1>4. new \in Sending
    BY <1>2 DEF AlertInv, SendTypes, Sending
<1>5. new.key # None => new.since \in Nat /\ new.since >= KeyCooldown
    BY <1>2, OutboundAssumption DEF Cooling, AlertInv, SendTypes
<1>6. new.key = msg.key
    OBVIOUS
<1>. HIDE DEF new
<1>7. SendTypes'
    BY <1>1, <1>4 DEF AlertInv, SendTypes, Idle
<1>8. OnlyCycleAlerts'
    <2>. SUFFICES ASSUME NEW s \in Senders \ {TheCycle}, pending'[s] # None
                  PROVE  pending'[s].key = None
        BY DEF OnlyCycleAlerts, Idle
    <2>1. CASE s = sender
        BY <1>1, <1>6, <2>1
    <2>2. CASE s # sender
        BY <1>1, <2>2 DEF AlertInv, OnlyCycleAlerts, Idle
    <2>. QED  BY <2>1, <2>2
<1>9. Spaced'
    <2>1. gap' >= KeyCooldown
        BY DEF AlertInv, Spaced
    <2>2. TheCycle \in Senders
        BY DEF Senders
    <2>3. CASE sender = TheCycle
        BY <1>1, <1>5, <2>1, <2>3 DEF Spaced
    <2>4. CASE sender # TheCycle
        BY <1>1, <2>1, <2>2, <2>4 DEF AlertInv, Spaced, Idle
    <2>. QED  BY <2>3, <2>4
<1>. QED  BY <1>7, <1>8, <1>9 DEF AlertInv

LEMMA WorksKeeps ==
    ASSUME NEW sender \in Senders, AlertInv, SendWorks(sender)
    PROVE  AlertInv'
<1>. DEFINE msg == pending[sender]
<1>0. ~ Idle(sender)
    BY DEF SendWorks
<1>1. msg \in Sending
    BY <1>0 DEF AlertInv, SendTypes
<1>2. /\ DOMAIN pending' = Senders /\ pending'[sender] = None
      /\ anyAge' = Shorter(msg.age, AnyCooldown)
    BY DEF SendWorks
<1>3. anyAge' \in Nat
    BY <1>1, <1>2, OutboundAssumption DEF Sending, Shorter
<1>4. CASE msg.key = None
    <2>1. keyAge' = keyAge /\ gap' = gap
        BY <1>4 DEF SendWorks
    <2>2. \A s \in Senders : s # sender => pending'[s] = pending[s]
        BY <1>4 DEF SendWorks
    <2>3. gap' \in Nat /\ gap' >= KeyCooldown /\ keyAge' \in [Keys -> Nat]
        BY <2>1 DEF AlertInv, SendTypes, Spaced
    <2>. HIDE DEF msg
    <2>. QED  BY <1>2, <1>3, <2>2, <2>3, SenderDone
<1>5. CASE msg.key # None
    <2>1. sender = TheCycle
        BY <1>0, <1>5 DEF AlertInv, OnlyCycleAlerts
    <2>2. \A s \in Senders : s # sender /\ ~ Idle(s) => pending[s].key # msg.key
        BY <1>5, <2>1 DEF AlertInv, OnlyCycleAlerts
    <2>3. \A s \in Senders : s # sender => pending'[s] = pending[s]
        BY <2>2 DEF SendWorks
    <2>4. msg.since \in Nat /\ msg.since >= KeyCooldown
        BY <1>0, <1>5, <2>1 DEF AlertInv, Spaced
    <2>5. gap' = Shorter(gap, msg.since) /\ keyAge' = [keyAge EXCEPT ![msg.key] = msg.age]
        BY <1>5 DEF SendWorks
    <2>6. gap' \in Nat /\ gap' >= KeyCooldown
        BY <2>4, <2>5, OutboundAssumption DEF AlertInv, SendTypes, Spaced, Shorter
    <2>7. keyAge' \in [Keys -> Nat]
        BY <1>1, <2>5 DEF AlertInv, SendTypes, Sending
    <2>. HIDE DEF msg
    <2>. QED  BY <1>2, <1>3, <2>3, <2>6, <2>7, SenderDone
<1>. QED  BY <1>4, <1>5

LEMMA FailsKeeps ==
    ASSUME NEW sender \in Senders, AlertInv, SendFails(sender)
    PROVE  AlertInv'
<1>1. /\ DOMAIN pending' = Senders /\ pending'[sender] = None
      /\ \A s \in Senders : s # sender => pending'[s] = pending[s]
      /\ anyAge' = anyAge /\ keyAge' = keyAge /\ gap' = gap
    BY DEF SendFails, AlertInv, SendTypes
<1>2. /\ gap' \in Nat /\ gap' >= KeyCooldown
      /\ anyAge' \in Nat /\ keyAge' \in [Keys -> Nat]
    BY <1>1 DEF AlertInv, SendTypes, Spaced
<1>. QED  BY <1>1, <1>2, SenderDone

LEMMA TimeKeeps ==
    ASSUME AlertInv, PassTime
    PROVE  AlertInv'
<1>. USE OutboundAssumption
<1>1. ASSUME NEW a \in Nat, NEW n \in Nat PROVE Older(a, n) \in Nat
    BY DEF Older, Shorter
<1>2. anyAge' \in Nat /\ keyAge' \in [Keys -> Nat] /\ gap' = gap
    BY <1>1 DEF AlertInv, SendTypes, PassTime
<1>3. DOMAIN pending' = Senders
    BY DEF PassTime
<1>4. ASSUME NEW s \in Senders, ~ Idle(s)'
      PROVE  /\ ~ Idle(s) /\ pending'[s] \in Sending
             /\ pending'[s].key = pending[s].key
             /\ pending'[s].since = pending[s].since
    <2>1. ~ Idle(s)
        BY <1>4 DEF PassTime, Idle
    <2>2. pending[s] \in Sending
        BY <2>1 DEF AlertInv, SendTypes
    <2>3. PICK n \in Nat : pending'[s] = [pending[s] EXCEPT !.age = Older(@, n)]
        BY <2>1 DEF PassTime
    <2>4. Older(pending[s].age, n) \in Nat
        BY <1>1, <2>2 DEF Sending
    <2>. HIDE DEF Older
    <2>. QED  BY <2>1, <2>2, <2>3, <2>4 DEF Sending
<1>5. SendTypes'
    BY <1>2, <1>3, <1>4 DEF AlertInv, SendTypes
<1>6. OnlyCycleAlerts'
    BY <1>4 DEF AlertInv, OnlyCycleAlerts
<1>7. Spaced'
    <2>1. TheCycle \in Senders
        BY DEF Senders
    <2>. QED  BY <1>2, <1>4, <2>1 DEF AlertInv, Spaced
<1>. QED  BY <1>5, <1>6, <1>7 DEF AlertInv

-----------------------------------------------------------------------------
(* Buying.                                                                 *)

LEMMA UsedIsFinite ==
    /\ \A N : N \subseteq Orders => IsFiniteSet(N) /\ Cardinality(N) \in Nat
    /\ Cardinality(Used) \in Nat
<1>1. IsFiniteSet(Orders)
    BY FS_Interval, OutboundAssumption DEF Orders
<1>2. ASSUME NEW N, N \subseteq Orders
      PROVE  IsFiniteSet(N) /\ Cardinality(N) \in Nat
    BY <1>1, <1>2, FS_Subset, FS_CardinalityType
<1>3. Used \subseteq Orders
    BY DEF Used
<1>. QED  BY <1>2, <1>3

LEMMA ChainFrame ==
    ASSUME ChainOK, UNCHANGED buyVars
    PROVE  ChainOK'
<1>1. order' = order /\ broadcast' = broadcast /\ chain' = chain
    BY DEF buyVars
<1>2. \A o : At(o, "bought")' <=> At(o, "bought")
    BY <1>1 DEF At
<1>. QED  BY <1>1, <1>2 DEF ChainOK, SignatureOf

\* One order moved on: still used, and no new one.
LEMMA OrderMovesOn ==
    ASSUME BuyInv, NEW o \in Orders, order[o] # None,
           NEW new \in OrderRecords, order' = [order EXCEPT ![o] = new],
           opened' = opened, pc' = pc, actions' = actions,
           opened \in Nat, actions \in [open : SUBSET Mints, close : SUBSET Mints]
    PROVE  OrdersOK'
<1>1. order' \in [Orders -> {None} \cup OrderRecords]
    BY DEF BuyInv, OrdersOK
<1>2. Used' \subseteq Used
    BY DEF BuyInv, OrdersOK, Used
<1>3. IsFiniteSet(Used) /\ IsFiniteSet(Used')
    <2>1. Used \subseteq Orders /\ Used' \subseteq Orders
        BY DEF Used
    <2>. QED  BY <2>1, UsedIsFinite
<1>4. Cardinality(Used') <= Cardinality(Used)
    BY <1>2, <1>3, FS_Subset
<1>5. Cardinality(Used) \in Nat /\ Cardinality(Used') \in Nat
    BY <1>3, FS_CardinalityType
<1>6. Cardinality(Used') = Cardinality(Used)'
    OBVIOUS
<1>7. Unbought' = Unbought /\ Unbought \in Nat
    <2>1. Unbought' = Unbought
        BY DEF Unbought
    <2>2. Cardinality(actions.open) \in Nat
        BY FS_Subset, FS_CardinalityType, OutboundAssumption
    <2>. QED  BY <2>1, <2>2 DEF Unbought
<1>. QED  BY <1>1, <1>4, <1>5, <1>6, <1>7 DEF BuyInv, OrdersOK

LEMMA PrepareKeeps ==
    ASSUME CycleTypes, BuyInv, NEW o \in Orders, Prepare(o)
    PROVE  BuyInv'
<1>1. PICK stage \in {"send", "failed"} : order' = [order EXCEPT ![o].stage = stage]
    BY DEF Prepare, To
<1>2. order[o] \in OrderRecords
    BY DEF BuyInv, OrdersOK, Prepare, At
<1>. DEFINE new == [order[o] EXCEPT !.stage = stage]
<1>3. order' = [order EXCEPT ![o] = new] /\ new \in OrderRecords /\ order[o] # None
    BY <1>1, <1>2 DEF OrderRecords, Prepare, At
<1>4. /\ broadcast' = broadcast /\ chain' = chain
      /\ opened' = opened /\ pc' = pc /\ actions' = actions
    BY DEF Prepare, outside, cycleVars
<1>5. OrdersOK'
    <2>. HIDE DEF new
    <2>. QED  BY <1>3, <1>4, OrderMovesOn DEF CycleTypes
<1>6. \A p \in Orders : At(p, "bought")' => At(p, "bought")
    BY <1>1, <1>2 DEF BuyInv, OrdersOK, At, OrderRecords
<1>7. ChainOK'
    BY <1>4, <1>6 DEF BuyInv, ChainOK, SignatureOf
<1>. QED  BY <1>5, <1>7 DEF BuyInv

LEMMA NextTryMoves ==
    ASSUME BuyInv, NEW o \in Orders, order[o] # None, NextTry(o)
    PROVE  /\ \E new \in OrderRecords : order' = [order EXCEPT ![o] = new]
           /\ \A p \in Orders : At(p, "bought")' => At(p, "bought")
<1>1. order[o] \in OrderRecords
    BY DEF BuyInv, OrdersOK
<1>. DEFINE buy == order[o]
           again == [buy EXCEPT !.attempt = buy.attempt + 1, !.stage = "send"]
           over == [buy EXCEPT !.stage = "failed"]
<1>2. PICK new \in {again, over} : order' = [order EXCEPT ![o] = new]
    BY Zenon DEF NextTry
<1>3. again \in OrderRecords /\ over \in OrderRecords
    <2>1. PICK n \in Nat : n = buy.attempt + 1
        BY <1>1 DEF OrderRecords
    <2>2. ASSUME NEW r \in OrderRecords
          PROVE  /\ [r EXCEPT !.attempt = n] \in OrderRecords
                 /\ [r EXCEPT !.stage = "send"] \in OrderRecords
                 /\ [r EXCEPT !.stage = "failed"] \in OrderRecords
        BY DEF OrderRecords
    <2>3. again = [[buy EXCEPT !.attempt = n] EXCEPT !.stage = "send"]
        BY <2>1
    <2>. QED  BY <1>1, <2>2, <2>3
<1>4. again.stage = "send" /\ over.stage = "failed"
    BY <1>1 DEF OrderRecords
<1>5. \A p \in Orders : At(p, "bought")' => At(p, "bought")
    <2>. HIDE DEF again, over
    <2>. QED  BY <1>2, <1>4 DEF BuyInv, OrdersOK, At
<1>. QED  BY <1>2, <1>3, <1>5

LEMMA SendRawKeeps ==
    ASSUME CycleTypes, BuyInv, NEW o \in Orders, SendRaw(o)
    PROVE  BuyInv'
<1>1. order[o] # None /\ order[o] \in OrderRecords
    BY DEF BuyInv, OrdersOK, SendRaw, At
<1>2. /\ chain' = chain /\ opened' = opened /\ pc' = pc /\ actions' = actions
      /\ broadcast' \in {broadcast, broadcast \cup {SignatureOf(o)}}
    BY DEF SendRaw, outside, cycleVars
<1>3. /\ \E new \in OrderRecords : order' = [order EXCEPT ![o] = new]
      /\ \A p \in Orders : At(p, "bought")' => At(p, "bought")
    <2>1. CASE To(o, "confirm")
        <3>1. /\ order' = [order EXCEPT ![o] = [order[o] EXCEPT !.stage = "confirm"]]
              /\ [order[o] EXCEPT !.stage = "confirm"] \in OrderRecords
            BY <1>1, <2>1 DEF To, OrderRecords
        <3>2. \A p \in Orders : At(p, "bought")' => At(p, "bought")
            BY <1>1, <3>1 DEF BuyInv, OrdersOK, At, OrderRecords
        <3>. QED  BY <3>1, <3>2
    <2>2. CASE NextTry(o)
        BY <1>1, <2>2, NextTryMoves
    <2>. QED  BY <2>1, <2>2 DEF SendRaw
<1>4. PICK new \in OrderRecords : order' = [order EXCEPT ![o] = new]
    BY <1>3
<1>5. OrdersOK'
    BY <1>1, <1>2, <1>4, OrderMovesOn DEF CycleTypes
<1>6. ChainOK'
    BY <1>2, <1>3 DEF BuyInv, ChainOK, SignatureOf
<1>. QED  BY <1>5, <1>6 DEF BuyInv

LEMMA ConfirmKeeps ==
    ASSUME CycleTypes, BuyInv, NEW o \in Orders, Confirm(o)
    PROVE  BuyInv'
<1>1. order[o] # None /\ order[o] \in OrderRecords
    BY DEF BuyInv, OrdersOK, Confirm, At
<1>2. /\ chain' = chain /\ opened' = opened /\ pc' = pc /\ actions' = actions
      /\ broadcast' = broadcast
    BY DEF Confirm, outside, cycleVars
<1>3. /\ \E new \in OrderRecords : order' = [order EXCEPT ![o] = new]
      /\ \A p \in Orders : At(p, "bought")' => At(p, "bought") \/ SignatureOf(p) \in chain
    <2>1. CASE SignatureOf(o) \in chain /\ To(o, "bought")
        <3>1. /\ order' = [order EXCEPT ![o] = [order[o] EXCEPT !.stage = "bought"]]
              /\ [order[o] EXCEPT !.stage = "bought"] \in OrderRecords
            BY <1>1, <2>1 DEF To, OrderRecords
        <3>2. \A p \in Orders : p # o /\ At(p, "bought")' => At(p, "bought")
            BY <3>1 DEF At, BuyInv, OrdersOK
        <3>. QED  BY <2>1, <3>1, <3>2
    <2>2. CASE NextTry(o)
        BY <1>1, <2>2, NextTryMoves
    <2>. QED  BY <2>1, <2>2 DEF Confirm
<1>4. PICK new \in OrderRecords : order' = [order EXCEPT ![o] = new]
    BY <1>3
<1>5. OrdersOK'
    BY <1>1, <1>2, <1>4, OrderMovesOn DEF CycleTypes
<1>6. ChainOK'
    BY <1>2, <1>3 DEF BuyInv, ChainOK, SignatureOf
<1>. QED  BY <1>5, <1>6 DEF BuyInv

LEMMA LandKeeps ==
    ASSUME BuyInv, Land
    PROVE  BuyInv'
<1>1. /\ order' = order /\ broadcast' = broadcast /\ pc' = pc /\ actions' = actions
      /\ opened' = opened
    BY DEF Land, outside, cycleVars
<1>2. PICK sig \in broadcast \ chain : chain' = chain \cup {sig}
    BY DEF Land
<1>3. OrdersOK'
    BY <1>1 DEF BuyInv, OrdersOK, Used, Unbought
<1>4. ChainOK'
    BY <1>1, <1>2 DEF BuyInv, ChainOK, At, SignatureOf
<1>. QED  BY <1>3, <1>4 DEF BuyInv

-----------------------------------------------------------------------------
(* The cycle.                                                              *)

\* Nothing but the cycle's own place, and no new order.
LEMMA BuyFrame ==
    ASSUME BuyInv, UNCHANGED buyVars, Unbought' <= Unbought + (opened' - opened),
           Unbought \in Nat, Unbought' \in Nat, opened \in Nat, opened' \in Nat
    PROVE  BuyInv'
<1>1. order' = order
    BY DEF buyVars
<1>2. Used' = Used
    BY <1>1 DEF Used
<1>3. Cardinality(Used)' = Cardinality(Used) /\ Cardinality(Used) \in Nat
    BY <1>2, UsedIsFinite
<1>4. Cardinality(Used)' + Unbought' <= opened'
    <2>1. Cardinality(Used) + Unbought <= opened
        BY DEF BuyInv, OrdersOK
    <2>2. ASSUME NEW a \in Nat, NEW u \in Nat, NEW v \in Nat, NEW p \in Nat, NEW q \in Nat,
                 a + u <= p, v <= u + (q - p)
          PROVE  a + v <= q
        BY <2>2
    <2>. QED  BY <1>3, <2>1, <2>2
<1>5. OrdersOK'
    BY <1>1, <1>4 DEF BuyInv, OrdersOK
<1>. QED  BY <1>5, ChainFrame DEF BuyInv

LEMMA UnboughtIsNat ==
    ASSUME CycleTypes
    PROVE  Unbought \in Nat
<1>1. Cardinality(actions.open) \in Nat
    BY FS_Subset, FS_CardinalityType, OutboundAssumption DEF CycleTypes
<1>. QED  BY <1>1 DEF Unbought

\* Steps that neither open nor announce.
LEMMA QuietKeeps ==
    ASSUME CycleTypes, BuyInv, UNCHANGED buyVars, opened' = opened, pc' # "publish"
    PROVE  BuyInv'
<1>1. Unbought \in Nat
    BY UnboughtIsNat
<1>2. Unbought' = 0
    BY DEF Unbought
<1>3. opened \in Nat
    BY DEF CycleTypes
<1>. QED  BY <1>1, <1>2, <1>3, BuyFrame

LEMMA StepKeeps ==
    ASSUME CycleTypes, BuyInv, Step
    PROVE  CycleTypes' /\ BuyInv'
<1>1. PICK open \in SUBSET (Mints \ held), close \in SUBSET held :
        /\ actions' = [open |-> open, close |-> close]
        /\ held' = (held \ close) \cup open
        /\ opened' = opened + Cardinality(open)
    BY DEF Step
<1>2. Cardinality(open) \in Nat
    BY FS_Subset, FS_CardinalityType, OutboundAssumption
<1>3. CycleTypes'
    BY <1>1, <1>2 DEF CycleTypes, Step
<1>4. Unbought = 0 /\ Unbought' = Cardinality(open)
    BY <1>1 DEF Step, Unbought
<1>5. UNCHANGED buyVars
    BY DEF Step
<1>6. opened \in Nat /\ opened' = opened + Cardinality(open)
    BY <1>1 DEF CycleTypes
<1>. QED  BY <1>2, <1>3, <1>4, <1>5, <1>6, BuyFrame

\* The orders of a step start at the first that is free, one per position.
LEMMA AnnounceKeeps ==
    ASSUME CycleTypes, BuyInv, Announce
    PROVE  CycleTypes' /\ BuyInv'
<1>. DEFINE opens == SetToSeq(actions.open)
           n == Cardinality(actions.open)
           new == [o \in Orders |-> IF o - FirstFree + 1 \in DOMAIN opens
                                    THEN NewOrder(opens[o - FirstFree + 1]) ELSE order[o]]
<1>1. actions.open \subseteq Mints /\ actions.close \subseteq Mints
    BY DEF CycleTypes
<1>2. IsFiniteSet(actions.open) /\ Cardinality(actions.close) \in Nat
    BY <1>1, FS_Subset, FS_CardinalityType, OutboundAssumption
<1>3. n \in Nat /\ opens \in [1..n -> actions.open] /\ Len(opens) = n
    <2>. HIDE DEF n, opens
    <2>1. n = Cardinality(actions.open) /\ opens = SetToSeq(actions.open)
        BY DEF n, opens
    <2>. QED  BY <1>2, <2>1, ListOfSet
<1>4. /\ pc = "publish" /\ pc' = "announce" /\ opened' = opened
      /\ held' = held /\ actions' = actions
      /\ broadcast' = broadcast /\ chain' = chain
    BY DEF Announce
<1>5. todo' \in Seq(Messages)
    <2>1. CASE paused
        BY <2>1 DEF Announce, CycleTypes
    <2>2. CASE ~ paused
        <3>1. PICK switch \in 0..1 :
                todo' = [i \in 1..(Len(opens) + Cardinality(actions.close) + switch)
                            |-> Forced]
            BY <2>2 DEF Announce
        <3>2. PICK k \in Nat : k = Len(opens) + Cardinality(actions.close) + switch
            BY <1>2, <1>3, <3>1
        <3>3. Forced \in Messages
            BY DEF Messages
        <3>4. todo' = [i \in 1..k |-> Forced]
            BY <3>1, <3>2
        <3>. HIDE DEF opens
        <3>. QED  BY <3>2, <3>3, <3>4
    <2>. QED  BY <2>1, <2>2
<1>6. CycleTypes'
    BY <1>4, <1>5 DEF CycleTypes
<1>7. Unbought = n /\ Unbought' = 0
    BY <1>4 DEF Unbought
<1>8. opened \in Nat
    BY DEF CycleTypes
<1>9. CASE order' = order
    <2>1. UNCHANGED buyVars
        BY <1>4, <1>9 DEF buyVars
    <2>. HIDE DEF n
    <2>. QED  BY <1>3, <1>4, <1>6, <1>7, <1>8, <2>1, BuyFrame
<1>10. CASE order' = new
    <2>1. PICK f \in Nat : f = FirstFree
        <3>1. FirstFree = 1 + Cardinality(Used)
            BY Zenon DEF FirstFree, Used
        <3>. QED  BY <3>1, UsedIsFinite
    <2>2. DOMAIN opens = 1..n
        BY <1>3
    <2>3. \A o \in Orders : o \in Int
        BY OutboundAssumption DEF Orders
    <2>4. ASSUME NEW o \in Orders
          PROVE  \/ order'[o] = order[o]
                 \/ /\ o \in f..(f + n - 1)
                    /\ order'[o] \in OrderRecords /\ order'[o].stage = "quote"
        <3>1. order'[o] = IF o - f + 1 \in 1..n
                          THEN NewOrder(opens[o - f + 1]) ELSE order[o]
            BY <1>10, <2>1, <2>2
        <3>2. CASE o - f + 1 \in 1..n
            <4>1. opens[o - f + 1] \in Mints
                BY <1>1, <1>3, <3>2
            <4>2. order'[o] = NewOrder(opens[o - f + 1])
                BY <3>1, <3>2
            <4>3. o \in f..(f + n - 1)
                <5>. HIDE DEF n
                <5>. QED  BY <1>3, <2>1, <2>3, <3>2
            <4>. HIDE DEF opens
            <4>. QED  BY <4>1, <4>2, <4>3 DEF NewOrder, OrderRecords
        <3>3. CASE o - f + 1 \notin 1..n
            BY <3>1, <3>3
        <3>. QED  BY <3>2, <3>3
    <2>5. order' \in [Orders -> {None} \cup OrderRecords]
        <3>1. \A o \in Orders : order'[o] \in {None} \cup OrderRecords
            BY <2>4 DEF BuyInv, OrdersOK
        <3>2. DOMAIN order' = Orders /\ order' = [o \in Orders |-> order'[o]]
            BY <1>10
        <3>. QED  BY <3>1, <3>2
    <2>6. Used' \subseteq Used \cup (f..(f + n - 1))
        BY <2>4 DEF Used
    <2>7. Cardinality(Used') <= Cardinality(Used) + n
        <3>. HIDE DEF n
        <3>. DEFINE step == f..(f + n - 1)
        <3>1. IsFiniteSet(step) /\ Cardinality(step) = n
            <4>1. /\ f \in Int /\ f + n - 1 \in Int
                  /\ (IF f > f + n - 1 THEN 0 ELSE (f + n - 1) - f + 1) = n
                BY <1>3, <2>1
            <4>. QED  BY <4>1, FS_Interval
        <3>2. IsFiniteSet(Used) /\ Used \subseteq Orders
            BY UsedIsFinite DEF Used
        <3>. HIDE DEF step
        <3>3. IsFiniteSet(Used \cup step) /\ IsFiniteSet(Used \cap step)
            BY <3>1, <3>2, FS_Union, FS_Subset
        <3>4. Cardinality(Used \cup step)
                = Cardinality(Used) + Cardinality(step) - Cardinality(Used \cap step)
            BY <3>1, <3>2, FS_Union
        <3>5. Cardinality(Used') <= Cardinality(Used \cup step)
            BY <2>6, <3>3, FS_Subset DEF step
        <3>6. Cardinality(Used \cap step) \in Nat /\ Cardinality(Used \cup step) \in Nat
            BY <3>3, FS_CardinalityType
        <3>7. Used' \subseteq Orders
            BY DEF Used, Orders
        <3>8. Cardinality(Used') \in Nat /\ Cardinality(Used) \in Nat
            BY <3>7, UsedIsFinite
        <3>. QED  BY <1>3, <3>1, <3>4, <3>5, <3>6, <3>8
    <2>8. Cardinality(Used)' <= opened'
        <3>1. Used' \subseteq Orders
            BY DEF Used, Orders
        <3>2. Cardinality(Used') \in Nat /\ Cardinality(Used) \in Nat
            BY <3>1, UsedIsFinite
        <3>3. Cardinality(Used) + n <= opened
            BY <1>7 DEF BuyInv, OrdersOK
        <3>. HIDE DEF n
        <3>. QED  BY <1>3, <1>4, <1>8, <2>7, <3>2, <3>3
    <2>9. OrdersOK'
        <3>1. Cardinality(Used)' \in Nat
            <4>1. Used' \subseteq Orders
                BY DEF Used, Orders
            <4>. QED  BY <4>1, UsedIsFinite
        <3>. QED  BY <1>7, <2>5, <2>8, <3>1 DEF OrdersOK
    <2>10. \A o \in Orders : At(o, "bought")' => At(o, "bought")
        BY <2>4 DEF At
    <2>11. ChainOK'
        BY <1>4, <2>10 DEF BuyInv, ChainOK, SignatureOf
    <2>. QED  BY <1>6, <2>9, <2>11 DEF BuyInv
<1>. QED  BY <1>9, <1>10 DEF Announce

-----------------------------------------------------------------------------
(* A step.                                                                 *)

LEMMA SendersApart ==
    /\ TheCycle \in Senders /\ TheCommands \in Senders
    /\ \A o \in Orders : Buy(o) \in Senders
    /\ Forced \in Messages /\ Forced.key = None
    /\ Message(Stale, FALSE) \in Messages /\ Message(Down, FALSE) \in Messages
<1>1. /\ TheCycle \in Senders /\ TheCommands \in Senders
      /\ \A o \in Orders : Buy(o) \in Senders
    BY DEF Senders
<1>2. Forced \in Messages /\ Forced.key = None
    BY DEF Messages, Forced, Message
<1>3. Message(Stale, FALSE) \in Messages /\ Message(Down, FALSE) \in Messages
    BY DEF Messages, Keys
<1>. QED  BY <1>1, <1>2, <1>3

\* The end of the process: every sender is idle, the orders stay in use.
LEMMA EndKeeps ==
    ASSUME OutInv, CommandThrows
    PROVE  OutInv'
<1>. USE DEF OutInv
<1>1. /\ pc' = "ended" /\ todo' = << >> /\ actions' = actions
      /\ held' = held /\ opened' = opened
      /\ anyAge' = anyAge /\ keyAge' = keyAge /\ gap' = gap
      /\ broadcast' = broadcast /\ chain' = chain
      /\ pending' = [s \in Senders |-> None]
      /\ order' = [o \in Orders |-> Abandoned(o)]
    BY DEF CommandThrows
<1>2. CycleTypes'
    BY <1>1 DEF CycleTypes
<1>3. AlertInv'
    <2>1. \A s \in Senders : Idle(s)'
        BY <1>1 DEF Idle
    <2>2. SendTypes'
        BY <1>1, <2>1 DEF AlertInv, SendTypes
    <2>3. OnlyCycleAlerts'
        BY <2>1 DEF OnlyCycleAlerts
    <2>4. Spaced'
        <3>1. TheCycle \in Senders
            BY DEF Senders
        <3>. QED  BY <1>1, <2>1, <3>1 DEF AlertInv, Spaced
    <2>. QED  BY <2>2, <2>3, <2>4 DEF AlertInv
<1>4. ASSUME NEW o \in Orders
      PROVE  \/ order'[o] = order[o]
             \/ /\ order[o] # None /\ order'[o] \in OrderRecords
                /\ order'[o].stage = "lost"
    <2>1. order[o] \in {None} \cup OrderRecords
        BY DEF BuyInv, OrdersOK
    <2>. QED  BY <1>1, <2>1 DEF Abandoned, OrderRecords
<1>5. OrdersOK'
    <2>1. order' \in [Orders -> {None} \cup OrderRecords]
        <3>1. \A o \in Orders : order'[o] \in {None} \cup OrderRecords
            BY <1>4 DEF BuyInv, OrdersOK
        <3>2. DOMAIN order' = Orders /\ order' = [o \in Orders |-> order'[o]]
            BY <1>1
        <3>. QED  BY <3>1, <3>2
    <2>2. Used' \subseteq Used
        BY <1>4 DEF Used
    <2>3. Cardinality(Used)' \in Nat /\ Cardinality(Used)' <= Cardinality(Used)
        <3>1. Used \subseteq Orders /\ Used' \subseteq Orders
            BY DEF Used, Orders
        <3>2. IsFiniteSet(Used) /\ Cardinality(Used') \in Nat
            BY <3>1, UsedIsFinite
        <3>3. Cardinality(Used') <= Cardinality(Used)
            BY <2>2, <3>2, FS_Subset
        <3>. QED  BY <3>2, <3>3
    <2>4. Unbought' = 0 /\ Unbought \in Nat /\ Cardinality(Used) \in Nat
        BY <1>1, UnboughtIsNat, UsedIsFinite DEF Unbought
    <2>5. opened \in Nat
        BY DEF CycleTypes
    <2>. QED  BY <1>1, <2>1, <2>3, <2>4, <2>5 DEF BuyInv, OrdersOK
<1>6. ChainOK'
    <2>1. \A o \in Orders : At(o, "bought")' => At(o, "bought")
        BY <1>4 DEF At
    <2>. QED  BY <1>1, <2>1 DEF BuyInv, ChainOK, SignatureOf
<1>. QED  BY <1>2, <1>3, <1>5, <1>6 DEF BuyInv

LEMMA NextKeeps == OutInv /\ [Next]_outVars => OutInv'
<1>. SUFFICES ASSUME OutInv, [Next]_outVars PROVE OutInv'
    OBVIOUS
<1>. USE DEF OutInv
<1>1. CASE RecorderStale
    <2>1. todo' \in Seq(Messages)
        <3>1. \A msg \in Messages : <<msg>> \in Seq(Messages)
            OBVIOUS
        <3>2. todo' = <<Message(Stale, FALSE)>>
            BY <1>1 DEF RecorderStale
        <3>. QED  BY <3>1, <3>2, SendersApart
    <2>2. CycleTypes'
        <3>1. /\ held' = held /\ opened' = opened /\ actions' = actions
            BY <1>1 DEF RecorderStale
        <3>. QED  BY <2>1, <3>1 DEF CycleTypes
    <2>. QED  BY <1>1, <2>2, SendFrame, QuietKeeps DEF RecorderStale
<1>2. CASE StartCycle
    <2>1. PICK failing \in SUBSET held :
            todo' = SetToSeq({Message(Recheck(m), FALSE) : m \in failing})
        BY <1>2 DEF StartCycle
    <2>2. todo' \in Seq(Messages)
        BY <2>1, AlertsListed DEF CycleTypes
    <2>3. CycleTypes'
        BY <1>2, <2>2 DEF StartCycle, CycleTypes
    <2>. QED  BY <1>2, <2>3, SendFrame, QuietKeeps DEF StartCycle
<1>3. CASE SayNext
    <2>1. Head(todo) \in Messages /\ todo' \in Seq(Messages)
        BY <1>3 DEF SayNext, CycleTypes
    <2>2. CycleTypes'
        BY <1>3, <2>1 DEF SayNext, CycleTypes
    <2>3. AlertInv'
        <3>1. UNCHANGED <<anyAge, keyAge, gap>>
            BY <1>3 DEF SayNext
        <3>2. CASE UNCHANGED pending
            BY <3>1, <3>2, SendFrame DEF sendVars
        <3>3. CASE ~ Cooling(Head(todo)) /\ Submit(TheCycle, Head(todo))
            BY <2>1, <3>1, <3>3, SubmitKeeps, SendersApart
        <3>. QED  BY <1>3, <3>2, <3>3 DEF SayNext
    <2>4. BuyInv'
        <3>1. UNCHANGED buyVars /\ pc' = pc /\ actions' = actions /\ opened' = opened
            BY <1>3 DEF SayNext
        <3>2. Unbought' = Unbought
            BY <3>1 DEF Unbought
        <3>3. opened \in Nat
            BY DEF CycleTypes
        <3>. QED  BY <3>1, <3>2, <3>3, UnboughtIsNat, BuyFrame
    <2>. QED  BY <2>2, <2>3, <2>4
<1>4. CASE Step
    <2>1. UNCHANGED sendVars
        BY <1>4 DEF Step
    <2>. QED  BY <1>4, <2>1, StepKeeps, SendFrame
<1>5. CASE Announce
    <2>1. UNCHANGED sendVars
        BY <1>5 DEF Announce
    <2>. QED  BY <1>5, <2>1, AnnounceKeeps, SendFrame
<1>6. CASE Signals
    <2>1. PICK firing \in SUBSET Mints :
            todo' = SetToSeq({Message(Signal(m), FALSE) : m \in firing})
        BY <1>6 DEF Signals
    <2>2. todo' \in Seq(Messages)
        BY <2>1, AlertsListed
    <2>3. CycleTypes'
        BY <1>6, <2>2 DEF Signals, CycleTypes
    <2>. QED  BY <1>6, <2>3, SendFrame, QuietKeeps DEF Signals
<1>7. CASE EndCycle
    <2>1. CycleTypes'
        BY <1>7 DEF EndCycle, CycleTypes
    <2>. QED  BY <1>7, <2>1, SendFrame, QuietKeeps DEF EndCycle
<1>8. CASE CycleFails
    <2>1. todo' \in Seq(Messages)
        <3>1. \A msg \in Messages : <<msg>> \in Seq(Messages)
            OBVIOUS
        <3>2. todo' = <<Message(Down, FALSE)>>
            BY <1>8 DEF CycleFails
        <3>. QED  BY <3>1, <3>2, SendersApart
    <2>2. CycleTypes'
        <3>1. /\ held' = held /\ opened' = opened /\ actions' = actions
            BY <1>8 DEF CycleFails
        <3>. QED  BY <2>1, <3>1 DEF CycleTypes
    <2>. QED  BY <1>8, <2>2, SendFrame, QuietKeeps DEF CycleFails
<1>9. ASSUME UNCHANGED <<cycleVars, buyVars>> PROVE CycleTypes' /\ BuyInv'
    <2>1. /\ todo' = todo /\ held' = held /\ opened' = opened /\ actions' = actions
          /\ pc' = pc
        BY <1>9 DEF cycleVars
    <2>2. CycleTypes'
        BY <2>1 DEF CycleTypes
    <2>3. Unbought' = Unbought
        BY <2>1 DEF Unbought
    <2>4. opened \in Nat
        BY DEF CycleTypes
    <2>. QED  BY <1>9, <2>1, <2>2, <2>3, <2>4, UnboughtIsNat, BuyFrame
<1>10. CASE Poll \/ Conflict
    BY <1>9, <1>10, SendFrame DEF Poll, Conflict
<1>11. CASE handleCommand
    <2>1. /\ UNCHANGED <<cycleVars, buyVars>> /\ UNCHANGED <<anyAge, keyAge, gap>>
          /\ Submit(TheCommands, Forced)
        BY <1>11 DEF handleCommand
    <2>. QED  BY <1>9, <2>1, SubmitKeeps, SendersApart
<1>12. ASSUME NEW s \in Senders, Settle(s) PROVE OutInv'
    <2>1. UNCHANGED <<cycleVars, buyVars>>
        BY <1>12 DEF Settle, SendWorks, SendFails
    <2>2. AlertInv'
        BY <1>12, WorksKeeps, FailsKeeps DEF Settle
    <2>. QED  BY <1>9, <2>1, <2>2
<1>13. ASSUME NEW o \in Orders, Prepare(o) PROVE OutInv'
    <2>1. UNCHANGED <<cycleVars, sendVars>>
        BY <1>13 DEF Prepare, outside
    <2>2. CycleTypes'
        BY <2>1 DEF CycleTypes, cycleVars
    <2>. QED  BY <1>13, <2>1, <2>2, SendFrame, PrepareKeeps
<1>14. ASSUME NEW o \in Orders, SendRaw(o) PROVE OutInv'
    <2>1. UNCHANGED <<cycleVars, sendVars>>
        BY <1>14 DEF SendRaw, outside
    <2>2. CycleTypes'
        BY <2>1 DEF CycleTypes, cycleVars
    <2>. QED  BY <1>14, <2>1, <2>2, SendFrame, SendRawKeeps
<1>15. ASSUME NEW o \in Orders, Confirm(o) PROVE OutInv'
    <2>1. UNCHANGED cycleVars /\ UNCHANGED <<anyAge, keyAge, gap>>
        BY <1>15 DEF Confirm, outside
    <2>2. CycleTypes'
        BY <2>1 DEF CycleTypes, cycleVars
    <2>3. AlertInv'
        <3>1. CASE UNCHANGED pending
            BY <2>1, <3>1, SendFrame DEF sendVars
        <3>2. CASE Submit(Buy(o), Forced)
            BY <2>1, <3>2, SubmitKeeps, SendersApart
        <3>. QED  BY <1>15, <3>1, <3>2 DEF Confirm
    <2>. QED  BY <1>15, <2>2, <2>3, ConfirmKeeps
<1>16. CASE Land
    <2>1. UNCHANGED <<cycleVars, sendVars>>
        BY <1>16 DEF Land, outside
    <2>2. CycleTypes'
        BY <2>1 DEF CycleTypes, cycleVars
    <2>. QED  BY <1>16, <2>1, <2>2, SendFrame, LandKeeps
<1>17. CASE PassTime
    <2>1. UNCHANGED <<cycleVars, buyVars>>
        BY <1>17 DEF PassTime
    <2>. QED  BY <1>9, <1>17, <2>1, TimeKeeps
<1>18. CASE UNCHANGED outVars
    <2>1. UNCHANGED <<cycleVars, buyVars>> /\ UNCHANGED sendVars
        BY <1>18 DEF outVars
    <2>. QED  BY <1>9, <2>1, SendFrame
<1>19. CASE CommandThrows
    <2>. HIDE DEF OutInv
    <2>. QED  BY <1>19, EndKeeps
<1>. HIDE DEF OutInv
<1>. QED
    BY <1>1, <1>2, <1>3, <1>4, <1>5, <1>6, <1>7, <1>8, <1>10, <1>11, <1>12, <1>13,
       <1>14, <1>15, <1>16, <1>17, <1>18, <1>19
    DEF Next, Cycle

LEMMA AlwaysOut == Spec => []OutInv
<1>. QED  BY InitOut, NextKeeps, PTL DEF Spec

-----------------------------------------------------------------------------
\* Live buys mirror the paper book at most once (sendAndConfirmSwap of
\* src/trade/executor.js, announceActions of scripts/bot.js): however many
\* positions and attempts, no more orders than positions were ever opened, at
\* most one transaction of an order is on chain, and one that counts as bought is.
THEOREM OneBuyPerPosition == Spec => []BoughtAtMostOnce
<1>1. ASSUME OutInv PROVE BoughtAtMostOnce
    <2>. USE <1>1 DEF OutInv, BuyInv
    <2>1. Cardinality({o \in Orders : order[o] # None}) <= opened
        <3>1. Cardinality(Used) \in Nat /\ Unbought \in Nat /\ opened \in Nat
            BY UsedIsFinite, UnboughtIsNat DEF CycleTypes
        <3>2. Cardinality(Used) <= opened
            BY <3>1 DEF OrdersOK
        <3>. QED  BY <3>2 DEF Used
    <2>2. ASSUME NEW o \in Orders
          PROVE  /\ Cardinality(Landed(o)) <= 1
                 /\ At(o, "bought") => Landed(o) # {}
        <3>1. Landed(o) \subseteq {<<o, 1>>}
            BY DEF Landed, ChainOK, SignatureOf
        <3>2. IsFiniteSet({<<o, 1>>}) /\ Cardinality({<<o, 1>>}) = 1
            BY FS_Singleton
        <3>3. Cardinality(Landed(o)) <= 1
            BY <3>1, <3>2, FS_Subset
        <3>4. At(o, "bought") => <<o, 1>> \in Landed(o)
            BY DEF Landed, ChainOK, SignatureOf
        <3>. QED  BY <3>3, <3>4
    <2>. QED  BY <2>1, <2>2 DEF BoughtAtMostOnce
<1>. QED  BY <1>1, AlwaysOut, PTL

\* "Keeps one token from flooding a phone" (telegram.js:137): for every cooldown
\* and however many senders share the marks, two alerts about one thing are
\* tested at least the cooldown apart.
THEOREM AlertsAreSpaced == Spec => []KeyedAlertsSpaced
<1>1. OutInv => KeyedAlertsSpaced
    BY DEF OutInv, AlertInv, Spaced, KeyedAlertsSpaced
<1>. QED  BY <1>1, AlwaysOut, PTL
===============================================================================
