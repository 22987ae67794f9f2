--------------------------- MODULE PortfolioProofs ---------------------------
(***************************************************************************)
(* Theorems of Portfolio, for every size of book, every limit and every    *)
(* set of mints, sizes, prices, costs, times and fractions.                *)
(*                                                                         *)
(* A step changes `book' by one operation of Ledger, or exchanges it with  *)
(* `kept'; so every invariant below is proved of both books at once, from  *)
(* a lemma about each operation, and the theorems differ only in the       *)
(* predicate on a book they carry.                                         *)
(***************************************************************************)
EXTENDS Portfolio, LedgerProofs

-----------------------------------------------------------------------------
(* The steps, with what their parameters are. *)

\* What Next can do to the book, each case with the types of its parameters.
LEMMA StepCases ==
    ASSUME TypeOK, [Next]_vars
    PROVE  \/ \E mint \in Mints, size \in Nat \ {0}, price \in Nat \ {0},
                 ts \in Nat, cost \in Nat : Open(mint, size, price, ts, cost)
           \/ \E mint \in Mints, price \in Nat \ {0}, ts \in Nat, cost \in Nat :
                 Close(mint, price, ts, cost)
           \/ \E mint \in Mints, frac \in Nat \X (Nat \ {0}), price \in Nat \ {0},
                 ts \in Nat, cost \in Nat : Reduce(mint, frac, price, ts, cost)
           \/ \E marks : /\ Mark(marks)
                         /\ \A m \in DOMAIN marks : marks[m] \in Nat \ {0}
           \/ Keep
           \/ Revert
           \/ UNCHANGED vars
<1>1. CASE Keep \/ Revert \/ UNCHANGED vars
    BY <1>1
<1>2. CASE \E held \in SUBSET Held(book) : \E marks \in [held -> Prices] : Mark(marks)
    BY <1>2, SetsAssumption
<1>3. CASE \E mint \in Mints, size \in Sizes, price \in Prices,
              ts \in Times, cost \in Costs : Open(mint, size, price, ts, cost)
    BY <1>3, SetsAssumption
<1>4. CASE \E mint \in Mints, price \in Prices, ts \in Times, cost \in Costs :
              Sell(mint, price, ts, cost)
    BY <1>4, SetsAssumption DEF Sell
<1>. QED  BY <1>1, <1>2, <1>3, <1>4 DEF Next

LEMMA CostOfType ==
    /\ \A pos \in PositionType : CostOf(pos) \in Int
    /\ \A slice \in SliceType : CostOf(slice) \in Int
    BY DEF CostOf, PositionType, SliceType

-----------------------------------------------------------------------------
(* Type correctness. *)

LEMMA TypeInit == Init => TypeOK
    BY EmptyBook DEF Init, TypeOK

LEMMA TypeStep == TypeOK /\ [Next]_vars => TypeOK'
<1> SUFFICES ASSUME TypeOK, [Next]_vars
             PROVE  TypeOK'
    OBVIOUS
<1>1. ASSUME NEW mint \in Mints, NEW size \in Nat \ {0}, NEW price \in Nat \ {0},
             NEW ts \in Nat, NEW cost \in Nat, Open(mint, size, price, ts, cost)
      PROVE  TypeOK'
    BY <1>1, OpenBook DEF Open, TypeOK
<1>2. ASSUME NEW mint \in Mints, NEW price \in Nat \ {0}, NEW ts \in Nat,
             NEW cost \in Nat, Close(mint, price, ts, cost)
      PROVE  TypeOK'
    <2>1. mint \in Held(book)
        BY <1>2 DEF Close, CanSell
    <2>2. BookOK(book')
        BY <1>2, <2>1, CloseBook DEF Close, TypeOK
    <2>3. book.positions[mint] \in PositionType
        BY <2>1 DEF TypeOK, BookOK
    <2>4. CostOf(book.positions[mint]) \in Int
        BY <2>3, CostOfType
    <2>. QED  BY <1>2, <2>2, <2>4 DEF Close, TypeOK
<1>3. ASSUME NEW mint \in Mints, NEW frac \in Nat \X (Nat \ {0}),
             NEW price \in Nat \ {0}, NEW ts \in Nat, NEW cost \in Nat,
             Reduce(mint, frac, price, ts, cost)
      PROVE  TypeOK'
    <2>1. /\ mint \in Held(book)
          /\ frac[1] \in Nat /\ frac[2] \in Nat \ {0}
        BY <1>3 DEF Reduce, CanSell
    <2>2. BookOK(book')
        BY <1>3, <2>1, ReduceBook DEF Reduce, TypeOK
    <2>3. book.positions[mint] \in PositionType
        BY <2>1 DEF TypeOK, BookOK
    <2>4. CostOf(PartSlice(book.positions[mint], frac[1], frac[2])) \in Int
        BY <2>1, <2>3, PartSliceType, CostOfType
    <2>. QED  BY <1>3, <2>2, <2>4 DEF Reduce, TypeOK
<1>4. ASSUME NEW marks, Mark(marks),
             \A m \in DOMAIN marks : marks[m] \in Nat \ {0}
      PROVE  TypeOK'
    BY <1>4, MarkBook DEF Mark, TypeOK
<1>5. CASE Keep \/ Revert \/ UNCHANGED vars
    BY <1>5 DEF Keep, Revert, vars, TypeOK
<1>. QED  BY <1>1, <1>2, <1>3, <1>4, <1>5, StepCases

\* Every call of portfolio.js that does not throw returns a well-formed book,
\* and so do all sequences of calls, with falls back to kept books in between.
THEOREM TypeCorrect == Spec => []TypeOK
    BY TypeInit, TypeStep, PTL DEF Spec

-----------------------------------------------------------------------------
(* The limits. *)

\* A book's limits, with the finiteness its cardinality needs.
InLimits(b) == IsFiniteSet(Held(b)) /\ WithinLimits(b)

LEMMA OpenKeepsLimits ==
    ASSUME NEW b, BookOK(b), InLimits(b), NEW m \in Mints, NEW s \in Nat \ {0},
           NEW p \in Nat \ {0}, NEW ts \in Nat, NEW c \in Nat,
           CanOpen(b, m, s, p, c, TRUE)
    PROVE  InLimits(openPosition(b, m, s, p, ts, c))
<1> DEFINE r == openPosition(b, m, s, p, ts, c)
<1>1. /\ Held(r) = Held(b) \cup {m}
      /\ r.grossSpentUsd = b.grossSpentUsd + (s + c)
    BY BookNumbers, OpenFields
<1> HIDE DEF r
<1>2. IsFiniteSet(Held(r)) /\ Cardinality(Held(r)) <= MaxPositions
    <2>1. /\ m \notin Held(b)
          /\ Cardinality(Held(b)) < MaxPositions
        BY DEF CanOpen
    <2>2. /\ IsFiniteSet(Held(b) \cup {m})
          /\ Cardinality(Held(b) \cup {m}) = Cardinality(Held(b)) + 1
        BY <2>1, FS_AddElement DEF InLimits
    <2>3. Cardinality(Held(b)) \in Nat
        BY FS_CardinalityType DEF InLimits
    <2>. QED  BY <1>1, <2>1, <2>2, <2>3, LimitsAssumption
<1>3. r.grossSpentUsd <= SpendCap
    BY <1>1, BookNumbers, LimitsAssumption DEF CanOpen
<1>4. InLimits(r)
    BY <1>2, <1>3 DEF InLimits, WithinLimits
<1>. QED  BY <1>4 DEF r

LEMMA CloseKeepsLimits ==
    ASSUME NEW b, BookOK(b), InLimits(b), NEW m \in Held(b), NEW p, NEW ts, NEW c
    PROVE  InLimits(closePosition(b, m, p, ts, c))
<1> DEFINE r == closePosition(b, m, p, ts, c)
<1>1. DOMAIN b = BookFields
    BY BookNumbers
<1>2. /\ r.positions = Drop(b.positions, m)
      /\ r.grossSpentUsd = b.grossSpentUsd
    BY <1>1, RealiseFields DEF closePosition
<1> HIDE DEF r
<1>3. Held(r) = Held(b) \ {m}
    BY <1>2, Zenon DEF Drop, Held
<1>4. /\ IsFiniteSet(Held(b) \ {m})
      /\ Cardinality(Held(b) \ {m}) = Cardinality(Held(b)) - 1
      /\ Cardinality(Held(b)) \in Nat
    BY FS_RemoveElement, FS_CardinalityType DEF InLimits
<1>5. InLimits(r)
    BY <1>2, <1>3, <1>4, LimitsAssumption DEF InLimits, WithinLimits
<1>. QED  BY <1>5 DEF r

LEMMA ReduceKeepsLimits ==
    ASSUME NEW b, BookOK(b), InLimits(b), NEW m \in Held(b),
           NEW num, NEW den, NEW p, NEW ts, NEW c
    PROVE  InLimits(reducePosition(b, m, num, den, p, ts, c))
<1> DEFINE r == reducePosition(b, m, num, den, p, ts, c)
           slice == PartSlice(b.positions[m], num, den)
           rest == Remainder(b.positions[m], slice, p)
<1>1. DOMAIN b = BookFields
    BY BookNumbers
<1>2. /\ r.positions = Put(b.positions, m, rest)
      /\ r.grossSpentUsd = b.grossSpentUsd
    BY <1>1, RealiseFields DEF reducePosition
<1> HIDE DEF r, rest
<1>3. Held(r) = Held(b) \cup {m}
    BY <1>2, Zenon DEF Put, Held
<1>4. Held(r) = Held(b)
    BY <1>3
<1>5. InLimits(r)
    BY <1>2, <1>4 DEF InLimits, WithinLimits
<1>. QED  BY <1>5 DEF r

LimitsInv == TypeOK /\ InLimits(book) /\ InLimits(kept)

LEMMA LimitsInit == Init => LimitsInv
<1>1. InLimits(emptyPortfolio)
    BY EmptyFields, FS_EmptySet, LimitsAssumption DEF InLimits, WithinLimits
<1>. QED  BY <1>1, TypeInit DEF Init, LimitsInv

LEMMA LimitsStep == LimitsInv /\ [Next]_vars => LimitsInv'
<1> SUFFICES ASSUME LimitsInv, [Next]_vars
             PROVE  InLimits(book') /\ InLimits(kept')
    BY TypeStep DEF LimitsInv, InLimits, WithinLimits
<1>1. ASSUME NEW mint \in Mints, NEW size \in Nat \ {0}, NEW price \in Nat \ {0},
             NEW ts \in Nat, NEW cost \in Nat, Open(mint, size, price, ts, cost)
      PROVE  InLimits(book') /\ InLimits(kept')
    BY <1>1, OpenKeepsLimits DEF Open, LimitsInv, TypeOK
<1>2. ASSUME NEW mint \in Mints, NEW price \in Nat \ {0}, NEW ts \in Nat,
             NEW cost \in Nat, Close(mint, price, ts, cost)
      PROVE  InLimits(book') /\ InLimits(kept')
    BY <1>2, CloseKeepsLimits DEF Close, CanSell, LimitsInv, TypeOK
<1>3. ASSUME NEW mint \in Mints, NEW frac \in Nat \X (Nat \ {0}),
             NEW price \in Nat \ {0}, NEW ts \in Nat, NEW cost \in Nat,
             Reduce(mint, frac, price, ts, cost)
      PROVE  InLimits(book') /\ InLimits(kept')
    BY <1>3, ReduceKeepsLimits DEF Reduce, CanSell, LimitsInv, TypeOK
<1>4. ASSUME NEW marks, Mark(marks)
      PROVE  InLimits(book') /\ InLimits(kept')
    <2>1. /\ Held(book') = Held(book)
          /\ book'.grossSpentUsd = book.grossSpentUsd
        BY <1>4, BookNumbers, MarkFields DEF Mark, LimitsInv, TypeOK
    <2>. QED  BY <1>4, <2>1 DEF Mark, LimitsInv, InLimits, WithinLimits
<1>5. CASE Keep \/ Revert \/ UNCHANGED vars
    BY <1>5 DEF Keep, Revert, vars, LimitsInv
<1>. QED  BY <1>1, <1>2, <1>3, <1>4, <1>5, StepCases DEF LimitsInv

\* No sequence of calls opens more positions than maxConcurrentPositions or
\* deploys more than absoluteSpendCapUsd, and falling back to a kept book does
\* not either: the limits are the code's, checked at every opening.
THEOREM LimitsHold == Spec => []RiskLimits
<1>1. LimitsInv => RiskLimits
    BY DEF LimitsInv, InLimits, RiskLimits
<1>. QED  BY <1>1, LimitsInit, LimitsStep, PTL DEF Spec

-----------------------------------------------------------------------------
(* The cash. *)

\* a is what the positions open in b cost.
CashOK(b, a) == b.cashUsd = BookSize + b.realisedPnlUsd - a

\* Selling any slice moves its cost out of the positions and its net profit
\* into the realised P&L: the gross profit and the exit leg cancel.
LEMMA RealiseKeepsCash ==
    ASSUME NEW b, BookOK(b), NEW a \in Int, CashOK(b, a), NEW m \in Held(b),
           NEW slice \in SliceType, NEW p \in Nat \ {0}, NEW ts, NEW c \in Nat,
           NEW positions
    PROVE  CashOK(Realise(b, m, slice, p, ts, c, positions), a - CostOf(slice))
<1> DEFINE r == Realise(b, m, slice, p, ts, c, positions)
           gross == Gross(slice.qty, b.positions[m].entryPriceUsd, p)
<1>1. /\ r.cashUsd = b.cashUsd + slice.sizeUsd + gross - c
      /\ r.realisedPnlUsd = b.realisedPnlUsd + NetPnl(b.positions[m], slice, p, c)
    BY BookNumbers, RealiseFields
<1>2. b.positions[m] \in PositionType
    BY DEF BookOK
<1>3. gross \in Int
    BY <1>2, NetPnlType
<1>4. NetPnl(b.positions[m], slice, p, c) = gross - slice.entryCostUsd - c
    BY DEF NetPnl
<1>5. slice.sizeUsd \in Int /\ slice.entryCostUsd \in Int
    BY DEF SliceType
<1> HIDE DEF r, gross
<1>6. CashOK(r, a - CostOf(slice))
    BY <1>1, <1>3, <1>4, <1>5, BookNumbers, BookSizeAssumption DEF CashOK, CostOf
<1>. QED  BY <1>6 DEF r

CashInv == TypeOK /\ CashOK(book, atCost) /\ CashOK(kept, keptCost)

LEMMA CashInit == Init => CashInv
<1>1. CashOK(emptyPortfolio, 0)
    BY EmptyFields, BookSizeAssumption DEF CashOK
<1>. QED  BY <1>1, TypeInit DEF Init, CashInv

LEMMA CashStep == CashInv /\ [Next]_vars => CashInv'
<1> SUFFICES ASSUME CashInv, [Next]_vars
             PROVE  CashOK(book', atCost') /\ CashOK(kept', keptCost')
    BY TypeStep DEF CashInv, CashOK
<1>0. BookOK(book) /\ atCost \in Int /\ CashOK(book, atCost) /\ CashOK(kept, keptCost)
    BY DEF CashInv, TypeOK
<1>1. ASSUME NEW mint \in Mints, NEW size \in Nat \ {0}, NEW price \in Nat \ {0},
             NEW ts \in Nat, NEW cost \in Nat, Open(mint, size, price, ts, cost)
      PROVE  CashOK(book', atCost') /\ CashOK(kept', keptCost')
    <2>1. /\ book'.cashUsd = book.cashUsd - (size + cost)
          /\ book'.realisedPnlUsd = book.realisedPnlUsd
        BY <1>0, <1>1, BookNumbers, OpenFields DEF Open
    <2>2. CashOK(book', atCost')
        BY <1>0, <1>1, <2>1, BookNumbers, BookSizeAssumption DEF Open, CashOK
    <2>. QED  BY <1>0, <1>1, <2>2 DEF Open
<1>2. ASSUME NEW mint \in Mints, NEW price \in Nat \ {0}, NEW ts \in Nat,
             NEW cost \in Nat, Close(mint, price, ts, cost)
      PROVE  CashOK(book', atCost') /\ CashOK(kept', keptCost')
    <2> DEFINE pos == book.positions[mint]
    <2>1. mint \in Held(book) /\ pos \in PositionType
        BY <1>0, <1>2 DEF Close, CanSell, BookOK
    <2>2. WholeSlice(pos) \in SliceType
        BY <2>1, WholeSliceType
    <2>3. CostOf(WholeSlice(pos)) = CostOf(pos)
        BY DEF CostOf, WholeSlice
    <2>4. CashOK(closePosition(book, mint, price, ts, cost), atCost - CostOf(pos))
        BY <1>0, <2>1, <2>2, <2>3, RealiseKeepsCash DEF closePosition
    <2>. QED  BY <1>0, <1>2, <2>4 DEF Close
<1>3. ASSUME NEW mint \in Mints, NEW frac \in Nat \X (Nat \ {0}),
             NEW price \in Nat \ {0}, NEW ts \in Nat, NEW cost \in Nat,
             Reduce(mint, frac, price, ts, cost)
      PROVE  CashOK(book', atCost') /\ CashOK(kept', keptCost')
    <2> DEFINE pos == book.positions[mint]
               slice == PartSlice(pos, frac[1], frac[2])
    <2>1. mint \in Held(book) /\ pos \in PositionType
        BY <1>0, <1>3 DEF Reduce, CanSell, BookOK
    <2>2. slice \in SliceType
        BY <2>1, PartSliceType
    <2>3. CashOK(reducePosition(book, mint, frac[1], frac[2], price, ts, cost),
                 atCost - CostOf(slice))
        BY <1>0, <2>1, <2>2, RealiseKeepsCash DEF reducePosition
    <2>. QED  BY <1>0, <1>3, <2>3 DEF Reduce
<1>4. ASSUME NEW marks, Mark(marks)
      PROVE  CashOK(book', atCost') /\ CashOK(kept', keptCost')
    <2>1. /\ book'.cashUsd = book.cashUsd
          /\ book'.realisedPnlUsd = book.realisedPnlUsd
        BY <1>0, <1>4, BookNumbers, MarkFields DEF Mark
    <2>. QED  BY <1>0, <1>4, <2>1 DEF Mark, CashOK
<1>5. CASE Keep \/ Revert \/ UNCHANGED vars
    BY <1>0, <1>5 DEF Keep, Revert, vars
<1>. QED  BY <1>1, <1>2, <1>3, <1>4, <1>5, StepCases DEF CashInv

\* The books balance after any sequence of calls: cash is the mandate plus what
\* was realised less the cost of what is open, whatever slices were sold, in
\* whatever order, at whatever prices and costs.
THEOREM CashBalances == Spec => []CashIdentity
<1>1. CashInv => CashIdentity
    BY DEF CashInv, CashOK, CashIdentity
<1>. QED  BY <1>1, CashInit, CashStep, PTL DEF Spec

-----------------------------------------------------------------------------
(* The losing streak. *)

LEMMA ShiftByOne ==
    ASSUME NEW n \in Nat, NEW k \in Nat, k + 1 < n + 1
    PROVE  /\ (n + 1) - (k + 1) = n - k
           /\ n - k \in 1..n
           /\ k < n
    OBVIOUS

LEMMA RealiseKeepsStreak ==
    ASSUME NEW b, BookOK(b), LosingTail(b), NEW m \in Held(b),
           NEW slice \in SliceType, NEW p \in Nat \ {0}, NEW ts, NEW c \in Nat,
           NEW positions
    PROVE  LosingTail(Realise(b, m, slice, p, ts, c, positions))
<1> DEFINE r == Realise(b, m, slice, p, ts, c, positions)
           net == NetPnl(b.positions[m], slice, p, c)
           trade == Trade(m, b.positions[m], slice, p, ts, c)
           n == Len(b.closedTrades)
<1>1. /\ r.closedTrades = Append(b.closedTrades, trade)
      /\ r.consecutiveLosses = StreakAfter(b, net)
    BY BookNumbers, RealiseFields
<1>2. net \in Int
    BY NetPnlType DEF BookOK
<1>3. trade.netPnlUsd = net
    BY DEF Trade
<1>4. b.closedTrades \in Seq(TradeType)
    BY DEF BookOK
<1> HIDE DEF r, net, trade
<1>5. /\ Len(r.closedTrades) = n + 1
      /\ r.closedTrades[n + 1] = trade
      /\ \A i \in 1..n : r.closedTrades[i] = b.closedTrades[i]
      /\ n \in Nat
    BY <1>1, <1>4
<1>6. /\ b.consecutiveLosses \in Nat
      /\ b.consecutiveLosses <= n
      /\ \A i \in (n - b.consecutiveLosses + 1)..n : b.closedTrades[i].netPnlUsd < 0
      /\ b.consecutiveLosses < n =>
            ~ (b.closedTrades[n - b.consecutiveLosses].netPnlUsd < 0)
    BY BookNumbers DEF LosingTail, Trades
<1> HIDE DEF n
<1>7. CASE net < 0
    <2>1. r.consecutiveLosses = b.consecutiveLosses + 1
        BY <1>1, <1>7 DEF StreakAfter
    <2>2. ASSUME NEW i \in ((n + 1) - (b.consecutiveLosses + 1) + 1)..(n + 1)
          PROVE  r.closedTrades[i].netPnlUsd < 0
        <3>1. CASE i = n + 1
            BY <3>1, <1>3, <1>5, <1>7
        <3>2. CASE i # n + 1
            <4>1. i \in (n - b.consecutiveLosses + 1)..n /\ i \in 1..n
                BY <3>2, <1>5, <1>6
            <4>2. r.closedTrades[i] = b.closedTrades[i]
                BY <4>1, <1>5
            <4>. QED  BY <4>1, <4>2, <1>6
        <3>. QED  BY <3>1, <3>2
    <2>3. ASSUME b.consecutiveLosses + 1 < n + 1
          PROVE  ~ (r.closedTrades[(n + 1) - (b.consecutiveLosses + 1)].netPnlUsd < 0)
        <3>1. /\ (n + 1) - (b.consecutiveLosses + 1) = n - b.consecutiveLosses
              /\ n - b.consecutiveLosses \in 1..n
              /\ b.consecutiveLosses < n
            BY <2>3, <1>5, <1>6, ShiftByOne
        <3>. QED  BY <3>1, <1>5, <1>6
    <2>4. b.consecutiveLosses + 1 <= n + 1
        BY <1>5, <1>6
    <2>5. LosingTail(r)
        BY <1>5, <2>1, <2>2, <2>3, <2>4 DEF LosingTail, Trades
    <2>. QED  BY <2>5 DEF r
<1>8. CASE ~ (net < 0)
    <2>1. r.consecutiveLosses = 0
        BY <1>1, <1>8 DEF StreakAfter
    <2>2. ~ (r.closedTrades[n + 1].netPnlUsd < 0)
        BY <1>3, <1>5, <1>8
    <2>3. LosingTail(r)
        BY <1>5, <2>1, <2>2 DEF LosingTail, Trades
    <2>. QED  BY <2>3 DEF r
<1>. QED  BY <1>7, <1>8

StreakInv == TypeOK /\ LosingTail(book) /\ LosingTail(kept)

LEMMA StreakInit == Init => StreakInv
<1>1. LosingTail(emptyPortfolio)
    BY EmptyFields DEF LosingTail, Trades
<1>. QED  BY <1>1, TypeInit DEF Init, StreakInv

LEMMA StreakStep == StreakInv /\ [Next]_vars => StreakInv'
<1> SUFFICES ASSUME StreakInv, [Next]_vars
             PROVE  LosingTail(book') /\ LosingTail(kept')
    BY TypeStep DEF StreakInv, LosingTail, Trades
<1>0. BookOK(book) /\ LosingTail(book) /\ LosingTail(kept)
    BY DEF StreakInv, TypeOK
<1>1. ASSUME NEW mint \in Mints, NEW size \in Nat \ {0}, NEW price \in Nat \ {0},
             NEW ts \in Nat, NEW cost \in Nat, Open(mint, size, price, ts, cost)
      PROVE  LosingTail(book') /\ LosingTail(kept')
    <2>1. /\ book'.closedTrades = book.closedTrades
          /\ book'.consecutiveLosses = book.consecutiveLosses
        BY <1>0, <1>1, BookNumbers, OpenFields DEF Open
    <2>. QED  BY <1>0, <1>1, <2>1 DEF Open, LosingTail, Trades
<1>2. ASSUME NEW mint \in Mints, NEW price \in Nat \ {0}, NEW ts \in Nat,
             NEW cost \in Nat, Close(mint, price, ts, cost)
      PROVE  LosingTail(book') /\ LosingTail(kept')
    <2>1. mint \in Held(book) /\ WholeSlice(book.positions[mint]) \in SliceType
        BY <1>0, <1>2, WholeSliceType DEF Close, CanSell, BookOK
    <2>2. LosingTail(closePosition(book, mint, price, ts, cost))
        BY <1>0, <2>1, RealiseKeepsStreak DEF closePosition
    <2>. QED  BY <1>0, <1>2, <2>2 DEF Close
<1>3. ASSUME NEW mint \in Mints, NEW frac \in Nat \X (Nat \ {0}),
             NEW price \in Nat \ {0}, NEW ts \in Nat, NEW cost \in Nat,
             Reduce(mint, frac, price, ts, cost)
      PROVE  LosingTail(book') /\ LosingTail(kept')
    <2> DEFINE slice == PartSlice(book.positions[mint], frac[1], frac[2])
    <2>1. mint \in Held(book) /\ slice \in SliceType
        BY <1>0, <1>3, PartSliceType DEF Reduce, CanSell, BookOK
    <2>2. LosingTail(reducePosition(book, mint, frac[1], frac[2], price, ts, cost))
        BY <1>0, <2>1, RealiseKeepsStreak DEF reducePosition
    <2>. QED  BY <1>0, <1>3, <2>2 DEF Reduce
<1>4. ASSUME NEW marks, Mark(marks)
      PROVE  LosingTail(book') /\ LosingTail(kept')
    <2>1. /\ book'.closedTrades = book.closedTrades
          /\ book'.consecutiveLosses = book.consecutiveLosses
        BY <1>0, <1>4, BookNumbers, MarkFields DEF Mark
    <2>. QED  BY <1>0, <1>4, <2>1 DEF Mark, LosingTail, Trades
<1>5. CASE Keep \/ Revert \/ UNCHANGED vars
    BY <1>0, <1>5 DEF Keep, Revert, vars
<1>. QED  BY <1>1, <1>2, <1>3, <1>4, <1>5, StepCases DEF StreakInv

\* The streak the kill switch compares with killSwitchConsecutiveLosses is the
\* losing tail of the trades, for trade lists of any length.
THEOREM StreakIsRight == Spec => []StreakIsTheLosingTail
<1>1. StreakInv => StreakIsTheLosingTail
    BY DEF StreakInv, StreakIsTheLosingTail
<1>. QED  BY <1>1, StreakInit, StreakStep, PTL DEF Spec

-----------------------------------------------------------------------------
(* The counters. *)

\* Counters that agree, with the finiteness their cardinality needs.
CountersOK(b) == IsFiniteSet(Held(b)) /\ CountersOf(b)

\* A sale that leaves the position open, or takes it away.
LEMMA RealiseKeepsCounters ==
    ASSUME NEW b, BookOK(b), CountersOK(b), NEW m \in Held(b),
           NEW slice \in SliceType, NEW p \in Nat \ {0}, NEW ts, NEW c \in Nat,
           NEW positions,
           DOMAIN positions = Held(b) \/ DOMAIN positions = Held(b) \ {m}
    PROVE  CountersOK(Realise(b, m, slice, p, ts, c, positions))
<1> DEFINE r == Realise(b, m, slice, p, ts, c, positions)
           net == NetPnl(b.positions[m], slice, p, c)
           trade == Trade(m, b.positions[m], slice, p, ts, c)
<1>1. /\ r.positions = positions
      /\ r.closedTrades = Append(b.closedTrades, trade)
      /\ r.wins = (IF net > 0 THEN b.wins + 1 ELSE b.wins)
      /\ r.losses = (IF net < 0 THEN b.losses + 1 ELSE b.losses)
      /\ r.closedCount = b.closedCount + 1
      /\ r.openedCount = b.openedCount
    BY BookNumbers, RealiseFields
<1>2. net \in Int
    BY NetPnlType DEF BookOK
<1>3. b.closedTrades \in Seq(TradeType)
    BY DEF BookOK
<1> HIDE DEF r, net, trade
<1>4. Held(r) = Held(b) \/ Held(r) = Held(b) \ {m}
    BY <1>1 DEF Held
<1>5. /\ IsFiniteSet(Held(r))
      /\ Cardinality(Held(b)) \in Nat /\ Cardinality(Held(r)) \in Nat
      /\ Cardinality(Held(r)) <= Cardinality(Held(b))
      /\ Cardinality(Held(b)) - Cardinality(Held(r)) <= 1
    <2>1. /\ IsFiniteSet(Held(b)) /\ Cardinality(Held(b)) \in Nat
          /\ IsFiniteSet(Held(b) \ {m})
          /\ Cardinality(Held(b) \ {m}) = Cardinality(Held(b)) - 1
          /\ Cardinality(Held(b) \ {m}) \in Nat
        BY FS_RemoveElement, FS_CardinalityType DEF CountersOK
    <2>2. CASE Held(r) = Held(b)
        BY <2>1, <2>2
    <2>3. CASE Held(r) = Held(b) \ {m}
        BY <2>1, <2>3
    <2>. QED  BY <1>4, <2>2, <2>3
<1>6. /\ b.closedCount = Len(b.closedTrades)
      /\ b.wins + b.losses <= b.closedCount
      /\ Cardinality(Held(b)) <= b.openedCount
      /\ b.openedCount - Cardinality(Held(b)) <= b.closedCount
    BY DEF CountersOK, CountersOf, Trades
<1>7. r.closedCount = Len(r.closedTrades)
    BY <1>1, <1>3, <1>6
<1>8. r.wins + r.losses <= r.closedCount
    <2>1. /\ b.wins \in Nat /\ b.losses \in Nat /\ b.closedCount \in Nat
          /\ b.wins + b.losses <= b.closedCount
        BY <1>6, BookNumbers
    <2>2. \/ r.wins = b.wins /\ r.losses = b.losses
          \/ r.wins = b.wins + 1 /\ r.losses = b.losses
          \/ r.wins = b.wins /\ r.losses = b.losses + 1
        BY <1>1, <1>2
    <2>3. r.closedCount = b.closedCount + 1
        BY <1>1
    <2>. QED  BY <2>1, <2>2, <2>3
<1>9. /\ Cardinality(Held(r)) <= r.openedCount
      /\ r.openedCount - Cardinality(Held(r)) <= r.closedCount
    BY <1>1, <1>5, <1>6, BookNumbers
<1>10. CountersOK(r)
    BY <1>5, <1>7, <1>8, <1>9 DEF CountersOK, CountersOf, Trades
<1>. QED  BY <1>10 DEF r

LEMMA OpenKeepsCounters ==
    ASSUME NEW b, BookOK(b), CountersOK(b), NEW m \in Mints, m \notin Held(b),
           NEW s \in Nat \ {0}, NEW p \in Nat \ {0}, NEW ts \in Nat, NEW c \in Nat
    PROVE  CountersOK(openPosition(b, m, s, p, ts, c))
<1> DEFINE r == openPosition(b, m, s, p, ts, c)
<1>1. /\ Held(r) = Held(b) \cup {m}
      /\ r.openedCount = b.openedCount + 1
      /\ r.closedTrades = b.closedTrades
      /\ r.wins = b.wins /\ r.losses = b.losses
      /\ r.closedCount = b.closedCount
    BY BookNumbers, OpenFields
<1> HIDE DEF r
<1>2. /\ IsFiniteSet(Held(r))
      /\ Cardinality(Held(r)) = Cardinality(Held(b)) + 1
      /\ Cardinality(Held(b)) \in Nat
    BY <1>1, FS_AddElement, FS_CardinalityType DEF CountersOK
<1>3. CountersOK(r)
    BY <1>1, <1>2, BookNumbers DEF CountersOK, CountersOf, Trades
<1>. QED  BY <1>3 DEF r

CountersInv == TypeOK /\ CountersOK(book) /\ CountersOK(kept)

LEMMA CountersInit == Init => CountersInv
<1>1. CountersOK(emptyPortfolio)
    BY EmptyFields, FS_EmptySet DEF CountersOK, CountersOf, Trades
<1>. QED  BY <1>1, TypeInit DEF Init, CountersInv

LEMMA CountersStep == CountersInv /\ [Next]_vars => CountersInv'
<1> SUFFICES ASSUME CountersInv, [Next]_vars
             PROVE  CountersOK(book') /\ CountersOK(kept')
    BY TypeStep DEF CountersInv, CountersOK, CountersOf, Trades
<1>0. BookOK(book) /\ CountersOK(book) /\ CountersOK(kept)
    BY DEF CountersInv, TypeOK
<1>1. ASSUME NEW mint \in Mints, NEW size \in Nat \ {0}, NEW price \in Nat \ {0},
             NEW ts \in Nat, NEW cost \in Nat, Open(mint, size, price, ts, cost)
      PROVE  CountersOK(book') /\ CountersOK(kept')
    BY <1>0, <1>1, OpenKeepsCounters DEF Open, CanOpen
<1>2. ASSUME NEW mint \in Mints, NEW price \in Nat \ {0}, NEW ts \in Nat,
             NEW cost \in Nat, Close(mint, price, ts, cost)
      PROVE  CountersOK(book') /\ CountersOK(kept')
    <2> DEFINE positions == Drop(book.positions, mint)
    <2>1. mint \in Held(book) /\ WholeSlice(book.positions[mint]) \in SliceType
        BY <1>0, <1>2, WholeSliceType DEF Close, CanSell, BookOK
    <2>2. DOMAIN positions = Held(book) \ {mint}
        BY Zenon DEF Drop, Held
    <2>3. CountersOK(closePosition(book, mint, price, ts, cost))
        BY <1>0, <2>1, <2>2, RealiseKeepsCounters DEF closePosition
    <2>. QED  BY <1>0, <1>2, <2>3 DEF Close
<1>3. ASSUME NEW mint \in Mints, NEW frac \in Nat \X (Nat \ {0}),
             NEW price \in Nat \ {0}, NEW ts \in Nat, NEW cost \in Nat,
             Reduce(mint, frac, price, ts, cost)
      PROVE  CountersOK(book') /\ CountersOK(kept')
    <2> DEFINE slice == PartSlice(book.positions[mint], frac[1], frac[2])
               positions == Put(book.positions, mint,
                                Remainder(book.positions[mint], slice, price))
    <2>1. mint \in Held(book) /\ slice \in SliceType
        BY <1>0, <1>3, PartSliceType DEF Reduce, CanSell, BookOK
    <2>2. DOMAIN positions = Held(book) \cup {mint}
        BY Zenon DEF Put, Held
    <2>3. Held(book) \cup {mint} = Held(book)
        BY <2>1
    <2>4. CountersOK(reducePosition(book, mint, frac[1], frac[2], price, ts, cost))
        <3>1. DOMAIN positions = Held(book)
            BY <2>2, <2>3, Zenon
        <3> HIDE DEF positions, slice
        <3>2. CountersOK(Realise(book, mint, slice, price, ts, cost, positions))
            BY <1>0, <2>1, <3>1, RealiseKeepsCounters
        <3>. QED  BY <3>2, Zenon DEF reducePosition, positions, slice
    <2>. QED  BY <1>0, <1>3, <2>4 DEF Reduce
<1>4. ASSUME NEW marks, Mark(marks)
      PROVE  CountersOK(book') /\ CountersOK(kept')
    <2>1. /\ Held(book') = Held(book)
          /\ book'.closedTrades = book.closedTrades
          /\ book'.openedCount = book.openedCount
          /\ book'.closedCount = book.closedCount
          /\ book'.wins = book.wins /\ book'.losses = book.losses
        BY <1>0, <1>4, BookNumbers, MarkFields DEF Mark
    <2>. QED  BY <1>0, <1>4, <2>1 DEF Mark, CountersOK, CountersOf, Trades
<1>5. CASE Keep \/ Revert \/ UNCHANGED vars
    BY <1>0, <1>5 DEF Keep, Revert, vars
<1>. QED  BY <1>1, <1>2, <1>3, <1>4, <1>5, StepCases DEF CountersInv

\* What publishBook and readJournal count on: closedCount is the length of the
\* trade list, so the new trades are its last closedCount differences.
THEOREM CountersAgree == Spec => []CountsAgree
<1>1. CountersInv => CountsAgree
    BY DEF CountersInv, CountersOK, CountsAgree
<1>. QED  BY <1>1, CountersInit, CountersStep, PTL DEF Spec

-----------------------------------------------------------------------------
(* The totals. *)

\* What SumOpen and SumTrades add up in BookTotals.
TradeCosts(ts) == [i \in DOMAIN ts |-> ts[i].sizeUsd + ts[i].entryCostUsd]
TradeCharges(ts) == [i \in DOMAIN ts |-> ts[i].entryCostUsd + ts[i].exitCostUsd]
TradeNets(ts) == [i \in DOMAIN ts |-> ts[i].netPnlUsd]

\* The totals of a book, with what its sums need to be numbers.
TotalsOK(b, cost) ==
    /\ IsFiniteSet(Held(b))
    /\ IsFiniteSet(DOMAIN b.daily) /\ \A d \in DOMAIN b.daily : b.daily[d] \in Int
    /\ cost = Total(OpenCosts(b.positions))
    /\ b.costsPaidUsd = Total(TradeCharges(b.closedTrades))
                          + Total(OpenCharges(b.positions))
    /\ b.grossSpentUsd = Total(TradeCosts(b.closedTrades))
                           + Total(OpenCosts(b.positions))
    /\ b.realisedPnlUsd = Total(TradeNets(b.closedTrades))
    /\ b.realisedPnlUsd = Total(b.daily)

\* Appending one number to a list adds it to the list's sum.
LEMMA TotalAppend ==
    ASSUME NEW n \in Nat, NEW f, DOMAIN f = 1..n, \A i \in 1..n : f[i] \in Int,
           NEW g, DOMAIN g = 1..(n + 1), g[n + 1] \in Int,
           \A i \in 1..n : g[i] = f[i]
    PROVE  Total(g) = Total(f) + g[n + 1] /\ Total(f) \in Int
<1>1. IsFiniteSet(DOMAIN f) /\ \A x \in DOMAIN f : f[x] \in Int
    BY FS_Interval
<1>2. n + 1 \notin DOMAIN f /\ DOMAIN g = DOMAIN f \cup {n + 1}
    OBVIOUS
<1>3. \A x \in DOMAIN f : g[x] = f[x]
    OBVIOUS
<1>4. Total(g) = Total(f) + g[n + 1]
    BY <1>1, <1>2, <1>3, TotalAdd
<1>5. Total(f) \in Int
    BY <1>1, TotalType
<1>. QED  BY <1>4, <1>5

\* A trade appended adds its own figures to the three sums over the trades.
LEMMA TradeSums ==
    ASSUME NEW ts \in Seq(TradeType), NEW t \in TradeType
    PROVE  /\ Total(TradeCosts(Append(ts, t))) =
                 Total(TradeCosts(ts)) + (t.sizeUsd + t.entryCostUsd)
           /\ Total(TradeCharges(Append(ts, t))) =
                 Total(TradeCharges(ts)) + (t.entryCostUsd + t.exitCostUsd)
           /\ Total(TradeNets(Append(ts, t))) = Total(TradeNets(ts)) + t.netPnlUsd
           /\ Total(TradeCosts(ts)) \in Int
           /\ Total(TradeCharges(ts)) \in Int
           /\ Total(TradeNets(ts)) \in Int
<1> DEFINE n == Len(ts)
           us == Append(ts, t)
<1>1. /\ n \in Nat /\ DOMAIN ts = 1..n /\ DOMAIN us = 1..(n + 1)
      /\ us[n + 1] = t
      /\ \A i \in 1..n : us[i] = ts[i]
    OBVIOUS
<1>2. /\ t.sizeUsd + t.entryCostUsd \in Int
      /\ t.entryCostUsd + t.exitCostUsd \in Int
      /\ t.netPnlUsd \in Int
    BY DEF TradeType
<1>3. ASSUME NEW i \in 1..n
      PROVE  /\ ts[i].sizeUsd + ts[i].entryCostUsd \in Int
             /\ ts[i].entryCostUsd + ts[i].exitCostUsd \in Int
             /\ ts[i].netPnlUsd \in Int
    <2>1. ts[i] \in TradeType
        BY <1>1
    <2>2. ts[i].sizeUsd \in Int /\ ts[i].entryCostUsd \in Int
          /\ ts[i].exitCostUsd \in Int /\ ts[i].netPnlUsd \in Int
        BY <2>1 DEF TradeType
    <2>. QED  BY <2>2
<1> HIDE DEF n, us
<1>4. /\ Total(TradeCosts(us)) = Total(TradeCosts(ts)) + (t.sizeUsd + t.entryCostUsd)
      /\ Total(TradeCosts(ts)) \in Int
    <2> DEFINE f == TradeCosts(ts)
               g == TradeCosts(us)
    <2>1. /\ DOMAIN f = 1..n /\ \A i \in 1..n : f[i] \in Int
          /\ DOMAIN g = 1..(n + 1) /\ \A i \in 1..n : g[i] = f[i]
          /\ g[n + 1] = t.sizeUsd + t.entryCostUsd
          /\ g[n + 1] \in Int
        BY <1>1, <1>2, <1>3 DEF TradeCosts
    <2> HIDE DEF f, g
    <2>2. Total(g) = Total(f) + g[n + 1] /\ Total(f) \in Int
        BY <1>1, <1>2, <2>1, TotalAppend
    <2>. QED  BY <2>1, <2>2 DEF f, g
<1>5. /\ Total(TradeCharges(us)) =
            Total(TradeCharges(ts)) + (t.entryCostUsd + t.exitCostUsd)
      /\ Total(TradeCharges(ts)) \in Int
    <2> DEFINE f == TradeCharges(ts)
               g == TradeCharges(us)
    <2>1. /\ DOMAIN f = 1..n /\ \A i \in 1..n : f[i] \in Int
          /\ DOMAIN g = 1..(n + 1) /\ \A i \in 1..n : g[i] = f[i]
          /\ g[n + 1] = t.entryCostUsd + t.exitCostUsd
          /\ g[n + 1] \in Int
        BY <1>1, <1>2, <1>3 DEF TradeCharges
    <2> HIDE DEF f, g
    <2>2. Total(g) = Total(f) + g[n + 1] /\ Total(f) \in Int
        BY <1>1, <1>2, <2>1, TotalAppend
    <2>. QED  BY <2>1, <2>2 DEF f, g
<1>6. /\ Total(TradeNets(us)) = Total(TradeNets(ts)) + t.netPnlUsd
      /\ Total(TradeNets(ts)) \in Int
    <2> DEFINE f == TradeNets(ts)
               g == TradeNets(us)
    <2>1. /\ DOMAIN f = 1..n /\ \A i \in 1..n : f[i] \in Int
          /\ DOMAIN g = 1..(n + 1) /\ \A i \in 1..n : g[i] = f[i]
          /\ g[n + 1] = t.netPnlUsd
          /\ g[n + 1] \in Int
        BY <1>1, <1>2, <1>3 DEF TradeNets
    <2> HIDE DEF f, g
    <2>2. Total(g) = Total(f) + g[n + 1] /\ Total(f) \in Int
        BY <1>1, <1>2, <2>1, TotalAppend
    <2>. QED  BY <2>1, <2>2 DEF f, g
<1>. QED  BY <1>4, <1>5, <1>6 DEF us

LEMMA TradeSumsType ==
    ASSUME NEW ts \in Seq(TradeType)
    PROVE  /\ Total(TradeCosts(ts)) \in Int
           /\ Total(TradeCharges(ts)) \in Int
           /\ Total(TradeNets(ts)) \in Int
<1>1. IsFiniteSet(DOMAIN ts)
    BY FS_Interval
<1>2. \A i \in DOMAIN ts : ts[i] \in TradeType
    OBVIOUS
<1>3. \A i \in DOMAIN ts : ts[i].sizeUsd \in Int /\ ts[i].entryCostUsd \in Int
                           /\ ts[i].exitCostUsd \in Int /\ ts[i].netPnlUsd \in Int
    BY <1>2 DEF TradeType
<1>4. /\ DOMAIN TradeCosts(ts) = DOMAIN ts
      /\ DOMAIN TradeCharges(ts) = DOMAIN ts
      /\ DOMAIN TradeNets(ts) = DOMAIN ts
      /\ \A i \in DOMAIN ts : /\ TradeCosts(ts)[i] \in Int
                              /\ TradeCharges(ts)[i] \in Int
                              /\ TradeNets(ts)[i] \in Int
    BY <1>3 DEF TradeCosts, TradeCharges, TradeNets
<1>. QED  BY <1>1, <1>4, TotalType

\* A sale trades the slice for its cost: what the open positions cost falls by
\* what the slice did, entry leg included, and the trade carries both on.
LEMMA RealiseKeepsTotals ==
    ASSUME NEW b, BookOK(b), NEW cost, TotalsOK(b, cost), NEW m \in Held(b),
           NEW slice \in SliceType, NEW p \in Nat \ {0}, NEW ts \in Nat,
           NEW c \in Nat, NEW positions,
           IsFiniteSet(DOMAIN positions),
           Total(OpenCosts(positions)) =
               Total(OpenCosts(b.positions)) - CostOf(slice),
           Total(OpenCharges(positions)) =
               Total(OpenCharges(b.positions)) - slice.entryCostUsd
    PROVE  TotalsOK(Realise(b, m, slice, p, ts, c, positions), cost - CostOf(slice))
<1> DEFINE r == Realise(b, m, slice, p, ts, c, positions)
           pos == b.positions[m]
           net == NetPnl(pos, slice, p, c)
           trade == Trade(m, pos, slice, p, ts, c)
           day == dayKey(ts)
<1>1. /\ r.positions = positions
      /\ r.closedTrades = Append(b.closedTrades, trade)
      /\ r.costsPaidUsd = b.costsPaidUsd + c
      /\ r.grossSpentUsd = b.grossSpentUsd
      /\ r.realisedPnlUsd = b.realisedPnlUsd + net
      /\ r.daily = DailyAfter(b, day, net)
    BY BookNumbers, RealiseFields
<1>2. net \in Int /\ pos \in PositionType /\ m \in Mints
    BY NetPnlType DEF BookOK
<1>3. trade \in TradeType
    BY <1>2 DEF Trade, TradeType, SliceType, PositionType
<1>4. /\ trade.netPnlUsd = net /\ trade.exitCostUsd = c
      /\ trade.sizeUsd = slice.sizeUsd /\ trade.entryCostUsd = slice.entryCostUsd
    BY DEF Trade
<1>5. b.closedTrades \in Seq(TradeType)
    BY DEF BookOK
<1> HIDE DEF r, net, trade, day
<1>6. /\ Total(TradeCosts(r.closedTrades)) =
            Total(TradeCosts(b.closedTrades)) + (slice.sizeUsd + slice.entryCostUsd)
      /\ Total(TradeCharges(r.closedTrades)) =
            Total(TradeCharges(b.closedTrades)) + (slice.entryCostUsd + c)
      /\ Total(TradeNets(r.closedTrades)) = Total(TradeNets(b.closedTrades)) + net
      /\ Total(TradeCosts(b.closedTrades)) \in Int
      /\ Total(TradeCharges(b.closedTrades)) \in Int
      /\ Total(TradeNets(b.closedTrades)) \in Int
    BY <1>1, <1>3, <1>4, <1>5, TradeSums
<1>7. Total(OpenCosts(b.positions)) \in Int /\ Total(OpenCharges(b.positions)) \in Int
    BY BookPositions, OpenSumsType
<1>8. slice.sizeUsd \in Int /\ slice.entryCostUsd \in Int
      /\ CostOf(slice) = slice.sizeUsd + slice.entryCostUsd
    BY DEF SliceType, CostOf
<1>9. /\ b.costsPaidUsd \in Nat /\ b.grossSpentUsd \in Nat /\ b.realisedPnlUsd \in Int
    BY BookNumbers
<1>10. /\ IsFiniteSet(DOMAIN r.daily) /\ \A d \in DOMAIN r.daily : r.daily[d] \in Int
       /\ r.realisedPnlUsd = Total(r.daily)
    <2>1. /\ IsFiniteSet(DOMAIN b.daily) /\ \A d \in DOMAIN b.daily : b.daily[d] \in Int
          /\ b.realisedPnlUsd = Total(b.daily)
        BY DEF TotalsOK
    <2>2. RealisedOn(b, day) \in Int
        BY <2>1 DEF RealisedOn
    <2>3. RealisedOn(b, day) + net \in Int
        BY <2>2, <1>2
    <2>4. r.daily = Put(b.daily, day, RealisedOn(b, day) + net)
        BY <1>1 DEF DailyAfter
    <2>5. Total(r.daily) = Total(b.daily) - RealisedOn(b, day) + (RealisedOn(b, day) + net)
        BY <2>1, <2>3, <2>4, TotalPut DEF RealisedOn
    <2>6. /\ DOMAIN r.daily = DOMAIN b.daily \cup {day}
          /\ \A d \in DOMAIN b.daily \cup {day} :
                r.daily[d] = IF d = day THEN RealisedOn(b, day) + net ELSE b.daily[d]
        BY <2>4, Zenon DEF Put
    <2>7. IsFiniteSet(DOMAIN r.daily)
        BY <2>1, <2>6, FS_AddElement
    <2>8. \A d \in DOMAIN r.daily : r.daily[d] \in Int
        BY <2>1, <2>3, <2>6
    <2>9. Total(b.daily) \in Int
        BY <2>1, <1>9
    <2>. QED  BY <1>1, <1>2, <2>1, <2>2, <2>5, <2>7, <2>8, <2>9
<1>11. r.realisedPnlUsd = Total(TradeNets(r.closedTrades))
    BY <1>1, <1>2, <1>6 DEF TotalsOK
<1>12. r.grossSpentUsd = Total(TradeCosts(r.closedTrades)) + Total(OpenCosts(r.positions))
    BY <1>1, <1>6, <1>7, <1>8 DEF TotalsOK
<1>13. r.costsPaidUsd = Total(TradeCharges(r.closedTrades))
                          + Total(OpenCharges(r.positions))
    BY <1>1, <1>6, <1>7, <1>8 DEF TotalsOK
<1>14. cost - CostOf(slice) = Total(OpenCosts(r.positions))
    BY <1>1 DEF TotalsOK
<1>15. IsFiniteSet(Held(r))
    BY <1>1 DEF Held
<1>16. TotalsOK(r, cost - CostOf(slice))
    BY <1>10, <1>11, <1>12, <1>13, <1>14, <1>15 DEF TotalsOK
<1>. QED  BY <1>16 DEF r

\* Selling all of a position takes its cost out of the sums.
LEMMA CloseKeepsTotals ==
    ASSUME NEW b, BookOK(b), NEW cost, TotalsOK(b, cost), NEW m \in Held(b),
           NEW p \in Nat \ {0}, NEW ts \in Nat, NEW c \in Nat
    PROVE  TotalsOK(closePosition(b, m, p, ts, c), cost - CostOf(b.positions[m]))
<1> DEFINE ps == b.positions
           left == Drop(ps, m)
           slice == WholeSlice(ps[m])
<1>1. m \in DOMAIN ps /\ Positions(ps) /\ ps[m] \in PositionType
    BY BookPositions DEF Held, BookOK
<1>2. /\ slice \in SliceType /\ slice.entryCostUsd = ps[m].entryCostUsd
      /\ CostOf(slice) = CostOfPosition(ps[m]) /\ CostOf(ps[m]) = CostOfPosition(ps[m])
      /\ CostOfPosition(ps[m]) \in Int /\ ps[m].entryCostUsd \in Int
    BY <1>1, WholeSliceType, CostOfType, PositionFields
       DEF WholeSlice, CostOf, CostOfPosition
<1> HIDE DEF left, ps, slice
<1>3. /\ Total(OpenCosts(ps)) = Total(OpenCosts(left)) + CostOfPosition(ps[m])
      /\ Total(OpenCharges(ps)) = Total(OpenCharges(left)) + ps[m].entryCostUsd
      /\ Positions(left)
    BY <1>1, DropSums DEF left
<1>4. /\ Total(OpenCosts(left)) = Total(OpenCosts(ps)) - CostOf(slice)
      /\ Total(OpenCharges(left)) = Total(OpenCharges(ps)) - slice.entryCostUsd
    BY <1>2, <1>3, OpenSumsType
<1>5. TotalsOK(Realise(b, m, slice, p, ts, c, left), cost - CostOf(slice))
    BY <1>2, <1>3, <1>4, RealiseKeepsTotals DEF ps, Positions
<1>. QED  BY <1>2, <1>5 DEF closePosition, slice, left, ps

\* Selling a part of it leaves the rest, at what was there less what was sold.
LEMMA ReduceKeepsTotals ==
    ASSUME NEW b, BookOK(b), NEW cost, TotalsOK(b, cost), NEW m \in Held(b),
           NEW num \in Nat, NEW den \in Nat \ {0},
           NEW p \in Nat \ {0}, NEW ts \in Nat, NEW c \in Nat
    PROVE  TotalsOK(reducePosition(b, m, num, den, p, ts, c),
                    cost - CostOf(PartSlice(b.positions[m], num, den)))
<1> DEFINE ps == b.positions
           slice == PartSlice(ps[m], num, den)
           rest == Remainder(ps[m], slice, p)
           left == Put(ps, m, rest)
<1>1. m \in DOMAIN ps /\ Positions(ps) /\ ps[m] \in PositionType
    BY BookPositions DEF Held, BookOK
<1>2. slice \in SliceType
    BY <1>1, PartSliceType
<1> HIDE DEF slice
<1>3. /\ rest \in PositionType
      /\ rest.sizeUsd = ps[m].sizeUsd - slice.sizeUsd
      /\ rest.entryCostUsd = ps[m].entryCostUsd - slice.entryCostUsd
    BY <1>1, <1>2, RemainderType, RemainderFields
<1> HIDE DEF rest, left, ps
<1>4. /\ Total(OpenCosts(left)) =
            Total(OpenCosts(ps)) - CostOfPosition(ps[m]) + CostOfPosition(rest)
      /\ Total(OpenCharges(left)) =
            Total(OpenCharges(ps)) - ps[m].entryCostUsd + rest.entryCostUsd
      /\ Positions(left)
    BY <1>1, <1>3, PutSums DEF left
<1>5. /\ ps[m].sizeUsd \in Int /\ ps[m].entryCostUsd \in Int
      /\ slice.sizeUsd \in Int /\ slice.entryCostUsd \in Int
      /\ Total(OpenCosts(ps)) \in Int /\ Total(OpenCharges(ps)) \in Int
    BY <1>1, <1>2, PositionFields, OpenSumsType DEF SliceType
<1>6. /\ Total(OpenCosts(left)) = Total(OpenCosts(ps)) - CostOf(slice)
      /\ Total(OpenCharges(left)) = Total(OpenCharges(ps)) - slice.entryCostUsd
    BY <1>3, <1>4, <1>5 DEF CostOf, CostOfPosition
<1>7. TotalsOK(Realise(b, m, slice, p, ts, c, left), cost - CostOf(slice))
    BY <1>2, <1>4, <1>6, RealiseKeepsTotals DEF ps, Positions
<1>. QED  BY <1>7, Zenon DEF reducePosition, slice, left, rest, ps

\* Opening a position adds its cost to the sums.
LEMMA OpenKeepsTotals ==
    ASSUME NEW b, BookOK(b), NEW cost, TotalsOK(b, cost), NEW m \in Mints,
           m \notin Held(b), NEW s \in Nat \ {0}, NEW p \in Nat \ {0},
           NEW ts \in Nat, NEW c \in Nat
    PROVE  TotalsOK(openPosition(b, m, s, p, ts, c), cost + s + c)
<1> DEFINE r == openPosition(b, m, s, p, ts, c)
           ps == b.positions
           pos == NewPosition(s, p, ts, c)
<1>1. m \notin DOMAIN ps /\ Positions(ps)
    BY BookPositions DEF Held
<1>2. pos \in PositionType /\ CostOfPosition(pos) = s + c /\ pos.entryCostUsd = c
    BY NewPositionType DEF NewPosition, CostOfPosition
<1>3. r.positions = Put(ps, m, pos)
    BY BookNumbers, Zenon DEF openPosition, BookFields
<1>4. /\ r.grossSpentUsd = b.grossSpentUsd + (s + c)
      /\ r.costsPaidUsd = b.costsPaidUsd + c
      /\ r.closedTrades = b.closedTrades
      /\ r.realisedPnlUsd = b.realisedPnlUsd
      /\ r.daily = b.daily
    BY BookNumbers, OpenFields
<1> HIDE DEF r, ps, pos
<1>5. /\ Total(OpenCosts(r.positions)) = Total(OpenCosts(ps)) + (s + c)
      /\ Total(OpenCharges(r.positions)) = Total(OpenCharges(ps)) + c
      /\ Positions(r.positions)
      /\ Total(OpenCosts(ps)) \in Int /\ Total(OpenCharges(ps)) \in Int
    BY <1>1, <1>2, <1>3, PutSums, OpenSumsType
<1>6. /\ Total(TradeCosts(b.closedTrades)) \in Int
      /\ Total(TradeCharges(b.closedTrades)) \in Int
    BY TradeSumsType DEF BookOK
<1>7. TotalsOK(r, cost + s + c)
    <2>1. cost + s + c = Total(OpenCosts(r.positions))
        BY <1>5 DEF TotalsOK, ps
    <2>2. r.grossSpentUsd = Total(TradeCosts(r.closedTrades))
                              + Total(OpenCosts(r.positions))
        BY <1>4, <1>5, <1>6 DEF TotalsOK, ps
    <2>3. r.costsPaidUsd = Total(TradeCharges(r.closedTrades))
                             + Total(OpenCharges(r.positions))
        BY <1>4, <1>5, <1>6 DEF TotalsOK, ps
    <2>. QED  BY <1>4, <1>5, <2>1, <2>2, <2>3 DEF TotalsOK, Held, Positions
<1>. QED  BY <1>7 DEF r

\* A mark changes neither size nor entry cost.
LEMMA MarkKeepsTotals ==
    ASSUME NEW b, BookOK(b), NEW cost, TotalsOK(b, cost), NEW marks
    PROVE  TotalsOK(markPositions(b, marks), cost)
<1> DEFINE r == markPositions(b, marks)
<1>1. /\ Held(r) = Held(b)
      /\ r.grossSpentUsd = b.grossSpentUsd
      /\ r.costsPaidUsd = b.costsPaidUsd
      /\ r.closedTrades = b.closedTrades
      /\ r.realisedPnlUsd = b.realisedPnlUsd
      /\ r.daily = b.daily
    BY BookNumbers, MarkFields
<1>2. /\ Total(OpenCosts(r.positions)) = Total(OpenCosts(b.positions))
      /\ Total(OpenCharges(r.positions)) = Total(OpenCharges(b.positions))
    BY MarkSums
<1> HIDE DEF r
<1>3. TotalsOK(r, cost)
    BY <1>1, <1>2 DEF TotalsOK
<1>. QED  BY <1>3 DEF r

TotalsInv ==
    /\ CountersInv
    /\ TotalsOK(book, atCost) /\ TotalsOK(kept, keptCost)

LEMMA TotalsInit == Init => TotalsInv
<1>1. TotalsOK(emptyPortfolio, 0)
    <2>1. /\ DOMAIN OpenCosts(emptyPortfolio.positions) = {}
          /\ DOMAIN OpenCharges(emptyPortfolio.positions) = {}
          /\ DOMAIN TradeCosts(emptyPortfolio.closedTrades) = {}
          /\ DOMAIN TradeCharges(emptyPortfolio.closedTrades) = {}
          /\ DOMAIN TradeNets(emptyPortfolio.closedTrades) = {}
          /\ DOMAIN emptyPortfolio.daily = {}
        BY EmptyFields DEF Held, OpenCosts, OpenCharges, TradeCosts, TradeCharges,
                           TradeNets
    <2>. QED  BY <2>1, EmptyFields, TotalEmpty, FS_EmptySet DEF TotalsOK
<1>. QED  BY <1>1, CountersInit DEF Init, TotalsInv

LEMMA TotalsStep == TotalsInv /\ [Next]_vars => TotalsInv'
<1> SUFFICES ASSUME TotalsInv, [Next]_vars
             PROVE  TotalsOK(book', atCost') /\ TotalsOK(kept', keptCost')
    <2>1. TotalsInv /\ [Next]_vars => CountersInv'
        BY CountersStep DEF TotalsInv
    <2>. QED  BY <2>1 DEF TotalsInv, TotalsOK, OpenCosts, OpenCharges, TradeCosts,
                         TradeCharges, TradeNets
<1>0. /\ TypeOK /\ BookOK(book)
      /\ TotalsOK(book, atCost) /\ TotalsOK(kept, keptCost)
    BY DEF TotalsInv, CountersInv, TypeOK
<1>1. ASSUME NEW mint \in Mints, NEW size \in Nat \ {0}, NEW price \in Nat \ {0},
             NEW ts \in Nat, NEW cost \in Nat, Open(mint, size, price, ts, cost)
      PROVE  TotalsOK(book', atCost') /\ TotalsOK(kept', keptCost')
    BY <1>0, <1>1, OpenKeepsTotals DEF Open, CanOpen
<1>2. ASSUME NEW mint \in Mints, NEW price \in Nat \ {0}, NEW ts \in Nat,
             NEW cost \in Nat, Close(mint, price, ts, cost)
      PROVE  TotalsOK(book', atCost') /\ TotalsOK(kept', keptCost')
    BY <1>0, <1>2, CloseKeepsTotals DEF Close, CanSell
<1>3. ASSUME NEW mint \in Mints, NEW frac \in Nat \X (Nat \ {0}),
             NEW price \in Nat \ {0}, NEW ts \in Nat, NEW cost \in Nat,
             Reduce(mint, frac, price, ts, cost)
      PROVE  TotalsOK(book', atCost') /\ TotalsOK(kept', keptCost')
    <2>1. frac[1] \in Nat /\ frac[2] \in Nat \ {0}
        OBVIOUS
    <2>. QED  BY <1>0, <1>3, <2>1, ReduceKeepsTotals DEF Reduce, CanSell
<1>4. ASSUME NEW marks, Mark(marks),
             \A m \in DOMAIN marks : marks[m] \in Nat \ {0}
      PROVE  TotalsOK(book', atCost') /\ TotalsOK(kept', keptCost')
    BY <1>0, <1>4, MarkKeepsTotals DEF Mark
<1>5. CASE Keep \/ Revert \/ UNCHANGED vars
    BY <1>0, <1>5 DEF Keep, Revert, vars
<1>. QED  BY <1>0, <1>1, <1>2, <1>3, <1>4, <1>5, StepCases

\* The running totals of a book are the sums over its positions and its trades,
\* for any number of positions, scale-outs and trades: every cost is charged
\* once, spend is cumulative, realised P&L is the trades' and the day buckets
\* partition it, and the counters agree.
THEOREM TotalsAreRight == Spec => []BookTotals
<1>1. TotalsInv => BookTotals
    <2> SUFFICES ASSUME TotalsInv PROVE BookTotals
        OBVIOUS
    <2>1. TotalsOK(book, atCost) /\ CountsAgree
        BY DEF TotalsInv, CountersInv, CountersOK, CountsAgree
    <2>2. atCost = SumOpen(book, CostOf)
        BY <2>1, Zenon DEF TotalsOK, OpenCosts, CostOf, CostOfPosition, SumOpen,
                    Held, Total
    <2>3. CostsChargedOnce
        BY <2>1, Zenon DEF CostsChargedOnce, TotalsOK, SumTrades, SumOpen, Held,
                    Trades, TradeCharges, OpenCharges, Total
    <2>4. SpendIsCumulative
        BY <2>1, Zenon DEF SpendIsCumulative, TotalsOK, SumTrades, SumOpen, Held,
                    Trades, TradeCosts, OpenCosts, CostOf, CostOfPosition, Total
    <2>5. RealisedIsTheTrades
        BY <2>1, Zenon DEF RealisedIsTheTrades, TotalsOK, SumTrades,
                    Trades, TradeNets, Total
    <2>. QED  BY <2>1, <2>2, <2>3, <2>4, <2>5 DEF BookTotals
<1>. QED  BY <1>1, TotalsInit, TotalsStep, PTL DEF Spec
=============================================================================
