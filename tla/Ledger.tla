------------------------------- MODULE Ledger -------------------------------
(***************************************************************************)
(* The paper book of src/paper/portfolio.js as a value: one operator per   *)
(* exported function, from a book to a book.  The source is immutable      *)
(* ("NOTHING here mutates"), so a book is a record and an operation is an  *)
(* expression; the state machines that hold a book are Portfolio, Engine   *)
(* and Bot.                                                                *)
(*                                                                         *)
(* Money, prices and quantities are integers in one small unit.  The       *)
(* source computes in doubles; the model keeps its formulas and its order  *)
(* of subtraction (what is left of a position is what was there minus what *)
(* was sold), so every identity below is exact and rounding is not         *)
(* modelled.  A percentage test a/b*100 >= p is written 100*a >= p*b.      *)
(***************************************************************************)
EXTENDS Integers, Sequences, FiniteSets, Functions

CONSTANTS
    Mints,           \* the mints that trade
    BookSize,        \* RISK.bookSizeUsd
    MaxPositions,    \* RISK.maxConcurrentPositions
    SpendCap,        \* RISK.absoluteSpendCapUsd
    MaxDailyLossPct, \* RISK.maxDailyLossPct
    KillLosses,      \* RISK.killSwitchConsecutiveLosses
    TicksPerDay      \* length of a UTC day in clock ticks

ASSUME MintsAssumption == IsFiniteSet(Mints)
ASSUME BookSizeAssumption == BookSize \in Nat \ {0}
ASSUME LimitsAssumption == /\ MaxPositions \in Nat
                           /\ SpendCap \in Nat
                           /\ MaxDailyLossPct \in Nat
                           /\ KillLosses \in Nat \ {0}
ASSUME DayAssumption == TicksPerDay \in Nat \ {0}

Hundred == 100

(***************************************************************************)
(* Derived quantities.                                                     *)
(***************************************************************************)
dayKey(ts) == ts \div TicksPerDay

\* The mints with an open position: Object.keys(book.positions).
Held(b) == DOMAIN b.positions

Gross(qty, entry, price) == qty * (price - entry)

sumUnrealised(positions) ==
    FoldFunction(+, 0, [m \in DOMAIN positions |-> positions[m].unrealisedPnlUsd])

\* dailyRealisedPnlUsd[key] ?? 0
RealisedOn(b, day) ==
    IF day \in DOMAIN b.daily THEN b.daily[day] ELSE 0

(***************************************************************************)
(* The shape freezePortfolio gives a book: its positions, its trades, its  *)
(* counters.  The sums it caches (sumUnrealised) are left untyped.         *)
(***************************************************************************)
PositionType ==
    [sizeUsd : Int, entryPriceUsd : Nat \ {0}, qty : Int, openedTs : Nat,
     entryCostUsd : Int, lastPriceUsd : Nat \ {0}, unrealisedPnlUsd : Int,
     scaleOutCount : Nat]

TradeType ==
    [mint : Mints, sizeUsd : Int, entryCostUsd : Int, exitCostUsd : Int,
     netPnlUsd : Int, openedTs : Nat, closedTs : Nat]

BookFields ==
    {"cashUsd", "positions", "closedTrades", "realisedPnlUsd",
     "unrealisedPnlUsd", "costsPaidUsd", "grossSpentUsd", "consecutiveLosses",
     "wins", "losses", "openedCount", "closedCount", "daily"}

BookOK(b) ==
    /\ DOMAIN b = BookFields
    /\ Held(b) \subseteq Mints
    /\ \A m \in Held(b) : b.positions[m] \in PositionType
    /\ b.closedTrades \in Seq(TradeType)
    /\ b.cashUsd \in Int /\ b.realisedPnlUsd \in Int
    /\ b.grossSpentUsd \in Nat /\ b.costsPaidUsd \in Nat
    /\ b.consecutiveLosses \in Nat /\ b.wins \in Nat /\ b.losses \in Nat
    /\ b.openedCount \in Nat /\ b.closedCount \in Nat

(***************************************************************************)
(* The books.                                                              *)
(***************************************************************************)
emptyPortfolio ==
    [cashUsd |-> BookSize, positions |-> << >>, closedTrades |-> << >>,
     realisedPnlUsd |-> 0, unrealisedPnlUsd |-> 0, costsPaidUsd |-> 0,
     grossSpentUsd |-> 0, consecutiveLosses |-> 0, wins |-> 0, losses |-> 0,
     openedCount |-> 0, closedCount |-> 0, daily |-> << >>]

\* Mutant of Usable: the cash assertion is missing.
UsableWhateverTheCash(b) == b.grossSpentUsd >= 0

\* assertPortfolio: what every function demands of the book it is given; a
\* book that fails it makes the call throw.
Usable(b) == b.cashUsd >= 0 /\ b.grossSpentUsd >= 0

\* Mutant of CanOpen: the cap is compared with the sizes alone, not the costs.
CanOpenCapWithoutCost(b, mint, size, price, cost, buyable) ==
    /\ Usable(b)
    /\ size > 0 /\ price > 0 /\ cost >= 0
    /\ buyable
    /\ mint \notin Held(b)
    /\ Cardinality(Held(b)) < MaxPositions
    /\ b.grossSpentUsd + size <= SpendCap
    /\ size + cost <= b.cashUsd

(***************************************************************************)
(* openPosition.  CanOpen is the conjunction of its throws, negated.       *)
(***************************************************************************)
CanOpen(b, mint, size, price, cost, buyable) ==
    /\ Usable(b)
    /\ size > 0 /\ price > 0 /\ cost >= 0
    /\ buyable
    /\ mint \notin Held(b)
    /\ Cardinality(Held(b)) < MaxPositions
    /\ b.grossSpentUsd + size + cost <= SpendCap
    /\ size + cost <= b.cashUsd

NewPosition(size, price, ts, cost) ==
    [sizeUsd |-> size, entryPriceUsd |-> price, qty |-> size \div price,
     openedTs |-> ts, entryCostUsd |-> cost, lastPriceUsd |-> price,
     unrealisedPnlUsd |-> 0, scaleOutCount |-> 0]

Put(positions, mint, pos) ==
    [m \in DOMAIN positions \cup {mint} |->
        IF m = mint THEN pos ELSE positions[m]]

Drop(positions, mint) == [m \in DOMAIN positions \ {mint} |-> positions[m]]

\* What an opening takes out of the cash and adds to the money deployed.
Spend(size, cost) == size + cost

openPosition(b, mint, size, price, ts, cost) ==
    LET positions == Put(b.positions, mint, NewPosition(size, price, ts, cost))
    IN [b EXCEPT !.cashUsd = @ - (size + cost),
                 !.grossSpentUsd = @ + Spend(size, cost),
                 !.costsPaidUsd = @ + cost,
                 !.positions = positions,
                 !.unrealisedPnlUsd = sumUnrealised(positions),
                 !.openedCount = @ + 1]

\* A position marked at a price.
Marked(pos, price) ==
    [pos EXCEPT !.lastPriceUsd = price,
                !.unrealisedPnlUsd = Gross(pos.qty, pos.entryPriceUsd, price)]

(***************************************************************************)
(* closePosition and reducePosition.  Both realise a slice of a position:  *)
(* all of it, or the fraction num/den of it, whose share of the entry cost *)
(* is charged with it.                                                     *)
(***************************************************************************)
CanSell(b, mint, price, ts, cost) ==
    /\ Usable(b)
    /\ price > 0 /\ cost >= 0
    /\ mint \in Held(b)
    /\ ts >= b.positions[mint].openedTs

\* The whole position, as closePosition sells it.
WholeSlice(pos) ==
    [qty |-> pos.qty, sizeUsd |-> pos.sizeUsd, entryCostUsd |-> pos.entryCostUsd]

\* The share num/den of a position, as reducePosition sells it.
PartSlice(pos, num, den) ==
    [qty |-> (pos.qty * num) \div den,
     sizeUsd |-> (pos.sizeUsd * num) \div den,
     entryCostUsd |-> (pos.entryCostUsd * num) \div den]

\* Mutant of NetPnl: a profit that only exists before the entry cost.
NetPnlBeforeEntryCost(pos, slice, price, cost) ==
    Gross(slice.qty, pos.entryPriceUsd, price) - cost

NetPnl(pos, slice, price, cost) ==
    Gross(slice.qty, pos.entryPriceUsd, price) - slice.entryCostUsd - cost

Trade(mint, pos, slice, price, ts, cost) ==
    [mint |-> mint, sizeUsd |-> slice.sizeUsd,
     entryCostUsd |-> slice.entryCostUsd, exitCostUsd |-> cost,
     netPnlUsd |-> NetPnl(pos, slice, price, cost),
     openedTs |-> pos.openedTs, closedTs |-> ts]

\* Mutant of StreakAfter: a sale that is no loss leaves the streak alone.
StreakNeverReset(b, net) ==
    IF net < 0 THEN b.consecutiveLosses + 1 ELSE b.consecutiveLosses

\* Exactly zero is neither a win nor a loss, and resets the streak.
StreakAfter(b, net) == IF net < 0 THEN b.consecutiveLosses + 1 ELSE 0

DailyAfter(b, day, net) == Put(b.daily, day, RealisedOn(b, day) + net)

\* What a sale does to every field but the positions.
Realise(b, mint, slice, price, ts, cost, positions) ==
    LET pos == b.positions[mint]
        gross == Gross(slice.qty, pos.entryPriceUsd, price)
        net == NetPnl(pos, slice, price, cost)
        day == dayKey(ts)
    IN [b EXCEPT !.cashUsd = @ + slice.sizeUsd + gross - cost,
                 !.costsPaidUsd = @ + cost,
                 !.realisedPnlUsd = @ + net,
                 !.positions = positions,
                 !.unrealisedPnlUsd = sumUnrealised(positions),
                 !.closedTrades =
                     Append(@, Trade(mint, pos, slice, price, ts, cost)),
                 !.consecutiveLosses = StreakAfter(b, net),
                 !.wins = IF net > 0 THEN @ + 1 ELSE @,
                 !.losses = IF net < 0 THEN @ + 1 ELSE @,
                 !.closedCount = @ + 1,
                 !.daily = DailyAfter(b, day, net)]

closePosition(b, mint, price, ts, cost) ==
    Realise(b, mint, WholeSlice(b.positions[mint]), price, ts, cost,
            Drop(b.positions, mint))

\* Mutant of Remainder: the sold share of the entry cost stays on the position
\* and is charged again when the rest is sold.
RemainderKeepsCost(pos, slice, price) ==
    Marked([pos EXCEPT !.qty = @ - slice.qty,
                       !.sizeUsd = @ - slice.sizeUsd,
                       !.scaleOutCount = @ + 1], price)

\* The remainder: what was held minus the slice that was sold, marked at the
\* price of the sale.
Remainder(pos, slice, price) ==
    Marked([pos EXCEPT !.qty = @ - slice.qty,
                       !.sizeUsd = @ - slice.sizeUsd,
                       !.entryCostUsd = @ - slice.entryCostUsd,
                       !.scaleOutCount = @ + 1], price)

reducePosition(b, mint, num, den, price, ts, cost) ==
    LET pos == b.positions[mint]
        slice == PartSlice(pos, num, den)
    IN Realise(b, mint, slice, price, ts, cost,
               Put(b.positions, mint, Remainder(pos, slice, price)))

(***************************************************************************)
(* markPositions: marks is a function from some of the held mints to       *)
(* prices.  A mark for a mint that is not held throws.                     *)
(***************************************************************************)
CanMark(b, marks) ==
    /\ Usable(b)
    /\ DOMAIN marks \subseteq Held(b)
    /\ \A m \in DOMAIN marks : marks[m] > 0

markPositions(b, marks) ==
    LET positions ==
            [m \in Held(b) |-> IF m \in DOMAIN marks
                               THEN Marked(b.positions[m], marks[m])
                               ELSE b.positions[m]]
    IN [b EXCEPT !.positions = positions,
                 !.unrealisedPnlUsd = sumUnrealised(positions)]

(***************************************************************************)
(* shouldKillSwitch (without marks, as the engine calls it): the day's     *)
(* realised P&L plus an unrealised LOSS, never an unrealised gain, against *)
(* the mandate; or too many losing trades in a row.                        *)
(***************************************************************************)
DailyPnl(b, ts) ==
    RealisedOn(b, dayKey(ts))
      + (IF b.unrealisedPnlUsd < 0 THEN b.unrealisedPnlUsd ELSE 0)

DailyLossTripped(b, ts) ==
    Hundred * DailyPnl(b, ts) <= -(MaxDailyLossPct * BookSize)

shouldKillSwitch(b, ts) ==
    \/ DailyLossTripped(b, ts)
    \/ b.consecutiveLosses >= KillLosses

\* portfolioEquityUsd: cash plus what the open positions are worth.
portfolioEquityUsd(b) ==
    b.cashUsd
      + FoldFunction(+, 0, [m \in Held(b) |-> b.positions[m].sizeUsd
                                              + b.positions[m].unrealisedPnlUsd])
=============================================================================
