------------------------------ MODULE Portfolio ------------------------------
(***************************************************************************)
(* src/paper/portfolio.js as a state machine: what any caller can do to a  *)
(* book by calling the exported functions in any order, with any time      *)
(* stamp, price and cost it likes.  A call whose conditions fail throws    *)
(* and returns no book, so it is no step.                                  *)
(*                                                                         *)
(* The functions return NEW books, so "a caller can keep the pre-trade     *)
(* state" (portfolio.js:10-12): `kept' is the book a caller holds on to,   *)
(* and falling back to it is a step.  That is what the engine does when a  *)
(* tick throws half-way; Engine is shown to implement this module.         *)
(*                                                                         *)
(* atCost is a history variable: the money at cost in the open positions,  *)
(* which no field of the source's book holds.                              *)
(***************************************************************************)
EXTENDS Ledger, SequencesExt

CONSTANTS
    Sizes,      \* position sizes a caller may ask for
    Prices,     \* prices a caller may trade or mark at
    Costs,      \* costs a caller may charge one leg
    Times,      \* the clock values a caller may stamp a call with
    Fractions,  \* fractions a caller may sell, as <<numerator, denominator>>
    MaxTrades   \* bound: how many closed trades a behaviour may record

ASSUME SetsAssumption ==
    /\ Sizes \subseteq Nat \ {0}
    /\ Prices \subseteq Nat \ {0}
    /\ Costs \subseteq Nat
    /\ Times \subseteq Nat
    /\ \A f \in Fractions : /\ f \in Nat \X (Nat \ {0})
                            /\ f[1] < f[2]
    /\ MaxTrades \in Nat

VARIABLES
    book,    \* the book the caller works on
    kept,    \* the book the caller can fall back to
    atCost,  \* history: sizes plus entry costs of the positions open in book
    keptCost \* history: the same for kept

vars == <<book, kept, atCost, keptCost>>

CostOf(pos) == pos.sizeUsd + pos.entryCostUsd

Init == /\ book = emptyPortfolio
        /\ kept = emptyPortfolio
        /\ atCost = 0
        /\ keptCost = 0

Open(mint, size, price, ts, cost) ==
    /\ CanOpen(book, mint, size, price, cost, TRUE)
    /\ book' = openPosition(book, mint, size, price, ts, cost)
    /\ atCost' = atCost + size + cost
    /\ UNCHANGED <<kept, keptCost>>

Close(mint, price, ts, cost) ==
    /\ CanSell(book, mint, price, ts, cost)
    /\ book.closedCount < MaxTrades
    /\ book' = closePosition(book, mint, price, ts, cost)
    /\ atCost' = atCost - CostOf(book.positions[mint])
    /\ UNCHANGED <<kept, keptCost>>

Reduce(mint, frac, price, ts, cost) ==
    /\ CanSell(book, mint, price, ts, cost)
    /\ 0 < frac[1]
    /\ book.closedCount < MaxTrades
    /\ book' = reducePosition(book, mint, frac[1], frac[2], price, ts, cost)
    /\ atCost' = atCost - CostOf(PartSlice(book.positions[mint], frac[1], frac[2]))
    /\ UNCHANGED <<kept, keptCost>>

Mark(marks) ==
    /\ CanMark(book, marks)
    /\ book' = markPositions(book, marks)
    /\ UNCHANGED <<kept, atCost, keptCost>>

\* Hold on to the present book.
Keep == /\ kept' = book
        /\ keptCost' = atCost
        /\ UNCHANGED <<book, atCost>>

\* Drop the present book and go back to the one held on to.
Revert == /\ book' = kept
          /\ atCost' = keptCost
          /\ UNCHANGED <<kept, keptCost>>

Sell(mint, price, ts, cost) ==
    \/ Close(mint, price, ts, cost)
    \/ \E frac \in Fractions : Reduce(mint, frac, price, ts, cost)

Next ==
    \/ Keep
    \/ Revert
    \/ \E held \in SUBSET Held(book) : \E marks \in [held -> Prices] : Mark(marks)
    \/ \E mint \in Mints, size \in Sizes, price \in Prices,
          ts \in Times, cost \in Costs :
            Open(mint, size, price, ts, cost)
    \/ \E mint \in Mints, price \in Prices, ts \in Times, cost \in Costs :
            Sell(mint, price, ts, cost)

Spec == Init /\ [][Next]_vars

-----------------------------------------------------------------------------
Trades(b) == b.closedTrades

SumTrades(b, Field(_)) ==
    FoldFunction(+, 0, [i \in DOMAIN Trades(b) |-> Field(Trades(b)[i])])

SumOpen(b, Field(_)) ==
    FoldFunction(+, 0, [m \in Held(b) |-> Field(b.positions[m])])

\* Both books have their fields, and the money at cost is a whole amount.
TypeOK == /\ BookOK(book) /\ BookOK(kept)
          /\ atCost \in Int /\ keptCost \in Int

WithinLimits(b) ==
    /\ Cardinality(Held(b)) <= MaxPositions
    /\ b.grossSpentUsd <= SpendCap

\* The rules portfolio.js:4-8 announces: never more than maxConcurrentPositions
\* open at once, never more than absoluteSpendCapUsd deployed in total, however
\* positions are opened, scaled out, closed and reopened in between.
RiskLimits == WithinLimits(book)

\* No money is made or lost by the bookkeeping: free cash is the mandate plus
\* everything realised, less what the open positions cost (size and entry leg).
\* It is what lets the journal's reader check a book (buildBookRecord's
\* equityUsd), and scale-outs of scale-outs must keep it.
CashIdentity == book.cashUsd = BookSize + book.realisedPnlUsd - atCost

\* Every cost the book ever paid is either on a closed trade or the entry leg of
\* a position that is still open.
CostsChargedOnce ==
    book.costsPaidUsd =
        SumTrades(book, LAMBDA t : t.entryCostUsd + t.exitCostUsd)
          + SumOpen(book, LAMBDA p : p.entryCostUsd)

\* The cost of every slice ever sold plus the cost of what is open.
SpendIsCumulative ==
    book.grossSpentUsd =
        SumTrades(book, LAMBDA t : t.sizeUsd + t.entryCostUsd)
          + SumOpen(book, CostOf)

\* The sum of the trade list, which the per-day buckets partition.
RealisedIsTheTrades ==
    /\ book.realisedPnlUsd = SumTrades(book, LAMBDA t : t.netPnlUsd)
    /\ book.realisedPnlUsd = FoldFunction(+, 0, book.daily)

CountersOf(b) ==
    /\ b.closedCount = Len(Trades(b))
    /\ b.wins + b.losses <= b.closedCount
    /\ Cardinality(Held(b)) <= b.openedCount
    /\ b.openedCount - Cardinality(Held(b)) <= b.closedCount

\* Trades, wins, losses and openings agree: a trade is at most one of a win
\* and a loss, and every position opened was closed once or is still open
\* (partial sales are trades but not closes).
CountsAgree == CountersOf(book)

\* The running totals of a book are what its positions and trades add up to,
\* after any sequence of openings, scale-outs of scale-outs and sales: "both legs
\* are charged exactly once" (closePosition's comment), closing a position frees
\* no room under absoluteSpendCapUsd, and realised P&L, with the buckets of the
\* daily-loss switch, and the counters are what the dashboard recomputes from the
\* trades.
BookTotals ==
    /\ atCost = SumOpen(book, CostOf)
    /\ CostsChargedOnce /\ SpendIsCumulative /\ RealisedIsTheTrades /\ CountsAgree

LosingTail(b) ==
    LET n == Len(Trades(b))
        loss(i) == Trades(b)[i].netPnlUsd < 0
    IN /\ b.consecutiveLosses <= n
       /\ \A i \in (n - b.consecutiveLosses + 1)..n : loss(i)
       /\ b.consecutiveLosses < n => ~ loss(n - b.consecutiveLosses)

\* The streak the kill switch reads is the losing tail of the trade list: a
\* partial sale counts as a trade, and exactly zero resets it.
StreakIsTheLosingTail == LosingTail(book)
=============================================================================
