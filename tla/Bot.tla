--------------------------------- MODULE Bot ---------------------------------
(***************************************************************************)
(* scripts/bot.js with src/paper/journal.js: the trading loop around the   *)
(* engine, what it writes to disk, and what a restart finds there.         *)
(*                                                                         *)
(* A cycle runs one tick of the engine and then publishes the book: one    *)
(* `book' line, and one `trade' line per trade the tick closed, in one     *)
(* append.  A failed append is logged and forgotten; the process can die   *)
(* at any point, also half-way through the append; a restart rebuilds the  *)
(* portfolio from the newest book line and all trade lines, and publishes  *)
(* it.  With the recorder stale the cycle returns before the engine.       *)
(*                                                                         *)
(* Lines are appended in time order and time does not go back, so the file *)
(* is kept as its newest book line and its trade lines in order.           *)
(***************************************************************************)
EXTENDS Engine

CONSTANTS
    MaxCrashes, \* bound: how often the process dies
    Unreadable  \* whether a restart may find the day's file unreadable

ASSUME BotAssumption == MaxCrashes \in Nat /\ Unreadable \in BOOLEAN

VARIABLES
    stage,   \* where the loop is: "cycle", "tick", "publish", "down"
    before,  \* the portfolio the tick started from, which publishBook compares
    line,    \* the newest book line on disk, or NoLine
    trades,  \* the trade lines on disk
    crashes  \* how often the process died so far

disk == <<line, trades>>
botVars == <<engineVars, stage, before, line, trades, crashes>>

-----------------------------------------------------------------------------
(* journal.js: the lines. *)

\* No book line was ever written: the line that has no fields.
NoLine == << >>

\* A position as the book line has it: no scaleOutCount.
PositionRecord(pos) ==
    [sizeUsd |-> pos.sizeUsd, entryPriceUsd |-> pos.entryPriceUsd,
     qty |-> pos.qty, openedTs |-> pos.openedTs,
     entryCostUsd |-> pos.entryCostUsd, lastPriceUsd |-> pos.lastPriceUsd,
     unrealisedPnlUsd |-> pos.unrealisedPnlUsd]

\* buildBookRecord: neither the trades nor the day's realised P&L are in it.
buildBookRecord(b) ==
    [cashUsd |-> b.cashUsd,
     positions |-> [m \in Held(b) |-> PositionRecord(b.positions[m])],
     realisedPnlUsd |-> b.realisedPnlUsd,
     unrealisedPnlUsd |-> b.unrealisedPnlUsd,
     costsPaidUsd |-> b.costsPaidUsd, grossSpentUsd |-> b.grossSpentUsd,
     consecutiveLosses |-> b.consecutiveLosses,
     wins |-> b.wins, losses |-> b.losses,
     openedCount |-> b.openedCount, closedCount |-> b.closedCount]

(* readJournal: the newest book line, with the fields that look unset (zero, *)
(* or cash equal to the mandate) filled in from the trade lines.            *)
TradePnl(ts) == FoldFunction(+, 0, [i \in DOMAIN ts |-> ts[i].netPnlUsd])
WinCount(ts) == Cardinality({i \in DOMAIN ts : ts[i].netPnlUsd > 0})
LossCount(ts) == Cardinality({i \in DOMAIN ts : ts[i].netPnlUsd <= 0})

IfUnset(value, unset, other) == IF value = unset THEN other ELSE value

readJournal(l, ts) ==
    IF l = NoLine \/ ts = << >> THEN l
    ELSE LET realised == IfUnset(l.realisedPnlUsd, 0, TradePnl(ts))
         IN [l EXCEPT
               !.realisedPnlUsd = realised,
               !.cashUsd = IfUnset(@, BookSize, BookSize + realised),
               !.wins = IfUnset(@, 0, WinCount(ts)),
               !.losses = IfUnset(@, 0, LossCount(ts)),
               !.closedCount = MaxOf(@, Len(ts))]

\* A restored position has no scaleOutCount, which decideExit reads as 0.
RestoredPosition(rec) ==
    [f \in DOMAIN rec \cup {"scaleOutCount"} |->
        IF f \in DOMAIN rec THEN rec[f] ELSE 0]

\* The portfolio of a book line: every number the line has, the trades of the
\* trade lines, and a realised P&L of the day that starts empty.
FromLine(l, ts) ==
    [cashUsd |-> l.cashUsd,
     positions |-> [m \in DOMAIN l.positions |-> RestoredPosition(l.positions[m])],
     closedTrades |-> ts,
     realisedPnlUsd |-> l.realisedPnlUsd,
     unrealisedPnlUsd |-> l.unrealisedPnlUsd,
     costsPaidUsd |-> l.costsPaidUsd, grossSpentUsd |-> l.grossSpentUsd,
     consecutiveLosses |-> l.consecutiveLosses,
     wins |-> l.wins, losses |-> l.losses,
     openedCount |-> l.openedCount, closedCount |-> l.closedCount,
     daily |-> << >>]

\* Mutant of restorePortfolio: the book line's losing streak is not read back.
restoreForgetsStreak(l, ts) ==
    IF l = NoLine THEN emptyPortfolio
    ELSE [FromLine(l, ts) EXCEPT !.consecutiveLosses = 0]

\* Mutant of restorePortfolio: the money deployed counts from zero again.
restoreForgetsSpend(l, ts) ==
    IF l = NoLine THEN emptyPortfolio
    ELSE [FromLine(l, ts) EXCEPT !.grossSpentUsd = 0]

\* restorePortfolio.  (A book line always precedes the first trade line, so
\* there are no trades without a book.)
restorePortfolio(l, ts) ==
    IF l = NoLine THEN emptyPortfolio ELSE FromLine(l, ts)

-----------------------------------------------------------------------------
(* bot.js: the cycle. *)

BotInit ==
    /\ Init
    /\ stage = "cycle"
    /\ before = emptyPortfolio
    /\ line \in {NoLine, buildBookRecord(emptyPortfolio)}
    /\ trades = << >>
    /\ crashes = 0

\* The recorder has not written for too long and the cycle returns at once, or
\* a step before the engine throws and the loop reports the cycle as failed.
StaleCycle ==
    /\ stage = "cycle" /\ now < MaxTime
    /\ now' = now + 1
    /\ UNCHANGED <<committed, pc, local, stage, before, disk, crashes>>

StartTick ==
    /\ stage = "cycle"
    /\ Tick
    /\ stage' = "tick"
    /\ before' = book
    /\ UNCHANGED <<disk, crashes>>

InsideTick ==
    /\ stage = "tick"
    /\ Exit \/ SwitchClear \/ \E m \in Mints, legs \in LegCosts : Enter(m, legs)
    /\ UNCHANGED <<stage, before, disk, crashes>>

\* The trades a portfolio has and an earlier one did not.
newlyClosed(old, new) ==
    LET n == new.closedCount - old.closedCount
    IN SubSeq(new.closedTrades, Len(new.closedTrades) - n + 1, Len(new.closedTrades))

FinishTick ==
    /\ stage = "tick"
    /\ KillSwitch \/ EndTick
    /\ stage' = "publish"
    /\ UNCHANGED <<before, disk, crashes>>

\* stepEngine threw: the loop reports "cycle failed" and goes on.
FailedCycle ==
    /\ stage = "tick"
    /\ ThrowInTick
    /\ stage' = "cycle"
    /\ UNCHANGED <<before, disk, crashes>>

\* publishBook's test of whether there is anything to write.
Changed(old, new) ==
    \/ old.openedCount # new.openedCount
    \/ old.closedCount # new.closedCount
    \/ old.realisedPnlUsd # new.realisedPnlUsd
    \/ old.cashUsd # new.cashUsd
    \/ old.unrealisedPnlUsd # new.unrealisedPnlUsd

\* Mutant of Append_: the trade lines are written before the book line.
TradesBeforeBook(old, new, k) ==
    LET sold == newlyClosed(old, new)
    IN /\ line' = IF k > Len(sold) THEN buildBookRecord(new) ELSE line
       /\ trades' = trades \o SubSeq(sold, 1, IF k > Len(sold) THEN Len(sold) ELSE k)

\* What an append leaves on disk: the first k of its lines, the book line first.
\* k is the number of lines when it succeeds.
Append_(old, new, k) ==
    /\ line' = IF k >= 1 THEN buildBookRecord(new) ELSE line
    /\ trades' = IF k >= 2 THEN trades \o SubSeq(newlyClosed(old, new), 1, k - 1)
                 ELSE trades

LineCount(old, new) == 1 + Len(newlyClosed(old, new))

\* The append works, or fails before it writes: both are the end of the cycle.
PublishBook ==
    /\ stage = "publish"
    /\ \E k \in {0, LineCount(before, book)} :
         Append_(before, book, IF Changed(before, book) THEN k ELSE 0)
    /\ stage' = "cycle"
    /\ UNCHANGED <<engineVars, before, crashes>>

\* The process dies: what is in memory is gone.
Die ==
    /\ crashes < MaxCrashes
    /\ crashes' = crashes + 1
    /\ stage' = "down"
    /\ book' = emptyPortfolio /\ peaks' = << >> /\ actions' = << >>
    /\ pc' = "idle"
    /\ draft' = emptyPortfolio /\ high' = << >> /\ log' = << >>
    /\ price' = << >> /\ todo' = {}
    /\ before' = emptyPortfolio
    /\ UNCHANGED <<now>>

\* Between two cycles.  Dying inside a tick leaves the same memory and disk as
\* dying before it and losing the time it took.
Crash == /\ stage = "cycle"
         /\ Die
         /\ UNCHANGED disk

CrashWhilePublishing ==
    /\ stage = "publish"
    /\ Die
    /\ \E k \in 0..LineCount(before, book) :
         Append_(before, book, IF Changed(before, book) THEN k ELSE 0)

\* loadJournal skips a file it cannot read.
loadJournal == {disk} \cup (IF Unreadable THEN {<<NoLine, << >> >>} ELSE {})

\* main() again: load, restore, and publish the opening book, which may fail.
Restart ==
    /\ stage = "down"
    /\ \E found \in loadJournal :
         LET restored == restorePortfolio(readJournal(found[1], found[2]), found[2])
         IN /\ book' = restored /\ draft' = restored /\ before' = restored
            /\ line' \in {line, buildBookRecord(restored)}
    /\ stage' = "cycle"
    /\ UNCHANGED <<peaks, actions, now, pc, high, log, price, todo, trades,
                   crashes>>

BotNext ==
    \/ StaleCycle \/ StartTick \/ InsideTick \/ FinishTick \/ FailedCycle
    \/ PublishBook \/ Crash \/ CrashWhilePublishing \/ Restart

BotSpec == BotInit /\ [][BotNext]_botVars

-----------------------------------------------------------------------------
PnlOn(day) == TradePnl(SelectSeq(trades, LAMBDA t : dayKey(t.closedTs) = day))

\* "never more than RISK.absoluteSpendCapUsd deployed in total, ever"
\* (portfolio.js:6) across restarts: the spend on disk only grows and stays
\* under the cap, whatever is lost of the lines around it.
SpendNeverForgotten ==
    [][line # NoLine =>
         /\ line' # NoLine
         /\ line'.grossSpentUsd \in line.grossSpentUsd..SpendCap]_line

\* However often the process dies, also half-way through an append, no sale is
\* on disk twice and the book line counts every trade line there is: a torn
\* append may lose a trade line but never repeat or invent one.
NoTradeLineTwice ==
    /\ \A i, j \in DOMAIN trades :
         i # j => \/ trades[i].mint # trades[j].mint
                  \/ trades[i].closedTs # trades[j].closedTs
    /\ trades # << >> => line # NoLine /\ line.closedCount >= Len(trades)

\* The losing streak of the kill switch survives a restart: while no trade line
\* has been lost, the count in memory is the losing tail of the lines on disk.
StreakSurvivesRestart ==
    stage = "cycle" /\ Len(trades) = book.closedCount =>
        LET n == Len(trades)
            k == book.consecutiveLosses
        IN /\ \A i \in (n - k + 1)..n : trades[i].netPnlUsd < 0
           /\ k < n => trades[n - k].netPnlUsd >= 0

\* The kill switch "trips on ... the day (UTC) is down by RISK.maxDailyLossPct"
\* (portfolio.js:563-564), and a restart is to preserve "all profits, wins and
\* positions" (portfolio.js:176): however often the process restarts, no position
\* is opened on a day whose trade lines, none of them lost, already lose the limit.
DailyLossSurvivesRestart ==
    [][Held(book') \ Held(book) # {} /\ stage = "tick" /\ Len(trades) = book.closedCount =>
          Hundred * PnlOn(dayKey(now)) > -(MaxDailyLossPct * BookSize)]_book
=============================================================================
