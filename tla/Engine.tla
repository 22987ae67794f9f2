-------------------------------- MODULE Engine --------------------------------
(***************************************************************************)
(* src/paper/engine.js: the reducer stepEngine and the rules it applies.   *)
(*                                                                         *)
(* One tick marks the held positions, raises their high-water marks, asks  *)
(* decideExit about each, evaluates the kill switch and then looks for     *)
(* entries.  The function is pure: it works on a local `portfolio' and     *)
(* returns it at the end, so a call of portfolio.js that throws half-way   *)
(* abandons the whole tick and the caller keeps the state it had.  The     *)
(* model therefore has the committed state (book, peaks, actions), the     *)
(* local state of the tick in progress, and one action per call the        *)
(* reducer makes.  The order in which it visits positions (insertion       *)
(* order) and pairs (the caller's order) is left open.                     *)
(***************************************************************************)
EXTENDS Ledger, SequencesExt

CONSTANTS
    PositionSize,     \* RISK.positionSizeUsd, the tick's sizeUsd
    Prices,           \* prices a pair may show
    LegCosts,         \* splitLegCosts results, as <<entryUsd, exitUsd>>
    StopLossPct,      \* STRATEGY.exit.stopLossPct
    TrailingArmsAtPct,\* STRATEGY.exit.trailingArmsAtPct
    TimeStop,         \* STRATEGY.exit.timeStopMinutes, in clock ticks
    MaxTime           \* bound: the clock stops here

ASSUME EngineAssumption ==
    /\ PositionSize \in Nat \ {0}
    /\ Prices \subseteq Nat \ {0}
    /\ LegCosts \subseteq Nat \X Nat
    /\ StopLossPct \in Nat \ {0} /\ TrailingArmsAtPct \in Nat \ {0}
    /\ TimeStop \in Nat \ {0} /\ MaxTime \in Nat

VARIABLES
    book,    \* state.portfolio, the committed one
    peaks,   \* state.peaks: high-water mark of each held mint
    actions, \* state.actions of the last tick: opens, reductions, closes, kills
    now,     \* the clock, and tick.ts while a tick runs
    pc,      \* where the reducer is: "idle", "exits", "entries"
    draft,   \* its local portfolio
    high,    \* its local peaks
    log,     \* its local actions
    price,   \* priceOf: mint -> this tick's price, for the mints that have one
    todo     \* positions whose exit has not been decided yet

committed == <<book, peaks, actions>>
local == <<draft, high, log, price, todo>>
engineVars == <<book, peaks, actions, now, pc, draft, high, log, price, todo>>

-----------------------------------------------------------------------------
(* Constants of decideExit that the source writes in place. *)
LadderOnePct == 25
LadderTwoPct == 50
LadderOne == <<1, 3>>     \* 0.333 of the position
LadderTwo == <<1, 2>>     \* 0.5 of what is left
FloorPct == 8             \* BREAKEVEN_FLOOR_PCT
TrailPct(pos) == IF pos.scaleOutCount >= 2 THEN 15 ELSE 10
Whole == <<1, 1>>

\* pnlPct(entry, x) >= p and <= p, without the division.
GainAtLeast(pos, x, p) == Hundred * (x - pos.entryPriceUsd) >= p * pos.entryPriceUsd
GainAtMost(pos, x, p) == Hundred * (x - pos.entryPriceUsd) <= p * pos.entryPriceUsd

Armed(pos, peak) == GainAtLeast(pos, peak, TrailingArmsAtPct)
OffPeak(pos, peak, x) == Hundred * (peak - x) >= TrailPct(pos) * peak

\* The conditions of decideExit.
StopHit(pos, x) == GainAtMost(pos, x, -StopLossPct)
RungDue(pos, x, sold, pct) == pos.scaleOutCount = sold /\ GainAtLeast(pos, x, pct)

\* Mutant of AtFloor: an armed position has a trail but no floor.
NoFloor(pos, x, peak) == FALSE

AtFloor(pos, x, peak) == Armed(pos, peak) /\ GainAtMost(pos, x, FloorPct)
OffTrail(pos, x, peak) == Armed(pos, peak) /\ OffPeak(pos, peak, x)
TimeUp(pos, ts) == ts - pos.openedTs >= TimeStop

\* The rules in the order the code tries them, first match wins, each with the
\* fraction it sells.  The gate recheck is switched off by
\* STRATEGY.exit.exitOnGateRecheckFail, the hard take profit by takeProfitPct =
\* Infinity, and the smart trail never applies: stepEngine passes no pair, so
\* the buy/sell ratio it would look at is 0.
Rule(cond, fraction) == [when |-> cond, fraction |-> fraction]

ExitRules(pos, x, peak, ts) ==
    << Rule(StopHit(pos, x), Whole),
       Rule(RungDue(pos, x, 0, LadderOnePct), LadderOne),
       Rule(RungDue(pos, x, 1, LadderTwoPct), LadderTwo),
       Rule(AtFloor(pos, x, peak), Whole),
       Rule(OffTrail(pos, x, peak), Whole),
       Rule(TimeUp(pos, ts), Whole) >>

NoExit == Rule(FALSE, Whole)

\* The verdict on a position whose price is known to be x.
decideExit(pos, x, peak, ts) ==
    LET rules == ExitRules(pos, x, peak, ts)
        fired == {i \in DOMAIN rules : rules[i].when}
    IN IF fired = {} THEN NoExit
       ELSE rules[CHOOSE i \in fired : \A j \in fired : i <= j]

\* What is charged to sell a fraction of a position: the exit leg of a cost
\* breakdown made this cycle, or, without one, the entry leg it was bought at.
ExitCosts(pos) == {pos.entryCostUsd} \cup {legs[2] : legs \in LegCosts}

\* The charges that follow from that: the legs, the ladder's shares of them and
\* of what the ladder leaves of an entry leg.
Share(c, f) == (c * f[1]) \div f[2]
Charges ==
    LET entry == {legs[1] : legs \in LegCosts}
        afterOne == {c - Share(c, LadderOne) : c \in entry}
        afterTwo == {c - Share(c, LadderTwo) : c \in afterOne}
        full == entry \cup afterOne \cup afterTwo \cup {legs[2] : legs \in LegCosts}
    IN {Share(c, f) : c \in full, f \in {Whole, LadderOne, LadderTwo}}

Action(kind, mint) == [kind |-> kind, mint |-> mint]

\* Mutant of ClosedThisTick: the set is never filled.
NothingClosedThisTick == {}

\* closedThisTick: the mints closed by the tick in progress.
ClosedThisTick == {log[i].mint : i \in {j \in DOMAIN log : log[j].kind = "close"}}

-----------------------------------------------------------------------------
Init ==
    /\ book = emptyPortfolio /\ peaks = << >> /\ actions = << >>
    /\ now = 0 /\ pc = "idle"
    /\ draft = emptyPortfolio /\ high = << >> /\ log = << >>
    /\ price = << >> /\ todo = {}

\* The marks of a tick are the prices of the held mints, and a mint's mark
\* raises its peak (an unpriced one counts at its last mark).
MarksOf(b, prices) == [m \in Held(b) \cap DOMAIN prices |-> prices[m]]

MaxOf(x, y) == IF x >= y THEN x ELSE y

Raised(b, old) ==
    [m \in DOMAIN old \cup Held(b) |->
        IF m \in Held(b)
        THEN MaxOf(IF m \in DOMAIN old THEN old[m] ELSE b.positions[m].entryPriceUsd,
                   b.positions[m].lastPriceUsd)
        ELSE old[m]]

\* Mutant of ForgetPeak: the mark outlives the position.
RememberPeak(h, m) == h

\* delete peaks[mint]
ForgetPeak(h, m) == Drop(h, m)

\* stepEngine is called at time ts with some prices: mark, then raise peaks.
\* With no mark to apply markPositions is not called; it does not throw on a
\* committed book (CommittedBookUsable).
BeginTick(ts, prices) ==
    LET marks == MarksOf(book, prices)
        marked == IF marks = << >> THEN book ELSE markPositions(book, marks)
    IN /\ pc = "idle"
       /\ marks # << >> => CanMark(book, marks)
       /\ pc' = "exits"
       /\ now' = ts
       /\ price' = prices
       /\ draft' = marked
       /\ high' = Raised(marked, peaks)
       /\ log' = << >>
       /\ todo' = Held(book)
       /\ UNCHANGED committed

\* decideExit says no, or the position has no price this tick.
Hold(m) ==
    /\ pc = "exits" /\ m \in todo
    /\ m \in DOMAIN price =>
         ~ decideExit(draft.positions[m], price[m], high[m], now).when
    /\ todo' = todo \ {m}
    /\ UNCHANGED <<committed, now, pc, draft, high, log, price>>

\* decideExit says sell all of it.
CloseOut(m, cost) ==
    LET verdict == decideExit(draft.positions[m], price[m], high[m], now)
    IN /\ pc = "exits" /\ m \in todo /\ m \in DOMAIN price
       /\ verdict.when /\ verdict.fraction = Whole
       /\ CanSell(draft, m, price[m], now, cost)
       /\ draft' = closePosition(draft, m, price[m], now, cost)
       /\ high' = ForgetPeak(high, m)
       /\ log' = Append(log, Action("close", m))
       /\ todo' = todo \ {m}
       /\ UNCHANGED <<committed, now, pc, price>>

\* decideExit says sell a rung of the profit ladder.
ScaleOut(m, cost) ==
    LET verdict == decideExit(draft.positions[m], price[m], high[m], now)
        num == verdict.fraction[1]
        den == verdict.fraction[2]
        share == Share(cost, verdict.fraction)
    IN /\ pc = "exits" /\ m \in todo /\ m \in DOMAIN price
       /\ verdict.when /\ verdict.fraction # Whole
       /\ CanSell(draft, m, price[m], now, share)
       /\ draft' = reducePosition(draft, m, num, den, price[m], now, share)
       /\ log' = Append(log, Action("reduce", m))
       /\ todo' = todo \ {m}
       /\ UNCHANGED <<committed, now, pc, high, price>>

Commit(moreLog) ==
    /\ book' = draft /\ peaks' = high /\ actions' = log \o moreLog
    /\ pc' = "idle"
    /\ draft' = draft /\ high' = << >> /\ log' = << >> /\ price' = << >> /\ todo' = {}
    /\ UNCHANGED now

\* The kill switch is tripped: the tick ends here, with what it has sold.
KillSwitch ==
    /\ pc = "exits" /\ todo = {}
    /\ Usable(draft)
    /\ shouldKillSwitch(draft, now)
    /\ Commit(<<[kind |-> "kill-switch"]>>)

\* Mutant of SwitchClear: the entries do not wait for the exits.
SwitchClearEarly ==
    /\ pc = "exits"
    /\ Usable(draft)
    /\ ~ shouldKillSwitch(draft, now)
    /\ pc' = "entries"
    /\ UNCHANGED <<committed, now, local>>

\* Mutant of SwitchClear: a tripped switch is reported and then ignored.
SwitchIgnored ==
    /\ pc = "exits" /\ todo = {}
    /\ Usable(draft)
    /\ pc' = "entries"
    /\ UNCHANGED <<committed, now, local>>

\* It is not: go on to the entries.
SwitchClear ==
    /\ pc = "exits" /\ todo = {}
    /\ Usable(draft)
    /\ ~ shouldKillSwitch(draft, now)
    /\ pc' = "entries"
    /\ UNCHANGED <<committed, now, local>>

\* Mutant of EntryCharge: the whole round trip is charged at the entry.
RoundTripCharge(legs) == legs[1] + legs[2]

\* legs.entryUsd
EntryCharge(legs) == legs[1]

\* A pair passes every check of decideEntry and the book takes the position.
\* Whether the gate calls it buyable, it is in the universe, its momentum, its
\* score and its costs qualify is the caller's data: the enabled step is the
\* case in which they do.  A refusal of either kind changes nothing.
Enter(m, legs) ==
    /\ pc = "entries"
    /\ m \notin Held(draft)
    /\ m \notin ClosedThisTick
    /\ m \in DOMAIN price
    /\ CanOpen(draft, m, PositionSize, price[m], EntryCharge(legs), TRUE)
    /\ draft' = openPosition(draft, m, PositionSize, price[m], now, EntryCharge(legs))
    /\ high' = Put(high, m, price[m])
    /\ log' = Append(log, Action("open", m))
    /\ UNCHANGED <<committed, now, pc, price, todo>>

EndTick == pc = "entries" /\ Commit(<< >>)

\* A call on the local portfolio throws and the error leaves stepEngine: the
\* caller still has the committed state, and every decision of the tick is gone.
CallThrows ==
    \/ pc = "exits" /\ todo = {} /\ ~ Usable(draft)
    \/ \E m \in todo :
         /\ pc = "exits" /\ m \in DOMAIN price
         /\ decideExit(draft.positions[m], price[m], high[m], now).when
         /\ ~ CanSell(draft, m, price[m], now, 0)

ThrowInTick ==
    /\ CallThrows
    /\ pc' = "idle"
    /\ draft' = book /\ high' = << >> /\ log' = << >> /\ price' = << >> /\ todo' = {}
    /\ UNCHANGED <<committed, now>>

SomePrices == UNION {[S -> Prices] : S \in SUBSET Mints}

Tick == \E prices \in SomePrices : now < MaxTime /\ BeginTick(now + 1, prices)

Exit == \E m \in todo :
            \/ Hold(m)
            \/ \E cost \in ExitCosts(draft.positions[m]) :
                 CloseOut(m, cost) \/ ScaleOut(m, cost)

EngineNext ==
    \/ Tick
    \/ Exit
    \/ KillSwitch
    \/ SwitchClear
    \/ \E m \in Mints, legs \in LegCosts : Enter(m, legs)
    \/ EndTick
    \/ ThrowInTick

Next == EngineNext

Spec == Init /\ [][Next]_engineVars

-----------------------------------------------------------------------------
\* The reducer's own invariant: two well-shaped books; undecided positions are
\* held ones, and there are none at the entries, which start from a book that
\* portfolio.js accepts; between ticks nothing is pending.
TypeOK ==
    /\ pc \in {"idle", "exits", "entries"} /\ now \in Nat
    /\ BookOK(book) /\ BookOK(draft)
    /\ todo \subseteq Held(draft)
    /\ pc = "idle" => draft = book /\ todo = {}
    /\ DOMAIN price \subseteq Mints /\ \A m \in DOMAIN price : price[m] \in Prices
    /\ pc = "entries" => todo = {} /\ Usable(draft)

\* Whatever is committed is a book the next call accepts, though the local book
\* of a tick may not be one: the kill switch's own assertion stands between the
\* sales and the commit.  So a tick never fails at its first call.
CommittedBookUsable == book.cashUsd >= 0 /\ book.grossSpentUsd >= 0

\* A price a held position was last marked at is a price the exit rules saw, so
\* the committed book never shows a position at or below its stop, nor one
\* whose trailing stop armed at or below the breakeven floor ("Never let an
\* armed winning trade drop below +8%", engine.js:551): the tick that marks a
\* position there sells it, or throws and commits no mark at all.
StopAndFloorHeld ==
    \A m \in Held(book) :
        LET pos == book.positions[m]
        IN /\ ~ GainAtMost(pos, pos.lastPriceUsd, -StopLossPct)
           /\ Armed(pos, peaks[m]) => ~ GainAtMost(pos, pos.lastPriceUsd, FloorPct)

\* Exactly the open positions have a high-water mark, and it is no lower than
\* the entry or the last mark: a peak that outlives its position would arm the
\* trailing stop of the next one in that mint.
PeaksFollowPositions ==
    /\ DOMAIN peaks = Held(book)
    /\ \A m \in Held(book) :
         peaks[m] >= MaxOf(book.positions[m].entryPriceUsd, book.positions[m].lastPriceUsd)

\* A mint is bought again only in a later tick than the one that sold it (the
\* closedThisTick comment: never buy back the top we just sold), and a position
\* is sold in at most three slices: two rungs of the ladder and the rest.
OneDecisionPerMintPerTick ==
    \A m \in Held(book) :
        LET pos == book.positions[m]
            sales == {i \in DOMAIN book.closedTrades : book.closedTrades[i].mint = m}
            own == {i \in sales : book.closedTrades[i].openedTs = pos.openedTs}
        IN /\ \A i \in sales \ own : book.closedTrades[i].closedTs < pos.openedTs
           /\ \A i, j \in own : i # j => book.closedTrades[i].closedTs
                                          # book.closedTrades[j].closedTs
           /\ Cardinality(own) = pos.scaleOutCount
           /\ pos.scaleOutCount <= 2

\* A tick that commits has decided every exit: asked again, on the book it
\* leaves and the prices it saw, decideExit sells nothing more -- except the
\* position it has just scaled out of, whose next rung waits for the next tick.
ExitsAreComplete ==
    [][\A m \in Held(book') \cap DOMAIN price :
          \/ \E i \in DOMAIN actions' : actions'[i] = Action("reduce", m)
          \/ ~ decideExit(book'.positions[m], price[m], peaks'[m], now).when]_book

\* "It NEVER opens a position when the kill switch is tripped"
\* (docs/specs/2026-08-24-module-contracts.md:319): the limits are read after
\* this tick's marks and sales, so neither the loss that trips them nor the
\* streak can be followed by an entry in the same tick.
KillSwitchStopsEntries ==
    [][Held(book') \ Held(book) # {} => ~ shouldKillSwitch(book', now)]_book

\* The money at cost in the open positions of a book, which Portfolio keeps in
\* its history variables.
MoneyIn(b) ==
    FoldFunction(+, 0, [m \in Held(b) |->
        b.positions[m].sizeUsd + b.positions[m].entryCostUsd])

\* The book as Portfolio sees it: the reducer works on a draft, keeps it at the
\* commit and falls back to the kept one when a call throws.
Ledger_ == INSTANCE Portfolio WITH
    book <- draft, kept <- book,
    atCost <- MoneyIn(draft), keptCost <- MoneyIn(book),
    Sizes <- {PositionSize},
    Costs <- Charges,
    Times <- 0..MaxTime,
    Fractions <- {LadderOne, LadderTwo},
    MaxTrades <- 3 * MaxTime * Cardinality(Mints)

\* One use of the book: Portfolio's own action, with this tick's arguments in
\* place of its quantifiers.
LedgerCall ==
    \/ Ledger_!Keep
    \/ Ledger_!Revert
    \/ Ledger_!Mark(MarksOf(draft, price'))
    \/ \E mint \in DOMAIN price, cost \in Charges :
          \/ Ledger_!Open(mint, PositionSize, price[mint], now, cost)
          \/ Ledger_!Sell(mint, price[mint], now, cost)

\* The engine changes its book through portfolio.js alone, and always at this
\* tick's clock and this tick's price of the mint: every step of the reducer is
\* one call of it, the commit keeps the book, and a throw falls back to the one
\* that was kept.  A LedgerCall is a step of Portfolio (EngineProofs), so this
\* is Portfolio's Spec under the mapping, and more.
ImplementsPortfolio == Ledger_!Init /\ [][LedgerCall]_(Ledger_!vars)

\* "One pathological token must not abort a tick and take every other
\* position's exit evaluation down with it" (engine.js:323-324): no call the
\* reducer makes on its own book throws.
NoTickIsAborted == ~ CallThrows
=============================================================================
