# SOLSCALP in TLA+

A verification development for SOLSCALP, the Solana scalping bot of this
repository: models of the paper book, the strategy engine and its entry rules, the
trading loop with its journal, the safety gate and its six layers, the readers those
layers ask, the rate-limited RPC client, the recorded dataset with its labels, the
hand-over from recorder to bot, the radar, and the notifier with its live buys; TLC
runs that check them on small instances; and TLAPS proofs of the properties that
matter most, for every value of the constants.

Paths are relative to the repository (`src/paper/engine.js`, `scripts/bot.js`).
`PROJECT.json` maps every definition to the lines it stands for, and lists the
runs, the mutants that show each property can fail, the findings and the hazards.

    tlc -workers 2 -config MCEngine.cfg MCEngine      # one run
    tlapm EngineProofs.tla                            # one proof module

## 1. Inventory

### The system

| Component | State it keeps | Operations | Talks to |
|---|---|---|---|
| Paper portfolio (`src/paper/portfolio.js`) | none: books are immutable values | open, close, reduce, mark, kill-switch test, restore | called by the engine, the bot, the baseline |
| Strategy engine (`src/paper/engine.js`) | none: `{portfolio, peaks, actions}` in, the next one out | `stepEngine`, `decideEntry`, `decideExit` | portfolio |
| Journal (`src/paper/journal.js`) | append-only JSONL, one file per UTC day | build lines, append, read back | disk; read by the dashboard and by a restart |
| Trading loop (`scripts/bot.js`) | engine state, timers, alert flags | cycle, publish, announce, command loop, restart | recorder's file, gate, data clients, journal, notifier, executor |
| Safety gate (`src/safety/index.js`, `gate-*.js`, `verdict.js`) | per run: verdicts, memo cells, budget | `runGate`, `recheckGate` | six layers, which call the RPC and data clients |
| Safety layers 0-5 (`src/safety/layer*.js`, `token2022*.js`, `holder*.js`) | none | one verdict each | gate context |
| Cost model (`src/paper/costModel.js`) | none | round-trip costs | `ammMath.js` (not in the repository) |
| RPC client, rate limiter, cache (`src/rpc/connection.js`, `src/data/rateLimiter.js`, `responseCache.js`) | window of granted slots, FIFO queue, connections, cache entries | schedule, call with retry and fallback, get/set | network |
| Data clients (`src/data/*.js`), chain readers (`src/rpc/*.js`) | a limiter and a cache each | fetch and validate | network |
| Evidence (`scripts/record.js`, `label.js`, `src/evidence/*`) | append-only dataset, `radar.txt` | record a tick, label outcomes, read the newest snapshot | gate, engine rules, data clients, disk |
| Notifier (`src/notify/*`) | cooldowns, counters, the 409 latch | send, poll | Telegram |
| Live trading (`src/trade/*`) | mode file | quote, swap, confirm | Jupiter, Jito, RPC |
| Survival classifier (`src/ml/*`) | weights file | score, train one | evidence |
| Dashboard and scripts (`scripts/*`) | view state | render, supervise | all files |

### What is hard, and what makes each component correct

* **Portfolio.** Sequential, but its totals are cached and its sales are partial:
  cash, costs, spend, realised P&L, per-day buckets, the losing streak and the
  counters must all stay what the positions and the trade list say, through any
  order of calls. The risk limits rest on them.
* **Engine.** A long reducer over an immutable book. Hard: the order inside a tick
  (marks, peaks, exits, kill switch, entries), prices that jump past several rules
  at once, an error half-way, state that outlives a position. Correct: exits are
  complete when a tick commits, no position sits at or below its stop or floor, the
  kill switch is read between sales and entries, peaks belong to open positions.
* **Trading loop and journal.** Crashes at any point, appends that fail or tear, a
  restart from a summary line and a list of trades. Correct: nothing a limit reads
  is forgotten, nothing is recorded twice.
* **Safety gate.** Timers, aborts, layers that go on after losing their race,
  questions shared between layers, a network that may never answer. Correct: a
  buyable result is earned by every layer, every layer is accounted for, and there
  is always an answer within the budget.
* **Rate limiter and RPC client.** A sliding window at its limit, a pump that sleeps
  between two looks at the clock, calls that fail together and retry together, a
  connection that many await. Correct: the quota holds whatever retries, each attempt
  pays once, a failure is not remembered, whoever waits for a slot gets one.
* **Evidence.** Two processes that read the dataset, ask the network and then append;
  crashes inside an append; day files. Correct: labels judge the first sight of a mint,
  keep their distance and stop at a rug; the bot reads the newest snapshot.
* **Safety layers.** Answers that are good, bad, unreadable, out of range or absent, in
  every combination; a second response that hides the first; evidence that is optional.
  Correct: a buyable result rests on facts that were measured, and losing an answer
  never turns a refusal into a pass.
* **Chain history.** A walk that pages backwards through a list that grows at one end
  and is pruned at the other, each page perhaps from another node; caps, failures and
  aborts at every point. Correct: the creator is the oldest transaction kept, and the
  mint count is a floor, or null.
* **Hand-over.** A snapshot is as old as the start of its tick; a pair is taken apart,
  written, rebuilt and judged a second time beside pairs fetched just now. Correct: what
  is opened was earned by what the market delivered, recently, and positions are priced
  at the freshest pair.
* **Radar.** A timer that fires while its last poll is still waiting, a queue with
  retries that dies with the process, a file that another process reads and truncates.
  Correct: no mint is announced twice, the queue drains, what is lost is known.
* **Notifier and live trading.** Cooldowns tested before an await and marked after it,
  commands beside the cycle, buys that nobody awaits, transactions sent again. Correct:
  one buy per position, alerts of a key spaced, and a cycle that ends.

## 2. The modules

    Ledger ---- Portfolio ---- MCPortfolio          LedgerProofs - PortfolioProofs
       |            ^                                    |
       |            | implements                         |
       +------- Engine ------- MCEngine             EngineProofs
                  |                                      |
                 Bot --------- MCBot                     |  (and of Bot)
    SafetyGate --------------- MCSafetyGate          SafetyGateProofs
        ^
        | implements
    Answers - MintFacts     \
            - Concentration - Layers - MCLayers      LayersProofs
    RateLimiter - RpcClient -- MCRpcClient           UpstreamProofs
    DeployerHistory ---------- MCDeployerHistory         |
    Radar -------------------- MCRadar                   |
    Evidence ----------------- MCEvidence            RecorderProofs
    EntryRules - Handover ---- MCHandover                |
    Outbound ----------------- MCOutbound            OutboundProofs

LayersProofs takes its lemmas about least counterexamples from LedgerProofs.

**Ledger** is `portfolio.js` as operators on a book record: one operator per
exported function (`openPosition`, `closePosition`, `reducePosition`,
`markPositions`, `shouldKillSwitch`, ...), one `Can...` operator for the throws of
each. `Realise` is what a full and a partial sale do alike.

**Portfolio** is the abstract specification of a book: any caller, any order, any
price, cost and time stamp. Since the functions return new books, a caller may keep
one and fall back to it (`Keep`, `Revert`). A history variable `atCost` holds the
money at cost in the open positions.

**Engine** is `stepEngine`: the committed state (`book`, `peaks`, `actions`), the
local state of the tick in progress (`draft`, `high`, `log`, `price`, `todo`) and
one action per call the reducer makes:

| Action | Code |
|---|---|
| `BeginTick` | price map, `markPositions`, raising the peaks |
| `Hold`, `CloseOut`, `ScaleOut` | one round of the exit loop; `decideExit` is its rules in order |
| `KillSwitch`, `SwitchClear` | `shouldKillSwitch` after the exits; tripped, the tick ends |
| `Enter`, `EndTick` | one pair that passes `decideEntry` and `openPosition`; the return |
| `ThrowInTick` | a call on the local book throws outside the `try`: the caller keeps its state |

Which pairs pass `decideEntry` (gate, universe, momentum, score, cost) is data: the
model lets any mint with a price pass, in any order, so it covers every outcome of
those tests (EntryRules has the tests themselves). Exit legs are either priced this cycle or taken from the entry leg, as
in the code. The order of positions and pairs is left open.

**Bot** is the loop of `bot.js` around `Engine` and `journal.js` on disk: `StartTick`
/ `InsideTick` / `FinishTick` / `FailedCycle` are the engine's step, `PublishBook`
the append (which may fail), `StaleCycle` a cycle that ends before the engine,
`Crash` and `CrashWhilePublishing` the end of the process, `Restart` the load,
`readJournal`, `restorePortfolio` and the opening line. The disk is its newest book
line and its trade lines in order; `buildBookRecord` drops exactly the fields the
code drops (`daily`, `scaleOutCount`, the trade list), and `FromLine` is what
`restorePortfolio` makes of the rest. `loadJournal` is what a restart
finds: the disk, or, where `Unreadable` allows it, nothing, since the code skips a file
it cannot read.

**SafetyGate** is one run of `runGate` (or `recheckGate`, the same over another
order): preflight, the loop with its three ways not to run a layer (decided, out of
budget, aborted caller), the race of `withTimeout`, the memo cells of
`gate-context.js`, `combine`. A layer is what it asks (`Needs`, whose failure is an
error of the layer, and `Wants`, which it can do without) and when it may return; a
layer whose race is lost stays at work and may ask and settle later. `Follows` are the
questions that an earlier answer may call for, as layer 4 asks for the history of the
creator it was told.

**Layers** is that run with its six layers inside. Each asks its questions in the order
of `Script`, may leave early, and concludes what its code concludes from the raw answers:
**MintFacts** is layer 0 from the account's bytes (owner, authorities, TLV entries in
storage order, some cut short) to its reasons; **Concentration** is layer 3 (supply and
holders, the exclusion of known pools, the insider graph); sell simulation, liquidity,
deployer and third-party report are in Layers itself, each from the client that reads
the answer (`getQuote` with its second attempt, `groupPairs`, `normaliseTokenReport`) to
the verdict. **Answers** holds what they share. Layers implements SafetyGate
(`ImplementsGate`): a cell is what has been answered, a layer's work what it concluded
(`gateCell`, `gateWork`, ...). A sort is modelled by what is taken from it: `pairs.find` on
a sorted list is the place that none comes before (`FirstOf`, `Sooner`), the top of the
holders are the places with few before them (`Leading`, `Before`); both orders break ties
by place, as the code's stable sort does.

**DeployerHistory** is what layer 4 is told about a wallet: `FetchPage` / `PageThrows` /
`CutWalk` are `walkSignatures`, `ReadCreation` is `fetchCreator`, `StartScan` / `ReadTx` /
`ReadFails` / `FinishScan` are `scanCreatedMints`, `Conclude` is `fetchDeployerHistory`,
and `Abort` may come at any time. `Land` and `Prune` are the world: transactions arrive
and each node forgets its oldest ones in its own time.

**RateLimiter** is one limiter: clock, granted slots, FIFO queue and pump. The pump's
loop is cut where it reads the clock (`LookForSlot`, `GrantSlot`) and where it awaits
(`Wake`); `PumpYields` says when other code may run. `starts` is a history of all
slots ever granted, which the code does not keep.

**RpcClient** adds the calls of one client: `Call`, `Begin` (the slot is granted and
the connection looked up), `Connected` / `ConnectFails`, `Answer`, and for an attempt
that throws `GiveUp`, `BackOff` then `Retry`, `FallBack`, `Exhaust`. Each of its steps is
a step of `RateLimiter` or leaves the limiter's variables alone.

**Evidence** is the dataset on disk, one file per day, with the recorder's loop
(`StartTick`, `Record` or `TickFails`, then a labelling pass when one is due), the pass of
either process (`AskSource`, `Label`, `LabelNothing`, `NothingDue`), `Die`, which may cut
an append short, and `Restart`. `readDataset` and `latestSnapshot` are operators on the
files. `contested` is a history: the mints two overlapping passes had due together.

**EntryRules** is `readSignals`, `universeReasons` and `decideEntry`, with the cost of a
round trip and the price of SOL they depend on. **Handover** asks them twice: the
recorder's tick (`BeginTick`, `Screen`, `RecordTick` / `AbandonTick`) writes what it saw
through `Candidate`; the bot's cycle (`Read` or `LeaveStale`, `Track`, `GateTracked`, `Step`)
rebuilds it with `candidateToPair`, adds the pairs it fetches and the gates it pays for,
and decides again. The newest snapshot at the start may be one written before an upgrade
(`OldLine`).

**Radar** is `radar.js` with its queue and two files (`extractMint`, `StartPoll`,
`PollAnswered` / `PollFails`, `RadarDies`) and the recorder's side of `radar.txt`
(`ReadRadar`, `ClearRadar`, `TickRecorded` / `TickFails`). What stays of a queue or a batch
is what `Pick` takes from it by index. `announced`, `recorded` and `excused` are histories.

**Outbound** is what leaves the bot: `Cycle` says its messages one after the other and
awaits each (`Submit`, `Settle`), `Announce` fires live buys it does not await, `Poll` and
`handleCommand` are the command loop, `Prepare`, `SendRaw`, `Confirm` a buy with its
retries, and `Land` the chain, which may include a transaction after its confirmation was
given up. `CommandThrows` is `/mode` with a malformed key: it rejects a promise nobody awaits
and so ends the process wherever the cycle is, with all it had in flight (`Abandoned`); only
the chain and the clock go on. Here `pc` is `"ended"`. The process pm2 then starts has
marks of its own and the book that `Bot` restores; the claims about alerts and buys are about
one process.

### Abstractions

* Money, prices and quantities are integers and every formula is exact; the code
  uses doubles, so drift of a rounding error is not seen. Model sizes are multiples
  of all prices and fractions used, so that no sale rounds. The first rung sells
  0.333 in the code and 1/3 in the model.
* `publishBook` ignores a change of unrealised P&L of at most half a cent; the model
  has no amount that small.
* Reasons, symbols, pool addresses, candle lines, equity lines for the dashboard,
  gate timings and residual-risk texts are left out: no decision reads them.
* What the window counts is slots. The first request of an endpoint starts after its
  connection has been built, a little later than its slot; the model, as the code, does
  not pay for that delay. A pump stopped by a clock that throws is left out.
* The source's answer for a mint is one of four: no pair, collapsed, alive, or nothing
  conclusive (no depth now, or nothing recorded to compare with). `label.js` runs with
  its default thresholds and writes. A write is never cut exactly before its newline.
* Time does not go back; a UTC day is `TicksPerDay` ticks.
* Layers: thresholds are those of `config.js`, all numbers are integers, ratios are
  compared as products, so nothing is rounded; the caches of the clients are left out (a
  cached answer is an answer); `TopN` holders is 2 instead of 10.
* EntryRules: a ratio is kept as the pair of its terms, the break-even move is multiplied
  out over integers, and what the survival model says is given.
* Outbound: a time is the age of an event, capped where no test tells it from an older
  one, so that the loop can run for ever. Amounts and quotes are left out, a transaction is its
  signature.
* Radar: lines of its two files are appended whole. A torn line of `radar_seen.txt`
  would let a restarted radar announce that mint again.

## 3. The runs

| Run | Configuration | Checks | States |
|---|---|---|---|
| `portfolio` | two mints, room for two positions under the cap, prices for loss and gain, fractions 1/3 and 1/2, two days, two trades | risk limits, cash, totals and counters, the losing streak | 145,513 |
| `engine` | production percentages, prices 20, 21, 23, 30 and a crash to 1, four ticks, 120 of cash left | usable committed book, stop and floor, peaks, one decision per mint and tick, complete exits, kill switch, `Engine` implements `Portfolio` | 469,217 |
| `bot` | one crash, four ticks, losses that trip the limits, an exit leg that makes ticks throw | no trade line twice, streak and spend survive | 1,567,146 |
| `gate` | three layers sharing two questions as layers 2, 3 and 5 do, `failClosed` on and off | earned buyable, accounting, budget, termination | 123,910 |
| `layers` | for each of the eight questions the raw answers that just pass and just fail each limit, unknowns, unreadable ones and the exception | buyable means measured, lost evidence never helps, `Layers` implements `SafetyGate` | 140,317 |
| `deployer` | two nodes, four transactions, pages of two, two pages, two inspections | creator, mint count | 4,030,944 |
| `rpc` | two calls of two attempts, window of two slots, fallback | typing, quota, payment per attempt, failed connections, service of the queue | 242,281 |
| `evidence` | two mints, two days, one run of `label.js`, one crash | first sight, spacing and finality of labels, newest snapshot | 422,438 |
| `handover` | one token and SOL, two hours, one position | entries earned, signals survive the file, fresh prices | 1,190,528 |
| `radar` | three mints, batch of two, two retries, one death | one announcement, known losses, the queue drains | 16,032 |
| `outbound` | one mint, one order, two attempts, one command per poll | one buy per position, spaced alerts, the cycle returns or the process ends | 1,142,830 |
| `bot_daily` | as `bot` | one documented claim, violated (section 5) | |

Six more configurations reproduce other disagreements of section 5; TLC finds the one
property of each violated: `MCEngineAborts`, `MCBotUnreadable`, `MCHandoverGated`,
`MCHandoverStale`, `MCHandoverCost`, `MCOutboundEnds`.

Bounds, and why they suffice. `MaxTrades`, `MaxTime`, `MaxClock`, `MaxCrashes`, `MaxLate`,
`MaxRuns`, `MaxLen`, `MaxOrders`, `MaxMail`, `MaxPolls`, `MaxDeaths` and the constraint
`CrashesOnce` are the only bounds; every other constant is a parameter of the system.

* `portfolio`: two trades allow partial then full sale of one position and the sale
  of two positions, on one day or two; a second loss in a row, a gain after a loss,
  and break-even are among them. The theorems below carry the invariants past any
  bound.
* `engine`: four ticks allow entry, rung, second rung or floor, exit and the re-entry
  after it. The prices make every rule the first to match in some tick (23 arms the
  trail, 21 is then at the floor but above the stop; 30 is a rung).
  Both slots together leave 120 of cash: a position bought at 30 that is then quoted at
  1 brings in less than its exit leg needs, so the local book is overdrawn and the tick
  throws. `CrashesOnce` lets that price be quoted in the third tick only, after ticks
  enough to fill the book and before one that starts from what was kept.
* `bot`: one crash covers every point at which a crash can fall and every prefix of
  an append; the state after a restart is one from which a crash could fall again, and
  differs from a state without a crash only by what the journal lost.
* `gate`: a budget of three ticks and two per layer lets a layer use its own, another
  be cut by the gate's, and a third find nothing left; a timer one tick late makes a
  layer settle after its deadline but before the timer.
* `rpc`: two calls make up to six starts in a window of two, so the limit binds again
  and again; both can await one failing connection, fall back together and meet each
  other's retries. `MaxTime` only stops the clock from running on idly: it still moves
  for every timer that is set, and a timer may be late by that much.
* `evidence`: three hours over two days let a mint be seen, judged, judged again, and a
  late pass write into the file of the day before; a ripe age and a cooldown of one hour
  put both tests at their boundary. The theorems cover longer histories.
* `layers`: the answers of `MCLayers` sit on both sides of every limit; since each layer
  reads at most four of them, and the questions are chosen independently, every
  combination that one layer can tell apart occurs.
* `deployer`: four transactions in pages of two are one more than a page, exactly two
  pages, and fewer after pruning, so each way a walk can end is met at its boundary; its
  transactions are the wallet's, dated or not, or a stranger's, and two inspections let the
  cap bind or not. Nodes are symmetric.
* `handover`: two hours let a snapshot be fresh, at the tolerance and stale, and a tick
  begin before, and end after, another cycle; SOL as the second mint is what prices the
  first one's costs.
* `radar`: three mints in batches of two leave one behind a full batch; two retries and
  one death let a mint be dropped, polled again and forgotten.
* `outbound`: one order with two attempts is sent, lost, late or confirmed, beside one
  command and cooldowns of one and two ticks, the shortest that differ.

Mints are symmetric in `portfolio`, `engine`, `bot` and `evidence`, nodes in `deployer`
(safety only); the runs with a liveness property use no symmetry. `radar` and `outbound`
never stop, and TLC checks them for deadlock. The other configurations switch that off because
their systems do stop: the bounded clock and trade count run out, a gate run or a walk
ends, and a client may wait for nodes that never answer. That nothing else stops them is
what `GateAnswers` and `QueuedCallsStart` say.

Every property has a mutant in `PROJECT.json`: a definition with a plausible bug put
in its place, under which TLC finds that property violated. The mutant operators sit
directly before the definition they mutate.

### Fairness

Fairness is stated of what the runtime gives, and no more.
In the client, the pump goes on when it can (`WF(Pump)`), time passes (`WF(PassTime)`),
a backoff that is over ends (`WF(Retry(c))`) and a failed connection is heard of
(`WF(Handle(c))` of a rejected attempt); nodes need never answer, connections need never
come up, and waiting calls are still served. In the gate, the loop's
synchronous code runs on (`WF(Loop)`), the clock advances while a layer runs
(`WF(PassTime)`), and a timer that is due fires (`WF(TimerFires)`; the code keeps it
referenced). Nothing is assumed of layers or of the network: they may stay silent for
ever, and the gate answers. In Outbound the
cycle's synchronous code runs on (`WF(Cycle)`) and a message in flight is settled
(`WF(Settle(s))`: the limiter serves its queue, and the request has a timeout); it may
fail every time. Once the process has ended neither is enabled, and `CycleReturns` counts that
as an end of the cycle: it says that nothing else can keep one from returning. In Radar the interval timer goes on firing (`WF(StartPoll)`), and the
market answers now and then (`SF(AnyAnswer)`): without that a mint may wait for ever, as in
the code, which counts only answered polls. Engine and Bot have no liveness properties: that a stop
eventually fires needs a recorder that writes and prices that arrive, which the code
does not guarantee (it reports the silence instead).

## 4. What is proved

All theorems are of the specifications as run, with the constants restricted only by
the named assumptions: of `Ledger`, `Portfolio` and `Engine` (finite set of mints,
positive prices, sizes and time stop, natural costs and percentages, fractions below
one), of `Bot` (a number of crashes, a Boolean), of `SafetyGate` (an order without
repetition, positive budgets, what a layer asks is among the questions), of
`RateLimiter`, `RpcClient` and `Evidence` (positive limit, window, number of attempts
and cooldown), of `DeployerHistory` and `Radar` (positive page, batch and number of
retries; a transaction creates finitely many mints), of `EntryRules` and `Handover`
(the SOL mint is among the quotes, a positive size, router fee below 100%; the market
gives a pair an integer time of creation or none), and of `Outbound` (finite set of mints,
natural cooldowns, the global one no longer than a key's, at least one attempt).
`LayersAssumption` says what an answer of the outside world looks like where a layer
computes with it: a number or none, lists that are lists, finite sets, and an account
listed once in the answer of `getTokenLargestAccounts`; what the numbers are is open. The
theorems about `Bot` have one hypothesis more, `~ Unreadable`: a restart can read the day's
file. Without it `SpendNeverForgotten` is false (`MCBotUnreadable`, section 5).

* `LedgerProofs`: what each operation does to each field of a book, and that it takes
  a well-shaped book to a well-shaped book (`OpenBook`, `CloseBook`, `ReduceBook`,
  `MarkBook`); and how `Total`, the sum over a function's domain, changes when one point
  is added, dropped or changed. The prover has no induction over sets, so a sum is handled
  by least counterexample: among the finite sets on which a law fails there is one with
  fewest elements, and it can lose one more. Cited by the next two modules and by
  `LayersProofs`.
* `PortfolioProofs`:
  - `TypeCorrect`: `[]TypeOK`.
  - `LimitsHold`: `[]RiskLimits`. Inductive invariant `LimitsInv`: the limits for both
    books and finite sets of positions; without the kept book, `Revert` would break it.
  - `CashBalances`: `[]CashIdentity`, by `CashInv` (the identity for both books). The
    point is that what a partial sale leaves is what was there minus what was sold, so
    slice and remainder add up even where the slice rounds.
  - `StreakIsRight`: `[]StreakIsTheLosingTail`, for trade lists of any length: a
    losing sale shifts the tail by one, any other starts it anew.
  - `CountersAgree`: `[]CountsAgree`; the inductive part counts positions opened and
    not yet closed, so that a partial sale is a trade but not a close.
  - `TotalsAreRight`: `[]BookTotals`. `TotalsInv` adds to the counters that spend, costs
    and realised P&L of both books are the sums over their positions and trades, and that
    the day buckets add up to the realised P&L.
* `EngineProofs`:
  - `EngineTypeCorrect`: `[]TypeOK`, among it that at the entries every exit has been
    decided and the local book is usable.
  - `CommittedStaysUsable`: `[]CommittedBookUsable`. The local book may be overdrawn;
    the assertion of `shouldKillSwitch` is what keeps it from being committed, and the
    entries preserve it.
  - `PeaksFollow`: `[]PeaksFollowPositions`. `PeaksInv` adds the same of the local
    peaks while a tick runs and that an undecided position is marked at this tick's
    price.
  - `StopAndFloor`: `[]StopAndFloorHeld`. `SafeInv` says that while a tick runs every
    position is either still to be decided at a known price, or safe; `FirstOfSix`
    and `RungAboveFloor` show that a position the rules hold, or only scale out of,
    is above its stop and its floor.
  - `OneDecisionPerTick`: `[]OneDecisionPerMintPerTick`. `DecisionInv`: no trade or opening
    is dated after the clock, and a mint still to be decided, or one the tick may still
    buy, was last sold before this tick's clock.
  - `SwitchStopsEntries`: `KillSwitchStopsEntries`. `SwitchInv`: the unrealised figure of
    a book is the sum over its positions, an exit loop holds nothing new, and at the entries
    the limits are clear; a position bought at the tick's own price has no unrealised gain,
    so they stay clear from one entry to the next.
  - `ExitsAreDecided`: `ExitsAreComplete`. `CompleteInv`: every position with a price is
    still to be decided, was scaled out of, or is one `decideExit` would hold if it were
    asked again; the last holds of a position just bought because the time stop is not 0.
  - `EngineCallsPortfolio` and `EngineImplementsPortfolio`: `ImplementsPortfolio`, and from
    it `Portfolio`'s own `Spec` under the mapping (`LedgerCallIsAStep`). `RefInv` holds what the
    mapping needs beyond types: what a cost leg can be after no rung, one and two, and that
    the trade list cannot outgrow the clock, which is `Portfolio`'s bound. The history
    variables are mapped to sums (`MoneyIn`), followed by the lemmas about `Total`.
  - `NoSaleTwiceOnDisk`, `StreakIsOnDisk` and `SpendIsNeverForgotten`, of `Bot`, by one
    invariant `BotInv`. Its parts: where the loop is (`StageOK`); the trades on disk are dated
    before the tick in progress and so differ from those it adds (`StampsOK`); the lines on
    disk are no more than the trades in memory, and are those trades when the book counts no
    more, and the spend on disk is no more than in memory (`BooksOK`); the newest line was
    made from a book, counts at least the trade lines, and has their losing tail when it
    counts exactly them (`DiskOK`). `RestoredBook` shows that reading such a line back gives a
    book of the same figures.
* `SafetyGateProofs`:
  - `GateTypeCorrect`: `[]TypeOK`. `LoopInv` adds the types of what the loop collects, and that
    layers after the current one have not been started.
  - `WithinBudget`: `[]GateWithinBudget`, by `BudgetInv`: a timer is due within the whole
    budget, and the clock passes it by no more than the timers may be late.
  - `OneAnswer`: `[]OneAnswerPerQuestion`, by `CellInv`: each question is asked at most once,
    and whoever heard an answer heard what is in the cell.
  - `EveryLayerCounted`: `[]EveryLayerAccountedFor`, by `AccountInv`: verdicts and then skipped
    layers are the order up to the current layer, and only the last verdict can have
    decided.
  - `BuyableEarned`: `[]BuyableIsEarned`, by `EarnedInv`: only layers whose verdict is in were
    cut, and a PASS on the list was earned; a layer that has returned asks nothing more
    (`EarnedStays`).
* `LayersProofs`:
  - `LayersHold`: `[]LayersInv`. What a layer has heard is a settled answer to a question of
    its script, history after a creator and insiders after holders (`HeardOK`); a PASS on
    record is what the layer's checks say of such answers, all of which it heard (`Cleared`).
  - `LayersImplementGate`: `ImplementsGate`. The loop of the six layers maps to the gate's
    loop step by step; `ConcludeMaps` is the step with substance: a layer that lost an
    answer it needs ends in ERROR, and one that passes has heard all it wants.
  - `BuyableIsMeasuredAlways`: `[]BuyableMeansMeasured`. All six are on record with an earned
    PASS (`BuyableClears`), and one lemma a layer turns its PASS into the fact about the raw
    answers (`PassedMint` to `PassedReport`). For the pool, the order of the pairs is total,
    so the first fitting one exists and is the deepest. For the holders, the leading `TopN`
    hold at least as much as any `TopN` (`LeadingHasMost`): of two sets of places, those in
    only one of them are compared through the smallest leading amount, and there are at
    least as many on the leading side (`LeadingIsFew`, `LeadingIsLargest`). For a network, the
    members that hold something and the accounts they hold correspond one to one, since no
    account is listed twice (`SumIsTotal`).
  - `LostIsStricterAlways`: `[]LostEvidenceNeverHelps`. A lost answer names no pool
    (`MorePools`), so no fewer accounts count, and the largest, the top sum and the sum of a
    network's members only grow (`SpreadGrows`).
* `UpstreamProofs`:
  - `QuotaHolds`: `LimiterSpec => []WindowHolds`. The inductive invariant ties the slots
    remembered to the history: they are the last of `starts`, in order, and each start
    forgotten lies strictly more than a window before the clock (`Remembers`); a pump
    about to grant has room (`GrantReady`). Then a new start is compared with the one
    `RequestsPerMinute` before it, which has been forgotten.
  - `RpcImplementsLimiter`: `Spec => LimiterSpec`, a run of the client is a run of the
    limiter: each of its steps is a limiter step or a stutter, the attempts staying within
    their bounds. `RpcQuotaHolds`, `[]WindowHolds` for the client, follows from it.
  - `RpcTypeCorrect`, `AttemptsPay`, `FailureIsForgotten`: `[]TypeOK`, `[]EveryAttemptPays` and
    `FailureNotCached`, by `RpcInv` on top of the limiter's. The queue holds the present
    attempt of each queued call and nothing else (`QueueOK`), so a slot is granted for
    that attempt; the slots of a call are numbered without gap or repetition up to the
    attempts it has begun, and a call in backoff, or queued after one, has waited since the
    last of them (`SlotsOK`); a connection that is awaited is being built, and none in the
    map has failed (`ConnectionsOK`).
  - `CreatorIsTheOldestKept` and `CountIsFloor`: `[]CreatorIsOldestKept` and `[]CountIsAFloor`,
    by `HistoryInv`. What a walk listed is the chain from where it began downwards, without a
    gap, whichever node gave each page (`WalkInv`); a scan that is not truncated has read all
    of it, and what a node did not have is in `absent` (`ScanInv`); a result says what was
    established when it was drawn up, although the chain grows on (`ResultInv`).
  - `AnnouncedOnce` and `KnownLosses`: `[]AnnouncedAtMostOnce` and `[]LossesAreKnown`, by
    `RadarInv`. At most one poll is in flight, and its batch is in the queue still
    (`OnePoll`); a mint is announced or queued, never both, each once, and the seen file has
    it, which is what a restarted radar reads (`SeenOnce`); what the recorder has read is in
    the file until it clears it, and what was added in between is excused
    (`BetweenReadAndClear`).
* `RecorderProofs`:
  - `LabelsSpaced`: `[]LabelsAreSpaced`. A pass decides on what it read, and appends
    later; so the invariant says of a pass that asks (`PassesMayFollow`) that it may follow
    every label now on disk of each uncontested mint it has due: whoever could have
    written one meanwhile would have had the mint due too (`Overlaps`). `HasLatest` gives
    the label the cooldown is measured from, and `LabelsAreSpaced` that all others are
    older and no rugs.
  - `LabelsFromFirstSight` and `NewestIsRead`: `[]LabelsMeasureFirstSight` and
    `[]NewestSnapshotIsRead`, by `SightInv`. Snapshots are appended in the order of their
    times and lie in the files of their days (`SnapsOK`), so the first sight of a mint stays
    its first whatever is appended later; a label, and a pass that is still asking, measure
    from it (`MeasuredOK`).
  - `EntriesAreEarned`: `[]EntryIsEarned`, by `HandoverInv`. What an entry rests on is carried
    from the market to the book: screened rows are eligible (`RowsScreened`), a candidate
    keeps the raw numbers of the pair and the gate it was made from, on disk (`LineMade`) and
    in a cycle, whose snapshot was in date when it was read (`CycleMade`); what a cycle
    fetches is the market's (`FreshFromMarket`). An old candidate has no impacts and thus no
    cost to enter on.
  - `SignalsAreKept` and `FreshPricesWin`: `[]SignalsSurviveTheFile` and `[]FreshPriceWins`.
* `OutboundProofs`, by `OutInv`:
  - `OneBuyPerPosition`: `[]BoughtAtMostOnce`. Orders in use, with the openings of a step that
    is not announced yet, are no more than the positions opened (`OrdersOK`); what was
    broadcast are the orders' only signatures, and what counts as bought has landed
    (`ChainOK`).
  - `AlertsAreSpaced`: `[]KeyedAlertsSpaced`. Only the cycle's messages have a key, one at a
    time (`OnlyCycleAlerts`), so the mark of a key is never set while another alert about it
    is in flight; the one in flight was tested a cooldown after the last (`Spaced`).

Every invariant and every step property of a passing run is proved. Only model-checked are the
liveness properties (`GateAnswers`, `QueuedCallsStart`, `QueueDrains`, `CycleReturns`), which
are out of the prover's reach, and the disagreements of section 5, which are
counterexamples. Sorts, filters and sums are stated by index and cardinality where a proof
needs them (`Leading`, `FirstOf`, `Pick`, `SumOf`), since what a recursive definition or a fold over
a sequence returns would need induction over data. Only proved, for every instance, and
in no run: the typing invariants of `Portfolio`, `Engine` and `SafetyGate`,
`OneAnswerPerQuestion` and `LayersInv`; the typing of `Evidence`, `Handover`, `Radar`,
`DeployerHistory` and `Outbound` is part of their invariants.

## 5. What the models disagree with

Found violated by a run or a configuration:

* `bot_daily`: a restart forgets the day's realised loss, so the daily limit lets a
  position open on a day that already lost it.
* `MCEngineAborts`, `NoTickIsAborted`: an exit leg dearer than the free cash overdraws the
  local book; the kill switch's assertion then throws, and the tick with all its exits is
  lost, although "one pathological token must not abort a tick and take every other
  position's exit evaluation down with it" (`engine.js:323-324`). At the production
  numbers this takes an exit leg above the cash left (450 of book, 100 per position, four
  slots leave 50 less the entry legs).
* `MCBotUnreadable`, `SpendNeverForgotten`: `loadJournal` skips a file it cannot read
  (`journal.js:355-359`), the bot restores from the same function, and publishes the empty
  book it got as the newest line. The money deployed, whose cap is meant to be absolute
  (`portfolio.js:6`), is forgotten.
* `MCHandoverGated`, `TrackedMintsAreGated`: "Ensure any tracked mint that does not have a
  gate result gets gated" (`bot.js:462`) stores the answer in the map that `tail.js:140` has
  frozen, inside an empty catch. The gate is paid for each cycle and its answer lost. The
  tests' mock hands over an unfrozen map.
* `MCHandoverStale`, `StaleMeansSilent`: a snapshot's age counts from the start of its tick,
  so a tick longer than the tolerance is reported as "The recorder has not written for"
  (`bot.js:379`) right after it wrote.
* `MCHandoverCost`, `ReaderDecidesAsRecorded`: the recorder stores its decision so that "every
  reader shows the same answer" (`record.js:130-131`), but the pair that goes through the
  file has no `priceNative`, so the bot prices SOL at the fallback of 150 USD and may
  decide otherwise.
* `MCOutboundEnds`, `CommandsSpareTheCycle`: `/mode` calls `loadWallet` (`bot.js:742`), which
  throws on a malformed `SOLANA_PRIVATE_KEY`. `commandLoop` (279) is first awaited when the
  bot stops (346), and nothing handles rejections, so Node ends the process, perhaps in the
  middle of a cycle: "the notifier would be able to stop the thing it is supposed to be
  watching" (`telegram.js:14-15`). The same throw in `announceActions` only fails the cycle.

Met while reading, not the subject of a property:

* "It cannot trade. There is no keypair in this repo and no code that can sign a transaction"
  (`bot.js:10-11`): `announceActions` starts live buys, which `executor.js` signs. A message can
  still not start one, but `/pause` holds them back.
* "guarantees winning trade" (`engine.js:539`) at the second rung holds only if no gap goes
  far below the trail between two ticks.
* The journal reader recomputes fields (`journal.js:298-324`) its doc says it never does
  (219-220).
* "missing pair or report can only make layer 3 STRICTER" (`holderInputs.js:22-24`) fails in
  two cases, which `LostEvidenceNeverHelps` names: all holders, or all members of an
  insider network, were known pools.
* "reachedEnd means we saw the address's first transaction" (`history.js`) fails on a pruned
  node; "True whenever mintCount could be higher" (`deployer-history.js:212`) fails where the
  node answers null for a transaction (102-105). Both are named in the properties.
* One slot of the Jupiter limiter covers both attempts of a quote (`jupiter.js:253`), though
  retries are to be scheduled through it (`httpJson.js:9-12`).
* `/pause` returns from `announceActions` before the live buys (`bot.js:673`), so it stops
  buying too; a failed buy leaves its paper position, and no close sells on chain. Every
  close alert of a tick reads `closedTrades.at(-1)` (713).
* The cycle awaits its alerts, though `telegram.js:18-20` calls a blocked loop a bug. The mark
  of the global floor is set to the time of the test, so a late forced message moves it
  back. A 409 silences commands until a restart.
* A buy whose confirmation failed is reported failed although it may have landed.
* The test "does not fetch when the recording already priced the held mint"
  (`tests/scripts/bot-marking.test.js`) contradicts the code's comment "ALWAYS fetch".
* `extractFeatures` reads `entryUsd` and `exitUsd` of a cost breakdown that has neither, so
  that feature is always 0.
* The radar's "60s of retries" counts answered polls, and of the first 30 mints only. Mints
  appended between the recorder's read and its truncation, or in its hands when a tick
  fails, are lost (`LossesAreKnown` says that no others are).

## 6. Plan

Done: the book, the engine, the loop with its journal, the gate and its layers, the limiter
and the RPC client, the chain history, the dataset with recorder, labeller and reader, the
hand-over, the radar, notifier and live buys. Left, in order:

1. **Bot**: torn writes without a crash, clock steps, the ladder stage across restarts,
   candle lines, the gap a stale recorder leaves in the exits.
2. **Clients**: `responseCache.js`, and the two attempts of a quote on one slot, over
   RateLimiter.
3. **Radar and Evidence**: torn lines in the radar's files, the training after a pass, the
   run of two overlapping passes against "`rugged` is terminal".

## 7. Not modelled

* The classifier: floating-point formulas without a protocol; `ammMath.js`,
  `memoryGuard.js` and `autoTrainer.js`, which the code imports, are not in the repository,
  so the branch of the cost model over `ammMath.js` is not modelled either.
* Request building in `src/data` and `src/rpc`, and the checks of answers no layer reads:
  pure functions on wire formats.
* `executeSellOrder` and the Jito path: nothing calls the first, the second is a request
  without state.
* Dashboard, reports, supervisors, baseline, message formatting: presentation, and a random
  trader over the book that is modelled.
* `config.js`, `env.js`: their values are the CONSTANTS and thresholds of the modules.
