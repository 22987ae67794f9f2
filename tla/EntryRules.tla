------------------------------ MODULE EntryRules ------------------------------
(***************************************************************************)
(* What makes a pair worth entering: readSignals, universeReasons and      *)
(* decideEntry of src/paper/engine.js, the costs of                        *)
(* scripts/lib/liveCosts.js and the break-even of src/paper/costModel.js.  *)
(* The recorder and the bot use the same rules on different data.          *)
(*                                                                         *)
(* A field that is missing or no number is Unknown.  A ratio is the pair   *)
(* of its terms, so that nothing is rounded.  What the survival model says *)
(* is given; the wording of reasons is left out: a pair is refused if      *)
(* there is any.                                                           *)
(***************************************************************************)
EXTENDS Integers, FiniteSets

CONSTANTS
    Unknown,
    QuoteMints,   \* STRATEGY.universe.quoteMints
    WSOL,
    Universe,     \* the profile: minAge, maxAge, minCap, maxCap, minVolH1, minTxnsH1
    Momentum,     \* STRATEGY.entry: minM5, maxM5, minH1; minRatio, minAccel in percent
    ExpectedMove, \* STRATEGY.entry.expectedGrossMovePct
    Size,         \* RISK.positionSizeUsd
    FeeSol,       \* base and priority fee of both legs, in SOL
    RouterFee,    \* COSTS.routerFeeBps, in percent
    SolFallback,  \* SOL_PRICE_FALLBACK_USD
    MaxPositions  \* RISK.maxConcurrentPositions

ASSUME RulesAssumption ==
    /\ WSOL \in QuoteMints /\ Unknown \notin QuoteMints \cup Int
    /\ Universe.minAge \in Int /\ Universe.maxAge \in Int
    /\ Size \in Nat \ {0} /\ FeeSol \in Nat /\ RouterFee \in 0..99
    /\ SolFallback \in Nat \ {0} /\ MaxPositions \in Nat

M5WindowsPerHour == 12

readSignals(pair, now) ==
    [age |-> IF pair.created = Unknown THEN Unknown ELSE now - pair.created,
     cap |-> pair.cap, volM5 |-> pair.volM5, volH1 |-> pair.volH1,
     txnsH1 |-> pair.txnsH1, m5 |-> pair.m5, h1 |-> pair.h1,
     price |-> pair.price, quote |-> pair.quote,
     ratio |-> IF Unknown \in {pair.buys, pair.sells} \/ pair.sells = 0
               THEN Unknown ELSE <<pair.buys, pair.sells>>,
     accel |-> IF Unknown \in {pair.volM5, pair.volH1} \/ pair.volH1 = 0
               THEN Unknown ELSE <<pair.volM5 * M5WindowsPerHour, pair.volH1>>]

\* require_: a condition that cannot be evaluated is not satisfied.
AtLeast(v, min) == v # Unknown /\ v >= min
AtMost(v, max) == v # Unknown /\ v <= max
RatioAtLeast(v, percent) == v # Unknown /\ 100 * v[1] >= percent * v[2]

\* universeReasons finds none.
Eligible(m, s) ==
    /\ AtLeast(s.age, Universe.minAge) /\ AtMost(s.age, Universe.maxAge)
    /\ AtMost(s.cap, Universe.maxCap) /\ AtLeast(s.cap, Universe.minCap)
    /\ AtLeast(s.volH1, Universe.minVolH1) /\ AtLeast(s.txnsH1, Universe.minTxnsH1)
    /\ s.quote \in QuoteMints /\ m \notin QuoteMints

\* A move that has already started.
Moving(s) ==
    /\ AtLeast(s.m5, Momentum.minM5) /\ AtMost(s.m5, Momentum.maxM5)
    /\ AtLeast(s.h1, Momentum.minH1)
    /\ RatioAtLeast(s.ratio, Momentum.minRatio)
    /\ RatioAtLeast(s.accel, Momentum.minAccel)

-----------------------------------------------------------------------------
\* USD per SOL, off any SOL-quoted pair that is priced in both.
Implies(pair) ==
    /\ pair.quote = WSOL /\ Unknown \notin {pair.price, pair.native} /\ pair.native # 0
    /\ pair.price \div pair.native > 1

solPriceFrom(pairs) ==
    LET priced == {pair \in pairs : Implies(pair)}
    IN IF priced = {} THEN {SolFallback} ELSE {pair.price \div pair.native : pair \in priced}

\* A favourable impact never pays for anything else.
readPriceImpactPct(impact) == IF impact < 0 THEN 0 ELSE impact

\* estimateRoundTripCost off the impacts layer 1 measured, in percent; without
\* both, or with one that takes everything, there is no cost to give.
costsFor(gate, sol) ==
    IF \E impact \in {gate.buy, gate.sell} : impact = Unknown \/ impact > 100
    THEN Unknown
    ELSE [fixed |-> FeeSol * sol, buy |-> RouterFee + readPriceImpactPct(gate.buy),
          sell |-> RouterFee + readPriceImpactPct(gate.sell)]

\* breakEvenMovePct is below the expected move, multiplied out; it throws, and the
\* pair is refused, when a leg takes the whole position.
clearsCosts(cost) ==
    /\ cost.buy < 100 /\ cost.sell < 100
    /\ (100 + ExpectedMove) * Size * (100 - cost.buy) * (100 - cost.sell)
         > 1000000 * (Size + cost.fixed)

decideEntry(m, pair, now, open, buyable, cost, survives) ==
    LET s == readSignals(pair, now)
    IN /\ buyable
       /\ Cardinality(open) < MaxPositions /\ m \notin open
       /\ Eligible(m, s) /\ Moving(s)
       /\ survives
       /\ clearsCosts(cost)
=============================================================================
