------------------------------- MODULE Handover -------------------------------
(***************************************************************************)
(* From the market through the recording to an entry: scripts/record.js    *)
(* looks, screens, gates and appends a snapshot; the cycle of              *)
(* scripts/bot.js reads the newest one back (src/evidence/tail.js),        *)
(* fetches the pairs of the mints it tracks itself, prices what it screens *)
(* and steps the engine.                                                   *)
(*                                                                         *)
(* The bot reads the recording (its default, not --scan).  The file is its *)
(* newest snapshot (Evidence shows that this is what is read); with two    *)
(* mints the limit of eight screened pairs is not reached.  Exits are      *)
(* open, and so is whether the book refuses an entry (Engine, Portfolio).  *)
(***************************************************************************)
EXTENDS EntryRules

CONSTANTS
    Tokens,      \* the mints of the market
    Pairs,       \* what the market may answer for a mint
    Gates,       \* what runGate may answer: buyable and layer 1's impacts
    Survives,    \* what the survival model may say
    HealthyFor,  \* expected interval times toleranceMultiple
    MaxClock,    \* bound: the clock
    None

ASSUME HandoverAssumption ==
    /\ HealthyFor \in Nat /\ MaxClock \in Nat
    /\ \A pair \in Pairs : pair.created \in Int \cup {Unknown}

VARIABLES
    clock,
    line,      \* the newest snapshot on disk: ts and candidates, or None; and, as
               \* history, when it was written
    screening, \* at: "idle", "fetch", "gate"; ts of its tick; the screened rows
    cycle,     \* the bot's cycle: at: "idle", "read", "stale", "track", "gate",
               \* "step"; its ts; the line it read; fresh pairs; sol; answered
    held,      \* mints with an open position
    closed,    \* mints of the trades that closed
    entries    \* history, until the next cycle: what the last step opened, and on what

handVars == <<clock, line, screening, cycle, held, closed, entries>>

-----------------------------------------------------------------------------
(* The recording.                                                          *)

\* One candidate of a snapshot, with, as history, what it was made from.
Candidate(m, row, gate, sol, ts, survives) ==
    LET pair == row.pair
        cost == costsFor(gate, sol)
    IN [price |-> pair.price, cap |-> pair.cap, volM5 |-> pair.volM5,
        volH1 |-> pair.volH1, m5 |-> pair.m5, h1 |-> pair.h1, quote |-> pair.quote,
        created |-> pair.created, buys |-> pair.buys, sells |-> pair.sells,
        txnsH1 |-> pair.txnsH1, age |-> readSignals(pair, row.at).age,
        buyable |-> gate.buyable, buy |-> gate.buy, sell |-> gate.sell,
        wouldEnter |-> IF cost = Unknown THEN Unknown
                       ELSE decideEntry(m, pair, ts, {}, gate.buyable, cost, survives),
        raw |-> pair, gate |-> gate, old |-> FALSE]

\* A candidate recorded before the raw counters were.
Old(c) == [c EXCEPT !.quote = Unknown, !.created = Unknown, !.buys = Unknown,
                    !.sells = Unknown, !.txnsH1 = Unknown, !.buy = Unknown,
                    !.sell = Unknown, !.wouldEnter = Unknown, !.old = TRUE]

\* Mutant of candidateToPair: the age that was recorded is good enough.
candidateToPairByAge(c, ts) ==
    [created |-> IF c.age = Unknown THEN Unknown ELSE ts - c.age,
     cap |-> c.cap, volM5 |-> c.volM5, volH1 |-> c.volH1, buys |-> c.buys,
     sells |-> c.sells, txnsH1 |-> c.txnsH1, m5 |-> c.m5, h1 |-> c.h1,
     quote |-> IF c.quote = Unknown THEN WSOL ELSE c.quote,
     price |-> c.price, native |-> Unknown]

\* The pair as the engine knows it, rebuilt; the price in SOL is not recorded.
candidateToPair(c, ts) ==
    [created |-> IF c.created # Unknown THEN c.created
                 ELSE IF c.age = Unknown THEN Unknown ELSE ts - c.age,
     cap |-> c.cap, volM5 |-> c.volM5, volH1 |-> c.volH1, buys |-> c.buys,
     sells |-> c.sells, txnsH1 |-> c.txnsH1, m5 |-> c.m5, h1 |-> c.h1,
     quote |-> IF c.quote = Unknown THEN WSOL ELSE c.quote,
     price |-> c.price, native |-> Unknown]

-----------------------------------------------------------------------------
IdleRecorder == [at |-> "idle", ts |-> 0, rows |-> << >>]
IdleCycle == [at |-> "idle", ts |-> 0, line |-> None, fresh |-> << >>,
              sol |-> SolFallback, answered |-> {}]

\* A recording from before the upgrade, of one candidate.
OldLine(m, gate, pair) ==
    [ts |-> 0, wrote |-> 0,
     candidates |-> [n \in {m} |-> Old(Candidate(n, [pair |-> pair, at |-> 0], gate,
                                                  SolFallback, 0, TRUE))]]

HandoverInit ==
    /\ clock = 0
    /\ \/ line = None
       \/ \E m \in Tokens, gate \in Gates, pair \in Pairs :
            /\ Eligible(m, readSignals(pair, 0))
            /\ line = OldLine(m, gate, pair)
    /\ screening = IdleRecorder /\ cycle = IdleCycle
    /\ held = {} /\ closed = {} /\ entries = {}

BeginTick ==
    /\ screening.at = "idle"
    /\ screening' = [IdleRecorder EXCEPT !.at = "fetch", !.ts = clock]
    /\ UNCHANGED <<clock, line, cycle, held, closed, entries>>

\* collect: the pairs are fetched, judged once, and the eligible ones go to the gate.
Screen ==
    /\ screening.at = "fetch"
    /\ \E found \in SUBSET Tokens : \E market \in [found -> Pairs] :
          LET screened == {m \in found : Eligible(m, readSignals(market[m], clock))}
          IN screening' = [screening EXCEPT
                            !.at = "gate",
                            !.rows = [m \in screened |-> [pair |-> market[m], at |-> clock]]]
    /\ UNCHANGED <<clock, line, cycle, held, closed, entries>>

\* The gate has answered for each: buildRecord and one append.
RecordTick ==
    /\ screening.at = "gate"
    /\ LET rows == screening.rows
       IN \E gates \in [DOMAIN rows -> Gates],
             survives \in [DOMAIN rows -> Survives],
             sol \in solPriceFrom({rows[m].pair : m \in DOMAIN rows}) :
            line' = [ts |-> screening.ts, wrote |-> clock,
                     candidates |-> [m \in DOMAIN rows |->
                        Candidate(m, rows[m], gates[m], sol, screening.ts, survives[m])]]
    /\ screening' = IdleRecorder
    /\ UNCHANGED <<clock, cycle, held, closed, entries>>

\* A failed tick never kills the recorder.
AbandonTick ==
    /\ screening.at # "idle"
    /\ screening' = IdleRecorder
    /\ UNCHANGED <<clock, line, cycle, held, closed, entries>>

-----------------------------------------------------------------------------
(* The bot's cycle.                                                        *)

tracked == held \cup closed
Recorded(m) == candidateToPair(cycle.line.candidates[m], cycle.line.ts)
ScreenedMints == DOMAIN cycle.line.candidates

\* The gate results that came with the snapshot.
GateOf(m) == LET c == cycle.line.candidates[m]
             IN [buyable |-> c.buyable, buy |-> c.buy, sell |-> c.sell]

StartCycle ==
    /\ cycle.at = "idle"
    /\ cycle' = [IdleCycle EXCEPT !.at = "read", !.ts = clock]
    /\ entries' = {}
    /\ UNCHANGED <<clock, line, screening, held, closed>>

\* Mutant of isRecorderHealthy: any snapshot will do.
isRecorderHealthyIfAny(snapshot) == snapshot # None

isRecorderHealthy(snapshot) == snapshot # None /\ cycle.ts - snapshot.ts <= HealthyFor

\* latestSnapshot: "a dead recorder must never look like a quiet market".
Read ==
    /\ cycle.at = "read"
    /\ cycle' = [cycle EXCEPT !.at = IF isRecorderHealthy(line) THEN "track" ELSE "stale",
                              !.line = line]
    /\ UNCHANGED <<clock, line, screening, held, closed, entries>>

\* The alert is sent; nothing is decided.
LeaveStale ==
    /\ cycle.at = "stale"
    /\ cycle' = IdleCycle
    /\ UNCHANGED <<clock, line, screening, held, closed, entries>>

\* Fresh pairs for the mints that are held or were: some, or none if it throws.
Track ==
    /\ cycle.at = "track"
    /\ \E found \in SUBSET tracked : \E fresh \in [found -> Pairs] :
          cycle' = [cycle EXCEPT !.at = "gate", !.fresh = fresh]
    /\ UNCHANGED <<clock, line, screening, held, closed, entries>>

\* A tracked mint without a gate result is gated; the map of results is frozen, so
\* what the gate answers cannot be put into it.  Then the price of SOL.
GateTracked ==
    /\ cycle.at = "gate"
    /\ \E sol \in solPriceFrom({Recorded(m) : m \in ScreenedMints \ DOMAIN cycle.fresh}
                                 \cup {cycle.fresh[m] : m \in DOMAIN cycle.fresh}) :
          cycle' = [cycle EXCEPT !.at = "step", !.sol = sol,
                                 !.answered = DOMAIN cycle.fresh \ ScreenedMints]
    /\ UNCHANGED <<clock, line, screening, held, closed, entries>>

\* Mutant of tickPairs: the recorded pairs are appended to the fresh ones.
tickPairsRecordedLast == <<cycle.fresh, [m \in ScreenedMints |-> Recorded(m)]>>

\* The pairs of a step, in order: what was screened off the recording, stale
\* versions of tracked mints included, then what was fetched.
tickPairs == <<[m \in ScreenedMints |-> Recorded(m)], cycle.fresh>>

\* The price of a mint in this step: the last one in the list.
priceOf(m) ==
    LET priced == {i \in 1..2 : m \in DOMAIN tickPairs[i] /\ AtLeast(tickPairs[i][m].price, 1)}
    IN IF priced = {} THEN Unknown
       ELSE tickPairs[CHOOSE i \in priced : \A j \in priced : j <= i][m].price

\* decideEntry over the list: m is entered on its i-th pair.
Qualifies(m, i, open, survives) ==
    /\ m \in DOMAIN tickPairs[i] /\ m \in ScreenedMints
    /\ LET cost == costsFor(GateOf(m), cycle.sol)
       IN /\ cost # Unknown
          /\ decideEntry(m, tickPairs[i][m], cycle.ts, open, GateOf(m).buyable, cost, survives[m])
    /\ priceOf(m) # Unknown

Entry(m, i) ==
    LET c == cycle.line.candidates[m]
    IN [mint |-> m, at |-> cycle.ts,
        raw |-> IF tickPairs[i] = cycle.fresh THEN cycle.fresh[m] ELSE c.raw,
        gate |-> c.gate, gatedAt |-> cycle.line.ts, old |-> c.old]

\* stepEngine: sales, then entries, of mints not sold in this step.
Step ==
    /\ cycle.at = "step"
    /\ \E sold \in SUBSET held, opened \in SUBSET Tokens,
          survives \in [Tokens -> Survives] :
          LET open == held \ sold
              on == [m \in opened |-> {i \in 1..2 : Qualifies(m, i, open, survives)}]
          IN /\ opened \cap sold = {}
             /\ \A m \in opened : on[m] # {}
             /\ Cardinality(open \cup opened) <= MaxPositions
             /\ held' = open \cup opened
             /\ closed' = closed \cup sold
             /\ entries' = {Entry(m, CHOOSE i \in on[m] : \A j \in on[m] : i <= j) : m \in opened}
    /\ cycle' = IdleCycle
    /\ UNCHANGED <<clock, line, screening>>

ClockTicks ==
    /\ clock < MaxClock
    /\ clock' = clock + 1
    /\ UNCHANGED <<line, screening, cycle, held, closed, entries>>

HandoverNext ==
    \/ BeginTick \/ Screen \/ RecordTick \/ AbandonTick
    \/ StartCycle \/ Read \/ LeaveStale \/ Track \/ GateTracked \/ Step
    \/ ClockTicks

HandoverSpec == HandoverInit /\ [][HandoverNext]_handVars

-----------------------------------------------------------------------------
\* What an entry must rest on.
Earned(e) ==
    /\ ~ e.old
    /\ Unknown \notin {e.raw.created, e.raw.cap, e.raw.volM5, e.raw.volH1, e.raw.buys,
                       e.raw.sells, e.raw.txnsH1, e.raw.m5, e.raw.h1, e.raw.quote}
    /\ e.raw.sells # 0 /\ e.raw.volH1 # 0
    /\ e.raw.quote \in QuoteMints /\ e.mint \notin QuoteMints
    /\ e.at - e.raw.created \in Universe.minAge..Universe.maxAge
    /\ e.gate.buyable /\ Unknown \notin {e.gate.buy, e.gate.sell}
    /\ e.at - e.gatedAt <= HealthyFor

\* "Unknown means no entry" (tail.js:41-42), from the market to the book: whatever
\* was opened, the pair the market delivered had every number the rules read, a
\* permitted quote, an age inside the window when it was entered, and a gate that
\* passed on measured impacts in a snapshot no older than the tolerance.
EntryIsEarned == \A e \in entries : Earned(e)

\* "reconstructing it here keeps ONE definition of the momentum maths"
\* (tail.js:36-38): whenever a recorded candidate is judged again, the rebuilt pair
\* gives the signals that the pair itself would give at that moment.
SignalsSurviveTheFile ==
    line # None =>
        \A m \in DOMAIN line.candidates :
            LET c == line.candidates[m]
            IN ~ c.old => \A t \in clock..MaxClock :
                 readSignals(candidateToPair(c, line.ts), t) = readSignals(c.raw, t)

\* "ALWAYS fetch fresh prices for held positions" (bot.js:439): what a position is
\* marked and stopped at is the fetched price, though the list of a step still holds
\* the recorded pair of the same mint.
FreshPriceWins ==
    cycle.at = "step" =>
        \A m \in held \cap DOMAIN cycle.fresh :
            AtLeast(cycle.fresh[m].price, 1) => priceOf(m) = cycle.fresh[m].price

\* "Ensure any tracked mint that does not have a gate result gets gated"
\* (bot.js:462): whatever the gate was asked for has a result in the step.
TrackedMintsAreGated == cycle.at = "step" => cycle.answered \subseteq ScreenedMints

\* "storing it means every reader shows the same answer instead of each re-deriving
\* it from a different cost guess" (record.js:130-131): asked about the same instant,
\* the bot decides on a candidate what the recorder decided.
ReaderDecidesAsRecorded ==
    cycle.at = "step" =>
        \A m \in ScreenedMints :
            LET c == cycle.line.candidates[m]
            IN c.wouldEnter # Unknown =>
                 c.wouldEnter = decideEntry(m, Recorded(m), cycle.line.ts, {}, c.buyable,
                                            costsFor(GateOf(m), cycle.sol), TRUE)

\* "The recorder has not written for Ns" (bot.js:379): that is what a stale cycle
\* reports, so the recorder has not appended within the tolerance.
StaleMeansSilent ==
    cycle.at = "stale" /\ cycle.line # None => cycle.ts - cycle.line.wrote > HealthyFor
=============================================================================
