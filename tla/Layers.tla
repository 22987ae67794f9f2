-------------------------------- MODULE Layers --------------------------------
(***************************************************************************)
(* src/safety: one run of the gate over its six real layers.               *)
(*                                                                         *)
(* SafetyGate leaves open what a layer concludes; here each layer asks its *)
(* questions in its own order and concludes what its code concludes from   *)
(* the raw answers.  Timers and aborts are left to SafetyGate: this run    *)
(* has time.  Layers 0 and 3 are in MintFacts and Concentration, the other *)
(* four are below, each from the client that reads the raw answer to the   *)
(* verdict.                                                                *)
(***************************************************************************)
EXTENDS MintFacts, Concentration, FiniteSets

CONSTANTS
    Raw,          \* question -> the raw answers the outside world may give
    QuoteMints,   \* STRATEGY.universe.quoteMints
    MaxLate,      \* of SafetyGate; no timer fires here
    Unasked, Waiting

LayerOrder == <<"mint", "sellsim", "liquidity", "holders", "deployer", "thirdparty">>

\* The questions of each layer, in the order in which it awaits them.
Script == [mint |-> <<"facts">>, sellsim |-> <<"roundTrip">>,
           liquidity |-> <<"pair", "report">>,
           holders |-> <<"pair", "report", "holders", "insiders">>,
           deployer |-> <<"creator", "history">>, thirdparty |-> <<"report">>]

Questions == {"facts", "roundTrip", "pair", "report", "holders", "insiders",
              "creator", "history"}

Needs == [mint |-> {"facts"}, sellsim |-> {"roundTrip"}, liquidity |-> {"pair"},
          holders |-> {"holders", "insiders"}, deployer |-> {"creator"},
          thirdparty |-> {"report"}]
Wants == [l \in DOMAIN Script |->
            CASE l = "liquidity" -> {"report"} [] l = "holders" -> {"pair", "report"}
              [] OTHER -> {}]
Follows == [l \in DOMAIN Script |-> IF l = "deployer" THEN {"history"} ELSE {}]

\* What the outside world may say, where a layer computes with it: a number may
\* be missing, an account is listed once.
Count == Int \cup {None}
IsList(s) == s \in Seq(Range(s))

RoundTripShape(a) ==
    \A leg \in {a.buy, a.sell} :
        DOMAIN leg = 1..2 /\ \A i \in 1..2 : leg[i] = Failed \/ leg[i].out \in Int
PairShape(a) ==
    /\ IsList(a)
    /\ \A i \in DOMAIN a :
         /\ {"quoteToken", "liquidityUsd", "marketCap", "fdv", "pump"} \subseteq DOMAIN a[i]
         /\ {a[i].liquidityUsd, a[i].marketCap, a[i].fdv} \subseteq Count
ReportShape(a) == a.score \in Count /\ a.lpPcts \subseteq Int /\ IsFiniteSet(a.lpPcts)
HoldersShape(a) ==
    /\ a.supply \in Count
    /\ IsList(a.list)
    /\ \A i \in DOMAIN a.list : a.list[i].amount \in Count
    /\ \A i, j \in DOMAIN a.list : a.list[i].address = a.list[j].address => i = j
NetworkShape(n) ==
    /\ n.pct \in Count /\ IsFiniteSet(n.members)
    /\ IsList(n.nodePcts)
    /\ \A i \in DOMAIN n.nodePcts : n.nodePcts[i] \in Int
GraphShape(a) ==
    IsList(a) /\ \A i \in DOMAIN a : NetworkShape(a[i])
HistoryShape(a) == a.rugs \in Count /\ a.mints \in Nat \cup {None}

ASSUME LayersAssumption ==
    /\ TopN \in Nat \ {0}
    /\ Unasked # Waiting /\ None # Failed /\ None \notin Int /\ Failed \notin Int
    /\ \A q \in Questions : {Unasked, Waiting} \cap Raw[q] = {}
    /\ \A a \in Raw["roundTrip"] \ {Failed} : RoundTripShape(a)
    /\ \A a \in Raw["pair"] \ {Failed} : PairShape(a)
    /\ \A a \in Raw["report"] \ {Failed} : ReportShape(a)
    /\ \A a \in Raw["holders"] \ {Failed} : HoldersShape(a)
    /\ \A a \in Raw["insiders"] \ {Failed} : GraphShape(a)
    /\ \A a \in Raw["history"] \ {Failed} : HistoryShape(a)

VARIABLES
    failClosed, phase, at, decided, verdicts, skipped, result, \* as in SafetyGate
    answers, \* question -> Unasked, Waiting, or the raw answer
    heardBy  \* layer -> the questions whose answer it has awaited

layerVars == <<failClosed, phase, at, decided, verdicts, skipped, result,
               answers, heardBy>>

-----------------------------------------------------------------------------
(* jupiter.js and layer 1.  A response is [status, body, out] or Failed; the   *)
(* probe is 100 units.  (The quote cache is left out: it returns a quote.)     *)
Probe == 100
MaxRoundTripLossPct == 8

\* One retry, after a transport failure or the first 429; the second response
\* counts whatever it is.
Retried(response) == response = Failed \/ response.status = 429

\* Jupiter says "no route" in an error body, whatever the status, or as an empty
\* route plan; that is an answer.  Every other response but a readable 200 throws.
NoRoute(response) ==
    \/ response.body = "noRoute"
    \/ response.body = "emptyRoute" /\ response.status = 200

Quoted(response) == response.body = "quote" /\ response.status = 200

\* A leg is what the network answers to the first and the second attempt.
getQuote(leg) ==
    LET response == IF Retried(leg[1]) THEN leg[2] ELSE leg[1]
    IN IF response = Failed THEN Failed
       ELSE IF NoRoute(response) THEN [routed |-> FALSE, out |-> 0]
       ELSE IF Quoted(response) THEN [routed |-> TRUE, out |-> response.out]
       ELSE Failed

\* A missing sell route is a finding; every other failure of a leg throws.
getRoundTrip(raw) ==
    IF raw = Failed THEN Failed
    ELSE LET buy == getQuote(raw.buy)
             sell == getQuote(raw.sell)
         IN IF buy = Failed THEN Failed
            ELSE IF ~ buy.routed \/ sell = Failed THEN Failed
            ELSE [sellRouteExists |-> sell.routed, returned |-> sell.out]

checkSellability(raw) ==
    LET rt == getRoundTrip(raw)
    IN IF rt = Failed THEN "ERROR"
       ELSE IF ~ rt.sellRouteExists THEN "REJECT"
       ELSE IF (Probe - rt.returned) * 100 > MaxRoundTripLossPct * Probe
       THEN "REJECT" ELSE "PASS"

-----------------------------------------------------------------------------
(* dexscreener.js: the deepest pair against an accepted quote token *)
PairReadable(entry) == entry.readable

normalisePair(entry) ==
    [entry EXCEPT !.marketCap = IF @ = None THEN entry.fdv ELSE @]

\* byLiquidityDesc: unknown depth is not deep.
Deeper(a, b) ==
    a.liquidityUsd # None /\ (b.liquidityUsd = None \/ a.liquidityUsd > b.liquidityUsd)

\* The sort is stable: of two that are equally deep, the first stays first.
Sooner(pairs, i, j) ==
    \/ Deeper(pairs[i], pairs[j])
    \/ ~ Deeper(pairs[j], pairs[i]) /\ i < j

\* The entries that are about our mint, at their places in the answer.
groupPairs(answer) ==
    [i \in {j \in DOMAIN answer : answer[j].ours} |-> normalisePair(answer[i])]

\* pairs.find: the first of these places in that order.
FirstOf(pairs, places) ==
    IF places = {} THEN None
    ELSE pairs[CHOOSE i \in places : \A j \in places \ {i} : Sooner(pairs, i, j)]

\* Mutant of pickBest: the deepest pair, whatever it trades against.
pickDeepest(pairs) == FirstOf(pairs, DOMAIN pairs)

pickBest(pairs) ==
    FirstOf(pairs, {i \in DOMAIN pairs : pairs[i].quoteToken \in QuoteMints})

\* One unreadable entry fails the whole answer; no acceptable pair is a fact.
getBestPair(raw) ==
    IF raw = Failed THEN Failed
    ELSE IF \E i \in DOMAIN raw : ~ PairReadable(raw[i]) THEN Failed
    ELSE pickBest(groupPairs(raw))

-----------------------------------------------------------------------------
(* rugcheck.js: the token report *)
normaliseMarkets(pcts) == IF pcts = {} THEN None ELSE Max(pcts)

normaliseTokenReport(raw) ==
    [scoreNormalised |-> raw.score,
     rugged |-> (raw.rugged = TRUE),
     lpLockedPct |-> normaliseMarkets(raw.lpPcts),
     lpPcts |-> raw.lpPcts,
     vaults |-> raw.vaults]

getTokenReport(raw) ==
    IF raw = Failed THEN Failed
    ELSE IF raw.score = None THEN Failed
    ELSE IF raw.score < 0 THEN Failed
    ELSE normaliseTokenReport(raw)

-----------------------------------------------------------------------------
(* layer 2 *)
MinLiquidityUsd == 30000
PositionSizeUsd == 100
MinLpBurnedPct == 90

\* The highest lock the report shows; impossible percentages are dropped.
readReportLpEvidence(report) ==
    IF report = Failed THEN None
    ELSE LET usable == (report.lpPcts \cup {report.lpLockedPct}) \cap 0..PctMax
         IN normaliseMarkets(usable)

\* Nobody said anything: unknown, except that a pump.fun mint counts as locked.
readLpEvidence(pair, reported) ==
    IF reported # None THEN reported
    ELSE IF pair.pump THEN PctMax ELSE None

\* maxPositionPctOfLiquidity 0.5 and minLiquidityToMcapRatio 0.03.
TooBigForPool(liquidity) == PositionSizeUsd * 1000 > 5 * liquidity
ThinFloat(liquidity, cap) == liquidity * 100 < 3 * cap

UnknownDepth(pair) == pair.liquidityUsd = None \/ pair.liquidityUsd <= 0
UnknownCap(pair) == pair.marketCap = None \/ pair.marketCap <= 0

liquidityReasons(pair, lp) ==
    {reason \in {"unknown", "depth", "footprint", "float", "lp"} :
        CASE reason = "unknown" -> UnknownDepth(pair) \/ UnknownCap(pair)
          [] reason = "depth" -> ~ UnknownDepth(pair) /\ pair.liquidityUsd < MinLiquidityUsd
          [] reason = "footprint" -> ~ UnknownDepth(pair) /\ TooBigForPool(pair.liquidityUsd)
          [] reason = "float" -> /\ ~ UnknownDepth(pair) /\ ~ UnknownCap(pair)
                                 /\ ThinFloat(pair.liquidityUsd, pair.marketCap)
          [] OTHER -> lp # None /\ lp < MinLpBurnedPct}

runLayer2(pairRaw, reportRaw) ==
    LET pair == getBestPair(pairRaw)
    IN IF pair = Failed THEN "ERROR"
       ELSE IF pair = None THEN "REJECT"
       ELSE LET reported == readReportLpEvidence(getTokenReport(reportRaw))
            IN ByReasons(liquidityReasons(pair, readLpEvidence(pair, reported)))

\* facts.unverified of layer 2.
unverifiedLiquidity(pairRaw, reportRaw) ==
    LET pair == getBestPair(pairRaw)
        reported == readReportLpEvidence(getTokenReport(reportRaw))
    IN IF reported # None THEN {}
       ELSE {"rugcheckLpEvidence"} \cup {u \in {"lpBurnedOrLocked"} : ~ pair.pump}

-----------------------------------------------------------------------------
(* layer 4, from the rug record of the deployer: [rugs, mints], None = unknown *)

\* The rate is the third party's own, and null unless it gave both counts.
RateKnown(history) == history.rugs # None /\ history.mints # None /\ history.mints > 0

\* readHistory refuses a rate above 1; maxDeployerPriorRugRate is 0.25.
RateImpossible(history) == RateKnown(history) /\ history.rugs > history.mints
TooManyRugs(history) == RateKnown(history) /\ 4 * history.rugs > history.mints

\* Unknown is scored down, not rejected (rejectUnknownDeployer is false).
checkDeployer(creator, history) ==
    IF creator = Failed THEN "ERROR"
    ELSE IF creator = None THEN "PASS"
    ELSE IF history = Failed THEN "ERROR"
    ELSE IF RateImpossible(history) THEN "ERROR"
    ELSE IF TooManyRugs(history) THEN "REJECT" ELSE "PASS"

unverifiedDeployer(creator, history) ==
    IF creator = None THEN {"deployer", "rugRate"}
    ELSE {u \in {"rugRate"} : ~ RateKnown(history)}

-----------------------------------------------------------------------------
(* layer 5 *)
MaxRugcheckScore == 20
DocumentedScoreMax == 100

\* HIGHER = RISKIER; a score off the documented scale is refused, not clamped.
thirdPartyReasons(report) ==
    {reason \in {"scale", "score", "rugged"} :
        CASE reason = "scale" -> report.scoreNormalised > DocumentedScoreMax
          [] reason = "score" -> report.scoreNormalised > MaxRugcheckScore
          [] OTHER -> report.rugged}

\* Mutant of checkThirdParty: without a report there is nothing to object to.
checkThirdPartyFailOpen(raw) ==
    LET report == getTokenReport(raw)
    IN IF report = Failed THEN "PASS" ELSE ByReasons(thirdPartyReasons(report))

checkThirdParty(raw) ==
    LET report == getTokenReport(raw)
    IN IF report = Failed THEN "ERROR" ELSE ByReasons(thirdPartyReasons(report))

-----------------------------------------------------------------------------
(* The run. *)
raw(q) == answers[q]

\* What the memo cell of a question holds: a value, or the fetcher's exception.
FetchFails(q, a) ==
    CASE q = "facts" -> fetchMintFacts(a) = Failed
      [] q = "roundTrip" -> getRoundTrip(a) = Failed
      [] q = "pair" -> getBestPair(a) = Failed
      [] q = "report" -> getTokenReport(a) = Failed
      [] q = "holders" -> fetchHolders(a) = Failed
      [] OTHER -> a = Failed

CellOf(q) == IF answers[q] = Unasked THEN "empty"
             ELSE IF answers[q] = Waiting THEN "pending"
             ELSE IF FetchFails(q, answers[q]) THEN "failed" ELSE "ok"

\* The layer leaves before its next question: no pair, no holders, no creator.
LeavesEarly(l) ==
    \/ l = "liquidity" /\ "pair" \in heardBy[l]
       /\ getBestPair(raw("pair")) \in {Failed, None}
    \/ l = "holders" /\ "holders" \in heardBy[l] /\ CellOf("holders") = "failed"
    \/ l = "deployer" /\ "creator" \in heardBy[l] /\ raw("creator") \in {Failed, None}

\* A layer awaits one question at a time, in the order of its script.
NextQuestions(l) ==
    {Script[l][i] : i \in {j \in DOMAIN Script[l] :
        /\ ~ LeavesEarly(l)
        /\ Script[l][j] \notin heardBy[l]
        /\ \A k \in 1..(j - 1) : Script[l][k] \in heardBy[l]}}

Conclusion(l) ==
    CASE l = "mint" -> checkMint(raw("facts"))
      [] l = "sellsim" -> checkSellability(raw("roundTrip"))
      [] l = "liquidity" -> runLayer2(raw("pair"), raw("report"))
      [] l = "holders" -> IF CellOf("holders") = "failed" THEN "ERROR"
                          ELSE checkHolders(raw("holders"), raw("insiders"),
                                            getBestPair(raw("pair")),
                                            getTokenReport(raw("report")))
      [] l = "deployer" -> checkDeployer(raw("creator"), raw("history"))
      [] OTHER -> checkThirdParty(raw("report"))

Current == LayerOrder[at]

(* SafetyGate seen from here: no time passes and nobody aborts. *)
VerdictOf(l) == {i \in DOMAIN verdicts : verdicts[i].layer = l}

gateDue == IF at = 1 /\ phase # "running" THEN 0 ELSE 1
gateWork == [l \in DOMAIN Script |->
    IF VerdictOf(l) # {} THEN verdicts[CHOOSE i \in VerdictOf(l) : TRUE].outcome
    ELSE IF phase = "running" /\ Current = l THEN "busy" ELSE "none"]
gateCell == [q \in Questions |-> CellOf(q)]
gateCalls == [q \in Questions |-> IF answers[q] = Unasked THEN 0 ELSE 1]
gateHeard == [l \in DOMAIN Script |-> [q \in heardBy[l] |-> CellOf(q)]]

Gate == INSTANCE SafetyGate WITH
    Order <- LayerOrder, PerLayer <- 1, Total <- 1,
    clock <- 0, due <- gateDue, gone <- FALSE, aborted <- {},
    work <- gateWork, cell <- gateCell, calls <- gateCalls, heard <- gateHeard

Init ==
    /\ failClosed = TRUE
    /\ phase = "start" /\ at = 1 /\ decided = FALSE
    /\ verdicts = << >> /\ skipped = << >> /\ result = None
    /\ answers = [q \in Questions |-> Unasked]
    /\ heardBy = [l \in DOMAIN Script |-> {}]

Begin ==
    /\ phase = "start" /\ phase' = "choose"
    /\ UNCHANGED <<failClosed, at, decided, verdicts, skipped, result, answers, heardBy>>

SkipLayer ==
    /\ phase = "choose" /\ at <= Len(LayerOrder) /\ decided
    /\ skipped' = Append(skipped, Current)
    /\ at' = at + 1
    /\ UNCHANGED <<failClosed, phase, decided, verdicts, result, answers, heardBy>>

StartLayer ==
    /\ phase = "choose" /\ at <= Len(LayerOrder) /\ ~ decided
    /\ phase' = "running"
    /\ UNCHANGED <<failClosed, at, decided, verdicts, skipped, result, answers, heardBy>>

\* The first layer that awaits a question asks the network.
Ask(q) ==
    /\ phase = "running" /\ q \in NextQuestions(Current)
    /\ answers[q] = Unasked
    /\ answers' = [answers EXCEPT ![q] = Waiting]
    /\ UNCHANGED <<failClosed, phase, at, decided, verdicts, skipped, result, heardBy>>

Answer(q) ==
    /\ answers[q] = Waiting
    /\ \E a \in Raw[q] : answers' = [answers EXCEPT ![q] = a]
    /\ UNCHANGED <<failClosed, phase, at, decided, verdicts, skipped, result, heardBy>>

\* Every layer hears the memoised answer.
Hear(q) ==
    /\ phase = "running" /\ q \in NextQuestions(Current)
    /\ answers[q] \notin {Unasked, Waiting}
    /\ heardBy' = [heardBy EXCEPT ![Current] = @ \cup {q}]
    /\ UNCHANGED <<failClosed, phase, at, decided, verdicts, skipped, result, answers>>

\* The layer returns: its verdict is recorded, and may decide the gate.
Conclude ==
    /\ phase = "running" /\ NextQuestions(Current) = {}
    /\ LET outcome == Conclusion(Current)
       IN /\ verdicts' = Append(verdicts, Gate!Verdict(Current, outcome, TRUE))
          /\ decided' = Gate!Decisive(outcome)
    /\ phase' = "choose" /\ at' = at + 1
    /\ UNCHANGED <<failClosed, skipped, result, answers, heardBy>>

Finish ==
    /\ phase = "choose" /\ at > Len(LayerOrder)
    /\ result' = Gate!combine(verdicts)
    /\ phase' = "done"
    /\ UNCHANGED <<failClosed, at, decided, verdicts, skipped, answers, heardBy>>

Next == \/ Begin \/ SkipLayer \/ StartLayer \/ Conclude \/ Finish
        \/ \E q \in Questions : Ask(q) \/ Answer(q) \/ Hear(q)

Spec == Init /\ [][Next]_layerVars

-----------------------------------------------------------------------------
(* Properties, over the raw answers of the outside world. *)

\* The account: an initialised mint of a token program, with no usable
\* authority, and nothing in its TLV data but padding and metadata.
MintIsInert(acc) ==
    /\ acc.exists /\ acc.owner \in TokenPrograms /\ acc.initialized
    /\ {acc.mintAuthority, acc.freezeAuthority} \subseteq {None, ZeroKey}
    /\ \A i \in DOMAIN acc.tlv : acc.tlv[i].code \in AllowedExtensions \cup {"uninitialized"}

\* The market: of all pairs against an accepted quote token, none is deeper
\* than one that is deep enough, also for the capitalisation.
PoolIsDeep(pairs, report) ==
    LET fit == {pairs[i] : i \in {j \in DOMAIN pairs :
                            pairs[j].ours /\ pairs[j].quoteToken \in QuoteMints}}
        locks == IF report = Failed THEN {} ELSE report.lpPcts \cap 0..100
    IN /\ \E p \in fit :
            /\ p.liquidityUsd # None /\ p.liquidityUsd >= 30000
            /\ LET cap == IF p.marketCap = None THEN p.fdv ELSE p.marketCap
               IN cap # None /\ cap > 0 /\ 100 * p.liquidityUsd >= 3 * cap
            /\ \A other \in fit : other.liquidityUsd # None =>
                                    other.liquidityUsd <= p.liquidityUsd
       /\ IF locks = {} THEN unverifiedLiquidity(pairs, report) # {}
          ELSE \E pct \in locks : pct >= 90

\* The holders: among the accounts that are no known pool's, none holds more
\* than 8% and no TopN together more than 25%; no insider network more than 15%.
HoldingsAreSpread(h, graph, pool) ==
    LET others == {i \in DOMAIN h.list : h.list[i].address \notin pool \cup {Incinerator}}
        Held(S) == SumOf([i \in S |-> h.list[i].amount])
    IN /\ others # {}
       /\ \A i \in others : 100 * h.list[i].amount <= 8 * h.supply
       /\ \A S \in SUBSET others : Cardinality(S) <= TopN => 100 * Held(S) <= 25 * h.supply
       /\ \A n \in DOMAIN graph :
            IF NetworkPct(graph[n]) # None THEN NetworkPct(graph[n]) <= 15
            ELSE 100 * Held({i \in others : h.list[i].address \in graph[n].members})
                   <= 15 * h.supply

\* The exit: a quote came back for the whole probe and loses at most 8%; it was
\* the first answer, or the first was a failure to answer at all.
ReallySells(leg) ==
    \E i \in DOMAIN leg :
        /\ leg[i] # Failed /\ leg[i].status = 200
        /\ leg[i].body = "quote" /\ leg[i].out >= 92
        /\ i = 2 => leg[1] = Failed \/ leg[1].status = 429

KnownPool ==
    collectPoolAddresses(optionalEvidence(getBestPair(raw("pair"))),
                         optionalEvidence(getTokenReport(raw("report"))))

\* A gate that says buyable "must pass ALL layers" (config.js:7): whatever
\* mixture of answers and failures came back, each of these facts was measured
\* on what the outside world really said; what was not known is only what the
\* layers name as unverified.
BuyableMeansMeasured ==
    phase = "done" /\ result.buyable =>
        /\ MintIsInert(raw("facts"))
        /\ ReallySells(raw("roundTrip").sell)
        /\ PoolIsDeep(raw("pair"), raw("report"))
        /\ HoldingsAreSpread(raw("holders"), raw("insiders"), KnownPool)
        /\ IF raw("creator") = None THEN "deployer" \in unverifiedDeployer(None, None)
           ELSE LET h == raw("history")
                IN IF h.rugs = None \/ h.mints \in {None, 0}
                   THEN "rugRate" \in unverifiedDeployer(raw("creator"), h)
                   ELSE 4 * h.rugs <= h.mints
        /\ raw("report").score \in 0..20 /\ raw("report").rugged # TRUE

HoldersWith(pair, report) == checkHolders(raw("holders"), raw("insiders"), pair, report)

\* "A missing pair or report can only make layer 3 STRICTER" (holderInputs.js:22):
\* with either lost, layer 3 passes nothing it would not pass with both, but
\* where they left no holder or no network member to measure.  Losing the report
\* may let layer 2 pass, and is then named: "never silently passed".
LostEvidenceNeverHelps ==
    "insiders" \in heardBy["holders"] /\ CellOf("insiders") = "ok" =>
        LET pair == getBestPair(raw("pair"))
            report == getTokenReport(raw("report"))
            exclusion == buildExclusionSet(KnownPool)
        IN /\ \A p \in {pair, Failed}, r \in {report, Failed} :
                HoldersWith(p, r) = "PASS" =>
                    \/ HoldersWith(pair, report) = "PASS"
                    \/ Considered(raw("holders").list, exclusion) = {}
                    \/ ~ ClusterResolvable(normaliseInsiderGraph(raw("insiders")), exclusion)
           /\ /\ runLayer2(raw("pair"), Failed) = "PASS"
              /\ runLayer2(raw("pair"), raw("report")) # "PASS"
              => unverifiedLiquidity(raw("pair"), Failed) # {}

\* The six layers keep the promise on which the gate's own analysis rests: what
\* they ask, share, need and conclude is a behaviour of SafetyGate.
ImplementsGate == Gate!Init /\ [][Gate!Next]_(Gate!gateVars)
=============================================================================
