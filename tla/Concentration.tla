----------------------------- MODULE Concentration -----------------------------
(***************************************************************************)
(* Layer 3: who holds the supply (src/rpc/holders.js, safety/holderInputs.js, *)
(* safety/holderConcentration.js, safety/layer3-holders.js).  Pure.        *)
(*                                                                         *)
(* Shares are compared as amount * 100 against limit * supply, so nothing  *)
(* is rounded.  Every holder's owner is null: no caller of fetchHolders    *)
(* supplies resolveOwners, so a holder is a token account.                 *)
(***************************************************************************)
EXTENDS Answers, Integers, Sequences, FiniteSets, FiniteSetsExt, Functions

CONSTANTS
    TopN,        \* TOP_N_HOLDERS
    Incinerator  \* KNOWN.INCINERATOR

MaxSingleHolderPct == 8
MaxTop10HolderPct == 25
MaxInsiderClusterPct == 15
PctMax == 100

-----------------------------------------------------------------------------
(* fetchHolders: largest accounts [address, amount] and the raw supply *)
readSupplyResponse(raw) == raw.supply # None /\ raw.supply > 0

\* A balance above the supply means that the two are in different units.
readHolderEntry(entry, raw) ==
    /\ entry.amount # None /\ entry.amount >= 0
    /\ entry.decimals = raw.decimals
    /\ entry.amount <= raw.supply

\* An empty list would compute as zero concentration: it throws.
fetchHolders(raw) ==
    IF raw = Failed THEN Failed
    ELSE IF /\ readSupplyResponse(raw) /\ raw.list # << >>
            /\ \A i \in DOMAIN raw.list : readHolderEntry(raw.list[i], raw)
         THEN [holders |-> raw.list, supply |-> raw.supply]
         ELSE Failed

-----------------------------------------------------------------------------
(* the exclusion set *)

\* The pool's address and the vaults of the report's markets.
collectPoolAddresses(pair, report) ==
    (IF pair = None THEN {} ELSE {pair.pairAddress})
      \cup (IF report = None THEN {} ELSE report.vaults)

buildExclusionSet(poolAddresses) == {Incinerator} \cup poolAddresses

-----------------------------------------------------------------------------
(* computeConcentration *)
SumOf(f) == FoldFunction(+, 0, f)

\* sort((a, b) => b.amount - a.amount), which is stable.
Before(holders, i, j) ==
    \/ holders[i].amount > holders[j].amount
    \/ holders[i].amount = holders[j].amount /\ i < j

\* The first n of those accounts in that order: sorted.slice(0, n).
Leading(holders, accounts, n) ==
    {i \in accounts : Cardinality({j \in accounts : Before(holders, j, i)}) < n}

\* Mutant of Considered: with no pool known, the largest holder must be it.
ConsideredGuessingPool(holders, exclusion) ==
    IF exclusion = {Incinerator} THEN DOMAIN holders \ Leading(holders, DOMAIN holders, 1)
    ELSE {i \in DOMAIN holders : holders[i].address \notin exclusion}

\* The places in the list of the accounts that count.
Considered(holders, exclusion) ==
    {i \in DOMAIN holders : holders[i].address \notin exclusion}

\* What each of those accounts holds.
Amounts(holders, accounts) == [i \in accounts |-> holders[i].amount]

computeConcentration(h, exclusion) ==
    LET considered == Considered(h.holders, exclusion)
        amounts == Amounts(h.holders, considered)
        top == Leading(h.holders, considered, TopN)
    IN [supply |-> h.supply,
        consideredCount |-> Cardinality(considered),
        largest |-> IF considered = {} THEN 0 ELSE Max(Range(amounts)),
        topSum |-> SumOf(Amounts(h.holders, top)),
        amountByAddress |-> [a \in {h.holders[i].address : i \in DOMAIN h.holders} |->
            h.holders[CHOOSE i \in DOMAIN h.holders : h.holders[i].address = a].amount]]

-----------------------------------------------------------------------------
(* the insider graph: networks [pct, nodePcts, members] *)

\* normaliseNetwork: the declared share, or the sum of what its nodes declare.
NetworkPct(network) ==
    IF network.pct # None THEN network.pct
    ELSE IF network.nodePcts = << >> THEN None
    ELSE SumOf(network.nodePcts)

normaliseInsiderGraph(graph) ==
    LET pcts == {NetworkPct(graph[i]) : i \in DOMAIN graph}
    IN [networks |-> graph,
        largestClusterPct |-> IF graph = << >> THEN 0
                              ELSE IF None \in pcts THEN None ELSE Max(pcts)]

Members(network, exclusion) == network.members \ exclusion

\* What members hold that are not among the largest accounts is not known: 0.
MemberAmount(network, c, exclusion) ==
    SumOf([a \in Members(network, exclusion) |->
             IF a \in DOMAIN c.amountByAddress THEN c.amountByAddress[a] ELSE 0])

\* A network's share of the supply, times 100 * supply.
NetworkShare(network, c, exclusion) ==
    IF NetworkPct(network) # None THEN NetworkPct(network) * c.supply
    ELSE MemberAmount(network, c, exclusion) * PctMax

\* A network with neither a share nor a member left makes it throw.
ClusterResolvable(graph, exclusion) ==
    \/ graph.largestClusterPct # None
    \/ \A i \in DOMAIN graph.networks :
         \/ NetworkPct(graph.networks[i]) # None
         \/ Members(graph.networks[i], exclusion) # {}

resolveInsiderClusterPct(graph, c, exclusion) ==
    IF graph.largestClusterPct # None THEN graph.largestClusterPct * c.supply
    ELSE Max({NetworkShare(graph.networks[i], c, exclusion) : i \in DOMAIN graph.networks})

-----------------------------------------------------------------------------
(* layer 3 *)
Above(amount, limit, supply) == amount * PctMax > limit * supply

concentrationReasons(c, cluster) ==
    {reason \in {"unmeasured", "single", "top", "insiders"} :
        CASE reason = "unmeasured" -> c.consideredCount = 0
          [] reason = "single" -> Above(c.largest, MaxSingleHolderPct, c.supply)
          [] reason = "top" -> Above(c.topSum, MaxTop10HolderPct, c.supply)
          [] OTHER -> cluster > MaxInsiderClusterPct * c.supply}

\* The outcome, from the raw answers to the layer's four questions.
checkHolders(holderAnswer, graphAnswer, pairAnswer, reportAnswer) ==
    LET h == fetchHolders(holderAnswer)
        exclusion == buildExclusionSet(collectPoolAddresses(
                        optionalEvidence(pairAnswer), optionalEvidence(reportAnswer)))
    IN IF h = Failed \/ graphAnswer = Failed THEN "ERROR"
       ELSE LET c == computeConcentration(h, exclusion)
                graph == normaliseInsiderGraph(graphAnswer)
            IN IF ~ ClusterResolvable(graph, exclusion) THEN "ERROR"
               ELSE LET cluster == resolveInsiderClusterPct(graph, c, exclusion)
                    IN IF cluster < 0 \/ cluster > PctMax * c.supply THEN "ERROR"
                       ELSE ByReasons(concentrationReasons(c, cluster))
=============================================================================
