----------------------------- MODULE LayersProofs -----------------------------
(***************************************************************************)
(* Theorems of Layers, for any answers of the outside world, any quote     *)
(* mints, any allow-list of extensions and any number of leading holders.  *)
(*                                                                         *)
(* LayersInv: a layer concludes only after it has heard what its script    *)
(* asks for, and a PASS on record is what its checks say of those answers. *)
(* From it follow the refinement of SafetyGate, and what a buyable result  *)
(* means (BuyableMeansMeasured): each layer's PASS is turned into a fact   *)
(* about the raw answers, where                                            *)
(*   - the pair that was picked is the deepest against an accepted quote   *)
(*     token (a stable sort, of which only the first element is used);     *)
(*   - the leading TopN accounts hold at least as much as any TopN others  *)
(*     (LeadingHasMost: exchange the accounts that are in one set only);   *)
(*   - the members of a network and the accounts they hold correspond one  *)
(*     to one, so the sums over either are the same (SumIsTotal).          *)
(* LostEvidenceNeverHelps: a lost answer makes the exclusion set smaller,  *)
(* and each sum of layer 3 grows with the accounts that count.             *)
(***************************************************************************)
EXTENDS Layers, LedgerProofs

-----------------------------------------------------------------------------
(* The six layers.                                                         *)
Names == {"mint", "sellsim", "liquidity", "holders", "deployer", "thirdparty"}

\* Six layers in a fixed order, each once, and what each asks.
LEMMA TheLayers ==
    /\ DOMAIN Script = Names
    /\ Len(LayerOrder) = 6 /\ DOMAIN LayerOrder = 1..6
    /\ LayerOrder[1] = "mint" /\ LayerOrder[2] = "sellsim"
    /\ LayerOrder[3] = "liquidity" /\ LayerOrder[4] = "holders"
    /\ LayerOrder[5] = "deployer" /\ LayerOrder[6] = "thirdparty"
    BY DEF Script, Names, LayerOrder

LEMMA OrderOfLayers ==
    /\ \A i \in 1..6 : LayerOrder[i] \in Names
    /\ \A i, j \in 1..6 : LayerOrder[i] = LayerOrder[j] => i = j
    /\ \A l \in Names : \E i \in 1..6 : LayerOrder[i] = l
    BY TheLayers DEF Names

LEMMA GateLayers == Gate!Layers = Names
<1>1. Gate!Layers = {LayerOrder[i] : i \in DOMAIN LayerOrder}
    BY DEF Gate!Layers
<1>. QED  BY <1>1, TheLayers, OrderOfLayers

LEMMA TheScripts ==
    /\ Script["mint"] = <<"facts">>
    /\ Script["sellsim"] = <<"roundTrip">>
    /\ Script["liquidity"] = <<"pair", "report">>
    /\ Script["holders"] = <<"pair", "report", "holders", "insiders">>
    /\ Script["deployer"] = <<"creator", "history">>
    /\ Script["thirdparty"] = <<"report">>
    BY DEF Script

\* The questions of a layer.
Asked(l) == {Script[l][i] : i \in DOMAIN Script[l]}

LEMMA TheQuestions ==
    /\ Asked("mint") = {"facts"}
    /\ Asked("sellsim") = {"roundTrip"}
    /\ Asked("liquidity") = {"pair", "report"}
    /\ Asked("holders") = {"pair", "report", "holders", "insiders"}
    /\ Asked("deployer") = {"creator", "history"}
    /\ Asked("thirdparty") = {"report"}
<1>1. \A x : {<<x>>[i] : i \in DOMAIN <<x>>} = {x}
    OBVIOUS
<1>2. \A x, y : {<<x, y>>[i] : i \in DOMAIN <<x, y>>} = {x, y}
    <2>1. TAKE x, y
    <2>2. DOMAIN <<x, y>> = {1, 2}
        OBVIOUS
    <2>. QED  BY <2>2
<1>3. \A x, y, z, w : {<<x, y, z, w>>[i] : i \in DOMAIN <<x, y, z, w>>} = {x, y, z, w}
    <2>1. TAKE x, y, z, w
    <2>2. DOMAIN <<x, y, z, w>> = {1, 2, 3, 4}
        OBVIOUS
    <2>. QED  BY <2>2
<1>. QED  BY <1>1, <1>2, <1>3, TheScripts DEF Asked

LEMMA TheNeeds ==
    /\ Needs["mint"] = {"facts"} /\ Needs["sellsim"] = {"roundTrip"}
    /\ Needs["liquidity"] = {"pair"} /\ Needs["holders"] = {"holders", "insiders"}
    /\ Needs["deployer"] = {"creator"} /\ Needs["thirdparty"] = {"report"}
    /\ \A l \in Names : Wants[l] = IF l = "liquidity" THEN {"report"}
                                   ELSE IF l = "holders" THEN {"pair", "report"} ELSE {}
    /\ \A l \in Names : Follows[l] = IF l = "deployer" THEN {"history"} ELSE {}
<1>1. /\ Needs["mint"] = {"facts"} /\ Needs["sellsim"] = {"roundTrip"}
      /\ Needs["liquidity"] = {"pair"} /\ Needs["holders"] = {"holders", "insiders"}
      /\ Needs["deployer"] = {"creator"} /\ Needs["thirdparty"] = {"report"}
    BY DEF Needs
<1>2. \A l \in Names : Wants[l] = IF l = "liquidity" THEN {"report"}
                                  ELSE IF l = "holders" THEN {"pair", "report"} ELSE {}
    BY TheLayers DEF Wants, Names
<1>3. \A l \in Names : Follows[l] = IF l = "deployer" THEN {"history"} ELSE {}
    BY TheLayers DEF Follows
<1>. QED  BY <1>1, <1>2, <1>3

\* A layer asks what SafetyGate says it may ask.
LEMMA AskedIsAllowed ==
    \A l \in Names : Asked(l) = Gate!Asks(l) /\ Asked(l) \subseteq Questions
<1>4. \A l \in Names : Gate!Asks(l) = Needs[l] \cup Wants[l] \cup Follows[l]
    BY DEF Gate!Asks
<1>5. ASSUME NEW l \in Names
      PROVE  Asked(l) = Gate!Asks(l)
    <2>1. CASE l = "mint"  BY <2>1, <1>4, TheNeeds, TheQuestions
    <2>2. CASE l = "sellsim"  BY <2>2, <1>4, TheNeeds, TheQuestions
    <2>3. CASE l = "liquidity"  BY <2>3, <1>4, TheNeeds, TheQuestions
    <2>4. CASE l = "holders"  BY <2>4, <1>4, TheNeeds, TheQuestions
    <2>5. CASE l = "deployer"  BY <2>5, <1>4, TheNeeds, TheQuestions
    <2>6. CASE l = "thirdparty"  BY <2>6, <1>4, TheNeeds, TheQuestions
    <2>. QED  BY <2>1, <2>2, <2>3, <2>4, <2>5, <2>6 DEF Names
<1>6. \A l \in Names : Asked(l) \subseteq Questions
    BY TheQuestions DEF Names, Questions
<1>. QED  BY <1>5, <1>6

-----------------------------------------------------------------------------
(* What a layer concludes is an outcome, and from an exception an ERROR.   *)
\* A list of reasons passes only when it is empty.
LEMMA ReasonsDecide ==
    ASSUME NEW S
    PROVE  ByReasons(S) \in {"PASS", "REJECT"} /\ (ByReasons(S) = "PASS" => S = {})
    BY DEF ByReasons

LEMMA MintConcludes ==
    ASSUME NEW a
    PROVE  /\ checkMint(a) \in Gate!Outcomes
           /\ fetchMintFacts(a) = Failed => checkMint(a) = "ERROR"
    BY ReasonsDecide DEF checkMint, Gate!Outcomes

LEMMA SellConcludes ==
    ASSUME NEW a
    PROVE  /\ checkSellability(a) \in Gate!Outcomes
           /\ getRoundTrip(a) = Failed => checkSellability(a) = "ERROR"
    BY DEF checkSellability, Gate!Outcomes

LEMMA LiquidityConcludes ==
    ASSUME NEW a, NEW r
    PROVE  /\ runLayer2(a, r) \in Gate!Outcomes
           /\ getBestPair(a) = Failed => runLayer2(a, r) = "ERROR"
           /\ getBestPair(a) = None => runLayer2(a, r) \in {"ERROR", "REJECT"}
    BY ReasonsDecide DEF runLayer2, Gate!Outcomes

LEMMA HoldersConclude ==
    ASSUME NEW a, NEW g, NEW p, NEW r
    PROVE  /\ checkHolders(a, g, p, r) \in Gate!Outcomes
           /\ fetchHolders(a) = Failed => checkHolders(a, g, p, r) = "ERROR"
           /\ g = Failed => checkHolders(a, g, p, r) = "ERROR"
    BY ReasonsDecide DEF checkHolders, Gate!Outcomes

LEMMA DeployerConcludes ==
    ASSUME NEW c, NEW h
    PROVE  /\ checkDeployer(c, h) \in Gate!Outcomes
           /\ c = Failed => checkDeployer(c, h) = "ERROR"
           /\ c # None /\ h = Failed => checkDeployer(c, h) = "ERROR"
           /\ c = None /\ c # Failed => checkDeployer(c, h) = "PASS"
    BY DEF checkDeployer, Gate!Outcomes

LEMMA ThirdPartyConcludes ==
    ASSUME NEW a
    PROVE  /\ checkThirdParty(a) \in Gate!Outcomes
           /\ getTokenReport(a) = Failed => checkThirdParty(a) = "ERROR"
    BY ReasonsDecide DEF checkThirdParty, Gate!Outcomes

-----------------------------------------------------------------------------
(* The inductive invariant.                                                *)
LoopOK ==
    /\ phase \in {"start", "choose", "running", "done"}
    /\ at \in 1..7 /\ decided \in BOOLEAN
    /\ phase = "start" => at = 1
    /\ phase = "running" => at <= 6 /\ ~ decided
    /\ phase = "done" => at = 7 /\ result = Gate!combine(verdicts)

\* An answer that has come never changes.
Settled(q) == answers[q] \notin {Unasked, Waiting}

AnswersOK ==
    /\ DOMAIN answers = Questions
    /\ \A q \in Questions : Settled(q) => answers[q] \in Raw[q]

HeardOK ==
    /\ heardBy \in [DOMAIN Script -> SUBSET Questions]
    /\ \A l \in DOMAIN Script : \A q \in heardBy[l] : q \in Asked(l) /\ Settled(q)
    /\ "history" \in heardBy["deployer"] =>
         "creator" \in heardBy["deployer"] /\ raw("creator") # None
    /\ "insiders" \in heardBy["holders"] => "holders" \in heardBy["holders"]

Heard(l, Q) == Q \subseteq heardBy[l]

\* The layer has passed on answers it has heard.
Cleared(l) ==
    CASE l = "mint" -> Heard(l, {"facts"}) /\ checkMint(raw("facts")) = "PASS"
      [] l = "sellsim" ->
           Heard(l, {"roundTrip"}) /\ checkSellability(raw("roundTrip")) = "PASS"
      [] l = "liquidity" ->
           Heard(l, {"pair", "report"}) /\ runLayer2(raw("pair"), raw("report")) = "PASS"
      [] l = "holders" ->
           /\ Heard(l, {"pair", "report", "holders", "insiders"})
           /\ checkHolders(raw("holders"), raw("insiders"), getBestPair(raw("pair")),
                           getTokenReport(raw("report"))) = "PASS"
      [] l = "deployer" ->
           /\ Heard(l, {"creator"})
           /\ raw("creator") # None => Heard(l, {"history"})
           /\ checkDeployer(raw("creator"), raw("history")) = "PASS"
      [] OTHER -> Heard(l, {"report"}) /\ checkThirdParty(raw("report")) = "PASS"

VerdictsOK ==
    /\ verdicts \in Seq([layer : DOMAIN Script, outcome : Gate!Outcomes, ran : {TRUE}])
    /\ Len(verdicts) <= at - 1
    /\ ~ decided => Len(verdicts) = at - 1
    /\ decided => \E i \in DOMAIN verdicts : verdicts[i].outcome # "PASS"
    /\ \A i \in DOMAIN verdicts :
         /\ verdicts[i].layer = LayerOrder[i]
         /\ verdicts[i].outcome = "PASS" => Cleared(LayerOrder[i])

LayersInv == failClosed = TRUE /\ LoopOK /\ AnswersOK /\ HeardOK /\ VerdictsOK

-----------------------------------------------------------------------------
(* The questions of a layer that returns.                                  *)
\* The next question is one of the layer that it has not heard.
LEMMA NextIsAsked ==
    ASSUME NEW l \in Names
    PROVE  NextQuestions(l) \subseteq Asked(l) \ heardBy[l]
    BY DEF NextQuestions, Asked

\* A layer that has nothing left to ask and did not leave early has heard all.
LEMMA AllHeard ==
    ASSUME NEW l \in Names, NextQuestions(l) = {}, ~ LeavesEarly(l)
    PROVE  Asked(l) \subseteq heardBy[l]
<1> DEFINE T == {j \in DOMAIN Script[l] : Script[l][j] \notin heardBy[l]}
<1>1. DOMAIN Script[l] \subseteq Nat /\ (\A j \in DOMAIN Script[l] : 1..(j - 1) \subseteq DOMAIN Script[l])
    BY TheScripts DEF Names
<1>2. SUFFICES ASSUME T # {} PROVE FALSE
    BY DEF Asked
<1>3. PICK j \in T : \A k \in T : j <= k
    <2>1. T \in SUBSET Nat
        BY <1>1
    <2> HIDE DEF T
    <2>. QED  BY <1>2, <2>1, LeastNatural
<1>4. j \in Nat
    BY <1>1
<1>5. \A k \in 1..(j - 1) : Script[l][k] \in heardBy[l]
    <2>1. TAKE k \in 1..(j - 1)
    <2>2. k \in DOMAIN Script[l] /\ k \in Nat /\ ~ (j <= k)
        BY <1>1, <1>4
    <2>. QED  BY <1>3, <2>2
<1>6. Script[l][j] \in NextQuestions(l)
    BY <1>5 DEF NextQuestions
<1>. QED  BY <1>6

\* What a layer has heard is an answer, or a failure to fetch one.
LEMMA HeardCells ==
    ASSUME LayersInv, NEW l \in Names, NEW q \in heardBy[l]
    PROVE  /\ CellOf(q) \in {"ok", "failed"}
           /\ CellOf(q) = "failed" <=> FetchFails(q, answers[q])
           /\ q \in Questions /\ q \in Asked(l) /\ Settled(q) /\ answers[q] \in Raw[q]
<1>1. Settled(q) /\ q \in Questions /\ q \in Asked(l)
    BY TheLayers DEF LayersInv, HeardOK
<1>2. answers[q] # Unasked /\ answers[q] # Waiting /\ answers[q] \in Raw[q]
    BY <1>1 DEF LayersInv, AnswersOK, Settled
<1>. QED  BY <1>1, <1>2 DEF CellOf

\* No answer the layer heard and must have is an exception.
NoneLost(l) == \A q \in heardBy[l] \ Wants[l] : CellOf(q) # "failed"

\* What a layer that returns may say, as SafetyGate's MayReturn asks it.
LEMMA Returns ==
    ASSUME LayersInv, NEW l \in Names, NextQuestions(l) = {}
    PROVE  /\ Conclusion(l) \in Gate!Outcomes
           /\ Conclusion(l) = "PASS" =>
                Cleared(l) /\ Needs[l] \cup Wants[l] \subseteq heardBy[l] /\ NoneLost(l)
           /\ Conclusion(l) = "REJECT" => heardBy[l] # {} /\ NoneLost(l)
<1>0. /\ \A q \in heardBy[l] : /\ CellOf(q) = "failed" <=> FetchFails(q, answers[q])
                               /\ q \in Asked(l)
      /\ ~ LeavesEarly(l) => Asked(l) = heardBy[l]
    BY HeardCells, AllHeard
<1>1. CASE l = "mint"
    <2>1. Conclusion(l) = checkMint(raw("facts")) /\ ~ LeavesEarly(l)
        BY <1>1 DEF Conclusion, LeavesEarly
    <2>2. heardBy[l] = {"facts"} /\ Needs[l] = {"facts"} /\ Wants[l] = {}
        BY <1>0, <1>1, <2>1, TheQuestions, TheNeeds
    <2>3. Conclusion(l) # "ERROR" => CellOf("facts") # "failed"
        BY <1>0, <2>1, <2>2, MintConcludes DEF FetchFails, raw
    <2>4. Conclusion(l) = "PASS" => Cleared(l)
        BY <1>1, <2>1, <2>2 DEF Cleared, Heard
    <2>. QED  BY <2>1, <2>2, <2>3, <2>4, MintConcludes DEF NoneLost
<1>2. CASE l = "sellsim"
    <2>1. Conclusion(l) = checkSellability(raw("roundTrip")) /\ ~ LeavesEarly(l)
        BY <1>2 DEF Conclusion, LeavesEarly
    <2>2. heardBy[l] = {"roundTrip"} /\ Needs[l] = {"roundTrip"} /\ Wants[l] = {}
        BY <1>0, <1>2, <2>1, TheQuestions, TheNeeds
    <2>3. Conclusion(l) # "ERROR" => CellOf("roundTrip") # "failed"
        BY <1>0, <2>1, <2>2, SellConcludes DEF FetchFails, raw
    <2>4. Conclusion(l) = "PASS" => Cleared(l)
        BY <1>2, <2>1, <2>2 DEF Cleared, Heard
    <2>. QED  BY <2>1, <2>2, <2>3, <2>4, SellConcludes DEF NoneLost
<1>3. CASE l = "liquidity"
    <2>1. Conclusion(l) = runLayer2(raw("pair"), raw("report"))
        BY <1>3 DEF Conclusion
    <2>2. Needs[l] = {"pair"} /\ Wants[l] = {"report"} /\ Asked(l) = {"pair", "report"}
        BY <1>3, TheQuestions, TheNeeds
    <2>3. "pair" \in heardBy[l]
        BY <1>0, <1>3, <2>2 DEF LeavesEarly
    <2>4. Conclusion(l) # "ERROR" => NoneLost(l)
        <3>1. Conclusion(l) # "ERROR" => CellOf("pair") # "failed"
            BY <1>0, <2>1, <2>3, LiquidityConcludes DEF FetchFails, raw
        <3>. QED  BY <1>0, <2>2, <3>1 DEF NoneLost
    <2>5. Conclusion(l) = "PASS" => heardBy[l] = {"pair", "report"}
        BY <1>0, <1>3, <2>1, <2>2, LiquidityConcludes DEF LeavesEarly
    <2>6. Conclusion(l) = "PASS" => Cleared(l)
        BY <1>3, <2>1, <2>5 DEF Cleared, Heard
    <2>. QED  BY <2>1, <2>2, <2>3, <2>4, <2>5, <2>6, LiquidityConcludes
<1>4. CASE l = "holders"
    <2>1. Conclusion(l) = IF CellOf("holders") = "failed" THEN "ERROR"
                          ELSE checkHolders(raw("holders"), raw("insiders"),
                                            getBestPair(raw("pair")),
                                            getTokenReport(raw("report")))
        BY <1>4 DEF Conclusion
    <2>2. /\ Needs[l] = {"holders", "insiders"} /\ Wants[l] = {"pair", "report"}
          /\ Asked(l) = {"pair", "report", "holders", "insiders"}
        BY <1>4, TheQuestions, TheNeeds
    <2>3. Conclusion(l) # "ERROR" => heardBy[l] = Asked(l)
        BY <1>0, <1>4, <2>1 DEF LeavesEarly
    <2>4. Conclusion(l) # "ERROR" => NoneLost(l)
        <3>1. Conclusion(l) # "ERROR" => CellOf("holders") # "failed"
            BY <2>1
        <3>2. Conclusion(l) # "ERROR" => CellOf("insiders") # "failed"
            <4>1. "insiders" \in heardBy[l] /\ CellOf("insiders") = "failed"
                    => raw("insiders") = Failed
                BY <1>0 DEF FetchFails, raw
            <4>. QED  BY <2>1, <2>2, <2>3, <4>1, HoldersConclude
        <3>. QED  BY <1>0, <2>2, <3>1, <3>2 DEF NoneLost
    <2>5. Conclusion(l) = "PASS" => Cleared(l)
        BY <1>4, <2>1, <2>2, <2>3 DEF Cleared, Heard
    <2>6. Conclusion(l) \in Gate!Outcomes
        BY <2>1, HoldersConclude DEF Gate!Outcomes
    <2>. QED  BY <2>2, <2>3, <2>4, <2>5, <2>6
<1>5. CASE l = "deployer"
    <2>1. Conclusion(l) = checkDeployer(raw("creator"), raw("history"))
        BY <1>5 DEF Conclusion
    <2>2. /\ Needs[l] = {"creator"} /\ Wants[l] = {}
          /\ Asked(l) = {"creator", "history"}
        BY <1>5, TheQuestions, TheNeeds
    <2>3. "creator" \in heardBy[l] /\ heardBy[l] \subseteq {"creator", "history"}
        BY <1>0, <1>5, <2>2 DEF LeavesEarly
    <2>4. Conclusion(l) # "ERROR" /\ raw("creator") # None => "history" \in heardBy[l]
        BY <1>0, <1>5, <2>1, <2>2, DeployerConcludes DEF LeavesEarly
    <2>5. Conclusion(l) # "ERROR" => CellOf("creator") # "failed"
        BY <1>0, <2>1, <2>3, DeployerConcludes DEF FetchFails, raw
    <2>6. Conclusion(l) # "ERROR" /\ raw("creator") # None => CellOf("history") # "failed"
        BY <1>0, <2>1, <2>4, DeployerConcludes DEF FetchFails, raw
    <2>7. raw("creator") = None => "history" \notin heardBy[l]
        BY <1>5 DEF LayersInv, HeardOK
    <2>8. Conclusion(l) # "ERROR" => NoneLost(l)
        BY <2>2, <2>3, <2>5, <2>6, <2>7 DEF NoneLost
    <2>9. Conclusion(l) = "PASS" => Cleared(l)
        BY <1>5, <2>1, <2>3, <2>4 DEF Cleared, Heard
    <2>. QED  BY <2>1, <2>2, <2>3, <2>8, <2>9, DeployerConcludes
<1>6. CASE l = "thirdparty"
    <2>1. Conclusion(l) = checkThirdParty(raw("report")) /\ ~ LeavesEarly(l)
        BY <1>6 DEF Conclusion, LeavesEarly
    <2>2. heardBy[l] = {"report"} /\ Needs[l] = {"report"} /\ Wants[l] = {}
        BY <1>0, <1>6, <2>1, TheQuestions, TheNeeds
    <2>3. Conclusion(l) # "ERROR" => CellOf("report") # "failed"
        BY <1>0, <2>1, <2>2, ThirdPartyConcludes DEF FetchFails, raw
    <2>4. Conclusion(l) = "PASS" => Cleared(l)
        BY <1>6, <2>1, <2>2 DEF Cleared, Heard
    <2>. QED  BY <2>1, <2>2, <2>3, <2>4, ThirdPartyConcludes DEF NoneLost
<1>. QED  BY <1>1, <1>2, <1>3, <1>4, <1>5, <1>6 DEF Names

-----------------------------------------------------------------------------
(* Every step keeps the invariant.                                         *)
LEMMA NoneHeardYet ==
    \A l \in Names : [x \in DOMAIN Script |-> {}][l] = {}
    BY TheLayers

LEMMA InitLayers == Init => LayersInv
<1> SUFFICES ASSUME Init PROVE LayersInv
    OBVIOUS
<1>1. LoopOK
    <2>1. decided \in BOOLEAN /\ ~ decided
        BY Zenon DEF Init
    <2>2. phase = "start" /\ at = 1
        BY DEF Init
    <2>. QED  BY <2>1, <2>2 DEF LoopOK
<1>2. AnswersOK
    BY DEF Init, AnswersOK, Settled
<1>3. HeardOK
    <2>1. heardBy = [l \in DOMAIN Script |-> {}]
        BY DEF Init
    <2>. QED  BY <2>1, TheLayers DEF HeardOK, Names
<1>4. VerdictsOK
    BY DEF Init, VerdictsOK
<1>. QED  BY <1>1, <1>2, <1>3, <1>4 DEF LayersInv, Init

\* What was heard is not asked again, and stays as it was.
Kept == \A q \in Questions : Settled(q) => answers'[q] = answers[q]

\* A PASS on record stays earned while answers only arrive.
LEMMA ClearedStays ==
    ASSUME LayersInv, Kept, NEW l \in Names, Cleared(l), heardBy[l] \subseteq heardBy'[l]
    PROVE  Cleared(l)'
<1>1. \A q \in heardBy[l] : raw(q)' = raw(q)
    BY HeardCells DEF Kept, raw
<1>2. \A Q : Heard(l, Q) => Heard(l, Q)' /\ \A q \in Q : raw(q)' = raw(q)
    BY <1>1 DEF Heard
<1>3. CASE l = "mint"
    BY <1>2, <1>3 DEF Cleared
<1>4. CASE l = "sellsim"
    BY <1>2, <1>4 DEF Cleared
<1>5. CASE l = "liquidity"
    BY <1>2, <1>5 DEF Cleared
<1>6. CASE l = "holders"
    BY <1>2, <1>6 DEF Cleared
<1>7. CASE l = "deployer"
    <2>1. raw("creator")' = raw("creator")
        BY <1>2, <1>7 DEF Cleared
    <2>2. checkDeployer(raw("creator"), raw("history")') = "PASS"
        <3>1. CASE raw("creator") = None
            BY <3>1, <1>7 DEF Cleared, checkDeployer
        <3>2. CASE raw("creator") # None
            <4>1. raw("history")' = raw("history")
                BY <1>2, <1>7, <3>2 DEF Cleared
            <4>. QED  BY <4>1, <1>7 DEF Cleared
        <3>. QED  BY <3>1, <3>2
    <2>. QED  BY <1>2, <1>7, <2>1, <2>2 DEF Cleared
<1>8. CASE l = "thirdparty"
    BY <1>2, <1>8 DEF Cleared
<1>. QED  BY <1>3, <1>4, <1>5, <1>6, <1>7, <1>8 DEF Names

\* A step that adds no verdict.
LEMMA SameVerdicts ==
    ASSUME LayersInv, Kept, UNCHANGED verdicts, at <= at', at' \in 1..7,
           \A l \in Names : heardBy[l] \subseteq heardBy'[l],
           decided' = decided, ~ decided => at' = at
    PROVE  VerdictsOK'
<1>1. \A i \in DOMAIN verdicts : verdicts[i].outcome = "PASS" => Cleared(LayerOrder[i])'
    <2>1. \A i \in DOMAIN verdicts : i \in 1..6
        BY DEF LayersInv, VerdictsOK, LoopOK
    <2>. QED  BY <2>1, ClearedStays, OrderOfLayers DEF LayersInv, VerdictsOK
<1>2. Len(verdicts) \in Nat /\ at \in 1..7
    BY DEF LayersInv, VerdictsOK, LoopOK
<1>3. verdicts' = verdicts
    OBVIOUS
<1>4. Len(verdicts') <= at' - 1
    BY <1>2, <1>3 DEF LayersInv, VerdictsOK
<1>5. ~ decided' => Len(verdicts') = at' - 1
    BY <1>3 DEF LayersInv, VerdictsOK
<1>6. decided' => \E i \in DOMAIN verdicts : verdicts[i].outcome # "PASS"
    BY DEF LayersInv, VerdictsOK
<1>7. verdicts \in Seq([layer : DOMAIN Script, outcome : Gate!Outcomes, ran : {TRUE}])
    BY DEF LayersInv, VerdictsOK
<1>8. \A i \in DOMAIN verdicts : verdicts[i].layer = LayerOrder[i]
    BY DEF LayersInv, VerdictsOK
<1>. QED  BY <1>1, <1>3, <1>4, <1>5, <1>6, <1>7, <1>8 DEF VerdictsOK

LEMMA CurrentIsALayer ==
    ASSUME LayersInv, at <= 6
    PROVE  /\ at \in 1..6 /\ Current = LayerOrder[at] /\ Current \in Names
           /\ Current \in DOMAIN Script
<1>1. at \in 1..6
    BY DEF LayersInv, LoopOK
<1>. QED  BY <1>1, OrderOfLayers, TheLayers DEF Current

\* A step that asks and hears nothing.
LEMMA SameAnswers ==
    ASSUME LayersInv, UNCHANGED <<answers, heardBy>>
    PROVE  Kept /\ AnswersOK' /\ HeardOK' /\ \A l \in Names : heardBy[l] \subseteq heardBy'[l]
    BY DEF LayersInv, Kept, AnswersOK, HeardOK, Settled, raw

LEMMA BeginKeeps ==
    ASSUME LayersInv, Begin PROVE LayersInv'
<1>1. /\ phase = "start" /\ phase' = "choose" /\ at' = at /\ decided' = decided
      /\ failClosed' = failClosed /\ UNCHANGED verdicts /\ UNCHANGED <<answers, heardBy>>
    BY DEF Begin
<1>2. LoopOK'
    BY <1>1 DEF LayersInv, LoopOK
<1>3. VerdictsOK'
    BY <1>1, <1>2, SameAnswers, SameVerdicts DEF LoopOK
<1>. QED  BY <1>1, <1>2, <1>3, SameAnswers DEF LayersInv

LEMMA SkipKeeps ==
    ASSUME LayersInv, SkipLayer PROVE LayersInv'
<1>1. /\ phase = "choose" /\ phase' = "choose" /\ at <= 6 /\ at' = at + 1
      /\ decided /\ decided' = decided
      /\ failClosed' = failClosed /\ UNCHANGED verdicts /\ UNCHANGED <<answers, heardBy>>
    BY TheLayers DEF SkipLayer
<1>2. LoopOK' /\ at <= at'
    BY <1>1 DEF LayersInv, LoopOK
<1>3. VerdictsOK'
    BY <1>1, <1>2, SameAnswers, SameVerdicts DEF LoopOK
<1>. QED  BY <1>1, <1>2, <1>3, SameAnswers DEF LayersInv

LEMMA StartKeeps ==
    ASSUME LayersInv, StartLayer PROVE LayersInv'
<1>1. /\ phase = "choose" /\ phase' = "running" /\ at <= 6 /\ at' = at
      /\ ~ decided /\ decided' = decided
      /\ failClosed' = failClosed /\ UNCHANGED verdicts /\ UNCHANGED <<answers, heardBy>>
    BY TheLayers DEF StartLayer
<1>2. LoopOK'
    BY <1>1 DEF LayersInv, LoopOK
<1>3. VerdictsOK'
    BY <1>1, <1>2, SameAnswers, SameVerdicts DEF LoopOK
<1>. QED  BY <1>1, <1>2, <1>3, SameAnswers DEF LayersInv

LEMMA FinishKeeps ==
    ASSUME LayersInv, Finish PROVE LayersInv'
<1>1. /\ phase = "choose" /\ phase' = "done" /\ at > 6 /\ at' = at
      /\ decided' = decided /\ result' = Gate!combine(verdicts)
      /\ failClosed' = failClosed /\ UNCHANGED verdicts /\ UNCHANGED <<answers, heardBy>>
    BY TheLayers DEF Finish
<1>2. Gate!combine(verdicts)' = Gate!combine(verdicts)
    BY <1>1 DEF Gate!combine, Gate!With
<1>3. LoopOK'
    BY <1>1, <1>2 DEF LayersInv, LoopOK
<1>4. VerdictsOK'
    BY <1>1, <1>3, SameAnswers, SameVerdicts DEF LoopOK
<1>. QED  BY <1>1, <1>3, <1>4, SameAnswers DEF LayersInv

\* A step that only asks, answers or hears leaves the loop where it is.
LEMMA SameLoop ==
    ASSUME LayersInv, phase = "running" \/ phase' = phase, phase' = phase,
           UNCHANGED <<failClosed, at, decided, verdicts, skipped, result>>,
           Kept, AnswersOK', HeardOK', \A l \in Names : heardBy[l] \subseteq heardBy'[l]
    PROVE  LayersInv'
<1>0. Gate!combine(verdicts)' = Gate!combine(verdicts)
    BY DEF Gate!combine, Gate!With
<1>1. LoopOK'
    BY <1>0 DEF LayersInv, LoopOK
<1>2. VerdictsOK'
    <2>1. UNCHANGED verdicts /\ decided' = decided /\ at' = at
        OBVIOUS
    <2>2. at' \in 1..7 /\ at <= at'
        BY <1>1, <2>1 DEF LoopOK
    <2>. QED  BY <2>1, <2>2, SameVerdicts
<1>3. failClosed' = TRUE
    BY DEF LayersInv
<1>. QED  BY <1>1, <1>2, <1>3 DEF LayersInv

\* Hearing more keeps what was heard.
LEMMA HeardStays ==
    ASSUME LayersInv, Kept
    PROVE  \A q \in Questions : Settled(q) => Settled(q)' /\ raw(q)' = raw(q)
    BY DEF Kept, Settled, raw

LEMMA HeardOKStays ==
    ASSUME LayersInv, Kept, heardBy' = heardBy
    PROVE  HeardOK' /\ \A l \in Names : heardBy[l] \subseteq heardBy'[l]
<1>1. heardBy' \in [DOMAIN Script -> SUBSET Questions]
    BY DEF LayersInv, HeardOK
<1>2. \A l \in DOMAIN Script : \A q \in heardBy'[l] : q \in Asked(l) /\ Settled(q)'
    <2>1. \A l \in DOMAIN Script : \A q \in heardBy[l] :
             q \in Asked(l) /\ Settled(q) /\ q \in Questions
        BY DEF LayersInv, HeardOK
    <2>. QED  BY <2>1, HeardStays
<1>3. "history" \in heardBy'["deployer"] =>
         "creator" \in heardBy'["deployer"] /\ raw("creator")' # None
    <2>1. "history" \in heardBy["deployer"] =>
             /\ "creator" \in heardBy["deployer"] /\ raw("creator") # None
             /\ Settled("creator") /\ "creator" \in Questions
        BY TheLayers DEF LayersInv, HeardOK, Names
    <2>. QED  BY <2>1, HeardStays
<1>4. "insiders" \in heardBy'["holders"] => "holders" \in heardBy'["holders"]
    BY DEF LayersInv, HeardOK
<1>. QED  BY <1>1, <1>2, <1>3, <1>4 DEF HeardOK

LEMMA AskKeeps ==
    ASSUME LayersInv, NEW q \in Questions, Ask(q) PROVE LayersInv'
<1>1. /\ phase' = phase /\ answers[q] = Unasked /\ heardBy' = heardBy
      /\ answers' = [answers EXCEPT ![q] = Waiting]
      /\ UNCHANGED <<failClosed, at, decided, verdicts, skipped, result>>
    BY DEF Ask
<1>2. DOMAIN answers = Questions
    BY DEF LayersInv, AnswersOK
<1>3. answers'[q] = Waiting /\ (\A r \in Questions \ {q} : answers'[r] = answers[r])
      /\ DOMAIN answers' = Questions
    BY <1>1, <1>2
<1>4. Kept
    BY <1>1, <1>3 DEF Kept, Settled
<1>5. AnswersOK'
    BY <1>3 DEF LayersInv, AnswersOK, Settled
<1>6. HeardOK'
    BY <1>1, <1>4, HeardOKStays
<1>. QED  BY <1>1, <1>4, <1>5, <1>6, HeardOKStays, SameLoop

LEMMA AnswerKeeps ==
    ASSUME LayersInv, NEW q \in Questions, Answer(q) PROVE LayersInv'
<1>1. /\ phase' = phase /\ answers[q] = Waiting /\ heardBy' = heardBy
      /\ UNCHANGED <<failClosed, at, decided, verdicts, skipped, result>>
    BY DEF Answer
<1>2. PICK a \in Raw[q] : answers' = [answers EXCEPT ![q] = a]
    BY DEF Answer
<1>3. DOMAIN answers = Questions
    BY DEF LayersInv, AnswersOK
<1>4. answers'[q] = a /\ (\A r \in Questions \ {q} : answers'[r] = answers[r])
      /\ DOMAIN answers' = Questions
    BY <1>2, <1>3
<1>5. Kept
    BY <1>1, <1>4 DEF Kept, Settled
<1>6. AnswersOK'
    BY <1>4 DEF LayersInv, AnswersOK, Settled
<1>7. HeardOK'
    BY <1>1, <1>5, HeardOKStays
<1>. QED  BY <1>1, <1>5, <1>6, <1>7, HeardOKStays, SameLoop

\* The history is asked for once there is a creator.
LEMMA HistoryComesLast ==
    ASSUME LayersInv, "history" \in NextQuestions("deployer")
    PROVE  "creator" \in heardBy["deployer"] /\ raw("creator") # None
<1>1. PICK j \in DOMAIN Script["deployer"] :
        /\ Script["deployer"][j] = "history" /\ ~ LeavesEarly("deployer")
        /\ \A k \in 1..(j - 1) : Script["deployer"][k] \in heardBy["deployer"]
    BY DEF NextQuestions
<1>2. j = 2 /\ Script["deployer"][1] = "creator"
    BY <1>1, TheScripts
<1>3. "creator" \in heardBy["deployer"]
    BY <1>1, <1>2
<1>. QED  BY <1>1, <1>3 DEF LeavesEarly

\* The insiders are asked for once the holders were heard.
LEMMA InsidersComeLast ==
    ASSUME "insiders" \in NextQuestions("holders")
    PROVE  "holders" \in heardBy["holders"]
<1>1. PICK j \in DOMAIN Script["holders"] :
        /\ Script["holders"][j] = "insiders"
        /\ \A k \in 1..(j - 1) : Script["holders"][k] \in heardBy["holders"]
    BY DEF NextQuestions
<1>2. j = 4 /\ Script["holders"][3] = "holders"
    BY <1>1, TheScripts
<1>. QED  BY <1>1, <1>2

LEMMA HearKeeps ==
    ASSUME LayersInv, NEW q \in Questions, Hear(q) PROVE LayersInv'
<1>1. /\ phase' = phase /\ phase = "running" /\ q \in NextQuestions(Current)
      /\ Settled(q) /\ answers' = answers
      /\ heardBy' = [heardBy EXCEPT ![Current] = @ \cup {q}]
      /\ UNCHANGED <<failClosed, at, decided, verdicts, skipped, result>>
    BY DEF Hear, Settled
<1>2. Current \in Names /\ Current \in DOMAIN Script
    BY <1>1, CurrentIsALayer DEF LayersInv, LoopOK
<1>3. q \in Asked(Current)
    BY <1>1, <1>2, NextIsAsked
<1>4. heardBy \in [DOMAIN Script -> SUBSET Questions]
    BY DEF LayersInv, HeardOK
<1>5. /\ heardBy' \in [DOMAIN Script -> SUBSET Questions]
      /\ heardBy'[Current] = heardBy[Current] \cup {q}
      /\ \A l \in DOMAIN Script \ {Current} : heardBy'[l] = heardBy[l]
    BY <1>1, <1>2, <1>4
<1>6. Kept /\ AnswersOK' /\ (\A r \in Questions : Settled(r)' = Settled(r))
      /\ \A r : raw(r)' = raw(r)
    BY <1>1 DEF LayersInv, Kept, AnswersOK, Settled, raw
<1>7. HeardOK'
    <2>1. ASSUME NEW l \in DOMAIN Script, NEW r \in heardBy'[l]
          PROVE  r \in Asked(l) /\ Settled(r)'
        <3>1. CASE l = Current /\ r = q
            BY <3>1, <1>1, <1>3, <1>6
        <3>2. CASE r \in heardBy[l]
            BY <3>2, <1>4, <1>6 DEF LayersInv, HeardOK
        <3>. QED  BY <3>1, <3>2, <1>5, <2>1
    <2>2. "history" \in heardBy'["deployer"] =>
             "creator" \in heardBy'["deployer"] /\ raw("creator") # None
        <3>1. ASSUME "history" \in heardBy'["deployer"], "history" \notin heardBy["deployer"]
              PROVE  "creator" \in heardBy["deployer"] /\ raw("creator") # None
            <4>1. "deployer" \in DOMAIN Script
                BY TheLayers DEF Names
            <4>2. Current = "deployer" /\ q = "history"
                BY <3>1, <4>1, <1>5
            <4>. QED  BY <4>2, <1>1, HistoryComesLast
        <3>2. "history" \in heardBy["deployer"] =>
                 "creator" \in heardBy["deployer"] /\ raw("creator") # None
            BY DEF LayersInv, HeardOK
        <3>3. heardBy["deployer"] \subseteq heardBy'["deployer"]
            BY <1>5, TheLayers DEF Names
        <3>. QED  BY <3>1, <3>2, <3>3
    <2>3. "insiders" \in heardBy'["holders"] => "holders" \in heardBy'["holders"]
        <3>1. ASSUME "insiders" \in heardBy'["holders"], "insiders" \notin heardBy["holders"]
              PROVE  "holders" \in heardBy["holders"]
            <4>1. "holders" \in DOMAIN Script
                BY TheLayers DEF Names
            <4>2. Current = "holders" /\ q = "insiders"
                BY <3>1, <4>1, <1>5
            <4>. QED  BY <4>2, <1>1, InsidersComeLast
        <3>2. "insiders" \in heardBy["holders"] => "holders" \in heardBy["holders"]
            BY DEF LayersInv, HeardOK
        <3>3. heardBy["holders"] \subseteq heardBy'["holders"]
            BY <1>5, TheLayers DEF Names
        <3>. QED  BY <3>1, <3>2, <3>3
    <2>. QED  BY <1>5, <1>6, <2>1, <2>2, <2>3 DEF HeardOK
<1>8. \A l \in Names : heardBy[l] \subseteq heardBy'[l]
    BY <1>5, TheLayers
<1>. QED  BY <1>1, <1>6, <1>7, <1>8, SameLoop

LEMMA DecisiveIsNoPass == \A o : Gate!Decisive(o) => o # "PASS"
    BY DEF Gate!Decisive

\* What Conclude does, with the verdict named.
LEMMA ConcludeFields ==
    ASSUME LayersInv, Conclude
    PROVE  LET v == Gate!Verdict(Current, Conclusion(Current), TRUE)
           IN /\ phase = "running" /\ phase' = "choose" /\ at \in 1..6 /\ at' = at + 1
              /\ Current = LayerOrder[at] /\ Current \in Names /\ NextQuestions(Current) = {}
              /\ ~ decided /\ Len(verdicts) = at - 1
              /\ verdicts' = Append(verdicts, v)
              /\ decided' = Gate!Decisive(Conclusion(Current))
              /\ v = [layer |-> Current, outcome |-> Conclusion(Current), ran |-> TRUE]
              /\ UNCHANGED <<failClosed, skipped, result, answers, heardBy>>
<1>1. phase = "running" /\ at <= 6 /\ ~ decided /\ Len(verdicts) = at - 1
    BY DEF Conclude, LayersInv, LoopOK, VerdictsOK
<1>2. at \in 1..6 /\ Current = LayerOrder[at] /\ Current \in Names
    BY <1>1, CurrentIsALayer
<1>3. Gate!Verdict(Current, Conclusion(Current), TRUE)
        = [layer |-> Current, outcome |-> Conclusion(Current), ran |-> TRUE]
    BY DEF Gate!Verdict
<1>. QED  BY <1>1, <1>2, <1>3, Zenon DEF Conclude

\* A verdict more.
LEMMA OneMore ==
    ASSUME NEW T, NEW s \in Seq(T), NEW x \in T
    PROVE  /\ Append(s, x) \in Seq(T)
           /\ Len(Append(s, x)) = Len(s) + 1 /\ DOMAIN Append(s, x) = 1..(Len(s) + 1)
           /\ DOMAIN s = 1..Len(s) /\ Len(s) \in Nat
           /\ Append(s, x)[Len(s) + 1] = x
           /\ \A i \in 1..Len(s) : Append(s, x)[i] = s[i]
    OBVIOUS

VerdictType == [layer : DOMAIN Script, outcome : Gate!Outcomes, ran : {TRUE}]

\* The only step that records a verdict: a PASS is one on answers that were heard.
LEMMA ConcludeKeeps ==
    ASSUME LayersInv, Conclude PROVE LayersInv'
<1> DEFINE o == Conclusion(Current)
           v == [layer |-> Current, outcome |-> o, ran |-> TRUE]
<1>1. /\ phase = "running" /\ phase' = "choose" /\ at \in 1..6 /\ at' = at + 1
      /\ Current = LayerOrder[at] /\ Current \in Names /\ NextQuestions(Current) = {}
      /\ ~ decided /\ Len(verdicts) = at - 1
      /\ verdicts' = Append(verdicts, v)
      /\ decided' = Gate!Decisive(o)
      /\ UNCHANGED <<failClosed, answers, heardBy>>
    BY ConcludeFields
<1>2. /\ o \in Gate!Outcomes
      /\ o = "PASS" => Cleared(Current)
    BY <1>1, Returns
<1>3. v \in VerdictType
    BY <1>1, <1>2, TheLayers DEF VerdictType
<1>4. v.layer = Current /\ v.outcome = o
    OBVIOUS
<1> HIDE DEF v, o
<1>5. decided' \in BOOLEAN
    BY <1>1, Zenon DEF Gate!Decisive
<1>6. LoopOK'
    BY <1>1, <1>5 DEF LoopOK
<1>7. Kept /\ AnswersOK' /\ HeardOK' /\ \A l \in Names : heardBy[l] \subseteq heardBy'[l]
    BY <1>1, SameAnswers
<1>8. VerdictsOK'
    <2>1. verdicts \in Seq(VerdictType)
        BY DEF LayersInv, VerdictsOK, VerdictType
    <2>2. /\ verdicts' \in Seq(VerdictType)
          /\ Len(verdicts') = at /\ DOMAIN verdicts' = 1..at
          /\ DOMAIN verdicts = 1..(at - 1)
          /\ verdicts'[at] = v
          /\ \A i \in 1..(at - 1) : verdicts'[i] = verdicts[i]
        <3>1. Len(verdicts) + 1 = at
            BY <1>1
        <3>. QED  BY <1>1, <1>3, <2>1, <3>1, OneMore
    <2>3. ASSUME NEW i \in DOMAIN verdicts'
          PROVE  /\ verdicts'[i].layer = LayerOrder[i]
                 /\ verdicts'[i].outcome = "PASS" => Cleared(LayerOrder[i])'
        <3>1. CASE i = at
            BY <3>1, <1>1, <1>2, <1>4, <1>7, <2>2, ClearedStays
        <3>2. CASE i # at
            <4>1. i \in 1..(at - 1) /\ i \in 1..6
                BY <3>2, <2>2, <1>1
            <4>2. /\ verdicts[i].layer = LayerOrder[i]
                  /\ verdicts[i].outcome = "PASS" => Cleared(LayerOrder[i])
                BY <4>1, <2>2 DEF LayersInv, VerdictsOK
            <4>. QED  BY <4>1, <4>2, <1>7, <2>2, OrderOfLayers, ClearedStays
        <3>. QED  BY <3>1, <3>2
    <2>4. decided' => \E i \in DOMAIN verdicts' : verdicts'[i].outcome # "PASS"
        <3>1. at \in DOMAIN verdicts'
            BY <1>1, <2>2
        <3>. QED  BY <3>1, <1>1, <1>4, <2>2, DecisiveIsNoPass
    <2>5. Len(verdicts') <= at' - 1 /\ Len(verdicts') = at' - 1
        BY <1>1, <2>2
    <2>. QED  BY <2>2, <2>3, <2>4, <2>5 DEF VerdictsOK, VerdictType
<1>. QED  BY <1>1, <1>6, <1>7, <1>8 DEF LayersInv

\* LayersInv is inductive.
LEMMA LayersStep == LayersInv /\ [Next]_layerVars => LayersInv'
<1> SUFFICES ASSUME LayersInv, [Next]_layerVars PROVE LayersInv'
    OBVIOUS
<1>1. CASE Begin  BY <1>1, BeginKeeps
<1>2. CASE SkipLayer  BY <1>2, SkipKeeps
<1>3. CASE StartLayer  BY <1>3, StartKeeps
<1>4. CASE Conclude  BY <1>4, ConcludeKeeps
<1>5. CASE Finish  BY <1>5, FinishKeeps
<1>6. ASSUME NEW q \in Questions, Ask(q) \/ Answer(q) \/ Hear(q)
      PROVE  LayersInv'
    BY <1>6, AskKeeps, AnswerKeeps, HearKeeps
<1>7. CASE UNCHANGED layerVars
    <2>1. /\ phase' = phase /\ UNCHANGED <<answers, heardBy>>
          /\ UNCHANGED <<failClosed, at, decided, verdicts, skipped, result>>
        BY <1>7 DEF layerVars
    <2>. QED  BY <2>1, SameAnswers, SameLoop
<1>. QED  BY <1>1, <1>2, <1>3, <1>4, <1>5, <1>6, <1>7 DEF Next

\* LayersInv holds: whatever answers come and in whatever order, a layer's verdict
\* on record is what runLayer (index.js) makes of answers that layer awaited.
THEOREM LayersHold == Spec => []LayersInv
BY InitLayers, LayersStep, PTL DEF Spec

-----------------------------------------------------------------------------
(* The run is a run of SafetyGate.                                         *)
\* The verdicts are those of the first layers, one each.
LEMMA VerdictsSoFar ==
    ASSUME LayersInv
    PROVE  /\ DOMAIN verdicts = 1..Len(verdicts) /\ Len(verdicts) \in Nat /\ Len(verdicts) <= 6
           /\ \A i \in DOMAIN verdicts : i \in 1..6 /\ verdicts[i].layer = LayerOrder[i]
           /\ \A l \in Names : \A i, j \in VerdictOf(l) : i = j
           /\ \A j \in 1..6 : j > Len(verdicts) => VerdictOf(LayerOrder[j]) = {}
<1>1. /\ DOMAIN verdicts = 1..Len(verdicts) /\ Len(verdicts) \in Nat /\ Len(verdicts) <= 6
      /\ \A i \in DOMAIN verdicts : verdicts[i].layer = LayerOrder[i]
    BY DEF LayersInv, VerdictsOK, LoopOK
<1>2. \A i \in DOMAIN verdicts : i \in 1..6
    BY <1>1
<1>3. \A l \in Names : \A i, j \in VerdictOf(l) : i = j
    BY <1>1, <1>2, OrderOfLayers DEF VerdictOf
<1>4. \A j \in 1..6 : j > Len(verdicts) => VerdictOf(LayerOrder[j]) = {}
    BY <1>1, <1>2, OrderOfLayers DEF VerdictOf
<1>. QED  BY <1>1, <1>2, <1>3, <1>4

\* The initial states map.
LEMMA GateStarts == Init => Gate!Init
<1> SUFFICES ASSUME Init PROVE Gate!Init
    OBVIOUS
<1>1. /\ failClosed = TRUE /\ phase = "start" /\ at = 1 /\ decided = FALSE
      /\ verdicts = << >> /\ skipped = << >> /\ result = None
      /\ answers = [q \in Questions |-> Unasked]
      /\ heardBy = [l \in DOMAIN Script |-> {}]
    BY Zenon DEF Init
<1>2. gateDue = 0
    BY <1>1 DEF gateDue
<1>3. gateWork = [l \in Gate!Layers |-> "none"]
    <2>1. \A l : VerdictOf(l) = {}
        BY <1>1 DEF VerdictOf
    <2>. QED  BY <1>1, <2>1, GateLayers, TheLayers DEF gateWork
<1>4. gateCell = [q \in Questions |-> "empty"]
    BY <1>1 DEF gateCell, CellOf
<1>5. gateCalls = [q \in Questions |-> 0]
    BY <1>1 DEF gateCalls
<1>6. gateHeard = [l \in Gate!Layers |-> << >>]
    <2>1. \A l \in DOMAIN Script : [q \in heardBy[l] |-> CellOf(q)] = << >>
        <3>1. TAKE l \in DOMAIN Script
        <3>2. heardBy[l] = {}
            BY <1>1
        <3>. QED  BY <3>2
    <2>. QED  BY <2>1, GateLayers, TheLayers DEF gateHeard
<1>. QED  BY <1>1, <1>2, <1>3, <1>4, <1>5, <1>6 DEF Gate!Init

\* A step that asks and hears nothing looks the same from SafetyGate.
LEMMA SameView ==
    ASSUME UNCHANGED <<answers, heardBy>>
    PROVE  gateCell' = gateCell /\ gateCalls' = gateCalls /\ gateHeard' = gateHeard
<1>1. \A q : CellOf(q)' = CellOf(q)
    BY DEF CellOf
<1>2. gateCell' = gateCell
    BY <1>1 DEF gateCell
<1>3. gateCalls' = gateCalls
    BY DEF gateCalls
<1>4. gateHeard' = gateHeard
    BY <1>1 DEF gateHeard
<1>. QED  BY <1>2, <1>3, <1>4

\* The work of each layer: its verdict, or busy while it runs.
LEMMA WorkType ==
    /\ DOMAIN gateWork = DOMAIN Script
    /\ \A l \in DOMAIN Script : gateWork[l] =
          IF VerdictOf(l) # {} THEN verdicts[CHOOSE i \in VerdictOf(l) : TRUE].outcome
          ELSE IF phase = "running" /\ Current = l THEN "busy" ELSE "none"
    /\ gateWork = [l \in DOMAIN Script |-> gateWork[l]]
    BY DEF gateWork

\* The same of the next state.
LEMMA WorkNext ==
    /\ DOMAIN gateWork' = DOMAIN Script
    /\ \A l \in DOMAIN Script : gateWork'[l] =
          IF VerdictOf(l)' # {} THEN verdicts'[CHOOSE i \in VerdictOf(l)' : TRUE].outcome
          ELSE IF phase' = "running" /\ Current' = l THEN "busy" ELSE "none"
    /\ gateWork' = [l \in DOMAIN Script |-> gateWork'[l]]
    BY DEF gateWork

\* What a layer's own promise did changes only when it starts or returns.
LEMMA SameWork ==
    ASSUME UNCHANGED verdicts,
           \/ phase # "running" /\ phase' # "running"
           \/ phase' = phase /\ at' = at
    PROVE  gateWork' = gateWork
<1>1. \A l : VerdictOf(l)' = VerdictOf(l)
    BY DEF VerdictOf
<1>2. ASSUME NEW l \in DOMAIN Script
      PROVE  gateWork'[l] = gateWork[l]
    <2>1. VerdictOf(l)' = VerdictOf(l) /\ verdicts' = verdicts
        BY <1>1
    <2>2. phase' = "running" /\ Current' = l <=> phase = "running" /\ Current = l
        BY DEF Current
    <2>3. gateWork'[l] =
            IF VerdictOf(l) # {} THEN verdicts[CHOOSE i \in VerdictOf(l) : TRUE].outcome
            ELSE IF phase' = "running" /\ Current' = l THEN "busy" ELSE "none"
        <3>1. gateWork'[l] =
                IF VerdictOf(l)' # {} THEN verdicts'[CHOOSE i \in VerdictOf(l)' : TRUE].outcome
                ELSE IF phase' = "running" /\ Current' = l THEN "busy" ELSE "none"
            BY WorkNext
        <3>. QED  BY <2>1, <3>1, Zenon
    <2>. QED  BY <2>2, <2>3, WorkType
<1>. QED  BY <1>2, WorkType, WorkNext

LEMMA BeginMaps ==
    ASSUME LayersInv, Begin PROVE Gate!Begin
<1>1. /\ phase = "start" /\ phase' = "choose" /\ at = 1 /\ at' = at
      /\ UNCHANGED <<failClosed, decided, verdicts, skipped, result, answers, heardBy>>
    BY DEF Begin, LayersInv, LoopOK
<1>2. gateDue' = gateDue
    BY <1>1 DEF gateDue
<1>3. gateWork' = gateWork
    BY <1>1, SameWork
<1>. QED  BY <1>1, <1>2, <1>3, SameView DEF Gate!Begin, Gate!background

LEMMA SkipMaps ==
    ASSUME LayersInv, SkipLayer PROVE Gate!SkipLayer
<1>1. /\ phase = "choose" /\ phase' = phase /\ at <= Len(LayerOrder) /\ at' = at + 1
      /\ decided /\ skipped' = Append(skipped, LayerOrder[at])
      /\ UNCHANGED <<failClosed, decided, verdicts, result, answers, heardBy>>
    BY DEF SkipLayer, Current
<1>2. at # 1 /\ at' # 1
    <2>1. verdicts # << >>
        BY <1>1 DEF LayersInv, VerdictsOK
    <2>2. at \in 1..7 /\ Len(verdicts) <= at - 1 /\ Len(verdicts) \in Nat
        BY DEF LayersInv, LoopOK, VerdictsOK
    <2>3. Len(verdicts) # 0
        BY <2>1 DEF LayersInv, VerdictsOK
    <2>. QED  BY <1>1, <2>2, <2>3
<1>3. gateDue' = gateDue
    BY <1>1, <1>2 DEF gateDue
<1>4. gateWork' = gateWork
    BY <1>1, SameWork
<1>. QED  BY <1>1, <1>3, <1>4, SameView DEF Gate!SkipLayer, Gate!background

LEMMA FinishMaps ==
    ASSUME LayersInv, Finish PROVE Gate!Finish
<1>1. /\ phase = "choose" /\ phase' = "done" /\ at > Len(LayerOrder) /\ at' = at
      /\ result' = Gate!combine(verdicts)
      /\ UNCHANGED <<failClosed, decided, verdicts, skipped, answers, heardBy>>
    BY DEF Finish
<1>2. gateDue' = gateDue
    BY <1>1 DEF gateDue
<1>3. gateWork' = gateWork
    BY <1>1, SameWork
<1>. QED  BY <1>1, <1>2, <1>3, SameView DEF Gate!Finish, Gate!background

LEMMA StartMaps ==
    ASSUME LayersInv, StartLayer PROVE Gate!StartLayer
<1>1. /\ phase = "choose" /\ phase' = "running" /\ at <= Len(LayerOrder) /\ at' = at
      /\ ~ decided
      /\ UNCHANGED <<failClosed, decided, verdicts, skipped, result, answers, heardBy>>
    BY DEF StartLayer
<1>2. /\ at \in 1..6 /\ Current = LayerOrder[at] /\ Current \in Names
      /\ Current \in DOMAIN Script /\ Current' = Current
    BY <1>1, TheLayers, CurrentIsALayer DEF Current
<1>3. gateDue' = 1 /\ gateDue \in {0, 1}
    BY <1>1 DEF gateDue
<1>4. gateDue' = Gate!Deadline /\ Gate!Remaining > 0
    BY <1>3 DEF Gate!Deadline, Gate!Remaining
<1>5. VerdictOf(Current) = {} /\ \A l : VerdictOf(l)' = VerdictOf(l)
    <2>1. at > Len(verdicts)
        BY <1>1, <1>2, VerdictsSoFar DEF LayersInv, VerdictsOK
    <2>. QED  BY <1>1, <1>2, <2>1, VerdictsSoFar DEF VerdictOf
<1>6. gateWork' = [gateWork EXCEPT ![LayerOrder[at]] = "busy"]
    <2>1. gateWork'[Current] = "busy"
        BY <1>1, <1>2, <1>5, WorkNext
    <2>2. ASSUME NEW l \in DOMAIN Script, l # Current
          PROVE  gateWork'[l] = gateWork[l]
        <3>1. VerdictOf(l)' = VerdictOf(l) /\ verdicts' = verdicts
            BY <1>1, <1>5
        <3>2. gateWork'[l] =
                IF VerdictOf(l)' # {} THEN verdicts'[CHOOSE i \in VerdictOf(l)' : TRUE].outcome
                ELSE IF phase' = "running" /\ Current' = l THEN "busy" ELSE "none"
            BY WorkNext
        <3>3. gateWork'[l] =
                IF VerdictOf(l) # {} THEN verdicts[CHOOSE i \in VerdictOf(l) : TRUE].outcome
                ELSE "none"
            BY <1>2, <2>2, <3>1, <3>2, Zenon
        <3>. QED  BY <1>1, <3>3, WorkType
    <2>. QED  BY <1>2, <2>1, <2>2, WorkType, WorkNext
<1>. QED  BY <1>1, <1>4, <1>6, SameView DEF Gate!StartLayer

\* A conclusion settles the layer the way SafetyGate lets it: a lost answer it
\* needs is an ERROR, and it has heard all it wants.
LEMMA ConcludeMaps ==
    ASSUME LayersInv, Conclude
    PROVE  Gate!Settle(Current, Conclusion(Current)) /\ Conclusion(Current) \in Gate!Outcomes
           /\ Current \in Gate!Layers
<1>0. PICK l, o, v : /\ l = Current /\ o = Conclusion(Current)
                     /\ v = [layer |-> l, outcome |-> o, ran |-> TRUE]
    OBVIOUS
<1>1. /\ phase = "running" /\ phase' = "choose" /\ at \in 1..6 /\ at' = at + 1
      /\ l = LayerOrder[at] /\ l \in Names /\ NextQuestions(l) = {}
      /\ ~ decided /\ Len(verdicts) = at - 1
      /\ verdicts' = Append(verdicts, Gate!Verdict(l, o, TRUE))
      /\ Gate!Verdict(l, o, TRUE) = v
      /\ decided' = Gate!Decisive(o)
      /\ UNCHANGED <<failClosed, skipped, result, answers, heardBy>>
    BY <1>0, ConcludeFields
<1>2. /\ o \in Gate!Outcomes
      /\ o = "PASS" => Needs[l] \cup Wants[l] \subseteq heardBy[l] /\ NoneLost(l)
      /\ o = "REJECT" => heardBy[l] # {} /\ NoneLost(l)
    BY <1>0, <1>1, Returns
<1>3. v.layer = l /\ v.outcome = o
    BY <1>0
<1>4. l \in DOMAIN Script
    BY <1>1, TheLayers
<1>6. VerdictOf(l) = {} /\ gateWork[l] = "busy"
    <2>1. VerdictOf(l) = {}
        <3>1. at > Len(verdicts) /\ Len(verdicts) \in Nat
            BY <1>1, VerdictsSoFar
        <3>. QED  BY <1>1, <3>1, VerdictsSoFar
    <2>. QED  BY <1>0, <1>1, <1>4, <2>1, WorkType
<1>7. /\ DOMAIN verdicts' = DOMAIN verdicts \cup {at} /\ at \notin DOMAIN verdicts
      /\ verdicts'[at] = v /\ \A i \in DOMAIN verdicts : verdicts'[i] = verdicts[i]
    <2>1. verdicts \in Seq(VerdictType)
        BY DEF LayersInv, VerdictsOK, VerdictType
    <2>2. v \in VerdictType
        BY <1>0, <1>2, <1>4 DEF VerdictType
    <2>3. /\ DOMAIN Append(verdicts, v) = 1..at /\ Len(verdicts) + 1 = at
          /\ DOMAIN verdicts = 1..(at - 1)
          /\ Append(verdicts, v)[at] = v
          /\ \A i \in 1..(at - 1) : Append(verdicts, v)[i] = verdicts[i]
        <3>1. Len(verdicts) + 1 = at /\ Len(verdicts) = at - 1
            BY <1>1
        <3>. QED  BY <2>1, <2>2, <3>1, OneMore
    <2>4. 1..at = 1..(at - 1) \cup {at} /\ at \notin 1..(at - 1)
        BY <1>1
    <2>. QED  BY <1>1, <2>3, <2>4
<1>8. /\ VerdictOf(l)' = {at}
      /\ \A k \in DOMAIN Script \ {l} : VerdictOf(k)' = VerdictOf(k)
    <2>1. VerdictOf(l)' = VerdictOf(l) \cup {at}
        BY <1>3, <1>7 DEF VerdictOf
    <2>2. \A k \in DOMAIN Script \ {l} : VerdictOf(k)' = VerdictOf(k)
        BY <1>3, <1>7 DEF VerdictOf
    <2>. QED  BY <1>6, <2>1, <2>2
<1>9. gateWork' = [gateWork EXCEPT ![l] = o]
    <2>1. gateWork'[l] = o
        <3> DEFINE i == CHOOSE i \in VerdictOf(l)' : TRUE
        <3>1. gateWork'[l] = verdicts'[i].outcome
            BY <1>4, <1>8, WorkNext
        <3>2. i = at
            BY <1>8
        <3>. QED  BY <1>3, <1>7, <3>1, <3>2
    <2>2. ASSUME NEW k \in DOMAIN Script, k # l
          PROVE  gateWork'[k] = gateWork[k]
        <3>1. VerdictOf(k)' = VerdictOf(k)
            BY <1>8, <2>2
        <3>2. CASE VerdictOf(k) = {}
            BY <3>1, <3>2, <1>0, <1>1, <2>2, WorkType, WorkNext
        <3>3. CASE VerdictOf(k) # {}
            <4> DEFINE i == CHOOSE i \in VerdictOf(k) : TRUE
            <4>1. i \in DOMAIN verdicts
                BY <3>3 DEF VerdictOf
            <4>2. gateWork[k] = verdicts[i].outcome /\ gateWork'[k] = verdicts'[i].outcome
                <5>1. gateWork'[k] =
                        IF VerdictOf(k)' # {}
                        THEN verdicts'[CHOOSE j \in VerdictOf(k)' : TRUE].outcome
                        ELSE IF phase' = "running" /\ Current' = k THEN "busy" ELSE "none"
                    BY WorkNext
                <5>2. gateWork'[k] = verdicts'[i].outcome
                    BY <3>1, <3>3, <5>1, Zenon
                <5>. QED  BY <3>3, <5>2, WorkType
            <4>. QED  BY <4>1, <4>2, <1>7
        <3>. QED  BY <3>2, <3>3
    <2>. QED  BY <2>1, <2>2, <1>4, WorkType, WorkNext
<1>10. Gate!MayReturn(l, o)
    <2>1. /\ DOMAIN gateHeard[l] = heardBy[l]
          /\ \A q \in heardBy[l] : gateHeard[l][q] = CellOf(q)
        BY <1>4 DEF gateHeard
    <2>2. NoneLost(l) => {q \in DOMAIN gateHeard[l] \ Wants[l] : gateHeard[l][q] = "failed"} = {}
        BY <2>1 DEF NoneLost
    <2>3. CASE o = "PASS"
        BY <2>1, <2>2, <2>3, <1>2, Zenon DEF Gate!MayReturn
    <2>4. CASE o = "REJECT"
        BY <2>1, <2>2, <2>4, <1>2 DEF Gate!MayReturn
    <2>5. CASE o = "ERROR"
        BY <2>5 DEF Gate!MayReturn
    <2>. QED  BY <2>3, <2>4, <2>5, <1>2 DEF Gate!Outcomes
<1>11. gateDue' = gateDue
    BY <1>1 DEF gateDue
<1>12. Gate!Record(o)
    BY <1>1, <1>11 DEF Gate!Record
<1>13. Gate!Settle(l, o)
    BY <1>0, <1>6, <1>9, <1>10, <1>12, <1>1, TheLayers, SameView DEF Gate!Settle, Gate!Running
<1>. QED  BY <1>0, <1>1, <1>2, <1>13, GateLayers

\* The layer that runs has no verdict yet, and is at work.
LEMMA CurrentIsBusy ==
    ASSUME LayersInv, phase = "running"
    PROVE  Current \in Names /\ gateWork[Current] = "busy"
<1>1. at <= 6 /\ ~ decided /\ Len(verdicts) = at - 1
    BY DEF LayersInv, LoopOK, VerdictsOK
<1>2. /\ at \in 1..6 /\ Current = LayerOrder[at] /\ Current \in Names
      /\ Current \in DOMAIN Script
    BY <1>1, CurrentIsALayer
<1>3. VerdictOf(Current) = {}
    <2>1. at > Len(verdicts) /\ Len(verdicts) \in Nat
        BY <1>1, <1>2, VerdictsSoFar
    <2>. QED  BY <1>2, <2>1, VerdictsSoFar
<1>. QED  BY <1>2, <1>3, WorkType

LEMMA SameRace ==
    ASSUME phase' = phase, UNCHANGED <<failClosed, at, decided, verdicts, skipped, result>>
    PROVE  gateDue' = gateDue /\ gateWork' = gateWork
<1>1. gateDue' = gateDue
    BY DEF gateDue
<1>2. UNCHANGED verdicts /\ at' = at
    OBVIOUS
<1>. QED  BY <1>1, <1>2, SameWork

LEMMA CellFacts ==
    /\ DOMAIN gateCell = Questions /\ DOMAIN gateCalls = Questions
    /\ DOMAIN gateHeard = DOMAIN Script
    /\ \A q \in Questions : /\ gateCell[q] = CellOf(q)
                            /\ gateCalls[q] = IF answers[q] = Unasked THEN 0 ELSE 1
    /\ \A l \in DOMAIN Script : gateHeard[l] = [q \in heardBy[l] |-> CellOf(q)]
    BY DEF gateCell, gateCalls, gateHeard

LEMMA AskMaps ==
    ASSUME LayersInv, NEW q \in Questions, Ask(q)
    PROVE  Current \in Gate!Layers /\ Gate!Ask(Current, q)
<1>0. PICK l : l = Current
    OBVIOUS
<1>1. /\ phase = "running" /\ phase' = phase /\ q \in NextQuestions(l)
      /\ answers[q] = Unasked /\ heardBy' = heardBy
      /\ answers' = [answers EXCEPT ![q] = Waiting]
      /\ UNCHANGED <<failClosed, at, decided, verdicts, skipped, result>>
    BY <1>0 DEF Ask
<1>2. l \in Names /\ l \in DOMAIN Script /\ gateWork[l] = "busy"
    BY <1>0, <1>1, CurrentIsBusy, TheLayers
<1>3. q \in Asked(l) /\ q \notin heardBy[l]
    BY <1>1, <1>2, NextIsAsked
<1>4. q \in Gate!Asks(l) \ DOMAIN gateHeard[l]
    BY <1>2, <1>3, AskedIsAllowed, CellFacts
<1>5. /\ DOMAIN answers = Questions /\ answers'[q] = Waiting
      /\ \A r \in Questions \ {q} : answers'[r] = answers[r]
    BY <1>1 DEF LayersInv, AnswersOK
<1>6. Waiting # Unasked
    BY LayersAssumption
<1>7. /\ CellOf(q) = "empty" /\ CellOf(q)' = "pending"
      /\ \A r \in Questions \ {q} : CellOf(r)' = CellOf(r)
    BY <1>1, <1>5, <1>6 DEF CellOf
<1>8. gateCell[q] = "empty" /\ gateCell' = [gateCell EXCEPT ![q] = "pending"]
    BY <1>7 DEF gateCell
<1>9. gateCalls' = [gateCalls EXCEPT ![q] = @ + 1]
    <2>1. gateCalls[q] = 0 /\ gateCalls'[q] = 1 /\ DOMAIN gateCalls' = Questions
          /\ (\A r \in Questions \ {q} : gateCalls'[r] = gateCalls[r])
          /\ gateCalls' = [r \in Questions |-> gateCalls'[r]]
        BY <1>1, <1>5, <1>6 DEF gateCalls
    <2>2. gateCalls[q] + 1 = 1
        BY <2>1
    <2>. QED  BY <2>1, <2>2, CellFacts
<1>10. gateHeard' = gateHeard
    <2>1. \A k \in DOMAIN Script : \A r \in heardBy[k] : r \in Questions \ {q}
        BY <1>1 DEF LayersInv, HeardOK, Settled
    <2>. QED  BY <1>1, <1>7, <2>1 DEF gateHeard
<1>11. gateDue' = gateDue /\ gateWork' = gateWork
    BY <1>1, SameRace
<1>12. Gate!Ask(l, q)
    BY <1>1, <1>2, <1>4, <1>8, <1>9, <1>10, <1>11 DEF Gate!Ask, Gate!Fetchable, Gate!race
<1>. QED  BY <1>0, <1>2, <1>12, GateLayers

LEMMA AnswerMaps ==
    ASSUME LayersInv, NEW q \in Questions, Answer(q)
    PROVE  \E value \in {"ok", "failed"} : Gate!Answer(q, value)
<1>1. /\ phase' = phase /\ answers[q] = Waiting /\ heardBy' = heardBy
      /\ UNCHANGED <<failClosed, at, decided, verdicts, skipped, result>>
    BY DEF Answer
<1>2. PICK a \in Raw[q] : answers' = [answers EXCEPT ![q] = a]
    BY DEF Answer
<1>3. /\ DOMAIN answers = Questions /\ answers'[q] = a
      /\ \A r \in Questions \ {q} : answers'[r] = answers[r]
    BY <1>2 DEF LayersInv, AnswersOK
<1>4. a # Unasked /\ a # Waiting /\ Waiting # Unasked
    BY LayersAssumption
<1>5. /\ CellOf(q) = "pending" /\ CellOf(q)' \in {"ok", "failed"}
      /\ \A r \in Questions \ {q} : CellOf(r)' = CellOf(r)
    <2>1. CellOf(q)' \in {"ok", "failed"}
        BY <1>3, <1>4 DEF CellOf
    <2>2. CellOf(q) = "pending"
        BY <1>1, <1>4 DEF CellOf
    <2>3. \A r \in Questions \ {q} : CellOf(r)' = CellOf(r)
        BY <1>3 DEF CellOf
    <2>. QED  BY <2>1, <2>2, <2>3
<1>6. PICK value \in {"ok", "failed"} : value = CellOf(q)'
    BY <1>5
<1>7. gateCell[q] = "pending" /\ gateCell' = [gateCell EXCEPT ![q] = value]
    BY <1>5, <1>6 DEF gateCell
<1>8. gateCalls' = gateCalls
    BY <1>1, <1>3, <1>4 DEF gateCalls
<1>9. gateHeard' = gateHeard
    <2>1. \A k \in DOMAIN Script : \A r \in heardBy[k] : r \in Questions \ {q}
        BY <1>1 DEF LayersInv, HeardOK, Settled
    <2>. QED  BY <1>1, <1>5, <2>1 DEF gateHeard
<1>10. gateDue' = gateDue /\ gateWork' = gateWork
    BY <1>1, SameRace
<1>11. Gate!Answer(q, value)
    BY <1>1, <1>7, <1>8, <1>9, <1>10 DEF Gate!Answer, Gate!race
<1>. QED  BY <1>6, <1>11

LEMMA HearMaps ==
    ASSUME LayersInv, NEW q \in Questions, Hear(q)
    PROVE  Current \in Gate!Layers /\ Gate!Hear(Current, q)
<1>0. PICK l : l = Current
    OBVIOUS
<1>1. /\ phase = "running" /\ phase' = phase /\ q \in NextQuestions(l)
      /\ Settled(q) /\ answers' = answers
      /\ heardBy' = [heardBy EXCEPT ![l] = @ \cup {q}]
      /\ UNCHANGED <<failClosed, at, decided, verdicts, skipped, result>>
    BY <1>0 DEF Hear, Settled
<1>2. l \in Names /\ l \in DOMAIN Script /\ gateWork[l] = "busy"
    BY <1>0, <1>1, CurrentIsBusy, TheLayers
<1>3. q \in Asked(l) /\ q \notin heardBy[l]
    BY <1>1, <1>2, NextIsAsked
<1>4. q \in Gate!Asks(l) \ DOMAIN gateHeard[l]
    BY <1>2, <1>3, AskedIsAllowed, CellFacts
<1>5. /\ heardBy'[l] = heardBy[l] \cup {q}
      /\ \A k \in DOMAIN Script \ {l} : heardBy'[k] = heardBy[k]
    BY <1>1, <1>2 DEF LayersInv, HeardOK
<1>6. \A r : CellOf(r)' = CellOf(r)
    BY <1>1 DEF CellOf
<1>7. gateCell' = gateCell /\ gateCalls' = gateCalls
    BY <1>1, <1>6 DEF gateCell, gateCalls
<1>8. gateCell[q] = CellOf(q) /\ gateCell[q] \in {"ok", "failed"}
    BY <1>1 DEF gateCell, CellOf, Settled
<1>9. gateHeard' = [gateHeard EXCEPT ![l] =
                      [r \in DOMAIN @ \cup {q} |-> IF r = q THEN gateCell[q] ELSE @[r]]]
    <2>1. /\ DOMAIN gateHeard' = DOMAIN Script
          /\ \A k \in DOMAIN Script : gateHeard'[k] = [r \in heardBy'[k] |-> CellOf(r)]
        BY <1>6 DEF gateHeard
    <2>2. gateHeard'[l] = [r \in heardBy[l] \cup {q} |-> CellOf(r)]
        BY <1>2, <1>5, <2>1
    <2>3. gateHeard[l] = [r \in heardBy[l] |-> CellOf(r)]
        BY <1>2, CellFacts
    <2>4. gateHeard'[l] = [r \in DOMAIN gateHeard[l] \cup {q} |->
                             IF r = q THEN gateCell[q] ELSE gateHeard[l][r]]
        BY <1>8, <2>2, <2>3
    <2>5. \A k \in DOMAIN Script \ {l} : gateHeard'[k] = gateHeard[k]
        BY <1>5, <2>1, CellFacts
    <2>6. gateHeard' = [k \in DOMAIN Script |-> gateHeard'[k]]
          /\ gateHeard = [k \in DOMAIN Script |-> gateHeard[k]]
        BY DEF gateHeard
    <2>. QED  BY <1>2, <2>4, <2>5, <2>6
<1>10. gateDue' = gateDue /\ gateWork' = gateWork
    BY <1>1, SameRace
<1>11. Gate!Hear(l, q)
    BY <1>1, <1>2, <1>4, <1>7, <1>8, <1>9, <1>10 DEF Gate!Hear, Gate!race
<1>. QED  BY <1>0, <1>2, <1>11, GateLayers

\* Six layers that ask, hear and conclude as they do are layers as SafetyGate
\* supposes them: each step of this run is a step of SafetyGate's, or none.
LEMMA StepsMap == LayersInv /\ [Next]_layerVars => [Gate!Next]_(Gate!gateVars)
<1> SUFFICES ASSUME LayersInv, [Next]_layerVars PROVE [Gate!Next]_(Gate!gateVars)
    OBVIOUS
<1>1. CASE Begin
    BY <1>1, BeginMaps DEF Gate!Next, Gate!Loop
<1>2. CASE SkipLayer
    BY <1>2, SkipMaps DEF Gate!Next, Gate!Loop
<1>3. CASE StartLayer
    BY <1>3, StartMaps DEF Gate!Next, Gate!Loop
<1>4. CASE Conclude
    BY <1>4, ConcludeMaps DEF Gate!Next
<1>5. CASE Finish
    BY <1>5, FinishMaps DEF Gate!Next, Gate!Loop
<1>6. ASSUME NEW q \in Questions, Ask(q)
      PROVE  Gate!Next
    BY <1>6, AskMaps DEF Gate!Next
<1>7. ASSUME NEW q \in Questions, Answer(q)
      PROVE  Gate!Next
    BY <1>7, AnswerMaps DEF Gate!Next
<1>8. ASSUME NEW q \in Questions, Hear(q)
      PROVE  Gate!Next
    BY <1>8, HearMaps DEF Gate!Next
<1>9. CASE UNCHANGED layerVars
    <2>1. /\ phase' = phase /\ UNCHANGED <<answers, heardBy>>
          /\ UNCHANGED <<failClosed, at, decided, verdicts, skipped, result>>
        BY <1>9 DEF layerVars
    <2>. QED  BY <2>1, SameView, SameRace DEF Gate!gateVars, Gate!race
<1>. QED  BY <1>1, <1>2, <1>3, <1>4, <1>5, <1>6, <1>7, <1>8, <1>9 DEF Next

\* Running the six real layers one after another is a behaviour of SafetyGate:
\* what is proved of the gate for abstract layers holds for these.
THEOREM LayersImplementGate == Spec => ImplementsGate
<1>1. Init => Gate!Init
    BY GateStarts
<1>2. LayersInv /\ [Next]_layerVars => [Gate!Next]_(Gate!gateVars)
    BY StepsMap
<1>. QED  BY <1>1, <1>2, LayersHold, PTL DEF Spec, ImplementsGate

-----------------------------------------------------------------------------
(* Greatest elements and sums of finite sets, by least counterexample.     *)
\* A finite set of numbers has a greatest one.
LEMMA GreatestExists ==
    ASSUME NEW S, \A x \in S : x \in Int, IsFiniteSet(S), S # {}
    PROVE  \E m \in S : \A x \in S : m >= x
<1> DEFINE HasMax(s) == \E m \in s : \A x \in s : m >= x
           B == {s \in SUBSET S : s # {} /\ ~ HasMax(s)}
<1>1. \A s : s \in B <=> s \in SUBSET S /\ s # {} /\ ~ HasMax(s)
    OBVIOUS
<1>2. SUFFICES ASSUME B # {} PROVE FALSE
    <2>1. S \notin B
        BY <1>2
    <2>. QED  BY <2>1
<1>3. PICK s \in B : \A t \in SUBSET s : t \in B => t = s
    <2>1. B \in SUBSET (SUBSET S)
        OBVIOUS
    <2> HIDE DEF B
    <2>. QED  BY <1>2, <2>1, LeastSubset
<1>4. s \in SUBSET S /\ s # {} /\ ~ HasMax(s)
    BY <1>1, <1>3
<1>5. PICK x \in s : TRUE
    BY <1>4
<1>6. x \in Int /\ s \subseteq Int
    BY <1>4, <1>5
<1>7. CASE s \ {x} = {}
    <2>1. \A y \in s : y = x
        BY <1>7
    <2>2. HasMax(s)
        BY <1>5, <1>6, <2>1
    <2>. QED  BY <1>4, <2>2
<1>8. CASE s \ {x} # {}
    <2>1. HasMax(s \ {x})
        <3>1. s \ {x} \in SUBSET s /\ s \ {x} # s /\ s \ {x} \in SUBSET S
            BY <1>4, <1>5
        <3> HIDE DEF B, HasMax
        <3>. QED  BY <1>1, <1>3, <1>8, <3>1
    <2>2. PICK m \in s \ {x} : \A y \in s \ {x} : m >= y
        BY <2>1
    <2>3. HasMax(s)
        <3>0. m \in Int /\ m \in s
            BY <1>6
        <3>1. CASE m >= x
            BY <3>0, <3>1, <2>2
        <3>2. CASE ~ (m >= x)
            <4>1. \A y \in s : x >= y
                BY <3>0, <3>2, <2>2, <1>6
            <4>. QED  BY <1>5, <4>1
        <3>. QED  BY <3>1, <3>2
    <2>. QED  BY <1>4, <2>3
<1>. QED  BY <1>7, <1>8

\* Max is it.
LEMMA MaxIsGreatest ==
    ASSUME NEW S, \A x \in S : x \in Int, IsFiniteSet(S), S # {}
    PROVE  Max(S) \in S /\ \A x \in S : Max(S) >= x
<1>1. \E m \in S : \A x \in S : m >= x
    <2>1. \A x \in S : x \in Int
        OBVIOUS
    <2>. QED  BY <2>1, GreatestExists
<1>. QED  BY <1>1 DEF Max

\* What a function gives on a finite set is finite.
LEMMA ImageIsFinite ==
    ASSUME NEW S, IsFiniteSet(S), NEW f
    PROVE  IsFiniteSet({f[x] : x \in S})
<1> DEFINE T == {f[x] : x \in S}
           g == [x \in S |-> f[x]]
<1>1. g \in [S -> T]
    OBVIOUS
<1>2. \A t \in T : \E x \in S : g[x] = t
    OBVIOUS
<1>3. g \in Surjection(S, T)
    <2> HIDE DEF g, T
    <2>. QED  BY <1>1, <1>2 DEF Surjection
<1> HIDE DEF g, T
<1>4. IsFiniteSet(T)
    BY <1>3, FS_Surjection
<1>. QED  BY <1>4 DEF T

\* Below, h gives the sum of f over each part of S.
LEMMA SumOfUnion ==
    ASSUME NEW S, IsFiniteSet(S), NEW f, NEW h, Sums(h, f, S),
           \A x \in S : f[x] \in Int, NEW A \in SUBSET S
    PROVE  \A C \in SUBSET (S \ A) : h[A \cup C] = h[A] + h[C]
<1>0. /\ h \in [SUBSET S -> Int] /\ h[{}] = 0
      /\ \A s \in SUBSET S : \A x \in s : h[s] = f[x] + h[s \ {x}]
    BY DEF Sums
<1> DEFINE B == {C \in SUBSET (S \ A) : h[A \cup C] # h[A] + h[C]}
<1>1. SUFFICES ASSUME B # {} PROVE FALSE
    OBVIOUS
<1>2. PICK C \in B : \A t \in SUBSET C : t \in B => t = C
    <2>1. B \in SUBSET (SUBSET S)
        OBVIOUS
    <2> HIDE DEF B
    <2>. QED  BY <1>1, <2>1, LeastSubset
<1>3. C # {}
    <2>1. SUFFICES ASSUME C = {} PROVE h[A \cup C] = h[A] + h[C]
        BY <1>2
    <2>2. A \cup C = A
        BY <2>1
    <2>3. h[A \cup C] = h[A] /\ h[C] = 0 /\ h[A] \in Int
        BY <1>0, <2>1, <2>2
    <2>. QED  BY <2>3
<1>4. PICK x \in C : TRUE
    BY <1>3
<1>5. h[A \cup (C \ {x})] = h[A] + h[C \ {x}]
    <2>1. C \ {x} \in SUBSET C /\ C \ {x} # C /\ C \ {x} \in SUBSET (S \ A)
        BY <1>4
    <2>. QED  BY <1>2, <2>1
<1>6. h[C] = f[x] + h[C \ {x}]
    BY <1>0, <1>4
<1>7. h[A \cup C] = f[x] + h[A \cup (C \ {x})]
    <2>1. (A \cup C) \ {x} = A \cup (C \ {x}) /\ A \cup C \in SUBSET S /\ x \in A \cup C
        BY <1>4
    <2>2. h[A \cup C] = f[x] + h[(A \cup C) \ {x}]
        BY <1>0, <2>1
    <2>. QED  BY <2>1, <2>2
<1>8. /\ f[x] \in Int /\ h[A] \in Int /\ h[C] \in Int /\ h[C \ {x}] \in Int
      /\ h[A \cup C] # h[A] + h[C]
    BY <1>0, <1>4
<1>. QED  BY <1>5, <1>6, <1>7, <1>8

\* Two sums over one set, term by term: the smaller terms, the smaller sum.
LEMMA SumAtMost ==
    ASSUME NEW S, IsFiniteSet(S), NEW f, NEW h, Sums(h, f, S),
           \A x \in S : f[x] \in Int, NEW m \in Int, NEW A \in SUBSET S,
           \A x \in A : f[x] <= m
    PROVE  h[A] <= m * Cardinality(A)
<1>0. /\ h \in [SUBSET S -> Int] /\ h[{}] = 0
      /\ \A s \in SUBSET S : \A x \in s : h[s] = f[x] + h[s \ {x}]
    BY DEF Sums
<1> DEFINE B == {C \in SUBSET A : ~ (h[C] <= m * Cardinality(C))}
<1>1. SUFFICES ASSUME B # {} PROVE FALSE
    OBVIOUS
<1>2. PICK C \in B : \A t \in SUBSET C : t \in B => t = C
    <2>1. B \in SUBSET (SUBSET S)
        OBVIOUS
    <2> HIDE DEF B
    <2>. QED  BY <1>1, <2>1, LeastSubset
<1>3. C # {}
    <2>1. SUFFICES ASSUME C = {} PROVE h[C] <= m * Cardinality(C)
        BY <1>2
    <2>2. Cardinality(C) = 0 /\ h[C] = 0
        BY <1>0, <2>1, FS_EmptySet
    <2>3. m * 0 = 0
        OBVIOUS
    <2>. QED  BY <2>2, <2>3
<1>4. PICK x \in C : TRUE
    BY <1>3
<1>5. h[C \ {x}] <= m * Cardinality(C \ {x})
    <2>1. C \ {x} \in SUBSET C /\ C \ {x} # C /\ C \ {x} \in SUBSET A
        BY <1>4
    <2>. QED  BY <1>2, <2>1
<1>6. h[C] = f[x] + h[C \ {x}]
    BY <1>0, <1>4
<1>7. Cardinality(C) = Cardinality(C \ {x}) + 1 /\ Cardinality(C \ {x}) \in Nat
    <2>1. C \in SUBSET S
        BY <1>2
    <2>2. IsFiniteSet(C)
        BY <2>1, FS_Subset
    <2>3. /\ IsFiniteSet(C \ {x}) /\ Cardinality(C \ {x}) = Cardinality(C) - 1
          /\ Cardinality(C) \in Nat
        BY <1>4, <2>2, FS_RemoveElement, FS_CardinalityType
    <2>4. Cardinality(C \ {x}) \in Nat
        BY <2>3, FS_CardinalityType
    <2>. QED  BY <2>3, <2>4
<1>8. m * (Cardinality(C \ {x}) + 1) = m * Cardinality(C \ {x}) + m
    BY <1>7
<1>9. f[x] \in Int /\ f[x] <= m /\ h[C] \in Int /\ h[C \ {x}] \in Int
    BY <1>0, <1>4
<1>10. m * Cardinality(C \ {x}) \in Int
    BY <1>7
<1>11. ~ (h[C] <= m * Cardinality(C))
    BY <1>2
<1>. QED  BY <1>5, <1>6, <1>7, <1>8, <1>9, <1>10, <1>11

\* A sum of terms of at least m.
LEMMA SumAtLeast ==
    ASSUME NEW S, IsFiniteSet(S), NEW f, NEW h, Sums(h, f, S),
           \A x \in S : f[x] \in Int, NEW m \in Int, NEW A \in SUBSET S,
           \A x \in A : f[x] >= m
    PROVE  h[A] >= m * Cardinality(A)
<1>0. /\ h \in [SUBSET S -> Int] /\ h[{}] = 0
      /\ \A s \in SUBSET S : \A x \in s : h[s] = f[x] + h[s \ {x}]
    BY DEF Sums
<1> DEFINE B == {C \in SUBSET A : ~ (h[C] >= m * Cardinality(C))}
<1>1. SUFFICES ASSUME B # {} PROVE FALSE
    OBVIOUS
<1>2. PICK C \in B : \A t \in SUBSET C : t \in B => t = C
    <2>1. B \in SUBSET (SUBSET S)
        OBVIOUS
    <2> HIDE DEF B
    <2>. QED  BY <1>1, <2>1, LeastSubset
<1>3. C # {}
    <2>1. SUFFICES ASSUME C = {} PROVE h[C] >= m * Cardinality(C)
        BY <1>2
    <2>2. Cardinality(C) = 0 /\ h[C] = 0
        BY <1>0, <2>1, FS_EmptySet
    <2>3. m * 0 = 0
        OBVIOUS
    <2>. QED  BY <2>2, <2>3
<1>4. PICK x \in C : TRUE
    BY <1>3
<1>5. h[C \ {x}] >= m * Cardinality(C \ {x})
    <2>1. C \ {x} \in SUBSET C /\ C \ {x} # C /\ C \ {x} \in SUBSET A
        BY <1>4
    <2>. QED  BY <1>2, <2>1
<1>6. h[C] = f[x] + h[C \ {x}]
    BY <1>0, <1>4
<1>7. Cardinality(C) = Cardinality(C \ {x}) + 1 /\ Cardinality(C \ {x}) \in Nat
    <2>1. C \in SUBSET S
        BY <1>2
    <2>2. IsFiniteSet(C)
        BY <2>1, FS_Subset
    <2>3. /\ IsFiniteSet(C \ {x}) /\ Cardinality(C \ {x}) = Cardinality(C) - 1
          /\ Cardinality(C) \in Nat
        BY <1>4, <2>2, FS_RemoveElement, FS_CardinalityType
    <2>4. Cardinality(C \ {x}) \in Nat
        BY <2>3, FS_CardinalityType
    <2>. QED  BY <2>3, <2>4
<1>8. m * (Cardinality(C \ {x}) + 1) = m * Cardinality(C \ {x}) + m
    BY <1>7
<1>9. f[x] \in Int /\ f[x] >= m /\ h[C] \in Int /\ h[C \ {x}] \in Int
    BY <1>0, <1>4
<1>10. m * Cardinality(C \ {x}) \in Int
    BY <1>7
<1>11. ~ (h[C] >= m * Cardinality(C))
    BY <1>2
<1>. QED  BY <1>5, <1>6, <1>7, <1>8, <1>9, <1>10, <1>11

\* A sum of what is not negative grows with its set.
LEMMA SumGrows ==
    ASSUME NEW S, IsFiniteSet(S), NEW f, NEW h, Sums(h, f, S),
           \A x \in S : f[x] \in Nat, NEW C \in SUBSET S, NEW A \in SUBSET C
    PROVE  h[A] <= h[C]
<1>1. \A x \in S : f[x] \in Int
    OBVIOUS
<1>2. C \ A \in SUBSET S /\ C \ A \in SUBSET (S \ A) /\ A \cup (C \ A) = C /\ A \in SUBSET S
    OBVIOUS
<1>3. h[C] = h[A] + h[C \ A]
    <2>1. \A D \in SUBSET (S \ A) : h[A \cup D] = h[A] + h[D]
        BY <1>1, <1>2, SumOfUnion
    <2>. QED  BY <1>2, <2>1
<1>4. h[C \ A] >= 0 * Cardinality(C \ A)
    <2>1. \A x \in C \ A : f[x] >= 0
        BY <1>2
    <2>. QED  BY <1>1, <1>2, <2>1, SumAtLeast
<1>5. Cardinality(C \ A) \in Nat
    BY <1>2, FS_Subset, FS_CardinalityType
<1>6. h[C \ A] \in Int /\ h[A] \in Int
    BY <1>2 DEF Sums
<1>. QED  BY <1>3, <1>4, <1>5, <1>6

-----------------------------------------------------------------------------
(* What each layer's PASS says about the raw answers: the layers that read one *)
(* answer.                                                                 *)
LEMMA NoReason ==
    ASSUME NEW S, ByReasons(S) = "PASS"
    PROVE  S = {}
    BY DEF ByReasons

\* Layer 0: the account exists, is a mint, and is inert.
LEMMA PassedMint ==
    ASSUME NEW a, checkMint(a) = "PASS"
    PROVE  MintIsInert(a)
<1> DEFINE facts == fetchMintFacts(a)
<1>1. /\ facts # Failed
      /\ evaluateMintFacts(facts) = {}
    <2> HIDE DEF facts
    <2>1. checkMint(a) = IF facts = Failed THEN "ERROR"
                         ELSE IF ~ FactsReadable(facts) THEN "ERROR"
                         ELSE ByReasons(evaluateMintFacts(facts))
        BY DEF checkMint, facts
    <2>. QED  BY <2>1, NoReason
<1>2. /\ a.exists /\ a.owner \in TokenPrograms
      /\ facts.isInitialized = a.initialized
      /\ facts.mintAuthority = addressOrNull(a.mintAuthority)
      /\ facts.freezeAuthority = addressOrNull(a.freezeAuthority)
      /\ facts.extensions = enumerateExtensions(a)
    BY <1>1 DEF fetchMintFacts, readAccountEnvelope, Unpacks
<1> HIDE DEF facts
<1>3. /\ authorityReasons(facts) = {}
      /\ disallowedExtensions(facts.extensions) = {}
      /\ initialisationReasons(facts) = {}
    BY <1>1 DEF evaluateMintFacts
<1>4. facts["mintAuthority"] = None /\ facts["freezeAuthority"] = None
    BY <1>3 DEF authorityReasons
<1>5. {a.mintAuthority, a.freezeAuthority} \subseteq {None, ZeroKey}
    BY <1>2, <1>4 DEF addressOrNull
<1>6. a.initialized
    <2>1. "uninitialized" \notin initialisationReasons(facts)
        BY <1>3
    <2>2. facts.isInitialized
        BY <2>1 DEF initialisationReasons
    <2>. QED  BY <1>2, <2>2
<1>7. \A i \in DOMAIN a.tlv : a.tlv[i].code \in AllowedExtensions \cup {"uninitialized"}
    BY <1>2, <1>3 DEF disallowedExtensions, enumerateExtensions
<1>. QED  BY <1>2, <1>5, <1>6, <1>7 DEF MintIsInert

\* Layer 1: what it sells for was quoted, after at most one failure to answer.
LEMMA PassedSell ==
    ASSUME NEW a, a # Failed => RoundTripShape(a), checkSellability(a) = "PASS"
    PROVE  ReallySells(a.sell)
<1> DEFINE leg == a.sell
           sell == getQuote(leg)
           response == IF Retried(leg[1]) THEN leg[2] ELSE leg[1]
           rt == getRoundTrip(a)
<1>1. /\ rt # Failed /\ rt.sellRouteExists
      /\ ~ ((Probe - rt.returned) * 100 > MaxRoundTripLossPct * Probe)
    <2> HIDE DEF rt
    <2>. QED  BY DEF checkSellability, rt
<1>2. a # Failed /\ rt = [sellRouteExists |-> sell.routed, returned |-> sell.out]
    <2> HIDE DEF sell, leg
    <2>. QED  BY <1>1 DEF getRoundTrip, sell, leg
<1>3. sell.routed /\ ~ ((100 - sell.out) * 100 > 800)
    <2> HIDE DEF sell, rt
    <2>1. rt.sellRouteExists = sell.routed /\ rt.returned = sell.out
        BY <1>2
    <2>2. sell.routed
        BY <1>1, <2>1
    <2>3. MaxRoundTripLossPct * Probe = 800
        BY DEF MaxRoundTripLossPct, Probe
    <2>4. (100 - sell.out) * 100 = (Probe - rt.returned) * 100
        BY <2>1 DEF Probe
    <2>. QED  BY <1>1, <2>2, <2>3, <2>4
<1>4. sell # Failed
    <2> HIDE DEF sell
    <2>. QED  BY <1>1 DEF getRoundTrip, sell
<1>5. /\ response # Failed /\ Quoted(response) /\ sell.out = response.out
    <2> HIDE DEF response, leg
    <2>1. sell = IF response = Failed THEN Failed
                 ELSE IF NoRoute(response) THEN [routed |-> FALSE, out |-> 0]
                 ELSE IF Quoted(response) THEN [routed |-> TRUE, out |-> response.out]
                 ELSE Failed
        BY DEF getQuote, response
    <2> HIDE DEF sell
    <2>2. response # Failed
        BY <1>4, <2>1
    <2>3. ~ NoRoute(response)
        <3>1. ASSUME NoRoute(response) PROVE FALSE
            <4>1. sell = [routed |-> FALSE, out |-> 0]
                BY <2>1, <2>2, <3>1
            <4>. QED  BY <1>3, <4>1
        <3>. QED  BY <3>1
    <2>4. Quoted(response)
        BY <1>4, <2>1, <2>2, <2>3
    <2>. QED  BY <2>1, <2>2, <2>3, <2>4
<1>6. PICK i \in 1..2 : /\ i \in DOMAIN leg /\ response = leg[i]
                        /\ i = 2 => leg[1] = Failed \/ leg[1].status = 429
    <2>1. DOMAIN leg = 1..2
        BY <1>2 DEF RoundTripShape
    <2>. QED  BY <2>1 DEF Retried
<1>7. response.out \in Int
    BY <1>2, <1>5, <1>6 DEF RoundTripShape
<1>8. response.out >= 92
    <2> HIDE DEF sell, response
    <2>1. sell.out = response.out
        BY <1>5
    <2>. QED  BY <1>3, <1>7, <2>1
<1>. QED  BY <1>5, <1>6, <1>8 DEF ReallySells, Quoted

\* The clause of BuyableMeansMeasured on the deployer.
DeployerIsKnown(c, h) ==
    IF c = None THEN "deployer" \in unverifiedDeployer(None, None)
    ELSE IF h.rugs = None \/ h.mints \in {None, 0}
         THEN "rugRate" \in unverifiedDeployer(c, h)
         ELSE 4 * h.rugs <= h.mints

\* Layer 4: no creator, or a rug rate that is unknown and named, or small.
LEMMA PassedDeployer ==
    ASSUME NEW c, NEW h, None \notin Int, c # None /\ h # Failed => HistoryShape(h),
           checkDeployer(c, h) = "PASS"
    PROVE  DeployerIsKnown(c, h)
<1>1. CASE c = None
    BY <1>1 DEF DeployerIsKnown, unverifiedDeployer
<1>2. CASE c # None
    <2>1. h # Failed /\ ~ TooManyRugs(h) /\ HistoryShape(h)
        BY <1>2 DEF checkDeployer
    <2>2. CASE h.rugs = None \/ h.mints \in {None, 0}
        <3>1. ~ RateKnown(h)
            BY <2>2 DEF RateKnown
        <3>. QED  BY <1>2, <2>2, <3>1 DEF DeployerIsKnown, unverifiedDeployer
    <2>3. CASE ~ (h.rugs = None \/ h.mints \in {None, 0})
        <3>1. h.rugs \in Int /\ h.mints \in Int /\ h.mints > 0
            BY <2>1, <2>3 DEF HistoryShape, Count
        <3>2. RateKnown(h)
            BY <2>3, <3>1 DEF RateKnown
        <3>3. 4 * h.rugs <= h.mints
            BY <2>1, <3>1, <3>2 DEF TooManyRugs
        <3>. QED  BY <1>2, <2>3, <3>3 DEF DeployerIsKnown
    <2>. QED  BY <2>2, <2>3
<1>. QED  BY <1>1, <1>2

LEMMA ReadReport ==
    ASSUME NEW a, getTokenReport(a) # Failed
    PROVE  /\ a # Failed /\ a.score # None /\ ~ (a.score < 0)
           /\ getTokenReport(a) = normaliseTokenReport(a)
    BY DEF getTokenReport

\* Layer 5: a score on the documented scale, low enough, and not rugged.
LEMMA PassedReport ==
    ASSUME NEW a, None \notin Int, a # Failed => ReportShape(a), checkThirdParty(a) = "PASS"
    PROVE  /\ getTokenReport(a) # Failed
           /\ a.score \in 0..20 /\ a.rugged # TRUE
<1> DEFINE report == getTokenReport(a)
<1>1. report # Failed /\ thirdPartyReasons(report) = {}
    BY NoReason DEF checkThirdParty
<1>2. a # Failed /\ a.score # None /\ ~ (a.score < 0) /\ report = normaliseTokenReport(a)
    BY <1>1, ReadReport
<1>3. report.scoreNormalised = a.score /\ report.rugged = (a.rugged = TRUE)
    BY <1>2 DEF normaliseTokenReport
<1> HIDE DEF report
<1>4. "score" \notin thirdPartyReasons(report) /\ "rugged" \notin thirdPartyReasons(report)
    BY <1>1
<1>5. ~ (report.scoreNormalised > MaxRugcheckScore) /\ ~ report.rugged
    BY <1>4, Zenon DEF thirdPartyReasons
<1>6. a.score \in Int
    BY <1>2 DEF ReportShape, Count
<1>7. a.score \in 0..20
    BY <1>2, <1>3, <1>5, <1>6 DEF MaxRugcheckScore
<1>. QED  BY <1>1, <1>3, <1>5, <1>7 DEF report

-----------------------------------------------------------------------------
(* Layer 2: the pair that was picked, and the lock that was read.          *)

\* Of the pairs at some places, one comes before all the others.
LEMMA SoonestExists ==
    ASSUME NEW pairs, NEW places, IsFiniteSet(places), places \subseteq Nat, places # {},
           None \notin Int, \A i \in places : pairs[i].liquidityUsd \in Count
    PROVE  \E i \in places : \A j \in places \ {i} : Sooner(pairs, i, j)
<1> DEFINE known == {i \in places : pairs[i].liquidityUsd # None}
           depths == {pairs[i].liquidityUsd : i \in known}
<1>1. CASE known = {}
    <2>1. PICK i \in places : \A j \in places : i <= j
        BY LeastNatural
    <2>2. \A j \in places \ {i} : i < j
        BY <2>1
    <2>3. \A j \in places : pairs[j].liquidityUsd = None
        BY <1>1
    <2>. QED  BY <2>2, <2>3 DEF Sooner, Deeper
<1>2. CASE known # {}
    <2>1. IsFiniteSet(depths) /\ depths # {} /\ \A d \in depths : d \in Int
        <3>1. IsFiniteSet(known)
            BY FS_Subset
        <3>2. IsFiniteSet(depths)
            <4> DEFINE f == [i \in known |-> pairs[i].liquidityUsd]
            <4>1. depths = {f[i] : i \in known}
                OBVIOUS
            <4> HIDE DEF known, f, depths
            <4>2. IsFiniteSet({f[i] : i \in known})
                BY <3>1, ImageIsFinite
            <4>. QED  BY <4>1, <4>2
        <3>. QED  BY <1>2, <3>2 DEF Count
    <2>2. PICK d \in depths : \A e \in depths : d >= e
        <3> HIDE DEF depths
        <3>. QED  BY <2>1, GreatestExists
    <2> DEFINE first == {i \in known : pairs[i].liquidityUsd = d}
    <2>3. PICK i \in first : \A j \in first : i <= j
        <3>1. first \in SUBSET Nat /\ first # {}
            BY <2>2
        <3> HIDE DEF first
        <3>. QED  BY <3>1, LeastNatural
    <2>4. ASSUME NEW j \in places \ {i}
          PROVE  Sooner(pairs, i, j)
        <3>1. /\ pairs[i].liquidityUsd = d /\ d \in Int /\ d # None
              /\ i \in Nat /\ j \in Nat
            BY <2>1, <2>3
        <3>2. CASE pairs[j].liquidityUsd = None
            BY <3>1, <3>2 DEF Sooner, Deeper
        <3>3. CASE pairs[j].liquidityUsd # None /\ pairs[j].liquidityUsd = d
            <4>1. i <= j
                BY <2>3, <3>3
            <4>2. i < j
                BY <4>1, <3>1
            <4>3. ~ Deeper(pairs[j], pairs[i])
                BY <3>1, <3>3 DEF Deeper
            <4>. QED  BY <4>2, <4>3 DEF Sooner
        <3>4. CASE pairs[j].liquidityUsd # None /\ pairs[j].liquidityUsd # d
            <4>1. pairs[j].liquidityUsd \in Int /\ pairs[j].liquidityUsd \in depths
                BY <3>4 DEF Count
            <4>2. d >= pairs[j].liquidityUsd
                BY <2>2, <4>1
            <4>3. d > pairs[j].liquidityUsd
                <5> HIDE DEF depths, first, known
                <5>. QED  BY <3>1, <3>4, <4>1, <4>2
            <4>. QED  BY <3>1, <3>4, <4>3 DEF Sooner, Deeper
        <3>. QED  BY <3>2, <3>3, <3>4
    <2>. QED  BY <2>3, <2>4
<1>. QED  BY <1>1, <1>2

\* The pair that is found is one of them, and none is deeper.
LEMMA FirstIsDeepest ==
    ASSUME NEW pairs, NEW places, IsFiniteSet(places), places \subseteq Nat, places # {},
           None \notin Int, \A i \in places : pairs[i].liquidityUsd \in Count
    PROVE  \E i \in places :
             /\ FirstOf(pairs, places) = pairs[i]
             /\ \A j \in places : pairs[j].liquidityUsd # None =>
                  \/ pairs[i].liquidityUsd = None
                  \/ pairs[j].liquidityUsd <= pairs[i].liquidityUsd
             /\ pairs[i].liquidityUsd = None =>
                  \A j \in places : pairs[j].liquidityUsd = None
<1>1. \E i \in places : \A j \in places \ {i} : Sooner(pairs, i, j)
    BY SoonestExists
<1>2. PICK i \in places : /\ FirstOf(pairs, places) = pairs[i]
                          /\ \A j \in places \ {i} : Sooner(pairs, i, j)
    BY <1>1 DEF FirstOf
<1>3. ASSUME NEW j \in places \ {i}, pairs[j].liquidityUsd # None
      PROVE  /\ pairs[i].liquidityUsd # None
             /\ pairs[j].liquidityUsd <= pairs[i].liquidityUsd
    <2>1. ~ Deeper(pairs[j], pairs[i])
        <3>1. Sooner(pairs, i, j)
            BY <1>2
        <3>2. pairs[i].liquidityUsd \in Count /\ pairs[j].liquidityUsd \in Int
            BY <1>3 DEF Count
        <3>3. Deeper(pairs[i], pairs[j]) => ~ Deeper(pairs[j], pairs[i])
            BY <3>2, <1>3 DEF Deeper, Count
        <3>. QED  BY <3>1, <3>3 DEF Sooner
    <2>2. pairs[i].liquidityUsd \in Count /\ pairs[j].liquidityUsd \in Int
        BY <1>3 DEF Count
    <2>. QED  BY <2>1, <2>2, <1>3 DEF Deeper, Count
<1>4. pairs[i].liquidityUsd # None => pairs[i].liquidityUsd <= pairs[i].liquidityUsd
    <2>1. pairs[i].liquidityUsd # None => pairs[i].liquidityUsd \in Int
        BY DEF Count
    <2>2. \A v \in Int : v <= v
        OBVIOUS
    <2>. QED  BY <2>1, <2>2
<1>. QED  BY <1>2, <1>3, <1>4

\* A pair keeps the numbers of the entry it was made from.
LEMMA Normalised ==
    ASSUME NEW e, {"quoteToken", "liquidityUsd", "marketCap", "fdv", "pump"} \subseteq DOMAIN e
    PROVE  LET n == normalisePair(e)
           IN /\ n.quoteToken = e.quoteToken /\ n.liquidityUsd = e.liquidityUsd
              /\ n.fdv = e.fdv /\ n.pump = e.pump
              /\ n.marketCap = IF e.marketCap = None THEN e.fdv ELSE e.marketCap
    BY DEF normalisePair

\* What getBestPair returns, when it returns a pair.
LEMMA BestPair ==
    ASSUME NEW a, None \notin Int, a # Failed => PairShape(a),
           getBestPair(a) # Failed, getBestPair(a) # None
    PROVE  LET fit == {i \in DOMAIN a : a[i].ours /\ a[i].quoteToken \in QuoteMints}
           IN \E i \in fit :
                /\ getBestPair(a).liquidityUsd = a[i].liquidityUsd
                /\ getBestPair(a).pump = a[i].pump
                /\ getBestPair(a).marketCap
                     = IF a[i].marketCap = None THEN a[i].fdv ELSE a[i].marketCap
                /\ a[i].liquidityUsd # None =>
                     \A j \in fit : a[j].liquidityUsd # None =>
                                      a[j].liquidityUsd <= a[i].liquidityUsd
<1> DEFINE pairs == groupPairs(a)
           ours == {i \in DOMAIN a : a[i].ours}
           places == {i \in DOMAIN pairs : pairs[i].quoteToken \in QuoteMints}
           fit == {i \in DOMAIN a : a[i].ours /\ a[i].quoteToken \in QuoteMints}
<1>1. a # Failed /\ getBestPair(a) = FirstOf(pairs, places)
    BY DEF getBestPair, pickBest
<1>2. PairShape(a)
    BY <1>1
<1>3. /\ DOMAIN pairs = ours
      /\ \A i \in ours : pairs[i] = normalisePair(a[i])
    BY DEF groupPairs
<1>4. \A i \in ours :
        /\ pairs[i].quoteToken = a[i].quoteToken /\ pairs[i].liquidityUsd = a[i].liquidityUsd
        /\ pairs[i].pump = a[i].pump
        /\ pairs[i].marketCap = IF a[i].marketCap = None THEN a[i].fdv ELSE a[i].marketCap
    BY <1>2, <1>3, Normalised DEF PairShape
<1>5. places = fit
    <2> HIDE DEF pairs
    <2>. QED  BY <1>3, <1>4
<1> HIDE DEF pairs
<1>6. /\ IsFiniteSet(places) /\ places \subseteq Nat
      /\ \A i \in places : pairs[i].liquidityUsd \in Count
    <2>1. PICK n \in Nat : DOMAIN a = 1..n
        BY <1>2 DEF PairShape, IsList
    <2>2. IsFiniteSet(DOMAIN a) /\ places \subseteq DOMAIN a
        <3>1. IsFiniteSet(DOMAIN a)
            BY <2>1, FS_Interval
        <3>. QED  BY <3>1, <1>5
    <2>3. IsFiniteSet(places)
        <3> HIDE DEF places
        <3>. QED  BY <2>2, FS_Subset
    <2>4. \A i \in places : pairs[i].liquidityUsd \in Count
        BY <1>2, <1>4, <1>5 DEF PairShape
    <2>. QED  BY <2>1, <2>2, <2>3, <2>4
<1> HIDE DEF places, fit
<1>7. places # {}
    BY <1>1 DEF FirstOf
<1>8. PICK i \in places :
        /\ FirstOf(pairs, places) = pairs[i]
        /\ \A j \in places : pairs[j].liquidityUsd # None =>
             \/ pairs[i].liquidityUsd = None
             \/ pairs[j].liquidityUsd <= pairs[i].liquidityUsd
    BY <1>6, <1>7, FirstIsDeepest
<1>9. \A j \in fit : pairs[j].liquidityUsd = a[j].liquidityUsd
    BY <1>4 DEF fit
<1>10. i \in ours
    BY <1>5 DEF fit
<1>11. /\ getBestPair(a).liquidityUsd = a[i].liquidityUsd
       /\ getBestPair(a).pump = a[i].pump
       /\ getBestPair(a).marketCap = IF a[i].marketCap = None THEN a[i].fdv ELSE a[i].marketCap
    <2>1. getBestPair(a) = pairs[i]
        BY <1>1, <1>8
    <2> HIDE DEF ours
    <2>. QED  BY <1>4, <1>10, <2>1
<1>12. a[i].liquidityUsd # None =>
         \A j \in fit : a[j].liquidityUsd # None => a[j].liquidityUsd <= a[i].liquidityUsd
    BY <1>5, <1>8, <1>9
<1>. QED  BY <1>5, <1>11, <1>12 DEF fit

\* The lock that layer 2 reads, from a report it could read.
LEMMA ReadLock ==
    ASSUME NEW a, None \notin Int, a # Failed => ReportShape(a), getTokenReport(a) # Failed
    PROVE  LET locks == a.lpPcts \cap 0..100
               reported == readReportLpEvidence(getTokenReport(a))
           IN IF locks = {} THEN reported = None
              ELSE reported \in locks
<1> DEFINE report == getTokenReport(a)
           locks == a.lpPcts \cap 0..100
           usable == (report.lpPcts \cup {report.lpLockedPct}) \cap 0..PctMax
<1>1. a # Failed /\ report = normaliseTokenReport(a)
    BY ReadReport
<1>2. a.lpPcts \subseteq Int /\ IsFiniteSet(a.lpPcts)
    BY <1>1 DEF ReportShape
<1>3. report.lpPcts = a.lpPcts /\ report.lpLockedPct = normaliseMarkets(a.lpPcts)
    BY <1>1 DEF normaliseTokenReport
<1>4. report.lpLockedPct = None \/ report.lpLockedPct \in a.lpPcts
    <2>1. a.lpPcts # {} => Max(a.lpPcts) \in a.lpPcts
        BY <1>2, MaxIsGreatest
    <2> HIDE DEF report
    <2>. QED  BY <1>3, <2>1 DEF normaliseMarkets
<1>5. usable = locks
    <2> HIDE DEF report
    <2>. QED  BY <1>3, <1>4 DEF PctMax
<1>6. readReportLpEvidence(report) = normaliseMarkets(usable)
    <2> HIDE DEF report
    <2>. QED  BY DEF readReportLpEvidence, report
<1>7. locks # {} => Max(locks) \in locks
    <2>1. IsFiniteSet(locks) /\ \A x \in locks : x \in Int
        BY <1>2, FS_Subset
    <2> HIDE DEF locks
    <2>. QED  BY <2>1, MaxIsGreatest
<1> HIDE DEF report, locks, usable
<1>8. IF locks = {} THEN readReportLpEvidence(report) = None
      ELSE readReportLpEvidence(report) \in locks
    BY <1>5, <1>6, <1>7 DEF normaliseMarkets
<1>. QED  BY <1>8 DEF report, locks

\* What the reasons of layer 2 refuse, said of the pair.
LEMMA LiquidityFits ==
    ASSUME NEW pair, NEW lp, liquidityReasons(pair, lp) = {}
    PROVE  /\ ~ UnknownDepth(pair) /\ ~ UnknownCap(pair)
           /\ ~ (pair.liquidityUsd < MinLiquidityUsd)
           /\ ~ ThinFloat(pair.liquidityUsd, pair.marketCap)
           /\ ~ (lp # None /\ lp < MinLpBurnedPct)
<1> DEFINE R == {"unknown", "depth", "footprint", "float", "lp"}
           Holds(reason) ==
             CASE reason = "unknown" -> UnknownDepth(pair) \/ UnknownCap(pair)
               [] reason = "depth" -> ~ UnknownDepth(pair) /\ pair.liquidityUsd < MinLiquidityUsd
               [] reason = "footprint" -> ~ UnknownDepth(pair) /\ TooBigForPool(pair.liquidityUsd)
               [] reason = "float" -> /\ ~ UnknownDepth(pair) /\ ~ UnknownCap(pair)
                                      /\ ThinFloat(pair.liquidityUsd, pair.marketCap)
               [] OTHER -> lp # None /\ lp < MinLpBurnedPct
<1>1. \A reason \in R : ~ Holds(reason)
    <2>1. liquidityReasons(pair, lp) = {reason \in R : Holds(reason)}
        BY DEF liquidityReasons
    <2> HIDE DEF Holds, R
    <2>. QED  BY <2>1
<1>2. ~ Holds("unknown") /\ ~ Holds("depth") /\ ~ Holds("float") /\ ~ Holds("lp")
    <2> HIDE DEF Holds
    <2>. QED  BY <1>1
<1>3. Holds("unknown") <=> (UnknownDepth(pair) \/ UnknownCap(pair))
    OBVIOUS
<1>4. Holds("depth") <=> (~ UnknownDepth(pair) /\ pair.liquidityUsd < MinLiquidityUsd)
    OBVIOUS
<1>5. Holds("float") <=> (/\ ~ UnknownDepth(pair) /\ ~ UnknownCap(pair)
                          /\ ThinFloat(pair.liquidityUsd, pair.marketCap))
    OBVIOUS
<1>6. Holds("lp") <=> (lp # None /\ lp < MinLpBurnedPct)
    OBVIOUS
<1> HIDE DEF Holds
<1>. QED  BY <1>2, <1>3, <1>4, <1>5, <1>6

\* Layer 2: the deepest pair is deep enough, and the lock is known or named.
LEMMA PassedLiquidity ==
    ASSUME NEW a, NEW r, None \notin Int, a # Failed => PairShape(a),
           r # Failed => ReportShape(r), getTokenReport(r) # Failed,
           runLayer2(a, r) = "PASS"
    PROVE  PoolIsDeep(a, r)
<1> DEFINE pair == getBestPair(a)
           reported == readReportLpEvidence(getTokenReport(r))
           lp == readLpEvidence(pair, reported)
           locks == r.lpPcts \cap 0..100
           fit == {i \in DOMAIN a : a[i].ours /\ a[i].quoteToken \in QuoteMints}
<1>1. pair # Failed /\ pair # None /\ liquidityReasons(pair, lp) = {}
    <2> HIDE DEF pair, reported, lp
    <2>1. runLayer2(a, r) = IF pair = Failed THEN "ERROR"
                            ELSE IF pair = None THEN "REJECT"
                            ELSE ByReasons(liquidityReasons(pair, lp))
        BY DEF runLayer2, pair, reported, lp
    <2>. QED  BY <2>1, NoReason
<1>2. PICK i \in fit :
        /\ pair.liquidityUsd = a[i].liquidityUsd /\ pair.pump = a[i].pump
        /\ pair.marketCap = IF a[i].marketCap = None THEN a[i].fdv ELSE a[i].marketCap
        /\ a[i].liquidityUsd # None =>
             \A j \in fit : a[j].liquidityUsd # None => a[j].liquidityUsd <= a[i].liquidityUsd
    BY <1>1, BestPair
<1>3. /\ ~ UnknownDepth(pair) /\ ~ UnknownCap(pair)
      /\ ~ (pair.liquidityUsd < MinLiquidityUsd)
      /\ ~ ThinFloat(pair.liquidityUsd, pair.marketCap)
      /\ ~ (lp # None /\ lp < MinLpBurnedPct)
    <2> HIDE DEF pair, lp
    <2>. QED  BY <1>1, LiquidityFits
<1>4. /\ a[i].liquidityUsd \in Count /\ a[i].marketCap \in Count /\ a[i].fdv \in Count
      /\ i \in DOMAIN a
    <2>1. a # Failed
        BY <1>1 DEF getBestPair
    <2>. QED  BY <2>1 DEF PairShape
<1> HIDE DEF pair
<1>5. /\ a[i].liquidityUsd # None /\ a[i].liquidityUsd \in Int /\ a[i].liquidityUsd >= 30000
    <2>1. pair.liquidityUsd # None
        BY <1>3 DEF UnknownDepth
    <2>. QED  BY <1>2, <1>3, <1>4, <2>1 DEF Count, MinLiquidityUsd
<1>6. LET cap == IF a[i].marketCap = None THEN a[i].fdv ELSE a[i].marketCap
      IN cap # None /\ cap > 0 /\ 100 * a[i].liquidityUsd >= 3 * cap
    <2> DEFINE cap == IF a[i].marketCap = None THEN a[i].fdv ELSE a[i].marketCap
    <2>1. pair.marketCap = cap /\ cap \in Count
        BY <1>2, <1>4
    <2> HIDE DEF cap
    <2>2. cap # None /\ cap \in Int /\ cap > 0
        BY <1>3, <2>1 DEF UnknownCap, Count
    <2>3. ~ (a[i].liquidityUsd * 100 < 3 * cap)
        BY <1>2, <1>3, <2>1 DEF ThinFloat
    <2>4. 100 * a[i].liquidityUsd >= 3 * cap
        BY <1>5, <2>2, <2>3
    <2>. QED  BY <2>2, <2>4 DEF cap
<1>7. r # Failed /\ IF locks = {} THEN reported = None ELSE reported \in locks
    BY ReadReport, ReadLock
<1>8. CASE locks = {}
    <2>1. "rugcheckLpEvidence" \in unverifiedLiquidity(a, r)
        BY <1>7, <1>8 DEF unverifiedLiquidity
    <2>. QED  BY <1>2, <1>5, <1>6, <1>7, <1>8, <2>1 DEF PoolIsDeep
<1>9. CASE locks # {}
    <2>1. reported \in locks /\ reported \in Int /\ reported # None
        BY <1>7, <1>9
    <2>2. lp = reported
        BY <2>1 DEF readLpEvidence
    <2>3. reported >= 90
        BY <1>3, <2>1, <2>2 DEF MinLpBurnedPct
    <2> HIDE DEF reported, lp
    <2>4. \E pct \in locks : pct >= 90
        BY <2>1, <2>3
    <2>. QED  BY <1>2, <1>5, <1>6, <1>7, <1>9, <2>4 DEF PoolIsDeep
<1>. QED  BY <1>8, <1>9

-----------------------------------------------------------------------------
(* The largest accounts: the first n hold at least as much as any n.       *)
AmountsOK(hs, K) ==
    /\ IsFiniteSet(K) /\ K \subseteq Nat
    /\ \A i \in K : hs[i].amount \in Nat

\* The order of the sort is total on the places of a list.
LEMMA BeforeOrders ==
    ASSUME NEW hs, NEW K, AmountsOK(hs, K)
    PROVE  /\ \A i \in K : ~ Before(hs, i, i)
           /\ \A i, j \in K : i # j => Before(hs, i, j) \/ Before(hs, j, i)
           /\ \A i, j, k \in K : Before(hs, i, j) /\ Before(hs, j, k) => Before(hs, i, k)
           /\ \A i, j \in K : Before(hs, i, j) => hs[i].amount >= hs[j].amount
    BY DEF AmountsOK, Before

\* The accounts before one, and how many they are.
Ahead(hs, K, i) == {j \in K : Before(hs, j, i)}

\* The leading n are those with fewer than n ahead of them.
LEMMA LeadingDef ==
    ASSUME NEW hs, NEW K, NEW n
    PROVE  Leading(hs, K, n) = {i \in K : Cardinality(Ahead(hs, K, i)) < n}
    BY DEF Leading, Ahead

\* Who is ahead of whom: finite sets, growing along the order.
LEMMA AheadFacts ==
    ASSUME NEW hs, NEW K, AmountsOK(hs, K)
    PROVE  /\ \A i \in K : /\ Ahead(hs, K, i) \in SUBSET K /\ IsFiniteSet(Ahead(hs, K, i))
                           /\ Cardinality(Ahead(hs, K, i)) \in Nat
           /\ \A i, j \in K : Before(hs, j, i) =>
                Cardinality(Ahead(hs, K, j)) < Cardinality(Ahead(hs, K, i))
<1>1. \A i \in K : Ahead(hs, K, i) \in SUBSET K
    BY DEF Ahead
<1>2. \A i \in K : IsFiniteSet(Ahead(hs, K, i)) /\ Cardinality(Ahead(hs, K, i)) \in Nat
    BY <1>1, FS_Subset, FS_CardinalityType DEF AmountsOK
<1>3. ASSUME NEW i \in K, NEW j \in K, Before(hs, j, i)
      PROVE  Cardinality(Ahead(hs, K, j)) < Cardinality(Ahead(hs, K, i))
    <2>1. /\ Ahead(hs, K, j) \in SUBSET Ahead(hs, K, i)
          /\ j \in Ahead(hs, K, i) /\ j \notin Ahead(hs, K, j)
        BY <1>3, BeforeOrders DEF Ahead
    <2>2. /\ Cardinality(Ahead(hs, K, j)) <= Cardinality(Ahead(hs, K, i))
          /\ Cardinality(Ahead(hs, K, j)) # Cardinality(Ahead(hs, K, i))
        BY <2>1, <1>2, FS_Subset
    <2>. QED  BY <2>2, <1>2
<1>. QED  BY <1>1, <1>2, <1>3

\* There are at most n of them.
LEMMA LeadingIsFew ==
    ASSUME NEW hs, NEW K, AmountsOK(hs, K), NEW n \in Nat
    PROVE  /\ Leading(hs, K, n) \in SUBSET K /\ IsFiniteSet(Leading(hs, K, n))
           /\ Cardinality(Leading(hs, K, n)) <= n
<1> DEFINE T == Leading(hs, K, n)
           A(i) == Ahead(hs, K, i)
           ranks == {Cardinality(A(i)) : i \in T}
<1>1. T \in SUBSET K /\ \A i \in T : Cardinality(A(i)) < n
    BY LeadingDef
<1>2. IsFiniteSet(T)
    BY <1>1, FS_Subset DEF AmountsOK
<1>3. CASE T = {}
    BY <1>2, <1>3, FS_EmptySet
<1>4. CASE T # {}
    <2>1. IsFiniteSet(ranks) /\ ranks # {} /\ \A x \in ranks : x \in Int
        <3> DEFINE f == [i \in T |-> Cardinality(A(i))]
        <3>1. ranks = {f[i] : i \in T}
            OBVIOUS
        <3>2. \A i \in T : Cardinality(A(i)) \in Nat
            BY <1>1, AheadFacts
        <3> HIDE DEF f, T, A
        <3>3. IsFiniteSet({f[i] : i \in T})
            BY <1>2, ImageIsFinite
        <3>4. ranks # {} /\ \A x \in ranks : x \in Int
            BY <1>4, <3>2
        <3> HIDE DEF ranks
        <3>. QED  BY <3>1, <3>3, <3>4
    <2>2. PICK r \in ranks : \A x \in ranks : r >= x
        <3> HIDE DEF ranks
        <3>. QED  BY <2>1, GreatestExists
    <2>3. PICK t \in T : r = Cardinality(A(t))
        OBVIOUS
    <2> HIDE DEF T
    <2>4. t \in K /\ Cardinality(A(t)) < n
        BY <1>1, <2>3
    <2>5. ASSUME NEW u \in T, u # t
          PROVE  Before(hs, u, t)
        <3>1. u \in K /\ Cardinality(A(u)) \in Nat /\ Cardinality(A(t)) \in Nat
            BY <1>1, <2>4, AheadFacts
        <3>2. Cardinality(A(t)) >= Cardinality(A(u))
            BY <2>2, <2>3
        <3>3. ~ Before(hs, t, u)
            BY <2>4, <3>1, <3>2, AheadFacts
        <3>. QED  BY <2>4, <2>5, <3>1, <3>3, BeforeOrders
    <2>6. T \subseteq A(t) \cup {t}
        BY <1>1, <2>5 DEF Ahead
    <2> HIDE DEF A
    <2>7. IsFiniteSet(A(t)) /\ Cardinality(A(t)) \in Nat
        BY <2>4, AheadFacts DEF A
    <2>8. IsFiniteSet(A(t) \cup {t}) /\ Cardinality(A(t) \cup {t}) <= Cardinality(A(t)) + 1
        <3>1. /\ IsFiniteSet(A(t) \cup {t})
              /\ Cardinality(A(t) \cup {t})
                   = IF t \in A(t) THEN Cardinality(A(t)) ELSE Cardinality(A(t)) + 1
            BY <2>7, FS_AddElement
        <3>. QED  BY <2>7, <3>1
    <2>9. Cardinality(T) <= Cardinality(A(t) \cup {t})
        BY <2>6, <2>8, FS_Subset
    <2>10. Cardinality(T) \in Nat /\ Cardinality(A(t) \cup {t}) \in Nat
        BY <1>2, <2>8, FS_CardinalityType
    <2>11. Cardinality(T) <= n
        BY <2>4, <2>7, <2>8, <2>9, <2>10
    <2>. QED  BY <1>1, <1>2, <2>11 DEF T
<1>. QED  BY <1>3, <1>4, <1>1, <1>2

\* When one is left out, the first n are at least n.
LEMMA LeadingIsFull ==
    ASSUME NEW hs, NEW K, AmountsOK(hs, K), NEW n \in Nat, K \ Leading(hs, K, n) # {}
    PROVE  Cardinality(Leading(hs, K, n)) >= n
<1> DEFINE T == Leading(hs, K, n)
           A(i) == Ahead(hs, K, i)
           ranks == {Cardinality(A(i)) : i \in K \ T}
<1>1. T = {i \in K : Cardinality(A(i)) < n}
    BY LeadingDef
<1>2. \A i \in K : IsFiniteSet(A(i)) /\ Cardinality(A(i)) \in Nat
    BY AheadFacts
<1> HIDE DEF T
<1>3. PICK r \in ranks : \A x \in ranks : r <= x
    <2>1. ranks \in SUBSET Nat /\ ranks # {}
        BY <1>2 DEF T
    <2> HIDE DEF ranks
    <2>. QED  BY <2>1, LeastNatural
<1>4. PICK t \in K \ T : r = Cardinality(A(t))
    OBVIOUS
<1>5. A(t) \subseteq T
    <2>1. ASSUME NEW u \in K, Before(hs, u, t), u \notin T
          PROVE  FALSE
        <3>1. Cardinality(A(u)) < Cardinality(A(t))
            BY <1>4, <2>1, AheadFacts
        <3>2. Cardinality(A(t)) <= Cardinality(A(u))
            BY <1>3, <1>4, <2>1
        <3>. QED  BY <1>2, <1>4, <3>1, <3>2
    <2>. QED  BY <2>1 DEF Ahead
<1>6. Cardinality(A(t)) \in Nat /\ ~ (Cardinality(A(t)) < n)
    BY <1>1, <1>2, <1>4
<1>7. IsFiniteSet(T) /\ Cardinality(T) \in Nat
    BY LeadingIsFew, FS_CardinalityType DEF T
<1> HIDE DEF A
<1>8. Cardinality(A(t)) <= Cardinality(T)
    BY <1>5, <1>7, FS_Subset
<1>9. Cardinality(T) >= n
    BY <1>6, <1>7, <1>8
<1>. QED  BY <1>9 DEF T

\* Each of them holds at least what any other holds.
LEMMA LeadingIsLargest ==
    ASSUME NEW hs, NEW K, AmountsOK(hs, K), NEW n \in Nat,
           NEW t \in Leading(hs, K, n), NEW x \in K \ Leading(hs, K, n)
    PROVE  hs[t].amount >= hs[x].amount
<1>1. t \in K /\ Cardinality(Ahead(hs, K, t)) < n
    BY LeadingDef
<1>2. ~ (Cardinality(Ahead(hs, K, x)) < n)
    BY LeadingDef
<1>3. /\ Cardinality(Ahead(hs, K, t)) \in Nat /\ Cardinality(Ahead(hs, K, x)) \in Nat
      /\ Before(hs, x, t) => Cardinality(Ahead(hs, K, x)) < Cardinality(Ahead(hs, K, t))
    BY <1>1, AheadFacts
<1>4. ~ Before(hs, x, t)
    BY <1>1, <1>2, <1>3
<1>5. Before(hs, t, x)
    BY <1>1, <1>4, BeforeOrders
<1>. QED  BY <1>1, <1>5, BeforeOrders

\* Together they hold at least as much as any n accounts.
LEMMA LeadingHasMost ==
    ASSUME NEW hs, NEW K, AmountsOK(hs, K), NEW n \in Nat,
           NEW h, Sums(h, Amounts(hs, K), K), NEW S \in SUBSET K, Cardinality(S) <= n
    PROVE  h[S] <= h[Leading(hs, K, n)]
<1> DEFINE T == Leading(hs, K, n)
           f == Amounts(hs, K)
           In == S \ T
           Out == T \ S
<1>1. /\ \A i \in K : f[i] = hs[i].amount /\ f[i] \in Nat /\ f[i] \in Int
      /\ IsFiniteSet(K)
    BY DEF Amounts, AmountsOK
<1>2. /\ T \in SUBSET K /\ IsFiniteSet(T) /\ IsFiniteSet(S)
    BY LeadingIsFew, FS_Subset DEF AmountsOK
<1>3. h \in [SUBSET K -> Int]
    BY DEF Sums
<1>4. ASSUME NEW t \in T, NEW x \in K \ T
      PROVE  f[t] >= f[x]
    BY <1>1, <1>2, LeadingIsLargest
<1>5. In # {} => Cardinality(T) >= n
    BY LeadingIsFull
<1> HIDE DEF T, f
<1>6. CASE In = {}
    <2>1. S \in SUBSET T
        BY <1>6
    <2>2. h[S] <= h[T]
        BY <1>1, <1>2, <2>1, SumGrows DEF f
    <2>. QED  BY <2>2 DEF T
<1>7. CASE In # {}
    <2>1. /\ IsFiniteSet(In) /\ IsFiniteSet(Out)
          /\ Cardinality(In) = Cardinality(S) - Cardinality(S \cap T)
          /\ Cardinality(Out) = Cardinality(T) - Cardinality(S \cap T)
        <3>1. T \cap S = S \cap T
            OBVIOUS
        <3>2. /\ IsFiniteSet(In)
              /\ Cardinality(In) = Cardinality(S) - Cardinality(S \cap T)
            BY <1>2, FS_Difference
        <3>3. /\ IsFiniteSet(Out)
              /\ Cardinality(Out) = Cardinality(T) - Cardinality(T \cap S)
            BY <1>2, FS_Difference
        <3>. QED  BY <3>1, <3>2, <3>3
    <2>2. /\ Cardinality(In) \in Nat /\ Cardinality(Out) \in Nat
          /\ Cardinality(S) \in Nat /\ Cardinality(T) \in Nat
          /\ Cardinality(S \cap T) \in Nat
        BY <1>2, <2>1, FS_CardinalityType, FS_Intersection
    <2>3. Cardinality(In) <= Cardinality(Out)
        BY <1>5, <1>7, <2>1, <2>2
    <2>4. PICK m \in Nat : /\ \A x \in In : f[x] <= m
                           /\ \A t \in T : f[t] >= m
        <3> DEFINE vs == {f[x] : x \in In}
        <3>1. \A x \in In : x \in K \ T
            OBVIOUS
        <3>2. IsFiniteSet(vs) /\ vs # {} /\ \A v \in vs : v \in Int
            <4> HIDE DEF In
            <4>1. IsFiniteSet(vs)
                BY <2>1, ImageIsFinite
            <4>. QED  BY <1>1, <1>7, <3>1, <4>1
        <3>3. PICK m \in vs : \A v \in vs : m >= v
            <4> HIDE DEF vs
            <4>. QED  BY <3>2, GreatestExists
        <3>4. PICK x \in In : m = f[x]
            OBVIOUS
        <3>5. m \in Nat /\ \A t \in T : f[t] >= m
            BY <1>1, <1>4, <3>1, <3>4
        <3>6. \A y \in In : f[y] <= m
            <4>1. TAKE y \in In
            <4>2. f[y] \in vs /\ f[y] \in Nat
                BY <1>1, <3>1
            <4>. QED  BY <3>3, <3>5, <4>2
        <3>. QED  BY <3>5, <3>6
    <2>5. h[In] <= m * Cardinality(In)
        <3>1. In \in SUBSET K /\ m \in Int
            OBVIOUS
        <3> HIDE DEF In
        <3>. QED  BY <1>1, <2>4, <3>1, SumAtMost DEF f
    <2>6. h[Out] >= m * Cardinality(Out)
        <3>1. Out \in SUBSET K /\ m \in Int /\ \A t \in Out : f[t] >= m
            BY <1>2, <2>4
        <3> HIDE DEF Out
        <3>. QED  BY <1>1, <3>1, SumAtLeast DEF f
    <2>7. m * Cardinality(In) <= m * Cardinality(Out)
        <3> HIDE DEF In, Out
        <3>1. PICK d \in Nat : Cardinality(Out) = Cardinality(In) + d
            <4>1. /\ Cardinality(Out) - Cardinality(In) \in Nat
                  /\ Cardinality(Out) = Cardinality(In) + (Cardinality(Out) - Cardinality(In))
                BY <2>2, <2>3
            <4>. QED  BY <4>1
        <3>2. m * (Cardinality(In) + d) = m * Cardinality(In) + m * d
            BY <2>2
        <3>3. m * d >= 0 /\ m * d \in Int /\ m * Cardinality(In) \in Int
            BY <2>2
        <3>. QED  BY <3>1, <3>2, <3>3
    <2>8. /\ h[S] = h[S \cap T] + h[In]
          /\ h[T] = h[S \cap T] + h[Out]
        <3>1. \A C \in SUBSET (K \ (S \cap T)) : h[(S \cap T) \cup C] = h[S \cap T] + h[C]
            BY <1>1, <1>2, SumOfUnion DEF f
        <3>2. /\ In \in SUBSET (K \ (S \cap T)) /\ Out \in SUBSET (K \ (S \cap T))
              /\ (S \cap T) \cup In = S /\ (S \cap T) \cup Out = T
            BY <1>2
        <3> HIDE DEF In, Out
        <3>. QED  BY <3>1, <3>2
    <2>9. /\ h[S] \in Int /\ h[T] \in Int /\ h[S \cap T] \in Int
          /\ h[In] \in Int /\ h[Out] \in Int
        BY <1>2, <1>3
    <2>10. m * Cardinality(In) \in Int /\ m * Cardinality(Out) \in Int
        BY <2>2
    <2> HIDE DEF In, Out
    <2>11. h[S] <= h[T]
        BY <2>5, <2>6, <2>7, <2>8, <2>9, <2>10
    <2>. QED  BY <2>11 DEF T
<1>. QED  BY <1>6, <1>7

-----------------------------------------------------------------------------
(* Layer 3: its sums.                                                      *)
\* The sum over a network's members is the sum over the accounts they hold.
LEMMA SumIsTotal ==
    ASSUME NEW f
    PROVE  SumOf(f) = Total(f)
    BY DEF SumOf, Total

\* A part of numbers that are not negative adds up to no more than all of them.
LEMMA NatSums ==
    ASSUME NEW f, IsFiniteSet(DOMAIN f), \A x \in DOMAIN f : f[x] \in Nat
    PROVE  /\ SumOf(f) \in Nat
           /\ \A A \in SUBSET DOMAIN f :
                SumOf([x \in A |-> f[x]]) \in Nat /\ SumOf([x \in A |-> f[x]]) <= SumOf(f)
<1>1. \A x \in DOMAIN f : f[x] \in Int
    OBVIOUS
<1>2. PICK h : Sums(h, f, DOMAIN f) /\ Total(f) = h[DOMAIN f]
    BY <1>1, TotalIsSum
<1>3. h \in [SUBSET DOMAIN f -> Int] /\ h[{}] = 0
    BY <1>2 DEF Sums
<1>4. ASSUME NEW A \in SUBSET DOMAIN f
      PROVE  h[A] \in Nat /\ h[A] <= h[DOMAIN f]
    <2>1. {} \in SUBSET A /\ A \in SUBSET DOMAIN f /\ DOMAIN f \in SUBSET DOMAIN f
        OBVIOUS
    <2>2. h[{}] <= h[A] /\ h[A] <= h[DOMAIN f]
        BY <1>2, <2>1, SumGrows
    <2>. QED  BY <1>3, <2>2
<1>5. SumOf(f) \in Nat
    BY <1>2, <1>4, SumIsTotal
<1>6. ASSUME NEW A \in SUBSET DOMAIN f
      PROVE  SumOf([x \in A |-> f[x]]) \in Nat /\ SumOf([x \in A |-> f[x]]) <= SumOf(f)
    <2> DEFINE g == [x \in A |-> f[x]]
    <2>1. DOMAIN g \subseteq DOMAIN f /\ DOMAIN g = A /\ \A x \in DOMAIN g : g[x] = f[x]
        OBVIOUS
    <2> HIDE DEF g
    <2>2. Total(g) = h[A]
        BY <1>1, <1>2, <2>1, TotalOfPart
    <2>3. SumOf(g) \in Nat /\ SumOf(g) <= SumOf(f)
        BY <1>2, <1>4, <2>2, SumIsTotal
    <2>. QED  BY <2>3 DEF g
<1>. QED  BY <1>5, <1>6

\* Renaming what is added up, one to one, changes no sum.
LEMMA SumOfImage ==
    ASSUME NEW I, IsFiniteSet(I), NEW f, NEW h, Sums(h, f, I), \A i \in I : f[i] \in Int,
           NEW A, NEW g, NEW k, Sums(k, g, A), \A a \in A : g[a] \in Int,
           NEW name, \A i \in I : name[i] \in A /\ g[name[i]] = f[i],
           \A i, j \in I : name[i] = name[j] => i = j
    PROVE  h[I] = k[{name[i] : i \in I}]
<1> DEFINE Img(J) == {name[i] : i \in J}
           B == {J \in SUBSET I : h[J] # k[Img(J)]}
<1>0. /\ h \in [SUBSET I -> Int] /\ h[{}] = 0
      /\ \A s \in SUBSET I : \A x \in s : h[s] = f[x] + h[s \ {x}]
      /\ k \in [SUBSET A -> Int] /\ k[{}] = 0
      /\ \A s \in SUBSET A : \A x \in s : k[s] = g[x] + k[s \ {x}]
    BY DEF Sums
<1>1. SUFFICES ASSUME B # {} PROVE FALSE
    <2>1. I \notin B
        BY <1>1
    <2>. QED  BY <2>1
<1>2. PICK J \in B : \A t \in SUBSET J : t \in B => t = J
    <2>1. B \in SUBSET (SUBSET I)
        OBVIOUS
    <2> HIDE DEF B
    <2>. QED  BY <1>1, <2>1, LeastSubset
<1>3. J # {}
    <2>1. SUFFICES ASSUME J = {} PROVE h[J] = k[Img(J)]
        BY <1>2
    <2>2. Img(J) = {}
        BY <2>1
    <2>. QED  BY <1>0, <2>1, <2>2
<1>4. PICK x \in J : TRUE
    BY <1>3
<1>5. h[J \ {x}] = k[Img(J \ {x})]
    <2>1. J \ {x} \in SUBSET J /\ J \ {x} # J /\ J \ {x} \in SUBSET I
        BY <1>4
    <2>. QED  BY <1>2, <2>1
<1>6. h[J] = f[x] + h[J \ {x}]
    BY <1>0, <1>4
<1>7. Img(J) \in SUBSET A /\ name[x] \in Img(J) /\ Img(J) \ {name[x]} = Img(J \ {x})
    BY <1>4
<1>8. k[Img(J)] = g[name[x]] + k[Img(J) \ {name[x]}]
    <2> HIDE DEF Img
    <2>. QED  BY <1>0, <1>7
<1>9. g[name[x]] = f[x] /\ h[J] # k[Img(J)]
    BY <1>4
<1> HIDE DEF Img
<1>. QED  BY <1>5, <1>6, <1>7, <1>8, <1>9

\* The amounts of the accounts that count.
LEMMA AmountsFacts ==
    ASSUME NEW hs, NEW K, AmountsOK(hs, K)
    PROVE  /\ DOMAIN Amounts(hs, K) = K /\ IsFiniteSet(K)
           /\ \A i \in K : Amounts(hs, K)[i] = hs[i].amount
           /\ \A i \in K : Amounts(hs, K)[i] \in Nat /\ Amounts(hs, K)[i] \in Int
           /\ \A S \in SUBSET K : Amounts(hs, S) = [i \in S |-> Amounts(hs, K)[i]]
           /\ SumOf(Amounts(hs, K)) \in Nat
<1>1. /\ DOMAIN Amounts(hs, K) = K /\ IsFiniteSet(K)
      /\ \A i \in K : Amounts(hs, K)[i] = hs[i].amount
      /\ \A i \in K : Amounts(hs, K)[i] \in Nat /\ Amounts(hs, K)[i] \in Int
    BY DEF Amounts, AmountsOK
<1>2. \A S \in SUBSET K : Amounts(hs, S) = [i \in S |-> Amounts(hs, K)[i]]
    BY DEF Amounts
<1>3. SumOf(Amounts(hs, K)) \in Nat
    <2>1. IsFiniteSet(DOMAIN Amounts(hs, K))
        BY <1>1
    <2>2. \A x \in DOMAIN Amounts(hs, K) : Amounts(hs, K)[x] \in Nat
        BY <1>1
    <2>. QED  BY <2>1, <2>2, NatSums
<1>. QED  BY <1>1, <1>2, <1>3

\* topSum is what the largest hold: no n of the accounts hold more.
LEMMA TopIsMost ==
    ASSUME NEW hs, NEW K, AmountsOK(hs, K), NEW n \in Nat,
           NEW S \in SUBSET K, Cardinality(S) <= n
    PROVE  /\ SumOf(Amounts(hs, Leading(hs, K, n))) \in Nat
           /\ SumOf(Amounts(hs, S)) \in Nat
           /\ SumOf(Amounts(hs, S)) <= SumOf(Amounts(hs, Leading(hs, K, n)))
<1> DEFINE f == Amounts(hs, K)
           T == Leading(hs, K, n)
<1>1. /\ DOMAIN f = K /\ IsFiniteSet(K) /\ \A i \in K : f[i] \in Nat /\ f[i] \in Int
    BY AmountsFacts
<1>2. T \in SUBSET K
    BY LeadingIsFew
<1>3. ASSUME NEW R \in SUBSET K
      PROVE  /\ DOMAIN Amounts(hs, R) \subseteq DOMAIN f /\ DOMAIN Amounts(hs, R) = R
             /\ \A x \in DOMAIN Amounts(hs, R) : Amounts(hs, R)[x] = f[x]
             /\ AmountsOK(hs, R)
    <2>1. AmountsOK(hs, R)
        BY <1>1, FS_Subset DEF AmountsOK
    <2>. QED  BY <2>1 DEF Amounts
<1>4. PICK h : Sums(h, f, K) /\ Total(f) = h[K]
    <2> HIDE DEF f
    <2>1. \E h : Sums(h, f, DOMAIN f) /\ Total(f) = h[DOMAIN f]
        BY <1>1, TotalIsSum
    <2>. QED  BY <1>1, <2>1
<1>5. ASSUME NEW R \in SUBSET K
      PROVE  SumOf(Amounts(hs, R)) = h[R] /\ SumOf(Amounts(hs, R)) \in Nat
    <2> DEFINE g == Amounts(hs, R)
    <2>1. /\ DOMAIN g \subseteq DOMAIN f /\ DOMAIN g = R /\ \A x \in DOMAIN g : g[x] = f[x]
          /\ AmountsOK(hs, R)
        BY <1>3
    <2>2. SumOf(g) \in Nat
        BY <2>1, AmountsFacts
    <2> HIDE DEF f, g
    <2>3. Total(g) = h[DOMAIN g]
        BY <1>1, <1>4, <2>1, TotalOfPart
    <2>4. SumOf(g) = h[R]
        BY <2>1, <2>3, SumIsTotal
    <2>. QED  BY <2>2, <2>4 DEF g
<1>6. h[S] <= h[T]
    BY <1>4, LeadingHasMost
<1>. QED  BY <1>2, <1>5, <1>6

\* The largest is at least each of them.
LEMMA LargestIsMost ==
    ASSUME NEW hs, NEW K, AmountsOK(hs, K), K # {}
    PROVE  LET m == Max(Range(Amounts(hs, K)))
           IN /\ m \in Nat
              /\ \E i \in K : m = hs[i].amount
              /\ \A i \in K : hs[i].amount <= m
<1> DEFINE f == Amounts(hs, K)
           R == {f[i] : i \in K}
<1>1. DOMAIN f = K /\ IsFiniteSet(K) /\ \A i \in K : f[i] = hs[i].amount /\ f[i] \in Nat
    BY AmountsFacts
<1> HIDE DEF f
<1>2. Range(f) = R
    BY <1>1 DEF Range
<1>3. IsFiniteSet(R)
    BY <1>1, ImageIsFinite
<1>4. R # {} /\ \A x \in R : x \in Int
    BY <1>1
<1>5. Max(R) \in R /\ \A x \in R : Max(R) >= x
    <2> HIDE DEF R
    <2>. QED  BY <1>3, <1>4, MaxIsGreatest
<1>6. PICK i \in K : Max(R) = hs[i].amount
    BY <1>1, <1>5
<1>7. \A j \in K : hs[j].amount <= Max(R)
    <2>1. TAKE j \in K
    <2>2. hs[j].amount \in R /\ hs[j].amount \in Nat /\ hs[i].amount \in Nat
        BY <1>1
    <2> HIDE DEF R
    <2>. QED  BY <1>5, <1>6, <2>2
<1>8. Max(R) \in Nat
    BY <1>1, <1>6
<1> HIDE DEF R
<1>. QED  BY <1>2, <1>6, <1>7, <1>8 DEF f

-----------------------------------------------------------------------------
(* Layer 3: the insider networks.                                          *)
\* A list that was read has a positive supply and no negative amount.
LEMMA FetchedHolders ==
    ASSUME NEW a, None \notin Int, a # Failed => HoldersShape(a), fetchHolders(a) # Failed
    PROVE  /\ a # Failed /\ fetchHolders(a) = [holders |-> a.list, supply |-> a.supply]
           /\ a.supply \in Nat /\ a.supply > 0
           /\ \A K \in SUBSET DOMAIN a.list : AmountsOK(a.list, K)
           /\ \A i, j \in DOMAIN a.list : a.list[i].address = a.list[j].address => i = j
<1>1. /\ a # Failed /\ fetchHolders(a) = [holders |-> a.list, supply |-> a.supply]
      /\ readSupplyResponse(a) /\ \A i \in DOMAIN a.list : readHolderEntry(a.list[i], a)
    BY DEF fetchHolders
<1>2. a.supply \in Nat /\ a.supply > 0
    BY <1>1 DEF readSupplyResponse, HoldersShape, Count
<1>3. \A i \in DOMAIN a.list : a.list[i].amount \in Nat
    BY <1>1 DEF readHolderEntry, HoldersShape, Count
<1>4. IsFiniteSet(DOMAIN a.list) /\ DOMAIN a.list \subseteq Nat
    <2>1. PICK n \in Nat : DOMAIN a.list = 1..n
        BY <1>1 DEF HoldersShape, IsList
    <2>. QED  BY <2>1, FS_Interval
<1>5. ASSUME NEW K \in SUBSET DOMAIN a.list
      PROVE  AmountsOK(a.list, K)
    <2>1. IsFiniteSet(K)
        BY <1>4, FS_Subset
    <2>. QED  BY <1>3, <1>4, <2>1 DEF AmountsOK
<1>. QED  BY <1>1, <1>2, <1>5 DEF HoldersShape

LEMMA PctType ==
    ASSUME NEW n, NetworkShape(n)
    PROVE  NetworkPct(n) \in Count
<1>1. n.nodePcts # << >> => SumOf(n.nodePcts) \in Int
    <2>1. PICK m \in Nat : DOMAIN n.nodePcts = 1..m
        BY DEF NetworkShape, IsList
    <2>2. IsFiniteSet(DOMAIN n.nodePcts)
        BY <2>1, FS_Interval
    <2>3. \A i \in DOMAIN n.nodePcts : n.nodePcts[i] \in Int
        BY DEF NetworkShape
    <2>. QED  BY <2>2, <2>3, TotalType, SumIsTotal
<1>. QED  BY <1>1 DEF NetworkPct, NetworkShape, Count

\* What is added up for the members of a network.
MemberAmounts(network, c, exclusion) ==
    [a \in Members(network, exclusion) |->
        IF a \in DOMAIN c.amountByAddress THEN c.amountByAddress[a] ELSE 0]

\* What the members of a network hold, with more or fewer accounts left out.
LEMMA MemberAmountsFacts ==
    ASSUME NEW n, IsFiniteSet(n.members), NEW c, NEW exclusion,
           \A a \in DOMAIN c.amountByAddress : c.amountByAddress[a] \in Nat
    PROVE  LET f == MemberAmounts(n, c, exclusion)
           IN /\ MemberAmount(n, c, exclusion) = SumOf(f)
              /\ DOMAIN f = Members(n, exclusion) /\ IsFiniteSet(DOMAIN f)
              /\ \A a \in DOMAIN f : f[a] \in Nat
              /\ MemberAmount(n, c, exclusion) \in Nat
<1> DEFINE f == MemberAmounts(n, c, exclusion)
<1>1. MemberAmount(n, c, exclusion) = SumOf(f)
    BY DEF MemberAmount, MemberAmounts
<1>2. IsFiniteSet(Members(n, exclusion))
    BY FS_Difference DEF Members
<1>3. /\ DOMAIN f = Members(n, exclusion)
      /\ \A a \in DOMAIN f : f[a] = IF a \in DOMAIN c.amountByAddress
                                    THEN c.amountByAddress[a] ELSE 0
    BY DEF MemberAmounts
<1> HIDE DEF f
<1>4. \A a \in DOMAIN f : f[a] \in Nat
    BY <1>3
<1>5. SumOf(f) \in Nat
    BY <1>2, <1>3, <1>4, NatSums
<1>. QED  BY <1>1, <1>2, <1>3, <1>4, <1>5 DEF f

\* With more addresses left out, the members left hold no more.
LEMMA MemberAmountShrinks ==
    ASSUME NEW n, IsFiniteSet(n.members), NEW c, NEW d, NEW less, NEW more, less \subseteq more,
           \A a \in DOMAIN c.amountByAddress : c.amountByAddress[a] \in Nat,
           d.amountByAddress = c.amountByAddress
    PROVE  MemberAmount(n, d, more) <= MemberAmount(n, c, less)
<1> DEFINE f == MemberAmounts(n, c, less)
           g == MemberAmounts(n, d, more)
<1>1. /\ MemberAmount(n, c, less) = SumOf(f)
      /\ DOMAIN f = Members(n, less) /\ IsFiniteSet(DOMAIN f)
      /\ \A a \in DOMAIN f : f[a] \in Nat
    BY MemberAmountsFacts
<1>2. MemberAmount(n, d, more) = SumOf(g)
    BY DEF MemberAmount, MemberAmounts
<1>3. Members(n, more) \in SUBSET Members(n, less)
    BY DEF Members
<1>4. g = [a \in Members(n, more) |-> f[a]]
    BY <1>3 DEF MemberAmounts
<1> HIDE DEF f, g
<1>5. SumOf([a \in Members(n, more) |-> f[a]]) <= SumOf(f)
    BY <1>1, <1>3, NatSums
<1>. QED  BY <1>1, <1>2, <1>4, <1>5

\* The balances, by address.
LEMMA BalancesByAddress ==
    ASSUME NEW hs, AmountsOK(hs, DOMAIN hs),
           \A i, j \in DOMAIN hs : hs[i].address = hs[j].address => i = j,
           NEW by, by = [a \in {hs[i].address : i \in DOMAIN hs} |->
                            hs[CHOOSE i \in DOMAIN hs : hs[i].address = a].amount]
    PROVE  /\ \A i \in DOMAIN hs : /\ hs[i].address \in DOMAIN by
                                   /\ by[hs[i].address] = hs[i].amount
           /\ \A a \in DOMAIN by : by[a] \in Nat
<1>1. ASSUME NEW i \in DOMAIN hs
      PROVE  /\ hs[i].address \in DOMAIN by /\ by[hs[i].address] = hs[i].amount
    <2> DEFINE j == CHOOSE j \in DOMAIN hs : hs[j].address = hs[i].address
    <2>1. j \in DOMAIN hs /\ hs[j].address = hs[i].address
        OBVIOUS
    <2>2. j = i
        <3> HIDE DEF j
        <3>. QED  BY <2>1
    <2>3. hs[i].address \in {hs[k].address : k \in DOMAIN hs}
        OBVIOUS
    <2>4. by[hs[i].address] = hs[j].amount
        BY <2>3
    <2>. QED  BY <2>2, <2>3, <2>4
<1>2. ASSUME NEW a \in DOMAIN by
      PROVE  by[a] \in Nat
    <2>1. PICK i \in DOMAIN hs : a = hs[i].address
        OBVIOUS
    <2>. QED  BY <1>1, <2>1 DEF AmountsOK
<1>. QED  BY <1>1, <1>2

\* The accounts of the members that count hold no more than the network's share.
LEMMA MembersHold ==
    ASSUME NEW hs, AmountsOK(hs, DOMAIN hs),
           \A i, j \in DOMAIN hs : hs[i].address = hs[j].address => i = j,
           NEW c, c.amountByAddress = [a \in {hs[i].address : i \in DOMAIN hs} |->
                      hs[CHOOSE i \in DOMAIN hs : hs[i].address = a].amount],
           NEW n, IsFiniteSet(n.members), NEW exclusion
    PROVE  LET I == {i \in Considered(hs, exclusion) : hs[i].address \in n.members}
           IN SumOf(Amounts(hs, I)) <= MemberAmount(n, c, exclusion)
<1> DEFINE I == {i \in Considered(hs, exclusion) : hs[i].address \in n.members}
           f == Amounts(hs, I)
           g == MemberAmounts(n, c, exclusion)
           A == Members(n, exclusion)
           name == [i \in I |-> hs[i].address]
<1>1. /\ \A i \in DOMAIN hs : /\ hs[i].address \in DOMAIN c.amountByAddress
                              /\ c.amountByAddress[hs[i].address] = hs[i].amount
      /\ \A a \in DOMAIN c.amountByAddress : c.amountByAddress[a] \in Nat
    BY BalancesByAddress
<1>2. /\ MemberAmount(n, c, exclusion) = SumOf(g)
      /\ DOMAIN g = A /\ IsFiniteSet(DOMAIN g)
      /\ \A a \in DOMAIN g : g[a] \in Nat
      /\ \A a \in DOMAIN g : g[a] = IF a \in DOMAIN c.amountByAddress
                                    THEN c.amountByAddress[a] ELSE 0
    <2>1. \A a \in DOMAIN c.amountByAddress : c.amountByAddress[a] \in Nat
        BY <1>1
    <2>2. /\ MemberAmount(n, c, exclusion) = SumOf(g)
          /\ DOMAIN g = A /\ IsFiniteSet(DOMAIN g)
          /\ \A a \in DOMAIN g : g[a] \in Nat
        BY <2>1, MemberAmountsFacts
    <2>3. \A a \in DOMAIN g : g[a] = IF a \in DOMAIN c.amountByAddress
                                    THEN c.amountByAddress[a] ELSE 0
        BY DEF MemberAmounts
    <2>. QED  BY <2>2, <2>3
<1>3. I \in SUBSET DOMAIN hs
    BY DEF Considered
<1>4. AmountsOK(hs, I)
    <2> HIDE DEF I
    <2>1. IsFiniteSet(I)
        BY <1>3, FS_Subset DEF AmountsOK
    <2>. QED  BY <1>3, <2>1 DEF AmountsOK
<1>5. /\ DOMAIN f = I /\ IsFiniteSet(I)
      /\ \A i \in I : f[i] = hs[i].amount
      /\ \A i \in I : f[i] \in Nat /\ f[i] \in Int
    BY <1>4, AmountsFacts
<1>6. \A i \in I : hs[i].address \in A
    BY DEF Considered, Members
<1>7. \A i \in I : name[i] \in A /\ g[name[i]] = f[i]
    <2>1. TAKE i \in I
    <2>2. name[i] = hs[i].address /\ i \in DOMAIN hs
        BY <1>3
    <2> HIDE DEF I, f, g, A, name
    <2>3. g[name[i]] = c.amountByAddress[hs[i].address]
        BY <1>1, <1>2, <1>6, <2>2
    <2>. QED  BY <1>1, <1>5, <1>6, <2>2, <2>3
<1>8. \A i, j \in I : name[i] = name[j] => i = j
    BY <1>3
<1> HIDE DEF I, f, g, A, name
<1>9. PICK h : Sums(h, f, I) /\ Total(f) = h[I]
    <2>1. \E h : Sums(h, f, DOMAIN f) /\ Total(f) = h[DOMAIN f]
        BY <1>5, TotalIsSum
    <2>. QED  BY <1>5, <2>1
<1>10. PICK k : Sums(k, g, A) /\ Total(g) = k[A]
    <2>1. \E k : Sums(k, g, DOMAIN g) /\ Total(g) = k[DOMAIN g]
        BY <1>2, TotalIsSum
    <2>. QED  BY <1>2, <2>1
<1>11. \A a \in A : g[a] \in Nat /\ g[a] \in Int
    BY <1>2
<1>12. h[I] = k[{name[i] : i \in I}]
    BY <1>5, <1>7, <1>8, <1>9, <1>10, <1>11, SumOfImage
<1>13. k[{name[i] : i \in I}] <= k[A]
    <2> DEFINE Img == {name[i] : i \in I}
    <2>1. Img \in SUBSET A /\ A \in SUBSET A
        BY <1>7
    <2> HIDE DEF Img
    <2>2. k[Img] <= k[A]
        BY <1>2, <1>10, <1>11, <2>1, SumGrows
    <2>. QED  BY <2>2 DEF Img
<1>14. SumOf(f) <= MemberAmount(n, c, exclusion)
    BY <1>2, <1>9, <1>10, <1>12, <1>13, SumIsTotal
<1>. QED  BY <1>14 DEF f, I

-----------------------------------------------------------------------------
(* Layer 3: the verdict.                                                   *)

\* The share of the largest network: declared for all of them, or the largest of
\* what each declares or its members hold.
LEMMA ClusterCases ==
    ASSUME NEW g, GraphShape(g), None \notin Int, NEW c, c.supply \in Nat, NEW exclusion,
           \A a \in DOMAIN c.amountByAddress : c.amountByAddress[a] \in Nat
    PROVE  LET graph == normaliseInsiderGraph(g)
               cluster == resolveInsiderClusterPct(graph, c, exclusion)
           IN /\ graph.networks = g
              /\ \/ /\ graph.largestClusterPct \in Int
                    /\ cluster = graph.largestClusterPct * c.supply
                    /\ \A n \in DOMAIN g : /\ NetworkPct(g[n]) \in Int
                                           /\ NetworkPct(g[n]) <= graph.largestClusterPct
                 \/ /\ graph.largestClusterPct = None
                    /\ \E n \in DOMAIN g : NetworkPct(g[n]) = None
                    /\ \E n \in DOMAIN g : cluster = NetworkShare(g[n], c, exclusion)
                    /\ \A n \in DOMAIN g : /\ NetworkShare(g[n], c, exclusion) \in Int
                                           /\ NetworkShare(g[n], c, exclusion) <= cluster
<1> DEFINE graph == normaliseInsiderGraph(g)
           cluster == resolveInsiderClusterPct(graph, c, exclusion)
           pcts == {NetworkPct(g[i]) : i \in DOMAIN g}
           shares == {NetworkShare(g[i], c, exclusion) : i \in DOMAIN g}
<1>1. /\ graph.networks = g
      /\ graph.largestClusterPct = IF g = << >> THEN 0
                                   ELSE IF None \in pcts THEN None ELSE Max(pcts)
    BY DEF normaliseInsiderGraph
<1>2. cluster = IF graph.largestClusterPct # None THEN graph.largestClusterPct * c.supply
                ELSE Max(shares)
    <2> HIDE DEF graph
    <2>. QED  BY <1>1 DEF resolveInsiderClusterPct
<1>3. IsFiniteSet(DOMAIN g) /\ \A n \in DOMAIN g : NetworkShape(g[n])
    <2>1. PICK m \in Nat : DOMAIN g = 1..m
        BY DEF GraphShape, IsList
    <2>. QED  BY <2>1, FS_Interval DEF GraphShape
<1>4. IsFiniteSet(pcts) /\ IsFiniteSet(shares)
    <2> DEFINE f == [i \in DOMAIN g |-> NetworkPct(g[i])]
               s == [i \in DOMAIN g |-> NetworkShare(g[i], c, exclusion)]
    <2>1. pcts = {f[i] : i \in DOMAIN g} /\ shares = {s[i] : i \in DOMAIN g}
        OBVIOUS
    <2> HIDE DEF f, s, pcts, shares
    <2>2. IsFiniteSet({f[i] : i \in DOMAIN g}) /\ IsFiniteSet({s[i] : i \in DOMAIN g})
        BY <1>3, ImageIsFinite
    <2>. QED  BY <2>1, <2>2
<1>5. \A n \in DOMAIN g : NetworkPct(g[n]) \in Count
    BY <1>3, PctType
<1>6. \A n \in DOMAIN g : NetworkShare(g[n], c, exclusion) \in Int
    <2>1. TAKE n \in DOMAIN g
    <2>2. MemberAmount(g[n], c, exclusion) \in Nat
        <3>1. IsFiniteSet(g[n].members)
            BY <1>3 DEF NetworkShape
        <3>. QED  BY <3>1, MemberAmountsFacts
    <2>3. MemberAmount(g[n], c, exclusion) * PctMax \in Int
        BY <2>2 DEF PctMax
    <2>4. NetworkPct(g[n]) # None => NetworkPct(g[n]) * c.supply \in Int
        BY <1>5 DEF Count
    <2>. QED  BY <2>3, <2>4 DEF NetworkShare
<1>7. DOMAIN g = {} => g = << >>
    <2>1. PICK m \in Nat : g \in Seq(Range(g)) /\ DOMAIN g = 1..m
        BY DEF GraphShape, IsList
    <2>. QED  BY <2>1
<1>8. CASE g = << >>
    <2>1. graph.largestClusterPct = 0 /\ 0 # None
        BY <1>1, <1>8
    <2>2. \A n \in DOMAIN g : FALSE
        BY <1>8
    <2> HIDE DEF graph, cluster, pcts, shares
    <2>. QED  BY <1>1, <1>2, <2>1, <2>2 DEF graph, cluster
<1>9. CASE g # << >> /\ None \in pcts
    <2>1. graph.largestClusterPct = None /\ \E n \in DOMAIN g : NetworkPct(g[n]) = None
        BY <1>1, <1>9
    <2>2. shares # {} /\ \A x \in shares : x \in Int
        BY <1>6, <2>1
    <2>3. Max(shares) \in shares /\ \A x \in shares : Max(shares) >= x
        <3> HIDE DEF shares
        <3>. QED  BY <1>4, <2>2, MaxIsGreatest
    <2>4. cluster = Max(shares)
        <3> HIDE DEF graph, cluster, shares
        <3>. QED  BY <1>2, <2>1
    <2>5. /\ \E n \in DOMAIN g : cluster = NetworkShare(g[n], c, exclusion)
          /\ \A n \in DOMAIN g : cluster >= NetworkShare(g[n], c, exclusion)
        <3> HIDE DEF cluster
        <3>. QED  BY <2>3, <2>4
    <2>6. cluster \in Int /\ \A n \in DOMAIN g : NetworkShare(g[n], c, exclusion) <= cluster
        <3> HIDE DEF cluster
        <3>. QED  BY <1>6, <2>5
    <2> HIDE DEF graph, cluster, pcts, shares
    <2>. QED  BY <1>1, <1>6, <2>1, <2>5, <2>6 DEF graph, cluster
<1>10. CASE g # << >> /\ None \notin pcts
    <2>1. \A n \in DOMAIN g : NetworkPct(g[n]) \in Int
        BY <1>5, <1>10 DEF Count
    <2>2. pcts # {} /\ \A x \in pcts : x \in Int
        BY <1>7, <1>10, <2>1
    <2>3. Max(pcts) \in pcts /\ \A x \in pcts : Max(pcts) >= x
        <3> HIDE DEF pcts
        <3>. QED  BY <1>4, <2>2, MaxIsGreatest
    <2>4. graph.largestClusterPct = Max(pcts) /\ Max(pcts) \in Int
        BY <1>1, <1>10, <2>2, <2>3
    <2>5. \A n \in DOMAIN g : NetworkPct(g[n]) <= Max(pcts)
        <3>1. TAKE n \in DOMAIN g
        <3>2. NetworkPct(g[n]) \in pcts
            OBVIOUS
        <3> HIDE DEF pcts
        <3>. QED  BY <2>1, <2>3, <2>4, <3>2
    <2>6. graph.largestClusterPct # None
        BY <2>4
    <2> HIDE DEF graph, cluster, pcts, shares
    <2>. QED  BY <1>1, <1>2, <2>1, <2>4, <2>5, <2>6 DEF graph, cluster
<1>. QED  BY <1>8, <1>9, <1>10

\* What layer 3 asks of the measured holders.
Spread(c, graph, exclusion) ==
    LET cluster == resolveInsiderClusterPct(graph, c, exclusion)
    IN /\ ClusterResolvable(graph, exclusion)
       /\ ~ (cluster < 0) /\ ~ (cluster > PctMax * c.supply)
       /\ c.consideredCount # 0
       /\ ~ Above(c.largest, MaxSingleHolderPct, c.supply)
       /\ ~ Above(c.topSum, MaxTop10HolderPct, c.supply)
       /\ ~ (cluster > MaxInsiderClusterPct * c.supply)

\* Layer 3 has no reason to reject: there are holders, and none of its limits is passed.
LEMMA NoConcentration ==
    ASSUME NEW c, NEW cluster
    PROVE  concentrationReasons(c, cluster) = {} <=>
             /\ c.consideredCount # 0
             /\ ~ Above(c.largest, MaxSingleHolderPct, c.supply)
             /\ ~ Above(c.topSum, MaxTop10HolderPct, c.supply)
             /\ ~ (cluster > MaxInsiderClusterPct * c.supply)
<1> DEFINE R == {"unmeasured", "single", "top", "insiders"}
           Holds(reason) ==
             CASE reason = "unmeasured" -> c.consideredCount = 0
               [] reason = "single" -> Above(c.largest, MaxSingleHolderPct, c.supply)
               [] reason = "top" -> Above(c.topSum, MaxTop10HolderPct, c.supply)
               [] OTHER -> cluster > MaxInsiderClusterPct * c.supply
<1>1. Holds("unmeasured") <=> c.consideredCount = 0
    OBVIOUS
<1>2. Holds("single") <=> Above(c.largest, MaxSingleHolderPct, c.supply)
    OBVIOUS
<1>3. Holds("top") <=> Above(c.topSum, MaxTop10HolderPct, c.supply)
    OBVIOUS
<1>4. Holds("insiders") <=> cluster > MaxInsiderClusterPct * c.supply
    OBVIOUS
<1>5. concentrationReasons(c, cluster) = {reason \in R : Holds(reason)}
    BY DEF concentrationReasons
<1> HIDE DEF Holds
<1>6. concentrationReasons(c, cluster) = {} <=>
        ~ Holds("unmeasured") /\ ~ Holds("single") /\ ~ Holds("top") /\ ~ Holds("insiders")
    BY <1>5
<1>. QED  BY <1>1, <1>2, <1>3, <1>4, <1>6

\* Layer 3 passes exactly on answers that came and a concentration that is spread.
LEMMA HoldersPass ==
    ASSUME NEW a, NEW g, NEW p, NEW r
    PROVE  LET h == fetchHolders(a)
               exclusion == buildExclusionSet(collectPoolAddresses(
                               optionalEvidence(p), optionalEvidence(r)))
               c == computeConcentration(h, exclusion)
           IN checkHolders(a, g, p, r) = "PASS" <=>
                /\ h # Failed /\ g # Failed
                /\ Spread(c, normaliseInsiderGraph(g), exclusion)
<1> DEFINE h == fetchHolders(a)
           exclusion == buildExclusionSet(collectPoolAddresses(
                           optionalEvidence(p), optionalEvidence(r)))
           c == computeConcentration(h, exclusion)
           graph == normaliseInsiderGraph(g)
           cluster == resolveInsiderClusterPct(graph, c, exclusion)
<1>1. checkHolders(a, g, p, r) =
        IF h = Failed \/ g = Failed THEN "ERROR"
        ELSE IF ~ ClusterResolvable(graph, exclusion) THEN "ERROR"
        ELSE IF cluster < 0 \/ cluster > PctMax * c.supply THEN "ERROR"
        ELSE ByReasons(concentrationReasons(c, cluster))
    BY DEF checkHolders
<1>2. Spread(c, graph, exclusion) <=>
        /\ ClusterResolvable(graph, exclusion)
        /\ ~ (cluster < 0) /\ ~ (cluster > PctMax * c.supply)
        /\ concentrationReasons(c, cluster) = {}
    <2> HIDE DEF c, graph, exclusion
    <2>1. concentrationReasons(c, cluster) = {} <=>
             /\ c.consideredCount # 0
             /\ ~ Above(c.largest, MaxSingleHolderPct, c.supply)
             /\ ~ Above(c.topSum, MaxTop10HolderPct, c.supply)
             /\ ~ (cluster > MaxInsiderClusterPct * c.supply)
        <3> HIDE DEF cluster
        <3>. QED  BY NoConcentration
    <2>. QED  BY <2>1 DEF Spread
<1>3. \A S : ByReasons(S) = "PASS" <=> S = {}
    BY DEF ByReasons
<1> HIDE DEF h, exclusion, c, graph, cluster
<1>4. checkHolders(a, g, p, r) = "PASS" <=>
        h # Failed /\ g # Failed /\ Spread(c, graph, exclusion)
    BY <1>1, <1>2, <1>3
<1>. QED  BY <1>4 DEF h, exclusion, c, graph

\* The measured concentration, in words of the list.
LEMMA Concentrated ==
    ASSUME NEW hs, NEW supply, NEW exclusion
    PROVE  LET K == Considered(hs, exclusion)
               c == computeConcentration([holders |-> hs, supply |-> supply], exclusion)
           IN /\ c.supply = supply
              /\ c.consideredCount = Cardinality(K)
              /\ c.largest = IF K = {} THEN 0 ELSE Max(Range(Amounts(hs, K)))
              /\ c.topSum = SumOf(Amounts(hs, Leading(hs, K, TopN)))
              /\ c.amountByAddress = [a \in {hs[i].address : i \in DOMAIN hs} |->
                     hs[CHOOSE i \in DOMAIN hs : hs[i].address = a].amount]
    BY DEF computeConcentration

\* A common factor cancels.
LEMMA ScaledLess ==
    ASSUME NEW x \in Int, NEW y \in Int, NEW s \in Nat, s > 0, x * s <= y * s
    PROVE  x <= y
<1>1. SUFFICES ASSUME x > y PROVE FALSE
    OBVIOUS
<1>2. PICK d \in Nat : d >= 1 /\ x = y + d
    <2>1. x - y \in Nat /\ x - y >= 1 /\ x = y + (x - y)
        BY <1>1
    <2>. QED  BY <2>1
<1>3. (y + d) * s = y * s + d * s
    OBVIOUS
<1>4. d * s >= s /\ d * s \in Int /\ y * s \in Int
    <2>1. PICK e \in Nat : d = e + 1
        <3>1. d - 1 \in Nat /\ d = (d - 1) + 1
            BY <1>2
        <3>. QED  BY <3>1
    <2>2. (e + 1) * s = e * s + s /\ e * s >= 0 /\ e * s \in Int
        OBVIOUS
    <2>. QED  BY <2>1, <2>2
<1>. QED  BY <1>1, <1>2, <1>3, <1>4

\* Layer 3: the holdings are spread, said of the raw list and graph.
LEMMA PassedHolders ==
    ASSUME NEW a, NEW g, NEW p, NEW r, None \notin Int, TopN \in Nat,
           a # Failed => HoldersShape(a), g # Failed => GraphShape(g),
           checkHolders(a, g, p, r) = "PASS"
    PROVE  HoldingsAreSpread(a, g, collectPoolAddresses(optionalEvidence(p),
                                                        optionalEvidence(r)))
<1> DEFINE pool == collectPoolAddresses(optionalEvidence(p), optionalEvidence(r))
           exclusion == buildExclusionSet(pool)
           hs == a.list
           supply == a.supply
           K == Considered(hs, exclusion)
           c == computeConcentration([holders |-> hs, supply |-> supply], exclusion)
           graph == normaliseInsiderGraph(g)
           cluster == resolveInsiderClusterPct(graph, c, exclusion)
           Owned(S) == SumOf([i \in S |-> hs[i].amount])
<1>1. /\ fetchHolders(a) # Failed /\ g # Failed
      /\ Spread(computeConcentration(fetchHolders(a), exclusion), graph, exclusion)
    BY HoldersPass
<1>2. /\ a # Failed /\ fetchHolders(a) = [holders |-> hs, supply |-> supply]
      /\ supply \in Nat /\ supply > 0
      /\ \A S \in SUBSET DOMAIN hs : AmountsOK(hs, S)
      /\ \A i, j \in DOMAIN hs : hs[i].address = hs[j].address => i = j
    <2>1. fetchHolders(a) # Failed
        BY <1>1
    <2> HIDE DEF pool, exclusion, K, c, graph, cluster, Owned
    <2>. QED  BY <2>1, FetchedHolders
<1>3. /\ c.supply = supply /\ c.consideredCount = Cardinality(K)
      /\ c.largest = IF K = {} THEN 0 ELSE Max(Range(Amounts(hs, K)))
      /\ c.topSum = SumOf(Amounts(hs, Leading(hs, K, TopN)))
      /\ c.amountByAddress = [b \in {hs[i].address : i \in DOMAIN hs} |->
             hs[CHOOSE i \in DOMAIN hs : hs[i].address = b].amount]
    <2> HIDE DEF pool, exclusion, hs, supply, graph, cluster, Owned
    <2>. QED  BY Concentrated
<1>4. Spread(c, graph, exclusion)
    <2> HIDE DEF graph, exclusion, hs, supply
    <2>. QED  BY <1>1, <1>2
<1>5. K = {i \in DOMAIN hs : hs[i].address \notin pool \cup {Incinerator}}
    BY DEF Considered, buildExclusionSet
<1>6. K \in SUBSET DOMAIN hs /\ AmountsOK(hs, K) /\ AmountsOK(hs, DOMAIN hs)
    <2>1. K \in SUBSET DOMAIN hs /\ DOMAIN hs \in SUBSET DOMAIN hs
        BY DEF Considered
    <2> HIDE DEF K, hs
    <2>. QED  BY <1>2, <2>1
<1>7. \A S : Owned(S) = SumOf(Amounts(hs, S))
    BY DEF Amounts
<1>8. GraphShape(g) /\ \A b \in DOMAIN c.amountByAddress : c.amountByAddress[b] \in Nat
    <2>1. GraphShape(g)
        BY <1>1
    <2> HIDE DEF c, hs
    <2>. QED  BY <1>2, <1>3, <1>6, <2>1, BalancesByAddress
<1>9. /\ graph.networks = g
      /\ \/ /\ graph.largestClusterPct \in Int
            /\ cluster = graph.largestClusterPct * c.supply
            /\ \A n \in DOMAIN g : /\ NetworkPct(g[n]) \in Int
                                   /\ NetworkPct(g[n]) <= graph.largestClusterPct
         \/ /\ graph.largestClusterPct = None
            /\ \E n \in DOMAIN g : NetworkPct(g[n]) = None
            /\ \E n \in DOMAIN g : cluster = NetworkShare(g[n], c, exclusion)
            /\ \A n \in DOMAIN g : /\ NetworkShare(g[n], c, exclusion) \in Int
                                   /\ NetworkShare(g[n], c, exclusion) <= cluster
    <2>1. c.supply \in Nat
        BY <1>2, <1>3
    <2> HIDE DEF c, exclusion
    <2>. QED  BY <1>8, <2>1, ClusterCases
<1> HIDE DEF pool, exclusion, hs, supply, K, c, graph, cluster, Owned
<1>10. /\ Cardinality(K) # 0
       /\ ~ (c.largest * 100 > 8 * supply)
       /\ ~ (c.topSum * 100 > 25 * supply)
       /\ ~ (cluster > 15 * supply)
    BY <1>3, <1>4 DEF Spread, Above, PctMax, MaxSingleHolderPct, MaxTop10HolderPct,
                      MaxInsiderClusterPct, cluster
<1>11. K # {}
    BY <1>10, FS_EmptySet
<1>12. \A i \in K : 100 * hs[i].amount <= 8 * supply
    <2>1. /\ c.largest \in Nat /\ \A i \in K : hs[i].amount <= c.largest
          /\ \A i \in K : hs[i].amount \in Nat
        BY <1>3, <1>6, <1>11, LargestIsMost DEF AmountsOK
    <2>. QED  BY <1>2, <1>10, <2>1
<1>13. ASSUME NEW S \in SUBSET K, Cardinality(S) <= TopN
       PROVE  100 * Owned(S) <= 25 * supply
    <2>1. /\ c.topSum \in Nat /\ SumOf(Amounts(hs, S)) \in Nat
          /\ SumOf(Amounts(hs, S)) <= c.topSum
        BY <1>3, <1>6, <1>13, TopIsMost
    <2>2. Owned(S) \in Nat /\ Owned(S) <= c.topSum
        BY <1>7, <2>1
    <2>. QED  BY <1>2, <1>10, <2>1, <2>2
<1>14. ASSUME NEW n \in DOMAIN g
       PROVE  IF NetworkPct(g[n]) # None THEN NetworkPct(g[n]) <= 15
              ELSE 100 * Owned({i \in K : hs[i].address \in g[n].members}) <= 15 * supply
    <2>1. NetworkPct(g[n]) \in Count
        BY <1>8, PctType DEF GraphShape
    <2>2. CASE graph.largestClusterPct \in Int
        <3>1. /\ cluster = graph.largestClusterPct * supply
              /\ NetworkPct(g[n]) \in Int /\ NetworkPct(g[n]) <= graph.largestClusterPct
            BY <1>3, <1>9, <2>2
        <3>2. graph.largestClusterPct * supply <= 15 * supply
            <4>1. graph.largestClusterPct * supply \in Int
                BY <1>2, <2>2
            <4>. QED  BY <1>2, <1>10, <3>1, <4>1
        <3>3. graph.largestClusterPct <= 15
            BY <1>2, <2>2, <3>2, ScaledLess
        <3>4. NetworkPct(g[n]) <= 15 /\ NetworkPct(g[n]) # None
            BY <2>2, <3>1, <3>3
        <3>. QED  BY <3>4
    <2>3. CASE graph.largestClusterPct = None
        <3>1. /\ NetworkShare(g[n], c, exclusion) \in Int
              /\ NetworkShare(g[n], c, exclusion) <= cluster
              /\ cluster \in Int
            BY <1>9, <2>3
        <3>2. NetworkShare(g[n], c, exclusion) <= 15 * supply
            BY <1>2, <1>10, <3>1
        <3>3. CASE NetworkPct(g[n]) # None
            <4>1. NetworkPct(g[n]) * supply <= 15 * supply /\ NetworkPct(g[n]) \in Int
                BY <1>3, <2>1, <3>2, <3>3 DEF NetworkShare, Count
            <4>2. NetworkPct(g[n]) <= 15
                BY <1>2, <4>1, ScaledLess
            <4>. QED  BY <3>3, <4>2
        <3>4. CASE NetworkPct(g[n]) = None
            <4> DEFINE I == {i \in K : hs[i].address \in g[n].members}
            <4>1. IsFiniteSet(g[n].members)
                BY <1>8 DEF GraphShape, NetworkShape
            <4>2. SumOf(Amounts(hs, I)) <= MemberAmount(g[n], c, exclusion)
                <5>1. SumOf(Amounts(hs, {i \in Considered(hs, exclusion) :
                                            hs[i].address \in g[n].members}))
                        <= MemberAmount(g[n], c, exclusion)
                    BY <1>2, <1>3, <1>6, <4>1, MembersHold
                <5>. QED  BY <5>1 DEF K
            <4>3. MemberAmount(g[n], c, exclusion) \in Nat
                BY <1>8, <4>1, MemberAmountsFacts
            <4>4. SumOf(Amounts(hs, I)) \in Nat
                <5>1. I \in SUBSET DOMAIN hs
                    BY <1>6
                <5> HIDE DEF I
                <5>2. AmountsOK(hs, I)
                    BY <1>2, <5>1
                <5>. QED  BY <5>2, AmountsFacts
            <4>5. MemberAmount(g[n], c, exclusion) * 100 <= 15 * supply
                BY <3>2, <3>4 DEF NetworkShare, PctMax
            <4> HIDE DEF I
            <4>6. 100 * Owned(I) <= 15 * supply
                BY <1>2, <1>7, <4>2, <4>3, <4>4, <4>5
            <4>. QED  BY <3>4, <4>6 DEF I
        <3>. QED  BY <3>3, <3>4
    <2>. QED  BY <1>9, <2>2, <2>3
<1>15. HoldingsAreSpread(a, g, pool)
    <2> DEFINE others == {i \in DOMAIN hs : hs[i].address \notin pool \cup {Incinerator}}
    <2>1. others = K
        BY <1>5
    <2> HIDE DEF others
    <2>2. /\ others # {}
          /\ \A i \in others : 100 * hs[i].amount <= 8 * supply
          /\ \A S \in SUBSET others : Cardinality(S) <= TopN => 100 * Owned(S) <= 25 * supply
          /\ \A n \in DOMAIN g :
               IF NetworkPct(g[n]) # None THEN NetworkPct(g[n]) <= 15
               ELSE 100 * Owned({i \in others : hs[i].address \in g[n].members}) <= 15 * supply
        BY <1>11, <1>12, <1>13, <1>14, <2>1
    <2>. QED  BY <2>2 DEF HoldingsAreSpread, others, hs, supply, Owned
<1>. QED  BY <1>15 DEF pool

-----------------------------------------------------------------------------
(* What the gate calls buyable.                                            *)
\* Buyable: every layer is on record with a PASS, and the PASS is earned.
LEMMA BuyableClears ==
    ASSUME LayersInv, phase = "done", result.buyable
    PROVE  \A l \in Names : Cleared(l)
<1>1. at = 7 /\ result = Gate!combine(verdicts)
    BY DEF LayersInv, LoopOK
<1>2. Gate!With(verdicts, "PASS") = DOMAIN verdicts
    BY <1>1 DEF Gate!combine
<1>3. \A i \in DOMAIN verdicts : verdicts[i].outcome = "PASS"
    BY <1>2 DEF Gate!With
<1>4. ~ decided
    BY <1>3 DEF LayersInv, VerdictsOK
<1>5. Len(verdicts) = 6
    BY <1>1, <1>4 DEF LayersInv, VerdictsOK
<1>6. DOMAIN verdicts = 1..6
    <2>1. verdicts \in Seq([layer : DOMAIN Script, outcome : Gate!Outcomes, ran : {TRUE}])
        BY DEF LayersInv, VerdictsOK
    <2>. QED  BY <1>5, <2>1
<1>7. \A i \in 1..6 : Cleared(LayerOrder[i])
    BY <1>3, <1>6 DEF LayersInv, VerdictsOK
<1>. QED  BY <1>7, OrderOfLayers

\* An answer that was heard is one that the outside world may give.
LEMMA HeardShapes ==
    ASSUME LayersInv
    PROVE  \A l \in Names : \A q \in heardBy[l] :
             /\ q = "roundTrip" /\ raw(q) # Failed => RoundTripShape(raw(q))
             /\ q = "pair" /\ raw(q) # Failed => PairShape(raw(q))
             /\ q = "report" /\ raw(q) # Failed => ReportShape(raw(q))
             /\ q = "holders" /\ raw(q) # Failed => HoldersShape(raw(q))
             /\ q = "insiders" /\ raw(q) # Failed => GraphShape(raw(q))
             /\ q = "history" /\ raw(q) # Failed => HistoryShape(raw(q))
<1>1. \A l \in Names : \A q \in heardBy[l] : raw(q) \in Raw[q]
    BY HeardCells DEF raw
<1>2. /\ \A a \in Raw["roundTrip"] \ {Failed} : RoundTripShape(a)
      /\ \A a \in Raw["pair"] \ {Failed} : PairShape(a)
      /\ \A a \in Raw["report"] \ {Failed} : ReportShape(a)
      /\ \A a \in Raw["holders"] \ {Failed} : HoldersShape(a)
      /\ \A a \in Raw["insiders"] \ {Failed} : GraphShape(a)
      /\ \A a \in Raw["history"] \ {Failed} : HistoryShape(a)
    BY LayersAssumption
<1>3. SUFFICES ASSUME NEW l \in Names, NEW q \in heardBy[l]
      PROVE  /\ q = "roundTrip" /\ raw(q) # Failed => RoundTripShape(raw(q))
             /\ q = "pair" /\ raw(q) # Failed => PairShape(raw(q))
             /\ q = "report" /\ raw(q) # Failed => ReportShape(raw(q))
             /\ q = "holders" /\ raw(q) # Failed => HoldersShape(raw(q))
             /\ q = "insiders" /\ raw(q) # Failed => GraphShape(raw(q))
             /\ q = "history" /\ raw(q) # Failed => HistoryShape(raw(q))
    OBVIOUS
<1>4. raw(q) \in Raw[q]
    BY <1>1
<1>. QED  BY <1>2, <1>4

LEMMA BuyableIsMeasured == LayersInv => BuyableMeansMeasured
<1> SUFFICES ASSUME LayersInv, phase = "done", result.buyable
             PROVE  /\ MintIsInert(raw("facts"))
                    /\ ReallySells(raw("roundTrip").sell)
                    /\ PoolIsDeep(raw("pair"), raw("report"))
                    /\ HoldingsAreSpread(raw("holders"), raw("insiders"), KnownPool)
                    /\ DeployerIsKnown(raw("creator"), raw("history"))
                    /\ raw("report").score \in 0..20 /\ raw("report").rugged # TRUE
    BY DEF BuyableMeansMeasured, DeployerIsKnown
<1>1. \A l \in Names : Cleared(l)
    BY BuyableClears
<1>2. None \notin Int /\ TopN \in Nat
    BY LayersAssumption
<1>3. MintIsInert(raw("facts"))
    <2>1. checkMint(raw("facts")) = "PASS"
        BY <1>1 DEF Cleared, Names
    <2>. QED  BY <2>1, PassedMint
<1>4. ReallySells(raw("roundTrip").sell)
    <2>1. Cleared("sellsim") /\ "sellsim" \in Names
        BY <1>1 DEF Names
    <2>2. "roundTrip" \in heardBy["sellsim"] /\ checkSellability(raw("roundTrip")) = "PASS"
        BY <2>1 DEF Cleared, Heard
    <2>3. raw("roundTrip") # Failed => RoundTripShape(raw("roundTrip"))
        BY <2>1, <2>2, HeardShapes
    <2>. QED  BY <2>2, <2>3, PassedSell
<1>5. /\ "report" \in heardBy["thirdparty"] /\ checkThirdParty(raw("report")) = "PASS"
      /\ raw("report") # Failed => ReportShape(raw("report"))
    <2>1. Cleared("thirdparty") /\ "thirdparty" \in Names
        BY <1>1 DEF Names
    <2>2. "report" \in heardBy["thirdparty"] /\ checkThirdParty(raw("report")) = "PASS"
        BY <2>1 DEF Cleared, Heard
    <2>. QED  BY <2>1, <2>2, HeardShapes
<1>6. /\ getTokenReport(raw("report")) # Failed
      /\ raw("report").score \in 0..20 /\ raw("report").rugged # TRUE
    BY <1>2, <1>5, PassedReport
<1>7. PoolIsDeep(raw("pair"), raw("report"))
    <2>1. Cleared("liquidity") /\ "liquidity" \in Names
        BY <1>1 DEF Names
    <2>2. "pair" \in heardBy["liquidity"] /\ runLayer2(raw("pair"), raw("report")) = "PASS"
        BY <2>1 DEF Cleared, Heard
    <2>3. raw("pair") # Failed => PairShape(raw("pair"))
        BY <2>1, <2>2, HeardShapes
    <2>. QED  BY <1>2, <1>5, <1>6, <2>2, <2>3, PassedLiquidity
<1>8. HoldingsAreSpread(raw("holders"), raw("insiders"), KnownPool)
    <2>1. Cleared("holders") /\ "holders" \in Names
        BY <1>1 DEF Names
    <2>2. /\ "holders" \in heardBy["holders"] /\ "insiders" \in heardBy["holders"]
          /\ checkHolders(raw("holders"), raw("insiders"), getBestPair(raw("pair")),
                          getTokenReport(raw("report"))) = "PASS"
        BY <2>1 DEF Cleared, Heard
    <2>3. /\ raw("holders") # Failed => HoldersShape(raw("holders"))
          /\ raw("insiders") # Failed => GraphShape(raw("insiders"))
        BY <2>1, <2>2, HeardShapes
    <2>. QED  BY <1>2, <2>2, <2>3, PassedHolders DEF KnownPool
<1>9. DeployerIsKnown(raw("creator"), raw("history"))
    <2>1. Cleared("deployer") /\ "deployer" \in Names
        BY <1>1 DEF Names
    <2>2. /\ raw("creator") # None => "history" \in heardBy["deployer"]
          /\ checkDeployer(raw("creator"), raw("history")) = "PASS"
        BY <2>1 DEF Cleared, Heard
    <2>3. raw("creator") # None /\ raw("history") # Failed => HistoryShape(raw("history"))
        BY <2>1, <2>2, HeardShapes
    <2>. QED  BY <1>2, <2>2, <2>3, PassedDeployer
<1>. QED  BY <1>3, <1>4, <1>6, <1>7, <1>8, <1>9

\* "must pass ALL layers" (config.js:7): a buyable result rests on measured facts
\* about the account, the exit, the pool, the holders, the deployer and the report.
THEOREM BuyableIsMeasuredAlways == Spec => []BuyableMeansMeasured
BY LayersHold, BuyableIsMeasured, PTL

-----------------------------------------------------------------------------
(* A lost pair or report makes layer 3 stricter.                           *)
\* What is lost can only shrink the exclusion set.
LEMMA MorePools ==
    ASSUME NEW pair, NEW report, NEW p \in {pair, Failed}, NEW r \in {report, Failed}
    PROVE  buildExclusionSet(collectPoolAddresses(optionalEvidence(p), optionalEvidence(r)))
             \subseteq buildExclusionSet(collectPoolAddresses(
                           optionalEvidence(pair), optionalEvidence(report)))
    BY DEF buildExclusionSet, collectPoolAddresses, optionalEvidence

\* What passes with fewer accounts left out passes with more, as long as there
\* is a holder and a member left to measure.
LEMMA SpreadGrows ==
    ASSUME NEW a, NEW g, None \notin Int, TopN \in Nat, a # Failed => HoldersShape(a),
           GraphShape(g), fetchHolders(a) # Failed, NEW less, NEW more, less \subseteq more,
           Spread(computeConcentration(fetchHolders(a), less), normaliseInsiderGraph(g), less),
           Considered(a.list, more) # {},
           ClusterResolvable(normaliseInsiderGraph(g), more)
    PROVE  Spread(computeConcentration(fetchHolders(a), more), normaliseInsiderGraph(g), more)
<1> DEFINE hs == a.list
           supply == a.supply
           h == [holders |-> hs, supply |-> supply]
           K == Considered(hs, less)
           M == Considered(hs, more)
           c == computeConcentration(h, less)
           d == computeConcentration(h, more)
           graph == normaliseInsiderGraph(g)
           before == resolveInsiderClusterPct(graph, c, less)
           after == resolveInsiderClusterPct(graph, d, more)
<1>1. /\ fetchHolders(a) = h
      /\ supply \in Nat /\ supply > 0
      /\ \A S \in SUBSET DOMAIN hs : AmountsOK(hs, S)
      /\ \A i, j \in DOMAIN hs : hs[i].address = hs[j].address => i = j
    <2> HIDE DEF K, M, c, d, graph, before, after
    <2>. QED  BY FetchedHolders
<1>2. /\ c.supply = supply /\ c.consideredCount = Cardinality(K)
      /\ c.largest = IF K = {} THEN 0 ELSE Max(Range(Amounts(hs, K)))
      /\ c.topSum = SumOf(Amounts(hs, Leading(hs, K, TopN)))
      /\ c.amountByAddress = [b \in {hs[i].address : i \in DOMAIN hs} |->
             hs[CHOOSE i \in DOMAIN hs : hs[i].address = b].amount]
    <2> HIDE DEF hs, supply, M, d, graph, before, after
    <2>. QED  BY Concentrated
<1>3. /\ d.supply = supply /\ d.consideredCount = Cardinality(M)
      /\ d.largest = IF M = {} THEN 0 ELSE Max(Range(Amounts(hs, M)))
      /\ d.topSum = SumOf(Amounts(hs, Leading(hs, M, TopN)))
      /\ d.amountByAddress = [b \in {hs[i].address : i \in DOMAIN hs} |->
             hs[CHOOSE i \in DOMAIN hs : hs[i].address = b].amount]
    <2> HIDE DEF hs, supply, K, c, graph, before, after
    <2>. QED  BY Concentrated
<1>4. Spread(c, graph, less)
    <2> HIDE DEF hs, supply, h, K, M
    <2>. QED  BY <1>1
<1>5. M \in SUBSET K /\ K \in SUBSET DOMAIN hs /\ M # {}
    BY DEF Considered
<1>6. AmountsOK(hs, K) /\ AmountsOK(hs, M) /\ AmountsOK(hs, DOMAIN hs)
    <2>1. M \in SUBSET DOMAIN hs /\ DOMAIN hs \in SUBSET DOMAIN hs
        BY <1>5
    <2> HIDE DEF K, M, hs
    <2>. QED  BY <1>1, <1>5, <2>1
<1>7. /\ \A b \in DOMAIN c.amountByAddress : c.amountByAddress[b] \in Nat
      /\ \A b \in DOMAIN d.amountByAddress : d.amountByAddress[b] \in Nat
      /\ d.amountByAddress = c.amountByAddress
    <2>1. d.amountByAddress = c.amountByAddress
        BY <1>2, <1>3
    <2> HIDE DEF c, d, hs
    <2>2. \A b \in DOMAIN c.amountByAddress : c.amountByAddress[b] \in Nat
        BY <1>1, <1>2, <1>6, BalancesByAddress
    <2>. QED  BY <2>1, <2>2
<1>8. /\ \/ /\ graph.largestClusterPct \in Int
            /\ before = graph.largestClusterPct * supply
         \/ /\ graph.largestClusterPct = None
            /\ \A n \in DOMAIN g : /\ NetworkShare(g[n], c, less) \in Int
                                   /\ NetworkShare(g[n], c, less) <= before
            /\ \E n \in DOMAIN g : before = NetworkShare(g[n], c, less)
    <2>1. c.supply \in Nat
        BY <1>1, <1>2
    <2> HIDE DEF c, h
    <2>2. LET cluster == resolveInsiderClusterPct(graph, c, less)
          IN /\ graph.networks = g
             /\ \/ /\ graph.largestClusterPct \in Int
                   /\ cluster = graph.largestClusterPct * c.supply
                   /\ \A n \in DOMAIN g : /\ NetworkPct(g[n]) \in Int
                                          /\ NetworkPct(g[n]) <= graph.largestClusterPct
                \/ /\ graph.largestClusterPct = None
                   /\ \E n \in DOMAIN g : NetworkPct(g[n]) = None
                   /\ \E n \in DOMAIN g : cluster = NetworkShare(g[n], c, less)
                   /\ \A n \in DOMAIN g : /\ NetworkShare(g[n], c, less) \in Int
                                          /\ NetworkShare(g[n], c, less) <= cluster
        BY <1>7, <2>1, ClusterCases
    <2>. QED  BY <1>2, <2>2
<1>9. /\ \/ /\ graph.largestClusterPct \in Int
            /\ after = graph.largestClusterPct * supply
         \/ /\ graph.largestClusterPct = None
            /\ \E n \in DOMAIN g : NetworkPct(g[n]) = None
            /\ \A n \in DOMAIN g : /\ NetworkShare(g[n], d, more) \in Int
                                   /\ NetworkShare(g[n], d, more) <= after
            /\ \E n \in DOMAIN g : after = NetworkShare(g[n], d, more)
    <2>1. d.supply \in Nat
        BY <1>1, <1>3
    <2> HIDE DEF d, h
    <2>2. LET cluster == resolveInsiderClusterPct(graph, d, more)
          IN /\ graph.networks = g
             /\ \/ /\ graph.largestClusterPct \in Int
                   /\ cluster = graph.largestClusterPct * d.supply
                   /\ \A n \in DOMAIN g : /\ NetworkPct(g[n]) \in Int
                                          /\ NetworkPct(g[n]) <= graph.largestClusterPct
                \/ /\ graph.largestClusterPct = None
                   /\ \E n \in DOMAIN g : NetworkPct(g[n]) = None
                   /\ \E n \in DOMAIN g : cluster = NetworkShare(g[n], d, more)
                   /\ \A n \in DOMAIN g : /\ NetworkShare(g[n], d, more) \in Int
                                          /\ NetworkShare(g[n], d, more) <= cluster
        BY <1>7, <2>1, ClusterCases
    <2>. QED  BY <1>3, <2>2
<1> HIDE DEF hs, supply, h, K, M, c, d, graph, before, after
<1>10. /\ ~ (before < 0) /\ ~ (before > 100 * supply) /\ ~ (before > 15 * supply)
       /\ ~ (c.largest * 100 > 8 * supply) /\ ~ (c.topSum * 100 > 25 * supply)
    BY <1>2, <1>4 DEF Spread, Above, PctMax, MaxSingleHolderPct, MaxTop10HolderPct,
                      MaxInsiderClusterPct, before
<1>11. d.consideredCount # 0
    <2>1. IsFiniteSet(M)
        BY <1>6 DEF AmountsOK
    <2>. QED  BY <1>3, <1>5, <2>1, FS_EmptySet
<1>12. ~ (d.largest * 100 > 8 * supply)
    <2>1. K # {}
        BY <1>5
    <2>2. /\ c.largest \in Nat /\ \A i \in K : hs[i].amount <= c.largest
        BY <1>2, <1>6, <2>1, LargestIsMost
    <2>3. PICK i \in M : d.largest = hs[i].amount /\ d.largest \in Nat
        BY <1>3, <1>5, <1>6, LargestIsMost
    <2>4. d.largest <= c.largest
        BY <1>5, <2>2, <2>3
    <2>. QED  BY <1>1, <1>10, <2>2, <2>3, <2>4
<1>13. ~ (d.topSum * 100 > 25 * supply)
    <2> DEFINE T == Leading(hs, M, TopN)
    <2>1. T \in SUBSET M /\ Cardinality(T) <= TopN
        BY <1>6, LeadingIsFew
    <2>2. T \in SUBSET K
        BY <1>5, <2>1
    <2> HIDE DEF T
    <2>3. /\ c.topSum \in Nat /\ SumOf(Amounts(hs, T)) \in Nat
          /\ SumOf(Amounts(hs, T)) <= c.topSum
        BY <1>2, <1>6, <2>1, <2>2, TopIsMost
    <2>4. d.topSum = SumOf(Amounts(hs, T))
        BY <1>3 DEF T
    <2>. QED  BY <1>1, <1>10, <2>3, <2>4
<1>14. after \in Int /\ after >= 0 /\ after <= before /\ before \in Int
    <2>1. CASE graph.largestClusterPct \in Int
        <3>1. before = graph.largestClusterPct * supply /\ after = graph.largestClusterPct * supply
            BY <1>8, <1>9, <2>1
        <3>2. graph.largestClusterPct * supply \in Int
            BY <1>1, <2>1
        <3>. QED  BY <1>10, <3>1, <3>2
    <2>2. CASE graph.largestClusterPct = None
        <3>1. before \in Int /\ after \in Int
            BY <1>8, <1>9, <2>2
        <3>2. after >= 0
            <4>1. PICK n \in DOMAIN g : NetworkPct(g[n]) = None
                BY <1>9, <2>2
            <4>2. IsFiniteSet(g[n].members)
                BY DEF GraphShape, NetworkShape
            <4>3. MemberAmount(g[n], d, more) \in Nat
                BY <1>7, <4>2, MemberAmountsFacts
            <4>4. NetworkShare(g[n], d, more) >= 0 /\ NetworkShare(g[n], d, more) \in Int
                BY <4>1, <4>3 DEF NetworkShare, PctMax
            <4>5. NetworkShare(g[n], d, more) <= after
                BY <1>9, <2>2
            <4>. QED  BY <3>1, <4>4, <4>5
        <3>3. PICK n \in DOMAIN g : after = NetworkShare(g[n], d, more)
            BY <1>9, <2>2
        <3>4. NetworkShare(g[n], c, less) <= before /\ NetworkShare(g[n], c, less) \in Int
            BY <1>8, <2>2
        <3>5. NetworkShare(g[n], d, more) <= NetworkShare(g[n], c, less)
            <4>1. CASE NetworkPct(g[n]) # None
                <5>1. NetworkShare(g[n], d, more) = NetworkShare(g[n], c, less)
                    BY <1>2, <1>3, <4>1 DEF NetworkShare
                <5>. QED  BY <3>4, <5>1
            <4>2. CASE NetworkPct(g[n]) = None
                <5>1. IsFiniteSet(g[n].members)
                    BY DEF GraphShape, NetworkShape
                <5>2. /\ MemberAmount(g[n], d, more) <= MemberAmount(g[n], c, less)
                    BY <1>7, <5>1, MemberAmountShrinks
                <5>3. MemberAmount(g[n], d, more) \in Nat /\ MemberAmount(g[n], c, less) \in Nat
                    BY <1>7, <5>1, MemberAmountsFacts
                <5>. QED  BY <4>2, <5>2, <5>3 DEF NetworkShare, PctMax
            <4>. QED  BY <4>1, <4>2
        <3>. QED  BY <3>1, <3>2, <3>3, <3>4, <3>5
    <2>. QED  BY <1>8, <2>1, <2>2
<1>15. ~ (after < 0) /\ ~ (after > 100 * supply) /\ ~ (after > 15 * supply)
    BY <1>1, <1>10, <1>14
<1>16. Spread(d, graph, more)
    BY <1>3, <1>11, <1>12, <1>13, <1>15
       DEF Spread, Above, PctMax, MaxSingleHolderPct, MaxTop10HolderPct,
           MaxInsiderClusterPct, after, graph
<1>. QED  BY <1>1, <1>16 DEF d, graph, h

\* Both halves, from LayersInv.
LEMMA LostIsStricter == LayersInv => LostEvidenceNeverHelps
<1> DEFINE pair == getBestPair(raw("pair"))
           report == getTokenReport(raw("report"))
           exclusion == buildExclusionSet(KnownPool)
           graph == normaliseInsiderGraph(raw("insiders"))
<1> SUFFICES ASSUME LayersInv, "insiders" \in heardBy["holders"], CellOf("insiders") = "ok"
             PROVE  /\ \A p \in {pair, Failed}, r \in {report, Failed} :
                         HoldersWith(p, r) = "PASS" =>
                             \/ HoldersWith(pair, report) = "PASS"
                             \/ Considered(raw("holders").list, exclusion) = {}
                             \/ ~ ClusterResolvable(graph, exclusion)
                    /\ /\ runLayer2(raw("pair"), Failed) = "PASS"
                       /\ runLayer2(raw("pair"), raw("report")) # "PASS"
                       => unverifiedLiquidity(raw("pair"), Failed) # {}
    BY DEF LostEvidenceNeverHelps
<1>1. None \notin Int /\ TopN \in Nat
    BY LayersAssumption
<1>2. /\ raw("holders") # Failed => HoldersShape(raw("holders"))
      /\ raw("insiders") # Failed => GraphShape(raw("insiders"))
    <2>1. "holders" \in Names /\ "holders" \in heardBy["holders"]
        BY DEF Names, LayersInv, HeardOK
    <2>. QED  BY <2>1, HeardShapes
<1>3. exclusion = buildExclusionSet(collectPoolAddresses(
                     optionalEvidence(pair), optionalEvidence(report)))
    BY DEF KnownPool
<1> HIDE DEF pair, report, exclusion, graph
<1>4. ASSUME NEW p \in {pair, Failed}, NEW r \in {report, Failed}, HoldersWith(p, r) = "PASS",
             Considered(raw("holders").list, exclusion) # {}, ClusterResolvable(graph, exclusion)
      PROVE  HoldersWith(pair, report) = "PASS"
    <2> DEFINE less == buildExclusionSet(collectPoolAddresses(
                          optionalEvidence(p), optionalEvidence(r)))
               h == fetchHolders(raw("holders"))
    <2>1. less \subseteq exclusion
        BY <1>3, MorePools
    <2>2. /\ h # Failed /\ raw("insiders") # Failed
          /\ Spread(computeConcentration(h, less), graph, less)
        BY <1>4, HoldersPass DEF HoldersWith, graph
    <2>3. Spread(computeConcentration(h, exclusion), graph, exclusion)
        <3> HIDE DEF less
        <3>. QED  BY <1>1, <1>2, <1>4, <2>1, <2>2, SpreadGrows DEF graph
    <2>. QED  BY <1>3, <2>2, <2>3, HoldersPass DEF HoldersWith, graph
<1>5. unverifiedLiquidity(raw("pair"), Failed) # {}
    <2>1. readReportLpEvidence(getTokenReport(Failed)) = None
        BY DEF readReportLpEvidence, getTokenReport
    <2>2. "rugcheckLpEvidence" \in unverifiedLiquidity(raw("pair"), Failed)
        BY <2>1 DEF unverifiedLiquidity
    <2>. QED  BY <2>2
<1>. QED  BY <1>4, <1>5

\* "A missing pair or report can only make layer 3 STRICTER" (holderInputs.js:22),
\* with the two exceptions the property names.
THEOREM LostIsStricterAlways == Spec => []LostEvidenceNeverHelps
BY LayersHold, LostIsStricter, PTL
=============================================================================
