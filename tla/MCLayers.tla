------------------------------- MODULE MCLayers -------------------------------
(* For each question a few raw answers: ones that just pass and ones that just *)
(* fail at each limit, unknowns, unreadable ones, and the exception.           *)
EXTENDS Layers

CONSTANTS whale, vault, pool, fish, key

Entry(code) == [code |-> code, whole |-> TRUE, older |-> 0, newer |-> 0, state |-> "initialized"]
Account(mintKey, tlv) ==
    [exists |-> TRUE, owner |-> "token-2022", unpacks |-> TRUE, torn |-> FALSE,
     initialized |-> TRUE, mintAuthority |-> mintKey, freezeAuthority |-> None, tlv |-> tlv]
Plain == Account(None, << >>)

Accounts ==
    {Plain,
     Account(ZeroKey, <<Entry("uninitialized"), Entry("tokenMetadata")>>),
     Account(key, << >>),
     [Plain EXCEPT !.freezeAuthority = key],
     [Plain EXCEPT !.exists = FALSE],
     [Plain EXCEPT !.owner = "system"],
     [Plain EXCEPT !.initialized = FALSE],
     [Plain EXCEPT !.torn = TRUE],
     Account(None, <<Entry("tokenMetadata"), Entry("nonTransferable")>>),
     Account(None, <<[Entry("transferHook") EXCEPT !.whole = FALSE]>>),
     Account(None, <<[Entry("transferFeeConfig") EXCEPT !.newer = 10000]>>),
     Account(None, <<[Entry("defaultAccountState") EXCEPT !.state = "frozen"]>>),
     Failed}

Response(status, body, out) == [status |-> status, body |-> body, out |-> out]
Ok(out) == Response(200, "quote", out)
Busy == Response(429, "error", 0)
Bought == <<Ok(5), Failed>>
RoundTrips ==
    {[buy |-> Bought, sell |-> s] :
        s \in {<<Ok(92), Failed>>, <<Ok(91), Ok(92)>>, <<Busy, Ok(92)>>, <<Failed, Ok(91)>>,
               <<Busy, Busy>>, <<Response(500, "quote", 92), Ok(92)>>,
               <<Response(400, "noRoute", 0), Ok(92)>>,
               <<Response(200, "emptyRoute", 0), Ok(92)>>}}
      \cup {[buy |-> <<Response(200, "noRoute", 0), Ok(5)>>, sell |-> <<Ok(99), Failed>>],
            [buy |-> <<Failed, Failed>>, sell |-> <<Ok(99), Failed>>], Failed}

Pair(quote, liquidity, cap, fdv) ==
    [ours |-> TRUE, readable |-> TRUE, pairAddress |-> pool, quoteToken |-> quote,
     liquidityUsd |-> liquidity, marketCap |-> cap, fdv |-> fdv, pump |-> FALSE]
Good == Pair("sol", 30000, None, 1000000)
Pairs ==
    {<<Good>>,
     <<Pair("exotic", 90000, 1000000, None), Good>>,
     <<[Good EXCEPT !.pump = TRUE]>>,
     <<Pair("sol", 29999, 500000, None)>>,
     <<Pair("sol", None, 1000000, None), Pair("usdc", 30000, 1000001, None)>>,
     <<Pair("sol", None, 1000000, None)>>,
     <<Pair("exotic", 90000, 1000000, None)>>,
     <<Good, [Good EXCEPT !.readable = FALSE]>>,
     Failed}

Report(score, rugged, pcts, vaults) ==
    [score |-> score, rugged |-> rugged, lpPcts |-> pcts, vaults |-> vaults]
Reports ==
    {Report(v[1], v[2], pcts, vaults) :
        v \in {<<20, FALSE>>, <<0, None>>, <<21, FALSE>>, <<5, TRUE>>},
        pcts \in {{}, {90}}, vaults \in {{}, {vault}, {vault, whale}}}
      \cup {Report(20, FALSE, {89, 150}, {}), Report(101, FALSE, {100}, {vault}),
            Report(None, FALSE, {100}, {vault}), Failed}

Holder(a, amount) == [address |-> a, amount |-> amount, decimals |-> 6]
Holders(list) == [list |-> list, supply |-> 200, decimals |-> 6]
HolderLists ==
    {Holders(<<Holder(vault, 60), Holder(whale, 16), Holder(fish, 9)>>),
     Holders(<<Holder(pool, 90), Holder(whale, 17), Holder(fish, 2)>>),
     Holders(<<Holder(whale, 16), Holder(fish, 15), Holder(vault, 9)>>),
     Holders(<<Holder(vault, 16), Holder(whale, 16)>>),
     Holders(<<Holder(whale, 201)>>),
     Holders(<< >>), Failed}

Network(pct, nodes, members) == [pct |-> pct, nodePcts |-> nodes, members |-> members]
Graphs ==
    {<< >>, <<Network(15, << >>, {whale})>>, <<Network(None, <<8, 8>>, {whale, fish})>>,
     <<Network(None, << >>, {vault, whale}), Network(1, << >>, {fish})>>,
     <<Network(None, << >>, {vault})>>, Failed}

Rugs(rugs, mints) == [rugs |-> rugs, mints |-> mints]
MCRaw == [facts |-> Accounts, roundTrip |-> RoundTrips, pair |-> Pairs, report |-> Reports,
          holders |-> HolderLists, insiders |-> Graphs,
          creator |-> {None, key},
          history |-> {Rugs(1, 4), Rugs(2, 7), Rugs(3, 2), Rugs(1, None)}]
=============================================================================
