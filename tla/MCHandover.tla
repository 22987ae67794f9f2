----------------------------- MODULE MCHandover ------------------------------
(***************************************************************************)
(* One token and the SOL mint itself, which the feed delivers as well.     *)
(* The market answers with a pair that qualifies, or with one that fails   *)
(* one of the rules or misses one of the numbers.                          *)
(***************************************************************************)
EXTENDS Handover

MCUniverse == [minAge |-> 1, maxAge |-> 2, minCap |-> 1, maxCap |-> 2,
               minVolH1 |-> 2, minTxnsH1 |-> 3]
MCMomentum == [minM5 |-> 2, maxM5 |-> 5, minH1 |-> 2, minRatio |-> 110, minAccel |-> 150]

Good == [created |-> -1, cap |-> 1, volM5 |-> 1, volH1 |-> 4, buys |-> 2, sells |-> 1,
         txnsH1 |-> 3, m5 |-> 3, h1 |-> 2, quote |-> "sol", price |-> 6, native |-> 2]

\* Of full age at once or not yet or who knows; nobody sells; no quote, or dollars.
MCPairs ==
    {Good,
     [Good EXCEPT !.created = 0], [Good EXCEPT !.created = Unknown],
     [Good EXCEPT !.sells = 0], [Good EXCEPT !.quote = Unknown],
     [Good EXCEPT !.quote = "usdc", !.price = 8]}

\* Passed, or refused after the round trip was measured; old snapshots miss that.
MCGates ==
    {[buyable |-> TRUE, buy |-> 0, sell |-> 0], [buyable |-> FALSE, buy |-> 0, sell |-> 0]}

\* Impacts at which the price of SOL decides.
MCThinGates == {[buyable |-> TRUE, buy |-> 8, sell |-> 9]}
=============================================================================
