--------------------------- MODULE MCDeployerHistory ---------------------------
(* Three kinds of transaction: the wallet creates a mint, with and without a  *)
(* block time, and somebody else creates one.  The two nodes are alike.       *)
EXTENDS DeployerHistory, TLC

CONSTANTS other, m1, m2, m3, primary, fallback

MCNodes == {primary, fallback}
Tx(payer, created, dated) == [payer |-> payer, mints |-> created, dated |-> dated]
MCKinds == {Tx(Wallet, {m1}, TRUE), Tx(Wallet, {m2}, FALSE), Tx(other, {m3}, TRUE)}
MCRisks == {None, [mintCount |-> 7, rugCount |-> None, priorRugRate |-> None]}
MCSymmetry == Permutations(MCNodes)
=============================================================================
