-------------------------------- MODULE MCBot --------------------------------
(***************************************************************************)
(* The loop for TLC: two mints, one crash, prices far enough apart for the *)
(* stop and the ladder, and a book on which a closed loss trips the daily  *)
(* limit.                                                                  *)
(***************************************************************************)
EXTENDS Bot

MCLegCosts == {<<6, 6>>}
\* An exit leg that overdraws the cash left once two positions are bought.
DearExit == {<<6, 12>>}
MCSymmetry == Permutations(Mints)
=============================================================================
