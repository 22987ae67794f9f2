----------------------------- MODULE MCPortfolio -----------------------------
(***************************************************************************)
(* A small book for TLC: spend for two positions, prices that make a loss, *)
(* a break-even and a gain, and two UTC days.                              *)
(***************************************************************************)
EXTENDS Portfolio

MCFractions == {<<1, 3>>, <<1, 2>>}
MCSymmetry == Permutations(Mints)
=============================================================================
