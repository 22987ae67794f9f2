------------------------------- MODULE MCEngine -------------------------------
(***************************************************************************)
(* The engine for TLC, at the production percentages.  The prices let the  *)
(* stop, both rungs of the ladder, the breakeven floor on its own (20, 23, *)
(* 21), the trail and the time stop all fire; sizes and costs are          *)
(* multiples of every price and of six, so that no sale rounds.  Both      *)
(* slots together leave 120 of cash, and one price is a crash: a position  *)
(* bought at 30 then sells for less than the rest of its exit leg, and the *)
(* tick throws.                                                            *)
(***************************************************************************)
EXTENDS Engine

MCLegCosts == {<<2400, 2400>>}
\* The bound on crashes: quoted only at the last tick but one, so that there
\* are ticks enough before it and one after.
CrashesOnce == (\E m \in DOMAIN price : price[m] = 1) => now = MaxTime - 1
MCSymmetry == Permutations(Mints)
=============================================================================
