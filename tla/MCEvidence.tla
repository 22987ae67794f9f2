----------------------------- MODULE MCEvidence ------------------------------
(***************************************************************************)
(* Two mints over two days of two hours, a recorder that labels on every   *)
(* tick, one run of the command line's pass and one crash.                 *)
(***************************************************************************)
EXTENDS Evidence, TLC

MintSymmetry == Permutations(Mints)
=============================================================================
