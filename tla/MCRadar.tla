-------------------------------- MODULE MCRadar --------------------------------
(***************************************************************************)
(* Three mints that launch at any moment, two of them in a batch.          *)
(***************************************************************************)
EXTENDS Radar

MCMints == {"a", "b", "c"}
=============================================================================
