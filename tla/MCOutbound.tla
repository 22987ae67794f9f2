------------------------------- MODULE MCOutbound -------------------------------
(* One mint with two keys of its own beside the shared one, and one position  *)
(* of it: its live buy, with two attempts, is in flight while the cycle goes   *)
(* on and commands arrive.                                                     *)
EXTENDS Outbound
=============================================================================
