----------------------------- MODULE MCRpcClient -----------------------------
(***************************************************************************)
(* Two calls, two attempts each and a fallback, and a window of two slots: *)
(* the third start must wait, whoever makes it.                            *)
(***************************************************************************)
EXTENDS RpcClient, TLC

MCTasks == Calls \X (0..MaxAttempts)
=============================================================================
