---------------------------- MODULE MCHttpClient ----------------------------
(***************************************************************************)
(* Small instances of StarRocksHttpClient for TLC.  The state space is     *)
(* finite as it stands: the cursor is a usize of a few values, and a call  *)
(* makes at most MaxAttempts attempts.                                     *)
(***************************************************************************)
EXTENDS StarRocksHttpClient, TLC
=============================================================================
