---------------------------- MODULE MCStreamLoad ----------------------------
(***************************************************************************)
(* Small instances of StreamLoadManager for TLC.  MaxInvocations bounds    *)
(* how often each request is made; everything else is finite by itself.    *)
(***************************************************************************)
EXTENDS StreamLoadManager, TLC
=============================================================================
