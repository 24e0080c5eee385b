------------------------------ MODULE MCBackoff ------------------------------
(* The backoff with the jitter of ten percent that the example configures, in *)
(* a build without overflow checks.                                           *)
EXTENDS ExponentialBackoff, TLC
==============================================================================
