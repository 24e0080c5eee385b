--------------------------- MODULE MCHttpFailover ---------------------------
(***************************************************************************)
(* Small instances of HttpFailover for TLC; finite as they stand.          *)
(***************************************************************************)
EXTENDS HttpFailover, TLC

\* The safety properties do not tell one caller from another.
CallerSymmetry == Permutations(Callers)
=============================================================================
