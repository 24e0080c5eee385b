------------------------------ MODULE MCTracker ------------------------------
(* Small instances of TransactionTracker for TLC. *)
EXTENDS TransactionTracker, TLC

UserSymmetry == Permutations(Users)
=============================================================================
