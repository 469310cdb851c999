------------------------------ MODULE MCPayments ------------------------------
(***************************************************************************)
(* Small instances of Payments.                                            *)
(***************************************************************************)
EXTENDS Payments, TLC

\* A handler and the row it touches have no identity of their own.
RequestSymmetry == Permutations(Requests)
Symmetry == Permutations(Requests) \cup Permutations(Payments)
================================================================================
