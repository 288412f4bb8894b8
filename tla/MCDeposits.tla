------------------------------ MODULE MCDeposits ------------------------------
(* Small instances of Deposits for TLC. *)
EXTENDS Deposits, TLC

\* Requests are interchangeable: used by the safety runs only.
RequestSymmetry == Permutations(Requests)
===============================================================================
