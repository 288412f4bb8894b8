------------------------- MODULE MCAtomicTransaction -------------------------
(* Small instances of AtomicTransaction for TLC. *)
EXTENDS AtomicTransaction, TLC

\* Jobs are interchangeable, and so are the restart() calls: sound for the
\* safety properties only, the run with liveness does not use it.
CallSymmetry == Permutations(Jobs) \cup Permutations(Restarts)
==============================================================================
