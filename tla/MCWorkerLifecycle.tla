-------------------------- MODULE MCWorkerLifecycle --------------------------
(* Small instances of WorkerLifecycle for TLC. *)
EXTENDS WorkerLifecycle, TLC

\* Calls are interchangeable, and so are wallets: used by the run without liveness.
Symmetry == Permutations(Calls) \cup Permutations(Wallets)
===============================================================================
