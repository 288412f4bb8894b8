----------------------------- MODULE AtLeastOnce -----------------------------
(***************************************************************************)
(* What a resumable multi-step transaction promises its callers, without   *)
(* saying how progress is recorded.  A job is a sequence of steps, each    *)
(* with an external effect (an on-chain deposit, a payment to the hub, a   *)
(* disbursement request).  The promise is:                                 *)
(*   - the steps of a job take effect in order;                            *)
(*   - a step may take effect again, but only in a later session of the    *)
(*     worker: between two crashes it takes effect at most once.           *)
(* The module AtomicTransaction is shown to implement this one.            *)
(***************************************************************************)
EXTENDS Integers

CONSTANTS Jobs,         \* the jobs that may be started
          NumMethods    \* the number of steps of a job

VARIABLES effects,      \* effects[j][s]: how often step s of job j took effect
          crashes       \* how often the worker was killed

contractVars == <<effects, crashes>>

Steps == 0 .. NumMethods - 1

Init == /\ effects = [j \in Jobs |-> [s \in Steps |-> 0]]
        /\ crashes = 0

\* Step s of job j takes effect: its predecessor already did, and the step has
\* not yet taken effect in this session.
Perform(j, s) == /\ s > 0 => effects[j][s - 1] > 0
                 /\ effects[j][s] <= crashes
                 /\ effects' = [effects EXCEPT ![j][s] = @ + 1]
                 /\ UNCHANGED crashes

Crash == /\ crashes' = crashes + 1
         /\ UNCHANGED effects

Next == Crash \/ \E j \in Jobs, s \in Steps : Perform(j, s)

Spec == Init /\ [][Next]_contractVars
==============================================================================
