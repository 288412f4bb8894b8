-------------------------- MODULE AtomicTransaction --------------------------
(***************************************************************************)
(* lib/transactions/AtomicTransaction.ts: a multi-step transaction whose   *)
(* progress is kept in the redux store under one name, so that it can be   *)
(* picked up again after the browser was closed.                           *)
(*                                                                         *)
(* Every start() and every restart() is an asynchronous call that runs     *)
(* until its next await, then yields to the others; one action models the  *)
(* code between two awaits.  The redux store lives in memory; redux-persist *)
(* copies it to IndexedDB some time later, and a crash (the browser stops  *)
(* the service worker) falls back to that copy.                            *)
(*                                                                         *)
(* The arguments handed from one step to the next are abstracted to the    *)
(* start() call they derive from: that is what tells the runs apart.       *)
(***************************************************************************)
EXTENDS Integers

CONSTANTS Jobs,         \* start() calls: each has arguments of its own
          Restarts,     \* restart() calls that may be open at a time
          NumMethods,   \* methodOrder.length
          NoState,      \* persistent.transactions[name] is undefined
          MaxCrashes    \* bound on the number of crashes

ASSUME MethodsAssumption == NumMethods \in Nat \ {0}
ASSUME CrashesAssumption == MaxCrashes \in Nat
ASSUME CallsAssumption   == Jobs \cap Restarts = {}
ASSUME NoStateAssumption == NoState \notin [job : Jobs, index : 0 .. NumMethods - 1]

VARIABLES store,        \* {nextMethodArgs, nextMethodIndex} in the redux store
          disk,         \* the same, as redux-persist last wrote it
          pc,           \* where each call is
          at,           \* the local nextMethodArgs, nextMethodIndex of a call
          effects,      \* effects[j][s]: times step s of job j took effect
          crashes       \* crashes so far

vars == <<store, disk, pc, at, effects, crashes>>

Calls == Jobs \cup Restarts
Steps == 0 .. NumMethods - 1
States == [job : Jobs, index : Steps]

\* A call awaits its hook ("hook"), awaits a method that has not taken effect
\* ("method") or that has ("effect"); it ends resolved, rejected or killed.
Live(c) == pc[c] \in {"hook", "method", "effect"}
Running(c) == pc[c] \in {"method", "effect"}

Init == /\ store = NoState
        /\ disk = NoState
        /\ pc = [c \in Calls |-> "idle"]
        /\ at = [c \in Calls |-> NoState]
        /\ effects = [j \in Jobs |-> [s \in Steps |-> 0]]
        /\ crashes = 0

------------------------------------------------------------------------------
(* The calls of the class *)

\* start(): the state is set before onStart is awaited.  Nothing checks whether
\* a transaction of this name is in progress.
Start(c) == /\ c \in Jobs
            /\ pc[c] = "idle"
            /\ store' = [job |-> c, index |-> 0]
            /\ pc' = [pc EXCEPT ![c] = "hook"]
            /\ UNCHANGED <<disk, at, effects, crashes>>

\* Seeded faults: a restart that begins again, one that takes the interrupted
\* step for done, one that is not tried again.
RestartFromScratch(c) == /\ c \in Restarts
                         /\ ~Live(c)
                         /\ store # NoState
                         /\ store' = [store EXCEPT !.index = 0]
                         /\ pc' = [pc EXCEPT ![c] = "hook"]
                         /\ UNCHANGED <<disk, at, effects, crashes>>
RestartSkipsStep(c) == /\ c \in Restarts
                       /\ ~Live(c)
                       /\ store # NoState
                       /\ store.index + 1 < NumMethods
                       /\ store' = [store EXCEPT !.index = @ + 1]
                       /\ pc' = [pc EXCEPT ![c] = "hook"]
                       /\ UNCHANGED <<disk, at, effects, crashes>>
RestartOnce(c) == /\ c \in Restarts
                  /\ pc[c] = "idle"
                  /\ pc' = [pc EXCEPT ![c] = IF store = NoState THEN "resolved" ELSE "hook"]
                  /\ at' = [at EXCEPT ![c] = NoState]
                  /\ UNCHANGED <<store, disk, effects, crashes>>

\* restart(): resolves to null when nothing is in progress, else awaits
\* onRestart.
Restart(c) == /\ c \in Restarts
              /\ ~Live(c)
              /\ pc' = [pc EXCEPT ![c] = IF store = NoState THEN "resolved" ELSE "hook"]
              /\ at' = [at EXCEPT ![c] = NoState]
              /\ UNCHANGED <<store, disk, effects, crashes>>

\* Seeded fault: the next index is recorded before the method has resolved.
RecordsAhead(c) == /\ pc[c] = "hook"
                   /\ store # NoState
                   /\ at' = [at EXCEPT ![c] = store]
                   /\ store' = IF store.index + 1 < NumMethods
                                 THEN [store EXCEPT !.index = @ + 1] ELSE store
                   /\ pc' = [pc EXCEPT ![c] = "method"]
                   /\ UNCHANGED <<disk, effects, crashes>>

\* The hook resolved: doTransaction() reads the state and calls the method it
\* names.  Reading an undefined state throws before the try block, so that
\* neither removeState nor afterAll runs.
DoTransaction(c) == /\ pc[c] = "hook"
                    /\ at' = [at EXCEPT ![c] = store]
                    /\ pc' = [pc EXCEPT ![c] = IF store = NoState THEN "rejected" ELSE "method"]
                    /\ UNCHANGED <<store, disk, effects, crashes>>

\* Seeded fault: a rejected hook drops the state.
HookDropsState(c) == /\ pc[c] = "hook"
                     /\ store' = NoState
                     /\ pc' = [pc EXCEPT ![c] = "rejected"]
                     /\ UNCHANGED <<disk, at, effects, crashes>>

\* The hook rejected: start() or restart() rethrows, and the state stays.
HookRejects(c) == /\ pc[c] = "hook"
                  /\ pc' = [pc EXCEPT ![c] = "rejected"]
                  /\ UNCHANGED <<store, disk, at, effects, crashes>>

\* The method under way takes effect outside the worker.
TakeEffect(c) == /\ pc[c] = "method"
                 /\ effects' = [effects EXCEPT ![at[c].job][at[c].index] = @ + 1]
                 /\ pc' = [pc EXCEPT ![c] = "effect"]
                 /\ UNCHANGED <<store, disk, at, crashes>>

\* Seeded faults: an index past the last method; the next index not recorded.
NextMethodPastEnd(c) == /\ pc[c] = "effect"
                        /\ at[c].index + 1 <= NumMethods
                        /\ at' = [at EXCEPT ![c].index = @ + 1]
                        /\ store' = [at[c] EXCEPT !.index = @ + 1]
                        /\ pc' = [pc EXCEPT ![c] = "method"]
                        /\ UNCHANGED <<disk, effects, crashes>>
NextMethodUnrecorded(c) == /\ pc[c] = "effect"
                           /\ at[c].index + 1 < NumMethods
                           /\ at' = [at EXCEPT ![c].index = @ + 1]
                           /\ pc' = [pc EXCEPT ![c] = "method"]
                           /\ UNCHANGED <<store, disk, effects, crashes>>

\* The method resolved and is not the last: persistAndRun() records the next
\* index and calls the next method.
NextMethod(c) == /\ pc[c] = "effect"
                 /\ at[c].index + 1 < NumMethods
                 /\ at' = [at EXCEPT ![c].index = @ + 1]
                 /\ store' = [at[c] EXCEPT !.index = @ + 1]
                 /\ pc' = [pc EXCEPT ![c] = "method"]
                 /\ UNCHANGED <<disk, effects, crashes>>

\* Seeded fault: done one method early.
CompleteEarly(c) == /\ pc[c] = "effect"
                    /\ at[c].index + 1 >= NumMethods - 1
                    /\ store' = NoState
                    /\ pc' = [pc EXCEPT ![c] = "resolved"]
                    /\ UNCHANGED <<disk, at, effects, crashes>>

\* The last method resolved: the state is removed whoever wrote it.
Complete(c) == /\ pc[c] = "effect"
               /\ at[c].index + 1 = NumMethods
               /\ store' = NoState
               /\ pc' = [pc EXCEPT ![c] = "resolved"]
               /\ UNCHANGED <<disk, at, effects, crashes>>

\* Seeded fault: a failed transaction stays on record.
ThrowKeepsState(c) == /\ Running(c)
                      /\ pc' = [pc EXCEPT ![c] = "rejected"]
                      /\ UNCHANGED <<store, disk, at, effects, crashes>>

\* The method threw, before or after it took effect: the state is removed and
\* the error rethrown.
MethodThrows(c) == /\ Running(c)
                   /\ store' = NoState
                   /\ pc' = [pc EXCEPT ![c] = "rejected"]
                   /\ UNCHANGED <<disk, at, effects, crashes>>

------------------------------------------------------------------------------
(* The environment *)

\* redux-persist writes the current state to IndexedDB.
Flush == /\ disk # store
         /\ disk' = store
         /\ UNCHANGED <<store, pc, at, effects, crashes>>

\* The worker is killed with its calls, and boots from what was written.
Crash == /\ crashes < MaxCrashes
         /\ crashes' = crashes + 1
         /\ store' = disk
         /\ pc' = [c \in Calls |-> IF Live(c) THEN "killed" ELSE pc[c]]
         /\ UNCHANGED <<disk, at, effects>>

------------------------------------------------------------------------------
Invoke(c) == Start(c) \/ Restart(c)

Proceed(c) == \/ DoTransaction(c)
              \/ HookRejects(c)
              \/ TakeEffect(c)
              \/ NextMethod(c)
              \/ Complete(c)
              \/ MethodThrows(c)

Next == \/ \E c \in Calls : Invoke(c) \/ Proceed(c)
        \/ Flush
        \/ Crash

\* The class as it is: calls overlap as they please.
Spec == Init /\ [][Next]_vars

\* The class as its callers are meant to use it: one call at a time.
NoCallLive == \A c \in Calls : ~Live(c)

SerialNext == \/ \E c \in Calls : (NoCallLive /\ Invoke(c)) \/ Proceed(c)
              \/ Flush
              \/ Crash

SerialSpec == Init /\ [][SerialNext]_vars

\* The event loop resumes a call whose await is over, methods end, the owner of
\* an unfinished transaction restarts it (the controllers do at every unlock),
\* and a hook that is tried again and again resolves once.
Fairness == /\ \A c \in Calls : /\ WF_vars(TakeEffect(c))
                                /\ WF_vars(NextMethod(c) \/ Complete(c))
                                /\ WF_vars(DoTransaction(c) \/ HookRejects(c))
            /\ SF_vars(\E c \in Calls : DoTransaction(c))
            /\ WF_vars(NoCallLive /\ store # NoState /\ \E c \in Restarts : Restart(c))

FairSerialSpec == SerialSpec /\ Fairness

------------------------------------------------------------------------------
(* Properties *)

TypeOK == /\ store \in States \cup {NoState}
          /\ disk \in States \cup {NoState}
          /\ pc \in [Calls -> {"idle", "hook", "method", "effect",
                               "resolved", "rejected", "killed"}]
          /\ at \in [Calls -> States \cup {NoState}]
          /\ effects \in [Jobs -> [Steps -> Nat]]
          /\ crashes \in Nat

\* However calls overlap and wherever the worker is killed, a step of a job
\* takes effect only after the steps before it did: arguments and index are
\* recorded together, once the step that produced them is over.
StepsInOrder ==
  \A j \in Jobs, s \in Steps : s > 0 /\ effects[j][s] > 0 => effects[j][s - 1] > 0

\* A call that resolved with a result ran, or had run before it, every step of
\* the job it worked on, be that the caller's own job or another.
ResolvedMeansComplete ==
  \A c \in Calls : pc[c] = "resolved" /\ at[c] # NoState =>
    \A s \in Steps : effects[at[c].job][s] > 0

\* One call at a time: a step takes effect once per session at most, so a
\* deposit is repeated only if the worker was killed in between.
RepeatOnlyAfterCrash ==
  \A j \in Jobs, s \in Steps : effects[j][s] <= 1 + crashes

\* One call at a time: the call under way is the one whose progress is on
\* record, so that isInProgress() tells the truth about it.
RunningIsRecorded ==
  \A c \in Calls : Running(c) => store = at[c]

\* One call at a time: within a session the record of a job never moves back.
NeverRegress ==
  [][ /\ crashes' = crashes
      /\ store # NoState
      /\ store' # NoState
      /\ store'.job = store.job
      => store'.index >= store.index ]_vars

\* One call at a time: a record disappears only with the call that finished or
\* failed the job, or because it was never written before a crash.
ForgottenOnlyWhenOver ==
  [][ store # NoState /\ store' = NoState =>
        \/ crashes' # crashes /\ disk = NoState
        \/ \E c \in Calls : /\ Running(c)
                            /\ at[c].job = store.job
                            /\ pc'[c] \in {"resolved", "rejected"} ]_vars

\* One call at a time, fair: a transaction on record is eventually over.
EventuallyOver == store # NoState ~> store = NoState

\* One call at a time: the class keeps the promise of AtLeastOnce.
Contract == INSTANCE AtLeastOnce WITH effects <- effects, crashes <- crashes
KeepsContract == Contract!Spec

------------------------------------------------------------------------------
(* The inductive invariants behind the theorems of AtomicTransactionProofs *)

\* Every step before the one a checkpoint names has taken effect.
Reached(cp) ==
  cp # NoState => \A s \in Steps : s < cp.index => effects[cp.job][s] > 0

OrderInv == /\ StepsInOrder
            /\ ResolvedMeansComplete
            /\ Reached(store)
            /\ Reached(disk)
            /\ \A c \in Calls : Running(c) => at[c] # NoState /\ Reached(at[c])
            /\ \A c \in Calls : pc[c] = "effect" => effects[at[c].job][at[c].index] > 0

\* The steps still to come have not taken effect in this session.
AheadIsFresh ==
  store # NoState =>
    /\ \A s \in Steps : s > store.index => effects[store.job][s] <= crashes
    /\ (\A c \in Calls : pc[c] # "effect") => effects[store.job][store.index] <= crashes

UnstartedIsUntouched ==
  \A j \in Jobs : pc[j] = "idle" =>
    /\ \A s \in Steps : effects[j][s] = 0
    /\ store # NoState => store.job # j
    /\ disk # NoState => disk.job # j

SerialInv == /\ \A c, d \in Calls : Live(c) /\ Live(d) => c = d
             /\ \A c \in Calls : Live(c) => store # NoState
             /\ RunningIsRecorded
             /\ RepeatOnlyAfterCrash
             /\ AheadIsFresh
             /\ UnstartedIsUntouched
==============================================================================
