----------------------- MODULE AtomicTransactionProofs -----------------------
(***************************************************************************)
(* Theorems about AtomicTransaction, for any number of jobs, restarts,     *)
(* methods and crashes.                                                    *)
(***************************************************************************)
EXTENDS AtomicTransaction, TLAPS

\* Serial behaviour is behaviour of the class: the callers only add a guard.
LEMMA SerialNextIsNext == SerialNext => Next
  BY DEF SerialNext, Next

\* What the steps of a run may touch, shared by the proofs below.
LEMMA RunningIsTyped ==
  ASSUME TypeOK, NEW c \in Calls, at[c] # NoState
  PROVE  at[c] \in States /\ at[c].job \in Jobs /\ at[c].index \in Steps
  BY DEF TypeOK, States

\* The variables keep their types under overlap, crashes and failures; it
\* needs to know that a running call holds a checkpoint.
TypeInv == /\ TypeOK
           /\ \A c \in Calls : Running(c) => at[c] # NoState

LEMMA TypeInvInductive == TypeInv /\ [Next]_vars => TypeInv'
<1> SUFFICES ASSUME TypeInv, [Next]_vars PROVE TypeInv'
  OBVIOUS
<1> USE MethodsAssumption, CallsAssumption, NoStateAssumption
    DEF TypeInv, TypeOK, Calls, Steps, States, Running, Live
<1>1. ASSUME NEW c \in Calls, Start(c) PROVE TypeInv'
  BY <1>1 DEF Start
<1>2. ASSUME NEW c \in Calls, Restart(c) PROVE TypeInv'
  BY <1>2 DEF Restart
<1>3. ASSUME NEW c \in Calls, DoTransaction(c) PROVE TypeInv'
  BY <1>3 DEF DoTransaction
<1>4. ASSUME NEW c \in Calls, HookRejects(c) PROVE TypeInv'
  BY <1>4 DEF HookRejects
<1>5. ASSUME NEW c \in Calls, TakeEffect(c) PROVE TypeInv'
  BY <1>5 DEF TakeEffect
<1>6. ASSUME NEW c \in Calls, NextMethod(c) PROVE TypeInv'
  BY <1>6 DEF NextMethod
<1>7. ASSUME NEW c \in Calls, Complete(c) PROVE TypeInv'
  BY <1>7 DEF Complete
<1>8. ASSUME NEW c \in Calls, MethodThrows(c) PROVE TypeInv'
  BY <1>8 DEF MethodThrows
<1>9. CASE Flush
  BY <1>9 DEF Flush
<1>10. CASE Crash
  BY <1>10 DEF Crash
<1>11. CASE UNCHANGED vars
  BY <1>11 DEF vars
<1>12. QED
  BY <1>1, <1>2, <1>3, <1>4, <1>5, <1>6, <1>7, <1>8, <1>9, <1>10, <1>11
  DEF Next, Invoke, Proceed

LEMMA TypeInvInit == Init => TypeInv
  BY MethodsAssumption, NoStateAssumption
  DEF Init, TypeInv, TypeOK, Calls, Steps, States, Running

\* The types of the class's state, whatever its callers do
\* (AtomicTransaction.ts:43-186).
THEOREM Typing == Spec => []TypeOK
<1>1. TypeInv => TypeOK
  BY DEF TypeInv
<1>2. QED
  BY <1>1, TypeInvInit, TypeInvInductive, PTL DEF Spec
------------------------------------------------------------------------------
(* Order and completeness, however the calls overlap *)

LEMMA OrderInvInit == Init => OrderInv
  BY MethodsAssumption, NoStateAssumption
  DEF Init, OrderInv, StepsInOrder, ResolvedMeansComplete, Reached, Running,
      Calls, Steps

\* One more effect of a step keeps every checkpoint reached.
LEMMA EffectsGrow ==
  ASSUME TypeOK, NEW j \in Jobs, NEW s \in Steps,
         effects' = [effects EXCEPT ![j][s] = @ + 1]
  PROVE  /\ \A k \in Jobs, t \in Steps : effects[k][t] > 0 => effects'[k][t] > 0
         /\ effects'[j][s] > 0
         /\ \A k \in Jobs, t \in Steps :
              k # j \/ t # s => effects'[k][t] = effects[k][t]
         /\ effects'[j][s] = effects[j][s] + 1
<1>1. effects \in [Jobs -> [Steps -> Nat]] /\ effects[j][s] \in Nat
  BY DEF TypeOK
<1>2. effects'[j] = [effects[j] EXCEPT ![s] = @ + 1]
  BY <1>1
<1>3. effects'[j][s] = effects[j][s] + 1
  BY <1>1, <1>2
<1>4. \A k \in Jobs, t \in Steps : k # j \/ t # s => effects'[k][t] = effects[k][t]
  BY <1>1, <1>2
<1>5. QED
  BY <1>1, <1>3, <1>4

LEMMA OrderInvInductive == TypeInv /\ OrderInv /\ [Next]_vars => OrderInv'
<1> SUFFICES ASSUME TypeInv, OrderInv, [Next]_vars PROVE OrderInv'
  OBVIOUS
<1> USE MethodsAssumption, CallsAssumption, NoStateAssumption
    DEF OrderInv, StepsInOrder, ResolvedMeansComplete, Reached, Running,
        TypeInv, TypeOK, Calls, Steps, States
<1>1. ASSUME NEW c \in Calls, Start(c) PROVE OrderInv'
  BY <1>1 DEF Start
<1>2. ASSUME NEW c \in Calls, Restart(c) PROVE OrderInv'
  BY <1>2 DEF Restart, Live
<1>3. ASSUME NEW c \in Calls, DoTransaction(c) PROVE OrderInv'
  BY <1>3 DEF DoTransaction
<1>4. ASSUME NEW c \in Calls, HookRejects(c) PROVE OrderInv'
  BY <1>4 DEF HookRejects
<1>5. ASSUME NEW c \in Calls, TakeEffect(c) PROVE OrderInv'
  <2> DEFINE j == at[c].job
             s == at[c].index
  <2>1. /\ pc[c] = "method" /\ at[c] # NoState /\ j \in Jobs /\ s \in Steps
        /\ effects' = [effects EXCEPT ![j][s] = @ + 1]
        /\ pc' = [pc EXCEPT ![c] = "effect"]
        /\ UNCHANGED <<store, disk, at, crashes>>
    BY <1>5 DEF TakeEffect
  <2> HIDE DEF j, s
  <2>2. /\ \A k \in Jobs, t \in Steps : effects[k][t] > 0 => effects'[k][t] > 0
        /\ effects'[j][s] > 0
        /\ \A k \in Jobs, t \in Steps :
             k # j \/ t # s => effects'[k][t] = effects[k][t]
    <3>1. TypeOK
      BY DEF TypeInv
    <3> HIDE DEF TypeOK, Steps, OrderInv, TypeInv
    <3>2. QED
      BY <2>1, <3>1, EffectsGrow, Zenon
  <2>3. s > 0 => effects[j][s - 1] > 0
    BY <2>1 DEF j, s
  <2>4. StepsInOrder'
    <3> SUFFICES ASSUME NEW k \in Jobs, NEW t \in Steps, t > 0, effects'[k][t] > 0
                 PROVE  effects'[k][t - 1] > 0
      OBVIOUS
    <3>1. t - 1 \in Steps
      OBVIOUS
    <3>2. CASE k = j /\ t = s
      BY <2>2, <2>3, <3>1, <3>2
    <3>3. CASE k # j \/ t # s
      BY <2>2, <3>1, <3>3
    <3>4. QED
      BY <3>2, <3>3
  <2>5. ResolvedMeansComplete'
    <3> SUFFICES ASSUME NEW d \in Calls, pc'[d] = "resolved", at[d] # NoState,
                        NEW t \in Steps
                 PROVE  effects'[at[d].job][t] > 0
      BY <2>1
    <3>1. pc[d] = "resolved"
      BY <2>1
    <3>2. at[d].job \in Jobs
      BY RunningIsTyped
    <3>3. QED
      BY <2>2, <3>1, <3>2
  <2>6. Reached(store)' /\ Reached(disk)'
    BY <2>1, <2>2
  <2>7. (\A d \in Calls : Running(d) => at[d] # NoState /\ Reached(at[d]))'
    BY <2>1, <2>2
  <2>8. (\A d \in Calls : pc[d] = "effect" => effects[at[d].job][at[d].index] > 0)'
    <3> SUFFICES ASSUME NEW d \in Calls, pc'[d] = "effect"
                 PROVE  effects'[at[d].job][at[d].index] > 0
      BY <2>1
    <3>1. CASE d = c
      BY <2>2, <3>1 DEF j, s
    <3>2. CASE d # c
      <4>1. pc[d] = "effect" /\ at[d] # NoState
        BY <2>1, <3>2
      <4>2. at[d].job \in Jobs /\ at[d].index \in Steps
        BY <4>1, RunningIsTyped
      <4>3. effects[at[d].job][at[d].index] > 0
        BY <4>1
      <4>4. QED
        BY <2>2, <4>2, <4>3
    <3>3. QED
      BY <3>1, <3>2
  <2>9. QED
    BY <2>4, <2>5, <2>6, <2>7, <2>8
<1>6. ASSUME NEW c \in Calls, NextMethod(c) PROVE OrderInv'
  <2> DEFINE next == [at[c] EXCEPT !.index = @ + 1]
  <2>1. /\ at[c] # NoState /\ Reached(at[c])
        /\ effects[at[c].job][at[c].index] > 0
        /\ at[c].index + 1 \in Steps
        /\ at' = [at EXCEPT ![c] = next]
        /\ store' = next
        /\ pc' = [pc EXCEPT ![c] = "method"]
        /\ UNCHANGED <<disk, effects, crashes>>
    BY <1>6 DEF NextMethod
  <2>2. next \in States /\ next.job = at[c].job /\ next.index = at[c].index + 1
    BY <2>1
  <2>3. \A s \in Steps : s < next.index => effects[next.job][s] > 0
    BY <2>1, <2>2
  <2> HIDE DEF next
  <2>4. QED
    BY <2>1, <2>2, <2>3
<1>7. ASSUME NEW c \in Calls, Complete(c) PROVE OrderInv'
  <2>1. \A s \in Steps : effects[at[c].job][s] > 0
    BY <1>7 DEF Complete
  <2>2. QED
    BY <1>7, <2>1 DEF Complete
<1>8. ASSUME NEW c \in Calls, MethodThrows(c) PROVE OrderInv'
  BY <1>8 DEF MethodThrows
<1>9. CASE Flush
  BY <1>9 DEF Flush
<1>10. CASE Crash
  BY <1>10 DEF Crash, Live
<1>11. CASE UNCHANGED vars
  BY <1>11 DEF vars
<1>12. QED
  BY <1>1, <1>2, <1>3, <1>4, <1>5, <1>6, <1>7, <1>8, <1>9, <1>10, <1>11
  DEF Next, Invoke, Proceed

LEMMA OrderInvariant == Spec => [](TypeInv /\ OrderInv)
  BY TypeInvInit, TypeInvInductive, OrderInvInit, OrderInvInductive, PTL DEF Spec

\* The steps of a job take effect in order, however calls overlap and wherever
\* the worker is killed (AtomicTransaction.ts:124-160).
THEOREM StepOrder == Spec => []StepsInOrder
<1>1. OrderInv => StepsInOrder
  BY DEF OrderInv
<1>2. QED
  BY <1>1, OrderInvariant, PTL

\* A call resolves with a result only when every step of the job it worked on
\* took effect (AtomicTransaction.ts:95-122).
THEOREM ResolvedJobsAreComplete == Spec => []ResolvedMeansComplete
<1>1. OrderInv => ResolvedMeansComplete
  BY DEF OrderInv
<1>2. QED
  BY <1>1, OrderInvariant, PTL
------------------------------------------------------------------------------
(* One call at a time *)

LEMMA SerialInvInit == Init => SerialInv
  BY CrashesAssumption
  DEF Init, SerialInv, RunningIsRecorded, RepeatOnlyAfterCrash, AheadIsFresh,
      UnstartedIsUntouched, Live, Running, Calls

LEMMA SerialInvInductive == TypeInv /\ SerialInv /\ [SerialNext]_vars => SerialInv'
<1> SUFFICES ASSUME TypeInv, SerialInv, [SerialNext]_vars PROVE SerialInv'
  OBVIOUS
<1> USE MethodsAssumption, CallsAssumption, NoStateAssumption
    DEF SerialInv, RunningIsRecorded, RepeatOnlyAfterCrash, AheadIsFresh,
        UnstartedIsUntouched, Live, Running, TypeInv, TypeOK, Calls, Steps, States
<1>1. ASSUME NEW c \in Calls, NoCallLive, Start(c) PROVE SerialInv'
  BY <1>1 DEF Start, NoCallLive
<1>2. ASSUME NEW c \in Calls, NoCallLive, Restart(c) PROVE SerialInv'
  BY <1>2 DEF Restart, NoCallLive
<1>3. ASSUME NEW c \in Calls, DoTransaction(c) PROVE SerialInv'
  BY <1>3 DEF DoTransaction
<1>4. ASSUME NEW c \in Calls, HookRejects(c) PROVE SerialInv'
  BY <1>4 DEF HookRejects
<1>5. ASSUME NEW c \in Calls, TakeEffect(c) PROVE SerialInv'
  <2> DEFINE j == at[c].job
             s == at[c].index
  <2>1. /\ pc[c] = "method" /\ at[c] # NoState /\ j \in Jobs /\ s \in Steps
        /\ store = at[c]
        /\ effects' = [effects EXCEPT ![j][s] = @ + 1]
        /\ pc' = [pc EXCEPT ![c] = "effect"]
        /\ UNCHANGED <<store, disk, at, crashes>>
    BY <1>5 DEF TakeEffect
  <2> HIDE DEF j, s
  <2>2. /\ effects'[j][s] = effects[j][s] + 1
        /\ \A k \in Jobs, t \in Steps :
             k # j \/ t # s => effects'[k][t] = effects[k][t]
    <3>1. TypeOK
      BY DEF TypeInv
    <3> HIDE DEF TypeOK, Steps, SerialInv, TypeInv
    <3>2. QED
      BY <2>1, <3>1, EffectsGrow, Zenon
  <2>3. effects[j][s] <= crashes
    <3>1. \A d \in Calls : pc[d] # "effect"
      BY <2>1
    <3>2. QED
      BY <2>1, <3>1 DEF j, s
  <2>4. \A c1, d \in Calls : Live(c1)' /\ Live(d)' => c1 = d
    BY <2>1
  <2>5. (\A d \in Calls : Live(d) => store # NoState)' /\ RunningIsRecorded'
    BY <2>1
  <2>6. RepeatOnlyAfterCrash'
    <3> SUFFICES ASSUME NEW k \in Jobs, NEW t \in Steps
                 PROVE  effects'[k][t] <= 1 + crashes
      BY <2>1
    <3>1. /\ effects[k][t] <= 1 + crashes
          /\ effects[k][t] \in Nat /\ effects[j][s] \in Nat /\ crashes \in Nat
      BY <2>1
    <3> HIDE DEF TypeOK, TypeInv, SerialInv, RepeatOnlyAfterCrash
    <3>2. CASE k = j /\ t = s
      BY <2>2, <2>3, <3>1, <3>2
    <3>3. CASE k # j \/ t # s
      <4>1. effects'[k][t] = effects[k][t]
        BY <2>2, <3>3
      <4>2. QED
        BY <3>1, <4>1
    <3>4. QED
      BY <3>2, <3>3
  <2>7. AheadIsFresh'
    <3>1. pc'[c] = "effect"
      BY <2>1
    <3>2. \A t \in Steps : t > s => effects'[j][t] <= crashes
      <4>1. \A t \in Steps : t > s => effects[j][t] <= crashes
        BY <2>1 DEF j, s
      <4>2. \A t \in Steps : t > s => t # s
        BY <2>1
      <4>3. QED
        BY <2>1, <2>2, <4>1, <4>2, Zenon
    <3>3. QED
      BY <2>1, <3>1, <3>2 DEF j, s
  <2>8. UnstartedIsUntouched'
    <3>1. pc[j] # "idle"
      BY <2>1 DEF j
    <3> SUFFICES ASSUME NEW k \in Jobs, pc'[k] = "idle"
                 PROVE  /\ \A t \in Steps : effects'[k][t] = 0
                        /\ store # NoState => store.job # k
                        /\ disk # NoState => disk.job # k
      BY <2>1
    <3>2. pc[k] = "idle"
      BY <2>1
    <3>3. k # j
      BY <3>1, <3>2
    <3>4. \A t \in Steps : effects'[k][t] = effects[k][t]
      BY <2>1, <2>2, <3>3, Zenon
    <3>5. QED
      BY <3>2, <3>4
  <2>9. QED
    BY <2>4, <2>5, <2>6, <2>7, <2>8
<1>6. ASSUME NEW c \in Calls, NextMethod(c) PROVE SerialInv'
  <2> DEFINE next == [at[c] EXCEPT !.index = @ + 1]
  <2>1. /\ pc[c] = "effect"
        /\ at[c] # NoState /\ store = at[c]
        /\ at[c].index + 1 \in Steps
        /\ at' = [at EXCEPT ![c] = next]
        /\ store' = next
        /\ pc' = [pc EXCEPT ![c] = "method"]
        /\ UNCHANGED <<disk, effects, crashes>>
    BY <1>6 DEF NextMethod
  <2>2. next \in States /\ next.job = store.job /\ next.index = store.index + 1
    BY <2>1
  <2>3. next # NoState
    BY <2>2
  <2> HIDE DEF next
  <2>4. \A d \in Calls : Live(d) => d = c
    BY <2>1
  <2>5. AheadIsFresh'
    <3>1. \A t \in Steps : t > store.index => effects[store.job][t] <= crashes
      BY <2>1
    <3>2. store.index \in Steps /\ store.index + 1 \in Steps
      BY <2>1
    <3>3. \A t \in Steps : t >= store.index + 1 => t > store.index
      BY <3>2
    <3>4. \A t \in Steps : t >= next.index => effects[next.job][t] <= crashes
      BY <2>2, <3>1, <3>2, <3>3
    <3>5. QED
      BY <2>1, <2>2, <3>2, <3>4
  <2>6. UnstartedIsUntouched'
    BY <2>1, <2>2
  <2>7. RunningIsRecorded'
    BY <2>1, <2>4
  <2>8. QED
    BY <2>1, <2>3, <2>4, <2>5, <2>6, <2>7
<1>7. ASSUME NEW c \in Calls, Complete(c) PROVE SerialInv'
  <2>1. /\ pc[c] = "effect" /\ store' = NoState
        /\ pc' = [pc EXCEPT ![c] = "resolved"]
        /\ UNCHANGED <<disk, at, effects, crashes>>
    BY <1>7 DEF Complete
  <2>2. \A d \in Calls : ~Live(d)'
    BY <2>1
  <2>3. QED
    BY <2>1, <2>2
<1>8. ASSUME NEW c \in Calls, MethodThrows(c) PROVE SerialInv'
  BY <1>8 DEF MethodThrows
<1>9. CASE Flush
  BY <1>9 DEF Flush
<1>10. CASE Crash
  <2>1. \A j \in Jobs, s \in Steps : effects[j][s] <= crashes'
    BY <1>10 DEF Crash
  <2>2. \A c \in Calls : ~Live(c)' /\ ~Running(c)'
    BY <1>10 DEF Crash
  <2>3. QED
    BY <1>10, <2>1, <2>2 DEF Crash
<1>11. CASE UNCHANGED vars
  BY <1>11 DEF vars
<1>12. QED
  BY <1>1, <1>2, <1>3, <1>4, <1>5, <1>6, <1>7, <1>8, <1>9, <1>10, <1>11
  DEF SerialNext, Invoke, Proceed

LEMMA SerialInvariant == SerialSpec => [](TypeInv /\ OrderInv /\ SerialInv)
<1>1. SerialSpec => Spec
  BY SerialNextIsNext, PTL DEF SerialSpec, Spec
<1>2. QED
  BY <1>1, OrderInvariant, SerialInvInit, SerialInvInductive, PTL DEF SerialSpec

\* With one call at a time, a step takes effect at most once per session
\* (AtomicTransaction.ts:75-160).
THEOREM NoRepeatWithoutCrash == SerialSpec => []RepeatOnlyAfterCrash
<1>1. SerialInv => RepeatOnlyAfterCrash
  BY DEF SerialInv
<1>2. QED
  BY <1>1, SerialInvariant, PTL

\* With one call at a time, the record in the store is that of the call under
\* way (AtomicTransaction.ts:93, 155-158).
THEOREM RecordIsTheRun == SerialSpec => []RunningIsRecorded
<1>1. SerialInv => RunningIsRecorded
  BY DEF SerialInv
<1>2. QED
  BY <1>1, SerialInvariant, PTL
\* With one call at a time, a record never moves back within a session
\* (AtomicTransaction.ts:144-158).
THEOREM RecordNeverRegresses == SerialSpec => NeverRegress
<1> DEFINE Forward == (/\ crashes' = crashes
                       /\ store # NoState
                       /\ store' # NoState
                       /\ store'.job = store.job) => store'.index >= store.index
<1>1. TypeInv /\ OrderInv /\ SerialInv /\ [SerialNext]_vars => [Forward]_vars
  <2> SUFFICES ASSUME TypeInv, SerialInv, SerialNext,
                      crashes' = crashes, store # NoState, store' # NoState,
                      store'.job = store.job
               PROVE  store'.index >= store.index
    BY DEF Forward
  <2> USE MethodsAssumption, CallsAssumption, CrashesAssumption
      DEF TypeInv, TypeOK, Calls, Steps, States, Running, Live
  <2>1. CASE UNCHANGED store
    BY <2>1
  <2>2. ASSUME NEW c \in Calls, NoCallLive, Start(c) PROVE FALSE
    BY <2>2 DEF Start, SerialInv, UnstartedIsUntouched
  <2>3. ASSUME NEW c \in Calls, NextMethod(c) PROVE store'.index >= store.index
    <3>1. store = at[c] /\ store' = [at[c] EXCEPT !.index = @ + 1]
      BY <2>3 DEF NextMethod, SerialInv, RunningIsRecorded
    <3>2. QED
      BY <3>1
  <2>4. ASSUME NEW c \in Calls, Complete(c) \/ MethodThrows(c) PROVE FALSE
    BY <2>4 DEF Complete, MethodThrows
  <2>5. ASSUME NEW c \in Calls,
               Restart(c) \/ DoTransaction(c) \/ HookRejects(c) \/ TakeEffect(c)
        PROVE  UNCHANGED store
    BY <2>5 DEF Restart, DoTransaction, HookRejects, TakeEffect
  <2>6. CASE Flush
    BY <2>6 DEF Flush
  <2>7. CASE Crash
    BY <2>7 DEF Crash
  <2>8. QED
    BY <2>1, <2>2, <2>3, <2>4, <2>5, <2>6, <2>7 DEF SerialNext, Invoke, Proceed
<1>2. QED
  BY <1>1, SerialInvariant, PTL DEF SerialSpec, NeverRegress

\* With one call at a time, a record disappears only with the call that ends its
\* job, or in a crash before it was ever written (AtomicTransaction.ts:95-122).
THEOREM NothingForgotten == SerialSpec => ForgottenOnlyWhenOver
<1> DEFINE Over == store # NoState /\ store' = NoState =>
                     \/ crashes' # crashes /\ disk = NoState
                     \/ \E c \in Calls : /\ Running(c)
                                         /\ at[c].job = store.job
                                         /\ pc'[c] \in {"resolved", "rejected"}
<1>1. TypeInv /\ OrderInv /\ SerialInv /\ [SerialNext]_vars => [Over]_vars
  <2> SUFFICES ASSUME TypeInv, SerialInv, SerialNext,
                      store # NoState, store' = NoState
               PROVE  Over
    BY DEF Over
  <2>1. ASSUME NEW c \in Calls, Complete(c) \/ MethodThrows(c) PROVE Over
    <3>1. Running(c) /\ store = at[c]
      BY <2>1 DEF Complete, MethodThrows, Running, SerialInv, RunningIsRecorded
    <3>2. pc'[c] \in {"resolved", "rejected"}
      BY <2>1 DEF Complete, MethodThrows, TypeInv, TypeOK
    <3>3. QED
      BY <3>1, <3>2
  <2>2. CASE Crash
    BY <2>2 DEF Crash, TypeInv, TypeOK
  <2>3. ASSUME NEW c \in Calls, NextMethod(c) PROVE FALSE
    <3>1. at[c] \in States
      BY <2>3, RunningIsTyped DEF NextMethod, TypeInv, Running
    <3>2. store' \in States
      BY <2>3, <3>1, MethodsAssumption DEF NextMethod, States, Steps
    <3>3. QED
      BY <3>2, NoStateAssumption DEF States, Steps
  <2>4. ASSUME NEW c \in Calls, Start(c) PROVE FALSE
    <3>1. store' \in States
      BY <2>4, MethodsAssumption DEF Start, States, Steps
    <3>2. QED
      BY <3>1, NoStateAssumption DEF States, Steps
  <2>5. ASSUME NEW c \in Calls,
               Restart(c) \/ DoTransaction(c) \/ HookRejects(c) \/ TakeEffect(c)
        PROVE  FALSE
    BY <2>5 DEF Restart, DoTransaction, HookRejects, TakeEffect
  <2>6. CASE Flush
    BY <2>6 DEF Flush
  <2> HIDE DEF Over
  <2>7. QED
    BY <2>1, <2>2, <2>3, <2>4, <2>5, <2>6 DEF SerialNext, Invoke, Proceed
<1>2. QED
  BY <1>1, SerialInvariant, PTL DEF SerialSpec, ForgottenOnlyWhenOver

------------------------------------------------------------------------------
(* The class keeps the promise of AtLeastOnce *)

LEMMA ContractInit == Init => Contract!Init
  BY DEF Init, Contract!Init, Steps, Contract!Steps

LEMMA ContractStep ==
  TypeInv /\ OrderInv /\ SerialInv /\ [SerialNext]_vars
    => [Contract!Next]_(Contract!contractVars)
<1> SUFFICES ASSUME TypeInv, OrderInv, SerialInv, [SerialNext]_vars
             PROVE  [Contract!Next]_(Contract!contractVars)
  OBVIOUS
<1>1. ASSUME NEW c \in Calls, TakeEffect(c) PROVE Contract!Next
  <2> DEFINE j == at[c].job
             s == at[c].index
  <2>1. /\ pc[c] = "method" /\ at[c] # NoState /\ j \in Jobs /\ s \in Steps
        /\ effects' = [effects EXCEPT ![j][s] = @ + 1]
        /\ UNCHANGED crashes
    BY <1>1, RunningIsTyped DEF TakeEffect, TypeInv, Running
  <2>2. s > 0 => effects[j][s - 1] > 0
    <3>1. Reached(at[c])
      BY <2>1 DEF OrderInv, Running
    <3>2. s > 0 => s - 1 \in Steps /\ s - 1 < s
      BY <2>1, MethodsAssumption DEF Steps
    <3>3. QED
      BY <2>1, <3>1, <3>2 DEF Reached
  <2>3. store = at[c] /\ \A d \in Calls : pc[d] # "effect"
    BY <2>1 DEF SerialInv, RunningIsRecorded, Running, Live
  <2>4. effects[j][s] <= crashes
    BY <2>1, <2>3 DEF SerialInv, AheadIsFresh
  <2>5. s \in Contract!Steps
    BY <2>1 DEF Steps, Contract!Steps
  <2> HIDE DEF j, s
  <2>6. Contract!Perform(j, s)
    BY <2>1, <2>2, <2>4 DEF Contract!Perform
  <2>7. QED
    BY <2>1, <2>5, <2>6 DEF Contract!Next
<1>2. ASSUME NEW c \in Calls, Invoke(c) PROVE UNCHANGED Contract!contractVars
  BY <1>2 DEF Invoke, Start, Restart, Contract!contractVars
<1>3. ASSUME NEW c \in Calls,
             \/ DoTransaction(c) \/ HookRejects(c) \/ NextMethod(c)
             \/ Complete(c) \/ MethodThrows(c)
      PROVE  UNCHANGED Contract!contractVars
  BY <1>3 DEF DoTransaction, HookRejects, NextMethod, Complete, MethodThrows,
              Contract!contractVars
<1>4. CASE Flush
  BY <1>4 DEF Flush, Contract!contractVars
<1>5. CASE Crash
  BY <1>5 DEF Crash, Contract!Next, Contract!Crash
<1>6. CASE UNCHANGED vars
  BY <1>6 DEF vars, Contract!contractVars
<1>7. QED
  BY <1>1, <1>2, <1>3, <1>4, <1>5, <1>6 DEF SerialNext, Proceed

\* With one call at a time the class implements AtLeastOnce: steps in order,
\* each at most once between two crashes (AtomicTransaction.ts:43-186).
THEOREM ImplementsContract == SerialSpec => KeepsContract
  BY ContractInit, ContractStep, SerialInvariant, PTL
  DEF SerialSpec, KeepsContract, Contract!Spec
==============================================================================
