------------------------ MODULE WorkerLifecycleProofs ------------------------
(***************************************************************************)
(* Theorems about WorkerLifecycle, for any number of wallets, open calls,  *)
(* boots and migrations, and whether or not the wallet signs.              *)
(***************************************************************************)
EXTENDS WorkerLifecycle, TLAPS

(* What holds whatever the user does *)

\* A wallet is known to the call and to the boot that will need it, and a boot
\* at a migration is at one of the hub's.
CallsKnow == \A c \in Calls : call[c].at \in UserCalls \cup {"challenge", "response"}
                                => call[c].wallet # None
BootsKnow == \A b \in Boots :
               /\ boot[b].at # "none" => boot[b].wallet # None
               /\ boot[b].at \in {"needsEth", "executing", "posting"} => boot[b].next <= NumMigrations

AnyInv == TypeOK /\ CallsKnow /\ BootsKnow /\ NoHandlerOwed /\ MigrationsInOrder

LEMMA AnyInvInit == Init => AnyInv
<1> SUFFICES ASSUME Init PROVE AnyInv
  OBVIOUS
<1>1. boot \in [Boots -> BootStates]
  BY MigrationsAssumption DEF Init, BootStates
<1>2. call \in [Calls -> CallStates]
  BY DEF Init, CallStates
<1>3. TypeOK
  BY <1>1, <1>2 DEF Init, TypeOK
<1>4. CallsKnow /\ BootsKnow /\ NoHandlerOwed /\ MigrationsInOrder
  BY DEF Init, CallsKnow, BootsKnow, NoHandlerOwed, MigrationsInOrder, UserCalls
<1>5. QED
  BY <1>3, <1>4 DEF AnyInv

\* The lock handler touches pollers and methods, and keeps their types.
LEMMA StopIsTyped ==
  ASSUME TypeOK, StopControllers
  PROVE  /\ slot' \in [Names -> Boots \cup {None}]
         /\ polling' \in [Boots -> BOOLEAN]
         /\ UNCHANGED <<current, server, times, leaked>>
  BY DEF TypeOK, StopControllers, StopPollers

\* What a dispatch does to the invariant, shared by all the calls that dispatch.
LEMMA DispatchKeepsAny ==
  ASSUME AnyInv, NEW w \in Wallets \cup {None}, NEW t \in Wallets \cup {None},
         Dispatch(w, t), w = None /\ ~wasLocked => t = None, applied' = applied
  PROVE  /\ NoHandlerOwed' /\ MigrationsInOrder' /\ BootsKnow'
         /\ wallet' \in Wallets \cup {None} /\ token' \in Wallets \cup {None}
         /\ wasLocked' \in BOOLEAN /\ prevToken' \in Wallets \cup {None}
         /\ boot' \in [Boots -> BootStates]
         /\ current' \in [Names -> Boots \cup {None}]
         /\ polling' \in [Boots -> BOOLEAN]
         /\ server' \in [Names -> [Boots -> BOOLEAN]]
         /\ times' \in [Names -> [Boots -> Nat]]
         /\ slot' \in [Names -> Boots \cup {None}]
         /\ leaked' \in BOOLEAN
<1>1. CASE UNCHANGED <<observer, boot, controllers>> /\ ((w = None) = wasLocked \/ (w # None /\ t = prevToken))
  BY <1>1 DEF AnyInv, TypeOK, NoHandlerOwed, MigrationsInOrder, BootsKnow, Dispatch, observer, controllers
<1>2. CASE ~((w = None) = wasLocked \/ (w # None /\ t = prevToken))
  <2>1. wasLocked' = (w = None) /\ prevToken' = t /\ wallet' = w /\ token' = t
    BY <1>2 DEF Dispatch, Observe
  <2>2. NoHandlerOwed' /\ wasLocked' \in BOOLEAN /\ prevToken' \in Wallets \cup {None}
    BY <1>2, <2>1 DEF AnyInv, TypeOK, NoHandlerOwed
  <2>3. CASE w = None
    <3>1. StopControllers /\ UNCHANGED boot
      BY <1>2, <2>3 DEF Dispatch, Observe
    <3>2. QED
      BY <2>1, <2>2, <3>1, StopIsTyped DEF AnyInv, TypeOK, MigrationsInOrder, BootsKnow
  <2>4. CASE w # None
    <3>1. BeginBoot(w) /\ UNCHANGED controllers
      BY <1>2, <2>4 DEF Dispatch, Observe
    <3>2. PICK b \in Boots : /\ boot[b].at = "none"
                             /\ boot' = [boot EXCEPT ![b] = [at |-> "fetching", wallet |-> w, next |-> 1]]
      BY <3>1 DEF BeginBoot
    <3>3. 1 \in 1 .. NumMigrations + 1
      BY MigrationsAssumption
    <3>4. boot' \in [Boots -> BootStates]
      BY <3>2, <3>3 DEF AnyInv, TypeOK, BootStates
    <3>5. \A a \in Boots : \/ boot'[a] = boot[a]
                           \/ boot'[a].at = "fetching" /\ boot'[a].wallet # None
      BY <2>4, <3>2 DEF AnyInv, TypeOK
    <3>6. MigrationsInOrder' /\ BootsKnow'
      BY <3>5 DEF AnyInv, MigrationsInOrder, BootsKnow
    <3>7. QED
      BY <2>1, <2>2, <3>1, <3>4, <3>6 DEF AnyInv, TypeOK, controllers
  <2>5. QED
    BY <2>3, <2>4
<1>3. QED
  BY <1>1, <1>2 DEF Dispatch, Observe

\* A boot that changes where it is and its migration is still a boot.
LEMMA BootMoves ==
  ASSUME TypeOK, NEW b \in Boots,
         NEW a \in Over \cup {"none", "fetching", "needsEth", "executing", "posting", "starting"},
         NEW n \in 1 .. NumMigrations + 1,
         boot' = [boot EXCEPT ![b].at = a, ![b].next = n]
  PROVE  boot' \in [Boots -> BootStates]
<1>1. boot[b] \in BootStates
  BY DEF TypeOK
<1>2. [[boot[b] EXCEPT !.at = a] EXCEPT !.next = n] \in BootStates
  BY <1>1 DEF BootStates
<1>3. boot' = [boot EXCEPT ![b] = [[boot[b] EXCEPT !.at = a] EXCEPT !.next = n]]
  BY <1>1 DEF TypeOK, BootStates
<1>4. QED
  BY <1>2, <1>3 DEF TypeOK

\* A boot at a migration moves on: what the steps of a boot have in common.
LEMMA BootStepKeepsAny ==
  ASSUME AnyInv, NEW b \in Boots, Progress(b) \/ EthArrives(b)
  PROVE  AnyInv'
<1> USE DEF AnyInv
<1>1. boot[b] \in BootStates /\ boot[b].at \in Over \cup {"none", "fetching", "needsEth", "executing", "posting", "starting"}
  BY DEF TypeOK, BootStates
<1>2. CASE UnappliedArrives(b)
  <2>1. boot[b].wallet \in Wallets
    BY <1>1, <1>2 DEF UnappliedArrives, BootsKnow, BootStates
  <2>2. applied[boot[b].wallet] \in 0 .. NumMigrations
    BY <2>1 DEF TypeOK
  <2>3. CASE applied[boot[b].wallet] = NumMigrations /\ MakeControllers(b)
    <3>1. TypeOK'
      BY <1>2, <2>3 DEF UnappliedArrives, MakeControllers, TypeOK, BootStates, Over, Names,
         runtime, persistent, observer
    <3>2. CallsKnow' /\ BootsKnow' /\ NoHandlerOwed' /\ MigrationsInOrder'
      BY <1>2, <2>3 DEF UnappliedArrives, MakeControllers, TypeOK, CallsKnow, BootsKnow,
         NoHandlerOwed, MigrationsInOrder, runtime, observer
    <3>3. QED
      BY <3>1, <3>2
  <2>4. ASSUME NEW a \in {"needsEth", "executing"},
               applied[boot[b].wallet] < NumMigrations, current' = current,
               boot' = [boot EXCEPT ![b].at = a, ![b].next = applied[boot[b].wallet] + 1]
        PROVE  AnyInv'
    <3>1. UNCHANGED <<runtime, persistent, observer, call, applied, polling, server, times, slot, leaked>>
      BY <1>2 DEF UnappliedArrives
    <3>2. applied[boot[b].wallet] + 1 \in 1 .. NumMigrations
      BY <2>2, <2>4, MigrationsAssumption
    <3>3. boot' \in [Boots -> BootStates]
      <4>1. a \in Over \cup {"none", "fetching", "needsEth", "executing", "posting", "starting"}
        OBVIOUS
      <4>2. applied[boot[b].wallet] + 1 \in 1 .. NumMigrations + 1
        BY <3>2, MigrationsAssumption
      <4>3. QED
        BY <2>4, <4>1, <4>2, BootMoves
    <3>4. TypeOK'
      BY <2>4, <3>1, <3>3 DEF TypeOK, runtime, persistent, observer
    <3>5. BootsKnow'
      BY <1>1, <1>2, <2>4, <3>2 DEF UnappliedArrives, TypeOK, BootsKnow
    <3>6. MigrationsInOrder'
      BY <2>1, <2>2, <2>4, <3>1 DEF TypeOK, MigrationsInOrder, BootStates
    <3>7. CallsKnow' /\ NoHandlerOwed'
      BY <3>1 DEF CallsKnow, NoHandlerOwed, runtime, observer
    <3>8. QED
      BY <3>4, <3>5, <3>6, <3>7
  <2>5. QED
    BY <1>2, <2>3, <2>4 DEF UnappliedArrives
<1>3. CASE Executed(b) \/ EthArrives(b) \/ BootFails(b) \/ Blocks(b)
  <2>1. PICK a \in {"executing", "posting", "failed", "blocked"} :
          /\ boot' = [boot EXCEPT ![b].at = a]
          /\ UNCHANGED OtherThanLock /\ leaked' \in BOOLEAN
          /\ boot[b].at # "none"
          /\ a \in {"executing", "posting"} => boot[b].at \in {"needsEth", "executing"}
    BY <1>3 DEF Executed, EthArrives, BootFails, Blocks, OtherThanLock, controllers, TypeOK
  <2>2. boot' \in [Boots -> BootStates]
    BY <2>1 DEF TypeOK, BootStates, Over
  <2>3. TypeOK'
    BY <2>1, <2>2 DEF TypeOK, runtime, persistent, observer, OtherThanLock
  <2>4. BootsKnow' /\ MigrationsInOrder'
    BY <1>1, <2>1 DEF TypeOK, BootStates, BootsKnow, MigrationsInOrder, OtherThanLock
  <2>5. CallsKnow' /\ NoHandlerOwed'
    BY <2>1 DEF CallsKnow, NoHandlerOwed, runtime, observer, OtherThanLock
  <2>6. QED
    BY <2>3, <2>4, <2>5
<1>4. CASE Posted(b)
  <2> DEFINE w == boot[b].wallet
  <2>1. w \in Wallets /\ boot[b].next \in 1 .. NumMigrations
    BY <1>1, <1>4, MigrationsAssumption DEF Posted, BootsKnow, BootStates
  <2>2. applied[w] \in 0 .. NumMigrations /\ boot[b].next <= applied[w] + 1
    BY <1>4, <2>1 DEF TypeOK, MigrationsInOrder, Posted
  <2>3. /\ applied' \in [Wallets -> 0 .. NumMigrations]
        /\ applied'[w] >= boot[b].next
        /\ \A v \in Wallets : applied'[v] >= applied[v]
    BY <1>4, <2>1, <2>2, MigrationsAssumption DEF TypeOK, Posted
  <2>4. \A a \in Boots : boot[a].at # "none" => boot[a].wallet \in Wallets
    BY DEF BootsKnow, TypeOK, BootStates
  <2>5. CASE /\ boot[b].next < NumMigrations
             /\ boot' = [boot EXCEPT ![b].at = "executing", ![b].next = @ + 1]
             /\ UNCHANGED current
    <3>1. TypeOK'
      BY <1>4, <2>1, <2>3, <2>5, MigrationsAssumption DEF Posted, TypeOK, BootStates,
         runtime, persistent, observer
    <3>2. BootsKnow' /\ CallsKnow' /\ NoHandlerOwed'
      BY <1>4, <2>1, <2>5, MigrationsAssumption DEF Posted, TypeOK, BootsKnow, CallsKnow,
         NoHandlerOwed, runtime, observer
    <3>3. MigrationsInOrder'
      BY <1>4, <2>1, <2>2, <2>3, <2>4, <2>5, MigrationsAssumption DEF Posted, TypeOK,
         MigrationsInOrder, BootStates
    <3>4. QED
      BY <3>1, <3>2, <3>3
  <2>6. CASE boot[b].next = NumMigrations /\ MakeControllers(b)
    <3>1. TypeOK'
      BY <1>4, <2>3, <2>6 DEF Posted, MakeControllers, TypeOK, BootStates, Over, Names,
         runtime, persistent, observer
    <3>2. BootsKnow' /\ CallsKnow' /\ NoHandlerOwed'
      BY <1>4, <2>6 DEF Posted, MakeControllers, TypeOK, BootsKnow, CallsKnow,
         NoHandlerOwed, runtime, observer
    <3>3. MigrationsInOrder'
      BY <1>4, <2>1, <2>2, <2>3, <2>4, <2>6, MigrationsAssumption DEF Posted, MakeControllers,
         TypeOK, MigrationsInOrder, BootStates
    <3>4. QED
      BY <3>1, <3>2, <3>3
  <2>7. QED
    BY <1>4, <2>5, <2>6 DEF Posted
<1>5. CASE Started(b)
  <2>1. polling' \in [Boots -> BOOLEAN]
    BY <1>5 DEF Started, TypeOK
  <2>2. server' \in [Names -> [Boots -> BOOLEAN]] /\ times' \in [Names -> [Boots -> Nat]]
    BY <1>5 DEF Started, TypeOK
  <2>3. slot' \in [Names -> Boots \cup {None}]
    BY <1>5 DEF Started, TypeOK
  <2>4. boot' \in [Boots -> BootStates]
    <3>1. PICK a \in {"up", "refused"} : boot' = [boot EXCEPT ![b].at = a]
      BY <1>5 DEF Started
    <3>2. QED
      BY <3>1 DEF TypeOK, BootStates, Over
  <2>5. TypeOK'
    BY <1>5, <2>1, <2>2, <2>3, <2>4 DEF Started, TypeOK, runtime, persistent, observer
  <2>6. CallsKnow' /\ BootsKnow' /\ NoHandlerOwed' /\ MigrationsInOrder'
    BY <1>5 DEF Started, TypeOK, CallsKnow, BootsKnow, NoHandlerOwed, MigrationsInOrder,
       runtime, observer
  <2>7. QED
    BY <2>5, <2>6
<1>6. QED
  BY <1>2, <1>3, <1>4, <1>5 DEF Progress

\* A call that ends, or moves on, as it awaits something.
LEMMA CallMoves ==
  ASSUME TypeOK, CallsKnow, NEW c \in Calls, NEW r \in CallStates,
         call' = [call EXCEPT ![c] = r],
         r.at \in UserCalls \cup {"challenge", "response"} => r.wallet # None
  PROVE  call' \in [Calls -> CallStates] /\ CallsKnow'
  BY DEF TypeOK, CallsKnow

LEMMA CallEnds ==
  ASSUME TypeOK, CallsKnow, NEW c \in Calls, EndCall(c)
  PROVE  call' \in [Calls -> CallStates] /\ CallsKnow'
<1>1. [at |-> "idle", wallet |-> None] \in CallStates
  BY DEF CallStates
<1>2. QED
  BY <1>1, CallMoves DEF EndCall, UserCalls

\* The calls that leave the store alone.
LEMMA QuietCallKeepsAny ==
  ASSUME AnyInv, NEW c \in Calls,
         \/ UnlockWallet(c) \/ WrongPassword(c) \/ KeyringSerialized(c)
         \/ Authenticate(c) \/ Sign(c) \/ AuthFails(c) \/ InitAccount(c)
  PROVE  AnyInv'
<1> USE DEF AnyInv
<1>1. call[c] \in CallStates
  BY DEF TypeOK
<1>2. UNCHANGED <<runtime, didInit, observer, boot, applied, controllers>>
  BY DEF UnlockWallet, WrongPassword, KeyringSerialized, Authenticate, Sign, AuthFails,
     InitAccount, persistent
<1>3. keyring' \in Wallets \cup {None}
  BY <1>1 DEF UnlockWallet, WrongPassword, KeyringSerialized, Authenticate, Sign, AuthFails,
     InitAccount, persistent, TypeOK, CallStates
<1>4. call' \in [Calls -> CallStates] /\ CallsKnow'
  <2>1. CASE EndCall(c)
    BY <2>1, CallEnds
  <2>2. CASE UnlockWallet(c)
    <3>1. [at |-> "unlocking", wallet |-> keyring] \in CallStates /\ keyring # None
      BY <2>2 DEF UnlockWallet, CallStates, TypeOK, UserCalls
    <3>2. QED
      BY <2>2, <3>1, CallMoves DEF UnlockWallet
  <2>3. CASE InitAccount(c)
    <3>1. [at |-> "answered", wallet |-> wallet] \in CallStates
      BY DEF CallStates, TypeOK
    <3>2. QED
      BY <2>3, <3>1, CallMoves DEF InitAccount, UserCalls
  <2>4. CASE Authenticate(c)
    <3>1. /\ [at |-> "waiting", wallet |-> None] \in CallStates
          /\ [at |-> "challenge", wallet |-> wallet] \in CallStates
      BY DEF CallStates, TypeOK
    <3>2. CASE wallet = None \/ ~didInit
      BY <2>4, <3>1, <3>2, CallMoves DEF Authenticate, UserCalls
    <3>3. CASE ~(wallet = None \/ ~didInit)
      BY <2>4, <3>1, <3>3, CallMoves DEF Authenticate, UserCalls
    <3>4. QED
      BY <3>2, <3>3
  <2>5. CASE call[c].at = "challenge" /\ call' = [call EXCEPT ![c].at = "response"]
    <3>1. [call[c] EXCEPT !.at = "response"] \in CallStates
      BY <1>1 DEF CallStates
    <3>2. call[c].wallet # None
      BY <2>5 DEF CallsKnow
    <3>3. QED
      BY <1>1, <2>5, <3>1, <3>2, CallMoves DEF CallStates
  <2>6. QED
    BY <2>1, <2>2, <2>3, <2>4, <2>5 DEF WrongPassword, KeyringSerialized, Sign, AuthFails
<1>5. TypeOK'
  BY <1>2, <1>3, <1>4 DEF TypeOK, runtime, observer, controllers
<1>6. BootsKnow' /\ NoHandlerOwed' /\ MigrationsInOrder'
  BY <1>2 DEF BootsKnow, NoHandlerOwed, MigrationsInOrder, runtime, observer
<1>7. QED
  BY <1>4, <1>5, <1>6

\* Everything that dispatches: the wallet and the token it leaves behind are
\* ones the observer can deal with.
LEMMA DispatchedTypes ==
  ASSUME AnyInv, NEW w \in Wallets \cup {None}, NEW t \in Wallets \cup {None},
         Dispatch(w, t), w = None /\ ~wasLocked => t = None, applied' = applied,
         keyring' \in Wallets \cup {None}, didInit' \in BOOLEAN,
         call' \in [Calls -> CallStates], CallsKnow'
  PROVE  AnyInv'
  BY DispatchKeepsAny DEF AnyInv, TypeOK

LEMMA DispatchingCallKeepsAny ==
  ASSUME AnyInv, NEW c \in Calls,
         \/ \E w \in Wallets : GenKeyring(c, w) \/ RestoreWallet(c, w)
         \/ Deserialized(c) \/ WalletSerialized(c) \/ TokenArrives(c) \/ LockWallet
  PROVE  AnyInv'
<1> USE DEF AnyInv
<1>1. call[c] \in CallStates /\ wallet \in Wallets \cup {None} /\ token \in Wallets \cup {None}
  BY DEF TypeOK
<1>2. ASSUME NEW w \in Wallets, NEW a \in UserCalls,
             Dispatch(w, None), call' = [call EXCEPT ![c] = [at |-> a, wallet |-> w]],
             UNCHANGED <<persistent, applied>>
      PROVE  AnyInv'
  <2>1. [at |-> a, wallet |-> w] \in CallStates
    BY DEF CallStates
  <2>2. call' \in [Calls -> CallStates] /\ CallsKnow'
    BY <1>2, <2>1, CallMoves, NoneAssumption
  <2>3. QED
    BY <1>2, <2>2, DispatchedTypes DEF TypeOK, persistent
<1>3. CASE Deserialized(c)
  BY <1>1, <1>3, CallEnds, DispatchedTypes DEF Deserialized, CallStates, CallsKnow, UserCalls,
     TypeOK, persistent
<1>4. CASE WalletSerialized(c)
  <2>1. call[c].wallet \in Wallets
    BY <1>1, <1>4 DEF WalletSerialized, CallStates, CallsKnow, UserCalls
  <2>2. call' \in [Calls -> CallStates] /\ CallsKnow'
    BY <1>4, CallEnds DEF WalletSerialized
  <2>3. QED
    BY <1>1, <1>4, <2>1, <2>2, DispatchedTypes, NoneAssumption DEF WalletSerialized
<1>5. CASE TokenArrives(c)
  <2>1. call[c].wallet \in Wallets
    BY <1>1, <1>5 DEF TokenArrives, CallStates, CallsKnow
  <2>2. call' \in [Calls -> CallStates] /\ CallsKnow'
    BY <1>5, CallEnds DEF TokenArrives
  <2>3. wallet = None => wasLocked
    BY DEF NoHandlerOwed
  <2>4. QED
    BY <1>1, <1>5, <2>1, <2>2, <2>3, DispatchedTypes DEF TokenArrives, TypeOK, persistent
<1>6. CASE LockWallet
  BY <1>6, DispatchedTypes DEF LockWallet, TypeOK, CallsKnow, persistent
<1>7. QED
  BY <1>2, <1>3, <1>4, <1>5, <1>6 DEF GenKeyring, RestoreWallet, UserCalls

LEMMA CrashKeepsAny == ASSUME AnyInv, Crash PROVE AnyInv'
<1> USE DEF AnyInv
<1>1. \A b \in Boots : /\ boot'[b] \in BootStates
                       /\ \/ boot'[b] = boot[b]
                          \/ /\ boot'[b].at = "killed" /\ boot[b].at # "none"
                             /\ boot'[b].wallet = boot[b].wallet
  BY DEF Crash, TypeOK, BootStates, Over, UnderWay
<1>2. boot' \in [Boots -> BootStates]
  BY <1>1 DEF Crash
<1>3. call' \in [Calls -> CallStates]
  BY DEF Crash, CallStates
<1>4. TypeOK'
  BY <1>2, <1>3 DEF Crash, TypeOK, persistent
<1>5. CallsKnow' /\ NoHandlerOwed'
  BY DEF Crash, CallsKnow, NoHandlerOwed, UserCalls
<1>6. BootsKnow' /\ MigrationsInOrder'
  BY <1>1 DEF Crash, BootsKnow, MigrationsInOrder
<1>7. QED
  BY <1>4, <1>5, <1>6

LEMMA AnyInvInductive == AnyInv /\ [Next]_vars => AnyInv'
<1> SUFFICES ASSUME AnyInv, [Next]_vars PROVE AnyInv'
  OBVIOUS
<1>1. CASE DidStoreMnemonic
  BY <1>1 DEF DidStoreMnemonic, AnyInv, TypeOK, CallsKnow, BootsKnow, NoHandlerOwed,
     MigrationsInOrder, runtime, observer, controllers
<1>t. CASE TransactionFails
  <2>1. UNCHANGED <<boot, OtherThanLock>> /\ leaked' \in BOOLEAN
    BY <1>t DEF TransactionFails
  <2>2. TypeOK'
    BY <2>1 DEF OtherThanLock, AnyInv, TypeOK, runtime, persistent, observer
  <2>3. CallsKnow' /\ BootsKnow' /\ NoHandlerOwed' /\ MigrationsInOrder'
    BY <2>1 DEF OtherThanLock, AnyInv, CallsKnow, BootsKnow, NoHandlerOwed, MigrationsInOrder,
       runtime, observer
  <2>4. QED
    BY <2>2, <2>3 DEF AnyInv
<1>2. CASE UNCHANGED vars
  BY <1>2 DEF vars, AnyInv, TypeOK, CallsKnow, BootsKnow, NoHandlerOwed,
     MigrationsInOrder, runtime, persistent, observer, controllers
<1>3. CASE LockWallet
  <2>1. NoHandlerOwed' /\ TypeOK' /\ AnyInv'
    BY <1>3, DispatchedTypes DEF LockWallet, AnyInv, TypeOK, CallsKnow, persistent
  <2>2. QED
    BY <2>1
<1>4. ASSUME NEW c \in Calls, Answer(c) \/ Auth(c) PROVE AnyInv'
  BY <1>4, QuietCallKeepsAny, DispatchingCallKeepsAny DEF Answer, Auth
<1>5. CASE MakeWallet \/ Unlock
  BY <1>5, QuietCallKeepsAny, DispatchingCallKeepsAny DEF MakeWallet, Unlock
<1>6. ASSUME NEW b \in Boots, Progress(b) \/ EthArrives(b) PROVE AnyInv'
  BY <1>6, BootStepKeepsAny
<1>7. CASE Crash
  BY <1>7, CrashKeepsAny
<1>8. QED
  BY <1>1, <1>t, <1>2, <1>3, <1>4, <1>5, <1>6, <1>7 DEF Next, Worker

\* The types of the state (worker.ts:176-276, LockStateObserver.ts:27-47).
THEOREM Typing == Spec => []TypeOK
<1>1. AnyInv => TypeOK
  BY DEF AnyInv
<1>2. QED
  BY <1>1, AnyInvInit, AnyInvInductive, PTL DEF Spec

\* However the calls of the user, of the pages and of the boots interleave, the
\* observer has run the handler that the wallet and the token call for
\* (LockStateObserver.ts:30-46 with actions.ts:32-41, 111-116, 249-257).
THEOREM ObserverKeepsUp == Spec => []NoHandlerOwed
<1>1. AnyInv => NoHandlerOwed
  BY DEF AnyInv
<1>2. QED
  BY <1>1, AnyInvInit, AnyInvInductive, PTL DEF Spec

\* The migrations of an account are executed in order, and its controllers are
\* made after the last, even if boots overlap (Migrator.ts:64-93, worker.ts:255-261).
THEOREM OrderOfMigrations == Spec => []MigrationsInOrder
<1>1. AnyInv => MigrationsInOrder
  BY DEF AnyInv
<1>2. QED
  BY <1>1, AnyInvInit, AnyInvInductive, PTL DEF Spec

\* A step that begins a boot is a dispatch which the observer noticed.
LEMMA BeginningIsNoticed ==
  ASSUME AnyInv, NEW b \in Boots, boot[b].at = "none", boot'[b].at # "none",
         NEW w, NEW t, Dispatch(w, t)
  PROVE  wallet' = w /\ w # None /\ wasLocked /\ t # prevToken /\ token' = t
  BY DEF Dispatch, Observe, AnyInv, TypeOK, StopControllers

LEMMA BootsBeginOnArrival ==
  ASSUME AnyInv, Next, NEW b \in Boots, boot[b].at = "none", boot'[b].at # "none"
  PROVE  /\ wallet' # None /\ token' # None
         /\ wallet = None \/ token = None
<1>1. PICK w, t : Dispatch(w, t)
  <2>1. ASSUME NEW a \in Boots, Progress(a) \/ EthArrives(a) PROVE FALSE
    BY <2>1 DEF AnyInv, TypeOK, BootStates, Progress, UnappliedArrives, Executed, Posted, Started,
       BootFails, Blocks, EthArrives, MakeControllers
  <2>2. ASSUME Crash PROVE FALSE
    BY <2>2 DEF Crash, UnderWay, AnyInv, TypeOK, Over
  <2>3. ASSUME TransactionFails PROVE FALSE
    BY <2>3 DEF TransactionFails
  <2>4. QED
    BY <2>1, <2>2, <2>3 DEF Next, Worker, Answer, Auth, MakeWallet, Unlock, UnlockWallet, GenKeyring,
       RestoreWallet, DidStoreMnemonic, LockWallet, Deserialized, WrongPassword,
       KeyringSerialized, WalletSerialized, Authenticate, Sign, TokenArrives, AuthFails, InitAccount
<1>2. QED
  BY <1>1, BeginningIsNoticed DEF AnyInv, NoHandlerOwed

\* A boot begins for an authenticated wallet only, and once for each time a
\* wallet and a token come together (LockStateObserver.ts:34-46).
THEOREM BootsFollowAuthentication == Spec => BootsOnArrival
<1>1. AnyInv /\ [Next]_vars =>
        [\A b \in Boots : boot[b].at = "none" /\ boot'[b].at # "none"
           => /\ wallet' # None /\ token' # None
              /\ wallet = None \/ token = None]_vars
  BY BootsBeginOnArrival
<1>2. QED
  BY <1>1, AnyInvInit, AnyInvInductive, PTL DEF Spec, BootsOnArrival
------------------------------------------------------------------------------
(* What holds for a user who waits *)

Pending(c) == call[c].at \in UserCalls
Quiet == /\ \A b \in Boots : ~polling[b]
         /\ \A n \in Names : slot[n] = None

\* One boot is under way, and one call of the user's, and no boot was refused.
Alone == /\ \A a, b \in Boots : UnderWay(a) /\ UnderWay(b) => a = b
         /\ \A c, d \in Calls : Pending(c) /\ Pending(d) => c = d
         /\ \A b \in Boots : boot[b].at # "refused"

\* A boot works for the wallet in the store, which the observer has seen, and a
\* call under way does not bring another.
InStep == /\ \A b \in Boots : UnderWay(b) => wallet = boot[b].wallet /\ ~wasLocked
          /\ \A c \in Calls : call[c].at = "unlocking" => wallet = None
          /\ \A c \in Calls : call[c].at \in {"generating", "restoring"} => wallet = call[c].wallet

\* Nothing works before the unlock handler and during a boot.
Meanwhile == wasLocked \/ (\E b \in Boots : UnderWay(b)) => Quiet

\* A set at work is the one that the lock handler will find and can stop.
AtWork == /\ \A b \in Boots : polling[b] =>
               /\ boot[b].at = "up" /\ boot[b].wallet = wallet
               /\ \A n \in Names : slot[n] = b /\ current[n] = b /\ server[n][b] /\ times[n][b] = 1
          /\ \A n \in Names : slot[n] # None => polling[slot[n]]

\* A set that has not been started has registered nothing; one that is being
\* started is in the variables.
Fresh == {"none", "fetching", "needsEth", "executing", "posting", "starting"}
Prepared == /\ \A b \in Boots, n \in Names : boot[b].at \in Fresh => times[n][b] = 0
            /\ \A b \in Boots, n \in Names : boot[b].at = "starting" => current[n] = b

PatientInv == AnyInv /\ Alone /\ InStep /\ Meanwhile /\ AtWork /\ Prepared

LEMMA PatientInvInit == Init => PatientInv
<1> SUFFICES ASSUME Init PROVE PatientInv
  OBVIOUS
<1>1. Alone /\ InStep /\ Meanwhile /\ AtWork /\ Prepared
  BY DEF Init, Alone, InStep, Meanwhile, AtWork, Prepared, Quiet, UnderWay, Pending, UserCalls
<1>2. QED
  BY <1>1, AnyInvInit DEF PatientInv

LEMMA PatientNextIsNext == PatientNext => Next
  BY DEF PatientNext, Next

\* Steps of calls that leave wallet, observer, boots and controllers alone, and
\* begin a call of the user's only if it may begin.
LEMMA CallsKeepPatient ==
  ASSUME PatientInv, NEW c \in Calls,
         UNCHANGED <<wallet, wasLocked, boot, controllers>>,
         NEW r \in CallStates, call' = [call EXCEPT ![c] = r],
         r.at \in UserCalls => r.at = "unlocking" /\ wallet = None /\ \A d \in Calls : ~Pending(d)
  PROVE  Alone' /\ InStep' /\ Meanwhile' /\ AtWork' /\ Prepared'
<1> USE DEF PatientInv, AnyInv
<1>1. \A d \in Calls : call'[d] = IF d = c THEN r ELSE call[d]
  BY DEF TypeOK
<1>2. Alone'
  BY <1>1 DEF Alone, Pending, UnderWay
<1>3. InStep'
  BY <1>1 DEF InStep, UnderWay, UserCalls
<1>4. Meanwhile' /\ AtWork' /\ Prepared'
  BY DEF Meanwhile, Quiet, AtWork, Prepared, UnderWay, controllers
<1>5. QED
  BY <1>2, <1>3, <1>4

\* A dispatch the observer does not notice, of a wallet that is either the same
\* or brought while nothing works.
LEMMA UnnoticedKeepsPatient ==
  ASSUME PatientInv, NEW c \in Calls, NEW r \in CallStates,
         NEW w \in Wallets, wallet' = w,
         UNCHANGED <<observer, boot, controllers>>,
         call' = [call EXCEPT ![c] = r],
         r.at \in UserCalls => r.at # "unlocking" /\ w = r.wallet,
         \A d \in Calls : Pending(d) => d = c,
         w = wallet \/ wasLocked
  PROVE  Alone' /\ InStep' /\ Meanwhile' /\ AtWork' /\ Prepared'
<1> USE DEF PatientInv, AnyInv, observer
<1>1. \A d \in Calls : call'[d] = IF d = c THEN r ELSE call[d]
  BY DEF TypeOK
<1>2. Alone'
  BY <1>1 DEF Alone, Pending, UnderWay
<1>3. InStep'
  BY <1>1 DEF InStep, UnderWay, UserCalls, Pending
<1>4. Meanwhile' /\ Prepared'
  BY DEF Meanwhile, Quiet, Prepared, UnderWay, controllers
<1>5. AtWork'
  BY DEF AtWork, Meanwhile, Quiet, controllers
<1>6. QED
  BY <1>2, <1>3, <1>4, <1>5

\* Every step of a call that leaves the store alone.
LEMMA QuietCallKeepsPatient ==
  ASSUME PatientInv, NEW c \in Calls,
         \/ UnlockWallet(c) /\ UserWaits /\ wallet = None
         \/ WrongPassword(c) \/ KeyringSerialized(c)
         \/ Authenticate(c) \/ Sign(c) \/ AuthFails(c) \/ InitAccount(c)
  PROVE  Alone' /\ InStep' /\ Meanwhile' /\ AtWork' /\ Prepared'
<1> USE DEF PatientInv, AnyInv
<1>1. call[c] \in CallStates
  BY DEF TypeOK
<1>2. UNCHANGED <<wallet, wasLocked, boot, controllers>>
  BY DEF UnlockWallet, WrongPassword, KeyringSerialized, Authenticate, Sign, AuthFails,
     InitAccount, runtime, observer
<1>3. CASE EndCall(c)
  <2>1. [at |-> "idle", wallet |-> None] \in CallStates
    BY DEF CallStates
  <2>2. QED
    BY <1>2, <1>3, <2>1, CallsKeepPatient DEF EndCall, UserCalls
<1>4. CASE UnlockWallet(c) /\ UserWaits /\ wallet = None
  <2>1. [at |-> "unlocking", wallet |-> keyring] \in CallStates
    BY DEF CallStates, TypeOK, UserCalls
  <2>2. \A d \in Calls : ~Pending(d)
    BY <1>4 DEF UserWaits, Pending
  <2>3. QED
    BY <1>2, <1>4, <2>1, <2>2, CallsKeepPatient DEF UnlockWallet
<1>5. CASE InitAccount(c)
  <2>1. [at |-> "answered", wallet |-> wallet] \in CallStates
    BY DEF CallStates, TypeOK
  <2>2. QED
    BY <1>2, <1>5, <2>1, CallsKeepPatient DEF InitAccount, UserCalls
<1>6. CASE Authenticate(c)
  <2>1. PICK r \in {[at |-> "waiting", wallet |-> None], [at |-> "challenge", wallet |-> wallet]} :
          call' = [call EXCEPT ![c] = r]
    BY <1>6 DEF Authenticate
  <2>2. r \in CallStates /\ r.at \notin UserCalls
    BY DEF CallStates, TypeOK, UserCalls
  <2>3. QED
    BY <1>2, <2>1, <2>2, CallsKeepPatient
<1>7. CASE call[c].at = "challenge" /\ call' = [call EXCEPT ![c].at = "response"]
  <2>1. [call[c] EXCEPT !.at = "response"] \in CallStates
    BY <1>1 DEF CallStates
  <2>2. QED
    BY <1>1, <1>2, <1>7, <2>1, CallsKeepPatient DEF CallStates, UserCalls
<1>8. QED
  BY <1>3, <1>4, <1>5, <1>6, <1>7 DEF WrongPassword, KeyringSerialized, Sign, AuthFails

\* Unlocking, making and restoring a wallet.
LEMMA WalletCallKeepsPatient ==
  ASSUME PatientInv, NEW c \in Calls,
         \/ \E w \in Wallets : (GenKeyring(c, w) \/ RestoreWallet(c, w)) /\ UserWaits /\ wasLocked
         \/ Deserialized(c) \/ WalletSerialized(c)
  PROVE  Alone' /\ InStep' /\ Meanwhile' /\ AtWork' /\ Prepared'
<1> USE DEF PatientInv, AnyInv
<1>1. call[c] \in CallStates
  BY DEF TypeOK
<1>2. [at |-> "idle", wallet |-> None] \in CallStates
  BY DEF CallStates
<1>3. wasLocked \in BOOLEAN
  BY DEF TypeOK
<1>4. ASSUME NEW w \in Wallets, NEW a \in {"generating", "restoring"},
             Dispatch(w, None), UserWaits, wasLocked,
             call' = [call EXCEPT ![c] = [at |-> a, wallet |-> w]]
      PROVE  Alone' /\ InStep' /\ Meanwhile' /\ AtWork' /\ Prepared'
  <2>1. [at |-> a, wallet |-> w] \in CallStates
    BY DEF CallStates, UserCalls
  <2>2. UNCHANGED <<observer, boot, controllers>> /\ wallet' = w
    BY <1>4, NoneAssumption DEF Dispatch, Observe, NoHandlerOwed
  <2>3. \A d \in Calls : ~Pending(d)
    BY <1>4 DEF UserWaits, Pending
  <2>4. QED
    BY <1>4, <2>1, <2>2, <2>3, UnnoticedKeepsPatient
<1>5. CASE Deserialized(c)
  <2> DEFINE w == call[c].wallet
  <2>1. w \in Wallets /\ Pending(c) /\ wallet = None
    BY <1>1, <1>5 DEF Deserialized, CallStates, CallsKnow, UserCalls, Pending, InStep
  <2>2. UNCHANGED <<observer, boot, controllers>> /\ wallet' = w /\ wasLocked
    BY <1>3, <1>5, <2>1, NoneAssumption DEF Deserialized, Dispatch, Observe, NoHandlerOwed
  <2>3. \A d \in Calls : Pending(d) => d = c
    BY <2>1 DEF Alone
  <2>4. QED
    BY <1>2, <1>5, <2>1, <2>2, <2>3, UnnoticedKeepsPatient DEF Deserialized, EndCall, UserCalls
<1>6. CASE WalletSerialized(c)
  <2> DEFINE w == call[c].wallet
  <2>1. w \in Wallets /\ Pending(c) /\ wallet = w
    BY <1>1, <1>6 DEF WalletSerialized, CallStates, CallsKnow, UserCalls, Pending, InStep
  <2>2. UNCHANGED <<observer, boot, controllers>> /\ wallet' = w
    BY <1>3, <1>6, <2>1, NoneAssumption DEF WalletSerialized, Dispatch, Observe, NoHandlerOwed
  <2>3. \A d \in Calls : Pending(d) => d = c
    BY <2>1 DEF Alone
  <2>4. QED
    BY <1>2, <1>6, <2>1, <2>2, <2>3, UnnoticedKeepsPatient DEF WalletSerialized, EndCall, UserCalls
<1>7. QED
  BY <1>4, <1>5, <1>6 DEF GenKeyring, RestoreWallet

\* The token of the wallet in the store arrives, and its boot begins.
LEMMA BeginKeepsPatient ==
  ASSUME PatientInv, NEW c \in Calls, EndCall(c), UNCHANGED <<wallet, controllers>>,
         wallet # None, wasLocked, ~wasLocked', BeginBoot(wallet)
  PROVE  Alone' /\ InStep' /\ Meanwhile' /\ AtWork' /\ Prepared'
<1> USE DEF PatientInv, AnyInv
<1>1. Quiet /\ \A a \in Boots : ~UnderWay(a)
  BY DEF Meanwhile, InStep
<1>2. PICK b \in Boots : /\ boot[b].at = "none"
                         /\ boot' = [boot EXCEPT ![b] = [at |-> "fetching", wallet |-> wallet, next |-> 1]]
  BY DEF BeginBoot
<1>3. \A a \in Boots : boot'[a] = IF a = b THEN [at |-> "fetching", wallet |-> wallet, next |-> 1]
                                          ELSE boot[a]
  BY <1>2 DEF TypeOK
<1>4. \A d \in Calls : call'[d] = IF d = c THEN [at |-> "idle", wallet |-> None] ELSE call[d]
  BY DEF TypeOK, EndCall
<1>5. \A a \in Boots : UnderWay(a)' => a = b
  BY <1>1, <1>3 DEF UnderWay
<1>6. Alone'
  BY <1>3, <1>4, <1>5 DEF Alone, Pending, UserCalls
<1>7. InStep'
  BY <1>3, <1>4, <1>5 DEF InStep
<1>8. Meanwhile' /\ AtWork'
  BY <1>1 DEF Meanwhile, AtWork, Quiet, controllers
<1>9. Prepared'
  BY <1>2, <1>3 DEF Prepared, Fresh, controllers
<1>10. QED
  BY <1>6, <1>7, <1>8, <1>9

LEMMA TokenKeepsPatient ==
  ASSUME PatientInv, NEW c \in Calls, TokenArrives(c)
  PROVE  Alone' /\ InStep' /\ Meanwhile' /\ AtWork' /\ Prepared'
<1> USE DEF PatientInv, AnyInv
<1>1. [at |-> "idle", wallet |-> None] \in CallStates
  BY DEF CallStates
<1>2. wallet' = wallet /\ EndCall(c) /\ wasLocked \in BOOLEAN
  BY DEF TokenArrives, Dispatch, TypeOK
<1>3. CASE UNCHANGED <<observer, boot, controllers>>
  BY <1>1, <1>2, <1>3, CallsKeepPatient DEF EndCall, UserCalls, observer
<1>4. CASE ~UNCHANGED <<observer, boot, controllers>>
  <2>1. wallet # None /\ wasLocked
    BY <1>2, <1>4 DEF TokenArrives, Dispatch, Observe, NoHandlerOwed
  <2>2. ~wasLocked' /\ BeginBoot(wallet) /\ UNCHANGED controllers
    BY <1>4, <2>1 DEF TokenArrives, Dispatch, Observe
  <2>3. QED
    BY <1>2, <2>1, <2>2, BeginKeepsPatient
<1>5. QED
  BY <1>3, <1>4

\* The lock handler finds the set at work, and stop() does not throw half-way:
\* both of its controllers list their methods once.
LEMMA StopQuiets ==
  ASSUME PatientInv, StopControllers
  PROVE  Quiet'
<1> USE DEF PatientInv, AnyInv
<1>1. \A n \in Names : slot'[n] = IF n \in Stopped /\ Removes(n, current[n]) THEN None ELSE slot[n]
  BY DEF StopControllers
<1>2. \A b \in Boots : polling'[b] = (polling[b] /\ (Stopped = Names => b # current["micropayments"]))
  BY DEF StopControllers, StopPollers
<1>3. CASE \E b \in Boots : polling[b]
  <2>1. PICK b \in Boots : polling[b]
    BY <1>3
  <2>2. \A n \in Names : slot[n] = b /\ current[n] = b /\ server[n][b] /\ times[n][b] = 1
    BY <2>1 DEF AtWork
  <2>3. b # None
    BY NoneAssumption DEF Boots
  <2>4. \A n \in Names : Removes(n, current[n]) /\ Quits(n, current[n])
    BY <2>2, <2>3 DEF Removes, Quits
  <2>5. Stopped = Names
    BY <2>4 DEF Stopped, Names
  <2>6. \A a \in Boots : polling[a] => a = b
    BY <2>2 DEF AtWork, Names
  <2>7. \A a \in Boots : ~polling'[a]
    BY <1>2, <2>2, <2>5, <2>6 DEF Names
  <2>8. \A n \in Names : slot'[n] = None
    BY <1>1, <2>4, <2>5
  <2>9. QED
    BY <2>7, <2>8 DEF Quiet
<1>4. CASE ~\E b \in Boots : polling[b]
  <2>1. \A n \in Names : slot[n] = None
    BY <1>4 DEF AtWork, TypeOK
  <2>2. QED
    BY <1>1, <1>2, <1>4, <2>1 DEF Quiet
<1>5. QED
  BY <1>3, <1>4

LEMMA LockKeepsPatient ==
  ASSUME PatientInv, UserWaits, LockWallet
  PROVE  Alone' /\ InStep' /\ Meanwhile' /\ AtWork' /\ Prepared'
<1> USE DEF PatientInv, AnyInv
<1>1. wallet' = None /\ call' = call /\ \A c \in Calls : call[c].at \notin UserCalls
  BY DEF LockWallet, Dispatch, UserWaits
<1>2. UNCHANGED <<boot, current, server, times>>
  BY DEF LockWallet, Dispatch, Observe, StopControllers, controllers
<1>3. \A b \in Boots : ~UnderWay(b)
  BY DEF UserWaits
<1>4. Quiet'
  <2>1. CASE wasLocked
    BY <2>1 DEF LockWallet, Dispatch, Observe, TypeOK, Meanwhile, Quiet, controllers
  <2>2. CASE ~wasLocked
    <3>1. StopControllers
      BY <2>2 DEF LockWallet, Dispatch, Observe, TypeOK
    <3>2. QED
      BY <3>1, StopQuiets
  <2>3. QED
    BY <2>1, <2>2
<1>5. Alone' /\ Prepared'
  BY <1>1, <1>2 DEF Alone, Prepared, UnderWay, Pending
<1>6. InStep'
  BY <1>1, <1>2, <1>3 DEF InStep, UnderWay, UserCalls
<1>7. Meanwhile' /\ AtWork'
  BY <1>4 DEF Meanwhile, AtWork, Quiet
<1>8. QED
  BY <1>5, <1>6, <1>7

\* A boot moves on before its controllers are started, or fails.
LEMMA MovesKeepPatient ==
  ASSUME PatientInv, NEW b \in Boots, UnderWay(b),
         NEW at \in {"needsEth", "executing", "posting", "starting", "failed", "blocked"},
         \A a \in Boots : /\ boot'[a].at = IF a = b THEN at ELSE boot[a].at
                          /\ boot'[a].wallet = boot[a].wallet,
         UNCHANGED <<wallet, wasLocked, call, polling, server, times, slot>>,
         IF at = "starting" THEN \A n \in Names : current'[n] = b ELSE current' = current
  PROVE  Alone' /\ InStep' /\ Meanwhile' /\ AtWork' /\ Prepared'
<1> USE DEF PatientInv, AnyInv
<1>1. Quiet /\ \A a \in Boots : UnderWay(a) => a = b
  BY DEF Meanwhile, Alone
<1>2. \A a \in Boots : UnderWay(a)' => a = b
  BY <1>1 DEF UnderWay
<1>3. Alone'
  BY <1>2 DEF Alone, Pending
<1>4. InStep'
  BY <1>2 DEF InStep
<1>5. Meanwhile' /\ AtWork'
  BY <1>1 DEF Meanwhile, AtWork, Quiet
<1>6. b \in Boots /\ boot[b].at # "none" /\ boot[b].at \notin Over
  BY DEF UnderWay
<1>7. boot[b].at \in Fresh
  BY <1>6 DEF TypeOK, BootStates, Fresh
<1>8. \A a \in Boots, n \in Names : boot'[a].at \in Fresh => times'[n][a] = 0
  BY <1>7 DEF Prepared
<1>9. \A a \in Boots, n \in Names : boot'[a].at = "starting" => current'[n] = a
  <2> SUFFICES ASSUME NEW a \in Boots, NEW n \in Names, boot'[a].at = "starting"
               PROVE  current'[n] = a
    OBVIOUS
  <2>1. a = b
    BY <1>2 DEF UnderWay, Over
  <2>2. QED
    BY <2>1
<1>10. QED
  BY <1>3, <1>4, <1>5, <1>8, <1>9 DEF Prepared

\* The set of the boot is started, alone.
LEMMA StartedKeepsPatient ==
  ASSUME PatientInv, NEW b \in Boots, Started(b)
  PROVE  Alone' /\ InStep' /\ Meanwhile' /\ AtWork' /\ Prepared'
<1> USE DEF PatientInv, AnyInv
<1>1. UnderWay(b)
  BY DEF Started, UnderWay, Over
<1>2. Quiet /\ (\A a \in Boots : UnderWay(a) => a = b) /\ ~wasLocked /\ wallet = boot[b].wallet
  BY <1>1 DEF Meanwhile, Alone, InStep
<1>3. /\ \A n \in Names : current[n] = b /\ times[n][b] = 0 /\ slot[n] = None
      /\ \A a \in Boots : ~polling[a]
  BY <1>2 DEF Prepared, Fresh, Started, Quiet
<1>4. Registering = Names /\ Added = Names
  BY <1>3 DEF Registering, Added, Names
<1>5. UNCHANGED <<wallet, wasLocked, call, current>>
  BY DEF Started, runtime, observer
<1>6. \A a \in Boots : boot'[a] = IF a = b THEN [boot[b] EXCEPT !.at = "up"] ELSE boot[a]
  BY <1>4 DEF Started, TypeOK
<1>7. boot'[b].at = "up" /\ boot'[b].wallet = wallet
  BY <1>2, <1>6 DEF TypeOK, BootStates
<1>8. \A a \in Boots : ~UnderWay(a)'
  BY <1>2, <1>6, <1>7 DEF UnderWay, Over
<1>9. \A a \in Boots : polling'[a] = (a = b)
  BY <1>3 DEF Started, Names
<1>10. \A n \in Names : slot'[n] = b
  BY <1>3, <1>4 DEF Started
<1>11. \A n \in Names : server'[n][b]
  BY <1>3, <1>4 DEF Started
<1>12. \A n \in Names : times'[n][b] = 1
  BY <1>3, <1>4 DEF Started
<1>13. \A n \in Names, a \in Boots : a # b => times'[n][a] = times[n][a]
  BY <1>3 DEF Started
<1>14. Alone'
  BY <1>5, <1>6, <1>7, <1>8 DEF Alone, Pending
<1>15. InStep' /\ Meanwhile'
  BY <1>2, <1>5, <1>8 DEF InStep, Meanwhile
<1>16. AtWork'
  <2>1. ASSUME NEW a \in Boots, polling'[a] PROVE a = b
    BY <1>9, <2>1
  <2>2. boot'[b].at = "up" /\ boot'[b].wallet = wallet'
    BY <1>5, <1>7
  <2>3. \A n \in Names : slot'[n] = b /\ current'[n] = b /\ server'[n][b] /\ times'[n][b] = 1
    BY <1>3, <1>5, <1>10, <1>11, <1>12
  <2>4. \A n \in Names : polling'[slot'[n]]
    BY <1>9, <1>10
  <2>5. ASSUME NEW a \in Boots, polling'[a]
        PROVE  /\ boot'[a].at = "up" /\ boot'[a].wallet = wallet'
               /\ \A n \in Names : slot'[n] = a /\ current'[n] = a /\ server'[n][a] /\ times'[n][a] = 1
    <3>1. a = b
      BY <2>1, <2>5
    <3>2. QED
      BY <2>2, <2>3, <3>1, Zenon
  <2>6. QED
    BY <2>4, <2>5, Zenon DEF AtWork
<1>17. Prepared'
  BY <1>5, <1>6, <1>7, <1>13 DEF Prepared, Fresh
<1>18. QED
  BY <1>14, <1>15, <1>16, <1>17

LEMMA BootStepKeepsPatient ==
  ASSUME PatientInv, NEW b \in Boots, Progress(b) \/ EthArrives(b)
  PROVE  Alone' /\ InStep' /\ Meanwhile' /\ AtWork' /\ Prepared'
<1> USE DEF PatientInv, AnyInv
<1>1. CASE Started(b)
  BY <1>1, StartedKeepsPatient
<1>2. CASE ~Started(b)
  <2>1. UnderWay(b)
    BY <1>2 DEF Progress, UnappliedArrives, Executed, Posted, BootFails, Blocks, EthArrives, UnderWay, Over
  <2>2. wallet # None
    BY <2>1 DEF InStep, BootsKnow, UnderWay
  <2>3. UNCHANGED <<wallet, wasLocked, call, polling, server, times, slot>>
    BY <1>2 DEF Progress, UnappliedArrives, Executed, Posted, BootFails, Blocks, EthArrives,
       OtherThanLock, runtime, observer, controllers
  <2>4. CASE MakeControllers(b)
    <3>1. boot' = [boot EXCEPT ![b].at = "starting"] /\ \A n \in Names : current'[n] = b
      BY <2>2, <2>4 DEF MakeControllers, TypeOK, Names
    <3>2. \A a \in Boots : /\ boot'[a].at = IF a = b THEN "starting" ELSE boot[a].at
                           /\ boot'[a].wallet = boot[a].wallet
      BY <3>1 DEF TypeOK, BootStates
    <3>3. QED
      BY <2>1, <2>3, <3>1, <3>2, MovesKeepPatient
  <2>5. CASE ~MakeControllers(b)
    <3>1. current' = current
      BY <1>2, <2>5 DEF Progress, UnappliedArrives, Executed, Posted, BootFails, Blocks, EthArrives,
         OtherThanLock, controllers
    <3>2. PICK at \in {"needsEth", "executing", "posting", "failed", "blocked"} :
            \/ boot' = [boot EXCEPT ![b].at = at]
            \/ \E n : boot' = [boot EXCEPT ![b].at = at, ![b].next = n]
      BY <1>2, <2>5 DEF Progress, UnappliedArrives, Executed, Posted, BootFails, Blocks, EthArrives
    <3>3. \A a \in Boots : /\ boot'[a].at = IF a = b THEN at ELSE boot[a].at
                           /\ boot'[a].wallet = boot[a].wallet
      BY <3>2 DEF TypeOK, BootStates
    <3>4. QED
      BY <2>1, <2>3, <3>1, <3>3, MovesKeepPatient
  <2>6. QED
    BY <2>4, <2>5
<1>3. QED
  BY <1>1, <1>2

LEMMA CrashKeepsPatient ==
  ASSUME PatientInv, Crash
  PROVE  Alone' /\ InStep' /\ Meanwhile' /\ AtWork' /\ Prepared'
<1> USE DEF PatientInv, AnyInv
<1>1. \A b \in Boots : IF UnderWay(b) THEN boot'[b].at = "killed" ELSE boot'[b] = boot[b]
  BY DEF Crash, TypeOK, BootStates
<1>2. \A b \in Boots : ~UnderWay(b)'
  BY <1>1 DEF UnderWay, Over
<1>3. Alone' /\ InStep'
  BY <1>1, <1>2 DEF Alone, InStep, Crash, Pending, UserCalls
<1>4. Meanwhile' /\ AtWork'
  BY DEF Crash, Meanwhile, AtWork, Quiet
<1>5. Prepared'
  BY <1>1, <1>2 DEF Crash, Prepared, UnderWay, Over
<1>6. QED
  BY <1>3, <1>4, <1>5

LEMMA PatientInvInductive == PatientInv /\ [PatientNext]_vars => PatientInv'
<1> SUFFICES ASSUME PatientInv, [PatientNext]_vars PROVE PatientInv'
  OBVIOUS
<1>1. AnyInv'
  BY AnyInvInductive, PatientNextIsNext DEF PatientInv
<1>2. ASSUME UNCHANGED vars \/ DidStoreMnemonic \/ TransactionFails
      PROVE  Alone' /\ InStep' /\ Meanwhile' /\ AtWork' /\ Prepared'
  BY <1>2 DEF vars, DidStoreMnemonic, TransactionFails, OtherThanLock, PatientInv, Alone, InStep, Meanwhile, AtWork, Prepared,
     Quiet, UnderWay, Pending, runtime, observer, controllers
<1>3. ASSUME NEW c \in Calls, Answer(c) \/ Auth(c)
      PROVE  Alone' /\ InStep' /\ Meanwhile' /\ AtWork' /\ Prepared'
  BY <1>3, QuietCallKeepsPatient, WalletCallKeepsPatient, TokenKeepsPatient DEF Answer, Auth
<1>4. ASSUME NEW b \in Boots, Progress(b) \/ EthArrives(b)
      PROVE  Alone' /\ InStep' /\ Meanwhile' /\ AtWork' /\ Prepared'
  BY <1>4, BootStepKeepsPatient
<1>5. ASSUME Crash
      PROVE  Alone' /\ InStep' /\ Meanwhile' /\ AtWork' /\ Prepared'
  BY <1>5, CrashKeepsPatient
<1>6. ASSUME UserWaits /\ MakeWallet /\ wasLocked
      PROVE  Alone' /\ InStep' /\ Meanwhile' /\ AtWork' /\ Prepared'
  BY <1>6, WalletCallKeepsPatient DEF MakeWallet
<1>7. ASSUME UserWaits /\ Unlock /\ wallet = None
      PROVE  Alone' /\ InStep' /\ Meanwhile' /\ AtWork' /\ Prepared'
  BY <1>7, QuietCallKeepsPatient DEF Unlock
<1>8. ASSUME UserWaits /\ LockWallet
      PROVE  Alone' /\ InStep' /\ Meanwhile' /\ AtWork' /\ Prepared'
  BY <1>8, LockKeepsPatient
<1>9. Alone' /\ InStep' /\ Meanwhile' /\ AtWork' /\ Prepared'
  BY <1>2, <1>3, <1>4, <1>5, <1>6, <1>7, <1>8 DEF PatientNext, Worker
<1>10. QED
  BY <1>1, <1>9 DEF PatientInv

LEMMA PatientInvHolds == PatientSpec => []PatientInv
  BY PatientInvInit, PatientInvInductive, PTL DEF PatientSpec

\* Nothing polls and no method answers while the wallet is locked, for a user who
\* waits (worker.ts:200-276, AbstractController.ts:46-52).
THEOREM LockedIsQuiet == PatientSpec => []QuietWhenLocked
<1>1. PatientInv => QuietWhenLocked
  BY DEF PatientInv, AnyInv, NoHandlerOwed, Meanwhile, Quiet, QuietWhenLocked
<1>2. QED
  BY <1>1, PatientInvHolds, PTL

\* The set that polls is the one that answers (worker.ts:256-276).
THEOREM OneSet == PatientSpec => []OneSetAtWork
<1>1. PatientInv => OneSetAtWork
  BY DEF PatientInv, AtWork, OneSetAtWork
<1>2. QED
  BY <1>1, PatientInvHolds, PTL

\* No boot is refused a method (AbstractController.ts:21-44, JsonRpcServer.ts:69-76).
THEOREM NoBootRefused == PatientSpec => []HandlersAddedOnce
<1>1. PatientInv => HandlersAddedOnce
  BY DEF PatientInv, Alone, HandlersAddedOnce
<1>2. QED
  BY <1>1, PatientInvHolds, PTL

\* A boot migrates the wallet in the store (worker.ts:200-255).
THEOREM OwnWallet == PatientSpec => []MigratesOwnWallet
<1>1. PatientInv => MigratesOwnWallet
  BY DEF PatientInv, InStep, MigratesOwnWallet
<1>2. QED
  BY <1>1, PatientInvHolds, PTL

\* A wallet is served after its migrations only (worker.ts:255-270, Migrator.ts:44-94).
THEOREM ServedAfterMigrations == PatientSpec => []ServedWalletIsMigrated
<1>1. PatientInv => ServedWalletIsMigrated
  <2> SUFFICES ASSUME PatientInv, wallet # None, slot["micropayments"] # None
               PROVE  applied[wallet] = NumMigrations
    BY DEF ServedWalletIsMigrated
  <2> DEFINE b == slot["micropayments"]
  <2>1. b \in Boots /\ polling[b]
    BY DEF PatientInv, AnyInv, TypeOK, AtWork, Names
  <2>2. boot[b].at = "up" /\ boot[b].wallet = wallet
    BY <2>1 DEF PatientInv, AtWork
  <2>3. QED
    BY <2>1, <2>2 DEF PatientInv, AnyInv, MigrationsInOrder
<1>2. QED
  BY <1>1, PatientInvHolds, PTL
------------------------------------------------------------------------------
(* The wallet as it is at this commit: ProviderOptions refuses to sign *)

\* No call gets as far as a token, no token is in the store, and no boot begins.
Tokenless == /\ token = None /\ prevToken = None
             /\ \A c \in Calls : call[c].at # "response"
             /\ \A b \in Boots : boot[b].at = "none"

\* A dispatch without a token begins no boot.
LEMMA TokenlessDispatch ==
  ASSUME Tokenless, NEW w, Dispatch(w, None)
  PROVE  token' = None /\ prevToken' = None /\ boot' = boot
  BY DEF Tokenless, Dispatch, Observe, observer

LEMMA TokenlessInductive ==
  ASSUME Signs = FALSE, AnyInv, Tokenless, [Next]_vars
  PROVE  Tokenless'
<1>1. ASSUME NEW c \in Calls, Answer(c) \/ Auth(c) \/ UnlockWallet(c)
      PROVE  Tokenless'
  <2>1. \A d \in Calls : call'[d].at # "response"
    BY <1>1 DEF Answer, Auth, UnlockWallet, Deserialized, WrongPassword, KeyringSerialized,
       WalletSerialized, Authenticate, Sign, TokenArrives, AuthFails, InitAccount, EndCall,
       AnyInv, TypeOK, Tokenless
  <2>2. token' = None /\ prevToken' = None /\ boot' = boot
    <3>1. CASE \E w : Dispatch(w, None)
      BY <3>1, TokenlessDispatch
    <3>2. CASE UNCHANGED <<runtime, observer, boot>>
      BY <3>2 DEF Tokenless, runtime, observer
    <3>3. QED
      BY <1>1, <3>1, <3>2 DEF Answer, Auth, UnlockWallet, Deserialized, WrongPassword,
         KeyringSerialized, WalletSerialized, Authenticate, Sign, TokenArrives, AuthFails,
         InitAccount, Tokenless
  <2>3. QED
    BY <2>1, <2>2 DEF Tokenless
<1>2. ASSUME NEW c \in Calls, NEW w \in Wallets, GenKeyring(c, w) \/ RestoreWallet(c, w)
      PROVE  Tokenless'
  <2>1. \A d \in Calls : call'[d].at # "response"
    <3>1. PICK a \in {"generating", "restoring"} : call' = [call EXCEPT ![c] = [at |-> a, wallet |-> w]]
      BY <1>2 DEF GenKeyring, RestoreWallet
    <3>2. call \in [Calls -> CallStates] /\ \A d \in Calls : call[d].at # "response"
      BY DEF AnyInv, TypeOK, Tokenless
    <3>3. \A d \in Calls : call'[d] = IF d = c THEN [at |-> a, wallet |-> w] ELSE call[d]
      BY <3>1, <3>2
    <3>4. QED
      BY <3>2, <3>3
  <2>2. QED
    BY <1>2, <2>1, TokenlessDispatch DEF GenKeyring, RestoreWallet, Tokenless
<1>3. CASE LockWallet
  BY <1>3, TokenlessDispatch DEF LockWallet, Tokenless
<1>4. CASE DidStoreMnemonic \/ TransactionFails \/ UNCHANGED vars
  BY <1>4 DEF DidStoreMnemonic, TransactionFails, OtherThanLock, vars, runtime, observer, Tokenless
<1>5. ASSUME NEW b \in Boots, Progress(b) \/ EthArrives(b) PROVE FALSE
  BY <1>5 DEF Progress, EthArrives, UnappliedArrives, Executed, Posted, Started, BootFails,
     Blocks, Tokenless
<1>6. CASE Crash
  BY <1>6 DEF Crash, UnderWay, Tokenless
<1>7. QED
  BY <1>1, <1>2, <1>3, <1>4, <1>5, <1>6 DEF Next, Worker, MakeWallet, Unlock

\* While signMessageAlways answers "wallet is disabled" (ProviderOptions.ts:72),
\* the unlock handler never runs (LockStateObserver.ts:37-39, worker.ts:200).
THEOREM DisabledWalletStartsNothing ==
  ASSUME Signs = FALSE
  PROVE  Spec => [](\A b \in Boots : boot[b].at = "none")
<1>1. Init => Tokenless
  BY DEF Init, Tokenless
<1>2. AnyInv /\ Tokenless /\ [Next]_vars => Tokenless'
  BY TokenlessInductive
<1>3. Tokenless => \A b \in Boots : boot[b].at = "none"
  BY DEF Tokenless
<1>4. QED
  BY <1>1, <1>2, <1>3, AnyInvInit, AnyInvInductive, PTL DEF Spec
==============================================================================
