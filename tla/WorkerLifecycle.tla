---------------------------- MODULE WorkerLifecycle ----------------------------
(***************************************************************************)
(* worker.ts, lib/LockStateObserver.ts, AuthController, BackgroundController *)
(* and Migrator: how a wallet is unlocked and authenticated, and how the    *)
(* controllers that move its money are made, started and stopped.           *)
(*                                                                         *)
(* The observer runs the unlock handler when an unlocked wallet gets a      *)
(* token, and the lock handler when the wallet goes.  A run of the unlock   *)
(* handler (a boot) migrates the account, makes a set of controllers and    *)
(* starts it; it holds on to variables that every boot shares, and nothing  *)
(* ends it when the wallet is locked.  A set is named after its boot.  The  *)
(* turns between awaits that wait for no message or timer are one action.   *)
(***************************************************************************)
EXTENDS Naturals

CONSTANTS Wallets,        \* keys
          Calls,          \* RPC calls that may be open at a time
          NumBoots,       \* bound on the runs of the unlock handler
          NumMigrations,  \* migrations the hub knows
          Signs,          \* does ProviderOptions sign?  FALSE at this commit
          None

ASSUME BootsAssumption == NumBoots \in Nat
ASSUME MigrationsAssumption == NumMigrations \in Nat
ASSUME SignsAssumption == Signs \in BOOLEAN
ASSUME NoneAssumption == None \notin Wallets /\ None \notin Nat

VARIABLES wallet, token,        \* runtime.wallet and currentAuthToken: '' or whose it is
          keyring, didInit,     \* persistent
          wasLocked, prevToken, \* locals of LockStateObserver.subscribe
          call,                 \* where each RPC call is, and the wallet it is about
          boot,                 \* where each boot is, its address and next migration
          applied,              \* how many migrations the hub has as applied
          current,              \* the controllers in the variables of install()
          polling,              \* polling[b]: the pollers of set b are started
          server,               \* server[n][b]: controller n of set b has a server
          times,                \* times[n][b]: how often it lists its methods
          slot,                 \* JsonRpcServer.handlers: whose the methods of n are
          leaked                \* nobody will release the lock of ChannelPopulator

runtime     == <<wallet, token>>
persistent  == <<keyring, didInit>>
observer    == <<wasLocked, prevToken>>
controllers == <<current, polling, server, times, slot, leaked>>
vars == <<runtime, persistent, observer, call, boot, applied, controllers>>

Boots == 1 .. NumBoots
Names == {"micropayments", "withdrawal"}    \* the controllers that register methods
Over  == {"up", "failed", "refused", "blocked", "killed"}
UnderWay(b) == boot[b].at \notin Over \cup {"none"}
Idle(c) == call[c].at \in {"idle", "answered"}

Init == /\ wallet = None /\ token = None
        /\ keyring = None /\ didInit = FALSE
        /\ wasLocked = TRUE /\ prevToken = None
        /\ call = [c \in Calls |-> [at |-> "idle", wallet |-> None]]
        /\ boot = [b \in Boots |-> [at |-> "none", wallet |-> None, next |-> 1]]
        /\ applied \in [Wallets -> 0 .. NumMigrations]
        /\ current = [n \in Names |-> None]
        /\ polling = [b \in Boots |-> FALSE]
        /\ server = [n \in Names |-> [b \in Boots |-> FALSE]]
        /\ times = [n \in Names |-> [b \in Boots |-> 0]]
        /\ slot = [n \in Names |-> None]
        /\ leaked = FALSE

------------------------------------------------------------------------------
(* Controllers: AbstractController, JsonRpcServer and the pollers *)

\* unregisterAllHandlers() of controller n of set b: without a server it throws;
\* otherwise it removes its methods, whoever they belong to by now, and throws
\* at one that is not there.
Removes(n, b) == b # None /\ server[n][b] /\ times[n][b] > 0
Quits(n, b) == /\ b # None
               /\ server[n][b]
               /\ times[n][b] = 0 \/ (times[n][b] = 1 /\ slot[n] # None)

\* The controllers whose stop() the lock handler calls: all, unless the first throws.
Stopped == IF Quits("micropayments", current["micropayments"]) THEN Names ELSE {"micropayments"}
StopPollers == polling' = [b \in Boots |-> /\ polling[b]
                                           /\ Stopped = Names => b # current["micropayments"]]

\* Seeded faults: the pollers are not stopped; the withdrawal controller is not.
StopHandlersOnly ==
  /\ slot' = [n \in Names |-> IF n \in Stopped /\ Removes(n, current[n]) THEN None ELSE slot[n]]
  /\ UNCHANGED <<polling, current, server, times, leaked>>
StopAllButWithdrawal ==
  /\ slot' = [n \in Names |-> IF n # "withdrawal" /\ Removes(n, current[n]) THEN None ELSE slot[n]]
  /\ StopPollers
  /\ UNCHANGED <<current, server, times, leaked>>

\* The lock handler: stop() of the four controllers in the variables, in turn.
StopControllers ==
  /\ slot' = [n \in Names |-> IF n \in Stopped /\ Removes(n, current[n]) THEN None ELSE slot[n]]
  /\ StopPollers
  /\ UNCHANGED <<current, server, times, leaked>>

\* Seeded fault: the address is that of the keyring, not of the wallet.
BeginBootOfKeyring(w) ==
  \E b \in Boots :
    /\ boot[b].at = "none"
    /\ \A a \in 1 .. b - 1 : boot[a].at # "none"
    /\ boot' = [boot EXCEPT ![b] = [at |-> "fetching", wallet |-> keyring, next |-> 1]]

\* The unlock handler up to its first await, on behalf of wallet w.
BeginBoot(w) ==
  \E b \in Boots :
    /\ boot[b].at = "none"
    /\ \A a \in 1 .. b - 1 : boot[a].at # "none"
    /\ boot' = [boot EXCEPT ![b] = [at |-> "fetching", wallet |-> w, next |-> 1]]

\* Seeded fault: an observer that does not wait for the token.
ObserveTokenless(w, t) ==
  IF (w = None) = wasLocked
    THEN UNCHANGED <<observer, boot, controllers>>
    ELSE /\ wasLocked' = (w = None)
         /\ prevToken' = t
         /\ IF w = None THEN StopControllers /\ UNCHANGED boot
                        ELSE BeginBoot(w) /\ UNCHANGED controllers

\* The subscriber of LockStateObserver, called after a dispatch that leaves
\* wallet w and token t in the store.
Observe(w, t) ==
  IF \/ (w = None) = wasLocked
     \/ w # None /\ t = prevToken
    THEN UNCHANGED <<observer, boot, controllers>>
    ELSE /\ wasLocked' = (w = None)
         /\ prevToken' = t
         /\ IF w = None THEN StopControllers /\ UNCHANGED boot
                        ELSE BeginBoot(w) /\ UNCHANGED controllers

Dispatch(w, t) == wallet' = w /\ token' = t /\ Observe(w, t)

------------------------------------------------------------------------------
(* What the user does: BackgroundController *)

UserCalls == {"unlocking", "generating", "restoring"}

\* unlockWallet(): awaits the deserialization of the keyring.
UnlockWallet(c) == /\ Idle(c)
                   /\ keyring # None
                   /\ call' = [call EXCEPT ![c] = [at |-> "unlocking", wallet |-> keyring]]
                   /\ UNCHANGED <<runtime, persistent, observer, boot, applied, controllers>>

\* genKeyring() and restoreWallet() set the wallet, then serialize it.
GenKeyring(c, w) == /\ Idle(c)
                    /\ Dispatch(w, None)
                    /\ call' = [call EXCEPT ![c] = [at |-> "generating", wallet |-> w]]
                    /\ UNCHANGED <<persistent, applied>>
RestoreWallet(c, w) == /\ Idle(c)
                       /\ Dispatch(w, None)
                       /\ call' = [call EXCEPT ![c] = [at |-> "restoring", wallet |-> w]]
                       /\ UNCHANGED <<persistent, applied>>

\* The mnemonic, which genKeyring() answered, has been written down.
DidStoreMnemonic == /\ didInit' = TRUE
                    /\ UNCHANGED <<runtime, keyring, observer, call, boot, applied, controllers>>

\* Seeded fault: the token survives the lock.
LockKeepsToken == /\ Dispatch(None, token)
                  /\ UNCHANGED <<persistent, call, applied>>

LockWallet == /\ Dispatch(None, None)
              /\ UNCHANGED <<persistent, call, applied>>

EndCall(c) == call' = [call EXCEPT ![c] = [at |-> "idle", wallet |-> None]]

\* The wallet deserialized is put into the store, whatever happened meanwhile.
Deserialized(c) == /\ call[c].at = "unlocking"
                   /\ Dispatch(call[c].wallet, None)
                   /\ EndCall(c)
                   /\ UNCHANGED <<persistent, applied>>
WrongPassword(c) == /\ call[c].at = "unlocking"
                    /\ EndCall(c)
                    /\ UNCHANGED <<runtime, persistent, observer, boot, applied, controllers>>

KeyringSerialized(c) == /\ call[c].at = "generating"
                        /\ keyring' = call[c].wallet
                        /\ EndCall(c)
                        /\ UNCHANGED <<runtime, didInit, observer, boot, applied, controllers>>

\* The action restoreWallet sets the wallet again, and keeps the token.
WalletSerialized(c) == /\ call[c].at = "restoring"
                       /\ Dispatch(call[c].wallet, token)
                       /\ keyring' = call[c].wallet
                       /\ didInit' = TRUE
                       /\ EndCall(c)
                       /\ UNCHANGED applied

------------------------------------------------------------------------------
(* What pages ask for: AuthController, ProviderOptions *)

\* authenticate(): awaitUnlock tests a promise where it means a Boolean, so a
\* call that finds the wallet locked waits for ever.
Authenticate(c) ==
  /\ Idle(c)
  /\ call' = [call EXCEPT ![c] =
                IF wallet = None \/ ~didInit THEN [at |-> "waiting", wallet |-> None]
                                             ELSE [at |-> "challenge", wallet |-> wallet]]
  /\ UNCHANGED <<runtime, persistent, observer, boot, applied, controllers>>

\* The challenge is signed by the wallet there is now and sent with the address
\* there was; the hub refuses the signature of another wallet.
Sign(c) == /\ call[c].at = "challenge"
           /\ IF Signs /\ wallet = call[c].wallet
                THEN call' = [call EXCEPT ![c].at = "response"]
                ELSE EndCall(c)
           /\ UNCHANGED <<runtime, persistent, observer, boot, applied, controllers>>

TokenArrives(c) == /\ call[c].at = "response"
                   /\ Dispatch(wallet, call[c].wallet)
                   /\ EndCall(c)
                   /\ UNCHANGED <<persistent, applied>>

AuthFails(c) == /\ call[c].at \in {"challenge", "response"}
                /\ EndCall(c)
                /\ UNCHANGED <<runtime, persistent, observer, boot, applied, controllers>>

\* initAccount: the handler is awaitUnlock, which returns nothing to wait for,
\* so the call is answered in the same turn.
InitAccount(c) == /\ Idle(c)
                  /\ call' = [call EXCEPT ![c] = [at |-> "answered", wallet |-> wallet]]
                  /\ UNCHANGED <<runtime, persistent, observer, boot, applied, controllers>>

------------------------------------------------------------------------------
(* A boot: the unlock handler after its first await, and Migrator.catchUp *)

\* Seeded fault: the controllers of this boot are not the ones in use.
MakeControllersApart(b) ==
  /\ boot' = [boot EXCEPT ![b].at = IF wallet = None THEN "failed" ELSE "starting"]
  /\ current' = [current EXCEPT
        !["withdrawal"] = IF wallet = None \/ @ # None THEN @ ELSE b,
        !["micropayments"] = b]

\* The constructors; that of WithdrawalController throws if the wallet has gone.
MakeControllers(b) ==
  /\ boot' = [boot EXCEPT ![b].at = IF wallet = None THEN "failed" ELSE "starting"]
  /\ current' = [current EXCEPT
        !["micropayments"] = b,
        !["withdrawal"] = IF wallet = None THEN @ ELSE b]

\* The hub's list of migrations, and the balance of the account: without ether
\* the boot polls for it, lock or no lock.
UnappliedArrives(b) ==
  /\ boot[b].at = "fetching"
  /\ LET done == applied[boot[b].wallet]
     IN \/ /\ done = NumMigrations
           /\ MakeControllers(b)
        \/ /\ done < NumMigrations
           /\ \E a \in {"needsEth", "executing"} :
                boot' = [boot EXCEPT ![b].at = a, ![b].next = done + 1]
           /\ UNCHANGED current
  /\ UNCHANGED <<runtime, persistent, observer, call, applied, polling, server, times, slot, leaked>>

EthArrives(b) == /\ boot[b].at = "needsEth"
                 /\ boot' = [boot EXCEPT ![b].at = "executing"]
                 /\ UNCHANGED <<runtime, persistent, observer, call, applied, controllers>>

\* Seeded fault: the migration is posted with the last one only.
ExecutedUnposted(b) ==
  /\ boot[b].at = "executing"
  /\ boot' = IF boot[b].next < NumMigrations
               THEN [boot EXCEPT ![b].next = @ + 1]
               ELSE [boot EXCEPT ![b].at = "posting"]
  /\ UNCHANGED <<runtime, persistent, observer, call, applied, controllers>>

\* execute() of a migration resolved; the hub is told.
Executed(b) == /\ boot[b].at = "executing"
               /\ boot' = [boot EXCEPT ![b].at = "posting"]
               /\ UNCHANGED <<runtime, persistent, observer, call, applied, controllers>>

\* Seeded faults: the loop runs past the end, ends one early, does not move on.
PostedPastEnd(b) ==
  /\ boot[b].at = "posting"
  /\ applied' = [applied EXCEPT ![boot[b].wallet] =
                   IF @ < boot[b].next THEN boot[b].next ELSE @]
  /\ \/ /\ boot[b].next <= NumMigrations
        /\ boot' = [boot EXCEPT ![b].at = "executing", ![b].next = @ + 1]
        /\ UNCHANGED current
     \/ /\ boot[b].next > NumMigrations
        /\ MakeControllers(b)
  /\ UNCHANGED <<runtime, persistent, observer, call, polling, server, times, slot, leaked>>
PostedEndsEarly(b) ==
  /\ boot[b].at = "posting"
  /\ applied' = [applied EXCEPT ![boot[b].wallet] =
                   IF @ < boot[b].next THEN boot[b].next ELSE @]
  /\ \/ /\ boot[b].next + 1 < NumMigrations
        /\ boot' = [boot EXCEPT ![b].at = "executing", ![b].next = @ + 1]
        /\ UNCHANGED current
     \/ /\ boot[b].next + 1 >= NumMigrations
        /\ MakeControllers(b)
  /\ UNCHANGED <<runtime, persistent, observer, call, polling, server, times, slot, leaked>>
PostedAgain(b) ==
  /\ boot[b].at = "posting"
  /\ applied' = [applied EXCEPT ![boot[b].wallet] =
                   IF @ < boot[b].next THEN boot[b].next ELSE @]
  /\ boot' = [boot EXCEPT ![b].at = "executing"]
  /\ UNCHANGED <<runtime, persistent, observer, call, controllers>>

\* The hub knows; on to the next migration of the list, or to the controllers.
Posted(b) ==
  /\ boot[b].at = "posting"
  /\ applied' = [applied EXCEPT ![boot[b].wallet] =
                   IF @ < boot[b].next THEN boot[b].next ELSE @]
  /\ \/ /\ boot[b].next < NumMigrations
        /\ boot' = [boot EXCEPT ![b].at = "executing", ![b].next = @ + 1]
        /\ UNCHANGED current
     \/ /\ boot[b].next = NumMigrations
        /\ MakeControllers(b)
  /\ UNCHANGED <<runtime, persistent, observer, call, polling, server, times, slot, leaked>>

\* micropaymentsController.start() resolved.  The rest works on whatever the
\* variables hold by now: the pollers are started, and the methods registered,
\* up to the first that somebody has registered already.
Registering == IF slot["micropayments"] = None THEN Names ELSE {"micropayments"}
Added == {n \in Registering : slot[n] = None}
Started(b) ==
  /\ boot[b].at = "starting"
  /\ polling' = [a \in Boots |-> polling[a] \/ a = current["micropayments"]]
  /\ server' = [n \in Names |-> [a \in Boots |->
                  server[n][a] \/ (n \in Registering /\ a = current[n])]]
  /\ times' = [n \in Names |-> [a \in Boots |->
                  IF n \in Added /\ a = current[n] THEN times[n][a] + 1 ELSE times[n][a]]]
  /\ slot' = [n \in Names |-> IF n \in Added THEN current[n] ELSE slot[n]]
  /\ boot' = [boot EXCEPT ![b].at = IF Added = Names THEN "up" ELSE "refused"]
  /\ UNCHANGED <<runtime, persistent, observer, call, applied, current, leaked>>

OtherThanLock == <<runtime, persistent, observer, call, applied, current, polling, server, times, slot>>

\* A request of the boot fails, or a migration, or start().  A transaction of a
\* migration that throws may keep the lock that all refreshes share: afterAll forgets
\* the holder before releaseDeferred() looks for it.
BootFails(b) == /\ boot[b].at \in {"fetching", "executing", "posting", "starting"}
                /\ boot' = [boot EXCEPT ![b].at = "failed"]
                /\ leaked' \in {leaked, leaked \/ boot[b].at = "executing"}
                /\ UNCHANGED OtherThanLock

\* So may a deposit or withdrawal of controllers that have been made: of a poller, of a
\* page, or resumed by start().
TransactionFails == /\ current["micropayments"] # None
                    /\ ~leaked
                    /\ leaked' = TRUE
                    /\ UNCHANGED <<boot, OtherThanLock>>

\* populate() and populateDeferred(), of start() or of a migration, wait for the lock
\* for ever.
Blocks(b) == /\ boot[b].at \in {"executing", "starting"}
             /\ leaked
             /\ boot' = [boot EXCEPT ![b].at = "blocked"]
             /\ UNCHANGED <<runtime, persistent, observer, call, applied, controllers>>

\* The browser stops the worker; the next one begins locked.
Crash ==
  /\ wallet' = None /\ token' = None
  /\ wasLocked' = TRUE /\ prevToken' = None
  /\ call' = [c \in Calls |-> [at |-> "idle", wallet |-> None]]
  /\ boot' = [b \in Boots |-> IF UnderWay(b) THEN [boot[b] EXCEPT !.at = "killed"] ELSE boot[b]]
  /\ current' = [n \in Names |-> None]
  /\ polling' = [b \in Boots |-> FALSE]
  /\ server' = [n \in Names |-> [b \in Boots |-> FALSE]]
  /\ times' = [n \in Names |-> [b \in Boots |-> 0]]
  /\ slot' = [n \in Names |-> None]
  /\ leaked' = FALSE
  /\ UNCHANGED <<persistent, applied>>

------------------------------------------------------------------------------
(* Specifications *)

Answer(c) == Deserialized(c) \/ WrongPassword(c) \/ KeyringSerialized(c) \/ WalletSerialized(c)
Auth(c) == Authenticate(c) \/ Sign(c) \/ TokenArrives(c) \/ AuthFails(c) \/ InitAccount(c)
Progress(b) == \/ UnappliedArrives(b) \/ Executed(b) \/ Posted(b) \/ Started(b)
               \/ BootFails(b) \/ Blocks(b)
Worker == \/ \E c \in Calls : Answer(c) \/ Auth(c)
          \/ \E b \in Boots : Progress(b) \/ EthArrives(b)
          \/ TransactionFails
          \/ Crash

MakeWallet == \E c \in Calls, w \in Wallets : GenKeyring(c, w) \/ RestoreWallet(c, w)
Unlock == \E c \in Calls : UnlockWallet(c)

\* Any RPC call at any time.
Next == Worker \/ MakeWallet \/ Unlock \/ DidStoreMnemonic \/ LockWallet
Spec == Init /\ [][Next]_vars

\* A user who waits for one thing to end before the next, and is offered what
\* the frame offers: to unlock a locked wallet, to make one before anything runs.
UserWaits == /\ \A c \in Calls : call[c].at \notin UserCalls
             /\ \A b \in Boots : ~UnderWay(b)
PatientNext == \/ Worker
               \/ UserWaits /\ \/ MakeWallet /\ wasLocked
                               \/ Unlock /\ wallet = None
                               \/ DidStoreMnemonic
                               \/ LockWallet
PatientSpec == Init /\ [][PatientNext]_vars

\* The requests of a boot end, one way or another; what waits for a lock that nobody
\* will release does not.
FairSpec == Spec /\ \A b \in Boots : WF_vars(Progress(b))

------------------------------------------------------------------------------
(* Properties *)

CallStates == [at : {"idle", "answered", "waiting", "challenge", "response"} \cup UserCalls,
               wallet : Wallets \cup {None}]
BootStates == [at : Over \cup {"none", "fetching", "needsEth", "executing", "posting", "starting"},
               wallet : Wallets \cup {None},
               next : 1 .. NumMigrations + 1]

\* The types of the state.
TypeOK ==
  /\ wallet \in Wallets \cup {None} /\ token \in Wallets \cup {None}
  /\ keyring \in Wallets \cup {None} /\ didInit \in BOOLEAN
  /\ wasLocked \in BOOLEAN /\ prevToken \in Wallets \cup {None}
  /\ call \in [Calls -> CallStates] /\ boot \in [Boots -> BootStates]
  /\ applied \in [Wallets -> 0 .. NumMigrations]
  /\ current \in [Names -> Boots \cup {None}]
  /\ polling \in [Boots -> BOOLEAN]
  /\ server \in [Names -> [Boots -> BOOLEAN]]
  /\ times \in [Names -> [Boots -> Nat]]
  /\ slot \in [Names -> Boots \cup {None}]
  /\ leaked \in BOOLEAN

\* No handler is owed: the observer has dealt with every wallet that has a token
\* and every lock, so that no other dispatch can set off a handler late.
NoHandlerOwed == /\ wallet = None => wasLocked
                 /\ wallet # None /\ token # None => ~wasLocked
                 /\ wasLocked => prevToken = None

\* A boot begins only when a wallet and a token come together: not for a wallet
\* that nobody authenticated, and not again for one that is in use.
BootsOnArrival ==
  [][\A b \in Boots : boot[b].at = "none" /\ boot'[b].at # "none"
        => /\ wallet' # None /\ token' # None
           /\ wallet = None \/ token = None]_vars

\* Migrations are executed in the order of the hub, each after the hub has
\* recorded the ones before; controllers are made only after the last.
MigrationsInOrder ==
  \A b \in Boots :
    /\ boot[b].at \in {"needsEth", "executing", "posting"} => boot[b].next <= applied[boot[b].wallet] + 1
    /\ boot[b].at \in {"starting", "up"} => applied[boot[b].wallet] = NumMigrations

\* With a patient user nothing polls and no method answers while the wallet is
\* locked, although the lock handler may have thrown half-way.
QuietWhenLocked == wallet = None => /\ \A b \in Boots : ~polling[b]
                                    /\ \A n \in Names : slot[n] = None

\* With a patient user one set of controllers is at work, and the methods belong to it.
OneSetAtWork == \A b \in Boots : polling[b] => \A n \in Names : slot[n] = b

\* With a patient user a boot migrates the wallet that is in the store.
MigratesOwnWallet == \A b \in Boots : UnderWay(b) => wallet = boot[b].wallet

\* With a patient user the methods of the controllers serve a wallet whose
\* account has been migrated.
ServedWalletIsMigrated ==
  wallet # None /\ slot["micropayments"] # None => applied[wallet] = NumMigrations

\* An authenticated wallet is served, unless it is locked again, or its boot failed,
\* waits for ether, or waits for the lock of refreshes because a deposit, withdrawal or
\* migration that threw in this worker has left it to nobody.
Stuck == \E b \in Boots : /\ boot[b].at \in {"failed", "refused", "needsEth", "blocked"}
                          /\ \A a \in Boots : a > b => boot[a].at = "none"
AuthenticatedIsServed ==
  wallet # None /\ token # None ~>
    wallet = None \/ token = None \/ slot["micropayments"] # None \/ Stuck

\* With a patient user nobody adds a handler twice, which JsonRpcServer.addHandler
\* throws at, although a lock handler that threw has left handlers to remove.
HandlersAddedOnce == \A b \in Boots : boot[b].at # "refused"

\* What README.md promises of initAccount: it resolves when the wallet is unlocked.
InitAccountMeansUnlocked == \A c \in Calls : call[c].at = "answered" => call[c].wallet # None
===============================================================================
