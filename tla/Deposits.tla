------------------------------- MODULE Deposits -------------------------------
(***************************************************************************)
(* worker/controllers/MicropaymentsController.ts with                      *)
(* lib/transactions/DepositTransaction.ts: how deposits are requested,     *)
(* run, and picked up again after a crash or an unlock.                    *)
(*                                                                         *)
(* A session is what the unlock handler of worker.ts creates: controllers  *)
(* with a semaphore and a DepositTransaction of their own.  A crash ends   *)
(* the session and every call in it; locking and unlocking begins a new    *)
(* one while the calls of the old one go on.  The redux store and the      *)
(* ChannelPopulator are shared by the sessions of one worker process.      *)
(*                                                                         *)
(* A run executes one of the two AtomicTransactions of DepositTransaction: *)
(* on behalf of a request (an RPC, or the address balance poller), or of   *)
(* the start() of a session, which is then named after the session.        *)
(***************************************************************************)
EXTENDS Integers, Sequences

CONSTANTS Requests,     \* calls of MicropaymentsController.deposit()
          MaxSessions,  \* bound on the sessions
          Relock,       \* whether the user locks and unlocks the wallet
          Poller,       \* stands for the populate() calls that are not awaited
          Resolved,     \* how a promise is settled
          Rejected,
          None

ASSUME SessionsAssumption == MaxSessions \in Nat \ {0} /\ Relock \in BOOLEAN

Sessions == 1 .. MaxSessions
Runs == Requests \cup Sessions

\* The methodOrder of the two transactions.
Methods == [ new |-> <<"maybeErc20Approve", "openChannel", "awaitChainsaw",
                       "maybeRequestDeposit", "finishTransaction">>,
             existing |-> <<"maybeErc20Approve", "doEthDeposit", "doTokenDeposit",
                            "awaitChainsawBalanceChange", "finishTransaction">> ]
Names == DOMAIN Methods
Last == 5

\* The methods that move funds, or ask the hub to.
Spending == {"openChannel", "maybeRequestDeposit", "doEthDeposit", "doTokenDeposit"}

VARIABLES session,      \* the current session
          boot,         \* boot[s]: how far start() of session s has come
          bootWaits,    \* bootWaits[s]: the holder start() waits for, or its answer
          sem,          \* sem[s]: the request that took the semaphore
          tx,           \* tx[n]: {nextMethodArgs, nextMethodIndex} in the store
          disk,         \* tx as redux-persist last wrote it
          pc,           \* where each run is
          name,         \* the transaction it runs
          at,           \* the request it works for and the index it is at
          home,         \* the session it belongs to
          deferred,     \* deferred[s]: deferredPopulate of its DepositTransaction
          lock,         \* ChannelPopulator.awaiter
          refreshing,   \* a populate() that nobody awaits is under way
          waits,        \* the holder whose promise a run waits for, or its answer
          active,       \* runtime.hasActiveDeposit
          hubChannel,   \* the hub knows a channel of this wallet
          spent,        \* spent[r][m]: how often m took effect for request r
          paid          \* paid[q][r][m]: how often run q made m take effect for r

process == <<pc, name, at, home, waits>>
populator == <<lock, refreshing, deferred>>
vars == <<session, boot, bootWaits, sem, tx, disk, process, populator, active, hubChannel,
          spent, paid>>

Holders == Runs \cup {Poller}
Checkpoints == [job : Requests, index : 1 .. Last]
Counts == [Requests -> [Spending -> Nat]]

ASSUME DistinctAssumption ==
  /\ Requests \cap Sessions = {}
  /\ {None, Poller, Resolved, Rejected} \cap Runs = {}
  /\ None \notin {Poller, Resolved, Rejected} /\ Poller \notin {Resolved, Rejected}
  /\ Resolved # Rejected
  /\ None \notin Names \cup Checkpoints

Ended == {"idle", "refused", "done", "failed", "killed"}
Live(r) == pc[r] \notin Ended

\* r is inside start() or restart() of a deposit transaction.
Depositing(r) == pc[r] \in {"hook", "method", "effect", "finishing", "populating", "finished"}

\* r waits for a promise of the ChannelPopulator.
Waiting(r) == pc[r] \in {"hook", "finishing", "bootyPopulate"}
Answers == {Resolved, Rejected}

Method(r) == Methods[name[r]][at[r].index]

\* A message, a timer or an answer from outside begins a new turn of the event loop:
\* the continuations of promises that are settled have run.
NewTurn == /\ \A r \in Runs : /\ Waiting(r) => waits[r] \notin Answers
                              /\ pc[r] # "finished"
           /\ \A s \in Sessions : bootWaits[s] \notin Answers

Init == /\ session = 1
        /\ boot = [s \in Sessions |-> IF s = 1 THEN "ready" ELSE "none"]
        /\ bootWaits = [s \in Sessions |-> None]
        /\ sem = [s \in Sessions |-> None]
        /\ tx = [n \in Names |-> None]
        /\ disk = tx
        /\ pc = [r \in Runs |-> "idle"]
        /\ name = [r \in Runs |-> None]
        /\ at = [r \in Runs |-> None]
        /\ home = [r \in Runs |-> None]
        /\ deferred = [s \in Sessions |-> None]
        /\ lock = None
        /\ refreshing = FALSE
        /\ waits = [r \in Runs |-> None]
        /\ active = FALSE
        /\ hubChannel \in BOOLEAN
        /\ spent = [r \in Requests |-> [m \in Spending |-> 0]]
        /\ paid = [q \in Runs |-> spent]

------------------------------------------------------------------------------
(* Parts of steps *)

MoveTo(r, where) == pc' = [pc EXCEPT ![r] = where]

\* The call on whose behalf r runs ends: a request leaves the semaphore, the
\* restarted transaction has no caller that waits for it.
EndCall(r, where) == /\ MoveTo(r, where)
                     /\ name' = [name EXCEPT ![r] = None]
                     /\ at' = [at EXCEPT ![r] = None]
                     /\ waits' = [waits EXCEPT ![r] = None]
                     /\ sem' = IF r \in Requests THEN [sem EXCEPT ![home[r]] = None] ELSE sem

\* The promise of holder h is settled: those who wait for it have their answer.
Settle(h, outcome) ==
  /\ waits' = [r \in Runs |-> IF Waiting(r) /\ waits[r] = h THEN outcome ELSE waits[r]]
  /\ bootWaits' = [s \in Sessions |-> IF bootWaits[s] = h THEN outcome ELSE bootWaits[s]]

\* populateDeferred(): waits for the lock, or takes it, whereupon onStart has its
\* holder and doTransaction() begins with what the store says.
AwaitOrHold(r, s, record) ==
  IF lock # None
    THEN /\ waits' = [waits EXCEPT ![r] = lock]
         /\ MoveTo(r, "hook")
         /\ UNCHANGED <<lock, deferred, at>>
    ELSE /\ lock' = r
         /\ deferred' = [deferred EXCEPT ![s] = r]
         /\ at' = [at EXCEPT ![r] = record]
         /\ waits' = [waits EXCEPT ![r] = None]
         /\ MoveTo(r, "method")

\* populate() when nobody holds the lock: it returns without waiting for its
\* refresh.
RefreshInBackground == /\ lock' = Poller
                       /\ refreshing' = TRUE

\* removeState() and afterAll() of r's transaction.
CleanUp(r) == /\ tx' = [tx EXCEPT ![name[r]] = None]
              /\ active' = FALSE
              /\ deferred' = [deferred EXCEPT ![home[r]] = None]

------------------------------------------------------------------------------
(* A request *)

\* Seeded fault: the semaphore is not asked before it is taken.
RequestRegardless(r) ==
  /\ NewTurn
  /\ r \in Requests
  /\ pc[r] = "idle"
  /\ boot[session] = "ready"
  /\ home' = [home EXCEPT ![r] = session]
  /\ MoveTo(r, "choosing")
  /\ sem' = [sem EXCEPT ![session] = r]
  /\ UNCHANGED <<session, boot, bootWaits, tx, disk, name, at, waits, populator, active,
                 hubChannel, spent, paid>>

\* deposit() refuses when the semaphore is taken, else takes it.
Request(r) == /\ NewTurn
              /\ r \in Requests
              /\ pc[r] = "idle"
              /\ boot[session] = "ready"
              /\ home' = [home EXCEPT ![r] = session]
              /\ IF sem[session] # None
                   THEN MoveTo(r, "refused") /\ UNCHANGED sem
                   ELSE MoveTo(r, "choosing") /\ sem' = [sem EXCEPT ![session] = r]
              /\ UNCHANGED <<session, boot, bootWaits, tx, disk, name, at, waits, populator,
                             active, hubChannel, spent, paid>>

\* doDeposit() asks the hub for a channel and starts the transaction for it:
\* the state is recorded, then the hook awaits the ChannelPopulator.
Choose(r) == /\ NewTurn
             /\ pc[r] = "choosing"
             /\ LET n == IF hubChannel THEN "existing" ELSE "new"
                    record == [job |-> r, index |-> 1]
                IN /\ name' = [name EXCEPT ![r] = n]
                   /\ tx' = [tx EXCEPT ![n] = record]
                   /\ AwaitOrHold(r, home[r], record)
             /\ active' = TRUE
             /\ UNCHANGED <<session, boot, bootWaits, sem, disk, home, refreshing, hubChannel,
                            spent, paid>>

ChooseFails(r) == /\ NewTurn
                  /\ pc[r] = "choosing"
                  /\ EndCall(r, "failed")
                  /\ UNCHANGED <<session, boot, bootWaits, tx, disk, home, populator, active,
                                 hubChannel, spent, paid>>

\* After the deposit, a request buys booty and refreshes the channel, unless the
\* hub does not support it.
BuyBooty(r) == /\ pc[r] = "booty"
               /\ \/ /\ NewTurn /\ lock # None
                     /\ MoveTo(r, "bootyPopulate") /\ waits' = [waits EXCEPT ![r] = lock]
                     /\ UNCHANGED <<sem, name, at, lock, refreshing>>
                  \/ NewTurn /\ lock = None /\ RefreshInBackground /\ EndCall(r, "done")
                  \/ EndCall(r, "done") /\ UNCHANGED <<lock, refreshing>>
                  \/ EndCall(r, "failed") /\ UNCHANGED <<lock, refreshing>>
               /\ UNCHANGED <<session, boot, bootWaits, tx, disk, home, deferred, active,
                              hubChannel, spent, paid>>

BootyPopulated(r) == /\ pc[r] = "bootyPopulate"
                     /\ waits[r] \in Answers
                     /\ EndCall(r, IF waits[r] = Resolved THEN "done" ELSE "failed")
                     /\ UNCHANGED <<session, boot, bootWaits, tx, disk, home, populator, active,
                                    hubChannel, spent, paid>>

------------------------------------------------------------------------------
(* A run of a deposit transaction *)

\* The lock came free: look again.  Should the record have gone meanwhile,
\* doTransaction() throws: a request then releases what it holds, a restarted
\* transaction keeps it.
ResumeHook(r) ==
  /\ pc[r] = "hook"
  /\ waits[r] = Resolved
  /\ \/ /\ lock # None \/ tx[name[r]] # None
        /\ AwaitOrHold(r, home[r], tx[name[r]])
        /\ UNCHANGED <<sem, name>>
     \/ /\ lock = None
        /\ tx[name[r]] = None
        /\ EndCall(r, "failed")
        /\ IF r \in Requests
             THEN /\ deferred' = [deferred EXCEPT ![home[r]] = None]
                  /\ UNCHANGED lock
             ELSE /\ deferred' = [deferred EXCEPT ![home[r]] = r]
                  /\ lock' = r
  /\ UNCHANGED <<session, boot, bootWaits, tx, disk, home, refreshing, active, hubChannel,
                 spent, paid>>

\* The refresh waited for failed: the hook rejects, the record and the flag stay,
\* and a request releases whatever its DepositTransaction holds.
HookRejects(r) ==
  /\ pc[r] = "hook"
  /\ waits[r] = Rejected
  /\ EndCall(r, "failed")
  /\ IF r \in Requests /\ deferred[home[r]] # None
       THEN lock' = None /\ deferred' = [deferred EXCEPT ![home[r]] = None]
       ELSE UNCHANGED <<lock, deferred>>
  /\ UNCHANGED <<session, boot, bootWaits, tx, disk, home, refreshing, active, hubChannel,
                 spent, paid>>

\* A method that moves funds takes effect: a channel is opened, ETH or tokens
\* are deposited, collateral is requested.
TakeEffect(r) == /\ pc[r] = "method"
                 /\ Method(r) \in Spending
                 /\ spent' = [spent EXCEPT ![at[r].job][Method(r)] = @ + 1]
                 /\ paid' = [paid EXCEPT ![r][at[r].job][Method(r)] = @ + 1]
                 /\ MoveTo(r, "effect")
                 /\ UNCHANGED <<session, boot, bootWaits, sem, tx, disk, name, at, home, waits,
                                populator, active, hubChannel>>

\* A method resolves and the next index is recorded.  Amounts may be zero and
\* collateral unneeded, but openChannel() always opens; awaitChainsaw() resolves
\* once the hub knows the channel.
NextMethod(r) == /\ \/ pc[r] = "effect"
                    \/ /\ pc[r] = "method"
                       /\ Method(r) \notin {"openChannel", "finishTransaction"}
                       /\ Method(r) = "awaitChainsaw" => hubChannel
                 /\ at' = [at EXCEPT ![r].index = @ + 1]
                 /\ tx' = [tx EXCEPT ![name[r]] = at'[r]]
                 /\ MoveTo(r, "method")
                 /\ UNCHANGED <<session, boot, bootWaits, sem, disk, name, home, waits, populator,
                                active, hubChannel, spent, paid>>

\* finishTransaction() refreshes the channel through the holder of its
\* DepositTransaction, whichever run put it there, or else like anyone.
FinishTransaction(r) ==
  /\ pc[r] = "method"
  /\ Method(r) = "finishTransaction"
  /\ LET holder == deferred[home[r]] IN
       \/ /\ holder # None
          /\ waits' = [waits EXCEPT ![r] = holder]
          /\ MoveTo(r, "populating")
          /\ UNCHANGED <<lock, refreshing>>
       \/ /\ holder = None /\ lock # None
          /\ waits' = [waits EXCEPT ![r] = lock]
          /\ MoveTo(r, "finishing")
          /\ UNCHANGED <<lock, refreshing>>
       \/ /\ holder = None /\ lock = None
          /\ RefreshInBackground
          /\ MoveTo(r, "finished")
          /\ UNCHANGED waits
  /\ UNCHANGED <<session, boot, bootWaits, sem, tx, disk, name, at, home, deferred, active,
                 hubChannel, spent, paid>>

\* Seeded fault: the refresh of a holder settles its promise and keeps the lock.
PopulatedKeepsLock(r) ==
  /\ NewTurn
  /\ pc[r] = "populating"
  /\ \E outcome \in Answers : Settle(waits[r], outcome)
  /\ MoveTo(r, "finished")
  /\ UNCHANGED <<session, boot, sem, tx, disk, name, at, home, populator, active, hubChannel,
                 spent, paid>>

\* The holder's refresh ends: its promise is settled and the lock freed, and
\* its populate() resolves even if the refresh failed.
Populated(r) == /\ NewTurn
                /\ pc[r] = "populating"
                /\ \E outcome \in Answers : Settle(waits[r], outcome)
                /\ lock' = None
                /\ MoveTo(r, "finished")
                /\ UNCHANGED <<session, boot, sem, tx, disk, name, at, home, deferred, refreshing,
                               active, hubChannel, spent, paid>>

\* The refresh of somebody else ends well.
FinishWaited(r) == /\ pc[r] = "finishing"
                   /\ waits[r] = Resolved
                   /\ MoveTo(r, "finished")
                   /\ UNCHANGED <<session, boot, bootWaits, sem, tx, disk, name, at, home, waits,
                                  populator, active, hubChannel, spent, paid>>

\* Seeded fault: afterAll() is not called when a transaction completes.
CompleteKeepsFlag(r) ==
  /\ pc[r] = "finished"
  /\ tx' = [tx EXCEPT ![name[r]] = None]
  /\ IF r \in Requests
       THEN MoveTo(r, "booty") /\ UNCHANGED <<sem, name, at, waits>>
       ELSE EndCall(r, "done")
  /\ UNCHANGED <<session, boot, bootWaits, disk, home, populator, active, hubChannel, spent,
                 paid>>

\* The last method resolved, some turns of the event loop ago: the continuations
\* of those who waited for the lock may have run in between.
Complete(r) == /\ pc[r] = "finished"
               /\ CleanUp(r)
               /\ IF r \in Requests
                    THEN MoveTo(r, "booty") /\ UNCHANGED <<sem, name, at, waits>>
                    ELSE EndCall(r, "done")
               /\ UNCHANGED <<session, boot, bootWaits, disk, home, lock, refreshing, hubChannel,
                              spent, paid>>

\* Seeded fault: a method that throws is tried again.
MethodRetried(r) ==
  /\ pc[r] \in {"method", "effect"}
  /\ MoveTo(r, "method")
  /\ UNCHANGED <<session, boot, bootWaits, sem, tx, disk, name, at, home, waits, populator, active,
                 hubChannel, spent, paid>>

\* A method throws.  afterAll() forgets the holder first, so that the
\* releaseDeferred() of the caller finds nothing to release.
MethodThrows(r) == /\ \/ pc[r] \in {"method", "effect"}
                      \/ pc[r] = "finishing" /\ waits[r] = Rejected
                   /\ CleanUp(r)
                   /\ EndCall(r, "failed")
                   /\ UNCHANGED <<session, boot, bootWaits, disk, home, lock, refreshing,
                                  hubChannel, spent, paid>>

------------------------------------------------------------------------------
(* Sessions *)

\* start() of a session restarts the deposit on record, without waiting for it;
\* the restart of a new channel's deposit has no hook.
RestartDeposit(s) ==
  /\ NewTurn
  /\ boot[s] = "start"
  /\ home' = [home EXCEPT ![s] = s]
  /\ \/ /\ tx["new"] # None
        /\ name' = [name EXCEPT ![s] = "new"]
        /\ at' = [at EXCEPT ![s] = tx["new"]]
        /\ MoveTo(s, "method")
        /\ boot' = [boot EXCEPT ![s] = "booty"]
        /\ UNCHANGED <<populator, waits, active>>
     \/ /\ tx["new"] = None /\ tx["existing"] # None
        /\ name' = [name EXCEPT ![s] = "existing"]
        /\ active' = TRUE
        /\ AwaitOrHold(s, s, tx["existing"])
        /\ boot' = [boot EXCEPT ![s] = "booty"]
        /\ UNCHANGED refreshing
     \/ /\ tx["new"] = None /\ tx["existing"] = None
        /\ boot' = [boot EXCEPT ![s] = "ready"]
        /\ UNCHANGED <<name, at, pc, populator, waits, active>>
  /\ UNCHANGED <<session, bootWaits, sem, tx, disk, hubChannel, spent, paid>>

\* start() goes on to buy booty, which needs a channel and waits for the lock;
\* only then are the handlers registered and the address balance polled.
BootBooty(s) == /\ NewTurn
                /\ boot[s] = "booty"
                /\ \/ /\ hubChannel /\ lock # None
                      /\ boot' = [boot EXCEPT ![s] = "populate"]
                      /\ bootWaits' = [bootWaits EXCEPT ![s] = lock]
                      /\ UNCHANGED <<lock, refreshing>>
                   \/ /\ hubChannel /\ lock = None
                      /\ boot' = [boot EXCEPT ![s] = "ready"]
                      /\ RefreshInBackground
                      /\ UNCHANGED bootWaits
                   \/ /\ boot' = [boot EXCEPT ![s] = "broken"]
                      /\ UNCHANGED <<bootWaits, lock, refreshing>>
                /\ UNCHANGED <<session, sem, tx, disk, process, deferred, active, hubChannel,
                               spent, paid>>

BootPopulated(s) == /\ boot[s] = "populate"
                    /\ bootWaits[s] \in Answers
                    /\ boot' = [boot EXCEPT ![s] = IF bootWaits[s] = Resolved
                                                     THEN "ready" ELSE "broken"]
                    /\ bootWaits' = [bootWaits EXCEPT ![s] = None]
                    /\ UNCHANGED <<session, sem, tx, disk, process, populator, active,
                                   hubChannel, spent, paid>>

NextSession == /\ session < MaxSessions
               /\ session' = session + 1

\* The browser stops the worker: every call dies, the runtime state and the
\* ChannelPopulator start afresh, the transactions are read from disk.
Crash == /\ NextSession
         /\ boot' = [s \in Sessions |-> IF s = session' THEN "start" ELSE "none"]
         /\ bootWaits' = [s \in Sessions |-> None]
         /\ sem' = [s \in Sessions |-> None]
         /\ tx' = disk
         /\ pc' = [r \in Runs |-> IF Live(r) THEN "killed" ELSE pc[r]]
         /\ name' = [r \in Runs |-> None]
         /\ at' = name'
         /\ waits' = name'
         /\ deferred' = [s \in Sessions |-> None]
         /\ lock' = None
         /\ refreshing' = FALSE
         /\ active' = FALSE
         /\ UNCHANGED <<disk, home, hubChannel, spent, paid>>

\* The user locks and unlocks the wallet, perhaps while start() is still under way:
\* new controllers, while the calls of the old ones go on.
LockAndUnlock == /\ NewTurn
                 /\ Relock
                 /\ NextSession
                 /\ boot' = [boot EXCEPT ![session'] = "start"]
                 /\ UNCHANGED <<bootWaits, sem, tx, disk, process, populator, active,
                                hubChannel, spent, paid>>

------------------------------------------------------------------------------
(* The environment *)

\* What is written matters only while the worker may still be killed.
Flush == /\ disk # tx
         /\ session < MaxSessions
         /\ disk' = tx
         /\ UNCHANGED <<session, boot, bootWaits, sem, tx, process, populator, active,
                        hubChannel, spent, paid>>

\* The hub learns of a channel that was opened.
HubSeesChannel == /\ ~hubChannel
                  /\ \E r \in Requests : spent[r]["openChannel"] > 0
                  /\ hubChannel' = TRUE
                  /\ UNCHANGED <<session, boot, bootWaits, sem, tx, disk, process, populator,
                                 active, spent, paid>>

\* The poller of VirtualChannelsController refreshes the channel.
PollerPopulates == /\ lock = None
                   /\ ~refreshing
                   /\ NewTurn
                   /\ RefreshInBackground
                   /\ UNCHANGED <<session, boot, bootWaits, sem, tx, disk, process, deferred, active,
                                  hubChannel, spent, paid>>

\* Seeded fault: the lock is freed and its promise left pending.
PollerSettlesNoOne ==
  /\ NewTurn
  /\ refreshing
  /\ lock' = None
  /\ refreshing' = FALSE
  /\ UNCHANGED <<session, boot, bootWaits, sem, tx, disk, process, deferred, active, hubChannel,
                 spent, paid>>

\* A refresh that nobody awaits ends, for those who waited for the lock too.
PollerSettles == /\ NewTurn
                 /\ refreshing
                 /\ \E outcome \in Answers : Settle(Poller, outcome)
                 /\ lock' = None
                 /\ refreshing' = FALSE
                 /\ UNCHANGED <<session, boot, sem, tx, disk, pc, name, at, home, deferred, active,
                                hubChannel, spent, paid>>

------------------------------------------------------------------------------
Call(r) == \/ Choose(r)
           \/ ChooseFails(r)
           \/ BuyBooty(r)
           \/ BootyPopulated(r)

Transaction(r) == \/ ResumeHook(r)
                  \/ HookRejects(r)
                  \/ TakeEffect(r)
                  \/ NextMethod(r)
                  \/ FinishTransaction(r)
                  \/ Populated(r)
                  \/ FinishWaited(r)
                  \/ Complete(r)
                  \/ MethodThrows(r)

Boot(s) == RestartDeposit(s) \/ BootBooty(s) \/ BootPopulated(s)

Next == \/ \E r \in Runs : Request(r) \/ Call(r) \/ Transaction(r)
        \/ \E s \in Sessions : Boot(s)
        \/ Crash
        \/ LockAndUnlock
        \/ Flush
        \/ HubSeesChannel
        \/ PollerPopulates
        \/ PollerSettles

Spec == Init /\ [][Next]_vars

\* What was begun goes on: the event loop runs continuations, requests and
\* transactions end in a result or an error, and so do refreshes.
Fairness == /\ \A r \in Runs : WF_vars(Call(r)) /\ WF_vars(Transaction(r))
            /\ \A s \in Sessions : WF_vars(Boot(s))
            /\ WF_vars(PollerSettles)

FairSpec == Spec /\ Fairness

------------------------------------------------------------------------------
(* Properties *)

TypeOK == /\ session \in Sessions
          /\ boot \in [Sessions -> {"none", "start", "booty", "populate", "ready", "broken"}]
          /\ bootWaits \in [Sessions -> Holders \cup Answers \cup {None}]
          /\ sem \in [Sessions -> Requests \cup {None}]
          /\ tx \in [Names -> Checkpoints \cup {None}]
          /\ disk \in [Names -> Checkpoints \cup {None}]
          /\ pc \in [Runs -> Ended \cup {"choosing", "hook", "method", "effect", "finishing",
                                         "populating", "finished", "booty", "bootyPopulate"}]
          /\ name \in [Runs -> Names \cup {None}]
          /\ at \in [Runs -> Checkpoints \cup {None}]
          /\ home \in [Runs -> Sessions \cup {None}]
          /\ deferred \in [Sessions -> Runs \cup {None}]
          /\ lock \in Holders \cup {None}
          /\ refreshing \in BOOLEAN
          /\ waits \in [Runs -> Holders \cup Answers \cup {None}]
          /\ active \in BOOLEAN
          /\ hubChannel \in BOOLEAN
          /\ spent \in Counts
          /\ paid \in [Runs -> Counts]

\* A deposit is not begun or resumed while another one is under way
\* (MicropaymentsController.ts:98, DepositTransaction.ts:92).
OneDepositAtATime == \A r, q \in Runs : Depositing(r) /\ Depositing(q) => r = q

\* With crashes alone, funds move again for a request only if a later session took
\* it up again: once per session, wherever the worker is killed
\* (MicropaymentsController.ts:49, AtomicTransaction.ts:121).
RepeatsPerSession ==
  \A r \in Requests : home[r] # None =>
    \A m \in Spending : spent[r][m] <= 1 + session - home[r]

\* Where sessions overlap, a run that waited for the lock goes on with whatever record
\* it finds: it may serve a request of another call, and a request may be served by
\* several runs.  Still, whatever a run pays for is one transaction of one request, and
\* it pays for no step of it twice (AtomicTransaction.ts:121, worker.ts:200).
Serves(q, r, n) ==
  \A p \in Requests, m \in Spending :
    /\ paid[q][p][m] <= 1
    /\ paid[q][p][m] > 0 => p = r /\ \E i \in 1 .. Last : Methods[n][i] = m

RepeatsPerRun ==
  \A q \in Runs : \E r \in Requests \cup {None}, n \in Names : Serves(q, r, n)

\* The lock of the ChannelPopulator is left taken only by a run that failed.
LockLeaksOnlyOnFailure ==
  lock \in Runs => Live(lock) \/ pc[lock] = "failed"

\* The wallet never shows a deposit as active that is not on record.
ActiveIsRecorded == active => \E n \in Names : tx[n] # None

\* Every request ends, unless a failed deposit has left the lock taken.
LockLeaked == lock \in Runs /\ ~Live(lock)

RequestsEnd == \A r \in Requests : Live(r) ~> (~Live(r) \/ LockLeaked)
===============================================================================
