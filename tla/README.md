# Vynos, the SpankChain wallet: verification project

Vynos is a wallet that runs in a service worker. A web page loads an iframe
(the *frame*), which talks to the *worker* over JSON-RPC messages; the worker
keeps an Ethereum key, opens a payment channel with a hub, deposits into it,
buys from it and withdraws from it. A browser may stop a service worker at any
time, so whatever takes several steps is recorded in a redux store that
redux-persist writes to IndexedDB, and is resumed from there.

## 1. Inventory

Sources are under `src/vynos`.

| Component | State it keeps | Operations | Talks to |
| --- | --- | --- | --- |
| AtomicTransaction (`lib/transactions/AtomicTransaction.ts`) | one record `{nextMethodIndex, nextMethodArgs}` per name, in the persisted store | `start`, `restart`, `isInProgress` | its owner's hooks and methods |
| ChannelPopulator (`lib/ChannelPopulator.ts`, `lib/connext/getChannels.ts`) | the promise `awaiter`, which is a lock; writes `runtime.channel` | `populate`, `populateDeferred` and the holder's `populate` and `release` | hub; used by every component that changes the channel |
| Deposits (`lib/transactions/DepositTransaction.ts`, `worker/controllers/MicropaymentsController.ts`, `lib/takeSem.ts`) | semaphore, `awaiter`, `deferredPopulate`, two AtomicTransactions, `hasActiveDeposit` | `deposit`, `start` (restart at unlock), `maybeCollateralize` | AtomicTransaction, ChannelPopulator, hub, chain |
| Withdrawals (`CloseChannelTransaction.ts`, `WithdrawalController.ts`) | `closeAndReopenTx`, `withdrawal`, `deferredPopulate`, `hasActiveWithdrawal` | `sendEntireBalance`, `execute`, restart | AtomicTransaction, ChannelPopulator, hub |
| Purchases (`BuyTransaction.ts`, `closeAllVCs.ts`) | its AtomicTransaction, virtual channels in `runtime.channel` | `startTransaction`, `restartTransaction` | hub, Connext |
| Exchange (`BuyBootyTransaction.ts`, `Exchange.ts`, `ExchangeTransaction.ts`) | AtomicTransactions | swap in both directions | hub, ChannelPopulator |
| Booty disbursement and migrations (`RequestBootyTransaction.ts`, `migrations/`) | AtomicTransactions, `migrationState` | `catchUp` | hub's list of executed migrations |
| Address balance (`AddressBalanceController.ts`) | `addressBalances`, `moreEthNeeded` | polls, deposits what it finds | Deposits |
| Pollers (`lib/poller/`, `HubController.ts`) | timer, `started` flag | `start`, `stop` | controllers |
| Worker lifecycle (`worker.ts`, `lib/LockStateObserver.ts`, `AbstractController.ts`) | lock state, lists of handlers, the current controllers | unlock handler, lock handler, `Status`, `Reset` | everything in the worker |
| Wallet and authentication (`BackgroundController.ts`, `AuthController.ts`, ...) | `runtime.wallet`, `persistent.keyring`, token | generate, restore, lock, unlock, authenticate | hub, store |
| Messaging (`lib/messaging/`, `lib/rpc/`) | calls under way, handlers, listeners | call, timeout, answer, pass on, broadcast | page, frame, worker |
| Start-up handshake (`inpage/`, `frame.ts`, `frame/WorkerProxy.ts`) | readiness, display of the iframe | registration, status polling, Ready broadcast | messaging |
| Redux state (`worker/WorkerState.ts`, `worker/actions.ts`, `frame/redux/`, `RemoteStoreUpdater.ts`) | the store of the worker, its mirrors in frame and page | reducers, `buildSharedState`, broadcast, fetch | messaging |
| Wallet frame UI (`frame/pages/`) | router, state of the components | what the user does on the pages | the worker, by calls |
| Currency, web3 provider, build | values | conversion, I/O | |

### Interactions

The unlock handler of `worker.ts` runs the migrations, makes new controllers and
starts them; they share the store and the ChannelPopulator, which the worker
makes once. A deposit takes the semaphore of its MicropaymentsController, asks
the hub for a channel, records itself through an AtomicTransaction, takes the
lock of the ChannelPopulator in its hook, runs its methods, refreshes the
channel through the holder of the lock and then buys booty. `start()` of the
next session finds the record and restarts it.

### What is hard

* Everything asynchronous interleaves at every `await`. The semaphore, the
  `awaiter` of DepositTransaction and the promise of the ChannelPopulator are the
  only mutual exclusion, and the first two are not held by a restarted deposit.
* The worker may be killed between a step's effect and its record, and before
  the record reaches the disk.
* Locking and unlocking replaces the controllers while their calls go on.
* The lock of the ChannelPopulator is handed from hook to last step, and must be
  given back on each of the ways a deposit can end.
* The hub's answers arrive late, in any order, or not at all.

### What makes each component correct

* AtomicTransaction: steps take effect in order; a step is repeated only across a
  crash; a call that resolves did its job; the record is neither lost nor moved
  back while a job is under way; a recorded job ends.
* ChannelPopulator: one refresh at a time; nothing older replaces what is shown;
  the two requests of a refresh are not torn backwards; nobody waits in vain.
* Deposits: one at a time; after a crash funds move again only for what was recorded;
  the lock is given back; the flag of the wallet tells the truth; requests end.
* Withdrawals, purchases and exchanges: a purchase that is repeated is paid once; a
  purchase that resolves was charged; a swap stays within what there is; a channel is
  closed only when it has been emptied; the semaphore and the lock are given back;
  every operation ends.
* Worker lifecycle: handlers run in order; a locked wallet has no controller at
  work; a handler belongs to the current controllers.
* Messaging and handshake: an answer says what the worker did, at most once and not
  after the timeout; page and frame learn that the worker is ready.
* Redux state: the mirrors show what the worker is in once they have heard everything.
* Frame UI: the words that the user wrote down are those of the keyring that is stored;
  a failure is shown only when nothing is under way; the history is shown whole.
* Pollers and address balance: a failure or a stop in the middle of a callback neither
  ends nor starves the loop.

## 2. Plan

The modules, in the order they were written:

| Module | Composes | Abstract specification |
| --- | --- | --- |
| `AtomicTransaction` | | `AtLeastOnce`, by `KeepsContract` |
| `ChannelPopulator` | | |
| `Deposits` | semaphore, DepositTransaction, two AtomicTransactions, the lock of the ChannelPopulator | |
| `WorkerLifecycle` | observer, handlers, wallet, authentication, migrator | |
| `ChannelLedger` | hub and store as the operations on money share them | |
| `Purchases`, `BootySwap`, `Withdrawals` | each over `ChannelLedger` | |
| `Payments` | the three of them | |
| `Messaging` | clients, servers, pass-through | `CallContract`, by `AnswersTellTheTruth` |
| `Handshake` | | |
| `WorkerStore`, `StateSync` | reducers; their mirrors | |
| `WalletPages` | over `StateSync` | |
| `SendForm`, `Pollers`, `ActivityList` | | |
| `Frame` | `Messaging` to `ActivityList`, as alternatives | |

`MC...` modules give constants their values; `...Proofs` modules hold theorems.

What is left: what each migration executes, over the modules of its transaction
(RequestBootyTransaction among them); the number and the pauses of the tries of
`withRetries`.

## 3. Modules and runs

### AtomicTransaction

One action is the code between two awaits. `store` and `disk` are the record in
memory and as redux-persist last wrote it, `pc[c]` the await a call is at, `at[c]`
the local arguments and index of `doTransaction`, `effects[j][s]` how often step `s` of job
`j` happened outside the worker. `Start`, `Restart` are the two entry points;
`DoTransaction` and `HookRejects` the two outcomes of a hook; `TakeEffect`,
`NextMethod`, `Complete` and `MethodThrows` the life of a method; `Flush` is
redux-persist, `Crash` the browser. Arguments are abstracted to the job they come
from, which is what tells two runs apart.

`Spec` lets calls overlap as they please, which is what the class permits and
what the code does after a restart. `SerialSpec` lets one call live at a time,
which is what the callers' guards are for. `AtLeastOnce` says what a caller may
rely on: order, and at most one effect per step and session.

| Run | Specification and bounds | Shows |
| --- | --- | --- |
| `atomic_overlap` | `Spec`, two jobs, one restarter, two methods | steps in order; a resolved call did its job |
| `atomic_serial` | `FairSerialSpec`, three methods, two crashes | repeats only after a crash; the record is the run and is not forgotten; `AtLeastOnce` is implemented; a recorded transaction ends |

Two methods suffice for an overlap to write a stale index; three are needed for a
middle method. Two crashes let a repeated step be repeated. Without one call at a time,
`RepeatOnlyAfterCrash` does not hold: two calls on one record both run its next
step, which is what module `Deposits` shows to happen.

Fairness of `FairSerialSpec`: methods end; a call whose await is over is resumed;
the owner restarts what is in progress (`start()` of the controllers does, at every
unlock); a hook tried for ever resolves once (strong fairness: an outage of the hub
ends). Nothing is assumed of `Flush`, `Crash` or the start of jobs.

### ChannelPopulator

`awaiter` is the promise in the class, `promise[c]` the state of the one that call
`c` made, `waits[c]` the one it awaits. `fetch[c]` follows `doPopulate` and `getChannels`
through the two requests, `ledger[c]` is the ledger channel read by the first. The hub's
channel is a version number; `channel` holds the versions of the ledger and the
virtual channels in `runtime.channel`. A holder populates, releases, or is dropped,
as its three users do. `wallet` may disappear at any time, on which `doPopulate` has
nothing to do and `getChannels` throws.

| Run | Bounds | Shows |
| --- | --- | --- |
| `populator` | two deferred and two plain calls, two changes at the hub, fair | `OneAtATime`, `WaitersAreServed`, `ChannelNeverGoesBack`, `WaitersReturn` |

Two calls of each kind let a waiter, woken, find the lock taken again. Both
properties about waiting except holders that were released or dropped: `release()`
leaves its promise pending, and a dropped holder keeps the lock. Fairness: requests
to the hub end in an answer or an error, settled promises run their continuations,
and a holder's owner ends.

### Deposits

A session is the life of a set of controllers. A run (`Runs`) is an AtomicTransaction of
DepositTransaction on behalf of a request or of `start()` of a session. `sem[s]` is the
semaphore, `deferred[s]` is `deferredPopulate`, `lock` and `refreshing` the ChannelPopulator,
`tx` and `disk` the records of the two transactions, `spent` counts the effects of the
methods that move funds by the request they were for, `paid` also by the run that made them. The methods are the source's own lists. A semaphore that is
available is taken in the same turn, so a request never queues. `awaiter` of
DepositTransaction can only be set during a request that holds the semaphore, or for
the moment in which `restartTransaction` runs, so its guard never refuses anybody who
got that far; it has no variable.

`Populated` and `Complete` are separate: the promise of the lock is settled before the
microtasks of `finishTransaction` and `doTransaction` run, and those who waited may be
resumed in between. `MethodThrows` is followed by the release in the caller, which finds
no holder: `afterAll` has forgotten it. `RestartDeposit` runs the restart beside
`start()`, whose next step `BootBooty` does not wait for it.

| Run | Bounds | Shows |
| --- | --- | --- |
| `deposits_one_session` | three requests, one session, fair | without a restart, one deposit at a time, and every request ends unless a failed deposit has leaked the lock |
| `deposits_restart` | two requests, two sessions, a crash between | the lock is left taken only by a run that failed; an active deposit is on record; a method that moves funds takes effect once per session at most |
| `deposits_relock` | two requests, two sessions, the second begun by a crash or by an unlock | with sessions side by side, what a run pays for is one transaction of one request, and no step of it twice |
| `deposits_overlap` | as `deposits_restart` | expected to fail: see below |

`Poller` merges the refreshes that nobody awaits into one. `NewTurn` guards what a
message, a timer or an answer from outside begins: the continuations of promises that are
settled come first. Without it a run that waits for the lock could be overtaken for ever,
and by calls that begin later. Methods may end without an answer from outside (an amount of
zero), so their steps do not wait for a turn. Two requests and two sessions are what an
overlap needs, the third request of `deposits_one_session` finds the semaphore used
and left. A first session begins ready, without a record. `Flush` acts only while a
crash is still to come.

`RepeatsPerSession` is about crashes alone (`Relock = FALSE`). When the wallet is locked and
unlocked during deposits, or during a `start()`, the runs of several sessions share one record: a request that waits
for the lock has its record overwritten, and goes on with whatever record it finds, that is
with the index and the arguments of another request. With three sessions funds
then move more often for a request than there were sessions since, and two runs may each
pay once for one request, which nothing in the code prevents. What remains true is
`RepeatsPerRun`, which looks at each run alone: all the steps it pays for belong to one
transaction of one request, and it pays for none twice.

**A disagreement with the code's own guards.** `restartTransaction` passes
`() => { this.deposit.restart() }` to `takeSem`: the braces drop the promise. The semaphore
is left at once, and a deposit requested after a crash starts beside the restarted
one, though MicropaymentsController means to refuse it ("Another operation is in
progress") and so does DepositTransaction ("A deposit is already in process"). The
counterexample of `deposits_overlap`: a deposit is recorded and written, the worker is
killed, the next session restarts it, and a request is accepted.

Properties that fail in the model without a text that promises them are listed as
hazards, with the property restricted to what does hold: a failed deposit leaks the
lock (`LockLeaksOnlyOnFailure`), a release strands waiters (`WaitersAreServed`). The leak has
consequences in other modules, which follow it: a boot that needs the lock is "blocked" in
`WorkerLifecycle`, a poll that deposits is "waiting" in `Pollers`, and `Payments` has `LockLeaked`.

### WorkerLifecycle

`wallet` and `token` are `runtime.wallet` and `currentAuthToken`; a token is abstracted to
the wallet whose it is. `wasLocked` and `prevToken` are the locals of the subscriber of
LockStateObserver, which `Dispatch` runs after every dispatch that touches the wallet or
the token, in the same step, as redux does. `call[c]` is the await an RPC call is at: the user's
(unlock, generate, restore) and the pages' (authenticate, initAccount).

`boot[b]` is one run of the unlock handler: fetching the list of the hub, waiting for
ether, executing or posting a migration, starting the controllers. A boot makes a set of
controllers, named after it: `current[n]` is the set whose controller `n` is in the variable
of `worker.ts`, `polling[b]` whether the pollers of set `b` run, `slot[n]` whose methods
the JSON-RPC server answers with, `server` and `times` the fields of AbstractController
(whether a server is known, how often the methods are listed). `leaked` says that a transaction that threw in this worker, of a migration (`BootFails`) or of
controllers that have been made (`TransactionFails`), has left the lock of the ChannelPopulator
to nobody; the lock is made once per worker and shared by all boots. A boot that
executes a migration or starts its controllers may then wait for ever (`Blocks`).
`MakeControllers`, `Started` and `StopControllers` follow the order of the calls there, with the points at
which `registerHandler`, `unregisterAllHandlers` and `removeHandler` throw and the rest is
not done.

Turns that only await a promise already settled are merged with the turn before. Left out:
the handler that fetches feature flags, the Status and Reset requests, the delay with
which redux-persist writes the keyring. The two pollers of a set are one.

`Signs` says whether ProviderOptions signs. **At this commit it does not**:
`signMessageAlways` and `signTransaction` answer "wallet is disabled"
(`ProviderOptions.ts:47`, `:72`), so `authenticate` never gets a token, the observer never
sees one and no controller is made: that is the theorem `DisabledWalletStartsNothing`. All that the other
modules and the runs with `Signs = TRUE` show is about the code behind that switch, the
violation of `deposits_overlap` included.

| Run | Specification and bounds | Shows |
| --- | --- | --- |
| `lifecycle_any` | `FairSpec`, one wallet, two calls, two boots, two migrations | no handler is owed; migrations in order; an authenticated wallet is served, unless it is locked again or its boot failed, waits for ether, or waits for a leaked lock |
| `lifecycle_patient` | `PatientSpec`, two wallets, two calls, two boots, two migrations | locked is quiet; one set at work; no method added twice; a served wallet is migrated |
| `lifecycle_init_account` | `Spec`, one call | expected to fail: see below |

Two calls let a lock, an unlock or a page's call fall into an open one; two boots overlap;
two migrations have an order; a second wallet is what a boot could confuse with the first.

`Spec` lets every RPC arrive at every time, as the server does. `PatientSpec` is a user who
waits until her last call, and the boot it set off, are over, unlocks a locked wallet only
and makes a wallet only when nothing runs, as the frame offers; pages and crashes are as
free as in `Spec`. The properties of `lifecycle_patient` do **not** hold of `Spec`: a lock
during a boot stops controllers that have not been started, and the boot goes on to
start and register them. Nothing in the repository says otherwise, so that this is a
hazard (`worker.ts:258`) and not a violation. What is not obvious with a patient user is
that the lock handler, which throws at the first controller that cannot be stopped,
never does so with something left at work.

Fairness of `FairSpec`: a boot that does not wait for ether or for a leaked lock gets on, since
the request that it awaits ends in an answer or an error (`Progress` includes `BootFails`, and `Blocks`,
with which the boot waits for the lock and makes no progress any more). Nothing is assumed
of ether arriving, calls, or users. A boot that executes with the lock leaked may also end,
as not every migration needs the lock.

**A disagreement with the documentation.** `initAccount` is documented to be "resolved when
the user unlocks her wallet" (`src/README.md:36`). Its handler is `awaitUnlock`, which returns
nothing, so the request is answered at once. A relative of it needs no run: `awaitUnlock` tests
`!this.isLocked()`, the negation of a promise, so `authenticate` on a locked wallet waits for ever
(`Authenticate` puts the call at "waiting", which no action leaves but `Crash`).

### Payments

`ChannelLedger` is what the operations on money share. `lc` holds the balances of wallet
and hub in the ledger channel, `threads[r]` the virtual channel to performer `r`,
`payouts` what the hub was told to pay out, `onChain` what closing the channel returned;
`tx` and `disk` are the records of the AtomicTransactions, `lock` the `awaiter` of the
ChannelPopulator, `known` whether the store knows the channel. The hub and Connext are not
part of the repository: an update gives absolute balances, and the hub accepts it if
nothing is negative and each currency adds up to what it was. That absolute balances
are sent, from what was read earlier and recorded, is what makes a repeated purchase
harmless and an overlapped one harmful. What the hub is told may be negative, since a
withdrawal computes it from balances read earlier (`payouts`). A purchase is a WEI or BEI amount and a fee; `ToWei`
rounds as BigNumber does.

`Purchases` is BuyTransaction under `MicropaymentsController.buy()`: `buyPc[p]` is the
method that purchase `p` is at, `boot` how far `start()` has come, with the purchase that it
restarts. `BootySwap` is BuyBootyTransaction after a deposit, with its limits.
`Withdrawals` is `sendEntireBalance` (the swap, the update of the channel with its
recursion, `waitForUpdate`) and CloseChannelTransaction, which holds the lock of the
ChannelPopulator by a transaction of its own. `Payments` composes the three: the semaphore
keeps purchases and deposits apart, and a withdrawal, which takes none, runs beside both.
`Persist` is redux-persist, `Crash` loses what it has not written, `Unlock` begins the next session,
whose constructor of WithdrawalController resumes a withdrawal that nobody awaits.

| Run | Bounds | Shows |
| --- | --- | --- |
| `payments` | two requests out of two purchases (one in BOOTY with a fee, one in ether, for one performer), two amounts of a deposit and a withdrawal; one crash; 2 BEI a WEI, 4 BEI a booty | nothing is lost; a resolved purchase was charged; one operation under the semaphore; a swap asks for no more than rounding explains; only a failed withdrawal leaks the lock; a channel is closed empty; operations end |

Two requests are what one operation needs to find another at work, or what it left. A
booty of 4 BEI and 2 BEI a WEI make both roundings happen, and one performer lets a second
purchase find the thread of the first too small, or in the other currency.

The history variables `added`, `start`, `charged` and `swaps` say what the wallet ought to have;
`disturbed` that two operations have been under way at a time or that a crash lost a record;
`unrecorded` that a purchase was killed between opening a thread and recording it;
`late` what threads brought back after a withdrawal had read the channel. `NothingLost` and
`ClosesDrained` are about undisturbed behaviours, since absolute balances computed by one
operation undo those of another, and nothing in the code promises that they are not.
A hook of the CloseChannelTransaction that rejects, because the refresh it waits for fails,
leaves the record 'withdrawal' and takes no lock. `withdraw()` is handed the channel that
`closeAllVCs` found: with none it does nothing, and if the channel is gone meanwhile, as after
a crash that lost the record, closing it throws. The deposit that opens the
next channel is one step here (`OpenChannel`), which ends with the store refreshed; its steps are in `Deposits`.
`OperationsEnd` excepts two ways in which operations do not end: they wait for a leaked lock
(`LockLeaked`), or `updateChannel` calls itself for a thread that nobody closes (`Spins`).

Fairness: requests are answered, the hub takes closed threads in, the wallet is unlocked
again. `withRetries` gives up, so a wait that the state can never satisfy throws (`MustThrow`). That a
request fails, the worker is killed, or anything is asked for is not assumed.

What the model shows of the code, besides the hazards: the recursion of `updateChannel`
falls through, so a withdrawal that had to wait once pays, sends a second update from a
stale channel, which the hub refuses, and fails after having paid; a withdrawal resumed after its
payment finds the dust only, with which the swap is an error, and is abandoned; a wallet
that had no booty never passes `waitForUpdate`, which waits for the dust; opening a thread
with the whole balance leaves nothing for the fee; and a restarted purchase that fails
rejects `start()`, whose handlers are then never registered.

One more was found by the proof of `NothingLost`, not by TLC, since it takes two performers and
a crash: a purchase closes the threads of others, opens one, and is killed before that is
recorded. Resumed, it finds the thread with `useExistingVc`, and sends the
balances of the channel from before the threads were closed (`BuyTransaction.ts`,
`getVC` and `updateBalance`); when the new thread holds as much as was paid through the
old ones, the hub accepts them, and the wallet has back what it had paid. So
`NothingLost` bounds what the wallet loses always, and what it gains only while no purchase was killed there. Likewise
the bound is half a WEI for each swap, and not for all of them together: every conversion rounds.

### Calls, start, state and pages

`Frame` is a choice between seven systems that share no state. `part` says which one a behaviour is
about, so that the sum of their state spaces is explored and not the product, which
would add nothing.

* `Messaging` (`calls`): a call goes from a client through a port to a server, in the frame's case
  through the frame, whose server either hands it on or refuses it. `client[l][c]` is the promise
  in layer `l`, `work[c]` what the handler in the worker made of it, `handlers` what is registered.
  Timers may fire, listeners and handlers come and go, the worker may be killed. It
  implements `CallContract`: a result or an error tells the truth about what was done, a
  timeout leaves it open.
* `Handshake` (`start`): the steps of `install()`, the status questions of page and frame, the
  announcement, which reaches the frame if it is among the clients of the worker. An
  `install()` that fails stays where it was: without a server, without the method, or at "initializing". `HandshakeEnds` excepts the asker that was told "initializing" and
  missed the one announcement; `missed` records just that. `AnnouncementsReach` is the safety half:
  whoever waits for a worker that is ready, and did not miss the announcement, has it coming.
* `WorkerStore`, `StateSync` (`state`): the reducers, `buildSharedState`, and the mirrors of
  the state in frame and page, fetched once and then kept by broadcasts. Versions count
  dispatches. The page also turns broadcasts into the display and the cover of the iframe.
* `WalletPages` (`pages`): what the user does on the pages that make, restore, unlock and lock a
  wallet, on top of `StateSync`. An answer acts on the component that asked, if it is still shown. Keyrings are numbers for the words they come from; `known` is
  what the user has written down. A behaviour begins without a wallet, or with the one of an earlier
  session, locked. `KnowsTheWords` is followed up to the first mishap: words
  acknowledged while a keyring was being made, calls that overtook each other, a
  wallet unlocked while another one was restored, a keyring made for a wallet that existed (`mishaps`).
  The third was found by working out an inductive invariant: `unlockWallet` decrypts the keyring
  that `restoreWallet`, still encrypting, is about to replace, and leaves the wallet of the
  old one open.
* `SendForm` (`send`): the form with its two ways to send, and calls that are carried out,
  fail, or are carried out after their timeout. `excused` is what it does not guard against:
  a second click on Confirm, a page that was left, a timeout.
* `Pollers` (`loops`): BasePoller with the loops of HubController and of AddressBalanceController.
  `loop[l]` is the await of the callback and its locals; one session's callback may outlive it and
  run beside the next one's. A method of a deposit that throws (`MethodThrows`) leaves the lock of the ChannelPopulator to nobody
  (`leaked`), and the next poll that deposits waits for ever (`DepositWaits`); a deposit that is refused
  before its methods, or fails after them, does not. `SweptDown` is about workers in which no
  method has thrown: all other failures are made up for by a later poll. `KeepsReserve` says
  what a deposit leaves at the address, up to the second
  session: from then on two callbacks may deposit what each of them has read.
* `ActivityList` (`activity`): the two folds by which the history becomes rows, and
  the folding of rows.

| Run | Bounds | Shows |
| --- | --- | --- |
| `frame` | three calls, of which one is handed on; two status questions each and one kill; two dispatches out of nine, one broadcast behind; three submitted forms and one lock; two sends; two sessions, two faults, four units of ether; histories of four items out of six kinds | answers tell the truth; page and frame start or give up; mirrors are true; the user knows the words; a failure is final; what arrives is swept into the channel, but for the reserve, as long as no method of a deposit has thrown; the history is whole |

The code asks five times for the status, and the fifth is like the second: what matters is
whether one was answered before the announcement. Two dispatches let a broadcast overtake an
answer; three submissions are the double call of genKeyring, an acknowledgement and a restoration
in its way; two sessions let an old callback race a new one; four items are a group, what
ends it, and a neighbour.

Fairness (`StartFairness`, `LoopFairness`): a worker that lives gets on with `install()`, the
browser delivers messages and fires timers, requests end in an answer or an error, a
purchase leaves the semaphore. Nothing is assumed of users, kills, faults and ether.

Every run switches the deadlock check off: when the bounds are used up and everything has
ended, nothing is left to do. That operations end is what their liveness properties are for.

## 4. Proofs

All theorems are for every value of the constants, under the assumptions named
in the modules (a positive number of methods, disjoint sets of calls).

* `AtomicTransactionProofs`. `Typing` is by a typing invariant that also says a running
  call has a checkpoint. `StepOrder` and `ResolvedJobsAreComplete` need `OrderInv`: steps
  before *every* checkpoint in existence (store, disk, locals) have happened, because any
  of them may become the record. The theorems about `SerialSpec` need `SerialInv`: at most one call
  lives, the record exists while it does and is what it works on, and the steps still
  ahead of the record have not happened in this session (`AheadIsFresh`), which is what
  makes `RepeatOnlyAfterCrash` inductive. `ImplementsContract` is the step simulation: each
  step is a `Perform`, a `Crash` or a stutter of `AtLeastOnce`.
* `ChannelPopulatorProofs`. `LockInv` ties holding, the `awaiter` and pending promises
  together; `MutualExclusion` and `NoWaiterForgotten` follow. `FreshInv` orders what is
  shown, what is being read and the hub; with mutual exclusion it gives
  `RefreshesAreMonotone`.

* `WorkerLifecycleProofs`. `AnyInv` is inductive for `Spec`: types, a call or a boot that needs
  a wallet knows one (`CallsKnow`, `BootsKnow`), `NoHandlerOwed` and `MigrationsInOrder`, which
  is inductive because `applied` never decreases. It gives the first four theorems.
  `PatientInv` adds, for `PatientSpec`: at most one boot and one call of the user's
  (`Alone`), both about the wallet in the store (`InStep`); nothing works before the
  unlock handler or during a boot (`Meanwhile`); a set at work is registered once, in the
  variables, and for the wallet in the store (`AtWork`), hence can be stopped (`StopQuiets`);
  a set not yet started has registered nothing (`Prepared`). `DisabledWalletStartsNothing`
  is for `Signs = FALSE`, from `Tokenless`: no call comes to hold a token.

* `DepositsProofs`. `Types` adds to the types that a run that has begun has a record and a
  place before the end of its methods (`Placed`), so that none goes past the last.
  `Recorded` follows. `LockLeaks` needs `LockInv`: where a run can be that has the lock, one
  that waits for itself included (its DepositTransaction has forgotten that it has it), and that
  no session restarts a deposit twice. `HoldsSemaphore` gives `RequestsApart`, for crashes and
  unlocks too; `Apart` adds that nothing is restarted in a first session. It assumes one
  session because from the second on the property is false (`deposits_overlap`).
  `OncePerRunHolds` is for any schedule: once a run has paid for anything it keeps its request and its
  transaction, and its place in it only moves forward (`Paying`).
  `OncePerSession` is about crashes alone (`Relock = FALSE`, without which it is false); its
  `SessionInv` was checked with TLC for two and three sessions before it was proved. Sessions do not
  overlap (`OneSession`). A record is of a request that was made, and in a restart of one of an
  earlier session (`RecordsInv`). Two deposits have one record only where one is the restarted
  deposit (`NamesApart`), and then the lock goes from hand to hand: who waits was given it, or
  waits for whom has it (`TurnInv`). `Work` says for each what it may still do: no
  payment from its record's index on has been made more often than there were sessions before this one
  since the request, be it a run at work
  (`Owed`) or one that waits behind a record that nobody is at (`WaitsWell`), unless somebody who has the lock is at
  it; and the first to come back finds the record at the place where the last one left it.

* `MessagingProofs`. `MsgInv` is the types and, for every call, `Consistent`: a
  request on its way is in one place and has not been worked on, an answer on its way says
  what became of the work, and nothing happens before the call is made. `CallsKeepTheContract` is the step
  simulation that follows from it.
* `FrameProofs`, one part after the other. `FailureShownIsFinal`: without the three excuses at most one call is
  awaited, and it disables the button (`SendInv`). `MirrorsFollow`, by `SyncInv`: all that is on its way to a
  mirror is honest (not newer than the store, and equal to it when of its version), the last
  broadcast is of the newest version (`NewestLast`), and a mirror that has heard everything is,
  or is about to be, up to date (`UpToDate`). It needs of the reducers only that
  they keep the field that displays the frame (`ReducersKeepFields`). `UserKnowsTheWords`, by
  `PagesInv`: up to the first mishap, no keyring is made behind a restoration or for a wallet that
  counts as made, and no wallet is unlocked behind a restoration (`Order`); the last
  keyring in line has the newest words, which are the ones that are shown when none is left
  (`Newest`); words that were copied are on the page, with no others coming (`Noted`); the wallet that is open is
  the one of the last keyring in line, or of the one that is stored (`Fits`). It was checked with TLC
  before it was proved. Queues are
  described by what they hold (`Adds`, `Drops`, `DropsFirst`), so that the steps need no indices.
  `NobodyWaitsInVain` (`HandInv`, `Announced`): who asks has a try left, and whoever listens when the worker
  becomes ready is told or has missed it, by the same step. `ReserveIsKept` (`PollInv`): in a first session
  what a callback has read is still there (`ReadIsThere`), for ether only arrives beside it. `FrameTyping`
  needs all of these, as types are not inductive alone: that no counter of tries goes
  below zero is `HandInv`, that the reducers keep each field within its values needs to know which calls may
  be on their way with which arguments (`SyncTypes`, `PagesTypes`), and that unlocking finds a keyring with words in the
  range that has been made needs the queues of calls, answers and broadcasts to carry only such words.
  `HistoryIsShownWhole` is about three nested folds, and no invariant of theirs is a state of the
  model. The functions that define the folds exist (`Iterates`) because their steps keep to lists of entries,
  groups and rows; what holds after the first k items follows by well-founded induction on
  sets of places (`CountUpTo`). `EntriesTrue`, `GroupsTrue` and `ShowsFirst` say what the
  entries, the groups of an entry and the rows of the first entries are; each shows exactly the items so
  far, in order (`Arranges`), and of two neighbours not both are tips, or tips with one key. Of the history
  it needs that an item knows its place (`HistoryInv`).
* `PaymentsProofs`. `PayInv` has two halves. `SemInv` ties the semaphore to what each purchase, the
  swap and the boot are doing, and gives `OneAtATime`; `ChargeInv` says that a purchase
  under way is the one on record, and that a record, in the store or on the disk,
  which has passed the payment belongs to a purchase that was charged, and gives `ResolvedPurchasesAreCharged`. `OnlyFailureLeaks` is inductive with
  the place at which a withdrawal holds the lock (`LeakInductive`). They hold for any number of purchases,
  crashes and requests, any rates and prices. `MoneyTypes` types balances, threads and records, which needs
  the two payments of a purchase to take no more than there is at the time they were computed
  (`PaymentsTypes`); `SwapsStayWithinBounds` is arithmetic of the two roundings.
* `MoneyProofs`, over `PayInv` and `MoneyTypes`. `WalletLosesNothing` rests on three kinds of facts.
  The hub keeps the sum of each currency, so that what the wallet has in the channel is decided by what the
  hub has there. What an operation read is related to what there is now: undisturbed, threads are
  only merged between the reading and the sending, so that the balances read are a lower bound, and if the sums are
  equal they are the same. And a record that has not passed the
  payment describes a payment that has not been made, or that is repeated with the same balances. `WithdrawalsDrain` is `Draining`: from the
  update to the closing of the channel, an undisturbed withdrawal leaves the dust and what threads
  brought back.

Sums over purchases and performers are `SumOver`, a fold. What the proofs need of it (a term that
changes, terms that are ordered, no terms) is proved in `PaymentsProofs` by well-founded
induction on the subsets of a finite set, stated on sets instead of an operator.

Theorems without a run of their own state what a run once agreed with and would only repeat:
types, `RecordNeverRegresses`, `LedgerReadFirst`, `BootsFollowAuthentication`, `OwnWallet`; and
`RequestsApart`, of which `deposits_one_session` checks the case of one session.

Only model-checked: liveness (`WaitersReturn`, `OperationsEnd`, `HandshakeEnds`, `SweptDown` and the rest),
which is out of the prover's reach. Every invariant of a run is stated by a theorem.

The assumptions on constants are named in the modules. They say that sets of purchases and
performers are finite (`ReceiversAssumption`, `OrdersAssumption`), that null is
none of the values it stands beside (`NoneAssumption`, `RecordAssumption`), that amounts, rates and limits
are naturals, the rates positive (`RateAssumption`, `SwapAssumption`, `DustAssumption`,
`BalancesAssumption`), that the bounds of the frame are naturals, with at least one try
(`BoundsAssumption`), that no item of the history has a negative amount (`ItemsAssumption`), and that `toggleFrame` says whether to display (`DispatchesAssumption`). TLC
evaluates each of them.

## 5. Not modelled

* Code that nothing runs: `MicropaymentsController.closeChannel` and its `exchange-then-close`,
  `Exchange` and `ExchangeTransaction` (`makeSwap` throws in its first statement),
  `LockablePoller`, actions that nobody dispatches, `setHasActiveExchange`, which no reducer handles.
* RequestBootyTransaction: two requests and a wait, run by one migration. What a
  migration executes otherwise is the transaction of its name.
* The web3 provider (a chain of subproviders around third-party I/O), build and deployment,
  pages that only render, formatting and parsing.
* In `Deposits`, amounts, allowances and balances, which `Payments` has for the swap;
  in both, the number and pauses of the tries of `withRetries`.

**A disagreement without a run: `withRetries`.** Its comment says that `f` is run "up to retries times" and
that the call returns "whenever f successfully returns without an error thrown"
(`lib/withRetries.ts:7`), and its test expects of an `f` that always throws that it is run ten times
before 'Reached maximum retries.' is thrown (`lib/withRetries.test.ts:5`), and that the call ends when `f` returns
(`:22`). The code catches nothing (`withRetries.ts:19`): the first exception of `f` is the result. Nor does it return
when `f` returns, unless `f` has called `done()`. The modules follow the code: an operation whose wait throws ends
with that exception (`SendThrows`, `CloseThrows`, `MethodThrows`), and is not tried again.

Seen while reading, without a property: after "Please try again" the button of the form stays
disabled until the page is left, as nothing clears `balanceError`; `Vynos.init` keeps a promise that was rejected; an item of the history with ether and
tokens loses its tokens in the total of its row (`Activity.tsx:194`); `Vynos.requireUnlock`,
which nobody calls, throws unless the wallet is locked.
