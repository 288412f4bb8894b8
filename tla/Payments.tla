------------------------------- MODULE Payments -------------------------------
(***************************************************************************)
(* Purchases, deposits with their swap, and withdrawals on one channel, in *)
(* one worker that may be killed and started again.  The semaphore of      *)
(* MicropaymentsController keeps purchases and deposits apart; a           *)
(* withdrawal, resumed by a constructor that does not await it, runs       *)
(* beside both.                                                            *)
(***************************************************************************)
EXTENDS Purchases, Withdrawals

CONSTANTS MaxCrashes,   \* bound on the times the worker is killed
          MaxRequests,  \* bound on the operations that pages ask for
          Balances      \* the ledger channels to begin with

TopUp == "deposit"      \* the deposit as the holder of the semaphore

ASSUME PurchasesAssumption == /\ None # TopUp
                              /\ None \notin Purchases /\ TopUp \notin Purchases
ASSUME BalancesAssumption == Balances \subseteq Ledgers

VARIABLES crashes, requests,
          added,        \* the ether that deposits brought
          disturbed,    \* two operations have been under way at a time, or a crash
                        \*   lost records that had not been written
          late,         \* what threads brought back since a withdrawal read the channel
          start,        \* what the wallet had at the beginning, in BEI
          swaps,        \* the swaps that the hub accepted
          unrecorded    \* a purchase was killed after it had opened a thread and
                        \*   before that was recorded

ghosts == <<added, disturbed, late, start, swaps, unrecorded>>
vars == <<hub, worker, buyVars, swapVars, sendVars, crashes, requests, ghosts>>

Init == /\ \E b \in Balances : /\ InitLedger(b.A, b.I)
                               /\ start = InBei(b.A)
        /\ InitBuy /\ InitSwap /\ InitSend
        /\ crashes = 0 /\ requests = 0 /\ added = 0
        /\ disturbed = FALSE /\ late = Nothing
        /\ swaps = 0 /\ unrecorded = FALSE

\* How many operations are under way.
Busy == Cardinality({p \in Purchases : Buying(p)})
        + (IF Swapping THEN 1 ELSE 0) + (IF Sending THEN 1 ELSE 0)

Observe == /\ disturbed' = (disturbed \/ Busy' > 1)
           /\ UNCHANGED <<late, start, unrecorded>>

\* A step that may swap does so if the balances change.
Swaps(may) == swaps' = IF may /\ lc' # lc THEN swaps + 1 ELSE swaps

------------------------------------------------------------------------------
\* A page asks for an operation.
Asks == /\ requests < MaxRequests
        /\ requests' = requests + 1

BuyFrame == UNCHANGED <<swapVars, sendVars, crashes, added, swaps>> /\ Observe
SwapFrame == UNCHANGED <<buyPc, boot, charged, sendVars, crashes, added>> /\ Swaps(TRUE) /\ Observe
SendFrame == UNCHANGED <<buyVars, swapVars, crashes, added>> /\ Swaps(sendPc = "swap") /\ Observe

Buy == Asks /\ (\E p \in Purchases : RequestBuy(p)) /\ BuyFrame
BuyGoesOn == UNCHANGED requests /\ (\E p \in Purchases : BuyProceeds(p)) /\ BuyFrame
BuyGivesUp == UNCHANGED requests /\ (\E p \in Purchases : BuyThrows(p)) /\ BuyFrame
BootGoesOn == UNCHANGED requests /\ BootProceeds /\ BuyFrame

\* Locks out purchases, and is refused while one is under way.
Deposit(amount) == /\ boot = "ready"
                   /\ sem = None
                   /\ Asks
                   /\ StartSwap(amount)
                   /\ sem' = TopUp
                   /\ added' = added + amount
                   /\ UNCHANGED <<buyPc, boot, charged, sendVars, crashes, swaps>>
                   /\ Observe

LeavesSem == sem' = IF swapPc' = "idle" THEN None ELSE sem

SwapGoesOn == UNCHANGED requests /\ SwapProceeds /\ LeavesSem /\ SwapFrame
SwapGivesUp == UNCHANGED requests /\ SwapThrows /\ LeavesSem /\ SwapFrame

Send == boot = "ready" /\ Asks /\ SendEntireBalance /\ SendFrame
SendGoesOn == UNCHANGED requests /\ SendProceeds /\ SendFrame
SendGivesUp == UNCHANGED requests /\ (SendThrows \/ CloseThrows) /\ SendFrame

Merge == /\ HubMerges
         /\ late' = IF ~disturbed /\ sendPc \notin {"idle", "close1", "read"}
                      THEN Plus(late, Minus(lc'.A, lc.A)) ELSE late
         /\ UNCHANGED <<buyVars, swapVars, sendVars, crashes, requests,
                        added, disturbed, start, swaps, unrecorded>>

\* What is written matters only while the worker may still be killed.
Persist == /\ crashes < MaxCrashes
           /\ FlushTx
           /\ UNCHANGED <<buyVars, swapVars, sendVars, crashes, requests, ghosts>>

\* The worker is killed: what was not written is lost.  (After the last crash the
\* model forgets what was written, which nothing reads any more.)
Crash == /\ crashes < MaxCrashes
         /\ crashes' = crashes + 1
         /\ tx' = disk
         /\ disk' = IF crashes' < MaxCrashes THEN disk ELSE [n \in TxNames |-> None]
         /\ disturbed' = (disturbed \/ disk # tx)
         /\ unrecorded' = (unrecorded \/ \E p \in Purchases : buyPc[p] = "read")
         /\ lock' = None
         /\ known' = FALSE
         /\ boot' = "locked"
         /\ sem' = None
         /\ buyPc' = [p \in Purchases |-> IF Buying(p) THEN "killed" ELSE buyPc[p]]
         /\ swapPc' = "killed"
         /\ sendPc' = IF tx'["closeAndReopen"] # None THEN "killed"
                      ELSE IF Sending THEN "failed" ELSE sendPc
         /\ DropLocals
         /\ holder' = FALSE
         /\ again' = FALSE
         /\ UNCHANGED <<hub, charged, swapLc, asked, requests, added, late, start, swaps>>

\* The unlock handler makes the WithdrawalController, whose constructor restarts
\* a withdrawal on record, and goes on to MicropaymentsController.start().
Unlock == /\ boot = "locked"
          /\ boot' = "start"
          /\ swapPc' = "idle"
          /\ IF sendPc = "killed" THEN RestartSend ELSE UNCHANGED <<hub, worker, sendVars>>
          /\ UNCHANGED <<buyPc, sem, charged, swapLc, asked, crashes, requests, added, swaps>>
          /\ Observe

Next == \/ Buy
        \/ \E amount \in TopUps : Deposit(amount)
        \/ BuyGoesOn \/ BuyGivesUp \/ BootGoesOn
        \/ SwapGoesOn \/ SwapGivesUp
        \/ Send \/ SendGoesOn \/ SendGivesUp
        \/ Merge
        \/ Persist
        \/ Crash
        \/ Unlock

Spec == Init /\ [][Next]_vars

\* Where the code itself throws, or runs out of retries, whatever the network does.
MustThrow == \/ sendPc \in {"read", "reread", "update"} /\ ~Open
             \/ sendPc = "wait" /\ (~Open \/ lc.A["tok"] # Dust)
             \/ sendPc = "withdraw" /\ (~Open \/ \E r \in Receivers : Closable(r))
             \/ sendPc \in {"ping", "gone"} /\ Open

\* Requests are answered, closed threads are taken in, and promises resume their
\* callers; that a request fails, that the worker is killed, that a page asks for
\* something, is not assumed.
Fairness == /\ WF_vars(BuyGoesOn)
            /\ WF_vars(BootGoesOn)
            /\ WF_vars(SwapGoesOn)
            /\ WF_vars(swapPc = "prepare" /\ ~Open /\ SwapGivesUp)
            /\ WF_vars(SendGoesOn)
            /\ WF_vars(MustThrow /\ SendGivesUp)
            /\ WF_vars(Merge)
            /\ WF_vars(Unlock)

FairSpec == Spec /\ Fairness

------------------------------------------------------------------------------
(* Properties *)

TypeOK == /\ lc \in Ledgers \cup {None}
          /\ threads \in [Receivers -> Threads \cup {None}]
          /\ payouts \in Int /\ onChain \in Pairs
          /\ DOMAIN tx = TxNames /\ DOMAIN disk = TxNames
          /\ lock \in {None, "withdrawal"} /\ known \in BOOLEAN
          /\ sem \in Purchases \cup {None, TopUp}
          /\ boot \in {"ready", "locked", "start", "buys", "buying", "rejected"}
          /\ charged \subseteq Purchases
          /\ holder \in BOOLEAN /\ again \in BOOLEAN

\* What the wallet has: in the channel, in threads, sent away, back on chain.
Worth == (IF Open THEN InBei(lc.A) ELSE 0)
         + Rate * InThreads(threads, "eth") + InThreads(threads, "tok")
         + Rate * payouts + InBei(onChain)

\* What it paid for.
Price(p) == InBei(Pair(Orders[p].cur, Orders[p].fee + Orders[p].price))
Spent == SumOver(Purchases, [p \in Purchases |-> IF p \in charged THEN Price(p) ELSE 0])

\* What it has beyond what it had, and brought, less what it paid for.
Surplus == Worth - (start + Rate * added - Spent)

\* However the operations fail, are killed and resumed: as long as no two were under
\* way at a time and no record was lost, the wallet loses nothing, but for half a WEI
\* in each swap.  A purchase whose update took effect before a crash is not paid for
\* again, since it sends the same balances again.  Nor does the wallet gain more, unless
\* a purchase was killed with its thread opened and not recorded: resumed, it sends
\* balances from before the threads were closed, which give back what they had paid
\* when the new thread holds as much as they did.
NothingLost == ~disturbed => /\ 2 * Surplus >= - (Rate * swaps)
                             /\ unrecorded \/ 2 * Surplus <= Rate * swaps

\* A purchase that resolved was accepted by the hub, in whatever session.
DoneMeansCharged == \A p \in Purchases : buyPc[p] = "done" => p \in charged

\* The semaphore of MicropaymentsController is taken exactly while a purchase or a
\* deposit is under way, and there is only one of them, across failures, restarts
\* and refusals.
OneUnderSemaphore ==
  LET busy == {p \in Purchases : Buying(p)} \cup (IF Swapping THEN {TopUp} ELSE {}) IN
  busy = (IF sem = None THEN {} ELSE {sem})

\* Buying booty may ask for more ether than the channel has, or fill the wallet
\* beyond its limit, but only so far: short by the rounding of half a booty, and
\* by less than the limit again.
SwapWithinBounds ==
  asked # None => /\ 2 * Rate * asked["eth"] >= - (BeiPerBooty + Rate)
                  /\ asked["tok"] < 2 * MaxBooty * BeiPerBooty

\* The lock of the ChannelPopulator stays taken without a holder only after a
\* withdrawal has failed.
WithdrawalLeaksOnlyOnFailure == lock # None /\ ~holder => sendPc = "failed"

\* Unless something else was under way, or a crash brought back a record already
\* removed, the channel that a withdrawal closes has been emptied: all but the dust
\* was sold and sent, also after a restart.  What is over, and paid out on chain
\* instead of being sent, came from threads that the hub took in after the withdrawal
\* had read the channel.
ClosesDrained ==
  [][Open /\ lc' = None /\ ~disturbed =>
       \A c \in Cur : lc.A[c] - Pair("tok", Dust)[c] \in 0 .. late[c]]_vars

LockLeaked == lock # None /\ ~holder

\* updateChannel() calls itself for ever: a thread holds what is missing, and
\* nobody closes it.
Spins == /\ sendPc = "update"
         /\ Open
         /\ value > lc.A["eth"]
         /\ \E r \in Receivers : Closable(r)

\* Every operation ends: a purchase always, so that it leaves the semaphore, a deposit
\* unless a failed withdrawal has leaked the lock it waits for, and a withdrawal unless
\* it waits for such a lock, or spins.
OperationsEnd == /\ (\E p \in Purchases : Buying(p)) ~> (\A p \in Purchases : ~Buying(p))
                 /\ Swapping ~> (~Swapping \/ LockLeaked)
                 /\ Sending ~> (~Sending \/ Spins \/ LockLeaked)
==============================================================================
