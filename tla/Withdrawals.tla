----------------------------- MODULE Withdrawals -----------------------------
(***************************************************************************)
(* worker/controllers/WithdrawalController.ts with                         *)
(* lib/transactions/CloseChannelTransaction.ts: sending the whole balance  *)
(* to an address.  The AtomicTransaction 'closeAndReopen' swaps the booty  *)
(* for ether and sends all ether (_sendEntireBalance), waits until the hub *)
(* shows it (waitForUpdate), closes the channel through a transaction of   *)
(* its own, 'withdrawal' (closeChannel), and opens a new one (openChannel).*)
(* No semaphore keeps purchases and deposits away from it.                 *)
(***************************************************************************)
EXTENDS BootySwap

CONSTANT Dust           \* the BEI left in the channel, 69

ASSUME DustAssumption == Dust \in Nat

VARIABLES sendPc,       \* where the transaction is
          sendLc,       \* the ledger channel as it was last read
          value,        \* the amount of ether to send
          outer,        \* ledger channel of the call of updateChannel() that
                        \*   called itself, None if none did
          holder,       \* deferredPopulate of the CloseChannelTransaction is set
          again         \* start() of the CloseChannelTransaction is still to come

sendVars == <<sendPc, sendLc, value, outer, holder, again>>

InitSend == /\ sendPc = "idle"
            /\ sendLc = None
            /\ value = 0
            /\ outer = None
            /\ holder = FALSE
            /\ again = FALSE

SendEnded == {"idle", "done", "failed", "killed"}
Sending == sendPc \notin SendEnded

\* A step that only reads, or decides.
Goes(from, to) == sendPc = from /\ sendPc' = to

\* A method threw: the record is removed.
SendFails == Forget("closeAndReopen") /\ sendPc' = "failed"

\* What a method had read is gone with it.
DropLocals == sendLc' = None /\ value' = 0 /\ outer' = None

------------------------------------------------------------------------------
(* sendEntireBalance and the restart in the constructor *)

SendEntireBalance == /\ sendPc = "idle"
                     /\ Record("closeAndReopen", [index |-> 0])
                     /\ sendPc' = "close1"
                     /\ UNCHANGED <<hub, disk, lock, known, sendLc, value, outer, holder, again>>

\* The constructor does not await restart().
RestartSend ==
  /\ sendPc = "killed"
  /\ tx["closeAndReopen"] # None
  /\ sendPc' = <<"close1", "wait", "execute", "open">>[tx["closeAndReopen"].index + 1]
  /\ UNCHANGED <<hub, worker, sendLc, value, outer, holder, again>>

------------------------------------------------------------------------------
(* _sendEntireBalance *)

\* closeAllVCs(), at the beginning and again in send().
CloseThreads == /\ \/ Goes("close1", "read")
                   \/ Goes("close2", "update")
                /\ CloseAllVCs
                /\ UNCHANGED <<worker, sendLc, value, outer, holder, again>>

\* The ledger channel is read: without booty the swap is skipped.
ReadForSwap == /\ sendPc = "read"
               /\ Open
               /\ sendLc' = lc
               /\ sendPc' = IF lc.A["tok"] > 0 THEN "swap" ELSE "total"
               /\ UNCHANGED <<hub, worker, value, outer, holder, again>>

\* buySellBooty(): all booty but the dust is sold.  An amount of 0 is an error,
\* and so is what a channel has that was already swept down to the dust.
SellBooty ==
  /\ sendPc = "swap"
  /\ LET bei == Dust - sendLc.A["tok"] IN
     IF bei # 0 /\ SwapAccepted(sendLc, bei)
       THEN lc' = AfterSwap(sendLc, bei) /\ sendPc' = "reread" /\ UNCHANGED tx
       ELSE SendFails /\ UNCHANGED lc
  /\ UNCHANGED <<threads, payouts, onChain, disk, lock, known, sendLc, value, outer, holder, again>>

\* Seeded fault: the total is taken from the channel as it was before the swap.
KeepReading == /\ Goes("reread", "total")
               /\ UNCHANGED <<hub, worker, sendLc, value, outer, holder, again>>

ReadAfterSwap == /\ Goes("reread", "total")
                 /\ Open
                 /\ sendLc' = lc
                 /\ UNCHANGED <<hub, worker, value, outer, holder, again>>

\* The total of the ledger channel and of the threads that the hub still lists.
ComputeTotal == /\ Goes("total", "close2")
                /\ value' = sendLc.A["eth"] + InThreads(threads, "eth")
                /\ UNCHANGED <<hub, worker, sendLc, outer, holder, again>>

------------------------------------------------------------------------------
(* updateChannel *)

\* The ledger channel is read.  If it does not hold the value although channel and
\* threads together do, updateChannel() calls itself: it reads again.
ReadForUpdate ==
  /\ sendPc = "update"
  /\ Open
  /\ sendLc' = lc
  /\ IF value <= lc.A["eth"]
       THEN sendPc' = "send" /\ UNCHANGED <<outer, tx>>
       ELSE IF value > lc.A["eth"] + InThreads(threads, "eth")
         THEN SendFails /\ UNCHANGED outer
         ELSE outer' = lc /\ UNCHANGED <<sendPc, tx>>
  /\ UNCHANGED <<hub, disk, lock, known, value, holder, again>>

AfterSending(c) == [A |-> Minus(c.A, Pair("eth", value)), I |-> Plus(c.I, Pair("eth", value))]

\* updateBalances() with the recipient.  When the call that called itself comes
\* back, it sends an update of its own, from the ledger channel it had read.
SendUpdate ==
  /\ sendPc = "send"
  /\ IF HubAccepts(AfterSending(sendLc))
       THEN /\ lc' = AfterSending(sendLc)
            /\ payouts' = payouts + lc'.I["eth"] - lc.I["eth"]
            /\ IF outer = None
                 THEN sendPc' = "populate" /\ UNCHANGED <<sendLc, outer>>
                 ELSE sendLc' = outer /\ outer' = None /\ UNCHANGED sendPc
            /\ UNCHANGED tx
       ELSE /\ SendFails
            /\ UNCHANGED <<lc, payouts, sendLc, outer>>
  /\ UNCHANGED <<threads, onChain, disk, lock, known, value, holder, again>>

\* populator.populate(), and the next method is recorded.
PopulateAfterSend == /\ Goes("populate", "wait")
                     /\ lock = None
                     /\ StoreChannel
                     /\ Record("closeAndReopen", [index |-> 1])
                     /\ UNCHANGED <<hub, disk, lock, sendLc, value, outer, holder, again>>

------------------------------------------------------------------------------
(* waitForUpdate *)

\* The hub shows the dust; else the retries run out (SendThrows).
WaitForUpdate == /\ Goes("wait", "execute")
                 /\ Open
                 /\ lc.A["tok"] = Dust
                 /\ Record("closeAndReopen", [index |-> 2])
                 /\ UNCHANGED <<hub, disk, lock, known, sendLc, value, outer, holder, again>>

------------------------------------------------------------------------------
(* closeChannel: CloseChannelTransaction.execute() *)

\* A transaction in progress is restarted first, and another started afterwards
\* in any case.
Execute == /\ Goes("execute", "hook")
           /\ again' = (tx["withdrawal"] # None)
           /\ IF tx["withdrawal"] = None
                THEN Record("withdrawal", [index |-> 0])
                ELSE UNCHANGED tx
           /\ UNCHANGED <<hub, disk, lock, known, sendLc, value, outer, holder>>

\* setHasActiveWithdrawal(): waits for the lock of the ChannelPopulator and takes it
\* (else SendThrows).
HoldLock == /\ sendPc = "hook"
            /\ lock = None
            /\ lock' = "withdrawal"
            /\ holder' = TRUE
            /\ sendPc' = <<"closeThreads", "withdraw", "ping", "redux">>[tx["withdrawal"].index + 1]
            /\ UNCHANGED <<hub, tx, disk, known, sendLc, value, outer, again>>

NextCloseMethod(from, to, index) == /\ Goes(from, to)
                                    /\ Record("withdrawal", [index |-> index])

\* closeAllVCs of the transaction closes the threads that the hub lists.  When it
\* finds no channel, withdraw() is handed none, and has nothing to do.
CloseListedThreads ==
  /\ IF Open THEN NextCloseMethod("closeThreads", "withdraw", 1)
             ELSE NextCloseMethod("closeThreads", "ping", 2)
  /\ threads' = [r \in Receivers |-> IF Open /\ threads[r] # None
                                       THEN [threads[r] EXCEPT !.closing = TRUE] ELSE threads[r]]
  /\ UNCHANGED <<lc, payouts, onChain, disk, lock, known, sendLc, value, outer, holder, again>>

\* withdraw() was handed a channel: connext.closeChannel() pays both parties on
\* chain.  Threads must be closed before.  It throws (CloseThrows) when the channel
\* is gone since, as after a crash that lost the record of its success.
Withdraw ==
  /\ NextCloseMethod("withdraw", "ping", 2)
  /\ Open
  /\ \A r \in Receivers : threads[r] = None
  /\ lc' = None
  /\ onChain' = Plus(onChain, lc.A)
  /\ UNCHANGED <<threads, payouts, disk, lock, known, sendLc, value, outer, holder, again>>

\* The hub did not cosign (651): the error is logged and the transaction goes on,
\* with the channel open.
NotCosigned == /\ NextCloseMethod("withdraw", "ping", 2)
               /\ Open
               /\ UNCHANGED <<hub, disk, lock, known, sendLc, value, outer, holder, again>>

\* pingChainsaw: the hub has no channel any more; else the retries run out.
PingChainsaw == /\ NextCloseMethod("ping", "redux", 3)
                /\ ~Open
                /\ UNCHANGED <<hub, disk, lock, known, sendLc, value, outer, holder, again>>

\* Seeded fault: the lock is not given back after the refresh.
RefreshKeepsLock == /\ sendPc = "redux"
                    /\ StoreChannel
                    /\ holder' = FALSE
                    /\ Forget("withdrawal")
                    /\ sendPc' = IF again THEN "execute" ELSE "gone"
                    /\ again' = FALSE
                    /\ UNCHANGED <<hub, disk, lock, sendLc, value, outer>>

\* Seeded fault: the refresh waits for the lock that its own transaction holds.
RefreshAsStranger == /\ sendPc = "redux"
                     /\ lock = None
                     /\ StoreChannel
                     /\ holder' = FALSE
                     /\ Forget("withdrawal")
                     /\ sendPc' = IF again THEN "execute" ELSE "gone"
                     /\ again' = FALSE
                     /\ UNCHANGED <<hub, disk, lock, sendLc, value, outer>>

\* updateRedux: the holder's populate() refreshes and gives the lock back; the
\* record is removed.
UpdateRedux == /\ sendPc = "redux"
               /\ StoreChannel
               /\ lock' = None
               /\ holder' = FALSE
               /\ Forget("withdrawal")
               /\ sendPc' = IF again THEN "execute" ELSE "gone"
               /\ again' = FALSE
               /\ UNCHANGED <<hub, disk, sendLc, value, outer>>

\* A method of the transaction throws: afterAll forgets the holder of the lock
\* before execute() can have it release the lock.
CloseThrows == /\ sendPc \in {"closeThreads", "withdraw", "ping", "redux"}
               /\ tx' = [tx EXCEPT !["withdrawal"] = None, !["closeAndReopen"] = None]
               /\ holder' = FALSE
               /\ again' = FALSE
               /\ sendPc' = "failed"
               /\ UNCHANGED <<hub, disk, lock, known, sendLc, value, outer>>

\* Back in closeChannel(): there is no ledger channel; else the retries run out.
ChannelGone == /\ Goes("gone", "open")
               /\ ~Open
               /\ Record("closeAndReopen", [index |-> 3])
               /\ UNCHANGED <<hub, disk, lock, known, sendLc, value, outer, holder, again>>

------------------------------------------------------------------------------
(* openChannel: OpenChannelMigration.execute() *)

\* A channel that exists is left alone; else what the wallet has on chain is
\* deposited into a new one (gas and reserve are left out), and the store refreshed.
OpenChannel == /\ sendPc = "open"
               /\ lc' = IF Open THEN lc ELSE [A |-> onChain, I |-> Nothing]
               /\ onChain' = IF Open THEN onChain ELSE Nothing
               /\ known' = (known \/ ~Open)
               /\ Forget("closeAndReopen")
               /\ sendPc' = "done"
               /\ UNCHANGED <<threads, payouts, disk, lock, sendLc, value, outer, holder, again>>

\* A method throws: a request fails, or the retries run out.  So does the hook of the
\* CloseChannelTransaction, when a request of the refresh that the ChannelPopulator is
\* busy with fails: then the record 'withdrawal' stays, and no lock is taken.
SendThrows == /\ \/ sendPc \in {"close1", "read", "swap", "reread", "total", "close2", "update",
                                "send", "populate", "wait", "gone", "open"}
                 \/ sendPc = "hook" /\ lock = None
              /\ SendFails
              /\ DropLocals
              /\ UNCHANGED <<hub, disk, lock, known, holder, again>>

SendProceeds == \/ CloseThreads
                \/ ReadForSwap
                \/ SellBooty
                \/ ReadAfterSwap
                \/ ComputeTotal
                \/ ReadForUpdate
                \/ SendUpdate
                \/ PopulateAfterSend
                \/ WaitForUpdate
                \/ Execute
                \/ HoldLock
                \/ CloseListedThreads
                \/ Withdraw
                \/ NotCosigned
                \/ PingChainsaw
                \/ UpdateRedux
                \/ ChannelGone
                \/ OpenChannel
==============================================================================
