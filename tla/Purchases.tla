------------------------------ MODULE Purchases ------------------------------
(***************************************************************************)
(* lib/transactions/BuyTransaction.ts as MicropaymentsController.buy()     *)
(* runs it: the AtomicTransaction 'buy', whose four methods read the       *)
(* ledger channel, find or open a thread to the performer, send the        *)
(* balances after the purchase to the hub, and refresh the store.  The     *)
(* balances sent are absolute, and computed from what earlier methods read *)
(* and the record of the transaction keeps.                                *)
(***************************************************************************)
EXTENDS ChannelLedger

CONSTANTS Purchases,    \* the purchases that a page may request
          Orders,       \* Orders[p]: receiver, currency, fee for the hub, price
          DefaultDeposit \* what a thread is opened with, per currency

ASSUME OrdersAssumption ==
  /\ IsFiniteSet(Purchases)
  /\ Orders \in [Purchases -> [to : Receivers, cur : Cur, fee : Nat, price : Nat]]
  /\ DefaultDeposit \in Pairs

ASSUME RecordAssumption ==
  None \notin [index : Nat, job : Purchases, lc : Ledgers \cup {None}, vc : Threads \cup {None}]

VARIABLES buyPc,        \* where each purchase is
          sem,          \* who has taken the semaphore of MicropaymentsController
          boot,         \* how far start() has come; "ready": handlers registered
          charged       \* the purchases whose payment the hub has accepted

buyVars == <<buyPc, sem, boot, charged>>

BuyEnded == {"idle", "refused", "done", "failed", "killed"}
Buying(p) == buyPc[p] \notin BuyEnded

InitBuy == /\ buyPc = [p \in Purchases |-> "idle"]
           /\ sem = None
           /\ boot = "ready"
           /\ charged = {}

\* The record of a purchase: the method to go on with, and what it is called with.
BuyRecord(index, p, ledger, thread) == [index |-> index, job |-> p, lc |-> ledger, vc |-> thread]

BuyMoves(p, where) == buyPc' = [buyPc EXCEPT ![p] = where]

\* start() awaits the purchase it restarted, and rejects with it.
BootAfter(outcome) == boot' = IF boot = "buying" THEN outcome ELSE boot

\* A method threw: the record is removed, the semaphore left, the error rethrown.
BuyFails(p) == /\ Forget("buy")
               /\ sem' = None
               /\ BuyMoves(p, "failed")
               /\ BootAfter("rejected")

------------------------------------------------------------------------------
(* The RPC and the restart *)

\* start() first reads the channel into the store, and ends there if no purchase
\* is on record.
SetChannel == /\ boot = "start"
              /\ StoreChannel
              /\ boot' = IF tx["buy"] = None THEN "ready" ELSE "buys"
              /\ UNCHANGED <<hub, tx, disk, lock, buyPc, sem, charged>>
SetChannelFails == /\ boot = "start"
                   /\ boot' = "rejected"
                   /\ UNCHANGED <<hub, worker, buyPc, sem, charged>>

\* Seeded fault: the availability of the semaphore is not looked at.
RequestBuyUnchecked(p) ==
  /\ boot = "ready"
  /\ buyPc[p] = "idle"
  /\ sem' = p
  /\ Record("buy", BuyRecord(0, p, None, None))
  /\ BuyMoves(p, "channel")
  /\ UNCHANGED <<hub, disk, lock, known, boot, charged>>

\* MicropaymentsController.buy(): refused while another operation has the
\* semaphore.
RequestBuy(p) ==
  /\ boot = "ready"
  /\ buyPc[p] = "idle"
  /\ IF sem # None
       THEN /\ BuyMoves(p, "refused")
            /\ UNCHANGED <<tx, sem, boot>>
       ELSE /\ sem' = p
            /\ Record("buy", BuyRecord(0, p, None, None))
            /\ BuyMoves(p, "channel")
  /\ UNCHANGED <<hub, disk, lock, known, boot, charged>>

\* restartTransaction(): a recorded purchase goes on, under the semaphore, with
\* the method its record names.
RestartBuy(p) ==
  /\ boot = "buys"
  /\ boot' = "buying"
  /\ p = tx["buy"].job
  /\ sem = None
  /\ sem' = p
  /\ BuyMoves(p, <<"channel", "thread", "update", "store">>[tx["buy"].index + 1])
  /\ UNCHANGED <<hub, worker, charged>>

------------------------------------------------------------------------------
(* getExistingChannel *)

GetExistingChannel(p) ==
  /\ buyPc[p] = "channel"
  /\ IF ~Open
       THEN BuyFails(p)
       ELSE /\ Record("buy", BuyRecord(1, p, lc, None))
            /\ BuyMoves(p, "thread")
            /\ UNCHANGED <<sem, boot>>
  /\ UNCHANGED <<hub, disk, lock, known, charged>>

------------------------------------------------------------------------------
(* getVC and createNewVC *)

\* An existing thread to the receiver that holds the price.
Affords(p) == LET o == Orders[p] IN
              threads[o.to] # None /\ o.price <= threads[o.to].A[o.cur]

\* getVC(): a thread that holds the price is used as it is, with the ledger channel
\* that the first method read.  (A malformed purchase throws: BuyThrows.)
GetVC(p) ==
  /\ buyPc[p] = "thread"
  /\ IF Affords(p)
       THEN /\ Record("buy", BuyRecord(2, p, tx["buy"].lc, threads[Orders[p].to]))
            /\ BuyMoves(p, "update")
       ELSE /\ BuyMoves(p, "close")
            /\ UNCHANGED tx
  /\ UNCHANGED <<hub, disk, lock, known, sem, boot, charged>>

\* createNewVC(): the threads there are are closed first.
CloseForNew(p) == /\ buyPc[p] = "close"
                  /\ CloseAllVCs
                  /\ BuyMoves(p, "deposit")
                  /\ UNCHANGED <<worker, sem, boot, charged>>

\* getDepositAmounts(): the whole balance if it is below the default, else the
\* larger of price and default.
DepositAmount(price, available, default) ==
  IF available < default THEN available
  ELSE IF price > default THEN price ELSE default

\* openThread() takes the deposit out of the ledger channel.  The price must not
\* be larger than what is available there now.
OpenThread(p) ==
  /\ buyPc[p] = "deposit"
  /\ LET o == Orders[p]
         amount == DepositAmount(o.price, lc.A[o.cur], DefaultDeposit[o.cur]) IN
     IF ~Open \/ o.price > lc.A[o.cur] \/ threads[o.to] # None
       THEN /\ BuyFails(p)
            /\ UNCHANGED hub
       ELSE /\ lc' = [lc EXCEPT !.A = Minus(@, Pair(o.cur, amount))]
            /\ threads' = [threads EXCEPT ![o.to] = [A |-> Pair(o.cur, amount), B |-> Nothing,
                                                      closing |-> FALSE]]
            /\ BuyMoves(p, "read")
            /\ UNCHANGED <<tx, sem, boot, payouts, onChain>>
  /\ UNCHANGED <<disk, lock, known, charged>>

\* getThreadById() and the proper state of the ledger channel after the opening;
\* getVC() is over.
ReadThread(p) ==
  /\ buyPc[p] = "read"
  /\ IF threads[Orders[p].to] = None
       THEN BuyFails(p)
       ELSE /\ Record("buy", BuyRecord(2, p, lc, threads[Orders[p].to]))
            /\ BuyMoves(p, "update")
            /\ UNCHANGED <<sem, boot>>
  /\ UNCHANGED <<hub, disk, lock, known, charged>>

------------------------------------------------------------------------------
(* updateBalance and updateStore *)

\* Seeded fault: the payment is taken from the balances of the moment.
LcAfterNow(r) == LET o == Orders[r.job] IN
                 [A |-> Minus(lc.A, Pair(o.cur, o.fee)), I |-> Plus(lc.I, Pair(o.cur, o.fee))]

\* makePayment(): the balances after a payment, from the state the record keeps.
LcAfter(r) == LET o == Orders[r.job] IN
              [A |-> Minus(r.lc.A, Pair(o.cur, o.fee)), I |-> Plus(r.lc.I, Pair(o.cur, o.fee))]

\* The same for the thread.
VcAfter(r) == LET o == Orders[r.job] IN
              [A |-> Minus(r.vc.A, Pair(o.cur, o.price)), B |-> Plus(r.vc.B, Pair(o.cur, o.price)),
               closing |-> r.vc.closing]

\* Seeded fault: a refusal of the hub goes unnoticed.
UpdateBalanceUnnoticed(p) ==
  /\ buyPc[p] = "update"
  /\ LET r == tx["buy"] IN
     IF lc # None /\ HubAccepts(LcAfter(r)) /\ ThreadAccepts(Orders[p].to, VcAfter(r))
       THEN /\ lc' = LcAfter(r)
            /\ threads' = [threads EXCEPT ![Orders[p].to] = VcAfter(r)]
            /\ charged' = charged \cup {p}
       ELSE UNCHANGED <<lc, threads, charged>>
  /\ BuyMoves(p, "updated")
  /\ UNCHANGED <<payouts, onChain, worker, sem, boot>>

\* updateBalances(): both payments are accepted, or neither.
UpdateBalance(p) ==
  /\ buyPc[p] = "update"
  /\ LET r == tx["buy"] IN
     IF lc # None /\ HubAccepts(LcAfter(r)) /\ ThreadAccepts(Orders[p].to, VcAfter(r))
       THEN /\ lc' = LcAfter(r)
            /\ threads' = [threads EXCEPT ![Orders[p].to] = VcAfter(r)]
            /\ charged' = charged \cup {p}
            /\ BuyMoves(p, "updated")
            /\ UNCHANGED <<tx, sem, boot>>
       ELSE /\ BuyFails(p)
            /\ UNCHANGED <<lc, threads, charged>>
  /\ UNCHANGED <<payouts, onChain, disk, lock, known>>

\* The answer is back, and the last method is recorded.
RecordUpdate(p) == /\ buyPc[p] = "updated"
                   /\ Record("buy", BuyRecord(3, p, tx["buy"].lc, tx["buy"].vc))
                   /\ BuyMoves(p, "store")
                   /\ UNCHANGED <<hub, disk, lock, known, sem, boot, charged>>

\* updateStore(): the channel is read into the store, and the purchase is over.
UpdateStore(p) == /\ buyPc[p] = "store"
                  /\ StoreChannel
                  /\ Forget("buy")
                  /\ sem' = None
                  /\ BuyMoves(p, "done")
                  /\ BootAfter("ready")
                  /\ UNCHANGED <<hub, disk, lock, charged>>

\* A request to the hub fails, its answer is lost, or a check of getVC() throws.
BuyThrows(p) == /\ buyPc[p] \in {"channel", "thread", "close", "deposit", "read",
                                 "update", "updated", "store"}
                /\ BuyFails(p)
                /\ UNCHANGED <<hub, disk, lock, known, charged>>

------------------------------------------------------------------------------
BuyProceeds(p) == \/ GetExistingChannel(p)
                  \/ GetVC(p)
                  \/ CloseForNew(p)
                  \/ OpenThread(p)
                  \/ ReadThread(p)
                  \/ UpdateBalance(p)
                  \/ RecordUpdate(p)
                  \/ UpdateStore(p)

BootProceeds == \/ SetChannel
                \/ SetChannelFails
                \/ \E p \in Purchases : RestartBuy(p)
==============================================================================
