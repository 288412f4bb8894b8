---------------------------- MODULE PaymentsProofs ----------------------------
(***************************************************************************)
(* Theorems about Payments, for any purchases, amounts and crashes: the    *)
(* semaphore of MicropaymentsController, what a purchase that resolved     *)
(* stands for, that all balances and records are well formed, and how far  *)
(* a swap goes.                                                            *)
(***************************************************************************)
EXTENDS Payments, FiniteSetTheorems, TLAPS

BuyStates == BuyEnded \cup {"channel", "thread", "close", "deposit", "read", "update",
                            "updated", "store"}

\* A record of 'buy': its last method is only recorded when the hub has accepted the
\* payment.
BuyForm(r) == /\ r = [index |-> r.index, job |-> r.job, lc |-> r.lc, vc |-> r.vc]
              /\ r.index \in 0 .. 3
              /\ r.job \in Purchases
              /\ r.index = 3 => r.job \in charged

RecordsOK(t) == /\ DOMAIN t = TxNames
                /\ t["buy"] # None => BuyForm(t["buy"])
                /\ t["buyBooty"] # None => t["buyBooty"].index \in 0 .. 1

\* The semaphore names what is under way, and a worker that has not begun to restart
\* purchases has none.
SemInv == /\ buyPc \in [Purchases -> BuyStates]
          /\ sem \in Purchases \cup {None, TopUp}
          /\ \A p \in Purchases : Buying(p) <=> sem = p
          /\ Swapping <=> sem = TopUp
          /\ boot \in {"locked", "start", "buys"} => sem = None

\* A purchase under way is the one on record, in memory; and what it recorded of its
\* payment is so, there and on disk.
ChargeInv == /\ RecordsOK(tx) /\ RecordsOK(disk)
             /\ boot = "buys" => tx["buy"] # None
             /\ \A p \in Purchases : Buying(p) => BuyForm(tx["buy"]) /\ tx["buy"].job = p
             /\ \A p \in Purchases : buyPc[p] \in {"updated", "store", "done"} => p \in charged

PayInv == SemInv /\ ChargeInv

LEMMA PayInvInit == Init => PayInv
<1> SUFFICES ASSUME Init PROVE PayInv
  OBVIOUS
<1>1. RecordsOK(tx) /\ disk = tx
  BY DEF Init, InitLedger, RecordsOK, TxNames
<1>2. buyPc = [p \in Purchases |-> "idle"] /\ sem = None /\ boot = "ready" /\ swapPc = "idle"
  BY DEF Init, InitBuy, InitSwap
<1>3. QED
  BY <1>1, <1>2, PurchasesAssumption
  DEF PayInv, SemInv, ChargeInv, BuyStates, BuyEnded, Buying, Swapping

------------------------------------------------------------------------------
(* Records *)

\* Recording or removing one transaction leaves the others.
LEMMA OneRecord ==
  ASSUME RecordsOK(tx), NEW n \in TxNames, NEW r, Record(n, r)
  PROVE  /\ DOMAIN tx' = TxNames
         /\ tx'[n] = r
         /\ \A m \in TxNames : m # n => tx'[m] = tx[m]
  BY DEF RecordsOK, Record

LEMMA OneForgotten ==
  ASSUME RecordsOK(tx), NEW n \in TxNames, Forget(n)
  PROVE  /\ DOMAIN tx' = TxNames
         /\ tx'[n] = None
         /\ \A m \in TxNames : m # n => tx'[m] = tx[m]
  BY DEF RecordsOK, Forget

\* Recording the next method of a purchase, with what the last one read.
LEMMA NextRecord ==
  ASSUME NEW p \in Purchases, NEW i \in 0 .. 3, i = 3 => p \in charged, NEW l, NEW v
  PROVE  BuyForm(BuyRecord(i, p, l, v)) /\ BuyRecord(i, p, l, v).job = p
  BY DEF BuyForm, BuyRecord

\* A step that leaves purchases and swaps alone, and their records, whatever is
\* written to disk.
LEMMA ElsewhereKeeps ==
  ASSUME PayInv, UNCHANGED <<buyPc, sem, charged, swapPc, boot>>,
         DOMAIN tx' = TxNames, tx'["buy"] = tx["buy"], tx'["buyBooty"] = tx["buyBooty"],
         disk' = disk \/ disk' = tx
  PROVE  PayInv'
<1>1. SemInv'
  BY DEF PayInv, SemInv, Buying, Swapping
<1>2. RecordsOK(tx)' /\ RecordsOK(disk)'
  BY DEF PayInv, ChargeInv, RecordsOK, BuyForm
<1>3. \A p \in Purchases : Buying(p)' => BuyForm(tx["buy"])' /\ tx'["buy"].job = p
  BY DEF PayInv, ChargeInv, Buying, BuyForm
<1>4. boot' = "buys" => tx'["buy"] # None
  BY DEF PayInv, ChargeInv
<1>5. \A p \in Purchases : buyPc'[p] \in {"updated", "store", "done"} => p \in charged'
  BY DEF PayInv, ChargeInv
<1>6. QED
  BY <1>1, <1>2, <1>3, <1>4, <1>5 DEF PayInv, ChargeInv

\* A step of a swap, or one that begins it or ends it.
LEMMA SwapKeeps ==
  ASSUME PayInv, UNCHANGED <<buyPc, charged, boot, disk>>,
         DOMAIN tx' = TxNames, tx'["buy"] = tx["buy"],
         tx'["buyBooty"] # None => tx'["buyBooty"].index \in 0 .. 1,
         boot \notin {"locked", "start", "buys"},
         sem \in {None, TopUp},
         swapPc' \in {"idle", "prepare", "swap", "populate"},
         sem' = IF swapPc' = "idle" THEN None ELSE TopUp
  PROVE  PayInv'
<1> USE PurchasesAssumption
<1>1. SemInv'
  BY DEF PayInv, SemInv, Buying, Swapping
<1>2. RecordsOK(tx)' /\ RecordsOK(disk)'
  BY DEF PayInv, ChargeInv, RecordsOK, BuyForm
<1>3. \A p \in Purchases : Buying(p)' => BuyForm(tx["buy"])' /\ tx'["buy"].job = p
  BY DEF PayInv, ChargeInv, Buying, BuyForm
<1>4. \A p \in Purchases : buyPc'[p] \in {"updated", "store", "done"} => p \in charged'
  BY DEF PayInv, ChargeInv
<1>5. QED
  BY <1>1, <1>2, <1>3, <1>4 DEF PayInv, ChargeInv

\* A step of one purchase: it takes or keeps the semaphore and has its record, or
\* ends, leaves the semaphore and removes the record.
LEMMA BuyKeeps ==
  ASSUME PayInv, NEW p \in Purchases, NEW where \in BuyStates, BuyMoves(p, where),
         UNCHANGED <<swapPc, disk>>, charged \subseteq charged',
         sem \in {None, p},
         boot' \notin {"locked", "start", "buys"},
         sem' = IF where \in BuyEnded THEN None ELSE p,
         DOMAIN tx' = TxNames, tx'["buyBooty"] = tx["buyBooty"],
         IF where \in BuyEnded THEN tx'["buy"] = None
                               ELSE BuyForm(tx["buy"])' /\ tx'["buy"].job = p,
         where \in {"updated", "store", "done"} => p \in charged'
  PROVE  PayInv'
<1> USE PurchasesAssumption
<1>1. /\ buyPc' \in [Purchases -> BuyStates]
      /\ buyPc'[p] = where
      /\ \A q \in Purchases : q # p => buyPc'[q] = buyPc[q]
  BY DEF PayInv, SemInv, BuyMoves
<1>2. \A q \in Purchases : q # p => ~Buying(q)
  BY DEF PayInv, SemInv
<1>3. \A q \in Purchases : Buying(q)' <=> q = p /\ where \notin BuyEnded
  BY <1>1, <1>2 DEF Buying
<1>4. SemInv'
  BY <1>1, <1>3 DEF PayInv, SemInv, Swapping
<1>5. RecordsOK(tx)' /\ RecordsOK(disk)'
  <2>1. RecordsOK(disk)'
    BY DEF PayInv, ChargeInv, RecordsOK, BuyForm
  <2>2. tx'["buy"] # None => BuyForm(tx["buy"])'
    OBVIOUS
  <2>3. tx'["buyBooty"] # None => tx'["buyBooty"].index \in 0 .. 1
    BY DEF PayInv, ChargeInv, RecordsOK
  <2>4. QED
    BY <2>1, <2>2, <2>3 DEF RecordsOK, BuyForm
<1>6. \A q \in Purchases : Buying(q)' => BuyForm(tx["buy"])' /\ tx'["buy"].job = q
  BY <1>3
<1>7. \A q \in Purchases : buyPc'[q] \in {"updated", "store", "done"} => q \in charged'
  BY <1>1 DEF PayInv, ChargeInv
<1>8. QED
  BY <1>4, <1>5, <1>6, <1>7 DEF PayInv, ChargeInv

------------------------------------------------------------------------------
(* Purchases *)

LEMMA UnderWay ==
  ASSUME PayInv, NEW p \in Purchases, Buying(p)
  PROVE  /\ sem = p
         /\ boot \notin {"locked", "start", "buys"}
         /\ BuyForm(tx["buy"]) /\ tx["buy"].job = p
         /\ RecordsOK(tx)
  BY PurchasesAssumption DEF PayInv, SemInv, ChargeInv

LEMMA FailureKeeps ==
  ASSUME PayInv, NEW p \in Purchases, Buying(p), BuyFails(p),
         UNCHANGED <<swapPc, disk, charged>>
  PROVE  PayInv'
<1>1. /\ DOMAIN tx' = TxNames /\ tx'["buyBooty"] = tx["buyBooty"] /\ tx'["buy"] = None
  BY UnderWay, OneForgotten DEF BuyFails, TxNames
<1>2. BuyMoves(p, "failed") /\ sem' = None /\ boot' \notin {"locked", "start", "buys"}
  BY UnderWay DEF BuyFails, BootAfter
<1>3. "failed" \in BuyStates /\ "failed" \in BuyEnded /\ sem \in {None, p}
  BY UnderWay DEF BuyStates, BuyEnded
<1>4. QED
  BY <1>1, <1>2, <1>3, BuyKeeps

\* A step with the next record of a purchase under way, or with the one it has.
LEMMA ProgressKeeps ==
  ASSUME PayInv, NEW p \in Purchases, Buying(p),
         NEW where \in BuyStates \ BuyEnded, BuyMoves(p, where),
         UNCHANGED <<swapPc, disk, sem, boot>>, charged \subseteq charged',
         NEW r, BuyForm(r), r.job = p, Record("buy", r) \/ (tx' = tx /\ r = tx["buy"]),
         where \in {"updated", "store"} => p \in charged'
  PROVE  PayInv'
<1>1. DOMAIN tx' = TxNames /\ tx'["buyBooty"] = tx["buyBooty"] /\ tx'["buy"] = r
  BY UnderWay, OneRecord DEF TxNames, RecordsOK
<1>2. sem \in {None, p} /\ boot' \notin {"locked", "start", "buys"}
  BY UnderWay
<1>3. where \notin BuyEnded /\ where # "done" /\ sem' = p
  BY UnderWay DEF BuyEnded
<1>4. BuyForm(tx["buy"])'
  BY <1>1 DEF BuyForm
<1>5. QED
  BY <1>1, <1>2, <1>3, <1>4, BuyKeeps

LEMMA PurchaseKeeps ==
  ASSUME PayInv, NEW p \in Purchases, BuyProceeds(p) \/ BuyThrows(p),
         UNCHANGED swapPc
  PROVE  PayInv'
<1>0. ASSUME Buying(p), tx' = tx, UNCHANGED <<disk, sem, boot, charged>>,
             NEW where \in {"thread", "update", "close", "deposit", "read"}, BuyMoves(p, where)
      PROVE  PayInv'
  <2>1. BuyForm(tx["buy"]) /\ tx["buy"].job = p
    BY <1>0, UnderWay
  <2>2. where \in BuyStates \ BuyEnded /\ where \notin {"updated", "store"}
    BY DEF BuyStates, BuyEnded
  <2>3. QED
    BY <1>0, <2>1, <2>2, ProgressKeeps
<1>1. CASE GetExistingChannel(p)
  <2>1. Buying(p)
    BY <1>1 DEF GetExistingChannel, Buying, BuyEnded
  <2>2. CASE ~Open
    BY <1>1, <2>1, <2>2, FailureKeeps DEF GetExistingChannel
  <2>3. CASE Open
    <3> DEFINE r == BuyRecord(1, p, lc, None)
    <3>1. BuyForm(r) /\ r.job = p
      BY NextRecord
    <3>2. /\ Record("buy", r) /\ BuyMoves(p, "thread")
          /\ UNCHANGED <<disk, sem, boot, charged>>
      BY <1>1, <2>3 DEF GetExistingChannel
    <3>3. "thread" \in BuyStates \ BuyEnded
      BY DEF BuyStates, BuyEnded
    <3> HIDE DEF r
    <3>4. QED
      BY <2>1, <3>1, <3>2, <3>3, ProgressKeeps
  <2>4. QED
    BY <2>2, <2>3
<1>2. CASE GetVC(p)
  <2>1. Buying(p) /\ UNCHANGED <<disk, sem, boot, charged>>
    BY <1>2 DEF GetVC, Buying, BuyEnded
  <2>2. CASE Affords(p)
    <3> DEFINE r == BuyRecord(2, p, tx["buy"].lc, threads[Orders[p].to])
    <3>1. BuyForm(r) /\ r.job = p
      BY NextRecord
    <3>2. Record("buy", r) /\ BuyMoves(p, "update")
      BY <1>2, <2>2 DEF GetVC
    <3>3. "update" \in BuyStates \ BuyEnded
      BY DEF BuyStates, BuyEnded
    <3> HIDE DEF r
    <3>4. QED
      BY <2>1, <3>1, <3>2, <3>3, ProgressKeeps
  <2>3. CASE ~Affords(p)
    BY <1>0, <1>2, <2>1, <2>3 DEF GetVC
  <2>4. QED
    BY <2>2, <2>3
<1>3. CASE CloseForNew(p)
  BY <1>0, <1>3 DEF CloseForNew, worker, Buying, BuyEnded
<1>4. CASE OpenThread(p)
  <2>1. Buying(p)
    BY <1>4 DEF OpenThread, Buying, BuyEnded
  <2>2. CASE ~Open \/ Orders[p].price > lc.A[Orders[p].cur] \/ threads[Orders[p].to] # None
    BY <1>4, <2>1, <2>2, FailureKeeps DEF OpenThread
  <2>3. CASE ~(~Open \/ Orders[p].price > lc.A[Orders[p].cur] \/ threads[Orders[p].to] # None)
    BY <1>0, <1>4, <2>1, <2>3 DEF OpenThread
  <2>4. QED
    BY <2>2, <2>3
<1>5. CASE ReadThread(p)
  <2>1. Buying(p)
    BY <1>5 DEF ReadThread, Buying, BuyEnded
  <2>2. CASE threads[Orders[p].to] = None
    BY <1>5, <2>1, <2>2, FailureKeeps DEF ReadThread
  <2>3. CASE threads[Orders[p].to] # None
    <3> DEFINE r == BuyRecord(2, p, lc, threads[Orders[p].to])
    <3>1. BuyForm(r) /\ r.job = p
      BY NextRecord
    <3>2. /\ Record("buy", r) /\ BuyMoves(p, "update")
          /\ UNCHANGED <<disk, sem, boot, charged>>
      BY <1>5, <2>3 DEF ReadThread
    <3>3. "update" \in BuyStates \ BuyEnded
      BY DEF BuyStates, BuyEnded
    <3> HIDE DEF r
    <3>4. QED
      BY <2>1, <3>1, <3>2, <3>3, ProgressKeeps
  <2>4. QED
    BY <2>2, <2>3
<1>6. CASE UpdateBalance(p)
  <2>1. Buying(p) /\ UNCHANGED disk
    BY <1>6 DEF UpdateBalance, Buying, BuyEnded
  <2>2. CASE BuyFails(p) /\ UNCHANGED charged
    BY <2>1, <2>2, FailureKeeps
  <2>3. CASE charged' = charged \cup {p} /\ BuyMoves(p, "updated") /\ UNCHANGED <<tx, sem, boot>>
    <3>1. "updated" \in BuyStates \ BuyEnded
      BY DEF BuyStates, BuyEnded
    <3>2. BuyForm(tx["buy"]) /\ tx["buy"].job = p
      BY <2>1, UnderWay
    <3>3. QED
      BY <2>1, <2>3, <3>1, <3>2, ProgressKeeps
  <2>4. QED
    BY <1>6, <2>2, <2>3 DEF UpdateBalance
<1>7. CASE RecordUpdate(p)
  <2>1. Buying(p) /\ buyPc[p] = "updated"
    BY <1>7 DEF RecordUpdate, Buying, BuyEnded
  <2> DEFINE r == BuyRecord(3, p, tx["buy"].lc, tx["buy"].vc)
  <2>2. p \in charged
    BY <2>1 DEF PayInv, ChargeInv
  <2>3. BuyForm(r) /\ r.job = p
    BY <2>2, NextRecord
  <2>4. /\ Record("buy", r) /\ BuyMoves(p, "store")
        /\ UNCHANGED <<disk, sem, boot, charged>>
    BY <1>7 DEF RecordUpdate
  <2>5. "store" \in BuyStates \ BuyEnded
    BY DEF BuyStates, BuyEnded
  <2> HIDE DEF r
  <2>6. QED
    BY <2>1, <2>2, <2>3, <2>4, <2>5, ProgressKeeps
<1>8. CASE UpdateStore(p)
  <2>1. Buying(p) /\ buyPc[p] = "store"
    BY <1>8 DEF UpdateStore, Buying, BuyEnded
  <2>2. p \in charged
    BY <2>1 DEF PayInv, ChargeInv
  <2>3. /\ DOMAIN tx' = TxNames /\ tx'["buyBooty"] = tx["buyBooty"] /\ tx'["buy"] = None
    BY <1>8, <2>1, UnderWay, OneForgotten DEF UpdateStore, TxNames
  <2>4. /\ BuyMoves(p, "done") /\ sem' = None /\ UNCHANGED <<disk, charged>>
        /\ boot' \notin {"locked", "start", "buys"}
    BY <1>8, <2>1, UnderWay DEF UpdateStore, BootAfter
  <2>5. "done" \in BuyStates /\ "done" \in BuyEnded /\ sem \in {None, p}
    BY <2>1, UnderWay DEF BuyStates, BuyEnded
  <2>6. QED
    BY <2>2, <2>3, <2>4, <2>5, BuyKeeps
<1>9. CASE BuyThrows(p)
  BY <1>9, FailureKeeps DEF BuyThrows, Buying, BuyEnded
<1>10. QED
  BY <1>1, <1>2, <1>3, <1>4, <1>5, <1>6, <1>7, <1>8, <1>9 DEF BuyProceeds

LEMMA RequestKeeps ==
  ASSUME PayInv, NEW p \in Purchases, RequestBuy(p), UNCHANGED swapPc
  PROVE  PayInv'
<1>1. CASE sem # None
  <2>1. /\ BuyMoves(p, "refused") /\ ~Buying(p)
        /\ UNCHANGED <<tx, disk, sem, boot, charged>>
    BY <1>1 DEF RequestBuy, Buying, BuyEnded
  <2>2. /\ buyPc' \in [Purchases -> BuyStates]
        /\ buyPc'[p] = "refused"
        /\ \A q \in Purchases : q # p => buyPc'[q] = buyPc[q]
    BY <2>1 DEF PayInv, SemInv, BuyMoves, BuyStates, BuyEnded
  <2>3. \A q \in Purchases : Buying(q)' <=> Buying(q)
    BY <2>1, <2>2 DEF Buying, BuyEnded
  <2>4. SemInv'
    BY <2>1, <2>2, <2>3 DEF PayInv, SemInv, Swapping
  <2>5. ChargeInv'
    BY <2>1, <2>2, <2>3 DEF PayInv, ChargeInv, RecordsOK, BuyForm
  <2>6. QED
    BY <2>4, <2>5 DEF PayInv
<1>2. CASE sem = None
  <2> DEFINE r == BuyRecord(0, p, None, None)
  <2>1. /\ sem' = p /\ Record("buy", r) /\ BuyMoves(p, "channel")
        /\ boot = "ready" /\ UNCHANGED <<disk, boot, charged>>
    BY <1>2 DEF RequestBuy
  <2>2. DOMAIN tx' = TxNames /\ tx'["buyBooty"] = tx["buyBooty"] /\ tx'["buy"] = r
    BY <2>1, OneRecord DEF TxNames, PayInv, ChargeInv
  <2>3. BuyForm(tx["buy"])' /\ tx'["buy"].job = p
    BY <2>1, <2>2 DEF BuyForm, BuyRecord
  <2>4. "channel" \in BuyStates /\ "channel" \notin BuyEnded
    BY DEF BuyStates, BuyEnded
  <2> HIDE DEF r
  <2>5. QED
    BY <1>2, <2>1, <2>2, <2>3, <2>4, BuyKeeps
<1>3. QED
  BY <1>1, <1>2

LEMMA BootKeeps ==
  ASSUME PayInv, BootProceeds, UNCHANGED swapPc
  PROVE  PayInv'
<1>1. CASE SetChannel \/ SetChannelFails
  <2>1. /\ boot = "start" /\ boot' \in {"ready", "buys", "rejected"}
        /\ boot' = "buys" => tx["buy"] # None
        /\ UNCHANGED <<tx, disk, buyPc, sem, charged>>
    BY <1>1 DEF SetChannel, SetChannelFails, worker
  <2>2. SemInv'
    BY <2>1 DEF PayInv, SemInv, Buying, Swapping
  <2>3. ChargeInv'
    BY <2>1 DEF PayInv, ChargeInv, RecordsOK, BuyForm, Buying
  <2>4. QED
    BY <2>2, <2>3 DEF PayInv
<1>2. ASSUME NEW p \in Purchases, RestartBuy(p) PROVE PayInv'
  <2> DEFINE where == <<"channel", "thread", "update", "store">>[tx["buy"].index + 1]
  <2>1. /\ boot = "buys" /\ p = tx["buy"].job /\ sem = None /\ sem' = p
        /\ boot' = "buying" /\ BuyMoves(p, where) /\ UNCHANGED <<tx, disk, charged>>
    BY <1>2 DEF RestartBuy, worker
  <2>2. BuyForm(tx["buy"]) /\ DOMAIN tx = TxNames
    BY <2>1 DEF PayInv, ChargeInv, RecordsOK
  <2>3. /\ where \in {"channel", "thread", "update", "store"}
        /\ where = "store" => tx["buy"].index = 3
    <3>1. tx["buy"].index \in 0 .. 3
      BY <2>2 DEF BuyForm
    <3>2. QED
      BY <3>1
  <2>4. where = "store" => p \in charged
    BY <2>1, <2>2, <2>3 DEF BuyForm
  <2>5. where \in BuyStates /\ where \notin BuyEnded /\ where \notin {"updated", "done"}
    BY <2>3 DEF BuyStates, BuyEnded
  <2>6. BuyForm(tx["buy"])' /\ tx'["buy"].job = p
    BY <2>1, <2>2 DEF BuyForm
  <2> HIDE DEF where
  <2>7. QED
    BY <2>1, <2>2, <2>4, <2>5, <2>6, BuyKeeps
<1>3. QED
  BY <1>1, <1>2 DEF BootProceeds
------------------------------------------------------------------------------
(* Deposits and withdrawals *)

LEMMA SwapStepKeeps ==
  ASSUME PayInv, SwapProceeds \/ SwapThrows, LeavesSem, UNCHANGED <<buyPc, boot, charged>>
  PROVE  PayInv'
<1> USE DEF SwapStored
<1>1. Swapping /\ UNCHANGED disk
  BY DEF SwapProceeds, PrepareSwap, ExecuteSwap, PopulateSwap, SwapThrows, Swapping, worker
<1>2. /\ sem = TopUp /\ boot \notin {"locked", "start", "buys"} /\ RecordsOK(tx)
  BY <1>1, PurchasesAssumption DEF PayInv, SemInv, ChargeInv
<1>3. swapPc' \in {"idle", "swap", "populate"}
  BY DEF SwapProceeds, PrepareSwap, ExecuteSwap, PopulateSwap, SwapThrows
<1>4. sem' = IF swapPc' = "idle" THEN None ELSE TopUp
  BY <1>2 DEF LeavesSem
<1>5. \/ tx' = tx
      \/ Record("buyBooty", [index |-> 1])
      \/ Forget("buyBooty")
  BY DEF SwapProceeds, PrepareSwap, ExecuteSwap, PopulateSwap, SwapThrows, worker
<1>6. /\ DOMAIN tx' = TxNames /\ tx'["buy"] = tx["buy"]
      /\ tx'["buyBooty"] # None => tx'["buyBooty"].index \in 0 .. 1
  <2>1. CASE tx' = tx
    BY <1>2, <2>1 DEF RecordsOK
  <2>2. CASE Record("buyBooty", [index |-> 1])
    BY <1>2, <2>2, OneRecord DEF TxNames
  <2>3. CASE Forget("buyBooty")
    BY <1>2, <2>3, OneForgotten DEF TxNames
  <2>4. QED
    BY <1>5, <2>1, <2>2, <2>3
<1>7. QED
  BY <1>1, <1>2, <1>3, <1>4, <1>6, SwapKeeps

LEMMA DepositKeeps ==
  ASSUME PayInv, NEW amount, Deposit(amount)
  PROVE  PayInv'
<1>1. /\ boot = "ready" /\ sem = None /\ sem' = TopUp
      /\ UNCHANGED <<buyPc, boot, charged, disk>>
  BY DEF Deposit, StartSwap
<1>2. RecordsOK(tx)
  BY DEF PayInv, ChargeInv
<1>3. CASE tx["buyBooty"] = None
  <2>1. Record("buyBooty", [index |-> 0]) /\ swapPc' = "prepare"
    BY <1>3 DEF Deposit, StartSwap
  <2>2. /\ DOMAIN tx' = TxNames /\ tx'["buy"] = tx["buy"]
        /\ tx'["buyBooty"].index \in 0 .. 1
    BY <1>2, <2>1, OneRecord DEF TxNames
  <2>3. QED
    BY <1>1, <2>1, <2>2, SwapKeeps
<1>4. CASE tx["buyBooty"] # None
  <2>1. tx' = tx /\ swapPc' = <<"prepare", "populate">>[tx["buyBooty"].index + 1]
    BY <1>4 DEF Deposit, StartSwap
  <2>2. tx["buyBooty"].index \in 0 .. 1 /\ DOMAIN tx = TxNames
    BY <1>2, <1>4 DEF RecordsOK
  <2>3. swapPc' \in {"prepare", "populate"}
    BY <2>1, <2>2
  <2>4. QED
    BY <1>1, <2>1, <2>2, <2>3, SwapKeeps
<1>5. QED
  BY <1>3, <1>4

\* A withdrawal keeps records of its own.
LEMMA SendRecords ==
  ASSUME RecordsOK(tx),
         SendEntireBalance \/ RestartSend \/ SendProceeds \/ SendThrows \/ CloseThrows
  PROVE  /\ DOMAIN tx' = TxNames /\ tx'["buy"] = tx["buy"] /\ tx'["buyBooty"] = tx["buyBooty"]
         /\ disk' = disk
<1>1. ASSUME NEW n \in {"closeAndReopen", "withdrawal"}, NEW r, Record(n, r)
      PROVE  DOMAIN tx' = TxNames /\ tx'["buy"] = tx["buy"] /\ tx'["buyBooty"] = tx["buyBooty"]
  BY <1>1, OneRecord DEF TxNames
<1>2. ASSUME NEW n \in {"closeAndReopen", "withdrawal"}, Forget(n)
      PROVE  DOMAIN tx' = TxNames /\ tx'["buy"] = tx["buy"] /\ tx'["buyBooty"] = tx["buyBooty"]
  BY <1>2, OneForgotten DEF TxNames
<1>3. DOMAIN tx = TxNames
  BY DEF RecordsOK
<1>4. CASE SendEntireBalance
  BY <1>1, <1>4 DEF SendEntireBalance
<1>5. CASE RestartSend
  BY <1>3, <1>5 DEF RestartSend, worker
<1>6. CASE CloseThreads \/ ReadForSwap \/ ReadAfterSwap \/ ComputeTotal
  BY <1>3, <1>6 DEF CloseThreads, ReadForSwap, ReadAfterSwap, ComputeTotal, worker
<1>7. CASE SellBooty
  BY <1>2, <1>3, <1>7 DEF SellBooty, SendFails
<1>8. CASE ReadForUpdate
  BY <1>2, <1>3, <1>8 DEF ReadForUpdate, SendFails
<1>9. CASE SendUpdate
  BY <1>2, <1>3, <1>9 DEF SendUpdate, SendFails
<1>10. CASE PopulateAfterSend \/ WaitForUpdate \/ ChannelGone
  BY <1>1, <1>10 DEF PopulateAfterSend, WaitForUpdate, ChannelGone
<1>11. CASE Execute
  BY <1>1, <1>3, <1>11 DEF Execute
<1>12. CASE HoldLock
  BY <1>3, <1>12 DEF HoldLock
<1>13. CASE CloseListedThreads \/ Withdraw \/ NotCosigned \/ PingChainsaw
  BY <1>1, <1>13 DEF CloseListedThreads, Withdraw, NotCosigned, PingChainsaw, NextCloseMethod
<1>14. CASE UpdateRedux
  BY <1>2, <1>14 DEF UpdateRedux
<1>15. CASE OpenChannel
  BY <1>2, <1>15 DEF OpenChannel
<1>16. CASE SendThrows
  BY <1>2, <1>16 DEF SendThrows, SendFails
<1>17. CASE CloseThrows
  BY <1>3, <1>17 DEF CloseThrows, TxNames
<1>18. QED
  BY <1>4, <1>5, <1>6, <1>7, <1>8, <1>9, <1>10, <1>11, <1>12, <1>13, <1>14, <1>15, <1>16, <1>17
  DEF SendProceeds

LEMMA SendKeeps ==
  ASSUME PayInv, UNCHANGED <<buyPc, sem, charged, swapPc, boot>>,
         SendEntireBalance \/ SendProceeds \/ SendThrows \/ CloseThrows
  PROVE  PayInv'
<1>1. RecordsOK(tx)
  BY DEF PayInv, ChargeInv
<1>2. /\ DOMAIN tx' = TxNames /\ tx'["buy"] = tx["buy"] /\ tx'["buyBooty"] = tx["buyBooty"]
      /\ disk' = disk
  BY <1>1, SendRecords
<1>3. QED
  BY <1>2, ElsewhereKeeps

------------------------------------------------------------------------------
(* Crashes *)

\* A crash ends what was under way and leaves the semaphore; the records are those
\* that were written.
LEMMA CrashKeeps ==
  ASSUME PayInv, Crash
  PROVE  PayInv'
<1>1. /\ boot' = "locked" /\ sem' = None /\ swapPc' = "killed" /\ charged' = charged
      /\ buyPc' = [p \in Purchases |-> IF Buying(p) THEN "killed" ELSE buyPc[p]]
      /\ tx' = disk
      /\ disk' = disk \/ disk' = [n \in TxNames |-> None]
  BY DEF Crash
<1>2. \A p \in Purchases : ~Buying(p)'
  BY <1>1 DEF Buying, BuyEnded
<1>3. SemInv'
  <2>1. buyPc' \in [Purchases -> BuyStates]
    BY <1>1 DEF PayInv, SemInv, BuyStates, BuyEnded
  <2>2. QED
    BY <1>1, <1>2, <2>1, PurchasesAssumption DEF SemInv, Swapping
<1>4. RecordsOK(tx)' /\ RecordsOK(disk)'
  <2>1. RecordsOK(tx)'
    BY <1>1 DEF PayInv, ChargeInv, RecordsOK, BuyForm
  <2>2. CASE disk' = disk
    BY <1>1, <2>1, <2>2 DEF RecordsOK, BuyForm
  <2>3. CASE disk' = [n \in TxNames |-> None]
    <3>1. "buy" \in TxNames /\ "buyBooty" \in TxNames
      BY DEF TxNames
    <3>2. DOMAIN disk' = TxNames /\ disk'["buy"] = None /\ disk'["buyBooty"] = None
      BY <2>3, <3>1
    <3>3. RecordsOK(disk)'
      BY <3>2 DEF RecordsOK
    <3>4. QED
      BY <2>1, <3>3
  <2>4. QED
    BY <1>1, <2>1, <2>2, <2>3
<1>5. \A p \in Purchases : buyPc'[p] \in {"updated", "store", "done"} => p \in charged'
  BY <1>1 DEF PayInv, ChargeInv
<1>6. QED
  BY <1>1, <1>2, <1>3, <1>4, <1>5 DEF PayInv, ChargeInv

LEMMA UnlockKeeps ==
  ASSUME PayInv, Unlock
  PROVE  PayInv'
<1>1. /\ boot = "locked" /\ boot' = "start" /\ swapPc' = "idle"
      /\ UNCHANGED <<buyPc, sem, charged>>
  BY DEF Unlock
<1>2. RecordsOK(tx)
  BY DEF PayInv, ChargeInv
<1>3. /\ DOMAIN tx' = TxNames /\ tx'["buy"] = tx["buy"] /\ tx'["buyBooty"] = tx["buyBooty"]
      /\ disk' = disk
  <2>1. CASE sendPc = "killed"
    BY <1>2, <2>1, SendRecords DEF Unlock
  <2>2. CASE sendPc # "killed"
    BY <1>2, <2>2 DEF Unlock, worker, RecordsOK
  <2>3. QED
    BY <2>1, <2>2
<1>4. sem = None
  BY <1>1 DEF PayInv, SemInv
<1>5. SemInv'
  BY <1>1, <1>4, PurchasesAssumption DEF PayInv, SemInv, Buying, Swapping
<1>6. ChargeInv'
  BY <1>1, <1>3 DEF PayInv, ChargeInv, RecordsOK, BuyForm, Buying
<1>7. QED
  BY <1>5, <1>6 DEF PayInv

------------------------------------------------------------------------------
LEMMA PayInvInductive == PayInv /\ [Next]_vars => PayInv'
<1> SUFFICES ASSUME PayInv, [Next]_vars PROVE PayInv'
  OBVIOUS
<1>1. CASE Buy
  BY <1>1, RequestKeeps DEF Buy, BuyFrame, swapVars
<1>2. CASE BuyGoesOn \/ BuyGivesUp
  BY <1>2, PurchaseKeeps DEF BuyGoesOn, BuyGivesUp, BuyFrame, swapVars
<1>3. CASE BootGoesOn
  BY <1>3, BootKeeps DEF BootGoesOn, BuyFrame, swapVars
<1>4. ASSUME NEW amount \in TopUps, Deposit(amount) PROVE PayInv'
  BY <1>4, DepositKeeps
<1>5. CASE SwapGoesOn \/ SwapGivesUp
  BY <1>5, SwapStepKeeps DEF SwapGoesOn, SwapGivesUp, SwapFrame
<1>6. CASE Send \/ SendGoesOn \/ SendGivesUp
  BY <1>6, SendKeeps DEF Send, SendGoesOn, SendGivesUp, SendFrame, buyVars, swapVars
<1>7. CASE Merge
  <2>1. UNCHANGED <<tx, disk, buyPc, sem, charged, swapPc, boot>>
    BY <1>7 DEF Merge, HubMerges, worker, buyVars, swapVars
  <2>2. DOMAIN tx = TxNames
    BY DEF PayInv, ChargeInv, RecordsOK
  <2>3. QED
    BY <2>1, <2>2, ElsewhereKeeps
<1>8. CASE Persist
  <2>1. UNCHANGED <<tx, buyPc, sem, charged, swapPc, boot>> /\ disk' = tx
    BY <1>8 DEF Persist, FlushTx, buyVars, swapVars
  <2>2. DOMAIN tx = TxNames
    BY DEF PayInv, ChargeInv, RecordsOK
  <2>3. QED
    BY <2>1, <2>2, ElsewhereKeeps
<1>9. CASE Crash
  BY <1>9, CrashKeeps
<1>10. CASE Unlock
  BY <1>10, UnlockKeeps
<1>11. CASE UNCHANGED vars
  <2>1. UNCHANGED <<tx, disk, buyPc, sem, charged, swapPc, boot>>
    BY <1>11 DEF vars, worker, buyVars, swapVars
  <2>2. DOMAIN tx = TxNames
    BY DEF PayInv, ChargeInv, RecordsOK
  <2>3. QED
    BY <2>1, <2>2, ElsewhereKeeps
<1>12. QED
  BY <1>1, <1>2, <1>3, <1>4, <1>5, <1>6, <1>7, <1>8, <1>9, <1>10, <1>11 DEF Next

LEMMA PayInvariant == Spec => []PayInv
  BY PayInvInit, PayInvInductive, PTL DEF Spec

\* However purchases, deposits and withdrawals fail, are killed and resumed, the
\* semaphore is taken exactly while a purchase or a deposit is under way, and there
\* is only one of them (MicropaymentsController.ts:75-119, takeSem.ts:3-27).
THEOREM OneAtATime == Spec => []OneUnderSemaphore
<1>1. PayInv => OneUnderSemaphore
  <2> SUFFICES ASSUME PayInv PROVE OneUnderSemaphore
    OBVIOUS
  <2>1. {p \in Purchases : Buying(p)} = (IF sem \in Purchases THEN {sem} ELSE {})
    BY DEF PayInv, SemInv
  <2>2. (IF Swapping THEN {TopUp} ELSE {}) = (IF sem = TopUp THEN {TopUp} ELSE {})
    BY DEF PayInv, SemInv
  <2>3. sem \in Purchases \cup {None, TopUp}
    BY DEF PayInv, SemInv
  <2>4. QED
    BY <2>1, <2>2, <2>3, PurchasesAssumption DEF OneUnderSemaphore
<1>2. QED
  BY <1>1, PayInvariant, PTL

\* A purchase that resolves was accepted by the hub, also when it was resumed from a
\* record that an earlier session of the worker left (BuyTransaction.ts:118-126 and
\* 199-311).
THEOREM ResolvedPurchasesAreCharged == Spec => []DoneMeansCharged
<1>1. PayInv => DoneMeansCharged
  BY DEF PayInv, ChargeInv, DoneMeansCharged
<1>2. QED
  BY <1>1, PayInvariant, PTL

------------------------------------------------------------------------------
(* The lock of the ChannelPopulator *)

LEMMA LeakInductive ==
  WithdrawalLeaksOnlyOnFailure /\ [Next]_vars => WithdrawalLeaksOnlyOnFailure'
<1> SUFFICES ASSUME WithdrawalLeaksOnlyOnFailure, [Next]_vars
             PROVE  WithdrawalLeaksOnlyOnFailure'
  OBVIOUS
<1> USE DEF WithdrawalLeaksOnlyOnFailure
<1>0. ASSUME UNCHANGED <<lock, holder, sendPc>> PROVE WithdrawalLeaksOnlyOnFailure'
  BY <1>0
<1>1. CASE Buy \/ BuyGoesOn \/ BuyGivesUp \/ BootGoesOn
  <2>1. UNCHANGED lock
    BY <1>1
    DEF Buy, BuyGoesOn, BuyGivesUp, BootGoesOn, RequestBuy, BuyProceeds, BuyThrows, BootProceeds,
        SetChannel, SetChannelFails, RestartBuy, GetExistingChannel, GetVC, CloseForNew,
        OpenThread, ReadThread, UpdateBalance, RecordUpdate, UpdateStore, worker
  <2>2. UNCHANGED sendVars
    BY <1>1 DEF Buy, BuyGoesOn, BuyGivesUp, BootGoesOn, BuyFrame
  <2>3. QED
    BY <1>0, <2>1, <2>2 DEF sendVars
<1>2. ASSUME NEW amount, Deposit(amount) PROVE WithdrawalLeaksOnlyOnFailure'
  BY <1>0, <1>2 DEF Deposit, StartSwap, sendVars
<1>3. CASE SwapGoesOn \/ SwapGivesUp
  BY <1>0, <1>3 DEF SwapGoesOn, SwapGivesUp, SwapFrame, SwapProceeds, PrepareSwap, ExecuteSwap,
                    PopulateSwap, SwapThrows, worker, sendVars
<1>4. CASE Send
  BY <1>4 DEF Send, SendEntireBalance
<1>5. CASE SendGoesOn
  <2>1. sendPc # "failed"
    BY <1>5 DEF SendGoesOn, SendProceeds, Goes, NextCloseMethod, CloseThreads, ReadForSwap,
                SellBooty, ReadAfterSwap, ComputeTotal, ReadForUpdate, SendUpdate,
                PopulateAfterSend, WaitForUpdate, Execute, HoldLock, CloseListedThreads,
                Withdraw, NotCosigned, PingChainsaw, UpdateRedux, ChannelGone, OpenChannel
  <2>2. \/ UNCHANGED <<lock, holder>>
        \/ holder' = TRUE
        \/ lock' = None
    BY <1>5 DEF SendGoesOn, SendProceeds, NextCloseMethod, CloseThreads, ReadForSwap,
                SellBooty, ReadAfterSwap, ComputeTotal, ReadForUpdate, SendUpdate,
                PopulateAfterSend, WaitForUpdate, Execute, HoldLock, CloseListedThreads,
                Withdraw, NotCosigned, PingChainsaw, UpdateRedux, ChannelGone, OpenChannel,
                worker
  <2>3. QED
    BY <2>1, <2>2
<1>6. CASE SendGivesUp
  BY <1>6 DEF SendGivesUp, SendThrows, CloseThrows, SendFails
<1>7. CASE Merge \/ Persist
  BY <1>0, <1>7 DEF Merge, Persist, HubMerges, FlushTx, worker, sendVars
<1>8. CASE Crash
  BY <1>8 DEF Crash
<1>9. CASE Unlock
  <2>1. CASE sendPc = "killed"
    BY <1>9, <2>1 DEF Unlock, RestartSend, worker
  <2>2. CASE sendPc # "killed"
    BY <1>0, <1>9, <2>2 DEF Unlock, worker, sendVars
  <2>3. QED
    BY <2>1, <2>2
<1>10. CASE UNCHANGED vars
  BY <1>0, <1>10 DEF vars, worker, sendVars
<1>11. QED
  BY <1>1, <1>2, <1>3, <1>4, <1>5, <1>6, <1>7, <1>8, <1>9, <1>10 DEF Next

\* The lock stays taken without a holder only after a withdrawal has failed
\* (CloseChannelTransaction.ts:65-68 and 121-137).
THEOREM OnlyFailureLeaks == Spec => []WithdrawalLeaksOnlyOnFailure
<1>1. Init => WithdrawalLeaksOnlyOnFailure
  BY DEF Init, InitLedger, WithdrawalLeaksOnlyOnFailure
<1>2. QED
  BY <1>1, LeakInductive, PTL DEF Spec

------------------------------------------------------------------------------
(* Sums *)

\* Induction over the natural numbers, stated of a set.
LEMMA Countdown ==
  ASSUME NEW B \in SUBSET Nat, 0 \in B, \A n \in B : n + 1 \in B
  PROVE  B = Nat
<1> SUFFICES ASSUME Nat \ B # {} PROVE FALSE
  OBVIOUS
<1> DEFINE R == OpToRel(<, Nat)
<1>1. IsWellFoundedOn(R, Nat)
  BY NatLessThanWellFounded
<1> HIDE DEF R
<1>2. PICK n \in Nat \ B : \A m \in Nat \ B : ~(<<m, n>> \in R)
  BY <1>1, WFMin
<1>3. n # 0 /\ n - 1 \in Nat
  BY <1>2
<1>4. <<n - 1, n>> \in R
  BY <1>2, <1>3 DEF R, OpToRel
<1>5. n - 1 \in B
  BY <1>2, <1>3, <1>4
<1>6. QED
  BY <1>2, <1>3, <1>5

Picked(T) == CHOOSE x \in T : TRUE
IsSum(f, S, w) == f = [T \in SUBSET S |-> IF T = {} THEN 0
                                          ELSE w[Picked(T)] + f[T \ {Picked(T)}]]

\* MapThenSumSet() chooses a function that satisfies the equation.
LEMMA SumIs ==
  ASSUME NEW S, NEW w
  PROVE  SumOver(S, w) = (CHOOSE f : IsSum(f, S, w))[S]
BY DEF SumOver, MapThenSumSet, MapThenFoldSet, IsSum, Picked

\* The element that the sum takes first is one of the set.
LEMMA PickedIn == \A T : T # {} => Picked(T) \in T
BY DEF Picked

\* What holds of the empty set, and of a set when it holds of the set without the element
\* picked, holds of all subsets of a finite set.
LEMMA SubsetInduction ==
  ASSUME NEW S, IsFiniteSet(S), NEW B, {} \in B,
         \A T \in SUBSET S : T # {} /\ T \ {Picked(T)} \in B => T \in B
  PROVE  SUBSET S \subseteq B
<1> DEFINE Upto == {n \in Nat : \A T \in SUBSET S : Cardinality(T) = n => T \in B}
<1>1. \A T \in SUBSET S : IsFiniteSet(T) /\ Cardinality(T) \in Nat
  BY FS_Subset, FS_CardinalityType
<1>2. 0 \in Upto
  BY <1>1, FS_EmptySet
<1>3. ASSUME NEW n \in Upto PROVE n + 1 \in Upto
  <2>1. SUFFICES ASSUME NEW T \in SUBSET S, Cardinality(T) = n + 1 PROVE T \in B
    OBVIOUS
  <2>2. T # {}
    BY <1>1, <2>1, FS_EmptySet
  <2>3. Picked(T) \in T
    BY <2>2, PickedIn
  <2>4. Cardinality(T \ {Picked(T)}) = n
    <3>1. Cardinality(T \ {Picked(T)}) = Cardinality(T) - 1
      BY <1>1, <2>3, FS_RemoveElement
    <3>2. QED
      BY <2>1, <3>1
  <2>5. QED
    BY <2>2, <2>4
<1>4. Upto = Nat
  <2> HIDE DEF Upto
  <2>1. Upto \in SUBSET Nat
    BY DEF Upto
  <2>2. QED
    BY <1>2, <1>3, <2>1, Countdown
<1>5. QED
  BY <1>1, <1>4

\* The recursive function that MapThenSumSet is defined by exists.
LEMMA SumExists ==
  ASSUME NEW S, IsFiniteSet(S), NEW w, \A x \in S : w[x] \in Int
  PROVE  \E f : IsSum(f, S, w)
<1> DEFINE D(n) == {T \in SUBSET S : Cardinality(T) <= n}
           Sum(g, T) == IF T = {} THEN 0 ELSE w[Picked(T)] + g[T \ {Picked(T)}]
           Fits(g, n) == g = [T \in D(n) |-> Sum(g, T)]
           Level == {n \in Nat : \E g : Fits(g, n)}
<1>1. \A T \in SUBSET S : IsFiniteSet(T) /\ Cardinality(T) \in Nat
  BY FS_Subset, FS_CardinalityType
<1>2. 0 \in Level
  <2> DEFINE g == [T \in D(0) |-> 0]
  <2>1. \A T \in D(0) : T = {}
    BY <1>1, FS_EmptySet
  <2>2. g = [T \in D(0) |-> Sum(g, T)]
    BY <2>1
  <2>3. QED
    BY <2>2
<1>3. ASSUME NEW n \in Level PROVE n + 1 \in Level
  <2>1. PICK g : g = [T \in D(n) |-> Sum(g, T)]
    OBVIOUS
  <2> DEFINE h == [T \in D(n + 1) |-> Sum(g, T)]
  <2>2. ASSUME NEW T \in D(n + 1) PROVE h[T] = Sum(h, T)
    <3>1. CASE T = {}
      BY <3>1
    <3>2. CASE T # {}
      <4> DEFINE U == T \ {Picked(T)}
      <4>1. Picked(T) \in T /\ U \in SUBSET S
        BY <3>2, PickedIn
      <4>2. Cardinality(U) = Cardinality(T) - 1
        BY <1>1, <4>1, FS_RemoveElement
      <4>3. U \in D(n) /\ U \in D(n + 1)
        BY <1>1, <4>1, <4>2
      <4>4. g[U] = Sum(g, U)
        BY <2>1, <4>3
      <4>5. h[U] = Sum(g, U)
        BY <4>3
      <4>6. h[T] = w[Picked(T)] + g[U]
        BY <3>2
      <4>7. QED
        BY <3>2, <4>4, <4>5, <4>6
    <3>3. QED
      BY <3>1, <3>2
  <2>3. Fits(h, n + 1)
    BY <2>2
  <2> HIDE DEF h, Fits
  <2>4. QED
    BY <2>3
<1>4. Level = Nat
  <2> HIDE DEF Level
  <2>1. Level \in SUBSET Nat
    BY DEF Level
  <2>2. QED
    BY <1>2, <1>3, <2>1, Countdown
<1>5. PICK f : f = [T \in D(Cardinality(S)) |-> Sum(f, T)]
  BY <1>1, <1>4
<1>6. D(Cardinality(S)) = SUBSET S
  BY FS_Subset
<1>7. QED
  BY <1>5, <1>6 DEF IsSum

\* So the sum is what that function gives.
LEMMA SumEquation ==
  ASSUME NEW S, IsFiniteSet(S), NEW w, \A x \in S : w[x] \in Int
  PROVE  \E f : SumOver(S, w) = f[S] /\ IsSum(f, S, w)
<1> DEFINE f == CHOOSE f : IsSum(f, S, w)
<1>1. IsSum(f, S, w)
  BY SumExists
<1>2. SumOver(S, w) = f[S]
  BY SumIs
<1> HIDE DEF f
<1>3. QED
  BY <1>1, <1>2

\* The sum is a whole number, and is not negative when no term is.
LEMMA SumType ==
  ASSUME NEW S, IsFiniteSet(S), NEW w, \A x \in S : w[x] \in Int
  PROVE  /\ SumOver(S, w) \in Int
         /\ (\A x \in S : w[x] >= 0) => SumOver(S, w) >= 0
         /\ (\A x \in S : w[x] = 0) => SumOver(S, w) = 0
<1>1. PICK f : SumOver(S, w) = f[S] /\ IsSum(f, S, w)
  BY SumEquation
<1> DEFINE B == {T \in SUBSET S : /\ f[T] \in Int
                                  /\ (\A x \in S : w[x] >= 0) => f[T] >= 0
                                  /\ (\A x \in S : w[x] = 0) => f[T] = 0}
<1>2. f[{}] = 0
  BY <1>1 DEF IsSum
<1>3. {} \in B
  BY <1>2
<1>4. ASSUME NEW T \in SUBSET S, T # {}, T \ {Picked(T)} \in B PROVE T \in B
  <2>1. f[T] = w[Picked(T)] + f[T \ {Picked(T)}]
    BY <1>1, <1>4 DEF IsSum
  <2>2. Picked(T) \in S
    BY <1>4, PickedIn
  <2>3. QED
    BY <1>4, <2>1, <2>2
<1>5. SUBSET S \subseteq B
  <2> HIDE DEF B
  <2>1. QED
    BY <1>3, <1>4, SubsetInduction
<1>6. QED
  BY <1>1, <1>5

\* When one term changes by d, so does the sum.
LEMMA SumChange ==
  ASSUME NEW S, IsFiniteSet(S), NEW v, \A y \in S : v[y] \in Int, NEW w, NEW x, NEW d \in Int,
         \A y \in S : w[y] = v[y] + (IF y = x THEN d ELSE 0)
  PROVE  SumOver(S, w) = SumOver(S, v) + (IF x \in S THEN d ELSE 0)
<1>0. \A y \in S : w[y] \in Int
  OBVIOUS
<1>1. PICK f : SumOver(S, v) = f[S] /\ IsSum(f, S, v)
  BY SumEquation
<1>2. PICK g : SumOver(S, w) = g[S] /\ IsSum(g, S, w)
  BY <1>0, SumEquation
<1> DEFINE B == {T \in SUBSET S : /\ f[T] \in Int
                                  /\ g[T] = f[T] + (IF x \in T THEN d ELSE 0)}
<1>3. {} \in B
  <2>1. f[{}] = 0 /\ g[{}] = 0
    BY <1>1, <1>2 DEF IsSum
  <2>2. QED
    BY <2>1
<1>4. ASSUME NEW T \in SUBSET S, T # {}, T \ {Picked(T)} \in B PROVE T \in B
  <2> DEFINE y == Picked(T)
             U == T \ {y}
  <2>1. f[T] = v[y] + f[U] /\ g[T] = w[y] + g[U]
    BY <1>1, <1>2, <1>4 DEF IsSum
  <2>2. y \in T /\ y \in S
    BY <1>4, PickedIn
  <2>3. f[U] \in Int /\ g[U] = f[U] + (IF x \in U THEN d ELSE 0)
    BY <1>4
  <2>4. v[y] \in Int /\ w[y] = v[y] + (IF y = x THEN d ELSE 0)
    BY <2>2
  <2>5. x \in T <=> x \in U \/ y = x
    BY <2>2
  <2>6. ~(x \in U /\ y = x)
    OBVIOUS
  <2> HIDE DEF y, U
  <2>7. f[T] \in Int /\ g[T] = f[T] + (IF x \in T THEN d ELSE 0)
    BY <2>1, <2>3, <2>4, <2>5, <2>6
  <2>8. QED
    BY <2>7
<1>5. SUBSET S \subseteq B
  <2> HIDE DEF B
  <2>1. QED
    BY <1>3, <1>4, SubsetInduction
<1>6. QED
  BY <1>1, <1>2, <1>5

------------------------------------------------------------------------------
(* Balances, threads and rounding *)

Amounts == [Cur -> Int]

\* Balances can be added, and subtracted.
LEMMA Vectors ==
  /\ Pairs \subseteq Amounts /\ Nothing \in Pairs
  /\ \A a, b \in Amounts : Plus(a, b) \in Amounts /\ Minus(a, b) \in Amounts
  /\ \A a, b \in Pairs : Plus(a, b) \in Pairs
  /\ \A a \in Amounts : NonNegative(a) => a \in Pairs
  /\ \A c \in Cur, n \in Int : Pair(c, n) \in Amounts
  /\ \A c \in Cur, n \in Nat : Pair(c, n) \in Pairs
<1>1. Pairs \subseteq Amounts /\ Nothing \in Pairs
  BY DEF Pairs, Amounts, Nothing
<1>2. \A a, b \in Amounts : Plus(a, b) \in Amounts /\ Minus(a, b) \in Amounts
  BY DEF Amounts, Plus, Minus
<1>3. \A a, b \in Pairs : Plus(a, b) \in Pairs
  BY DEF Pairs, Plus
<1>4. \A a \in Amounts : NonNegative(a) => a \in Pairs
  BY DEF Amounts, Pairs, NonNegative
<1>5. \A c \in Cur, n \in Int : Pair(c, n) \in Amounts
  BY DEF Amounts, Pair
<1>6. \A c \in Cur, n \in Nat : Pair(c, n) \in Pairs
  BY DEF Pairs, Pair
<1>7. QED
  BY <1>1, <1>2, <1>3, <1>4, <1>5, <1>6

\* What party A has in the thread to r.
Held(ts, r, c) == IF ts[r] = None THEN 0 ELSE ts[r].A[c]

\* It is an amount.
LEMMA HeldType ==
  ASSUME NEW ts \in [Receivers -> Threads \cup {None}], NEW r \in Receivers, NEW c \in Cur
  PROVE  Held(ts, r, c) \in Nat
BY DEF Held, Threads, Pairs

\* And so is the sum over all threads.
LEMMA InThreadsType ==
  ASSUME NEW ts \in [Receivers -> Threads \cup {None}], NEW c \in Cur
  PROVE  InThreads(ts, c) \in Nat
<1> DEFINE w == [r \in Receivers |-> Held(ts, r, c)]
<1>1. InThreads(ts, c) = SumOver(Receivers, w)
  BY DEF InThreads, Held
<1>2. \A r \in Receivers : w[r] \in Int /\ w[r] >= 0
  BY HeldType
<1> HIDE DEF w
<1>3. QED
  BY <1>1, <1>2, SumType, ReceiversAssumption

\* Threads change in one place.
LEMMA InThreadsChange ==
  ASSUME NEW ts \in [Receivers -> Threads \cup {None}],
         NEW us \in [Receivers -> Threads \cup {None}],
         NEW r \in Receivers, NEW c \in Cur,
         \A q \in Receivers \ {r} : Held(us, q, c) = Held(ts, q, c)
  PROVE  InThreads(us, c) = InThreads(ts, c) + Held(us, r, c) - Held(ts, r, c)
<1> DEFINE v == [q \in Receivers |-> Held(ts, q, c)]
           w == [q \in Receivers |-> Held(us, q, c)]
           d == Held(us, r, c) - Held(ts, r, c)
<1>1. InThreads(ts, c) = SumOver(Receivers, v) /\ InThreads(us, c) = SumOver(Receivers, w)
  BY DEF InThreads, Held
<1>2. Held(us, r, c) \in Nat /\ Held(ts, r, c) \in Nat /\ \A q \in Receivers : v[q] \in Int
  BY HeldType
<1>3. d \in Int
  BY <1>2
<1>4. \A q \in Receivers : w[q] = v[q] + (IF q = r THEN d ELSE 0)
  BY <1>2
<1>5. SumOver(Receivers, v) \in Int
  <2> HIDE DEF v
  <2>1. QED
    BY <1>2, SumType, ReceiversAssumption
<1>6. SumOver(Receivers, w) = SumOver(Receivers, v) + d
  <2> HIDE DEF v, w, d
  <2>1. QED
    BY <1>2, <1>3, <1>4, SumChange, ReceiversAssumption
<1>7. QED
  BY <1>1, <1>2, <1>5, <1>6

\* Threads change in nothing but their state.
LEMMA InThreadsSame ==
  ASSUME NEW ts \in [Receivers -> Threads \cup {None}],
         NEW us \in [Receivers -> Threads \cup {None}], NEW c \in Cur,
         \A q \in Receivers : Held(us, q, c) = Held(ts, q, c)
  PROVE  InThreads(us, c) = InThreads(ts, c)
<1> DEFINE v == [q \in Receivers |-> Held(ts, q, c)]
           w == [q \in Receivers |-> Held(us, q, c)]
<1>1. InThreads(ts, c) = SumOver(Receivers, v) /\ InThreads(us, c) = SumOver(Receivers, w)
  BY DEF InThreads, Held
<1>2. v = w
  OBVIOUS
<1>3. QED
  BY <1>1, <1>2

\* No threads hold nothing.
LEMMA NobodyInThreads ==
  ASSUME NEW ts, \A r \in Receivers : ts[r] = None, NEW c
  PROVE  InThreads(ts, c) = 0
<1> DEFINE w == [r \in Receivers |-> Held(ts, r, c)]
<1>1. InThreads(ts, c) = SumOver(Receivers, w)
  BY DEF InThreads, Held
<1>2. \A r \in Receivers : w[r] = 0
  BY DEF Held
<1> HIDE DEF w
<1>3. QED
  BY <1>1, <1>2, SumType, ReceiversAssumption

\* A state that the hub accepts is one of a channel.
LEMMA AcceptedType ==
  ASSUME NEW a \in Amounts, NEW i \in Amounts, NonNegative(a), NonNegative(i)
  PROVE  [A |-> a, I |-> i] \in Ledgers
BY Vectors DEF Ledgers

\* Rounding is to the nearest.
LEMMA Rounds ==
  ASSUME NEW n \in Int, NEW d \in Nat \ {0}
  PROVE  /\ RoundDiv(n, d) \in Int
         /\ 2 * (d * RoundDiv(n, d)) <= 2 * n + d
         /\ 2 * (d * RoundDiv(n, d)) >= 2 * n - d
<1>1. CASE n >= 0
  <2> DEFINE m == 2 * n + d
             q == m \div (2 * d)
  <2>1. m \in Int /\ 2 * d \in Nat \ {0}
    OBVIOUS
  <2>2. q \in Int /\ (2 * d) * q <= m /\ m < (2 * d) * q + 2 * d
    BY <2>1
  <2>3. RoundDiv(n, d) = q
    BY <1>1 DEF RoundDiv
  <2>4. (2 * d) * q = 2 * (d * q)
    BY <2>2
  <2>5. QED
    BY <2>2, <2>3, <2>4
<1>2. CASE n < 0
  <2> DEFINE m == d - 2 * n
             q == m \div (2 * d)
  <2>1. m \in Int /\ 2 * d \in Nat \ {0}
    OBVIOUS
  <2>2. q \in Int /\ (2 * d) * q <= m /\ m < (2 * d) * q + 2 * d
    BY <2>1
  <2>3. RoundDiv(n, d) = -q
    BY <1>2 DEF RoundDiv
  <2>4. (2 * d) * q = 2 * (d * q) /\ d * (-q) = -(d * q) /\ d * q \in Int
    BY <2>2
  <2>5. QED
    BY <2>2, <2>3, <2>4
<1>3. QED
  BY <1>1, <1>2

------------------------------------------------------------------------------
(* The types that the proofs need *)

HubTypes == /\ lc \in Ledgers \cup {None}
            /\ threads \in [Receivers -> Threads \cup {None}]
            /\ payouts \in Int /\ onChain \in Pairs
            /\ Open \/ \A r \in Receivers : threads[r] = None

\* A record of 'buy' keeps the ledger channel from its first method on, and the thread
\* from its second.
BuyType(r) == /\ r.lc \in Ledgers \cup {None} /\ r.vc \in Threads \cup {None}
              /\ r.index >= 1 => r.lc \in Ledgers
              /\ r.index >= 2 => r.vc \in Threads

RecordTypes(t) == /\ t["buy"] # None => BuyType(t["buy"])
                  /\ \A n \in {"closeAndReopen", "withdrawal"} :
                       t[n] # None => t[n].index \in 0 .. 3

\* The method that a purchase awaits is the one on record.
AtMethod(where, i) == /\ where = "channel" => i = 0
                      /\ where \in {"thread", "close", "deposit", "read"} => i = 1
                      /\ where \in {"update", "updated"} => i = 2

PcIndex == \A p \in Purchases : /\ Buying(p) => tx["buy"] # None
                                /\ AtMethod(buyPc[p], tx["buy"].index)
                                /\ buyPc[p] = "idle" => p \notin charged

\* What the methods of the other transactions keep in memory.
InHand == /\ swapPc = "swap" => swapLc \in Ledgers
          /\ sendPc \in {"swap", "total", "send"} => sendLc \in Ledgers
          /\ outer \in Ledgers \cup {None} /\ value \in Nat
          /\ sendPc \in {"hook", "closeThreads", "withdraw", "ping", "redux"} =>
               tx["withdrawal"] # None

MoneyTypes == /\ HubTypes
              /\ RecordTypes(tx) /\ RecordTypes(disk)
              /\ PcIndex
              /\ InHand

------------------------------------------------------------------------------
(* The steps that move money *)

\* Which steps move money, and what they leave alone.
LEMMA HubSteps ==
  ASSUME [Next]_vars
  PROVE  \/ UNCHANGED <<hub, charged, added, swaps>>
         \/ /\ \E p \in Purchases : CloseForNew(p) \/ OpenThread(p) \/ UpdateBalance(p)
            /\ UNCHANGED <<added, swaps>>
         \/ \E amount \in TopUps : Deposit(amount)
         \/ (ExecuteSwap \/ SellBooty) /\ UNCHANGED <<charged, added>> /\ Swaps(TRUE)
         \/ /\ CloseThreads \/ SendUpdate \/ CloseListedThreads \/ Withdraw \/ OpenChannel
            /\ UNCHANGED <<charged, added, swaps>>
         \/ HubMerges /\ UNCHANGED <<charged, added, swaps>>
<1>1. CASE Buy \/ BuyGivesUp \/ BootGoesOn
  BY <1>1 DEF Buy, BuyGivesUp, BootGoesOn, RequestBuy, BuyThrows, BootProceeds, SetChannel,
              SetChannelFails, RestartBuy, BuyFrame
<1>2. CASE BuyGoesOn
  BY <1>2 DEF BuyGoesOn, BuyProceeds, GetExistingChannel, GetVC, ReadThread, RecordUpdate,
              UpdateStore, BuyFrame
<1>3. CASE SwapGoesOn \/ SwapGivesUp
  <2>1. CASE ExecuteSwap
    BY <1>3, <2>1 DEF SwapGoesOn, SwapGivesUp, SwapFrame
  <2>2. CASE UNCHANGED hub
    BY <1>3, <2>2 DEF SwapGoesOn, SwapGivesUp, SwapFrame, Swaps, hub
  <2>3. QED
    BY <1>3, <2>1, <2>2 DEF SwapGoesOn, SwapGivesUp, SwapProceeds, PrepareSwap, PopulateSwap,
                            SwapThrows
<1>4. CASE Send \/ SendGivesUp \/ SendGoesOn
  <2>1. UNCHANGED <<charged, added>> /\ Swaps(sendPc = "swap")
    BY <1>4 DEF Send, SendGivesUp, SendGoesOn, SendFrame, buyVars
  <2>2. CASE UNCHANGED hub
    BY <2>1, <2>2 DEF Swaps, hub
  <2>3. CASE SellBooty
    BY <2>1, <2>3 DEF SellBooty, Swaps
  <2>4. CASE CloseThreads \/ SendUpdate \/ CloseListedThreads \/ Withdraw \/ OpenChannel
    <3>1. sendPc # "swap"
      BY <2>4 DEF CloseThreads, SendUpdate, CloseListedThreads, Withdraw, OpenChannel, Goes,
                  NextCloseMethod
    <3>2. QED
      BY <2>1, <2>4, <3>1 DEF Swaps
  <2>5. QED
    BY <1>4, <2>2, <2>3, <2>4
    DEF Send, SendGivesUp, SendGoesOn, SendEntireBalance, SendThrows, CloseThrows, SendProceeds,
        ReadForSwap, ReadAfterSwap, ComputeTotal, ReadForUpdate, PopulateAfterSend, WaitForUpdate,
        Execute, HoldLock, NotCosigned, PingChainsaw, UpdateRedux, ChannelGone
<1>5. CASE Merge
  BY <1>5 DEF Merge, buyVars
<1>6. CASE Persist \/ Crash \/ UNCHANGED vars
  BY <1>6 DEF Persist, FlushTx, Crash, vars, buyVars, ghosts
<1>7. CASE Unlock
  BY <1>7 DEF Unlock, RestartSend
<1>8. QED
  BY <1>1, <1>2, <1>3, <1>4, <1>5, <1>6, <1>7 DEF Next

\* Threads that begin to close stay threads, and hold what they held.
LEMMA ClosingKeeps ==
  ASSUME threads \in [Receivers -> Threads \cup {None}], NEW S,
         threads' = [r \in Receivers |-> IF r \in S /\ threads[r] # None
                                           THEN [threads[r] EXCEPT !.closing = TRUE]
                                           ELSE threads[r]]
  PROVE  /\ threads' \in [Receivers -> Threads \cup {None}]
         /\ \A r \in Receivers : threads'[r] = None <=> threads[r] = None
         /\ \A r \in Receivers, c \in Cur : Held(threads', r, c) = Held(threads, r, c)
<1>1. ASSUME NEW t \in Threads
      PROVE  [t EXCEPT !.closing = TRUE] \in Threads /\ [t EXCEPT !.closing = TRUE].A = t.A
  BY DEF Threads
<1>2. \A t \in Threads : t # None
  BY NoneAssumption
<1>3. ASSUME NEW r \in Receivers
      PROVE  /\ threads'[r] \in Threads \cup {None}
             /\ threads'[r] = None <=> threads[r] = None
             /\ threads'[r] # None => threads'[r].A = threads[r].A
  <2>1. threads[r] = None \/ threads[r] \in Threads
    OBVIOUS
  <2>2. QED
    BY <1>1, <1>2, <2>1
<1>4. QED
  BY <1>3 DEF Held

\* closeAllVCs(), by whichever transaction.
LEMMA Closing ==
  ASSUME HubTypes, (\E p \in Purchases : CloseForNew(p)) \/ CloseThreads \/ CloseListedThreads
  PROVE  /\ HubTypes'
         /\ UNCHANGED <<lc, payouts, onChain>>
         /\ \A r \in Receivers : threads'[r] = None <=> threads[r] = None
         /\ \A r \in Receivers, c \in Cur : Held(threads', r, c) = Held(threads, r, c)
<1>1. UNCHANGED <<lc, payouts, onChain>>
  BY DEF CloseForNew, CloseThreads, CloseListedThreads, CloseAllVCs
<1>2. CASE (\E p \in Purchases : CloseForNew(p)) \/ CloseThreads
  <2> DEFINE S == {r \in Receivers : known}
  <2>1. threads' = [r \in Receivers |-> IF r \in S /\ threads[r] # None
                                          THEN [threads[r] EXCEPT !.closing = TRUE]
                                          ELSE threads[r]]
    BY <1>2 DEF CloseForNew, CloseThreads, CloseAllVCs
  <2> HIDE DEF S
  <2>2. QED
    BY <1>1, <2>1, ClosingKeeps DEF HubTypes, Open
<1>3. CASE CloseListedThreads
  <2> DEFINE S == {r \in Receivers : Open}
  <2>1. threads' = [r \in Receivers |-> IF r \in S /\ threads[r] # None
                                          THEN [threads[r] EXCEPT !.closing = TRUE]
                                          ELSE threads[r]]
    BY <1>3 DEF CloseListedThreads
  <2> HIDE DEF S
  <2>2. QED
    BY <1>1, <2>1, ClosingKeeps DEF HubTypes, Open
<1>4. QED
  BY <1>2, <1>3

\* What is ordered is a price in one currency.
LEMMA OrderTypes ==
  ASSUME NEW p \in Purchases
  PROVE  /\ Orders[p].to \in Receivers /\ Orders[p].cur \in Cur
         /\ Orders[p].fee \in Nat /\ Orders[p].price \in Nat
         /\ DefaultDeposit[Orders[p].cur] \in Nat
BY OrdersAssumption DEF Pairs

\* A channel that is there has the balances of one.
LEMMA OpenLedger ==
  ASSUME HubTypes, Open
  PROVE  lc \in Ledgers /\ lc.A \in Pairs /\ lc.I \in Pairs /\ lc = [A |-> lc.A, I |-> lc.I]
BY DEF HubTypes, Open, Ledgers

\* A thread is opened with no more than the channel has.
LEMMA Opening ==
  ASSUME HubTypes, NEW p \in Purchases, OpenThread(p)
  PROVE  \/ UNCHANGED hub
         \/ \E amount \in Nat :
              /\ Open /\ amount <= lc.A[Orders[p].cur]
              /\ threads[Orders[p].to] = None
              /\ lc' = [A |-> Minus(lc.A, Pair(Orders[p].cur, amount)), I |-> lc.I]
              /\ threads' = [threads EXCEPT ![Orders[p].to] =
                               [A |-> Pair(Orders[p].cur, amount), B |-> Nothing, closing |-> FALSE]]
              /\ UNCHANGED <<payouts, onChain>>
<1> DEFINE amount == DepositAmount(Orders[p].price, lc.A[Orders[p].cur], DefaultDeposit[Orders[p].cur])
<1>1. SUFFICES ASSUME ~(UNCHANGED hub)
               PROVE  \E n \in Nat :
                        /\ Open /\ n <= lc.A[Orders[p].cur]
                        /\ threads[Orders[p].to] = None
                        /\ lc' = [A |-> Minus(lc.A, Pair(Orders[p].cur, n)), I |-> lc.I]
                        /\ threads' = [threads EXCEPT ![Orders[p].to] =
                               [A |-> Pair(Orders[p].cur, n), B |-> Nothing, closing |-> FALSE]]
                        /\ UNCHANGED <<payouts, onChain>>
  OBVIOUS
<1>2. /\ Open /\ Orders[p].price <= lc.A[Orders[p].cur] /\ threads[Orders[p].to] = None
      /\ lc' = [lc EXCEPT !.A = Minus(@, Pair(Orders[p].cur, amount))]
      /\ threads' = [threads EXCEPT ![Orders[p].to] =
                       [A |-> Pair(Orders[p].cur, amount), B |-> Nothing, closing |-> FALSE]]
      /\ UNCHANGED <<payouts, onChain>>
  <2>1. ~(~Open \/ Orders[p].price > lc.A[Orders[p].cur] \/ threads[Orders[p].to] # None)
    BY <1>1 DEF OpenThread
  <2>2. Open => Orders[p].price <= lc.A[Orders[p].cur]
    <3>1. Open => lc.A[Orders[p].cur] \in Nat
      BY OpenLedger, OrderTypes DEF Pairs
    <3>2. QED
      BY <2>1, <3>1, OrderTypes
  <2>3. QED
    BY <2>1, <2>2 DEF OpenThread
<1>3. lc.A[Orders[p].cur] \in Nat
  BY <1>2, OpenLedger, OrderTypes DEF Pairs
<1>4. amount \in Nat /\ amount <= lc.A[Orders[p].cur]
  BY <1>2, <1>3, OrderTypes DEF DepositAmount
<1>5. lc' = [A |-> Minus(lc.A, Pair(Orders[p].cur, amount)), I |-> lc.I]
  <2> HIDE DEF amount
  <2>1. QED
    BY <1>2, OpenLedger
<1> HIDE DEF amount
<1>6. QED
  BY <1>2, <1>4, <1>5

------------------------------------------------------------------------------
(* What each step does to the hub *)

\* The balances of a state that the hub accepts are not negative.
LEMMA Accepting ==
  ASSUME NEW a \in Amounts, NEW i \in Amounts, HubAccepts([A |-> a, I |-> i])
  PROVE  a \in Pairs /\ i \in Pairs /\ [A |-> a, I |-> i] \in Ledgers
BY Vectors DEF HubAccepts, Ledgers

\* What a purchase sends, from what its record keeps.
LEMMA PaymentTypes ==
  ASSUME NEW r, r.lc \in Ledgers, r.vc \in Threads, r.job \in Purchases
  PROVE  LET o == Orders[r.job] IN
         /\ LcAfter(r) = [A |-> Minus(r.lc.A, Pair(o.cur, o.fee)),
                          I |-> Plus(r.lc.I, Pair(o.cur, o.fee))]
         /\ LcAfter(r).A \in Amounts /\ LcAfter(r).I \in Amounts
         /\ VcAfter(r) = [A |-> Minus(r.vc.A, Pair(o.cur, o.price)),
                          B |-> Plus(r.vc.B, Pair(o.cur, o.price)), closing |-> r.vc.closing]
         /\ VcAfter(r).A \in Amounts /\ VcAfter(r).B \in Amounts /\ r.vc.closing \in BOOLEAN
<1> DEFINE o == Orders[r.job]
<1>1. /\ r.lc.A \in Amounts /\ r.lc.I \in Amounts /\ r.vc.A \in Amounts /\ r.vc.B \in Amounts
      /\ r.vc.closing \in BOOLEAN
  BY Vectors DEF Ledgers, Threads
<1>2. Pair(o.cur, o.fee) \in Amounts /\ Pair(o.cur, o.price) \in Amounts
  BY OrderTypes, Vectors
<1>3. LcAfter(r) = [A |-> Minus(r.lc.A, Pair(o.cur, o.fee)),
                    I |-> Plus(r.lc.I, Pair(o.cur, o.fee))]
  BY DEF LcAfter
<1>4. VcAfter(r) = [A |-> Minus(r.vc.A, Pair(o.cur, o.price)),
                    B |-> Plus(r.vc.B, Pair(o.cur, o.price)), closing |-> r.vc.closing]
  BY DEF VcAfter
<1> HIDE DEF o
<1>5. LcAfter(r).A \in Amounts /\ LcAfter(r).I \in Amounts
  BY <1>1, <1>2, <1>3, Vectors
<1>6. VcAfter(r).A \in Amounts /\ VcAfter(r).B \in Amounts
  BY <1>1, <1>2, <1>4, Vectors
<1>7. QED
  BY <1>1, <1>3, <1>4, <1>5, <1>6 DEF o

\* A purchase whose update the hub accepts.
LEMMA Paying ==
  ASSUME PayInv, MoneyTypes, NEW p \in Purchases, UpdateBalance(p)
  PROVE  \/ UNCHANGED hub /\ charged' = charged /\ BuyFails(p)
         \/ LET r == tx["buy"] IN
            /\ r.job = p /\ r.index = 2 /\ r.lc \in Ledgers /\ r.vc \in Threads
            /\ HubAccepts(LcAfter(r)) /\ ThreadAccepts(Orders[p].to, VcAfter(r))
            /\ lc' = LcAfter(r)
            /\ threads' = [threads EXCEPT ![Orders[p].to] = VcAfter(r)]
            /\ charged' = charged \cup {p}
            /\ UNCHANGED <<payouts, onChain, tx>>
            /\ LcAfter(r) \in Ledgers /\ VcAfter(r) \in Threads
<1> DEFINE r == tx["buy"]
<1>1. buyPc[p] = "update" /\ Buying(p)
  BY DEF UpdateBalance, Buying, BuyEnded
<1>2. r.job = p /\ r.index = 2 /\ r # None
  BY <1>1, UnderWay DEF MoneyTypes, PcIndex, AtMethod
<1>3. r.lc \in Ledgers /\ r.vc \in Threads
  BY <1>2 DEF MoneyTypes, RecordTypes, BuyType
<1>4. CASE HubAccepts(LcAfter(r)) /\ ThreadAccepts(Orders[p].to, VcAfter(r))
  <2>1. LcAfter(r) \in Ledgers
    BY <1>2, <1>3, <1>4, PaymentTypes, Accepting
  <2>2. VcAfter(r) \in Threads
    BY <1>2, <1>3, <1>4, PaymentTypes, Vectors DEF ThreadAccepts, Threads
  <2>3. /\ lc' = LcAfter(r)
        /\ threads' = [threads EXCEPT ![Orders[p].to] = VcAfter(r)]
        /\ charged' = charged \cup {p}
        /\ UNCHANGED <<payouts, onChain, tx>>
    BY <1>4 DEF UpdateBalance, HubAccepts, Open
  <2>4. QED
    BY <1>2, <1>3, <1>4, <2>1, <2>2, <2>3
<1>5. CASE ~(HubAccepts(LcAfter(r)) /\ ThreadAccepts(Orders[p].to, VcAfter(r)))
  BY <1>5 DEF UpdateBalance, hub
<1>6. QED
  BY <1>4, <1>5

\* A swap is of whole numbers.
LEMMA WeiType == \A bei \in Int : ToWei(bei) \in Int
  BY Rounds, RateAssumption DEF ToWei

\* The state after a swap computed from a ledger.
LEMMA SwapTypes ==
  ASSUME NEW c \in Ledgers, NEW bei \in Int
  PROVE  /\ Deltas(bei) \in Amounts
         /\ AfterSwap(c, bei).A \in Amounts
         /\ NonNegative(AfterSwap(c, bei).A) => AfterSwap(c, bei) \in Ledgers
<1>1. Deltas(bei) \in Amounts
  <2>1. ToWei(bei) \in Int
    BY WeiType
  <2>2. QED
    BY <2>1 DEF Deltas, Amounts, Cur
<1>2. c.A \in Amounts /\ c.I \in Pairs
  BY Vectors DEF Ledgers
<1>3. AfterSwap(c, bei).A \in Amounts
  BY <1>1, <1>2, Vectors DEF AfterSwap
<1>4. AfterSwap(c, bei).I \in Pairs
  BY <1>1, <1>2 DEF AfterSwap, AtLeastZero, Pairs, Amounts
<1>5. AfterSwap(c, bei) = [A |-> AfterSwap(c, bei).A, I |-> AfterSwap(c, bei).I]
  BY DEF AfterSwap
<1>6. QED
  BY <1>1, <1>3, <1>4, <1>5, Vectors DEF Ledgers

\* So is what is compared with the limit.
LEMMA BootyType == \A bei \in Int : Booty(bei) \in Int
  BY Rounds, SwapAssumption DEF Booty

\* And what is bought, which is not negative.
LEMMA BeiTypes ==
  ASSUME NEW c \in Ledgers
  PROVE  BeiToBuy(c) \in Nat /\ Booty(c.A["tok"]) \in Int
<1>1. c.A["eth"] \in Nat /\ c.A["tok"] \in Nat
  BY DEF Ledgers, Pairs, Cur
<1>2. Booty(c.A["tok"]) \in Int
  BY <1>1, BootyType
<1>3. Rate * c.A["eth"] \in Nat
  BY <1>1, RateAssumption
<1>4. Booty(c.A["tok"]) < MaxBooty =>
        (MaxBooty - Booty(c.A["tok"])) * BeiPerBooty \in Nat
  BY <1>2, SwapAssumption
<1>5. Booty(c.A["tok"]) >= MaxBooty \/ Booty(c.A["tok"]) < MaxBooty
  BY <1>2, SwapAssumption
<1>6. \/ BeiToBuy(c) = 0
      \/ Booty(c.A["tok"]) < MaxBooty /\ BeiToBuy(c) = (MaxBooty - Booty(c.A["tok"])) * BeiPerBooty
      \/ BeiToBuy(c) = Rate * c.A["eth"]
  BY <1>5, Zenon DEF BeiToBuy
<1>7. QED
  BY <1>2, <1>3, <1>4, <1>6

\* A swap after a deposit.
LEMMA Exchanging ==
  ASSUME MoneyTypes, ExecuteSwap
  PROVE  \/ UNCHANGED hub
         \/ LET bei == BeiToBuy(swapLc) IN
            /\ swapLc \in Ledgers /\ bei \in Int
            /\ SwapAccepted(swapLc, bei)
            /\ lc' = AfterSwap(swapLc, bei) /\ lc' \in Ledgers
            /\ UNCHANGED <<threads, payouts, onChain>>
<1> DEFINE bei == BeiToBuy(swapLc)
<1>1. swapLc \in Ledgers
  BY DEF MoneyTypes, InHand, ExecuteSwap
<1>2. bei \in Int
  BY <1>1, BeiTypes
<1>3. UNCHANGED <<threads, payouts, onChain>>
  BY DEF ExecuteSwap
<1>4. lc' = lc \/ (SwapAccepted(swapLc, bei) /\ lc' = AfterSwap(swapLc, bei))
  BY DEF ExecuteSwap
<1>5. SwapAccepted(swapLc, bei) => AfterSwap(swapLc, bei) \in Ledgers
  BY <1>1, <1>2, SwapTypes DEF SwapAccepted
<1>6. QED
  BY <1>1, <1>2, <1>3, <1>4, <1>5 DEF hub

\* A swap before a withdrawal.
LEMMA Selling ==
  ASSUME MoneyTypes, SellBooty
  PROVE  \/ UNCHANGED hub
         \/ LET bei == Dust - sendLc.A["tok"] IN
            /\ sendLc \in Ledgers /\ bei \in Int
            /\ SwapAccepted(sendLc, bei)
            /\ lc' = AfterSwap(sendLc, bei) /\ lc' \in Ledgers
            /\ UNCHANGED <<threads, payouts, onChain>>
<1> DEFINE bei == Dust - sendLc.A["tok"]
<1>1. sendLc \in Ledgers
  BY DEF MoneyTypes, InHand, SellBooty
<1>2. bei \in Int
  BY <1>1, DustAssumption DEF Ledgers, Pairs, Cur
<1>3. UNCHANGED <<threads, payouts, onChain>>
  BY DEF SellBooty
<1>4. lc' = lc \/ (SwapAccepted(sendLc, bei) /\ lc' = AfterSwap(sendLc, bei))
  BY DEF SellBooty
<1>5. SwapAccepted(sendLc, bei) => AfterSwap(sendLc, bei) \in Ledgers
  BY <1>1, <1>2, SwapTypes DEF SwapAccepted
<1>6. QED
  BY <1>1, <1>2, <1>3, <1>4, <1>5 DEF hub

\* The payment of a withdrawal.
LEMMA PayingOut ==
  ASSUME MoneyTypes, SendUpdate
  PROVE  \/ UNCHANGED hub /\ SendFails
         \/ /\ sendLc \in Ledgers /\ value \in Nat
            /\ AfterSending(sendLc) = [A |-> Minus(sendLc.A, Pair("eth", value)),
                                       I |-> Plus(sendLc.I, Pair("eth", value))]
            /\ HubAccepts(AfterSending(sendLc)) /\ AfterSending(sendLc) \in Ledgers
            /\ lc' = AfterSending(sendLc)
            /\ payouts' = payouts + lc'.I["eth"] - lc.I["eth"] /\ payouts' \in Int
            /\ UNCHANGED <<threads, onChain>>
<1>1. sendLc \in Ledgers /\ value \in Nat
  BY DEF MoneyTypes, InHand, SendUpdate
<1>2. /\ Minus(sendLc.A, Pair("eth", value)) \in Amounts
      /\ Plus(sendLc.I, Pair("eth", value)) \in Amounts
  <2>1. Pair("eth", value) \in Amounts
    BY <1>1, Vectors DEF Cur
  <2>2. sendLc.A \in Amounts /\ sendLc.I \in Amounts
    BY <1>1, Vectors DEF Ledgers
  <2>3. QED
    BY <2>1, <2>2, Vectors
<1>3. CASE HubAccepts(AfterSending(sendLc))
  <2>1. /\ lc' = AfterSending(sendLc) /\ UNCHANGED <<threads, onChain>>
        /\ payouts' = payouts + lc'.I["eth"] - lc.I["eth"]
    BY <1>3 DEF SendUpdate
  <2>2. AfterSending(sendLc) \in Ledgers
    BY <1>2, <1>3, Accepting DEF AfterSending
  <2>3. lc'.I["eth"] \in Nat
    BY <2>1, <2>2 DEF Ledgers, Pairs, Cur
  <2>4. lc.I["eth"] \in Nat
    BY <1>3, OpenLedger DEF HubAccepts, MoneyTypes, Pairs, Cur
  <2>5. payouts' \in Int
    BY <2>1, <2>3, <2>4 DEF MoneyTypes, HubTypes
  <2>6. QED
    BY <1>1, <1>3, <2>1, <2>2, <2>5 DEF AfterSending
<1>4. CASE ~HubAccepts(AfterSending(sendLc))
  BY <1>4 DEF SendUpdate, hub
<1>5. QED
  BY <1>3, <1>4

\* A deposit reaches the channel.
LEMMA Depositing ==
  ASSUME HubTypes, NEW amount \in TopUps, Deposit(amount)
  PROVE  /\ Open /\ amount \in Nat
         /\ lc' = [A |-> Plus(lc.A, Pair("eth", amount)), I |-> lc.I] /\ lc' \in Ledgers
         /\ UNCHANGED <<threads, payouts, onChain>>
<1>1. amount \in Nat
  BY SwapAssumption
<1>2. Open /\ lc' = [lc EXCEPT !.A = Plus(@, Pair("eth", amount))]
      /\ UNCHANGED <<threads, payouts, onChain>>
  BY DEF Deposit, StartSwap
<1>3. Plus(lc.A, Pair("eth", amount)) \in Pairs
  <2>1. Pair("eth", amount) \in Pairs
    BY <1>1, Vectors DEF Cur
  <2>2. QED
    BY <1>2, <2>1, OpenLedger, Vectors
<1>4. lc' = [A |-> Plus(lc.A, Pair("eth", amount)), I |-> lc.I]
  BY <1>2, OpenLedger
<1>5. QED
  BY <1>1, <1>2, <1>3, <1>4, OpenLedger DEF Ledgers

\* A closed thread is taken in.
LEMMA Merging ==
  ASSUME HubTypes, HubMerges
  PROVE  \E r \in Receivers :
           /\ Open /\ threads[r] \in Threads
           /\ lc' = [A |-> Plus(lc.A, threads[r].A), I |-> Plus(lc.I, threads[r].B)]
           /\ lc' \in Ledgers
           /\ threads' = [threads EXCEPT ![r] = None]
           /\ UNCHANGED <<payouts, onChain>>
<1>1. PICK r \in Receivers :
         /\ Open /\ threads[r] # None
         /\ lc' = [A |-> Plus(lc.A, threads[r].A), I |-> Plus(lc.I, threads[r].B)]
         /\ threads' = [threads EXCEPT ![r] = None]
         /\ UNCHANGED <<payouts, onChain>>
  BY DEF HubMerges
<1>2. threads[r] \in Threads
  BY <1>1 DEF HubTypes
<1>3. Plus(lc.A, threads[r].A) \in Pairs /\ Plus(lc.I, threads[r].B) \in Pairs
  <2>1. threads[r].A \in Pairs /\ threads[r].B \in Pairs
    BY <1>2 DEF Threads
  <2>2. QED
    BY <1>1, <2>1, OpenLedger, Vectors
<1>4. QED
  BY <1>1, <1>2, <1>3 DEF Ledgers

\* The channel is closed, and a new one opened.
LEMMA Emptying ==
  ASSUME HubTypes, Withdraw
  PROVE  \/ UNCHANGED hub
         \/ /\ Open /\ \A r \in Receivers : threads[r] = None
            /\ lc' = None
            /\ onChain' = Plus(onChain, lc.A) /\ onChain' \in Pairs
            /\ UNCHANGED <<threads, payouts>>
<1>1. CASE Open
  <2>1. onChain' = Plus(onChain, lc.A) /\ lc' = None /\ \A r \in Receivers : threads[r] = None
    BY <1>1 DEF Withdraw
  <2>2. UNCHANGED <<threads, payouts>>
    BY DEF Withdraw
  <2>3. onChain' \in Pairs
    BY <1>1, <2>1, OpenLedger, Vectors DEF HubTypes
  <2>4. QED
    BY <1>1, <2>1, <2>2, <2>3
<1>2. CASE ~Open
  BY <1>2 DEF Withdraw, hub
<1>3. QED
  BY <1>1, <1>2

\* openChannel() puts what is on chain into a new channel.
LEMMA Reopening ==
  ASSUME HubTypes, OpenChannel
  PROVE  \/ UNCHANGED hub
         \/ /\ ~Open
            /\ lc' = [A |-> onChain, I |-> Nothing] /\ lc' \in Ledgers
            /\ onChain' = Nothing /\ onChain' \in Pairs
            /\ UNCHANGED <<threads, payouts>>
BY Vectors DEF HubTypes, OpenChannel, hub, Ledgers

\* No step leaves the hub with a balance below zero.
LEMMA HubTypesKept ==
  ASSUME PayInv, MoneyTypes, [Next]_vars
  PROVE  HubTypes'
<1>n. \A l \in Ledgers : l # None
  BY NoneAssumption
<1>0. HubTypes
  BY DEF MoneyTypes
<1>1. CASE UNCHANGED hub
  BY <1>0, <1>1 DEF HubTypes, hub, Open
<1>2. CASE (\E p \in Purchases : CloseForNew(p)) \/ CloseThreads \/ CloseListedThreads
  BY <1>0, <1>2, Closing
<1>3. ASSUME NEW p \in Purchases, OpenThread(p), ~UNCHANGED hub PROVE HubTypes'
  <2>1. PICK n \in Nat :
          /\ Open /\ n <= lc.A[Orders[p].cur]
          /\ lc' = [A |-> Minus(lc.A, Pair(Orders[p].cur, n)), I |-> lc.I]
          /\ threads' = [threads EXCEPT ![Orders[p].to] =
                           [A |-> Pair(Orders[p].cur, n), B |-> Nothing, closing |-> FALSE]]
          /\ UNCHANGED <<payouts, onChain>>
    BY <1>0, <1>3, Opening
  <2>2. Minus(lc.A, Pair(Orders[p].cur, n)) \in Pairs
    BY <1>0, <2>1, OpenLedger, OrderTypes DEF Minus, Pair, Pairs
  <2>3. [A |-> Pair(Orders[p].cur, n), B |-> Nothing, closing |-> FALSE] \in Threads
    BY OrderTypes, Vectors DEF Threads
  <2>4. lc' \in Ledgers
    BY <1>0, <2>1, <2>2, OpenLedger DEF Ledgers
  <2>5. threads' \in [Receivers -> Threads \cup {None}]
    BY <1>n, <1>0, <2>1, <2>3 DEF HubTypes, Open
  <2>6. QED
    BY <1>n, <1>0, <2>1, <2>4, <2>5 DEF HubTypes, Open
<1>4. ASSUME NEW p \in Purchases, UpdateBalance(p), ~UNCHANGED hub PROVE HubTypes'
  <2>1. /\ lc' \in Ledgers
        /\ \E t \in Threads : threads' = [threads EXCEPT ![Orders[p].to] = t]
        /\ UNCHANGED <<payouts, onChain>>
    BY <1>4, Paying
  <2>2. QED
    BY <1>n, <1>0, <2>1 DEF HubTypes, Open
<1>5. ASSUME NEW amount \in TopUps, Deposit(amount) PROVE HubTypes'
  BY <1>n, <1>0, <1>5, Depositing DEF HubTypes, Open
<1>6. CASE (ExecuteSwap \/ SellBooty) /\ ~UNCHANGED hub
  <2>1. lc' \in Ledgers /\ UNCHANGED <<threads, payouts, onChain>>
    BY <1>6, Exchanging, Selling
  <2>2. QED
    BY <1>n, <1>0, <2>1 DEF HubTypes, Open
<1>7. CASE SendUpdate /\ ~UNCHANGED hub
  <2>1. lc' \in Ledgers /\ payouts' \in Int /\ UNCHANGED <<threads, onChain>>
    BY <1>7, PayingOut
  <2>2. QED
    BY <1>n, <1>0, <2>1 DEF HubTypes, Open
<1>8. CASE (Withdraw \/ OpenChannel) /\ ~UNCHANGED hub
  <2>1. /\ lc' \in Ledgers \/ (lc' = None /\ \A r \in Receivers : threads[r] = None)
        /\ onChain' \in Pairs /\ UNCHANGED <<threads, payouts>>
    BY <1>0, <1>8, Emptying, Reopening
  <2>2. QED
    BY <1>n, <1>0, <2>1 DEF HubTypes, Open
<1>9. CASE HubMerges
  <2>1. /\ lc' \in Ledgers /\ UNCHANGED <<payouts, onChain>>
        /\ \E r \in Receivers : threads' = [threads EXCEPT ![r] = None]
    BY <1>0, <1>9, Merging
  <2>2. QED
    BY <1>n, <1>0, <2>1 DEF HubTypes, Open
<1>10. QED
  BY <1>1, <1>2, <1>3, <1>4, <1>5, <1>6, <1>7, <1>8, <1>9, HubSteps

------------------------------------------------------------------------------
(* The steps of a purchase *)

\* What a purchase records has the type of a record.
LEMMA RecordedType ==
  ASSUME NEW p \in Purchases, NEW i \in 0 .. 3, NEW l \in Ledgers \cup {None},
         NEW v \in Threads \cup {None}, i >= 1 => l \in Ledgers, i >= 2 => v \in Threads
  PROVE  /\ BuyRecord(i, p, l, v) # None
         /\ BuyType(BuyRecord(i, p, l, v))
         /\ BuyRecord(i, p, l, v).index = i
<1>1. BuyRecord(i, p, l, v) \in [index : Nat, job : Purchases, lc : Ledgers \cup {None},
                                 vc : Threads \cup {None}]
  BY DEF BuyRecord
<1>2. BuyRecord(i, p, l, v) # None
  BY <1>1, RecordAssumption
<1>3. QED
  BY <1>2 DEF BuyRecord, BuyType

\* A step of one purchase.
LEMMA PcIndexKept ==
  ASSUME PayInv, PcIndex, NEW p \in Purchases, NEW where \in BuyStates \ {"idle"},
         BuyMoves(p, where), sem \in {None, p}, charged' \subseteq charged \cup {p},
         where \notin BuyEnded => tx'["buy"] # None /\ AtMethod(where, tx'["buy"].index)
  PROVE  PcIndex'
<1>1. \A q \in Purchases : q # p => ~Buying(q) /\ buyPc'[q] = buyPc[q]
  BY PurchasesAssumption DEF PayInv, SemInv, BuyMoves
<1>2. buyPc'[p] = where
  BY DEF PayInv, SemInv, BuyMoves
<1>3. \A w \in BuyEnded : AtMethod(w, tx'["buy"].index)
  BY DEF BuyEnded, AtMethod
<1>4. ASSUME NEW q \in Purchases, q # p
      PROVE  /\ Buying(q)' => tx'["buy"] # None
             /\ AtMethod(buyPc'[q], tx'["buy"].index)
             /\ buyPc'[q] = "idle" => q \notin charged'
  <2>1. ~Buying(q)' /\ buyPc'[q] \in BuyEnded
    BY <1>1, <1>4 DEF Buying
  <2>2. QED
    BY <1>1, <1>3, <1>4, <2>1 DEF PcIndex
<1>5. /\ Buying(p)' => tx'["buy"] # None
      /\ AtMethod(buyPc'[p], tx'["buy"].index)
      /\ buyPc'[p] # "idle"
  BY <1>2, <1>3 DEF Buying
<1>6. QED
  BY <1>4, <1>5 DEF PcIndex

BuyStep == /\ PcIndex'
           /\ tx'["buy"] # None => BuyType(tx'["buy"])
           /\ \A n \in TxNames : n # "buy" => tx'[n] = tx[n]
           /\ disk' = disk

\* A purchase that fails leaves the records as they are, without its own.
LEMMA BuyFailsStep ==
  ASSUME PayInv, MoneyTypes, NEW p \in Purchases, Buying(p), BuyFails(p),
         UNCHANGED <<disk, charged>>
  PROVE  BuyStep
<1>1. "failed" \in BuyStates \ {"idle"} /\ "failed" \in BuyEnded
  BY DEF BuyStates, BuyEnded
<1>2. PcIndex'
  BY <1>1, UnderWay, PcIndexKept DEF BuyFails, MoneyTypes
<1>3. tx'["buy"] = None /\ \A n \in TxNames : n # "buy" => tx'[n] = tx[n]
  BY UnderWay, OneForgotten DEF BuyFails, TxNames
<1>4. QED
  BY <1>2, <1>3 DEF BuyStep

\* A purchase goes on with the record it has.
LEMMA BuyReadsStep ==
  ASSUME PayInv, MoneyTypes, NEW p \in Purchases, Buying(p), NEW where \in BuyStates \ BuyEnded,
         BuyMoves(p, where), UNCHANGED <<tx, disk>>, charged' \subseteq charged \cup {p},
         AtMethod(where, tx["buy"].index)
  PROVE  BuyStep
<1>1. tx["buy"] # None /\ sem = p
  BY UnderWay DEF MoneyTypes, PcIndex
<1>2. where \in BuyStates \ {"idle"}
  BY DEF BuyEnded
<1>3. PcIndex'
  BY <1>1, <1>2, PcIndexKept DEF MoneyTypes
<1>4. QED
  BY <1>3 DEF BuyStep, MoneyTypes, RecordTypes

\* A purchase records its next method.
LEMMA BuyRecordsStep ==
  ASSUME PayInv, MoneyTypes, NEW p \in Purchases, NEW where \in BuyStates \ BuyEnded,
         BuyMoves(p, where), sem \in {None, p}, UNCHANGED <<disk, charged>>,
         NEW i \in 0 .. 3, NEW l \in Ledgers \cup {None},
         NEW v \in Threads \cup {None}, i >= 1 => l \in Ledgers, i >= 2 => v \in Threads,
         Record("buy", BuyRecord(i, p, l, v)), AtMethod(where, i)
  PROVE  BuyStep
<1> DEFINE r == BuyRecord(i, p, l, v)
<1>1. r # None /\ BuyType(r) /\ r.index = i
  BY RecordedType
<1>2. where \in BuyStates \ {"idle"}
  BY DEF BuyEnded
<1>3. tx'["buy"] = r /\ \A n \in TxNames : n # "buy" => tx'[n] = tx[n]
  BY OneRecord DEF PayInv, ChargeInv, TxNames
<1> HIDE DEF r
<1>4. PcIndex'
  BY <1>1, <1>2, <1>3, PcIndexKept DEF MoneyTypes
<1>5. QED
  BY <1>1, <1>3, <1>4 DEF BuyStep

\* So does every step of a purchase, which records at most what it has read.
LEMMA PurchaseStep ==
  ASSUME PayInv, MoneyTypes, NEW p \in Purchases, BuyProceeds(p) \/ BuyThrows(p)
  PROVE  BuyStep
<1> DEFINE t == Orders[p].to
<1>0. /\ lc \in Ledgers \cup {None} /\ threads[t] \in Threads \cup {None}
      /\ threads[t] # None => lc \in Ledgers
      /\ Buying(p) => /\ AtMethod(buyPc[p], tx["buy"].index) /\ sem = p
                      /\ tx["buy"] # None /\ BuyType(tx["buy"])
  BY UnderWay, OrderTypes DEF MoneyTypes, HubTypes, PcIndex, RecordTypes, Open
<1>s. {"thread", "close", "deposit", "read", "update", "updated", "store"} \subseteq BuyStates \ BuyEnded
  BY DEF BuyStates, BuyEnded
<1>1. CASE GetExistingChannel(p)
  <2>1. Buying(p) /\ UNCHANGED <<disk, charged>>
    BY <1>1 DEF GetExistingChannel, Buying, BuyEnded
  <2>2. CASE ~Open
    BY <1>1, <2>1, <2>2, BuyFailsStep DEF GetExistingChannel
  <2>3. CASE Open
    <3>1. Record("buy", BuyRecord(1, p, lc, None)) /\ BuyMoves(p, "thread") /\ lc \in Ledgers
      BY <1>0, <1>1, <2>3 DEF GetExistingChannel, Open
    <3>2. AtMethod("thread", 1)
      BY DEF AtMethod
    <3>3. QED
      BY <1>0, <1>s, <2>1, <3>1, <3>2, BuyRecordsStep
  <2>4. QED
    BY <2>2, <2>3
<1>2. CASE GetVC(p)
  <2>1. Buying(p) /\ buyPc[p] = "thread" /\ UNCHANGED <<disk, charged>>
    BY <1>2 DEF GetVC, Buying, BuyEnded
  <2>2. tx["buy"].index = 1 /\ tx["buy"].lc \in Ledgers
    BY <1>0, <2>1 DEF AtMethod, BuyType
  <2>3. CASE Affords(p)
    <3>1. /\ Record("buy", BuyRecord(2, p, tx["buy"].lc, threads[t])) /\ BuyMoves(p, "update")
          /\ threads[t] \in Threads
      BY <1>0, <1>2, <2>3 DEF GetVC, Affords
    <3>2. AtMethod("update", 2)
      BY DEF AtMethod
    <3>3. QED
      BY <1>0, <1>s, <2>1, <2>2, <3>1, <3>2, BuyRecordsStep
  <2>4. CASE ~Affords(p)
    <3>1. BuyMoves(p, "close") /\ tx' = tx
      BY <1>2, <2>4 DEF GetVC
    <3>2. AtMethod("close", tx["buy"].index)
      BY <2>2 DEF AtMethod
    <3>3. QED
      BY <1>s, <2>1, <3>1, <3>2, BuyReadsStep
  <2>5. QED
    BY <2>3, <2>4
<1>3. CASE CloseForNew(p)
  <2>1. Buying(p) /\ buyPc[p] = "close" /\ UNCHANGED <<tx, disk, charged>> /\ BuyMoves(p, "deposit")
    BY <1>3 DEF CloseForNew, Buying, BuyEnded, worker
  <2>2. AtMethod("deposit", tx["buy"].index)
    BY <1>0, <2>1 DEF AtMethod
  <2>3. QED
    BY <1>s, <2>1, <2>2, BuyReadsStep
<1>4. CASE OpenThread(p)
  <2>1. Buying(p) /\ buyPc[p] = "deposit" /\ UNCHANGED <<disk, charged>>
    BY <1>4 DEF OpenThread, Buying, BuyEnded
  <2>2. CASE BuyFails(p)
    BY <2>1, <2>2, BuyFailsStep
  <2>3. CASE BuyMoves(p, "read") /\ tx' = tx
    <3>1. AtMethod("read", tx["buy"].index)
      BY <1>0, <2>1 DEF AtMethod
    <3>2. QED
      BY <1>s, <2>1, <2>3, <3>1, BuyReadsStep
  <2>4. QED
    BY <1>4, <2>2, <2>3 DEF OpenThread
<1>5. CASE ReadThread(p)
  <2>1. Buying(p) /\ buyPc[p] = "read" /\ UNCHANGED <<disk, charged>>
    BY <1>5 DEF ReadThread, Buying, BuyEnded
  <2>2. CASE BuyFails(p)
    BY <2>1, <2>2, BuyFailsStep
  <2>3. CASE threads[t] # None /\ ~BuyFails(p)
    <3>1. Record("buy", BuyRecord(2, p, lc, threads[t])) /\ BuyMoves(p, "update")
      BY <1>5, <2>3 DEF ReadThread
    <3>2. AtMethod("update", 2)
      BY DEF AtMethod
    <3>3. QED
      BY <1>0, <1>s, <2>1, <2>3, <3>1, <3>2, BuyRecordsStep
  <2>4. QED
    BY <1>5, <2>2, <2>3 DEF ReadThread
<1>6. CASE UpdateBalance(p)
  <2>1. Buying(p) /\ buyPc[p] = "update" /\ UNCHANGED disk
    BY <1>6 DEF UpdateBalance, Buying, BuyEnded
  <2>2. CASE BuyFails(p) /\ charged' = charged
    BY <2>1, <2>2, BuyFailsStep
  <2>3. CASE charged' = charged \cup {p} /\ BuyMoves(p, "updated") /\ tx' = tx
    <3>1. AtMethod("updated", tx["buy"].index)
      BY <1>0, <2>1 DEF AtMethod
    <3>2. QED
      BY <1>s, <2>1, <2>3, <3>1, BuyReadsStep
  <2>4. QED
    BY <1>6, <2>2, <2>3 DEF UpdateBalance
<1>7. CASE RecordUpdate(p)
  <2>1. /\ Buying(p) /\ buyPc[p] = "updated" /\ UNCHANGED <<disk, charged>> /\ BuyMoves(p, "store")
        /\ Record("buy", BuyRecord(3, p, tx["buy"].lc, tx["buy"].vc))
    BY <1>7 DEF RecordUpdate, Buying, BuyEnded
  <2>2. tx["buy"].lc \in Ledgers /\ tx["buy"].vc \in Threads
    BY <1>0, <2>1 DEF AtMethod, BuyType
  <2>3. AtMethod("store", 3)
    BY DEF AtMethod
  <2>4. QED
    BY <1>0, <1>s, <2>1, <2>2, <2>3, BuyRecordsStep
<1>8. CASE UpdateStore(p)
  <2>1. Buying(p) /\ UNCHANGED <<disk, charged>> /\ BuyMoves(p, "done") /\ Forget("buy")
    BY <1>8 DEF UpdateStore, Buying, BuyEnded
  <2>2. "done" \in BuyStates \ {"idle"} /\ "done" \in BuyEnded
    BY DEF BuyStates, BuyEnded
  <2>3. PcIndex'
    BY <1>0, <2>1, <2>2, PcIndexKept DEF MoneyTypes
  <2>4. tx'["buy"] = None /\ \A n \in TxNames : n # "buy" => tx'[n] = tx[n]
    BY <2>1, UnderWay, OneForgotten DEF TxNames
  <2>5. QED
    BY <2>1, <2>3, <2>4 DEF BuyStep
<1>9. CASE BuyThrows(p)
  BY <1>9, BuyFailsStep DEF BuyThrows, Buying, BuyEnded
<1>10. QED
  BY <1>1, <1>2, <1>3, <1>4, <1>5, <1>6, <1>7, <1>8, <1>9 DEF BuyProceeds

------------------------------------------------------------------------------
(* The steps of the other operations *)

\* A step that leaves purchases and their record alone.
LEMMA PcIndexElsewhere ==
  ASSUME PcIndex, UNCHANGED <<buyPc, charged>>, tx'["buy"] = tx["buy"]
  PROVE  PcIndex'
BY DEF PcIndex, Buying

\* A purchase begins with a record of its own.
LEMMA RequestStep ==
  ASSUME PayInv, MoneyTypes, NEW p \in Purchases, RequestBuy(p)
  PROVE  BuyStep
<1>1. CASE sem # None
  <2>1. /\ BuyMoves(p, "refused") /\ buyPc[p] = "idle" /\ UNCHANGED <<tx, disk, charged>>
    BY <1>1 DEF RequestBuy
  <2>2. buyPc'[p] = "refused" /\ \A q \in Purchases : q # p => buyPc'[q] = buyPc[q]
    BY <2>1 DEF PayInv, SemInv, BuyMoves
  <2>3. ~Buying(p)' /\ AtMethod("refused", tx'["buy"].index) /\ "refused" # "idle"
    BY <2>2 DEF Buying, BuyEnded, AtMethod
  <2>4. \A q \in Purchases : q # p => (Buying(q)' <=> Buying(q))
    BY <2>2 DEF Buying
  <2>5. PcIndex'
    BY <2>1, <2>2, <2>3, <2>4 DEF PcIndex, MoneyTypes
  <2>6. QED
    BY <2>1, <2>5 DEF BuyStep, MoneyTypes, RecordTypes
<1>2. CASE sem = None
  <2>1. /\ Record("buy", BuyRecord(0, p, None, None)) /\ BuyMoves(p, "channel")
        /\ UNCHANGED <<disk, charged>>
    BY <1>2 DEF RequestBuy
  <2>2. "channel" \in BuyStates \ BuyEnded /\ AtMethod("channel", 0)
    BY DEF BuyStates, BuyEnded, AtMethod
  <2>3. QED
    BY <1>2, <2>1, <2>2, BuyRecordsStep
<1>3. QED
  BY <1>1, <1>2

\* A purchase resumed goes on where its record says.
LEMMA BootStep ==
  ASSUME PayInv, MoneyTypes, BootProceeds
  PROVE  BuyStep
<1>1. CASE SetChannel \/ SetChannelFails
  <2>1. UNCHANGED <<tx, disk, buyPc, charged>>
    BY <1>1 DEF SetChannel, SetChannelFails, worker
  <2>2. PcIndex'
    BY <2>1, PcIndexElsewhere DEF MoneyTypes
  <2>3. QED
    BY <2>1, <2>2 DEF BuyStep, MoneyTypes, RecordTypes
<1>2. ASSUME NEW p \in Purchases, RestartBuy(p) PROVE BuyStep
  <2> DEFINE where == <<"channel", "thread", "update", "store">>[tx["buy"].index + 1]
  <2>1. /\ boot = "buys" /\ sem = None /\ BuyMoves(p, where) /\ UNCHANGED <<tx, disk, charged>>
    BY <1>2 DEF RestartBuy, worker
  <2>2. tx["buy"] # None /\ tx["buy"].index \in 0 .. 3
    BY <2>1 DEF PayInv, ChargeInv, RecordsOK, BuyForm
  <2>3. /\ where \in {"channel", "thread", "update", "store"}
        /\ AtMethod(where, tx["buy"].index)
    BY <2>2 DEF AtMethod
  <2>4. where \in BuyStates \ {"idle"} /\ where \notin BuyEnded
    BY <2>3 DEF BuyStates, BuyEnded
  <2> HIDE DEF where
  <2>5. PcIndex'
    BY <2>1, <2>2, <2>3, <2>4, PcIndexKept DEF MoneyTypes
  <2>6. QED
    BY <2>1, <2>5 DEF BuyStep, MoneyTypes, RecordTypes
<1>3. QED
  BY <1>1, <1>2 DEF BootProceeds

\* What a step leaves of the records and of what methods have in hand.
RecordStep == PcIndex' /\ RecordTypes(tx)' /\ RecordTypes(disk)' /\ InHand'

\* Purchases keep the types of records and of what is in memory.
LEMMA BuyStepIs ==
  ASSUME PayInv, MoneyTypes, BuyStep, UNCHANGED <<swapVars, sendVars>>
  PROVE  RecordStep
<1>1. \A n \in {"closeAndReopen", "withdrawal"} : tx'[n] = tx[n]
  BY DEF BuyStep, TxNames
<1>2. RecordTypes(tx)'
  BY <1>1 DEF BuyStep, MoneyTypes, RecordTypes, BuyType
<1>3. RecordTypes(disk)'
  BY DEF BuyStep, MoneyTypes, RecordTypes, BuyType
<1>4. InHand'
  BY <1>1 DEF MoneyTypes, InHand, swapVars, sendVars
<1>5. QED
  BY <1>2, <1>3, <1>4 DEF RecordStep, BuyStep

\* A step of the deposit: the records of the others stay.
LEMMA SwapStepIs ==
  ASSUME PayInv, MoneyTypes, UNCHANGED <<buyPc, charged, sendVars>>,
         SwapProceeds \/ SwapThrows \/ \E amount \in TopUps : StartSwap(amount)
  PROVE  RecordStep
<1>0. DOMAIN tx = TxNames
  BY DEF PayInv, ChargeInv, RecordsOK
<1>1. \/ tx' = tx
      \/ \E r : Record("buyBooty", r)
      \/ Forget("buyBooty")
  BY DEF SwapProceeds, PrepareSwap, ExecuteSwap, SwapStored, PopulateSwap, SwapThrows, StartSwap,
         worker
<1>2. \A n \in {"buy", "closeAndReopen", "withdrawal"} : tx'[n] = tx[n]
  <2>1. CASE \E r : Record("buyBooty", r)
    BY <2>1, OneRecord DEF PayInv, ChargeInv, TxNames
  <2>2. CASE Forget("buyBooty")
    BY <2>2, OneForgotten DEF PayInv, ChargeInv, TxNames
  <2>3. QED
    BY <1>1, <2>1, <2>2
<1>3. disk' = disk
  BY DEF SwapProceeds, PrepareSwap, ExecuteSwap, PopulateSwap, SwapThrows, StartSwap, worker
<1>4. swapPc' = "swap" => swapLc' = lc /\ Open
  <2>1. CASE PrepareSwap
    BY <2>1 DEF PrepareSwap
  <2>2. CASE ExecuteSwap \/ PopulateSwap \/ SwapThrows
    BY <2>2 DEF ExecuteSwap, SwapStored, PopulateSwap, SwapThrows
  <2>3. ASSUME NEW amount \in TopUps, StartSwap(amount) PROVE swapPc' # "swap"
    <3>1. CASE tx["buyBooty"] = None
      BY <2>3, <3>1 DEF StartSwap
    <3>2. CASE tx["buyBooty"] # None
      <4>1. swapPc' = <<"prepare", "populate">>[tx["buyBooty"].index + 1]
        BY <2>3, <3>2 DEF StartSwap
      <4>2. tx["buyBooty"].index \in 0 .. 1
        BY <3>2 DEF PayInv, ChargeInv, RecordsOK
      <4>3. QED
        BY <4>1, <4>2
    <3>3. QED
      BY <3>1, <3>2
  <2>4. QED
    BY <2>1, <2>2, <2>3 DEF SwapProceeds
<1>5. PcIndex'
  BY <1>2, PcIndexElsewhere DEF MoneyTypes
<1>6. RecordTypes(tx)' /\ RecordTypes(disk)'
  BY <1>2, <1>3 DEF MoneyTypes, RecordTypes, BuyType
<1>7. InHand'
  <2>1. swapPc' = "swap" => swapLc' \in Ledgers
    BY <1>4, OpenLedger DEF MoneyTypes
  <2>2. QED
    BY <1>2, <2>1 DEF MoneyTypes, InHand, sendVars
<1>8. QED
  BY <1>5, <1>6, <1>7 DEF RecordStep

\* And so do withdrawals.
LEMMA SendStepIs ==
  ASSUME PayInv, MoneyTypes, UNCHANGED <<buyPc, charged, swapPc, swapLc>>,
         SendEntireBalance \/ RestartSend \/ SendProceeds \/ SendThrows \/ CloseThrows
  PROVE  RecordStep
<1>r. RecordsOK(tx)
  BY DEF PayInv, ChargeInv
<1>1. tx'["buy"] = tx["buy"] /\ disk' = disk
  BY <1>r, SendRecords
<1>2. PcIndex'
  BY <1>1, PcIndexElsewhere DEF MoneyTypes
<1>3. RecordTypes(disk)'
  BY <1>1 DEF MoneyTypes, RecordTypes, BuyType
<1> DEFINE Numbered == \A n \in {"closeAndReopen", "withdrawal"} :
                         tx'[n] # None => tx'[n].index \in 0 .. 3
           Read == /\ sendPc' \in {"swap", "total", "send"} => sendLc' \in Ledgers
                   /\ outer' \in Ledgers \cup {None} /\ value' \in Nat
                   /\ sendPc' \in {"hook", "closeThreads", "withdraw", "ping", "redux"} =>
                        tx'["withdrawal"] # None
<1>4. /\ \A n \in {"closeAndReopen", "withdrawal"} : tx[n] # None => tx[n].index \in 0 .. 3
      /\ sendPc \in {"swap", "total", "send"} => sendLc \in Ledgers
      /\ outer \in Ledgers \cup {None} /\ value \in Nat
      /\ sendPc \in {"hook", "closeThreads", "withdraw", "ping", "redux"} => tx["withdrawal"] # None
  BY DEF MoneyTypes, RecordTypes, InHand
<1>5. ASSUME NEW n \in {"closeAndReopen", "withdrawal"}, NEW i \in 0 .. 3, Record(n, [index |-> i])
      PROVE  /\ Numbered /\ tx'[n] # None
             /\ \A m \in {"closeAndReopen", "withdrawal"} : m # n => tx'[m] = tx[m]
  <2>1. tx'[n] = [index |-> i] /\ \A m \in TxNames : m # n => tx'[m] = tx[m]
    BY <1>r, <1>5, OneRecord DEF TxNames
  <2>2. [index |-> i] # None
    BY NoneAssumption
  <2>3. QED
    BY <1>4, <2>1, <2>2 DEF TxNames
<1>6. ASSUME NEW n \in {"closeAndReopen", "withdrawal"}, Forget(n)
      PROVE  /\ Numbered
             /\ \A m \in {"closeAndReopen", "withdrawal"} : m # n => tx'[m] = tx[m]
  <2>1. tx'[n] = None /\ \A m \in TxNames : m # n => tx'[m] = tx[m]
    BY <1>r, <1>6, OneForgotten DEF TxNames
  <2>2. QED
    BY <1>4, <2>1 DEF TxNames
<1>7. ASSUME tx' = tx PROVE Numbered
  BY <1>4, <1>7
<1>8. Open => lc \in Ledgers
  BY OpenLedger DEF MoneyTypes
<1>i. 0 \in 0 .. 3 /\ 1 \in 0 .. 3 /\ 2 \in 0 .. 3 /\ 3 \in 0 .. 3
  OBVIOUS
<1>10. SUFFICES Numbered /\ Read
  <2>1. ASSUME Numbered, Read PROVE RecordStep
    <3>1. RecordTypes(tx)'
      BY <1>1, <2>1 DEF MoneyTypes, RecordTypes, BuyType
    <3>2. InHand'
      BY <2>1 DEF MoneyTypes, InHand
    <3>3. QED
      BY <1>2, <1>3, <3>1, <3>2 DEF RecordStep
  <2>2. QED
    BY <2>1
<1> HIDE DEF Numbered
<1>11. CASE SendEntireBalance
  BY <1>4, <1>5, <1>11, <1>i DEF SendEntireBalance
<1>12. CASE RestartSend
  <2>1. /\ sendPc' = <<"close1", "wait", "execute", "open">>[tx["closeAndReopen"].index + 1]
        /\ tx["closeAndReopen"] # None /\ UNCHANGED <<tx, outer, value>>
    BY <1>12 DEF RestartSend, worker
  <2>2. sendPc' \in {"close1", "wait", "execute", "open"}
    BY <1>4, <2>1
  <2>3. QED
    BY <1>4, <1>7, <2>1, <2>2
<1>13. CASE CloseThreads \/ ReadForSwap \/ ReadAfterSwap
  <2>1. tx' = tx /\ UNCHANGED <<outer, value>> /\ (sendLc' = sendLc \/ (Open /\ sendLc' = lc))
    BY <1>13 DEF CloseThreads, ReadForSwap, ReadAfterSwap, worker
  <2>2. sendPc' \in {"read", "update"} \/ (sendPc' \in {"swap", "total"} /\ Open /\ sendLc' = lc)
    BY <1>13 DEF CloseThreads, ReadForSwap, ReadAfterSwap, Goes
  <2>3. QED
    BY <1>4, <1>7, <1>8, <2>1, <2>2
<1>14. CASE SellBooty
  BY <1>4, <1>6, <1>7, <1>14 DEF SellBooty, SendFails
<1>15. CASE ComputeTotal
  <2>1. /\ sendPc = "total" /\ sendPc' = "close2" /\ tx' = tx /\ outer' = outer
        /\ value' = sendLc.A["eth"] + InThreads(threads, "eth")
    BY <1>15 DEF ComputeTotal, Goes, worker
  <2>2. InThreads(threads, "eth") \in Nat
    BY InThreadsType DEF MoneyTypes, HubTypes, Cur
  <2>3. sendLc.A["eth"] \in Nat
    BY <1>4, <2>1 DEF Ledgers, Pairs, Cur
  <2>4. QED
    BY <1>4, <1>7, <2>1, <2>2, <2>3
<1>16. CASE ReadForUpdate
  <2>1. sendLc' = lc /\ Open /\ value' = value /\ sendPc' \in {"send", "failed", "update"}
    BY <1>16 DEF ReadForUpdate, SendFails
  <2>2. outer' = outer \/ outer' = lc
    BY <1>16 DEF ReadForUpdate
  <2>3. tx' = tx \/ Forget("closeAndReopen")
    BY <1>16 DEF ReadForUpdate, SendFails
  <2>4. QED
    BY <1>4, <1>6, <1>7, <1>8, <2>1, <2>2, <2>3
<1>17. CASE SendUpdate
  <2>1. sendPc = "send" /\ value' = value /\ sendPc' \in {"send", "failed", "populate"}
    BY <1>17 DEF SendUpdate, SendFails
  <2>2. \/ UNCHANGED <<sendLc, outer>>
        \/ sendLc' = outer /\ outer # None /\ outer' = None
    BY <1>17 DEF SendUpdate
  <2>3. tx' = tx \/ Forget("closeAndReopen")
    BY <1>17 DEF SendUpdate, SendFails
  <2>4. QED
    BY <1>4, <1>6, <1>7, <2>1, <2>2, <2>3
<1>18. CASE PopulateAfterSend \/ WaitForUpdate \/ ChannelGone
  <2>1. /\ sendPc' \in {"wait", "execute", "open"} /\ UNCHANGED <<outer, value>>
        /\ \E i \in 0 .. 3 : Record("closeAndReopen", [index |-> i])
    BY <1>18, <1>i DEF PopulateAfterSend, WaitForUpdate, ChannelGone, Goes
  <2>2. QED
    BY <1>4, <1>5, <2>1
<1>19. CASE Execute
  <2>1. sendPc' = "hook" /\ UNCHANGED <<outer, value>>
    BY <1>19 DEF Execute, Goes
  <2>2. CASE tx["withdrawal"] = None
    BY <1>4, <1>5, <1>i, <1>19, <2>1, <2>2 DEF Execute
  <2>3. CASE tx["withdrawal"] # None
    BY <1>4, <1>7, <1>19, <2>1, <2>3 DEF Execute
  <2>4. QED
    BY <2>2, <2>3
<1>20. CASE HoldLock
  <2>1. /\ sendPc = "hook" /\ tx' = tx /\ UNCHANGED <<outer, value>>
        /\ sendPc' = <<"closeThreads", "withdraw", "ping", "redux">>[tx["withdrawal"].index + 1]
    BY <1>20 DEF HoldLock
  <2>2. sendPc' \in {"closeThreads", "withdraw", "ping", "redux"}
    BY <1>4, <2>1
  <2>3. QED
    BY <1>4, <1>7, <2>1, <2>2
<1>21. CASE CloseListedThreads \/ Withdraw \/ NotCosigned \/ PingChainsaw
  <2>1. /\ sendPc' \in {"withdraw", "ping", "redux"} /\ UNCHANGED <<outer, value>>
        /\ \E i \in 0 .. 3 : Record("withdrawal", [index |-> i])
    BY <1>21, <1>i DEF CloseListedThreads, Withdraw, NotCosigned, PingChainsaw, NextCloseMethod, Goes
  <2>2. QED
    BY <1>4, <1>5, <2>1
<1>22. CASE UpdateRedux
  <2>1. sendPc' \in {"execute", "gone"} /\ UNCHANGED <<outer, value>> /\ Forget("withdrawal")
    BY <1>22 DEF UpdateRedux
  <2>2. QED
    BY <1>4, <1>6, <2>1
<1>23. CASE OpenChannel
  <2>1. sendPc' = "done" /\ UNCHANGED <<outer, value>> /\ Forget("closeAndReopen")
    BY <1>23 DEF OpenChannel
  <2>2. QED
    BY <1>4, <1>6, <2>1
<1>24. CASE SendThrows
  BY <1>6, <1>24 DEF SendThrows, SendFails, DropLocals
<1>25. CASE CloseThrows
  <2>1. tx'["withdrawal"] = None /\ tx'["closeAndReopen"] = None
    BY <1>r, <1>25 DEF CloseThrows, RecordsOK, TxNames
  <2>2. Numbered
    BY <2>1 DEF Numbered
  <2>3. QED
    BY <1>4, <1>25, <2>2 DEF CloseThrows
<1>26. QED
  BY <1>11, <1>12, <1>13, <1>14, <1>15, <1>16, <1>17, <1>18, <1>19, <1>20, <1>21, <1>22, <1>23,
     <1>24, <1>25 DEF SendProceeds

------------------------------------------------------------------------------
(* Every step *)

\* A step that does not touch them keeps them.
LEMMA NothingMoves ==
  ASSUME PayInv, MoneyTypes, UNCHANGED <<tx, buyPc, charged, swapVars, sendVars>>,
         disk' = disk \/ disk' = tx
  PROVE  RecordStep
<1>1. PcIndex'
  BY PcIndexElsewhere DEF MoneyTypes
<1>2. RecordTypes(tx)' /\ RecordTypes(disk)'
  BY DEF MoneyTypes, RecordTypes, BuyType
<1>3. InHand'
  BY DEF MoneyTypes, InHand, swapVars, sendVars
<1>4. QED
  BY <1>1, <1>2, <1>3 DEF RecordStep

\* A crash brings back what was on disk, which has the types of records.
LEMMA CrashTypes ==
  ASSUME PayInv, MoneyTypes, Crash
  PROVE  RecordStep
<1>1. /\ tx' = disk /\ charged' = charged /\ swapPc' = "killed"
      /\ disk' = disk \/ disk' = [n \in TxNames |-> None]
      /\ buyPc' = [p \in Purchases |-> IF Buying(p) THEN "killed" ELSE buyPc[p]]
      /\ sendPc' \in {"killed", "failed", sendPc} /\ (sendPc' = sendPc => ~Sending \/ sendPc = "killed")
      /\ value' = 0 /\ outer' = None
  BY DEF Crash, DropLocals, Sending, SendEnded
<1>2. PcIndex'
  <2>1. \A p \in Purchases : ~Buying(p)' /\ buyPc'[p] \in BuyEnded
                             /\ (buyPc'[p] = "idle" => buyPc[p] = "idle")
    BY <1>1 DEF Buying, BuyEnded
  <2>2. \A w \in BuyEnded : AtMethod(w, tx'["buy"].index)
    BY DEF BuyEnded, AtMethod
  <2>3. QED
    BY <1>1, <2>1, <2>2 DEF MoneyTypes, PcIndex
<1>3. RecordTypes(tx)'
  BY <1>1 DEF MoneyTypes, RecordTypes, BuyType
<1>4. RecordTypes(disk)'
  <2>1. ASSUME disk' = [n \in TxNames |-> None] PROVE RecordTypes(disk)'
    <3>1. disk'["buy"] = None /\ disk'["closeAndReopen"] = None /\ disk'["withdrawal"] = None
      BY <2>1 DEF TxNames
    <3>2. QED
      BY <3>1 DEF RecordTypes
  <2>2. ASSUME disk' = disk PROVE RecordTypes(disk)'
    BY <2>2 DEF MoneyTypes, RecordTypes, BuyType
  <2>3. QED
    BY <1>1, <2>1, <2>2
<1>5. InHand'
  <2>1. sendPc' \notin {"swap", "total", "send", "hook", "closeThreads", "withdraw", "ping", "redux"}
    BY <1>1 DEF Sending, SendEnded
  <2>2. QED
    BY <1>1, <2>1 DEF InHand
<1>6. QED
  BY <1>2, <1>3, <1>4, <1>5 DEF RecordStep

\* Every step keeps the types of records and of what is in memory.
LEMMA RecordsKept ==
  ASSUME PayInv, MoneyTypes, [Next]_vars
  PROVE  RecordStep
<1>1. CASE Buy
  BY <1>1, RequestStep, BuyStepIs DEF Buy, BuyFrame
<1>2. CASE BuyGoesOn \/ BuyGivesUp
  BY <1>2, PurchaseStep, BuyStepIs DEF BuyGoesOn, BuyGivesUp, BuyFrame
<1>3. CASE BootGoesOn
  BY <1>3, BootStep, BuyStepIs DEF BootGoesOn, BuyFrame
<1>4. ASSUME NEW amount \in TopUps, Deposit(amount) PROVE RecordStep
  BY <1>4, SwapStepIs DEF Deposit
<1>5. CASE SwapGoesOn \/ SwapGivesUp
  BY <1>5, SwapStepIs DEF SwapGoesOn, SwapGivesUp, SwapFrame
<1>6. CASE Send \/ SendGoesOn \/ SendGivesUp
  BY <1>6, SendStepIs DEF Send, SendGoesOn, SendGivesUp, SendFrame, buyVars, swapVars
<1>7. CASE Merge \/ Persist \/ UNCHANGED vars
  <2>1. UNCHANGED <<tx, buyPc, charged, swapVars, sendVars>> /\ (disk' = disk \/ disk' = tx)
    BY <1>7 DEF Merge, HubMerges, Persist, FlushTx, vars, worker, buyVars
  <2>2. QED
    BY <2>1, NothingMoves
<1>8. CASE Crash
  BY <1>8, CrashTypes
<1>9. CASE Unlock
  <2>1. CASE sendPc = "killed"
    <3>1. RestartSend /\ UNCHANGED <<buyPc, charged, swapLc>>
      BY <1>9, <2>1 DEF Unlock
    <3>2. tx["closeAndReopen"] # None /\ tx["closeAndReopen"].index \in 0 .. 3
      BY <3>1 DEF RestartSend, MoneyTypes, RecordTypes
    <3>3. /\ sendPc' = <<"close1", "wait", "execute", "open">>[tx["closeAndReopen"].index + 1]
          /\ UNCHANGED <<tx, disk, outer, value>>
      BY <3>1 DEF RestartSend, worker
    <3>4. sendPc' \in {"close1", "wait", "execute", "open"}
      BY <3>2, <3>3
    <3>5. swapPc' = "idle"
      BY <1>9 DEF Unlock
    <3>6. InHand'
      BY <3>3, <3>4, <3>5 DEF MoneyTypes, InHand
    <3>7. PcIndex'
      BY <3>1, <3>3, PcIndexElsewhere DEF MoneyTypes
    <3>8. RecordTypes(tx)' /\ RecordTypes(disk)'
      BY <3>3 DEF MoneyTypes, RecordTypes, BuyType
    <3>9. QED
      BY <3>6, <3>7, <3>8 DEF RecordStep
  <2>2. CASE sendPc # "killed"
    <3>1. UNCHANGED <<tx, disk, buyPc, charged, sendVars>> /\ swapPc' = "idle"
      BY <1>9, <2>2 DEF Unlock, worker
    <3>2. InHand'
      BY <3>1 DEF MoneyTypes, InHand, sendVars
    <3>3. PcIndex'
      BY <3>1, PcIndexElsewhere DEF MoneyTypes
    <3>4. RecordTypes(tx)' /\ RecordTypes(disk)'
      BY <3>1 DEF MoneyTypes, RecordTypes, BuyType
    <3>5. QED
      BY <3>2, <3>3, <3>4 DEF RecordStep
  <2>3. QED
    BY <2>1, <2>2
<1>10. QED
  BY <1>1, <1>2, <1>3, <1>4, <1>5, <1>6, <1>7, <1>8, <1>9 DEF Next

\* Balances, records and what is in memory have their types at first, and after every step.
LEMMA MoneyTypesInit == Init => MoneyTypes
<1> SUFFICES ASSUME Init PROVE MoneyTypes
  OBVIOUS
<1>1. PICK b \in Balances : InitLedger(b.A, b.I)
  BY DEF Init
<1>2. b.A \in Pairs /\ b.I \in Pairs
  BY BalancesAssumption DEF Ledgers
<1>3. HubTypes
  <2>1. lc \in Ledgers /\ threads = [r \in Receivers |-> None] /\ payouts = 0 /\ onChain = Nothing
    BY <1>1, <1>2 DEF InitLedger, Ledgers
  <2>2. QED
    BY <2>1, Vectors DEF HubTypes
<1>4. /\ tx["buy"] = None /\ tx["closeAndReopen"] = None /\ tx["withdrawal"] = None /\ disk = tx
  BY <1>1 DEF InitLedger, TxNames
<1>5. RecordTypes(tx) /\ RecordTypes(disk)
  BY <1>4 DEF RecordTypes
<1>6. PcIndex
  BY DEF Init, InitBuy, PcIndex, AtMethod, Buying, BuyEnded
<1>7. InHand
  BY DEF Init, InitSwap, InitSend, InHand
<1>8. QED
  BY <1>3, <1>5, <1>6, <1>7 DEF MoneyTypes

LEMMA MoneyTypesInductive == PayInv /\ MoneyTypes /\ [Next]_vars => MoneyTypes'
  BY HubTypesKept, RecordsKept DEF RecordStep, MoneyTypes

LEMMA MoneyTypesInvariant == Spec => []MoneyTypes
  BY MoneyTypesInit, MoneyTypesInductive, PayInvariant, PTL DEF Spec

------------------------------------------------------------------------------
Flags == /\ lock \in {None, "withdrawal"} /\ known \in BOOLEAN
         /\ boot \in {"ready", "locked", "start", "buys", "buying", "rejected"}
         /\ charged \subseteq Purchases
         /\ holder \in BOOLEAN /\ again \in BOOLEAN

\* Flags and their like change to other flags.
LEMMA FlagsInductive == PayInv /\ Flags /\ [Next]_vars => Flags'
<1> SUFFICES ASSUME PayInv, Flags, [Next]_vars PROVE Flags'
  OBVIOUS
<1>0. StoreChannel => known' \in BOOLEAN
  BY Zenon DEF StoreChannel
<1>f. /\ lock \in {None, "withdrawal"} /\ known \in BOOLEAN
      /\ boot \in {"ready", "locked", "start", "buys", "buying", "rejected"}
      /\ charged \subseteq Purchases
      /\ holder \in BOOLEAN /\ again \in BOOLEAN
  BY DEF Flags
<1>1. ASSUME NEW p \in Purchases, BuyProceeds(p) \/ BuyThrows(p)
      PROVE  /\ known' = known \/ StoreChannel
             /\ boot' = boot \/ boot' \in {"ready", "rejected"}
             /\ charged' = charged \/ charged' = charged \cup {p}
             /\ lock' = lock
  BY <1>1 DEF BuyProceeds, BuyThrows, GetExistingChannel, GetVC, CloseForNew, OpenThread,
              ReadThread, UpdateBalance, RecordUpdate, UpdateStore, BuyFails, BootAfter, worker
<1>2. CASE BuyGoesOn \/ BuyGivesUp
  <2>1. UNCHANGED sendVars /\ \E p \in Purchases : BuyProceeds(p) \/ BuyThrows(p)
    BY <1>2 DEF BuyGoesOn, BuyGivesUp, BuyFrame
  <2>2. QED
    BY <1>0, <1>f, <1>1, <2>1 DEF Flags, sendVars
<1>3. CASE Buy
  <2>1. UNCHANGED <<sendVars, lock, known, boot, charged>>
    BY <1>3 DEF Buy, BuyFrame, RequestBuy
  <2>2. QED
    BY <1>f, <2>1 DEF Flags, sendVars
<1>4. CASE BootGoesOn
  <2>1. /\ UNCHANGED <<sendVars, lock, charged>> /\ (known' = known \/ StoreChannel)
        /\ boot' \in {"ready", "buys", "rejected", "buying"}
    BY <1>4 DEF BootGoesOn, BuyFrame, BootProceeds, SetChannel, SetChannelFails, RestartBuy, worker
  <2>2. QED
    BY <1>0, <1>f, <2>1 DEF Flags, sendVars
<1>5. CASE SwapGoesOn \/ SwapGivesUp \/ \E amount \in TopUps : Deposit(amount)
  <2>1. UNCHANGED <<sendVars, lock, boot, charged>> /\ (known' = known \/ StoreChannel)
    BY <1>5 DEF SwapGoesOn, SwapGivesUp, Deposit, SwapFrame, SwapProceeds, PrepareSwap, ExecuteSwap,
                PopulateSwap, SwapThrows, StartSwap, worker
  <2>2. QED
    BY <1>0, <1>f, <2>1 DEF Flags, sendVars
<1>6. CASE Send \/ SendGivesUp \/ SendGoesOn
  <2>1. UNCHANGED <<boot, charged>>
    BY <1>6 DEF Send, SendGivesUp, SendGoesOn, SendFrame, buyVars
  <2>2. known' = known \/ StoreChannel \/ known' = (known \/ ~Open)
    BY <1>6 DEF Send, SendGivesUp, SendGoesOn, SendEntireBalance, SendThrows, CloseThrows,
                SendProceeds, CloseThreads, ReadForSwap,
                SellBooty, ReadAfterSwap, ComputeTotal, ReadForUpdate, SendUpdate,
                PopulateAfterSend, WaitForUpdate, Execute, HoldLock, CloseListedThreads,
                Withdraw, NotCosigned, PingChainsaw, UpdateRedux, ChannelGone, OpenChannel, worker
  <2>3. known' \in BOOLEAN
    BY <1>0, <1>f, <2>2, Zenon
  <2>4. lock' \in {lock, None, "withdrawal"} /\ holder' \in {holder, TRUE, FALSE}
    BY <1>6 DEF Send, SendGivesUp, SendGoesOn, SendEntireBalance, SendThrows, CloseThrows,
                SendProceeds, CloseThreads, ReadForSwap,
                SellBooty, ReadAfterSwap, ComputeTotal, ReadForUpdate, SendUpdate,
                PopulateAfterSend, WaitForUpdate, Execute, HoldLock, CloseListedThreads,
                Withdraw, NotCosigned, PingChainsaw, UpdateRedux, ChannelGone, OpenChannel, worker
  <2>5. again' = again \/ again' = FALSE \/ again' = (tx["withdrawal"] # None)
    BY <1>6 DEF Send, SendGivesUp, SendGoesOn, SendEntireBalance, SendThrows, CloseThrows,
                SendProceeds, CloseThreads, ReadForSwap,
                SellBooty, ReadAfterSwap, ComputeTotal, ReadForUpdate, SendUpdate,
                PopulateAfterSend, WaitForUpdate, Execute, HoldLock, CloseListedThreads,
                Withdraw, NotCosigned, PingChainsaw, UpdateRedux, ChannelGone, OpenChannel, worker
  <2>6. again' \in BOOLEAN
    BY <1>f, <2>5, Zenon
  <2>7. lock' \in {None, "withdrawal"} /\ holder' \in BOOLEAN
    BY <1>f, <2>4
  <2>8. QED
    BY <1>f, <2>1, <2>3, <2>6, <2>7 DEF Flags
<1>7. CASE Merge \/ Persist \/ UNCHANGED vars
  <2>1. UNCHANGED <<sendVars, lock, known, boot, charged>>
    BY <1>7 DEF Merge, HubMerges, Persist, FlushTx, vars, worker, buyVars
  <2>2. QED
    BY <1>f, <2>1 DEF Flags, sendVars
<1>8. CASE Crash
  <2>1. /\ lock' = None /\ known' = FALSE /\ boot' = "locked" /\ holder' = FALSE /\ again' = FALSE
        /\ charged' = charged
    BY <1>8 DEF Crash
  <2>2. QED
    BY <1>f, <2>1 DEF Flags
<1>9. CASE Unlock
  <2>1. boot' = "start" /\ UNCHANGED <<lock, known, charged, holder, again>>
    BY <1>9 DEF Unlock, RestartSend, worker, sendVars
  <2>2. QED
    BY <1>f, <2>1 DEF Flags
<1>10. QED
  BY <1>2, <1>3, <1>4, <1>5, <1>6, <1>7, <1>8, <1>9 DEF Next

\* Whatever purchases, deposits, withdrawals and crashes come together, the channel and
\* the threads keep balances that are not negative, and every update that the worker
\* computes from a record or from what it has read is one of whole numbers.
THEOREM PaymentsTypes == Spec => []TypeOK
<1>1. Init => Flags
  BY DEF Init, InitLedger, InitBuy, InitSend, Flags
<1>2. Spec => []Flags
  BY <1>1, FlagsInductive, PayInvariant, PTL DEF Spec
<1>3. PayInv /\ MoneyTypes /\ Flags => TypeOK
  BY DEF PayInv, SemInv, ChargeInv, RecordsOK, MoneyTypes, HubTypes, Flags, TypeOK
<1>4. QED
  BY <1>2, <1>3, PayInvariant, MoneyTypesInvariant, PTL

------------------------------------------------------------------------------
(* SwapWithinBounds *)

\* What a swap asks for: not more ether than there is but for the rounding of half a booty,
\* and not more booty than twice the limit.
LEMMA SwapBounds ==
  ASSUME NEW c \in Ledgers, BeiToBuy(c) # 0
  PROVE  /\ 2 * Rate * AfterSwap(c, BeiToBuy(c)).A["eth"] >= - (BeiPerBooty + Rate)
         /\ AfterSwap(c, BeiToBuy(c)).A["tok"] < 2 * MaxBooty * BeiPerBooty
<1> DEFINE eth == c.A["eth"]
           tok == c.A["tok"]
           owned == Booty(tok)
           buyable == Rate * eth
           worth == Booty(buyable)
           bei == BeiToBuy(c)
           wei == ToWei(bei)
<1>1. eth \in Nat /\ tok \in Nat /\ BeiPerBooty \in Nat \ {0} /\ MaxBooty \in Nat /\ Rate \in Nat \ {0}
  BY SwapAssumption, RateAssumption DEF Ledgers, Pairs, Cur
<1>2. /\ owned \in Int /\ buyable \in Nat /\ worth \in Int
      /\ 2 * (BeiPerBooty * owned) >= 2 * tok - BeiPerBooty
      /\ 2 * (BeiPerBooty * owned) <= 2 * tok + BeiPerBooty
      /\ 2 * (BeiPerBooty * worth) >= 2 * buyable - BeiPerBooty
      /\ 2 * (BeiPerBooty * worth) <= 2 * buyable + BeiPerBooty
  <2>1. \A n \in Int : /\ Booty(n) \in Int
                       /\ 2 * (BeiPerBooty * Booty(n)) >= 2 * n - BeiPerBooty
                       /\ 2 * (BeiPerBooty * Booty(n)) <= 2 * n + BeiPerBooty
    BY Rounds, SwapAssumption DEF Booty
  <2>2. tok \in Int /\ buyable \in Int /\ buyable \in Nat
    BY <1>1
  <2> HIDE DEF tok, buyable
  <2>3. QED
    BY <2>1, <2>2
<1>3. /\ owned < MaxBooty
      /\ \/ worth >= MaxBooty /\ bei = (MaxBooty - owned) * BeiPerBooty
         \/ ~(worth >= MaxBooty) /\ bei = buyable
  <2>1. ~(owned >= MaxBooty)
    BY Zenon DEF BeiToBuy
  <2>2. \/ worth >= MaxBooty /\ bei = (MaxBooty - owned) * BeiPerBooty
        \/ ~(worth >= MaxBooty) /\ bei = buyable
    BY Zenon DEF BeiToBuy
  <2> HIDE DEF owned, worth, bei, buyable
  <2>3. QED
    BY <1>1, <1>2, <2>1, <2>2
<1>4. bei \in Int
  BY BeiTypes
<1>5. wei \in Int /\ 2 * (Rate * wei) <= 2 * bei + Rate /\ 2 * (Rate * wei) >= 2 * bei - Rate
  <2> HIDE DEF bei
  <2>1. QED
    BY <1>4, Rounds, RateAssumption DEF ToWei
<1>6. AfterSwap(c, bei).A["eth"] = eth - wei /\ AfterSwap(c, bei).A["tok"] = tok + bei
  <2> HIDE DEF bei
  <2>1. /\ AfterSwap(c, bei).A["eth"] = eth + Deltas(bei)["eth"]
        /\ AfterSwap(c, bei).A["tok"] = tok + Deltas(bei)["tok"]
    BY DEF AfterSwap, Plus, Cur
  <2>2. Deltas(bei)["eth"] = - wei /\ Deltas(bei)["tok"] = bei
    BY DEF Deltas
  <2> HIDE DEF eth, tok, wei
  <2>3. QED
    BY <1>1, <1>4, <1>5, <2>1, <2>2
<1> HIDE DEF eth, tok, owned, worth, bei, wei
<1>7. owned >= 0
  <2>1. SUFFICES ASSUME owned <= -1 PROVE FALSE
    BY <1>2
  <2>2. BeiPerBooty * owned <= - BeiPerBooty
    BY <1>1, <1>2, <2>1
  <2> DEFINE b == BeiPerBooty * owned
  <2>3. b \in Int
    BY <1>1, <1>2
  <2>4. 2 * b >= 2 * tok - BeiPerBooty /\ b <= - BeiPerBooty
    BY <1>2, <2>2
  <2> HIDE DEF b
  <2>5. QED
    BY <1>1, <2>3, <2>4
<1> DEFINE BO == BeiPerBooty * owned
           BW == BeiPerBooty * worth
           BM == BeiPerBooty * MaxBooty
           RW == Rate * wei
<1>8. BO \in Int /\ BW \in Int /\ BM \in Int /\ RW \in Int
  BY <1>1, <1>2, <1>5
<1>9. BO + BeiPerBooty <= BM /\ BO >= 0 /\ BM >= BeiPerBooty
  <2>1. BeiPerBooty * (owned + 1) <= BeiPerBooty * MaxBooty
    BY <1>1, <1>2, <1>3
  <2>2. BeiPerBooty * (owned + 1) = BO + BeiPerBooty
    BY <1>1, <1>2
  <2>3. BO >= 0
    BY <1>1, <1>2, <1>7
  <2> HIDE DEF BO, BM
  <2>4. QED
    BY <1>1, <1>8, <2>1, <2>2, <2>3 DEF BM
<1>10. \/ BW >= BM /\ bei = BM - BO
       \/ BW + BeiPerBooty <= BM /\ bei = buyable
  <2>1. CASE worth >= MaxBooty /\ bei = (MaxBooty - owned) * BeiPerBooty
    <3>1. BeiPerBooty * worth >= BeiPerBooty * MaxBooty
      BY <1>1, <1>2, <2>1
    <3>2. (MaxBooty - owned) * BeiPerBooty = BM - BO
      BY <1>1, <1>2
    <3>3. QED
      BY <2>1, <3>1, <3>2
  <2>2. CASE ~(worth >= MaxBooty) /\ bei = buyable
    <3>1. worth + 1 <= MaxBooty
      BY <1>1, <1>2, <2>2
    <3>2. BeiPerBooty * (worth + 1) <= BeiPerBooty * MaxBooty
      BY <1>1, <1>2, <3>1
    <3>3. BeiPerBooty * (worth + 1) = BW + BeiPerBooty
      BY <1>1, <1>2
    <3>4. QED
      BY <2>2, <3>2, <3>3
  <2>3. QED
    BY <1>3, <2>1, <2>2
<1>11. /\ 2 * BO >= 2 * tok - BeiPerBooty /\ 2 * BW >= 2 * buyable - BeiPerBooty
       /\ 2 * BW <= 2 * buyable + BeiPerBooty
       /\ 2 * RW <= 2 * bei + Rate
  BY <1>2, <1>5
<1>12. 2 * buyable - 2 * RW >= - (BeiPerBooty + Rate) /\ tok + bei < 2 * BM
  <2> HIDE DEF BO, BW, BM, RW, buyable
  <2>1. QED
    BY <1>1, <1>2, <1>4, <1>8, <1>9, <1>10, <1>11
<1>13. 2 * Rate * (eth - wei) = 2 * buyable - 2 * RW
  <2>1. 2 * Rate * (eth - wei) = 2 * (Rate * (eth - wei))
    BY <1>1, <1>5
  <2>2. Rate * (eth - wei) = Rate * eth - Rate * wei
    BY <1>1, <1>5
  <2>3. Rate * eth \in Int
    BY <1>1
  <2> DEFINE X == Rate * (eth - wei)
  <2>4. X = buyable - RW /\ 2 * Rate * (eth - wei) = 2 * X
    BY <2>1, <2>2
  <2> HIDE DEF X, RW, buyable
  <2>5. QED
    BY <1>2, <1>8, <2>4
<1>14. 2 * MaxBooty * BeiPerBooty = 2 * BM
  BY <1>1
<1>15. QED
  BY <1>6, <1>12, <1>13, <1>14 DEF bei

\* Buying booty asks for no more ether than there is, but for the rounding of half a booty,
\* and fills the wallet to less than twice its limit, also when it takes up what an earlier
\* session left (BuyBootyTransaction.ts, prepareAndExecuteSwap).
THEOREM SwapsStayWithinBounds == Spec => []SwapWithinBounds
<1>1. Init => SwapWithinBounds
  BY DEF Init, InitSwap, SwapWithinBounds
<1>2. MoneyTypes /\ SwapWithinBounds /\ [Next]_vars => SwapWithinBounds'
  <2> SUFFICES ASSUME MoneyTypes, SwapWithinBounds, [Next]_vars PROVE SwapWithinBounds'
    OBVIOUS
  <2>1. ASSUME asked' = asked \/ asked' = None PROVE SwapWithinBounds'
    BY <2>1 DEF SwapWithinBounds
  <2>2. CASE ExecuteSwap
    <3>1. swapLc \in Ledgers
      BY <2>2 DEF ExecuteSwap, MoneyTypes, InHand
    <3>2. asked' = asked \/ (BeiToBuy(swapLc) # 0 /\ asked' = AfterSwap(swapLc, BeiToBuy(swapLc)).A)
      BY <2>2 DEF ExecuteSwap
    <3>3. QED
      BY <2>1, <3>1, <3>2, SwapBounds DEF SwapWithinBounds
  <2>3. CASE SwapGoesOn \/ SwapGivesUp
    BY <2>1, <2>2, <2>3 DEF SwapGoesOn, SwapGivesUp, SwapProceeds, SwapThrows, PrepareSwap, PopulateSwap
  <2>4. CASE Buy \/ BuyGoesOn \/ BuyGivesUp \/ BootGoesOn
    BY <2>1, <2>4 DEF Buy, BuyGoesOn, BuyGivesUp, BootGoesOn, BuyFrame, swapVars
  <2>5. CASE Send \/ SendGoesOn \/ SendGivesUp
    BY <2>1, <2>5 DEF Send, SendGoesOn, SendGivesUp, SendFrame, swapVars
  <2>6. CASE Merge \/ Persist \/ Crash \/ Unlock \/ UNCHANGED vars
    BY <2>1, <2>6 DEF Merge, Persist, Crash, Unlock, swapVars, vars
  <2>7. ASSUME NEW amount \in TopUps, Deposit(amount) PROVE SwapWithinBounds'
    BY <2>1, <2>7 DEF Deposit, StartSwap
  <2>8. QED
    BY <2>3, <2>4, <2>5, <2>6, <2>7 DEF Next
<1>3. QED
  BY <1>1, <1>2, MoneyTypesInvariant, PTL DEF Spec
==============================================================================
