----------------------------- MODULE MoneyProofs -----------------------------
(***************************************************************************)
(* The wallet loses nothing, and withdrawals empty the channel: the proofs *)
(* of NothingLost and ClosesDrained of Payments.                           *)
(*                                                                         *)
(* As long as no two operations are under way at a time, whatever has been *)
(* read, or recorded, of the channel can only have grown since, since only *)
(* the hub still moves money.  A state computed from it is accepted by the *)
(* hub only if it has the same total, hence only if nothing has changed at *)
(* all; then the step moves what it says it moves.  A purchase that is     *)
(* killed with its update accepted has on record what is now in force.     *)
(***************************************************************************)
EXTENDS PaymentsProofs

------------------------------------------------------------------------------
(* Who is on record *)

\* A withdrawal is on record exactly while it is under way, or waits to be resumed by the
\* worker that is still locked.
SendRecord == /\ Sending \/ sendPc = "killed" <=> tx["closeAndReopen"] # None
              /\ sendPc = "killed" => boot = "locked"
              /\ sendPc = "killed" /\ crashes < MaxCrashes => disk["closeAndReopen"] # None

\* A purchase on record has the semaphore, or is still to be resumed.
Pending == tx["buy"] # None =>
             \/ sem = tx["buy"].job
             \/ sem = None /\ boot \in {"locked", "start", "buys", "rejected"}

\* The call of updateChannel() that called itself had read less than is to be sent.
Outgrown == outer # None => /\ value > outer.A["eth"]
                            /\ sendPc \in {"update", "send", "failed"}

OrderInv == SendRecord /\ Pending /\ Outgrown

\* What does not concern the withdrawal keeps its order.
LEMMA SendElsewhere ==
  ASSUME SendRecord, Outgrown, UNCHANGED <<sendPc, value, outer, crashes>>,
         disk' = disk \/ disk' = tx,
         tx'["closeAndReopen"] = tx["closeAndReopen"],
         boot = "locked" => boot' = "locked" \/ sendPc # "killed"
  PROVE  SendRecord' /\ Outgrown'
<1>1. Outgrown'
  BY DEF Outgrown
<1>2. Sending' <=> Sending
  BY DEF Sending
<1>3. SendRecord'
  BY <1>2 DEF SendRecord
<1>4. QED
  BY <1>1, <1>3

\* And so does a step of the withdrawal.
LEMMA SendOrder ==
  ASSUME PayInv, MoneyTypes, SendRecord, Outgrown, UNCHANGED <<boot, crashes>>,
         SendEntireBalance \/ SendProceeds \/ SendThrows \/ CloseThrows
  PROVE  SendRecord' /\ Outgrown'
<1>r. RecordsOK(tx)
  BY DEF PayInv, ChargeInv
<1> DEFINE On == sendPc' \notin SendEnded /\ tx'["closeAndReopen"] # None
           Off == sendPc' \in SendEnded \ {"killed"} /\ tx'["closeAndReopen"] = None
           Calm == UNCHANGED <<outer, value>>
<1>1. SUFFICES (On \/ Off) /\ Outgrown'
  <2>1. ASSUME On \/ Off PROVE SendRecord'
    BY <2>1 DEF SendRecord, Sending, SendEnded
  <2>2. QED
    BY <2>1
<1>2. sendPc \notin SendEnded => tx["closeAndReopen"] # None
  BY DEF SendRecord, Sending
<1>3. ASSUME NEW i \in Nat, Record("closeAndReopen", [index |-> i])
      PROVE  tx'["closeAndReopen"] # None
  <2>1. [index |-> i] # None
    BY NoneAssumption
  <2>2. QED
    BY <1>r, <1>3, <2>1, OneRecord DEF TxNames
<1>4. ASSUME NEW n \in {"withdrawal"}, (\E r : Record(n, r)) \/ Forget(n)
      PROVE  tx'["closeAndReopen"] = tx["closeAndReopen"]
  BY <1>r, <1>4, OneRecord, OneForgotten DEF TxNames
<1>5. ASSUME SendFails PROVE Off
  BY <1>r, <1>5, OneForgotten DEF SendFails, TxNames, SendEnded
<1>6. ASSUME Calm, sendPc \in {"update", "send", "failed"} => sendPc' \in {"update", "send", "failed"}
      PROVE  Outgrown'
  BY <1>6 DEF Outgrown
<1>7. sendPc \notin {"update", "send", "failed"} => outer = None
  BY DEF Outgrown
<1>i. 0 \in Nat /\ 1 \in Nat /\ 2 \in Nat /\ 3 \in Nat
  OBVIOUS
<1> HIDE DEF Off
<1>11. CASE SendEntireBalance
  BY <1>3, <1>6, <1>i, <1>11 DEF SendEntireBalance, SendEnded
<1>12. CASE CloseThreads
  BY <1>2, <1>6, <1>12 DEF CloseThreads, Goes, worker, SendEnded
<1>13. CASE ReadForSwap \/ ReadAfterSwap
  BY <1>2, <1>6, <1>13 DEF ReadForSwap, ReadAfterSwap, Goes, worker, SendEnded
<1>14. CASE SellBooty
  <2>1. Calm /\ sendPc = "swap" /\ (SendFails \/ (sendPc' = "reread" /\ tx' = tx))
    BY <1>14 DEF SellBooty
  <2>2. QED
    BY <1>2, <1>5, <1>6, <2>1 DEF SendEnded
<1>15. CASE ComputeTotal
  <2>1. sendPc = "total" /\ sendPc' = "close2" /\ tx' = tx /\ outer' = outer
    BY <1>15 DEF ComputeTotal, Goes, worker
  <2>2. Outgrown'
    BY <1>7, <2>1 DEF Outgrown
  <2>3. QED
    BY <1>2, <2>1, <2>2 DEF SendEnded
<1>16. CASE ReadForUpdate
  <2>1. sendPc = "update" /\ Open /\ value' = value /\ value \in Nat
    BY <1>16 DEF ReadForUpdate, MoneyTypes, InHand
  <2>2. \/ sendPc' = "send" /\ UNCHANGED <<outer, tx>>
        \/ SendFails /\ UNCHANGED outer
        \/ ~(value <= lc.A["eth"]) /\ outer' = lc /\ UNCHANGED <<sendPc, tx>>
    BY <1>16, Zenon DEF ReadForUpdate
  <2>3. lc.A["eth"] \in Nat
    BY <2>1, OpenLedger DEF MoneyTypes, Pairs, Cur
  <2>4. Outgrown'
    BY <2>1, <2>2, <2>3 DEF Outgrown, SendFails
  <2>5. On \/ Off
    BY <1>2, <1>5, <2>1, <2>2 DEF SendEnded
  <2>6. QED
    BY <2>4, <2>5
<1>17. CASE SendUpdate
  <2>1. sendPc = "send" /\ value' = value
    BY <1>17 DEF SendUpdate
  <2>2. \/ sendPc' = "populate" /\ outer = None /\ outer' = None /\ tx' = tx
        \/ sendPc' = "send" /\ outer' = None /\ tx' = tx
        \/ SendFails /\ outer' = outer
    BY <1>17 DEF SendUpdate
  <2>3. Outgrown'
    BY <2>1, <2>2 DEF Outgrown, SendFails
  <2>4. On \/ Off
    BY <1>2, <1>5, <2>1, <2>2 DEF SendEnded
  <2>5. QED
    BY <2>3, <2>4
<1>18. CASE PopulateAfterSend \/ WaitForUpdate \/ ChannelGone
  <2>1. /\ sendPc \in {"populate", "wait", "gone"} /\ sendPc' \in {"wait", "execute", "open"} /\ Calm
        /\ \E i \in Nat : Record("closeAndReopen", [index |-> i])
    BY <1>18, <1>i DEF PopulateAfterSend, WaitForUpdate, ChannelGone, Goes
  <2>2. QED
    BY <1>3, <1>6, <2>1 DEF SendEnded
<1>19. CASE Execute
  <2>1. /\ sendPc = "execute" /\ sendPc' = "hook" /\ Calm
        /\ tx' = tx \/ \E r : Record("withdrawal", r)
    BY <1>19 DEF Execute, Goes
  <2>2. QED
    BY <1>2, <1>4, <1>6, <2>1 DEF SendEnded
<1>20. CASE HoldLock
  <2>1. /\ sendPc = "hook" /\ tx' = tx /\ Calm
        /\ sendPc' = <<"closeThreads", "withdraw", "ping", "redux">>[tx["withdrawal"].index + 1]
    BY <1>20 DEF HoldLock
  <2>2. tx["withdrawal"].index \in 0 .. 3
    BY <2>1 DEF MoneyTypes, InHand, RecordTypes
  <2>3. sendPc' \in {"closeThreads", "withdraw", "ping", "redux"}
    BY <2>1, <2>2
  <2>4. QED
    BY <1>2, <1>6, <2>1, <2>3 DEF SendEnded
<1>21. CASE CloseListedThreads \/ Withdraw \/ NotCosigned \/ PingChainsaw
  <2>1. /\ sendPc \in {"closeThreads", "withdraw", "ping"} /\ sendPc' \in {"withdraw", "ping", "redux"}
        /\ Calm /\ \E r : Record("withdrawal", r)
    BY <1>21 DEF CloseListedThreads, Withdraw, NotCosigned, PingChainsaw, NextCloseMethod, Goes
  <2>2. QED
    BY <1>2, <1>4, <1>6, <2>1 DEF SendEnded
<1>22. CASE UpdateRedux
  <2>1. sendPc = "redux" /\ sendPc' \in {"execute", "gone"} /\ Calm /\ Forget("withdrawal")
    BY <1>22 DEF UpdateRedux
  <2>2. QED
    BY <1>2, <1>4, <1>6, <2>1 DEF SendEnded
<1>23. CASE OpenChannel
  <2>1. sendPc = "open" /\ sendPc' = "done" /\ Calm /\ Forget("closeAndReopen")
    BY <1>23 DEF OpenChannel
  <2>2. Off
    BY <1>r, <2>1, OneForgotten DEF Off, TxNames, SendEnded
  <2>3. QED
    BY <1>6, <2>1, <2>2
<1>24. CASE SendThrows
  BY <1>5, <1>24 DEF SendThrows, DropLocals, Outgrown
<1>25. CASE CloseThrows
  <2>1. tx'["closeAndReopen"] = None /\ sendPc' = "failed" /\ Calm
    BY <1>r, <1>25 DEF CloseThrows, RecordsOK, TxNames
  <2>2. QED
    BY <1>6, <2>1 DEF Off, SendEnded
<1>26. QED
  BY <1>11, <1>12, <1>13, <1>14, <1>15, <1>16, <1>17, <1>18, <1>19, <1>20, <1>21, <1>22, <1>23,
     <1>24, <1>25 DEF SendProceeds

\* A purchase under way keeps the semaphore until its record is removed.
LEMMA BuyOrder ==
  ASSUME PayInv, Pending, NEW p \in Purchases, BuyProceeds(p) \/ BuyThrows(p)
  PROVE  /\ Pending' /\ Buying(p)
         /\ boot' = boot \/ boot = "buying"
<1>1. Buying(p)
  BY DEF BuyProceeds, BuyThrows, GetExistingChannel, GetVC, CloseForNew, OpenThread,
         ReadThread, UpdateBalance, RecordUpdate, UpdateStore, Buying, BuyEnded
<1>2. sem = p /\ tx["buy"].job = p /\ RecordsOK(tx)
  BY <1>1, UnderWay
<1>3. boot' = boot \/ boot = "buying"
  BY DEF BuyProceeds, BuyThrows, GetExistingChannel, GetVC, CloseForNew, OpenThread,
         ReadThread, UpdateBalance, RecordUpdate, UpdateStore, BuyFails, BootAfter
<1>4. \/ Forget("buy")
      \/ sem' = sem /\ (tx' = tx \/ \E i, l, v : Record("buy", BuyRecord(i, p, l, v)))
  BY DEF BuyProceeds, BuyThrows, GetExistingChannel, GetVC, CloseForNew, OpenThread,
         ReadThread, UpdateBalance, RecordUpdate, UpdateStore, BuyFails, worker
<1>5. tx'["buy"] = None \/ (sem' = p /\ tx'["buy"].job = p)
  <2>1. CASE Forget("buy")
    BY <1>2, <2>1, OneForgotten DEF TxNames
  <2>2. ASSUME NEW i, NEW l, NEW v, Record("buy", BuyRecord(i, p, l, v))
        PROVE  tx'["buy"].job = p
    BY <1>2, <2>2, OneRecord DEF TxNames, BuyRecord
  <2>3. QED
    BY <1>2, <1>4, <2>1, <2>2
<1>6. QED
  BY <1>1, <1>3, <1>5 DEF Pending

\* At first, and after every step, what is under way is on record.
LEMMA OrderInit == Init => OrderInv
<1> SUFFICES ASSUME Init PROVE OrderInv
  OBVIOUS
<1>1. tx["buy"] = None /\ tx["closeAndReopen"] = None
  BY DEF Init, InitLedger, TxNames
<1>2. sendPc = "idle" /\ outer = None
  BY DEF Init, InitSend
<1>3. QED
  BY <1>1, <1>2 DEF OrderInv, SendRecord, Pending, Outgrown, Sending, SendEnded

LEMMA OrderInductive ==
  PayInv /\ MoneyTypes /\ OrderInv /\ [Next]_vars => OrderInv'
<1> SUFFICES ASSUME PayInv, MoneyTypes, OrderInv, [Next]_vars PROVE OrderInv'
  OBVIOUS
<1>0. SendRecord /\ Pending /\ Outgrown /\ RecordsOK(tx) /\ DOMAIN tx = TxNames
  BY DEF OrderInv, PayInv, ChargeInv, RecordsOK
<1>1. CASE Buy
  <2>1. PICK p \in Purchases : RequestBuy(p)
    BY <1>1 DEF Buy
  <2>2. UNCHANGED <<boot, disk, crashes, sendPc, value, outer>>
    BY <1>1, <2>1 DEF Buy, BuyFrame, RequestBuy, sendVars
  <2>3. CASE sem # None
    <3>1. UNCHANGED <<tx, sem>>
      BY <2>1, <2>3 DEF RequestBuy
    <3>2. QED
      BY <1>0, <2>2, <3>1, SendElsewhere DEF OrderInv, Pending
  <2>4. CASE sem = None
    <3>1. sem' = p /\ Record("buy", BuyRecord(0, p, None, None))
      BY <2>1, <2>4 DEF RequestBuy
    <3>2. /\ tx'["buy"] = BuyRecord(0, p, None, None)
          /\ tx'["closeAndReopen"] = tx["closeAndReopen"]
      BY <1>0, <3>1, OneRecord DEF TxNames
    <3>3. Pending'
      BY <3>1, <3>2 DEF Pending, BuyRecord
    <3>4. QED
      BY <1>0, <2>2, <3>2, <3>3, SendElsewhere DEF OrderInv
  <2>5. QED
    BY <2>3, <2>4
<1>2. CASE BuyGoesOn \/ BuyGivesUp
  <2>1. PICK p \in Purchases : BuyProceeds(p) \/ BuyThrows(p)
    BY <1>2 DEF BuyGoesOn, BuyGivesUp
  <2>2. UNCHANGED <<crashes, sendPc, value, outer>>
    BY <1>2 DEF BuyGoesOn, BuyGivesUp, BuyFrame, sendVars
  <2>3. Pending' /\ (boot = "locked" => boot' = "locked")
    BY <1>0, <2>1, BuyOrder
  <2>4. disk' = disk /\ tx'["closeAndReopen"] = tx["closeAndReopen"]
    BY <2>1, PurchaseStep DEF BuyStep, TxNames
  <2>5. QED
    BY <1>0, <2>2, <2>3, <2>4, SendElsewhere DEF OrderInv
<1>3. CASE BootGoesOn
  <2>1. UNCHANGED <<crashes, sendPc, value, outer, tx, disk>>
    BY <1>3 DEF BootGoesOn, BuyFrame, sendVars, BootProceeds, SetChannel, SetChannelFails,
                RestartBuy, worker
  <2>2. boot # "locked"
    BY <1>3 DEF BootGoesOn, BootProceeds, SetChannel, SetChannelFails, RestartBuy
  <2>3. \/ sem' = tx["buy"].job
        \/ sem' = sem /\ boot = "start" /\ boot' \in {"buys", "rejected"}
        \/ tx["buy"] = None
    BY <1>3 DEF BootGoesOn, BootProceeds, SetChannel, SetChannelFails, RestartBuy
  <2>4. boot = "start" => sem = None
    BY DEF PayInv, SemInv
  <2>5. Pending'
    BY <2>1, <2>3, <2>4 DEF Pending
  <2>6. QED
    BY <1>0, <2>1, <2>2, <2>5, SendElsewhere DEF OrderInv
<1>4. CASE SwapGoesOn \/ SwapGivesUp \/ \E amount \in TopUps : Deposit(amount)
  <2>1. UNCHANGED <<boot, crashes, sendPc, value, outer, disk>>
    BY <1>4 DEF SwapGoesOn, SwapGivesUp, SwapFrame, Deposit, StartSwap, SwapProceeds, SwapThrows,
                PrepareSwap, ExecuteSwap, PopulateSwap, sendVars, worker
  <2>2. tx' = tx \/ (\E r : Record("buyBooty", r)) \/ Forget("buyBooty")
    BY <1>4 DEF SwapGoesOn, SwapGivesUp, Deposit, StartSwap, SwapProceeds, SwapThrows,
                PrepareSwap, ExecuteSwap, SwapStored, PopulateSwap, worker
  <2>3. tx'["buy"] = tx["buy"] /\ tx'["closeAndReopen"] = tx["closeAndReopen"]
    BY <1>0, <2>2, OneRecord, OneForgotten DEF TxNames
  <2>4. tx["buy"] = None
    <3>1. CASE SwapGoesOn \/ SwapGivesUp
      <4>1. Swapping
        BY <3>1 DEF SwapGoesOn, SwapGivesUp, SwapProceeds, SwapThrows, PrepareSwap, ExecuteSwap,
                    PopulateSwap, Swapping
      <4>2. sem = TopUp
        BY <4>1 DEF PayInv, SemInv
      <4>3. tx["buy"] # None => tx["buy"].job \in Purchases
        BY DEF PayInv, ChargeInv, RecordsOK, BuyForm
      <4>4. QED
        BY <1>0, <4>2, <4>3, PurchasesAssumption DEF Pending
    <3>2. CASE \E amount \in TopUps : Deposit(amount)
      <4>1. sem = None /\ boot = "ready"
        BY <3>2 DEF Deposit
      <4>2. tx["buy"] # None => tx["buy"].job \in Purchases
        BY DEF PayInv, ChargeInv, RecordsOK, BuyForm
      <4>3. QED
        BY <1>0, <4>1, <4>2, PurchasesAssumption DEF Pending
    <3>3. QED
      BY <1>4, <3>1, <3>2
  <2>5. Pending'
    BY <2>3, <2>4 DEF Pending
  <2>6. QED
    BY <1>0, <2>1, <2>3, <2>5, SendElsewhere DEF OrderInv
<1>5. CASE Send \/ SendGoesOn \/ SendGivesUp
  <2>1. /\ UNCHANGED <<boot, crashes, sem>>
        /\ SendEntireBalance \/ SendProceeds \/ SendThrows \/ CloseThrows
    BY <1>5 DEF Send, SendGoesOn, SendGivesUp, SendFrame, buyVars
  <2>2. tx'["buy"] = tx["buy"]
    BY <1>0, <2>1, SendRecords
  <2>3. Pending'
    BY <1>0, <2>1, <2>2 DEF Pending
  <2>4. QED
    BY <1>0, <2>1, <2>3, SendOrder DEF OrderInv
<1>6. CASE Merge \/ Persist \/ UNCHANGED vars
  <2>1. UNCHANGED <<boot, crashes, sem, tx, sendPc, value, outer>> /\ (disk' = disk \/ disk' = tx)
    BY <1>6 DEF Merge, HubMerges, Persist, FlushTx, vars, worker, buyVars, sendVars
  <2>2. Pending'
    BY <1>0, <2>1 DEF Pending
  <2>3. QED
    BY <1>0, <2>1, <2>2, SendElsewhere DEF OrderInv
<1>7. CASE Crash
  <2>1. /\ boot' = "locked" /\ sem' = None /\ outer' = None /\ tx' = disk
        /\ disk' = (IF crashes' < MaxCrashes THEN disk ELSE [n \in TxNames |-> None])
        /\ sendPc' = (IF tx'["closeAndReopen"] # None THEN "killed"
                      ELSE IF Sending THEN "failed" ELSE sendPc)
        /\ crashes < MaxCrashes
    BY <1>7 DEF Crash, DropLocals
  <2>2. Pending' /\ Outgrown'
    BY <2>1 DEF Pending, Outgrown
  <2>3. CASE tx'["closeAndReopen"] # None
    <3>1. SendRecord'
      BY <2>1, <2>3 DEF SendRecord, Sending, SendEnded
    <3>2. QED
      BY <2>2, <3>1 DEF OrderInv
  <2>4. CASE tx'["closeAndReopen"] = None
    <3>1. sendPc # "killed"
      BY <1>0, <2>1, <2>4 DEF SendRecord
    <3>2. sendPc' \in SendEnded /\ sendPc' # "killed"
      BY <2>1, <2>4, <3>1 DEF Sending, SendEnded
    <3>3. QED
      BY <2>2, <2>4, <3>2 DEF OrderInv, SendRecord, Sending
  <2>5. QED
    BY <2>2, <2>3, <2>4 DEF OrderInv
<1>8. CASE Unlock
  <2>1. boot = "locked" /\ boot' = "start" /\ UNCHANGED <<sem, crashes>>
    BY <1>8 DEF Unlock
  <2>2. UNCHANGED <<tx, disk, value, outer>>
    BY <1>8 DEF Unlock, RestartSend, worker, sendVars
  <2>3. sem = None
    BY <2>1 DEF PayInv, SemInv
  <2>4. Pending'
    BY <2>1, <2>2, <2>3 DEF Pending
  <2>5. CASE sendPc = "killed"
    <3>1. /\ sendPc' = <<"close1", "wait", "execute", "open">>[tx["closeAndReopen"].index + 1]
          /\ tx["closeAndReopen"] # None
      BY <1>8, <2>5 DEF Unlock, RestartSend
    <3>2. tx["closeAndReopen"].index \in 0 .. 3
      BY <3>1 DEF MoneyTypes, RecordTypes
    <3>3. sendPc' \in {"close1", "wait", "execute", "open"}
      BY <3>1, <3>2
    <3>4. outer = None
      BY <1>0, <2>5 DEF Outgrown
    <3>5. QED
      BY <2>1, <2>2, <2>4, <3>1, <3>3, <3>4 DEF OrderInv, SendRecord, Sending, SendEnded, Outgrown
  <2>6. CASE sendPc # "killed"
    <3>1. sendPc' = sendPc
      BY <1>8, <2>6 DEF Unlock, sendVars
    <3>2. QED
      BY <1>0, <2>1, <2>2, <2>4, <2>6, <3>1, SendElsewhere DEF OrderInv
  <2>7. QED
    BY <2>5, <2>6
<1>9. QED
  BY <1>1, <1>2, <1>3, <1>4, <1>5, <1>6, <1>7, <1>8 DEF Next

LEMMA OrderInvariant == Spec => []OrderInv
  BY OrderInit, OrderInductive, PayInvariant, MoneyTypesInvariant, PTL DEF Spec

------------------------------------------------------------------------------
(* What was read is still there *)

Below(a, b) == \A c \in Cur : a[c] <= b[c]
Within(c, d) == Below(c.A, d.A) /\ Below(c.I, d.I)

\* Nothing runs beside a withdrawal, and a crash left only one of them to be resumed.
Alone == /\ ~(Sending /\ sem # None)
         /\ tx["buy"] = None \/ tx["closeAndReopen"] = None

\* Before its payment, a purchase has on record a ledger that since then grew at most, but
\* for what went into the thread that it opened, and the thread as it is.
Unpaid(r) ==
  /\ r.index >= 1 /\ Open =>
       /\ Below(r.lc.I, lc.I)
       /\ unrecorded \/ buyPc[r.job] = "read" \/ Below(r.lc.A, lc.A)
  /\ r.index >= 2 /\ Closable(Orders[r.job].to) => threads[Orders[r.job].to] = r.vc

\* After it, what it would send again is what there is, or has grown, too.
Paid(r) ==
  /\ r.index >= 2
  /\ r.index = 2 /\ Open => Within(LcAfter(r), lc)
  /\ r.index = 2 /\ Closable(Orders[r.job].to) => threads[Orders[r.job].to] = VcAfter(r)

OnRecord == tx["buy"] # None => IF tx["buy"].job \in charged THEN Paid(tx["buy"])
                                                             ELSE Unpaid(tx["buy"])

\* What swaps and withdrawals have read has grown at most, too.
OtherReads == /\ swapPc = "swap" /\ Open => Within(swapLc, lc)
              /\ sendPc = "swap" /\ Open => Within(sendLc, lc)
              /\ sendPc = "send" /\ Open => value > sendLc.A["eth"] \/ Within(sendLc, lc)

Undisturbed == ~disturbed => Alone /\ OnRecord /\ OtherReads

------------------------------------------------------------------------------
\* A withdrawal beside a holder of the semaphore are two operations.
LEMMA BusyCounts == PayInv /\ sem # None /\ Sending => Busy > 1
<1> SUFFICES ASSUME PayInv, sem # None, Sending PROVE Busy > 1
  OBVIOUS
<1> DEFINE B == {p \in Purchases : Buying(p)}
<1>1. IsFiniteSet(B)
  BY OrdersAssumption, FS_Subset
<1>2. Cardinality(B) \in Nat
  BY <1>1, FS_CardinalityType
<1>3. CASE sem = TopUp
  <2>1. Swapping
    BY <1>3 DEF PayInv, SemInv
  <2> HIDE DEF B
  <2>2. Cardinality(B) + 1 + 1 > 1
    BY <1>2
  <2>3. Busy = Cardinality(B) + 1 + 1
    BY <2>1 DEF Busy, B
  <2>4. QED
    BY <2>2, <2>3
<1>4. CASE sem # TopUp
  <2>1. sem \in Purchases /\ Buying(sem)
    BY <1>4 DEF PayInv, SemInv
  <2>2. B # {}
    BY <2>1
  <2>3. Cardinality(B) # 0
    BY <1>1, <2>2, FS_EmptySet
  <2> DEFINE s == IF Swapping THEN 1 ELSE 0
  <2>4. Busy = Cardinality(B) + s + 1 /\ s \in Nat
    BY DEF Busy
  <2> HIDE DEF B, s
  <2>5. QED
    BY <1>2, <2>3, <2>4
<1>5. QED
  BY <1>3, <1>4

\* Disturbances stay, and so does what was not recorded.
LEMMA GhostSteps ==
  ASSUME [Next]_vars
  PROVE  /\ start' = start
         /\ disturbed => disturbed'
         /\ unrecorded => unrecorded'
         /\ \/ Observe
            \/ Crash
            \/ UNCHANGED <<tx, sem, buyPc, boot, charged, swapVars, sendVars, disturbed, unrecorded>>
<1>1. CASE Observe
  <2>1. start' = start /\ unrecorded' = unrecorded /\ disturbed' = (disturbed \/ Busy' > 1)
    BY <1>1 DEF Observe
  <2>2. disturbed => disturbed'
    BY <2>1, Zenon
  <2>3. QED
    BY <1>1, <2>1, <2>2
<1>2. CASE Crash
  <2>1. start' = start /\ disturbed' = (disturbed \/ disk # tx)
    BY <1>2 DEF Crash
  <2>2. unrecorded' = (unrecorded \/ \E p \in Purchases : buyPc[p] = "read")
    BY <1>2 DEF Crash
  <2>3. (disturbed => disturbed') /\ (unrecorded => unrecorded')
    BY <2>1, <2>2, Zenon
  <2>4. QED
    BY <1>2, <2>1, <2>3
<1>3. CASE Merge \/ Persist \/ UNCHANGED vars
  <2>1. /\ UNCHANGED <<tx, sem, buyPc, boot, charged, swapVars, sendVars, disturbed, unrecorded>>
        /\ start' = start
    BY <1>3 DEF Merge, HubMerges, Persist, FlushTx, vars, worker, buyVars, ghosts
  <2>2. QED
    BY <2>1
<1>4. [Next]_vars => Observe \/ Crash \/ Merge \/ Persist \/ UNCHANGED vars
  BY DEF Next, Buy, BuyGoesOn, BuyGivesUp, BootGoesOn, BuyFrame, Deposit, SwapGoesOn, SwapGivesUp,
         SwapFrame, Send, SendGoesOn, SendGivesUp, SendFrame, Unlock
<1>5. QED
  BY <1>1, <1>2, <1>3, <1>4

\* Only a withdrawal that is under way takes steps.
LEMMA SendGoesOnIs == SendProceeds => Sending
BY DEF SendProceeds, Sending, SendEnded, Goes, NextCloseMethod, CloseThreads, ReadForSwap,
       SellBooty, ReadAfterSwap, ComputeTotal, ReadForUpdate, SendUpdate, PopulateAfterSend,
       WaitForUpdate, Execute, HoldLock, CloseListedThreads, Withdraw, NotCosigned, PingChainsaw,
       UpdateRedux, ChannelGone, OpenChannel

\* A transaction is put on record by a page alone.
LEMMA NewRecords ==
  ASSUME PayInv, MoneyTypes, OrderInv, [Next]_vars, ~Crash
  PROVE  /\ tx["buy"] = None /\ tx'["buy"] # None => boot' = "ready"
         /\ tx["closeAndReopen"] = None /\ tx'["closeAndReopen"] # None => boot' = "ready"
<1>r. RecordsOK(tx)
  BY DEF PayInv, ChargeInv
<1>1. CASE Buy
  <2>1. boot' = "ready"
    BY <1>1 DEF Buy, RequestBuy
  <2>2. QED
    BY <2>1
<1>2. CASE BuyGoesOn \/ BuyGivesUp
  <2>1. PICK p \in Purchases : BuyProceeds(p) \/ BuyThrows(p)
    BY <1>2 DEF BuyGoesOn, BuyGivesUp
  <2>2. tx["buy"] # None
    BY <2>1, BuyOrder DEF MoneyTypes, PcIndex, OrderInv
  <2>3. tx'["closeAndReopen"] = tx["closeAndReopen"]
    BY <2>1, PurchaseStep DEF BuyStep, TxNames
  <2>4. QED
    BY <2>2, <2>3
<1>3. CASE BootGoesOn \/ Merge \/ Persist \/ UNCHANGED vars \/ Unlock
  <2>1. tx' = tx
    BY <1>3 DEF BootGoesOn, BootProceeds, SetChannel, SetChannelFails, RestartBuy, Merge, HubMerges,
                Persist, FlushTx, vars, worker, Unlock, RestartSend
  <2>2. QED
    BY <2>1
<1>4. CASE SwapGoesOn \/ SwapGivesUp \/ \E amount \in TopUps : Deposit(amount)
  <2>1. tx' = tx \/ (\E r : Record("buyBooty", r)) \/ Forget("buyBooty")
    BY <1>4 DEF SwapGoesOn, SwapGivesUp, Deposit, StartSwap, SwapProceeds, SwapThrows,
                PrepareSwap, ExecuteSwap, SwapStored, PopulateSwap, worker
  <2>2. tx'["buy"] = tx["buy"] /\ tx'["closeAndReopen"] = tx["closeAndReopen"]
    BY <1>r, <2>1, OneRecord, OneForgotten DEF TxNames
  <2>3. QED
    BY <2>2
<1>5. CASE Send
  BY <1>r, <1>5, SendRecords DEF Send, SendFrame, buyVars
<1>6. CASE SendGoesOn
  <2>1. tx["closeAndReopen"] # None
    BY <1>6, SendGoesOnIs DEF SendGoesOn, OrderInv, SendRecord
  <2>2. tx'["buy"] = tx["buy"]
    BY <1>r, <1>6, SendRecords DEF SendGoesOn
  <2>3. QED
    BY <2>1, <2>2
<1>7. CASE SendGivesUp
  <2>1. tx'["buy"] = tx["buy"]
    BY <1>r, <1>7, SendRecords DEF SendGivesUp
  <2>2. tx'["closeAndReopen"] = None
    BY <1>r, <1>7, OneForgotten
    DEF SendGivesUp, SendThrows, SendFails, CloseThrows, RecordsOK, TxNames
  <2>3. QED
    BY <2>1, <2>2
<1>8. QED
  BY <1>1, <1>2, <1>3, <1>4, <1>5, <1>6, <1>7 DEF Next

\* Without a disturbance, nothing comes beside a withdrawal.
LEMMA AloneKept ==
  ASSUME PayInv, PayInv', MoneyTypes, OrderInv, OrderInv', [Next]_vars, Alone, ~disturbed'
  PROVE  Alone'
<1>1. ~(Sending' /\ sem' # None)
  <2>1. CASE Observe
    <3>1. ~(Busy' > 1)
      BY <2>1, Zenon DEF Observe
    <3>2. (PayInv /\ sem # None /\ Sending => Busy > 1)'
      BY BusyCounts, PTL
    <3>3. QED
      BY <3>1, <3>2
  <2>2. CASE Crash
    BY <2>2 DEF Crash
  <2>3. CASE UNCHANGED <<tx, sem, buyPc, boot, charged, swapVars, sendVars, disturbed, unrecorded>>
    BY <2>3 DEF Alone, sendVars, Sending
  <2>4. QED
    BY <2>1, <2>2, <2>3, GhostSteps
<1>2. tx'["buy"] = None \/ tx'["closeAndReopen"] = None
  <2>1. CASE Crash
    <3>1. disturbed' = (disturbed \/ disk # tx) /\ tx' = disk
      BY <2>1 DEF Crash
    <3>2. tx' = tx
      BY <3>1, Zenon
    <3>3. QED
      BY <3>2 DEF Alone
  <2>2. SUFFICES ASSUME ~Crash, tx'["buy"] # None, tx'["closeAndReopen"] # None PROVE FALSE
    BY <2>1
  <2>3. boot' = "ready"
    BY <2>2, NewRecords DEF Alone
  <2>4. sem' = tx'["buy"].job /\ sem' # None
    <3>1. tx'["buy"].job \in Purchases
      BY <2>2 DEF PayInv, ChargeInv, RecordsOK, BuyForm
    <3>2. QED
      BY <2>2, <2>3, <3>1, PurchasesAssumption DEF OrderInv, Pending
  <2>5. Sending'
    BY <2>2, <2>3 DEF OrderInv, SendRecord
  <2>6. QED
    BY <1>1, <2>4, <2>5
<1>3. QED
  BY <1>1, <1>2 DEF Alone

------------------------------------------------------------------------------
(* What has been read *)

\* What has not changed has not shrunk.
LEMMA BelowItself == \A a \in Amounts : Below(a, a)
BY DEF Amounts, Below

\* Taking in a thread leaves nothing with less.
LEMMA MergeGrows ==
  ASSUME HubTypes, HubMerges
  PROVE  /\ Open /\ Open'
         /\ \A a \in Amounts : (Below(a, lc.A) => Below(a, lc'.A)) /\ (Below(a, lc.I) => Below(a, lc'.I))
         /\ \A r \in Receivers : Closable(r)' => Closable(r) /\ threads'[r] = threads[r]
<1>1. PICK r \in Receivers :
        /\ Open /\ threads[r] \in Threads
        /\ lc' = [A |-> Plus(lc.A, threads[r].A), I |-> Plus(lc.I, threads[r].B)]
        /\ lc' \in Ledgers
        /\ threads' = [threads EXCEPT ![r] = None]
  BY Merging
<1>2. Open'
  BY <1>1, NoneAssumption DEF Open
<1>3. threads[r].A \in Pairs /\ threads[r].B \in Pairs /\ lc.A \in Pairs /\ lc.I \in Pairs
  BY <1>1, OpenLedger DEF Threads
<1>4. \A a \in Amounts, b, d \in Pairs : Below(a, b) => Below(a, Plus(b, d))
  BY DEF Amounts, Pairs, Below, Plus
<1>5. \A q \in Receivers : Closable(q)' => Closable(q) /\ threads'[q] = threads[q]
  BY <1>1 DEF Closable, HubTypes
<1>6. lc'.A = Plus(lc.A, threads[r].A) /\ lc'.I = Plus(lc.I, threads[r].B)
  BY <1>1
<1>7. QED
  BY <1>1, <1>2, <1>3, <1>4, <1>5, <1>6

\* The balances of a channel are balances.
LEMMA LedgerAmounts == \A c \in Ledgers : c.A \in Amounts /\ c.I \in Amounts
BY Vectors DEF Ledgers

\* What swaps and withdrawals have read stays within the channel.
LEMMA ReadsKept ==
  ASSUME PayInv, MoneyTypes, OrderInv, [Next]_vars, Alone, Alone', OtherReads
  PROVE  OtherReads'
<1>t. /\ swapPc = "swap" => swapLc \in Ledgers
      /\ sendPc \in {"swap", "send"} => sendLc \in Ledgers
      /\ HubTypes
  BY DEF MoneyTypes, InHand
<1>s. /\ swapPc = "swap" => sem = TopUp /\ ~Sending
      /\ sendPc \in {"swap", "send"} => Sending /\ sem = None /\ ~Swapping
  <2>1. swapPc = "swap" => Swapping
    BY DEF Swapping
  <2>2. sendPc \in {"swap", "send"} => Sending
    BY DEF Sending, SendEnded
  <2>3. QED
    BY <2>1, <2>2, PurchasesAssumption DEF PayInv, SemInv, Alone
<1>u. ASSUME UNCHANGED <<hub, swapVars, sendVars>> PROVE OtherReads'
  BY <1>u DEF OtherReads, hub, swapVars, sendVars, Open
<1>e. Open => Within(lc, lc)
  BY <1>t, OpenLedger, Vectors, BelowItself DEF Within
<1>1. CASE Buy \/ BuyGoesOn \/ BuyGivesUp \/ BootGoesOn
  <2>1. UNCHANGED <<swapVars, sendVars>>
    BY <1>1 DEF Buy, BuyGoesOn, BuyGivesUp, BootGoesOn, BuyFrame
  <2>2. CASE UNCHANGED hub
    BY <1>u, <2>1, <2>2
  <2>3. CASE BuyGoesOn \/ BuyGivesUp
    <3>1. \E p \in Purchases : Buying(p)
      BY <2>3, BuyOrder DEF BuyGoesOn, BuyGivesUp, OrderInv
    <3>2. sem \in Purchases
      BY <3>1 DEF PayInv, SemInv
    <3>3. swapPc # "swap" /\ sendPc \notin {"swap", "send"}
      BY <1>s, <3>2, PurchasesAssumption
    <3>4. QED
      BY <2>1, <3>3 DEF OtherReads, swapVars, sendVars
  <2>4. QED
    BY <1>1, <2>2, <2>3 DEF Buy, BootGoesOn, RequestBuy, BootProceeds, SetChannel, SetChannelFails,
                            RestartBuy
<1>2. CASE SwapGoesOn \/ SwapGivesUp
  <2>1. Swapping /\ UNCHANGED sendVars
    BY <1>2 DEF SwapGoesOn, SwapGivesUp, SwapFrame, SwapProceeds, SwapThrows, PrepareSwap, ExecuteSwap,
                PopulateSwap, Swapping
  <2>2. sendPc' \notin {"swap", "send"}
    BY <1>s, <2>1 DEF sendVars
  <2>3. swapPc' = "swap" => UNCHANGED lc /\ swapLc' = lc /\ Open
    BY <1>2 DEF SwapGoesOn, SwapGivesUp, SwapProceeds, SwapThrows, PrepareSwap, ExecuteSwap, SwapStored,
                PopulateSwap, hub
  <2>4. QED
    BY <1>e, <2>2, <2>3 DEF OtherReads
<1>3. ASSUME NEW amount \in TopUps, Deposit(amount) PROVE OtherReads'
  <2>1. sem' = TopUp /\ UNCHANGED sendVars
    BY <1>3 DEF Deposit
  <2>2. sendPc' \notin {"swap", "send"}
    BY <2>1, PurchasesAssumption DEF Alone, Sending, SendEnded
  <2>3. swapPc' \in {"prepare", "populate"}
    <3>1. CASE tx["buyBooty"] = None
      BY <1>3, <3>1 DEF Deposit, StartSwap
    <3>2. CASE tx["buyBooty"] # None
      <4>1. swapPc' = <<"prepare", "populate">>[tx["buyBooty"].index + 1]
        BY <1>3, <3>2 DEF Deposit, StartSwap
      <4>2. tx["buyBooty"].index \in 0 .. 1
        BY <3>2 DEF PayInv, ChargeInv, RecordsOK
      <4>3. QED
        BY <4>1, <4>2
    <3>3. QED
      BY <3>1, <3>2
  <2>4. QED
    BY <2>2, <2>3 DEF OtherReads
<1>4. CASE Send
  <2>1. UNCHANGED <<hub, swapVars>> /\ sendPc' = "close1"
    BY <1>4 DEF Send, SendFrame, SendEntireBalance
  <2>2. QED
    BY <2>1 DEF OtherReads, hub, swapVars, Open
<1>5. CASE SendGivesUp
  <2>1. UNCHANGED <<hub, swapVars>> /\ sendPc' = "failed"
    BY <1>5 DEF SendGivesUp, SendFrame, SendThrows, CloseThrows, SendFails
  <2>2. QED
    BY <2>1 DEF OtherReads, hub, swapVars, Open
<1>6. CASE SendGoesOn
  <2>1. Sending /\ UNCHANGED swapVars
    BY <1>6, SendGoesOnIs DEF SendGoesOn, SendFrame
  <2>2. swapPc' # "swap"
    BY <1>s, <2>1 DEF swapVars
  <2>3. \/ sendPc' \notin {"swap", "send"}
        \/ lc' = lc /\ sendLc' = lc /\ Open
        \/ sendPc' = "send" /\ sendLc' = outer /\ outer # None /\ value' = value
    <3>1. CASE ReadForSwap \/ ReadForUpdate
      BY <3>1 DEF ReadForSwap, ReadForUpdate, hub
    <3>2. CASE SendUpdate
      BY <3>2 DEF SendUpdate, SendFails
    <3>3. CASE HoldLock
      <4>1. tx["withdrawal"].index \in 0 .. 3
        BY <3>3 DEF HoldLock, MoneyTypes, InHand, RecordTypes
      <4>2. sendPc' = <<"closeThreads", "withdraw", "ping", "redux">>[tx["withdrawal"].index + 1]
        BY <3>3 DEF HoldLock
      <4>3. sendPc' \in {"closeThreads", "withdraw", "ping", "redux"}
        BY <4>1, <4>2
      <4>4. QED
        BY <4>3
    <3>4. CASE SellBooty
      BY <3>4 DEF SellBooty, SendFails
    <3>5. QED
      BY <1>6, <3>1, <3>2, <3>3, <3>4
      DEF SendGoesOn, SendProceeds, Goes, NextCloseMethod, CloseThreads, ReadAfterSwap, ComputeTotal,
          PopulateAfterSend, WaitForUpdate, Execute, CloseListedThreads, Withdraw, NotCosigned,
          PingChainsaw, UpdateRedux, ChannelGone, OpenChannel
  <2>4. outer # None => value > outer.A["eth"]
    BY DEF OrderInv, Outgrown
  <2>5. QED
    BY <1>e, <2>2, <2>3, <2>4 DEF OtherReads
<1>7. CASE Merge
  <2>1. HubMerges /\ UNCHANGED <<swapVars, sendVars>>
    BY <1>7 DEF Merge
  <2>2. \A c \in Ledgers : Within(c, lc) => Within(c, lc')
    BY <1>t, <2>1, MergeGrows, LedgerAmounts DEF Within
  <2>3. Open
    BY <1>t, <2>1, MergeGrows
  <2>4. QED
    BY <1>t, <2>1, <2>2, <2>3 DEF OtherReads, swapVars, sendVars
<1>8. CASE Persist \/ UNCHANGED vars
  BY <1>8, <1>u DEF Persist, FlushTx, vars
<1>9. CASE Crash
  <2>1. swapPc' = "killed" /\ sendPc' \notin {"swap", "send"}
    BY <1>9 DEF Crash, Sending, SendEnded
  <2>2. QED
    BY <2>1 DEF OtherReads
<1>10. CASE Unlock
  <2>1. swapPc' = "idle" /\ UNCHANGED hub
    BY <1>10 DEF Unlock, RestartSend
  <2>2. UNCHANGED sendVars \/ sendPc' \notin {"swap", "send"}
    <3>1. CASE sendPc = "killed"
      <4>1. /\ sendPc' = <<"close1", "wait", "execute", "open">>[tx["closeAndReopen"].index + 1]
            /\ tx["closeAndReopen"] # None
        BY <1>10, <3>1 DEF Unlock, RestartSend
      <4>2. tx["closeAndReopen"].index \in 0 .. 3
        BY <4>1 DEF MoneyTypes, RecordTypes
      <4>3. sendPc' \in {"close1", "wait", "execute", "open"}
        BY <4>1, <4>2
      <4>4. QED
        BY <4>3
    <3>2. QED
      BY <1>10, <3>1 DEF Unlock
  <2>3. QED
    BY <2>1, <2>2 DEF OtherReads, hub, sendVars, Open
<1>11. QED
  BY <1>1, <1>2, <1>3, <1>4, <1>5, <1>6, <1>7, <1>8, <1>9, <1>10 DEF Next

------------------------------------------------------------------------------
(* The purchase on record *)

\* Neither the purchase on record nor what it concerns changes.
LEMMA OnRecordStays ==
  ASSUME OnRecord, tx'["buy"] = tx["buy"], UNCHANGED <<lc, threads, charged>>,
         unrecorded => unrecorded',
         tx["buy"] # None /\ buyPc[tx["buy"].job] = "read"
           => unrecorded' \/ buyPc'[tx["buy"].job] = "read"
  PROVE  OnRecord'
<1> SUFFICES ASSUME tx'["buy"] # None PROVE OnRecord'
  BY DEF OnRecord
<1> DEFINE r == tx["buy"]
<1>1. CASE r.job \in charged
  BY <1>1 DEF OnRecord, Paid, Open, Closable
<1>2. CASE r.job \notin charged
  <2>1. Unpaid(r)
    BY <1>2 DEF OnRecord
  <2>2. Unpaid(r)'
    BY <2>1 DEF Unpaid, Open, Closable
  <2>3. QED
    BY <1>2, <2>2 DEF OnRecord
<1>3. QED
  BY <1>1, <1>2

\* Without a record there is nothing to say of it.
LEMMA NothingOnRecord ==
  ASSUME tx'["buy"] = None
  PROVE  OnRecord'
BY DEF OnRecord

\* A step of the purchase on record, when nothing disturbs it.
LEMMA OnRecordGoesOn ==
  ASSUME PayInv, PayInv', MoneyTypes, NEW p \in Purchases, BuyProceeds(p), OnRecord,
         unrecorded => unrecorded'
  PROVE  OnRecord'
<1> DEFINE r == tx["buy"]
           t == Orders[p].to
<1>1. Buying(p)
  BY DEF BuyProceeds, GetExistingChannel, GetVC, CloseForNew, OpenThread,
         ReadThread, UpdateBalance, RecordUpdate, UpdateStore, Buying, BuyEnded
<1>2. /\ r # None /\ r.job = p /\ BuyType(r) /\ RecordsOK(tx) /\ AtMethod(buyPc[p], r.index)
      /\ HubTypes
  BY <1>1, UnderWay DEF MoneyTypes, RecordTypes, PcIndex
<1>3. IF p \in charged THEN Paid(r) ELSE Unpaid(r)
  BY <1>2 DEF OnRecord
<1>4. \A q \in Purchases : Orders[q].to \in Receivers
  BY OrderTypes
<1>f. ASSUME BuyFails(p) PROVE OnRecord'
  <2>1. tx'["buy"] = None
    BY <1>2, <1>f, OneForgotten DEF BuyFails, TxNames
  <2>2. QED
    BY <2>1, NothingOnRecord
<1>m. ASSUME NEW where, BuyMoves(p, where) PROVE buyPc'[p] = where
  BY <1>m DEF PayInv, SemInv, BuyMoves
<1>r. ASSUME NEW i, NEW l, NEW v, Record("buy", BuyRecord(i, p, l, v))
      PROVE  /\ tx'["buy"].job = p /\ tx'["buy"].index = i /\ tx'["buy"].lc = l /\ tx'["buy"].vc = v
  <2>1. tx'["buy"] = BuyRecord(i, p, l, v)
    BY <1>2, <1>r, OneRecord DEF TxNames
  <2>2. QED
    BY <2>1 DEF BuyRecord
<1>e. Open => Below(lc.A, lc.A) /\ Below(lc.I, lc.I)
  BY <1>2, OpenLedger, Vectors, BelowItself
<1>11. CASE GetExistingChannel(p)
  <2>1. CASE ~Open
    BY <1>f, <1>11, <2>1 DEF GetExistingChannel
  <2>2. CASE Open
    <3>1. Record("buy", BuyRecord(1, p, lc, None)) /\ UNCHANGED <<hub, charged>> /\ buyPc[p] = "channel"
      BY <1>11, <2>2 DEF GetExistingChannel
    <3>2. tx'["buy"].job = p /\ tx'["buy"].index = 1 /\ tx'["buy"].lc = lc
      BY <1>r, <3>1
    <3>3. p \notin charged
      BY <1>2, <1>3, <3>1 DEF AtMethod, Paid
    <3>4. Unpaid(tx["buy"])'
      BY <1>e, <3>1, <3>2 DEF Unpaid, hub, Open
    <3>5. QED
      BY <3>1, <3>2, <3>3, <3>4 DEF OnRecord
  <2>3. QED
    BY <2>1, <2>2
<1>12. CASE GetVC(p)
  <2>1. buyPc[p] = "thread" /\ r.index = 1 /\ UNCHANGED <<lc, threads, charged>>
    BY <1>2, <1>12 DEF GetVC, AtMethod, hub
  <2>2. CASE Affords(p)
    <3>1. Record("buy", BuyRecord(2, p, r.lc, threads[t]))
      BY <1>12, <2>2 DEF GetVC
    <3>2. /\ tx'["buy"].job = p /\ tx'["buy"].index = 2 /\ tx'["buy"].lc = r.lc
          /\ tx'["buy"].vc = threads[t]
      BY <1>r, <3>1
    <3>3. p \notin charged /\ Unpaid(r)
      BY <1>3, <2>1 DEF Paid
    <3>4. Unpaid(tx["buy"])'
      BY <1>2, <2>1, <3>2, <3>3 DEF Unpaid, Open, Closable
    <3>5. QED
      BY <2>1, <3>2, <3>3, <3>4 DEF OnRecord
  <2>3. CASE ~Affords(p)
    <3>1. tx' = tx
      BY <1>12, <2>3 DEF GetVC
    <3>2. QED
      BY <1>2, <2>1, <3>1, OnRecordStays
  <2>4. QED
    BY <2>2, <2>3
<1>13. CASE CloseForNew(p) \/ OpenThread(p)
  <2>0. CASE BuyFails(p)
    BY <1>f, <2>0
  <2>1. ASSUME ~BuyFails(p) PROVE OnRecord'
    <3>1. r.index = 1 /\ tx' = tx /\ charged' = charged
      BY <1>2, <1>13, <2>1 DEF CloseForNew, OpenThread, AtMethod, worker
    <3>2. p \notin charged /\ Unpaid(r)
      BY <1>3, <3>1 DEF Paid
    <3>3. Open' => Open /\ lc'.I = lc.I
      BY <1>2, <1>13, <2>1, OpenLedger DEF CloseForNew, CloseAllVCs, OpenThread, Open
    <3>4. lc' = lc \/ buyPc'[p] = "read"
      BY <1>13, <1>m, <2>1 DEF CloseForNew, CloseAllVCs, OpenThread
    <3>5. buyPc[p] # "read"
      BY <1>13 DEF CloseForNew, OpenThread
    <3>6. Unpaid(r)'
      BY <1>2, <3>1, <3>2, <3>3, <3>4, <3>5 DEF Unpaid
    <3>7. QED
      BY <1>2, <3>1, <3>2, <3>6 DEF OnRecord
  <2>2. QED
    BY <2>0, <2>1
<1>14. CASE ReadThread(p)
  <2>0. CASE threads[t] = None
    BY <1>f, <1>14, <2>0 DEF ReadThread
  <2>1. CASE threads[t] # None
    <3>1. /\ Record("buy", BuyRecord(2, p, lc, threads[t])) /\ UNCHANGED <<lc, threads, charged>>
          /\ r.index = 1
      BY <1>2, <1>14, <2>1 DEF ReadThread, hub, AtMethod
    <3>2. /\ tx'["buy"].job = p /\ tx'["buy"].index = 2 /\ tx'["buy"].lc = lc
          /\ tx'["buy"].vc = threads[t]
      BY <1>r, <3>1
    <3>3. p \notin charged
      BY <1>3, <3>1 DEF Paid
    <3>4. Unpaid(tx["buy"])'
      BY <1>e, <3>1, <3>2 DEF Unpaid, Open, Closable
    <3>5. QED
      BY <3>1, <3>2, <3>3, <3>4 DEF OnRecord
  <2>2. QED
    BY <2>0, <2>1
<1>15. CASE UpdateBalance(p)
  <2>0. CASE BuyFails(p)
    BY <1>f, <2>0
  <2>1. ASSUME ~BuyFails(p) PROVE OnRecord'
    <3>1. /\ r.index = 2 /\ lc' = LcAfter(r) /\ LcAfter(r) \in Ledgers
          /\ threads' = [threads EXCEPT ![t] = VcAfter(r)]
          /\ charged' = charged \cup {p} /\ tx' = tx
      BY <1>15, <2>1, Paying
    <3>2. threads'[t] = VcAfter(r)
      BY <1>2, <1>4, <3>1 DEF HubTypes
    <3>3. Within(lc', lc')
      BY <3>1, LedgerAmounts, BelowItself DEF Within
    <3>4. LcAfter(r)' = LcAfter(r) /\ VcAfter(r)' = VcAfter(r)
      BY <3>1 DEF LcAfter, VcAfter
    <3>5. Paid(r)'
      BY <1>2, <3>1, <3>2, <3>3, <3>4 DEF Paid
    <3>6. QED
      BY <1>2, <3>1, <3>5 DEF OnRecord
  <2>2. QED
    BY <2>0, <2>1
<1>16. CASE RecordUpdate(p)
  <2>1. /\ Record("buy", BuyRecord(3, p, r.lc, r.vc)) /\ charged' = charged /\ buyPc[p] = "updated"
    BY <1>16 DEF RecordUpdate
  <2>2. tx'["buy"].job = p /\ tx'["buy"].index = 3
    BY <1>r, <2>1
  <2>3. p \in charged
    BY <2>1 DEF PayInv, ChargeInv
  <2>4. Paid(tx["buy"])'
    BY <2>2 DEF Paid
  <2>5. QED
    BY <2>1, <2>2, <2>3, <2>4 DEF OnRecord
<1>17. CASE UpdateStore(p)
  <2>1. tx'["buy"] = None
    BY <1>2, <1>17, OneForgotten DEF UpdateStore, TxNames
  <2>2. QED
    BY <2>1, NothingOnRecord
<1>18. QED
  BY <1>11, <1>12, <1>13, <1>14, <1>15, <1>16, <1>17 DEF BuyProceeds

\* What the purchase on record would send stays possible, or becomes void.
LEMMA OnRecordKept ==
  ASSUME PayInv, PayInv', MoneyTypes, OrderInv, OrderInv', [Next]_vars, Alone, OnRecord, ~disturbed'
  PROVE  OnRecord'
<1>g. unrecorded => unrecorded'
  BY GhostSteps
<1>r. RecordsOK(tx)
  BY DEF PayInv, ChargeInv
<1>j. tx["buy"] # None => tx["buy"].job \in Purchases
  BY DEF PayInv, ChargeInv, RecordsOK, BuyForm
<1>1. CASE Buy
  <2>1. PICK p \in Purchases : RequestBuy(p)
    BY <1>1 DEF Buy
  <2>2. UNCHANGED <<lc, threads, charged>> /\ buyPc[p] = "idle"
    BY <2>1 DEF RequestBuy, hub
  <2>3. CASE sem # None
    <3>1. tx' = tx /\ BuyMoves(p, "refused")
      BY <2>1, <2>3 DEF RequestBuy
    <3>2. \A q \in Purchases : buyPc[q] = "read" => buyPc'[q] = "read"
      BY <2>2, <3>1 DEF BuyMoves, PayInv, SemInv
    <3>3. QED
      BY <1>g, <1>j, <2>2, <3>1, <3>2, OnRecordStays
  <2>4. CASE sem = None
    <3>1. Record("buy", BuyRecord(0, p, None, None))
      BY <2>1, <2>4 DEF RequestBuy
    <3>2. tx'["buy"] = BuyRecord(0, p, None, None)
      BY <1>r, <3>1, OneRecord DEF TxNames
    <3>3. tx'["buy"].job = p /\ tx'["buy"].index = 0
      BY <3>2 DEF BuyRecord
    <3>4. p \notin charged'
      BY <2>2 DEF MoneyTypes, PcIndex
    <3>5. QED
      BY <3>3, <3>4 DEF OnRecord, Unpaid
  <2>5. QED
    BY <2>3, <2>4
<1>2. CASE BuyGoesOn
  BY <1>2, <1>g, OnRecordGoesOn DEF BuyGoesOn
<1>3. CASE BuyGivesUp
  <2>1. tx'["buy"] = None
    BY <1>3, <1>r, OneForgotten DEF BuyGivesUp, BuyThrows, BuyFails, TxNames
  <2>2. QED
    BY <2>1, NothingOnRecord
<1>4. CASE BootGoesOn
  <2>1. UNCHANGED <<tx, lc, threads, charged>> /\ boot \in {"start", "buys"}
    BY <1>4 DEF BootGoesOn, BootProceeds, SetChannel, SetChannelFails, RestartBuy, hub, worker
  <2>2. sem = None
    BY <2>1 DEF PayInv, SemInv
  <2>3. \A q \in Purchases : ~Buying(q)
    BY <2>2, PurchasesAssumption DEF PayInv, SemInv
  <2>4. \A q \in Purchases : buyPc[q] # "read"
    BY <2>3 DEF Buying, BuyEnded
  <2>5. QED
    BY <1>g, <1>j, <2>1, <2>4, OnRecordStays
<1>5. CASE SwapGoesOn \/ SwapGivesUp \/ \E amount \in TopUps : Deposit(amount)
  <2>1. tx' = tx \/ (\E r : Record("buyBooty", r)) \/ Forget("buyBooty")
    BY <1>5 DEF SwapGoesOn, SwapGivesUp, Deposit, StartSwap, SwapProceeds, SwapThrows,
                PrepareSwap, ExecuteSwap, SwapStored, PopulateSwap, worker
  <2>2. tx'["buy"] = tx["buy"]
    BY <1>r, <2>1, OneRecord, OneForgotten DEF TxNames
  <2>3. CASE SwapGoesOn \/ SwapGivesUp
    <3>1. Swapping
      BY <2>3 DEF SwapGoesOn, SwapGivesUp, SwapProceeds, SwapThrows, PrepareSwap, ExecuteSwap,
                  PopulateSwap, Swapping
    <3>2. sem = TopUp
      BY <3>1 DEF PayInv, SemInv
    <3>3. tx["buy"] = None
      BY <1>j, <3>2, PurchasesAssumption DEF OrderInv, Pending
    <3>4. QED
      BY <2>2, <3>3, NothingOnRecord
  <2>4. CASE \E amount \in TopUps : Deposit(amount)
    <3>1. boot = "ready" /\ sem = None
      BY <2>4 DEF Deposit
    <3>2. tx["buy"] = None
      BY <1>j, <3>1, PurchasesAssumption DEF OrderInv, Pending
    <3>3. QED
      BY <2>2, <3>2, NothingOnRecord
  <2>5. QED
    BY <1>5, <2>3, <2>4
<1>6. CASE Send \/ SendGivesUp
  <2>1. UNCHANGED <<lc, threads, charged, buyPc>>
    BY <1>6 DEF Send, SendGivesUp, SendFrame, SendEntireBalance, SendThrows, CloseThrows, hub, buyVars
  <2>2. tx'["buy"] = tx["buy"]
    BY <1>6, <1>r, SendRecords DEF Send, SendGivesUp
  <2>3. QED
    BY <1>g, <2>1, <2>2, OnRecordStays
<1>7. CASE SendGoesOn
  <2>1. tx["closeAndReopen"] # None
    BY <1>7, SendGoesOnIs DEF SendGoesOn, OrderInv, SendRecord
  <2>2. tx["buy"] = None /\ tx'["buy"] = tx["buy"]
    BY <1>7, <1>r, <2>1, SendRecords DEF SendGoesOn, Alone
  <2>3. QED
    BY <2>2, NothingOnRecord
<1>8. CASE Merge
  <2> SUFFICES ASSUME tx'["buy"] # None PROVE OnRecord'
    BY DEF OnRecord
  <2> DEFINE r == tx["buy"]
  <2>1. HubMerges /\ UNCHANGED <<tx, charged, buyPc, unrecorded>>
    BY <1>8 DEF Merge, HubMerges, worker, buyVars
  <2>2. /\ Open /\ Open'
        /\ \A a \in Amounts : (Below(a, lc.A) => Below(a, lc'.A)) /\ (Below(a, lc.I) => Below(a, lc'.I))
        /\ \A q \in Receivers : Closable(q)' => Closable(q) /\ threads'[q] = threads[q]
    BY <2>1, MergeGrows DEF MoneyTypes
  <2>3. r # None /\ r.job \in Purchases /\ Orders[r.job].to \in Receivers /\ BuyType(r) /\ r.index \in 0 .. 3
    BY <2>1, <1>j, OrderTypes DEF MoneyTypes, RecordTypes, PayInv, ChargeInv, RecordsOK, BuyForm
  <2>4. r.index >= 1 => r.lc.A \in Amounts /\ r.lc.I \in Amounts
    BY <2>3, LedgerAmounts DEF BuyType
  <2>5. CASE r.job \in charged
    <3>1. Paid(r)
      BY <2>3, <2>5 DEF OnRecord
    <3>2. LcAfter(r)' = LcAfter(r) /\ VcAfter(r)' = VcAfter(r)
      BY <2>1 DEF LcAfter, VcAfter
    <3>3. r.index = 2 => LcAfter(r).A \in Amounts /\ LcAfter(r).I \in Amounts
      BY <2>3, PaymentTypes DEF BuyType
    <3>4. Paid(r)'
      BY <2>1, <2>2, <2>3, <3>1, <3>2, <3>3 DEF Paid, Within
    <3>5. QED
      BY <2>1, <2>5, <3>4 DEF OnRecord
  <2>6. CASE r.job \notin charged
    <3>1. Unpaid(r)
      BY <2>3, <2>6 DEF OnRecord
    <3>2. Unpaid(r)'
      BY <2>1, <2>2, <2>3, <2>4, <3>1 DEF Unpaid
    <3>3. QED
      BY <2>1, <2>6, <3>2 DEF OnRecord
  <2>7. QED
    BY <2>5, <2>6
<1>9. CASE Persist \/ UNCHANGED vars
  <2>1. UNCHANGED <<tx, lc, threads, charged, buyPc>>
    BY <1>9 DEF Persist, FlushTx, vars, hub, worker, buyVars
  <2>2. QED
    BY <1>g, <2>1, OnRecordStays
<1>10. CASE Crash
  <2>1. /\ disturbed' = (disturbed \/ disk # tx) /\ tx' = disk /\ UNCHANGED <<lc, threads, charged>>
        /\ unrecorded' = (unrecorded \/ \E p \in Purchases : buyPc[p] = "read")
    BY <1>10 DEF Crash, hub
  <2>2. tx' = tx
    BY <2>1, Zenon
  <2>3. \A q \in Purchases : buyPc[q] = "read" => unrecorded'
    BY <2>1, Zenon
  <2>4. QED
    BY <1>g, <1>j, <2>1, <2>2, <2>3, OnRecordStays
<1>11. CASE Unlock
  <2>1. UNCHANGED <<tx, lc, threads, charged, buyPc>>
    BY <1>11 DEF Unlock, RestartSend, hub, worker
  <2>2. QED
    BY <1>g, <2>1, OnRecordStays
<1>12. QED
  BY <1>1, <1>2, <1>3, <1>4, <1>5, <1>6, <1>7, <1>8, <1>9, <1>10, <1>11 DEF Next

\* So all this holds at first, and after every step as long as nothing has disturbed it.
LEMMA UndisturbedInit == Init => Undisturbed
<1> SUFFICES ASSUME Init PROVE Undisturbed
  OBVIOUS
<1>1. tx["buy"] = None
  BY DEF Init, InitLedger, TxNames
<1>2. swapPc = "idle" /\ sendPc = "idle"
  BY DEF Init, InitSwap, InitSend
<1>3. QED
  BY <1>1, <1>2 DEF Undisturbed, Alone, OnRecord, OtherReads, Sending, SendEnded

LEMMA UndisturbedInductive ==
  PayInv /\ PayInv' /\ MoneyTypes /\ OrderInv /\ OrderInv' /\ Undisturbed /\ [Next]_vars => Undisturbed'
<1> SUFFICES ASSUME PayInv, PayInv', MoneyTypes, OrderInv, OrderInv', Undisturbed, [Next]_vars, ~disturbed'
             PROVE  Alone' /\ OnRecord' /\ OtherReads'
  BY DEF Undisturbed
<1>1. Alone /\ OnRecord /\ OtherReads
  BY GhostSteps DEF Undisturbed
<1>2. Alone'
  BY <1>1, AloneKept
<1>3. QED
  BY <1>1, <1>2, OnRecordKept, ReadsKept

LEMMA UndisturbedInvariant == Spec => []Undisturbed
  BY UndisturbedInit, UndisturbedInductive, PayInvariant, MoneyTypesInvariant, OrderInvariant, PTL
  DEF Spec

------------------------------------------------------------------------------
(* What the wallet has *)

\* What is in all threads together.
Total(ts) == [c \in Cur |-> InThreads(ts, c)]

\* What a ledger channel, and a thread, is worth to the wallet.
Purse(l) == IF l = None THEN 0 ELSE InBei(l.A)

\* What balances are worth is additive, and grows with them.
LEMMA Linear ==
  /\ \A a \in Amounts : InBei(a) \in Int
  /\ \A a, b \in Amounts : InBei(Plus(a, b)) = InBei(a) + InBei(b)
  /\ \A a, b \in Amounts : InBei(Minus(a, b)) = InBei(a) - InBei(b)
  /\ \A a, b \in Amounts : Below(a, b) => InBei(a) <= InBei(b)
  /\ \A n \in Int : InBei(Pair("eth", n)) = Rate * n
  /\ \A c \in Cur, m, n \in Int : InBei(Pair(c, m + n)) = InBei(Pair(c, m)) + InBei(Pair(c, n))
  /\ InBei(Nothing) = 0
<1>1. \A m, n \in Int : /\ Rate * m \in Int
                        /\ Rate * (m + n) = Rate * m + Rate * n
                        /\ Rate * (m - n) = Rate * m - Rate * n
                        /\ m <= n => Rate * m <= Rate * n
                        /\ Rate * 0 = 0
  BY RateAssumption
<1>2. \A a \in Amounts : a["eth"] \in Int /\ a["tok"] \in Int
  BY DEF Amounts, Cur
<1>3. ASSUME NEW a \in Amounts PROVE InBei(a) \in Int
  <2>1. Rate * a["eth"] \in Int /\ a["tok"] \in Int
    BY <1>1, <1>2
  <2>2. QED
    BY <2>1 DEF InBei
<1>4. ASSUME NEW a \in Amounts, NEW b \in Amounts
      PROVE  /\ InBei(Plus(a, b)) = InBei(a) + InBei(b)
             /\ InBei(Minus(a, b)) = InBei(a) - InBei(b)
             /\ Below(a, b) => InBei(a) <= InBei(b)
  <2>1. /\ Plus(a, b)["eth"] = a["eth"] + b["eth"] /\ Plus(a, b)["tok"] = a["tok"] + b["tok"]
        /\ Minus(a, b)["eth"] = a["eth"] - b["eth"] /\ Minus(a, b)["tok"] = a["tok"] - b["tok"]
    BY DEF Plus, Minus, Cur
  <2>2. Below(a, b) => a["eth"] <= b["eth"] /\ a["tok"] <= b["tok"]
    BY DEF Below, Cur
  <2>3. /\ Rate * (a["eth"] + b["eth"]) = Rate * a["eth"] + Rate * b["eth"]
        /\ Rate * (a["eth"] - b["eth"]) = Rate * a["eth"] - Rate * b["eth"]
        /\ a["eth"] <= b["eth"] => Rate * a["eth"] <= Rate * b["eth"]
        /\ Rate * a["eth"] \in Int /\ Rate * b["eth"] \in Int
    BY <1>1, <1>2
  <2>4. QED
    BY <1>2, <2>1, <2>2, <2>3 DEF InBei
<1>5. \A n \in Int : /\ Pair("eth", n)["eth"] = n /\ Pair("eth", n)["tok"] = 0
                     /\ Pair("tok", n)["eth"] = 0 /\ Pair("tok", n)["tok"] = n
  BY DEF Pair, Cur
<1>6. ASSUME NEW n \in Int PROVE InBei(Pair("eth", n)) = Rate * n /\ InBei(Pair("tok", n)) = n
  <2>1. Rate * n + 0 = Rate * n /\ Rate * 0 + n = n
    BY <1>1
  <2>2. QED
    BY <1>5, <2>1 DEF InBei
<1>7. ASSUME NEW c \in Cur, NEW m \in Int, NEW n \in Int
      PROVE  InBei(Pair(c, m + n)) = InBei(Pair(c, m)) + InBei(Pair(c, n))
  <2>1. m + n \in Int /\ Rate * (m + n) = Rate * m + Rate * n
    BY <1>1
  <2>2. InBei(Pair("eth", m + n)) = InBei(Pair("eth", m)) + InBei(Pair("eth", n))
    BY <1>6, <2>1
  <2>3. InBei(Pair("tok", m + n)) = InBei(Pair("tok", m)) + InBei(Pair("tok", n))
    BY <1>6, <2>1
  <2>4. QED
    BY <2>2, <2>3 DEF Cur
<1>8. InBei(Nothing) = 0
  BY <1>1 DEF InBei, Nothing, Cur
<1>9. QED
  BY <1>3, <1>4, <1>6, <1>7, <1>8

\* The worth of the threads is that of their sum.
LEMMA TotalType ==
  ASSUME NEW ts \in [Receivers -> Threads \cup {None}]
  PROVE  /\ Total(ts) \in Amounts
         /\ InBei(Total(ts)) = Rate * InThreads(ts, "eth") + InThreads(ts, "tok")
BY InThreadsType DEF Total, Amounts, InBei, Cur

\* What is not there is worth nothing.
LEMMA PurseType ==
  /\ \A l \in Ledgers \cup Threads : l # None /\ l.A \in Pairs /\ Purse(l) = InBei(l.A)
  /\ \A l \in Ledgers \cup Threads \cup {None} : Purse(l) \in Int
<1>1. \A l \in Ledgers \cup Threads : l # None /\ l.A \in Pairs
  BY NoneAssumption DEF Ledgers, Threads
<1>2. QED
  BY <1>1, Linear, Vectors DEF Purse

\* The terms of what the wallet has.
Terms == /\ Worth = Purse(lc) + InBei(Total(threads)) + Rate * payouts + InBei(onChain)
         /\ Purse(lc) \in Int /\ InBei(Total(threads)) \in Int
         /\ Rate * payouts \in Int /\ InBei(onChain) \in Int

\* They are numbers, and nothing else is part of it.
LEMMA WorthIs == HubTypes => Terms
<1> SUFFICES ASSUME HubTypes PROVE Terms
  OBVIOUS
<1>1. Purse(lc) \in Int
  BY PurseType DEF HubTypes
<1>2. Total(threads) \in Amounts
  BY TotalType DEF HubTypes
<1>3. Rate * payouts \in Int
  BY RateAssumption DEF HubTypes
<1>4. InBei(onChain) \in Int /\ InBei(Total(threads)) \in Int
  BY <1>2, Linear, Vectors DEF HubTypes
<1>5. Purse(lc) = IF Open THEN InBei(lc.A) ELSE 0
  BY DEF Purse, Open
<1>6. InBei(Total(threads)) = Rate * InThreads(threads, "eth") + InThreads(threads, "tok")
  BY TotalType DEF HubTypes
<1>7. Rate * InThreads(threads, "eth") \in Int /\ InThreads(threads, "tok") \in Int
  BY InThreadsType, RateAssumption DEF HubTypes, Cur
<1>8. Worth = Purse(lc) + Rate * InThreads(threads, "eth") + InThreads(threads, "tok")
              + Rate * payouts + InBei(onChain)
  BY <1>5 DEF Worth
<1>9. QED
  BY <1>1, <1>3, <1>4, <1>6, <1>7, <1>8 DEF Terms

\* A thread changes.
LEMMA TotalChange ==
  ASSUME NEW ts \in [Receivers -> Threads \cup {None}], NEW r \in Receivers,
         NEW t \in Threads \cup {None}
  PROVE  InBei(Total([ts EXCEPT ![r] = t])) = InBei(Total(ts)) + Purse(t) - Purse(ts[r])
<1> DEFINE us == [ts EXCEPT ![r] = t]
<1>1. us \in [Receivers -> Threads \cup {None}] /\ us[r] = t /\ \A q \in Receivers \ {r} : us[q] = ts[q]
  OBVIOUS
<1> HIDE DEF us
<1>2. \A c \in Cur : InThreads(us, c) = InThreads(ts, c) + Held(us, r, c) - Held(ts, r, c)
  BY <1>1, InThreadsChange DEF Held
<1>3. ASSUME NEW x \in Threads \cup {None}, NEW xs, xs[r] = x
      PROVE  /\ Held(xs, r, "eth") \in Int /\ Held(xs, r, "tok") \in Int
             /\ Purse(x) = Rate * Held(xs, r, "eth") + Held(xs, r, "tok")
  <2>1. CASE x = None
    <3>1. Rate * 0 + 0 = 0
      BY RateAssumption
    <3>2. QED
      BY <1>3, <2>1, <3>1 DEF Purse, Held
  <2>2. CASE x \in Threads
    <3>1. x # None /\ x.A \in Pairs
      BY <2>2, PurseType
    <3>2. QED
      BY <1>3, <3>1 DEF Purse, Held, InBei, Pairs, Cur
  <2>3. QED
    BY <1>3, <2>1, <2>2
<1> DEFINE e == Held(us, r, "eth")  f == Held(us, r, "tok")
           g == Held(ts, r, "eth")  h == Held(ts, r, "tok")
           i == InThreads(ts, "eth")  j == InThreads(ts, "tok")
<1>4. /\ e \in Int /\ f \in Int /\ Purse(t) = Rate * e + f
      /\ g \in Int /\ h \in Int /\ Purse(ts[r]) = Rate * g + h
  <2>1. ts[r] \in Threads \cup {None}
    OBVIOUS
  <2>2. QED
    BY <1>1, <1>3, <2>1
<1>5. i \in Int /\ j \in Int
  BY InThreadsType DEF Cur
<1>6. InBei(Total(ts)) = Rate * i + j /\ InBei(Total(us)) = Rate * (i + e - g) + (j + f - h)
  BY <1>1, <1>2, TotalType DEF Cur
<1> HIDE DEF e, f, g, h, i, j
<1>7. Rate * (i + e - g) = Rate * i + Rate * e - Rate * g
      /\ Rate * i \in Int /\ Rate * e \in Int /\ Rate * g \in Int
  BY <1>4, <1>5, RateAssumption
<1>8. InBei(Total(us)) = InBei(Total(ts)) + Purse(t) - Purse(ts[r])
  BY <1>4, <1>5, <1>6, <1>7
<1>9. QED
  BY <1>8 DEF us

\* A price has two parts, for the channel and for the thread.
LEMMA PriceType ==
  \A p \in Purchases : /\ Price(p) \in Int
                       /\ Price(p) = InBei(Pair(Orders[p].cur, Orders[p].fee))
                                     + InBei(Pair(Orders[p].cur, Orders[p].price))
<1> TAKE p \in Purchases
<1>1. Orders[p].cur \in Cur /\ Orders[p].fee \in Int /\ Orders[p].price \in Int
  BY OrderTypes
<1>2. Pair(Orders[p].cur, Orders[p].fee + Orders[p].price) \in Amounts
  BY <1>1, Vectors
<1>3. QED
  BY <1>1, <1>2, Linear DEF Price

\* What was paid for is a number.
LEMMA SpentType == Spent \in Int
<1> DEFINE w == [p \in Purchases |-> IF p \in charged THEN Price(p) ELSE 0]
<1>1. \A p \in Purchases : w[p] \in Int
  BY PriceType
<1> HIDE DEF w
<1>2. SumOver(Purchases, w) \in Int
  BY <1>1, SumType, OrdersAssumption
<1>3. QED
  BY <1>2 DEF Spent, w

\* A purchase is paid for.
LEMMA SpentGrows ==
  ASSUME NEW p \in Purchases, charged' = charged \cup {p}, p \notin charged
  PROVE  Spent' = Spent + Price(p)
<1> DEFINE v == [q \in Purchases |-> IF q \in charged THEN Price(q) ELSE 0]
           w == [q \in Purchases |-> IF q \in charged' THEN Price(q) ELSE 0]
           d == Price(p)
<1>1. d \in Int /\ \A q \in Purchases : v[q] \in Int
  BY PriceType
<1>2. \A q \in Purchases : w[q] = v[q] + (IF q = p THEN d ELSE 0)
  BY <1>1, PriceType
<1>3. Spent = SumOver(Purchases, v) /\ Spent' = SumOver(Purchases, w)
  BY DEF Spent
<1> HIDE DEF v, w, d
<1>4. SumOver(Purchases, w) = SumOver(Purchases, v) + d
  BY <1>1, <1>2, SumChange, OrdersAssumption
<1>5. QED
  BY <1>3, <1>4 DEF d

------------------------------------------------------------------------------
(* What each step does to it *)

\* The same of the next state.
LEMMA WorthNext == HubTypes' => Terms'
  BY WorthIs, PTL

\* Nothing that the wallet has changes but the state of threads.
LEMMA NothingMoved ==
  ASSUME HubTypes, HubTypes', UNCHANGED <<lc, payouts, onChain>>,
         \A r \in Receivers, c \in Cur : Held(threads', r, c) = Held(threads, r, c)
  PROVE  Worth' = Worth
<1>1. \A c \in Cur : InThreads(threads', c) = InThreads(threads, c)
  BY InThreadsSame DEF HubTypes
<1>2. Total(threads') = Total(threads)
  BY <1>1 DEF Total
<1>3. QED
  BY <1>2, WorthIs, WorthNext DEF Terms

\* What a thread is opened with leaves the ledger channel.
LEMMA OpeningMoves ==
  ASSUME HubTypes, HubTypes', NEW p \in Purchases, OpenThread(p)
  PROVE  Worth' = Worth
<1>1. CASE UNCHANGED hub
  BY <1>1 DEF hub, Worth, Open
<1>2. CASE ~UNCHANGED hub
  <2> DEFINE t == Orders[p].to
             moved(n) == Pair(Orders[p].cur, n)
             thread(n) == [A |-> moved(n), B |-> Nothing, closing |-> FALSE]
  <2>1. PICK n \in Nat :
          /\ Open /\ n <= lc.A[Orders[p].cur]
          /\ threads[t] = None
          /\ lc' = [A |-> Minus(lc.A, moved(n)), I |-> lc.I]
          /\ threads' = [threads EXCEPT ![t] = thread(n)]
          /\ UNCHANGED <<payouts, onChain>>
    BY <1>2, Opening
  <2>2. /\ moved(n) \in Pairs /\ moved(n) \in Amounts
        /\ lc.A \in Pairs /\ lc.A \in Amounts /\ lc \in Ledgers
    BY <2>1, OpenLedger, OrderTypes, Vectors
  <2>3. thread(n) \in Threads /\ Purse(thread(n)) = InBei(moved(n))
    <3>1. Nothing \in Pairs
      BY Vectors
    <3> HIDE DEF moved
    <3>2. thread(n) \in Threads /\ thread(n).A = moved(n)
      BY <2>2, <3>1 DEF Threads
    <3> HIDE DEF thread
    <3>3. QED
      BY <3>2, PurseType
  <2>4. InBei(Total(threads')) = InBei(Total(threads)) + InBei(moved(n)) - 0
    <3>1. InBei(Total(threads')) = InBei(Total(threads)) + Purse(thread(n)) - Purse(threads[t])
      <4>1. t \in Receivers
        BY OrderTypes
      <4> HIDE DEF thread, t, moved
      <4>2. QED
        BY <2>1, <2>3, <4>1, TotalChange DEF HubTypes
    <3>2. Purse(threads[t]) = 0
      BY <2>1 DEF Purse
    <3>3. QED
      BY <2>3, <3>1, <3>2
  <2>5. Purse(lc') = InBei(lc.A) - InBei(moved(n)) /\ Purse(lc) = InBei(lc.A)
    <3>1. lc' \in Ledgers
      <4>1. Minus(lc.A, moved(n)) \in Pairs
        BY <2>1, <2>2, OrderTypes DEF Minus, Pair, Pairs
      <4> HIDE DEF moved
      <4>2. QED
        BY <2>1, <2>2, <4>1 DEF Ledgers
    <3>2. lc'.A = Minus(lc.A, moved(n))
      BY <2>1
    <3>3. QED
      BY <2>2, <3>1, <3>2, PurseType, Linear
  <2>6. InBei(lc.A) \in Int /\ InBei(moved(n)) \in Int
    BY <2>2, Linear
  <2> HIDE DEF moved, thread, t
  <2>7. QED
    BY <2>1, <2>4, <2>5, <2>6, WorthIs, WorthNext DEF Terms
<1>3. QED
  BY <1>1, <1>2

\* The thread taken in adds to the channel what it held.
LEMMA MergingMoves ==
  ASSUME HubTypes, HubTypes', HubMerges
  PROVE  Worth' = Worth
<1>1. PICK r \in Receivers :
        /\ Open /\ threads[r] \in Threads
        /\ lc' = [A |-> Plus(lc.A, threads[r].A), I |-> Plus(lc.I, threads[r].B)]
        /\ lc' \in Ledgers
        /\ threads' = [threads EXCEPT ![r] = None]
        /\ UNCHANGED <<payouts, onChain>>
  BY Merging
<1>2. lc \in Ledgers /\ lc.A \in Amounts /\ threads[r].A \in Amounts /\ lc'.A = Plus(lc.A, threads[r].A)
  BY <1>1, OpenLedger, Vectors DEF Threads
<1>3. InBei(Total(threads')) = InBei(Total(threads)) + 0 - InBei(threads[r].A)
  <2>1. InBei(Total(threads')) = InBei(Total(threads)) + Purse(None) - Purse(threads[r])
    BY <1>1, TotalChange DEF HubTypes
  <2>2. Purse(None) = 0 /\ Purse(threads[r]) = InBei(threads[r].A)
    BY <1>1, PurseType DEF Purse
  <2>3. QED
    BY <2>1, <2>2
<1>4. Purse(lc') = InBei(lc.A) + InBei(threads[r].A) /\ Purse(lc) = InBei(lc.A)
  BY <1>1, <1>2, PurseType, Linear
<1>5. InBei(lc.A) \in Int /\ InBei(threads[r].A) \in Int
  BY <1>2, Linear
<1>6. QED
  BY <1>1, <1>3, <1>4, <1>5, WorthIs, WorthNext DEF Terms

\* Closing the channel returns what it held.
LEMMA ClosingMoves ==
  ASSUME HubTypes, HubTypes', Withdraw
  PROVE  Worth' = Worth
<1>1. CASE UNCHANGED hub
  BY <1>1 DEF hub, Worth, Open
<1>2. CASE ~UNCHANGED hub
  <2>1. /\ Open /\ lc' = None /\ onChain' = Plus(onChain, lc.A) /\ UNCHANGED <<threads, payouts>>
    BY <1>2, Emptying
  <2>2. lc \in Ledgers /\ lc.A \in Amounts /\ onChain \in Amounts
    BY <2>1, OpenLedger, Vectors DEF HubTypes
  <2>3. Purse(lc) = InBei(lc.A) /\ Purse(lc') = 0 /\ InBei(onChain') = InBei(onChain) + InBei(lc.A)
    BY <2>1, <2>2, PurseType, Linear DEF Purse
  <2>4. InBei(lc.A) \in Int
    BY <2>2, Linear
  <2>5. QED
    BY <2>1, <2>3, <2>4, WorthIs, WorthNext DEF Terms
<1>3. QED
  BY <1>1, <1>2

\* And opening it again takes that back.
LEMMA ReopeningMoves ==
  ASSUME HubTypes, HubTypes', OpenChannel
  PROVE  Worth' = Worth
<1>1. CASE UNCHANGED hub
  BY <1>1 DEF hub, Worth, Open
<1>2. CASE ~UNCHANGED hub
  <2>1. /\ ~Open /\ lc' = [A |-> onChain, I |-> Nothing] /\ lc' \in Ledgers
        /\ onChain' = Nothing /\ UNCHANGED <<threads, payouts>>
    BY <1>2, Reopening
  <2>2. lc'.A = onChain /\ lc = None
    BY <2>1 DEF Open
  <2>3. Purse(lc') = InBei(onChain) /\ Purse(lc) = 0 /\ InBei(onChain') = 0
    BY <2>1, <2>2, PurseType, Linear DEF Purse
  <2>4. QED
    BY <2>1, <2>3, WorthIs, WorthNext DEF Terms
<1>3. QED
  BY <1>1, <1>2

\* A deposit brings what it deposits.
LEMMA DepositingMoves ==
  ASSUME HubTypes, HubTypes', NEW amount \in TopUps, Deposit(amount)
  PROVE  Worth' = Worth + Rate * amount /\ Rate * amount \in Int
<1>1. /\ Open /\ amount \in Nat
      /\ lc' = [A |-> Plus(lc.A, Pair("eth", amount)), I |-> lc.I] /\ lc' \in Ledgers
      /\ UNCHANGED <<threads, payouts, onChain>>
  BY Depositing
<1>2. lc \in Ledgers /\ lc.A \in Amounts /\ Pair("eth", amount) \in Amounts
      /\ lc'.A = Plus(lc.A, Pair("eth", amount))
  BY <1>1, OpenLedger, Vectors DEF Cur
<1>3. Purse(lc') = InBei(lc.A) + Rate * amount /\ Purse(lc) = InBei(lc.A)
  BY <1>1, <1>2, PurseType, Linear
<1>4. InBei(lc.A) \in Int /\ Rate * amount \in Int
  BY <1>1, <1>2, Linear, RateAssumption
<1>5. QED
  BY <1>1, <1>3, <1>4, WorthIs, WorthNext DEF Terms

\* Of two channels with the same total, neither party has more in the one: they are the same.
LEMMA SameBalances ==
  ASSUME NEW c \in Ledgers, NEW d \in Ledgers, Below(c.A, d.A), Below(c.I, d.I), NEW h \in Amounts,
         Conserves(d.A, Plus(d.I, h), c.A, Plus(c.I, h))
  PROVE  c.A = d.A /\ c.I = d.I
<1>1. c.A \in Pairs /\ c.I \in Pairs /\ d.A \in Pairs /\ d.I \in Pairs
  BY DEF Ledgers
<1>2. ASSUME NEW k \in Cur PROVE c.A[k] = d.A[k] /\ c.I[k] = d.I[k]
  <2>1. Plus(d.A, Plus(d.I, h))[k] = Plus(c.A, Plus(c.I, h))[k]
    BY DEF Conserves
  <2>2. d.A[k] + (d.I[k] + h[k]) = c.A[k] + (c.I[k] + h[k])
    BY <2>1 DEF Plus
  <2>3. c.A[k] <= d.A[k] /\ c.I[k] <= d.I[k]
    BY DEF Below
  <2>4. c.A[k] \in Int /\ d.A[k] \in Int /\ c.I[k] \in Int /\ d.I[k] \in Int /\ h[k] \in Int
    BY <1>1 DEF Pairs, Amounts
  <2>5. QED
    BY <2>2, <2>3, <2>4
<1>3. QED
  BY <1>1, <1>2 DEF Pairs

\* A swap from the balances of the channel costs half a WEI at most.
LEMMA SwapMoves ==
  ASSUME HubTypes, HubTypes', NEW c \in Ledgers, NEW bei \in Int, SwapAccepted(c, bei),
         Within(c, lc), lc' = AfterSwap(c, bei), lc' \in Ledgers,
         UNCHANGED <<threads, payouts, onChain>>
  PROVE  2 * (Worth' - Worth) <= Rate /\ 2 * (Worth' - Worth) >= - Rate
<1>1. Open /\ lc \in Ledgers
  BY OpenLedger DEF SwapAccepted
<1>2. Deltas(bei) \in Amounts /\ HubDeposits(c, bei) \in Amounts
  <2>1. Deltas(bei) \in Amounts
    BY SwapTypes
  <2>2. \A k \in Cur : c.I[k] \in Int /\ Deltas(bei)[k] \in Int
    BY <2>1 DEF Ledgers, Pairs, Amounts
  <2>3. QED
    BY <2>1, <2>2 DEF HubDeposits, Shortfall, Amounts
<1>3. c.A = lc.A
  <2>1. AfterHubDeposit(c, bei).A = c.A /\ AfterHubDeposit(c, bei).I = Plus(c.I, HubDeposits(c, bei))
    BY DEF AfterHubDeposit
  <2>2. Conserves(lc.A, Plus(lc.I, HubDeposits(c, bei)), c.A, Plus(c.I, HubDeposits(c, bei)))
    BY <2>1 DEF SwapAccepted
  <2>3. QED
    BY <1>1, <1>2, <2>2, SameBalances DEF Within
<1>4. lc'.A = Plus(lc.A, Deltas(bei))
  BY <1>3 DEF AfterSwap
<1>5. lc.A \in Amounts
  BY <1>1, LedgerAmounts
<1>6. Purse(lc') = InBei(lc.A) + InBei(Deltas(bei)) /\ Purse(lc) = InBei(lc.A)
  BY <1>1, <1>2, <1>4, <1>5, PurseType, Linear
<1>7. InBei(lc.A) \in Int /\ InBei(Deltas(bei)) \in Int
  BY <1>2, <1>5, Linear
<1>8. Worth' - Worth = InBei(Deltas(bei))
  BY <1>6, <1>7, WorthIs, WorthNext DEF Terms
<1> DEFINE w == ToWei(bei)
<1>9. /\ w \in Int /\ Rate * w \in Int /\ Rate \in Int
      /\ 2 * (Rate * w) <= 2 * bei + Rate /\ 2 * (Rate * w) >= 2 * bei - Rate
  <2>1. w \in Int
    BY WeiType
  <2>2. Rate * w \in Int /\ Rate \in Int
    BY <2>1, RateAssumption
  <2>3. 2 * (Rate * w) <= 2 * bei + Rate /\ 2 * (Rate * w) >= 2 * bei - Rate
    BY Rounds, RateAssumption, Zenon DEF ToWei
  <2>4. QED
    BY <2>1, <2>2, <2>3
<1>10. InBei(Deltas(bei)) = Rate * (- w) + bei
  BY DEF InBei, Deltas
<1> HIDE DEF w
<1>11. InBei(Deltas(bei)) = bei - Rate * w
  <2>1. Rate * (- w) = - (Rate * w)
    BY <1>9, RateAssumption
  <2>2. QED
    BY <1>9, <1>10, <2>1
<1>12. QED
  BY <1>8, <1>9, <1>11

\* A withdrawal sends from the balances of the channel, or not at all.
LEMMA SendingWhatIsThere ==
  ASSUME MoneyTypes, SendUpdate, OtherReads, ~(UNCHANGED hub /\ SendFails)
  PROVE  /\ Open /\ lc \in Ledgers /\ value \in Nat
         /\ lc' = [A |-> Minus(lc.A, Pair("eth", value)), I |-> Plus(lc.I, Pair("eth", value))]
         /\ lc' \in Ledgers
         /\ payouts' = payouts + value
         /\ UNCHANGED <<threads, onChain>>
<1>h. HubTypes
  BY DEF MoneyTypes
<1> DEFINE paid == Pair("eth", value)
<1>1. /\ sendLc \in Ledgers /\ value \in Nat
      /\ AfterSending(sendLc) = [A |-> Minus(sendLc.A, paid), I |-> Plus(sendLc.I, paid)]
      /\ HubAccepts(AfterSending(sendLc)) /\ AfterSending(sendLc) \in Ledgers
      /\ lc' = AfterSending(sendLc)
      /\ payouts' = payouts + lc'.I["eth"] - lc.I["eth"] /\ payouts' \in Int
      /\ UNCHANGED <<threads, onChain>>
  BY PayingOut
<1>2. lc'.A = Minus(sendLc.A, paid) /\ lc'.I = Plus(sendLc.I, paid)
  BY <1>1
<1>3. /\ paid \in Pairs /\ paid \in Amounts /\ sendLc.A \in Pairs /\ sendLc.I \in Pairs
      /\ Open /\ lc \in Ledgers /\ lc.A \in Pairs /\ lc.I \in Pairs
  BY <1>h, <1>1, OpenLedger, Vectors DEF HubAccepts, Ledgers, Cur
<1>4. ~(value > sendLc.A["eth"])
  <2>1. lc'.A["eth"] >= 0
    BY <1>1, <1>2 DEF HubAccepts, NonNegative, Cur
  <2>2. lc'.A["eth"] = sendLc.A["eth"] - value
    BY <1>2 DEF Minus, Pair, Cur
  <2>3. sendLc.A["eth"] \in Nat
    BY <1>3 DEF Pairs, Cur
  <2>4. QED
    BY <1>1, <2>1, <2>2, <2>3
<1>5. Within(sendLc, lc)
  BY <1>3, <1>4 DEF OtherReads, SendUpdate
<1>6. sendLc.A = lc.A /\ sendLc.I = lc.I
  <2>1. Conserves(lc.A, lc.I, Minus(sendLc.A, paid), Plus(sendLc.I, paid))
    BY <1>1, <1>2 DEF HubAccepts
  <2>2. ASSUME NEW k \in Cur
        PROVE  lc.A[k] + (lc.I[k] + 0) = sendLc.A[k] + (sendLc.I[k] + 0)
    <3>1. Plus(lc.A, lc.I)[k] = Plus(Minus(sendLc.A, paid), Plus(sendLc.I, paid))[k]
      BY <2>1 DEF Conserves
    <3>2. lc.A[k] + lc.I[k] = (sendLc.A[k] - paid[k]) + (sendLc.I[k] + paid[k])
      BY <3>1 DEF Plus, Minus
    <3>3. lc.A[k] \in Int /\ lc.I[k] \in Int /\ sendLc.A[k] \in Int /\ sendLc.I[k] \in Int /\ paid[k] \in Int
      BY <1>3 DEF Pairs
    <3>4. QED
      BY <3>2, <3>3
  <2>3. Conserves(lc.A, Plus(lc.I, Nothing), sendLc.A, Plus(sendLc.I, Nothing))
    BY <2>2 DEF Conserves, Plus, Nothing
  <2>4. Nothing \in Amounts
    BY Vectors
  <2>5. QED
    BY <1>1, <1>3, <1>5, <2>3, <2>4, SameBalances DEF Within
<1>7. payouts' = payouts + value
  <2>1. lc'.I["eth"] = lc.I["eth"] + value
    BY <1>2, <1>6 DEF Plus, Pair, Cur
  <2>2. lc.I["eth"] \in Nat
    BY <1>3 DEF Pairs, Cur
  <2>3. QED
    BY <1>h, <1>1, <2>1, <2>2 DEF HubTypes
<1>8. QED
  BY <1>1, <1>3, <1>6, <1>7

\* What a withdrawal sends has left the channel, and nothing else.
LEMMA SendingMoves ==
  ASSUME MoneyTypes, HubTypes', SendUpdate, OtherReads
  PROVE  Worth' = Worth
<1>h. HubTypes
  BY DEF MoneyTypes
<1>1. CASE UNCHANGED hub
  BY <1>1 DEF hub, Worth, Open
<1>2. CASE ~UNCHANGED hub
  <2> DEFINE paid == Pair("eth", value)
  <2>1. /\ Open /\ lc \in Ledgers /\ value \in Nat
        /\ lc' = [A |-> Minus(lc.A, paid), I |-> Plus(lc.I, paid)] /\ lc' \in Ledgers
        /\ payouts' = payouts + value /\ UNCHANGED <<threads, onChain>>
    BY <1>2, SendingWhatIsThere
  <2>2. Rate * payouts' = Rate * payouts + Rate * value /\ Rate * value \in Int
    BY <1>h, <2>1, RateAssumption DEF HubTypes
  <2>3. Purse(lc') = InBei(lc.A) - Rate * value /\ Purse(lc) = InBei(lc.A) /\ InBei(lc.A) \in Int
    <3>1. lc.A \in Amounts /\ paid \in Amounts
      BY <2>1, LedgerAmounts, Vectors DEF Cur
    <3>2. InBei(paid) = Rate * value
      BY <2>1, Linear
    <3>3. Purse(lc') = InBei(Minus(lc.A, paid))
      BY <2>1, PurseType
    <3>4. QED
      BY <2>1, <3>1, <3>2, <3>3, PurseType, Linear
  <2> HIDE DEF paid
  <2>4. QED
    BY <1>h, <2>1, <2>2, <2>3, WorthIs, WorthNext DEF Terms
<1>3. QED
  BY <1>1, <1>2

------------------------------------------------------------------------------
(* The payment *)

\* An accepted payment takes its price from the wallet, once, and gives back at most what
\* had been paid to threads that were merged between the opening and the payment.
LEMMA PayingMoves ==
  ASSUME PayInv, MoneyTypes, HubTypes', NEW p \in Purchases, UpdateBalance(p), OnRecord
  PROVE  /\ Worth' + Spent' >= Worth + Spent
         /\ unrecorded \/ Worth' + Spent' = Worth + Spent
<1>h. HubTypes
  BY DEF MoneyTypes
<1>w. Worth \in Int /\ Spent \in Int
  BY <1>h, WorthIs, SpentType DEF Terms
<1>1. CASE UNCHANGED <<hub, charged>>
  <2>1. Worth' = Worth /\ Spent' = Spent
    BY <1>1 DEF hub, Worth, Open, Spent
  <2>2. QED
    BY <1>w, <2>1
<1>2. CASE ~UNCHANGED <<hub, charged>>
  <2> DEFINE r == tx["buy"]
             t == Orders[p].to
             fee == Pair(Orders[p].cur, Orders[p].fee)
             price == Pair(Orders[p].cur, Orders[p].price)
  <2>1. /\ r.job = p /\ r.index = 2 /\ r.lc \in Ledgers /\ r.vc \in Threads
        /\ HubAccepts(LcAfter(r)) /\ ThreadAccepts(t, VcAfter(r))
        /\ lc' = LcAfter(r)
        /\ threads' = [threads EXCEPT ![t] = VcAfter(r)]
        /\ charged' = charged \cup {p}
        /\ UNCHANGED <<payouts, onChain, tx>>
        /\ LcAfter(r) \in Ledgers /\ VcAfter(r) \in Threads
    BY <1>2, Paying
  <2>2. r # None
    <3>1. Buying(p)
      BY DEF UpdateBalance, Buying, BuyEnded
    <3>2. QED
      BY <3>1 DEF MoneyTypes, PcIndex
  <2>3. t \in Receivers /\ Closable(t) /\ Open /\ lc \in Ledgers
    BY <1>h, <2>1, OrderTypes, OpenLedger DEF ThreadAccepts, HubAccepts
  <2>4. Conserves(lc.A, lc.I, LcAfter(r).A, LcAfter(r).I)
    BY <2>1 DEF HubAccepts
  <2>5. CASE p \in charged
    <3>1. Within(LcAfter(r), lc) /\ threads[t] = VcAfter(r)
      BY <2>1, <2>2, <2>3, <2>5 DEF OnRecord, Paid
    <3>2. lc'.A = lc.A
      <4>1. ASSUME NEW k \in Cur
            PROVE  lc.A[k] + (lc.I[k] + 0) = LcAfter(r).A[k] + (LcAfter(r).I[k] + 0)
        <5>1. Plus(lc.A, lc.I)[k] = Plus(LcAfter(r).A, LcAfter(r).I)[k]
          BY <2>4 DEF Conserves
        <5>2. lc.A[k] + lc.I[k] = LcAfter(r).A[k] + LcAfter(r).I[k]
          BY <5>1 DEF Plus
        <5>3. lc.I[k] \in Int /\ LcAfter(r).I[k] \in Int
          BY <2>1, <2>3 DEF Ledgers, Pairs
        <5>4. QED
          BY <5>2, <5>3
      <4>2. Conserves(lc.A, Plus(lc.I, Nothing), LcAfter(r).A, Plus(LcAfter(r).I, Nothing))
        BY <4>1 DEF Conserves, Plus, Nothing
      <4>3. Nothing \in Amounts
        BY Vectors
      <4>4. QED
        BY <2>1, <2>3, <3>1, <4>2, <4>3, SameBalances DEF Within
    <3>3. threads' = threads /\ charged' = charged
      BY <1>h, <2>1, <2>3, <2>5, <3>1 DEF HubTypes
    <3>4. Worth' = Worth
      <4>1. Purse(lc') = Purse(lc)
        BY <2>1, <2>3, <3>2, PurseType
      <4>2. QED
        BY <1>h, <2>1, <3>3, <4>1, WorthIs, WorthNext DEF Terms
    <3>5. Spent' = Spent
      BY <3>3 DEF Spent
    <3>6. QED
      BY <1>w, <3>4, <3>5
  <2>6. CASE p \notin charged
    <3>1. /\ threads[t] = r.vc /\ Below(r.lc.I, lc.I)
          /\ unrecorded \/ Below(r.lc.A, lc.A)
      <4>1. buyPc[p] # "read"
        BY DEF UpdateBalance
      <4>2. QED
        BY <2>1, <2>2, <2>3, <2>6, <4>1 DEF OnRecord, Unpaid
    <3>2. /\ LcAfter(r).A = Minus(r.lc.A, fee) /\ LcAfter(r).I = Plus(r.lc.I, fee)
          /\ VcAfter(r).A = Minus(r.vc.A, price)
      BY <2>1, PaymentTypes
    <3>3. /\ fee \in Amounts /\ price \in Amounts /\ lc.A \in Amounts /\ lc.I \in Amounts
          /\ r.lc.A \in Amounts /\ r.lc.I \in Amounts /\ r.vc.A \in Amounts
      <4>1. fee \in Amounts /\ price \in Amounts
        BY OrderTypes, Vectors
      <4>2. r.vc.A \in Amounts
        BY <2>1, Vectors DEF Threads
      <4>3. QED
        BY <2>1, <2>3, <4>1, <4>2, LedgerAmounts
    <3> HIDE DEF fee, price
    <3>4. Below(lc.A, r.lc.A)
      <4>1. ASSUME NEW k \in Cur PROVE lc.A[k] <= r.lc.A[k]
        <5>1. Plus(lc.A, lc.I)[k] = Plus(Minus(r.lc.A, fee), Plus(r.lc.I, fee))[k]
          BY <2>4, <3>2 DEF Conserves
        <5>2. lc.A[k] + lc.I[k] = (r.lc.A[k] - fee[k]) + (r.lc.I[k] + fee[k])
          BY <5>1 DEF Plus, Minus
        <5>3. r.lc.I[k] <= lc.I[k]
          BY <3>1 DEF Below
        <5>4. /\ lc.A[k] \in Int /\ lc.I[k] \in Int /\ r.lc.A[k] \in Int /\ r.lc.I[k] \in Int
              /\ fee[k] \in Int
          BY <3>3 DEF Amounts
        <5>5. QED
          BY <5>2, <5>3, <5>4
      <4>2. QED
        BY <4>1 DEF Below
    <3>5. InBei(lc.A) <= InBei(r.lc.A) /\ (unrecorded \/ InBei(r.lc.A) <= InBei(lc.A))
      BY <3>1, <3>3, <3>4, Linear
    <3>6. Purse(lc') = InBei(r.lc.A) - InBei(fee) /\ Purse(lc) = InBei(lc.A)
      <4>1. Purse(lc') = InBei(Minus(r.lc.A, fee))
        BY <2>1, <3>2, PurseType
      <4>2. QED
        BY <2>3, <3>3, <4>1, PurseType, Linear
    <3>7. InBei(Total(threads')) = InBei(Total(threads)) + (InBei(r.vc.A) - InBei(price)) - InBei(r.vc.A)
      <4>1. InBei(Total(threads')) = InBei(Total(threads)) + Purse(VcAfter(r)) - Purse(threads[t])
        <5> HIDE DEF t
        <5>1. QED
          BY <1>h, <2>1, <2>3, TotalChange DEF HubTypes
      <4>2. Purse(VcAfter(r)) = InBei(Minus(r.vc.A, price)) /\ Purse(threads[t]) = InBei(r.vc.A)
        BY <2>1, <3>1, <3>2, PurseType
      <4>3. QED
        BY <3>3, <4>1, <4>2, Linear
    <3>8. Spent' = Spent + InBei(fee) + InBei(price)
      <4>1. Spent' = Spent + Price(p)
        BY <2>1, <2>6, SpentGrows
      <4>2. Price(p) = InBei(fee) + InBei(price)
        BY PriceType DEF fee, price
      <4>3. InBei(fee) \in Int /\ InBei(price) \in Int
        BY <3>3, Linear
      <4>4. QED
        BY <1>w, <4>1, <4>2, <4>3
    <3>9. /\ InBei(fee) \in Int /\ InBei(price) \in Int /\ InBei(lc.A) \in Int
          /\ InBei(r.lc.A) \in Int /\ InBei(r.vc.A) \in Int
      BY <3>3, Linear
    <3> HIDE DEF r
    <3>10. Worth' = Worth + InBei(r.lc.A) - InBei(lc.A) - InBei(fee) - InBei(price)
      BY <1>h, <2>1, <3>6, <3>7, <3>9, WorthIs, WorthNext DEF Terms
    <3>11. QED
      BY <1>w, <3>5, <3>8, <3>9, <3>10
  <2>7. QED
    BY <2>5, <2>6
<1>3. QED
  BY <1>1, <1>2

------------------------------------------------------------------------------
(* NothingLost *)

GhostTypes == start \in Int /\ added \in Nat /\ swaps \in Nat

\* By how much a step may change the surplus, in half units.
LEMMA Moves ==
  ASSUME PayInv, MoneyTypes, MoneyTypes', GhostTypes, [Next]_vars, OnRecord, OtherReads
  PROVE  /\ Worth' \in Int /\ Spent' \in Int /\ added' \in Nat /\ swaps' \in Nat
         /\ \/ /\ swaps' = swaps
               /\ Worth' + Spent' - Rate * added' >= Worth + Spent - Rate * added
               /\ unrecorded \/ Worth' + Spent' - Rate * added' = Worth + Spent - Rate * added
            \/ /\ swaps' = swaps + 1 /\ added' = added /\ Spent' = Spent
               /\ 2 * (Worth' - Worth) <= Rate /\ 2 * (Worth' - Worth) >= - Rate
<1>h. HubTypes /\ HubTypes'
  BY DEF MoneyTypes
<1>w. Worth \in Int /\ Spent \in Int /\ Rate * added \in Int
  BY <1>h, WorthIs, SpentType, RateAssumption DEF Terms, GhostTypes
<1>x. Worth' \in Int /\ Spent' \in Int
  <2>1. (Spent \in Int)'
    BY SpentType, PTL
  <2>2. QED
    BY <1>h, <2>1, WorthNext DEF Terms
<1>s. ASSUME Worth' = Worth, charged' = charged, added' = added, swaps' = swaps
      PROVE  /\ added' \in Nat /\ swaps' = swaps /\ swaps' \in Nat
             /\ Worth' + Spent' - Rate * added' >= Worth + Spent - Rate * added
             /\ Worth' + Spent' - Rate * added' = Worth + Spent - Rate * added
  <2>1. Spent' = Spent
    BY <1>s DEF Spent
  <2>2. QED
    BY <1>s, <1>w, <2>1 DEF GhostTypes
<1>1. CASE UNCHANGED <<hub, charged, added, swaps>>
  <2>1. Worth' = Worth
    BY <1>1 DEF hub, Worth, Open
  <2>2. QED
    BY <1>1, <1>s, <1>x, <2>1
<1>2. ASSUME NEW p \in Purchases, UNCHANGED <<added, swaps>>, CloseForNew(p) \/ OpenThread(p)
      PROVE  Worth' = Worth /\ charged' = charged
  <2>1. charged' = charged
    BY <1>2 DEF CloseForNew, OpenThread
  <2>2. CASE CloseForNew(p)
    BY <1>h, <2>1, <2>2, Closing, NothingMoved
  <2>3. CASE OpenThread(p)
    BY <1>h, <2>1, <2>3, OpeningMoves
  <2>4. QED
    BY <1>2, <2>2, <2>3
<1>3. ASSUME NEW p \in Purchases, UNCHANGED <<added, swaps>>, UpdateBalance(p)
      PROVE  /\ added' \in Nat /\ swaps' = swaps /\ swaps' \in Nat
             /\ Worth' + Spent' - Rate * added' >= Worth + Spent - Rate * added
             /\ unrecorded \/ Worth' + Spent' - Rate * added' = Worth + Spent - Rate * added
  <2>1. /\ Worth' + Spent' >= Worth + Spent
        /\ unrecorded \/ Worth' + Spent' = Worth + Spent
    BY <1>3, <1>h, PayingMoves
  <2>2. added' = added /\ swaps' = swaps
    BY <1>3
  <2> DEFINE a == Rate * added
             b == Rate * added'
  <2>3. a \in Int /\ b = a
    BY <1>w, <2>2
  <2> HIDE DEF a, b
  <2>4. /\ Worth' + Spent' - b >= Worth + Spent - a
        /\ unrecorded \/ Worth' + Spent' - b = Worth + Spent - a
    <3>1. PICK w, x, s, y : w = Worth /\ x = Worth' /\ s = Spent /\ y = Spent'
      OBVIOUS
    <3>2. w \in Int /\ x \in Int /\ s \in Int /\ y \in Int
      BY <1>w, <1>x, <3>1
    <3>3. x + y >= w + s /\ (unrecorded \/ x + y = w + s)
      BY <2>1, <3>1
    <3>4. x + y - b >= w + s - a
      BY <2>3, <3>2, <3>3
    <3>5. x + y = w + s => x + y - b = w + s - a
      BY <2>3, <3>2
    <3>6. x + y - b >= w + s - a /\ (unrecorded \/ x + y - b = w + s - a)
      BY <3>3, <3>4, <3>5, Zenon
    <3>7. QED
      BY <3>1, <3>6
  <2>5. QED
    BY <2>2, <2>4 DEF GhostTypes, a, b
<1>4. ASSUME NEW amount \in TopUps, Deposit(amount)
      PROVE  /\ added' \in Nat /\ swaps' = swaps /\ swaps' \in Nat
             /\ Worth' + Spent' - Rate * added' >= Worth + Spent - Rate * added
             /\ Worth' + Spent' - Rate * added' = Worth + Spent - Rate * added
  <2>1. Worth' = Worth + Rate * amount /\ Rate * amount \in Int
    BY <1>h, <1>4, DepositingMoves
  <2>2. added' = added + amount /\ swaps' = swaps /\ charged' = charged /\ amount \in Nat
    BY <1>4, SwapAssumption DEF Deposit
  <2>3. Spent' = Spent
    BY <2>2 DEF Spent
  <2>4. Rate * added' = Rate * added + Rate * amount
    BY <2>2, RateAssumption DEF GhostTypes
  <2>5. QED
    BY <1>w, <2>1, <2>2, <2>3, <2>4 DEF GhostTypes
<1>5. CASE (ExecuteSwap \/ SellBooty) /\ UNCHANGED <<charged, added>> /\ Swaps(TRUE)
  <2>1. CASE lc' = lc
    <3>1. UNCHANGED <<threads, payouts, onChain>>
      BY <1>5 DEF ExecuteSwap, SellBooty
    <3>2. Worth' = Worth
      BY <2>1, <3>1 DEF Worth, Open
    <3>3. swaps' = swaps
      BY <1>5, <2>1 DEF Swaps
    <3>4. QED
      BY <1>5, <1>s, <1>x, <3>2, <3>3
  <2>2. CASE lc' # lc
    <3>1. swaps' = swaps + 1
      BY <1>5, <2>2 DEF Swaps
    <3>2. Spent' = Spent
      BY <1>5 DEF Spent
    <3>3. \E c \in Ledgers, bei \in Int :
            /\ SwapAccepted(c, bei) /\ lc' = AfterSwap(c, bei) /\ lc' \in Ledgers
            /\ UNCHANGED <<threads, payouts, onChain>>
            /\ Within(c, lc)
      <4>1. CASE ExecuteSwap
        <5>1. /\ swapLc \in Ledgers /\ BeiToBuy(swapLc) \in Int
              /\ SwapAccepted(swapLc, BeiToBuy(swapLc))
              /\ lc' = AfterSwap(swapLc, BeiToBuy(swapLc)) /\ lc' \in Ledgers
              /\ UNCHANGED <<threads, payouts, onChain>>
          BY <2>2, <4>1, Exchanging DEF hub
        <5>2. Within(swapLc, lc)
          BY <4>1, <5>1 DEF ExecuteSwap, OtherReads, SwapAccepted
        <5>3. QED
          BY <5>1, <5>2
      <4>2. CASE SellBooty
        <5> DEFINE bei == Dust - sendLc.A["tok"]
        <5>1. /\ sendLc \in Ledgers /\ bei \in Int
              /\ SwapAccepted(sendLc, bei)
              /\ lc' = AfterSwap(sendLc, bei) /\ lc' \in Ledgers
              /\ UNCHANGED <<threads, payouts, onChain>>
          BY <2>2, <4>2, Selling DEF hub
        <5>2. Within(sendLc, lc)
          BY <4>2, <5>1 DEF SellBooty, OtherReads, SwapAccepted
        <5> HIDE DEF bei
        <5>3. QED
          BY <5>1, <5>2
      <4>3. QED
        BY <1>5, <4>1, <4>2
    <3>4. 2 * (Worth' - Worth) <= Rate /\ 2 * (Worth' - Worth) >= - Rate
      BY <1>h, <3>3, SwapMoves
    <3>5. QED
      BY <1>5, <1>x, <3>1, <3>2, <3>4 DEF GhostTypes
  <2>3. QED
    BY <2>1, <2>2
<1>6. CASE /\ CloseThreads \/ SendUpdate \/ CloseListedThreads \/ Withdraw \/ OpenChannel
           /\ UNCHANGED <<charged, added, swaps>>
  <2>1. Worth' = Worth
    <3>1. CASE CloseThreads \/ CloseListedThreads
      BY <1>h, <3>1, Closing, NothingMoved
    <3>2. CASE SendUpdate
      BY <1>h, <3>2, SendingMoves
    <3>3. CASE Withdraw
      BY <1>h, <3>3, ClosingMoves
    <3>4. CASE OpenChannel
      BY <1>h, <3>4, ReopeningMoves
    <3>5. QED
      BY <1>6, <3>1, <3>2, <3>3, <3>4
  <2>2. QED
    BY <1>6, <1>s, <1>x, <2>1
<1>7. CASE HubMerges /\ UNCHANGED <<charged, added, swaps>>
  BY <1>7, <1>h, <1>s, <1>x, MergingMoves
<1>8. CASE /\ \E p \in Purchases : CloseForNew(p) \/ OpenThread(p) \/ UpdateBalance(p)
           /\ UNCHANGED <<added, swaps>>
  <2>1. PICK p \in Purchases : CloseForNew(p) \/ OpenThread(p) \/ UpdateBalance(p)
    BY <1>8
  <2>2. CASE CloseForNew(p) \/ OpenThread(p)
    <3>1. Worth' = Worth /\ charged' = charged
      BY <1>2, <1>8, <2>2
    <3>2. QED
      BY <1>8, <1>s, <1>x, <3>1
  <2>3. CASE UpdateBalance(p)
    BY <1>3, <1>8, <1>x, <2>3
  <2>4. QED
    BY <2>1, <2>2, <2>3
<1>9. CASE \E amount \in TopUps : Deposit(amount)
  BY <1>4, <1>9, <1>x
<1>10. QED
  BY <1>1, <1>5, <1>6, <1>7, <1>8, <1>9, HubSteps

\* To begin with, the wallet has what it has.
LEMMA NothingLostInit == Init => GhostTypes /\ NothingLost
<1> SUFFICES ASSUME Init PROVE GhostTypes /\ NothingLost
  OBVIOUS
<1>1. PICK b \in Balances : InitLedger(b.A, b.I) /\ start = InBei(b.A)
  BY DEF Init
<1>2. b \in Ledgers
  BY BalancesAssumption
<1>3. b.A \in Pairs /\ b.I \in Pairs /\ [A |-> b.A, I |-> b.I] \in Ledgers
  BY <1>2 DEF Ledgers
<1>4. lc \in Ledgers /\ lc.A = b.A /\ threads = [r \in Receivers |-> None] /\ payouts = 0 /\ onChain = Nothing
  BY <1>1, <1>3 DEF InitLedger
<1>5. start \in Int /\ added = 0 /\ swaps = 0 /\ charged = {}
  BY <1>1, <1>3, Linear, Vectors DEF Init, InitBuy
<1>6. InThreads(threads, "eth") = 0 /\ InThreads(threads, "tok") = 0
  BY <1>4, NobodyInThreads
<1>7. Worth = start
  <2>1. Open /\ InBei(lc.A) = start /\ InBei(onChain) = 0
    BY <1>1, <1>4, Linear, PurseType DEF Open
  <2>2. Worth = start + Rate * 0 + 0 + Rate * 0 + 0
    BY <1>4, <1>6, <2>1 DEF Worth
  <2>3. QED
    BY <1>5, <2>2, RateAssumption
<1>8. Spent = 0
  <2> DEFINE w == [p \in Purchases |-> IF p \in charged THEN Price(p) ELSE 0]
  <2>1. \A p \in Purchases : w[p] = 0
    BY <1>5
  <2> HIDE DEF w
  <2>2. SumOver(Purchases, w) = 0
    BY <2>1, SumType, OrdersAssumption
  <2>3. QED
    BY <2>2 DEF Spent, w
<1>9. Rate * added = 0 /\ Rate * swaps = 0
  BY <1>5, RateAssumption
<1>10. Surplus = 0
  BY <1>5, <1>7, <1>8, <1>9 DEF Surplus
<1>11. QED
  BY <1>5, <1>9, <1>10 DEF NothingLost, GhostTypes

\* The counts are numbers, always.
LEMMA GhostTypesKept ==
  ASSUME GhostTypes, [Next]_vars
  PROVE  GhostTypes'
<1>1. start' = start
  BY GhostSteps
<1>2. swaps' = swaps \/ Swaps(TRUE) \/ \E amount \in TopUps : Deposit(amount)
  BY HubSteps
<1>3. swaps' \in Nat
  BY <1>2 DEF GhostTypes, Swaps, Deposit
<1>4. added' = added \/ \E amount \in TopUps : Deposit(amount)
  BY HubSteps
<1>5. added' \in Nat
  BY <1>4, SwapAssumption DEF GhostTypes, Deposit
<1>6. QED
  BY <1>1, <1>3, <1>5 DEF GhostTypes

\* No step breaks the balance.
LEMMA NothingLostInductive ==
  PayInv /\ MoneyTypes /\ MoneyTypes' /\ Undisturbed /\ GhostTypes /\ NothingLost /\ [Next]_vars
    => GhostTypes' /\ NothingLost'
<1> SUFFICES ASSUME PayInv, MoneyTypes, MoneyTypes', Undisturbed, GhostTypes, NothingLost, [Next]_vars,
                    ~disturbed'
             PROVE  /\ 2 * Surplus' >= - (Rate * swaps')
                    /\ unrecorded' \/ 2 * Surplus' <= Rate * swaps'
  BY GhostTypesKept DEF NothingLost
<1>1. /\ ~disturbed /\ OnRecord /\ OtherReads /\ start' = start
      /\ unrecorded => unrecorded'
  BY GhostSteps DEF Undisturbed
<1>2. /\ 2 * Surplus >= - (Rate * swaps)
      /\ unrecorded \/ 2 * Surplus <= Rate * swaps
  BY <1>1 DEF NothingLost
<1>3. /\ Worth' \in Int /\ Spent' \in Int /\ added' \in Nat /\ swaps' \in Nat
      /\ \/ /\ swaps' = swaps
            /\ Worth' + Spent' - Rate * added' >= Worth + Spent - Rate * added
            /\ unrecorded \/ Worth' + Spent' - Rate * added' = Worth + Spent - Rate * added
         \/ /\ swaps' = swaps + 1 /\ added' = added /\ Spent' = Spent
            /\ 2 * (Worth' - Worth) <= Rate /\ 2 * (Worth' - Worth) >= - Rate
  BY <1>1, Moves
<1>4. /\ Worth \in Int /\ Spent \in Int /\ start \in Int /\ Rate \in Int
      /\ Worth' \in Int /\ Spent' \in Int
  BY <1>3, WorthIs, SpentType, RateAssumption DEF Terms, MoneyTypes, GhostTypes
<1> DEFINE a == Rate * added
           b == Rate * added'
           m == Rate * swaps
           n == Rate * swaps'
<1>5. a \in Int /\ b \in Int /\ m \in Int
  BY <1>3, RateAssumption DEF GhostTypes
<1>6. PICK w, x, s, y, k, v, z :
        /\ w = Worth /\ x = Worth' /\ s = Spent /\ y = Spent' /\ k = start
        /\ v = Surplus /\ z = Surplus'
  OBVIOUS
<1>7. w \in Int /\ x \in Int /\ s \in Int /\ y \in Int /\ k \in Int
  BY <1>4, <1>6
<1>8. v = w - (k + a - s) /\ z = x - (k + b - y)
  BY <1>1, <1>6 DEF Surplus
<1>9. 2 * v >= - m /\ (unrecorded \/ 2 * v <= m)
  BY <1>2, <1>6
<1>10. SUFFICES 2 * z >= - n /\ (unrecorded \/ 2 * z <= n)
  BY <1>1, <1>6
<1>11. CASE /\ swaps' = swaps + 1 /\ added' = added /\ Spent' = Spent
            /\ 2 * (Worth' - Worth) <= Rate /\ 2 * (Worth' - Worth) >= - Rate
  <2>1. b = a /\ n = m + Rate
    BY <1>3, <1>11, RateAssumption DEF GhostTypes
  <2>2. y = s /\ 2 * (x - w) <= Rate /\ 2 * (x - w) >= - Rate
    BY <1>6, <1>11
  <2>3. Rate \in Int
    BY RateAssumption
  <2> HIDE DEF a, b, m, n
  <2>4. 2 * z >= - n
    BY <1>5, <1>7, <1>8, <1>9, <2>1, <2>2, <2>3
  <2>5. 2 * v <= m => 2 * z <= n
    BY <1>5, <1>7, <1>8, <2>1, <2>2, <2>3
  <2>6. QED
    BY <1>9, <2>4, <2>5, Zenon
<1>12. CASE /\ swaps' = swaps
            /\ Worth' + Spent' - Rate * added' >= Worth + Spent - Rate * added
            /\ unrecorded \/ Worth' + Spent' - Rate * added' = Worth + Spent - Rate * added
  <2>1. n = m
    BY <1>12
  <2>2. x + y - b >= w + s - a /\ (unrecorded \/ x + y - b = w + s - a)
    BY <1>6, <1>12
  <2> HIDE DEF a, b, m, n
  <2>3. 2 * z >= - n
    BY <1>5, <1>7, <1>8, <1>9, <2>1, <2>2
  <2>4. 2 * v <= m /\ x + y - b = w + s - a => 2 * z <= n
    BY <1>5, <1>7, <1>8, <2>1
  <2>5. QED
    BY <1>9, <2>2, <2>3, <2>4, Zenon
<1>13. QED
  BY <1>3, <1>11, <1>12

\* Purchases, deposits with their swap, withdrawals, failures, crashes and restarts
\* (BuyTransaction.ts, BuyBootyTransaction.ts, WithdrawalController.ts): as long as no two
\* operations were under way at a time and no record was lost, the wallet has what it had,
\* and was given, less what it paid for, but for half a WEI in each swap; and no less even
\* when a purchase was killed between the opening of a thread and its record.
THEOREM WalletLosesNothing == Spec => []NothingLost
<1>1. Spec => [](GhostTypes /\ NothingLost)
  BY NothingLostInit, NothingLostInductive, PayInvariant, MoneyTypesInvariant,
     UndisturbedInvariant, PTL DEF Spec
<1>2. QED
  BY <1>1, PTL

------------------------------------------------------------------------------
(* A withdrawal drains the channel *)

Pays == {"close2", "update", "send"}
Closes == {"execute", "hook", "closeThreads", "withdraw", "ping", "redux"}

\* The method that a withdrawal is in is the one on record.
SendIndex(where, i) ==
  \/ where \in SendEnded
  \/ where \in {"close1", "read", "swap", "reread", "total", "populate"} \cup Pays /\ i = 0
  \/ where = "wait" /\ i = 1
  \/ where \in Closes \cup {"gone"} /\ i = 2
  \/ where = "open" /\ i = 3

AtSend == SendIndex(sendPc, tx["closeAndReopen"].index) /\ late \in Pairs

\* The ether is sent, but for what came late, and the booty is sold.
SentAll == lc.A["eth"] <= late["eth"]
SoldAll == lc.A["tok"] - Dust \in 0 .. late["tok"]

\* The withdrawal is under way, in one of these methods, or will be when the worker is unlocked.
Going(S, i) == sendPc \in S \/ (sendPc = "killed" /\ tx["closeAndReopen"].index = i)

Drained == Open => /\ sendPc = "total" => lc.A["eth"] - sendLc.A["eth"] <= late["eth"]
                   /\ sendPc \in Pays => lc.A["eth"] - value <= late["eth"]
                   /\ Going({"populate", "wait"}, 1) => SentAll
                   /\ Going(Closes \cup {"gone"}, 2) => SentAll /\ SoldAll

Draining == ~disturbed => Drained

------------------------------------------------------------------------------
\* What a withdrawal that goes on changes, step by step.
LEMMA SendingGoesOn ==
  ASSUME MoneyTypes, SendProceeds
  PROVE  \/ /\ sendPc = "close1" /\ sendPc' = "read" /\ tx' = tx
         \/ /\ sendPc = "close2" /\ sendPc' = "update" /\ UNCHANGED <<lc, tx, value>>
         \/ /\ sendPc = "read" /\ sendPc' = "swap" /\ tx' = tx
         \/ /\ sendPc \in {"read", "reread"} /\ sendPc' = "total" /\ tx' = tx
            /\ Open /\ lc' = lc /\ sendLc' = lc
         \/ /\ sendPc = "swap" /\ sendPc' = "reread" /\ tx' = tx
         \/ SendFails
         \/ /\ sendPc = "total" /\ sendPc' = "close2" /\ tx' = tx
            /\ lc' = lc /\ value' = sendLc.A["eth"] + InThreads(threads, "eth")
         \/ /\ sendPc = "update" /\ sendPc' \in {"update", "send"} /\ UNCHANGED <<lc, tx, value>>
         \/ /\ SendUpdate /\ sendPc' \in {"populate", "send"} /\ UNCHANGED <<tx, value>>
         \/ /\ sendPc = "populate" /\ sendPc' = "wait" /\ lc' = lc
            /\ Record("closeAndReopen", [index |-> 1])
         \/ /\ sendPc = "wait" /\ sendPc' = "execute" /\ lc' = lc
            /\ lc.A["tok"] = Dust
            /\ Record("closeAndReopen", [index |-> 2])
         \/ /\ sendPc \in Closes /\ sendPc' \in Closes \cup {"gone"} /\ (lc' = lc \/ lc' = None)
            /\ tx' = tx \/ (\E r : Record("withdrawal", r)) \/ Forget("withdrawal")
         \/ /\ sendPc = "gone" /\ sendPc' = "open"
            /\ Record("closeAndReopen", [index |-> 3])
         \/ /\ sendPc = "open" /\ sendPc' = "done"
<1>1. CASE CloseThreads
  BY <1>1 DEF CloseThreads, CloseAllVCs, Goes, worker
<1>2. CASE ReadForSwap \/ ReadAfterSwap
  BY <1>2 DEF ReadForSwap, ReadAfterSwap, Goes, worker, hub
<1>3. CASE SellBooty
  BY <1>3 DEF SellBooty
<1>4. CASE ComputeTotal
  BY <1>4 DEF ComputeTotal, Goes, worker, hub
<1>5. CASE ReadForUpdate
  BY <1>5 DEF ReadForUpdate, hub
<1>6. CASE SendUpdate
  BY <1>6 DEF SendUpdate
<1>7. CASE PopulateAfterSend \/ WaitForUpdate \/ ChannelGone \/ OpenChannel
  BY <1>7 DEF PopulateAfterSend, WaitForUpdate, ChannelGone, OpenChannel, Goes, hub
<1>8. CASE Execute \/ CloseListedThreads \/ Withdraw \/ NotCosigned \/ PingChainsaw \/ UpdateRedux
  BY <1>8 DEF Execute, CloseListedThreads, Withdraw, NotCosigned, PingChainsaw, UpdateRedux,
              NextCloseMethod, Goes, hub, Closes
<1>9. CASE HoldLock
  <2>1. /\ sendPc = "hook" /\ tx' = tx /\ lc' = lc
        /\ sendPc' = <<"closeThreads", "withdraw", "ping", "redux">>[tx["withdrawal"].index + 1]
    BY <1>9 DEF HoldLock, hub
  <2>2. tx["withdrawal"].index \in 0 .. 3
    BY <2>1 DEF MoneyTypes, InHand, RecordTypes
  <2>3. sendPc' \in {"closeThreads", "withdraw", "ping", "redux"}
    BY <2>1, <2>2
  <2>4. QED
    BY <2>1, <2>3 DEF Closes
<1>10. QED
  BY <1>1, <1>2, <1>3, <1>4, <1>5, <1>6, <1>7, <1>8, <1>9 DEF SendProceeds

\* Outside of a withdrawal there is nothing to drain.
LEMMA NotSending ==
  /\ \A i : ~Sending /\ sendPc # "killed" => SendIndex(sendPc, i)
  /\ ~Sending /\ sendPc # "killed" => Drained
BY DEF Sending, SendEnded, SendIndex, Drained, Going, Pays, Closes

\* The same of the next state.
LEMMA NotSendingNext ==
  /\ \A i : sendPc' \in {"idle", "done", "failed", "killed"} => SendIndex(sendPc', i)
  /\ sendPc' \in {"idle", "done", "failed"} => Drained'
BY DEF SendIndex, SendEnded, Drained, Going, Pays, Closes

\* What came late is an amount.
LEMMA LateType ==
  ASSUME MoneyTypes, AtSend, [Next]_vars
  PROVE  late' \in Pairs
<1>1. CASE Merge
  <2>1. HubMerges /\ (late' = late \/ late' = Plus(late, Minus(lc'.A, lc.A)))
    BY <1>1 DEF Merge
  <2>2. PICK r \in Receivers :
          /\ Open /\ threads[r] \in Threads
          /\ lc' = [A |-> Plus(lc.A, threads[r].A), I |-> Plus(lc.I, threads[r].B)]
    BY <2>1, Merging DEF MoneyTypes
  <2>3. lc.A \in Pairs /\ threads[r].A \in Pairs /\ lc'.A = Plus(lc.A, threads[r].A)
    BY <2>2, OpenLedger DEF MoneyTypes, Threads
  <2>4. Minus(lc'.A, lc.A) = threads[r].A
    BY <2>3 DEF Minus, Plus, Pairs
  <2>5. QED
    BY <2>1, <2>3, <2>4, Vectors DEF AtSend
<1>2. CASE ~Merge
  <2>1. late' = late
    BY <1>2 DEF Next, Buy, BuyGoesOn, BuyGivesUp, BootGoesOn, BuyFrame, Deposit, SwapGoesOn, SwapGivesUp,
                SwapFrame, Send, SendGoesOn, SendGivesUp, SendFrame, Unlock, Observe, Persist, Crash,
                vars, ghosts
  <2>2. QED
    BY <2>1 DEF AtSend
<1>3. QED
  BY <1>1, <1>2

\* Other operations leave the withdrawal alone.
LEMMA OthersLeaveSend ==
  ASSUME PayInv, MoneyTypes, OrderInv, [Next]_vars,
         ~(Send \/ SendGoesOn \/ SendGivesUp \/ Crash \/ Unlock)
  PROVE  UNCHANGED sendVars /\ tx'["closeAndReopen"] = tx["closeAndReopen"]
<1>r. RecordsOK(tx)
  BY DEF PayInv, ChargeInv
<1>1. CASE Buy
  <2>1. UNCHANGED sendVars /\ (tx' = tx \/ \E r : Record("buy", r))
    BY <1>1 DEF Buy, BuyFrame, RequestBuy
  <2>2. QED
    BY <1>r, <2>1, OneRecord DEF TxNames
<1>2. CASE BuyGoesOn \/ BuyGivesUp
  <2>1. UNCHANGED sendVars /\ \E p \in Purchases : BuyProceeds(p) \/ BuyThrows(p)
    BY <1>2 DEF BuyGoesOn, BuyGivesUp, BuyFrame
  <2>2. QED
    BY <2>1, PurchaseStep DEF BuyStep, TxNames
<1>3. CASE BootGoesOn \/ Merge \/ Persist \/ UNCHANGED vars
  BY <1>3 DEF BootGoesOn, BuyFrame, BootProceeds, SetChannel, SetChannelFails, RestartBuy, Merge,
              HubMerges, Persist, FlushTx, vars, worker
<1>4. CASE SwapGoesOn \/ SwapGivesUp \/ \E amount \in TopUps : Deposit(amount)
  <2>1. UNCHANGED sendVars /\ (tx' = tx \/ (\E r : Record("buyBooty", r)) \/ Forget("buyBooty"))
    BY <1>4 DEF SwapGoesOn, SwapGivesUp, SwapFrame, Deposit, StartSwap, SwapProceeds, SwapThrows,
                PrepareSwap, ExecuteSwap, SwapStored, PopulateSwap, worker
  <2>2. QED
    BY <1>r, <2>1, OneRecord, OneForgotten DEF TxNames
<1>5. QED
  BY <1>1, <1>2, <1>3, <1>4 DEF Next

\* A withdrawal resumed goes on with the method on record.
LEMMA Restarting ==
  ASSUME MoneyTypes, Unlock
  PROVE  /\ tx' = tx /\ UNCHANGED <<lc, late, sendLc, value>>
         /\ \/ sendPc # "killed" /\ sendPc' = sendPc
            \/ LET i == tx["closeAndReopen"].index IN
               /\ sendPc = "killed"
               /\ \/ i = 0 /\ sendPc' = "close1"
                  \/ i = 1 /\ sendPc' = "wait"
                  \/ i = 2 /\ sendPc' = "execute"
                  \/ i = 3 /\ sendPc' = "open"
<1>1. tx' = tx /\ UNCHANGED <<lc, late, sendLc, value>>
  BY DEF Unlock, RestartSend, worker, sendVars, hub, Observe
<1>2. CASE sendPc # "killed"
  BY <1>1, <1>2 DEF Unlock, sendVars
<1>3. CASE sendPc = "killed"
  <2>1. /\ tx["closeAndReopen"] # None
        /\ sendPc' = <<"close1", "wait", "execute", "open">>[tx["closeAndReopen"].index + 1]
    BY <1>3 DEF Unlock, RestartSend
  <2>2. tx["closeAndReopen"].index \in 0 .. 3
    BY <2>1 DEF MoneyTypes, RecordTypes
  <2>3. QED
    BY <1>1, <1>3, <2>1, <2>2
<1>4. QED
  BY <1>2, <1>3

\* Every step keeps the method on record in line with what the withdrawal does.
LEMMA AtSendKept ==
  ASSUME PayInv, MoneyTypes, OrderInv, AtSend, [Next]_vars
  PROVE  AtSend'
<1>l. late' \in Pairs
  BY LateType
<1>r. RecordsOK(tx)
  BY DEF PayInv, ChargeInv
<1>i. ASSUME NEW i \in Nat, Record("closeAndReopen", [index |-> i])
      PROVE  tx'["closeAndReopen"].index = i
  <2>1. tx'["closeAndReopen"] = [index |-> i]
    BY <1>r, <1>i, OneRecord DEF TxNames
  <2>2. QED
    BY <2>1
<1>n. 0 \in Nat /\ 1 \in Nat /\ 2 \in Nat /\ 3 \in Nat
  OBVIOUS
<1> DEFINE i == tx["closeAndReopen"].index
           j == tx'["closeAndReopen"].index
<1>0. SendIndex(sendPc, i)
  BY DEF AtSend
<1> SUFFICES SendIndex(sendPc', j)
  BY <1>l DEF AtSend
<1>1. CASE ~(Send \/ SendGoesOn \/ SendGivesUp \/ Crash \/ Unlock)
  BY <1>0, <1>1, OthersLeaveSend DEF sendVars
<1>2. CASE Send
  <2>1. sendPc' = "close1" /\ Record("closeAndReopen", [index |-> 0])
    BY <1>2 DEF Send, SendEntireBalance
  <2>2. j = 0
    BY <1>i, <1>n, <2>1
  <2>3. QED
    BY <2>1, <2>2 DEF SendIndex, SendEnded, Pays, Closes
<1>f. ASSUME sendPc' = "failed" PROVE SendIndex(sendPc', j)
  BY <1>f, NotSendingNext
<1>3. CASE SendGivesUp
  BY <1>3, <1>f DEF SendGivesUp, SendThrows, SendFails, CloseThrows
<1>4. CASE SendGoesOn
  <2>w. (\E r : Record("withdrawal", r)) \/ Forget("withdrawal") \/ tx' = tx => j = i
    BY <1>r, OneRecord, OneForgotten DEF TxNames
  <2>s. SendProceeds
    BY <1>4 DEF SendGoesOn
  <2> HIDE DEF i, j
  <2>1. CASE tx' = tx /\ sendPc \in {"close1", "close2", "read", "reread", "swap", "total", "update", "send"}
             /\ sendPc' \in {"read", "update", "swap", "total", "reread", "close2", "send", "populate"}
    BY <1>0, <2>w, <2>1 DEF SendIndex, SendEnded, Pays, Closes
  <2>2. CASE sendPc' = "wait" /\ Record("closeAndReopen", [index |-> 1])
    <3>1. j = 1
      BY <1>i, <1>n, <2>2 DEF j
    <3>2. QED
      BY <2>2, <3>1 DEF SendIndex, SendEnded, Pays, Closes
  <2>3. CASE sendPc' = "execute" /\ Record("closeAndReopen", [index |-> 2])
    <3>1. j = 2
      BY <1>i, <1>n, <2>3 DEF j
    <3>2. QED
      BY <2>3, <3>1 DEF SendIndex, SendEnded, Pays, Closes
  <2>4. CASE sendPc' = "open" /\ Record("closeAndReopen", [index |-> 3])
    <3>1. j = 3
      BY <1>i, <1>n, <2>4 DEF j
    <3>2. QED
      BY <2>4, <3>1 DEF SendIndex, SendEnded, Pays, Closes
  <2>5. CASE /\ sendPc \in Closes /\ sendPc' \in Closes \cup {"gone"}
             /\ tx' = tx \/ (\E r : Record("withdrawal", r)) \/ Forget("withdrawal")
    BY <1>0, <2>w, <2>5 DEF SendIndex, SendEnded, Pays, Closes
  <2>6. CASE SendFails
    BY <1>f, <2>6 DEF SendFails
  <2>7. CASE sendPc' = "done"
    BY <2>7, NotSendingNext
  <2>8. SendUpdate => sendPc = "send"
    BY DEF SendUpdate
  <2>9. QED
    BY <2>s, <2>1, <2>2, <2>3, <2>4, <2>5, <2>6, <2>7, <2>8, SendingGoesOn
<1>5. CASE Crash
  <2>1. sendPc' \in {"killed", "failed"} \/ (~Sending /\ sendPc' = sendPc)
    BY <1>5 DEF Crash
  <2>2. sendPc' \in {"idle", "done", "failed", "killed"}
    BY <2>1 DEF Sending, SendEnded
  <2>3. QED
    BY <2>2, NotSendingNext
<1>6. CASE Unlock
  <2>1. /\ j = i
        /\ \/ sendPc' = sendPc
           \/ i = 0 /\ sendPc' = "close1"
           \/ i = 1 /\ sendPc' = "wait"
           \/ i = 2 /\ sendPc' = "execute"
           \/ i = 3 /\ sendPc' = "open"
    BY <1>6, Restarting
  <2>2. QED
    BY <1>0, <2>1 DEF SendIndex, SendEnded, Pays, Closes
<1>7. QED
  BY <1>1, <1>2, <1>3, <1>4, <1>5, <1>6

\* What a withdrawal sends leaves in the channel what came late.
LEMMA SendingDrains ==
  ASSUME MoneyTypes, MoneyTypes', OtherReads, AtSend, Drained, SendUpdate,
         sendPc' \in {"populate", "send"}, UNCHANGED <<value, late, tx>>
  PROVE  Drained'
<1>1. ~(UNCHANGED hub /\ SendFails)
  BY DEF SendFails
<1>2. /\ Open /\ lc \in Ledgers /\ value \in Nat
      /\ lc'.A = Minus(lc.A, Pair("eth", value))
  <2>1. /\ Open /\ lc \in Ledgers /\ value \in Nat
        /\ lc' = [A |-> Minus(lc.A, Pair("eth", value)), I |-> Plus(lc.I, Pair("eth", value))]
    BY <1>1, SendingWhatIsThere
  <2>2. QED
    BY <2>1
<1>3. lc'.A["eth"] = lc.A["eth"] - value /\ lc.A["eth"] \in Nat /\ late["eth"] \in Nat
  <2>1. lc'.A["eth"] = lc.A["eth"] - value
    BY <1>2 DEF Minus, Pair, Cur
  <2>2. lc.A["eth"] \in Nat /\ late["eth"] \in Nat
    BY <1>2 DEF AtSend, Ledgers, Pairs, Cur
  <2>3. QED
    BY <2>1, <2>2
<1>4. lc.A["eth"] - value <= late["eth"]
  BY <1>2 DEF Drained, SendUpdate, Pays
<1>5. lc'.A["eth"] <= late'["eth"] /\ lc'.A["eth"] - value' <= late'["eth"]
  BY <1>2, <1>3, <1>4
<1>6. QED
  BY <1>5 DEF Drained, Going, SentAll, Pays, Closes

\* A withdrawal that goes on, undisturbed, drains the channel.
LEMMA DrainingGoesOn ==
  ASSUME PayInv, MoneyTypes, MoneyTypes', OrderInv, OtherReads, AtSend, Drained, SendProceeds,
         late' = late
  PROVE  Drained'
<1>r. RecordsOK(tx)
  BY DEF PayInv, ChargeInv
<1>t. /\ late["eth"] \in Nat /\ late["tok"] \in Nat
      /\ Open => lc.A["eth"] \in Nat /\ lc.A["tok"] \in Nat
  <2>1. Open => lc.A \in Pairs
    BY OpenLedger DEF MoneyTypes
  <2>2. QED
    BY <2>1 DEF AtSend, Pairs, Cur
<1>o. lc' = lc => (Open' <=> Open)
  BY DEF Open
<1>1. CASE sendPc' \in {"read", "swap", "reread", "open"}
  BY <1>1 DEF Drained, Going, Pays, Closes
<1>2. CASE sendPc = "close2" /\ sendPc' = "update" /\ UNCHANGED <<lc, tx, value>>
  BY <1>2, <1>o DEF Drained, Going, Pays, Closes
<1>3. CASE Open /\ sendPc' = "total" /\ lc' = lc /\ sendLc' = lc
  BY <1>3, <1>t DEF Drained, Going, Pays, Closes
<1>4. CASE SendFails \/ sendPc' = "done"
  BY <1>4, NotSendingNext DEF SendFails
<1>5. CASE /\ sendPc = "total" /\ sendPc' = "close2"
           /\ lc' = lc /\ value' = sendLc.A["eth"] + InThreads(threads, "eth")
  <2> SUFFICES ASSUME Open PROVE lc.A["eth"] - value' <= late["eth"]
    BY <1>5, <1>o DEF Drained, Going, Pays, Closes
  <2>1. lc.A["eth"] - sendLc.A["eth"] <= late["eth"]
    BY <1>5 DEF Drained
  <2>2. InThreads(threads, "eth") \in Nat
    BY InThreadsType DEF MoneyTypes, HubTypes, Cur
  <2>3. sendLc.A["eth"] \in Nat
    BY <1>5 DEF MoneyTypes, InHand, Ledgers, Pairs, Cur
  <2>4. QED
    BY <1>5, <1>t, <2>1, <2>2, <2>3
<1>6. CASE sendPc = "update" /\ sendPc' \in {"update", "send"} /\ UNCHANGED <<lc, tx, value>>
  BY <1>6, <1>o DEF Drained, Going, Pays, Closes
<1>7. CASE SendUpdate /\ sendPc' \in {"populate", "send"} /\ UNCHANGED <<tx, value>>
  BY <1>7, SendingDrains
<1>8. CASE sendPc = "populate" /\ sendPc' = "wait" /\ lc' = lc
  BY <1>8, <1>o DEF Drained, Going, SentAll, Pays, Closes
<1>9. CASE sendPc = "wait" /\ sendPc' = "execute" /\ lc' = lc /\ lc.A["tok"] = Dust
  <2> SUFFICES ASSUME Open PROVE SentAll' /\ SoldAll'
    BY <1>9, <1>o DEF Drained, Going, Pays, Closes
  <2>1. SentAll'
    BY <1>9 DEF Drained, Going, SentAll
  <2>2. lc'.A["tok"] - Dust = 0 /\ 0 \in 0 .. late["tok"]
    BY <1>9, <1>t, DustAssumption
  <2>3. QED
    BY <2>1, <2>2 DEF SoldAll
<1>10. CASE sendPc \in Closes /\ sendPc' \in Closes \cup {"gone"} /\ (lc' = lc \/ lc' = None)
  <2>1. CASE lc' = None
    BY <2>1 DEF Drained, Open
  <2>2. CASE lc' = lc
    BY <1>10, <1>o, <2>2 DEF Drained, Going, SentAll, SoldAll, Pays, Closes
  <2>3. QED
    BY <1>10, <2>1, <2>2
<1>11. QED
  BY <1>1, <1>2, <1>3, <1>4, <1>5, <1>6, <1>7, <1>8, <1>9, <1>10, SendingGoesOn

\* What the hub takes in meanwhile is late.
LEMMA DrainingMerges ==
  ASSUME PayInv, MoneyTypes, OrderInv, AtSend, Drained, Merge, ~disturbed
  PROVE  Drained'
<1>1. HubMerges /\ UNCHANGED <<tx, sendVars>>
  BY DEF Merge, HubMerges, worker
<1>2. late' = IF sendPc \notin {"idle", "close1", "read"} THEN Plus(late, Minus(lc'.A, lc.A)) ELSE late
  BY Zenon DEF Merge
<1>3. Open /\ lc.A \in Pairs /\ lc'.A \in Pairs
  <2>1. PICK r \in Receivers : Open /\ lc' \in Ledgers
    BY <1>1, Merging DEF MoneyTypes
  <2>2. QED
    BY <2>1, OpenLedger DEF MoneyTypes, Ledgers
<1>b. \A c \in Cur : lc.A[c] <= lc'.A[c]
  <2>1. \A a \in Amounts : Below(a, lc.A) => Below(a, lc'.A)
    BY <1>1, MergeGrows DEF MoneyTypes
  <2>2. lc.A \in Amounts
    BY <1>3, Vectors
  <2>3. QED
    BY <2>1, <2>2, BelowItself DEF Below
<1>4. CASE sendPc \in {"idle", "close1", "read"}
  BY <1>1, <1>4 DEF Drained, Going, Pays, Closes, sendVars
<1>5. CASE sendPc \notin {"idle", "close1", "read"}
  <2>1. /\ late'["eth"] = late["eth"] + (lc'.A["eth"] - lc.A["eth"])
        /\ late'["tok"] = late["tok"] + (lc'.A["tok"] - lc.A["tok"])
    BY <1>2, <1>5 DEF Plus, Minus, Cur
  <2>2. /\ late["eth"] \in Nat /\ late["tok"] \in Nat
        /\ lc.A["eth"] \in Nat /\ lc.A["tok"] \in Nat
        /\ lc'.A["eth"] \in Nat /\ lc'.A["tok"] \in Nat
    BY <1>3 DEF AtSend, Pairs, Cur
  <2>g. lc.A["tok"] <= lc'.A["tok"]
    BY <1>b DEF Cur
  <2>3. SentAll => SentAll'
    BY <2>1, <2>2 DEF SentAll
  <2>4. SoldAll => SoldAll'
    <3>1. SUFFICES ASSUME SoldAll PROVE SoldAll'
      OBVIOUS
    <3>2. lc.A["tok"] - Dust >= 0 /\ lc.A["tok"] - Dust <= late["tok"]
      BY <2>2, <3>1, DustAssumption DEF SoldAll
    <3>3. lc'.A["tok"] - Dust >= 0 /\ lc'.A["tok"] - Dust <= late'["tok"]
      BY <2>1, <2>2, <2>g, <3>2, DustAssumption
    <3>4. QED
      BY <2>1, <2>2, <3>3, DustAssumption DEF SoldAll
  <2>5. sendPc = "total" => lc'.A["eth"] - sendLc.A["eth"] <= late'["eth"]
    <3>1. sendPc = "total" => sendLc.A["eth"] \in Nat
      BY DEF MoneyTypes, InHand, Ledgers, Pairs, Cur
    <3>2. sendPc = "total" => lc.A["eth"] - sendLc.A["eth"] <= late["eth"]
      BY <1>3 DEF Drained
    <3>3. QED
      BY <2>1, <2>2, <3>1, <3>2
  <2>6. sendPc \in Pays => lc'.A["eth"] - value <= late'["eth"]
    <3>1. value \in Nat
      BY DEF MoneyTypes, InHand
    <3>2. sendPc \in Pays => lc.A["eth"] - value <= late["eth"]
      BY <1>3 DEF Drained
    <3>3. QED
      BY <2>1, <2>2, <3>1, <3>2
  <2>7. Going({"populate", "wait"}, 1) => SentAll
    BY <1>3 DEF Drained
  <2>8. Going(Closes \cup {"gone"}, 2) => SentAll /\ SoldAll
    BY <1>3 DEF Drained
  <2>9. \A S, i : Going(S, i)' <=> Going(S, i)
    BY <1>1 DEF Going, sendVars
  <2>10. sendPc' = sendPc /\ sendLc' = sendLc /\ value' = value
    BY <1>1 DEF sendVars
  <2>11. QED
    BY <2>3, <2>4, <2>5, <2>6, <2>7, <2>8, <2>10, <1>1 DEF Drained, Going
<1>6. QED
  BY <1>4, <1>5

\* Who has the semaphore is alone with the hub.
LEMMA NoSendBeside ==
  ASSUME PayInv, OrderInv, Alone, sem # None
  PROVE  sendPc \in {"idle", "done", "failed"}
BY DEF PayInv, SemInv, OrderInv, SendRecord, Alone, Sending, SendEnded

\* So the other operations change nothing at the hub while a withdrawal is under way.
LEMMA OthersLeaveHub ==
  ASSUME PayInv, PayInv', MoneyTypes, OrderInv, OrderInv', Alone, Alone', [Next]_vars,
         ~(Send \/ SendGoesOn \/ SendGivesUp \/ Crash \/ Unlock \/ Merge)
  PROVE  UNCHANGED hub \/ sendPc' \in {"idle", "done", "failed"}
<1>0. sendPc' = sendPc
  BY OthersLeaveSend DEF sendVars
<1>1. CASE Buy \/ BootGoesOn \/ Persist \/ UNCHANGED vars
  BY <1>1 DEF Buy, RequestBuy, BootGoesOn, BootProceeds, SetChannel, SetChannelFails, RestartBuy,
              Persist, FlushTx, vars
<1>2. CASE BuyGoesOn \/ BuyGivesUp
  <2>1. PICK p \in Purchases : BuyProceeds(p) \/ BuyThrows(p)
    BY <1>2 DEF BuyGoesOn, BuyGivesUp
  <2>2. Buying(p)
    BY <2>1, BuyOrder DEF OrderInv
  <2>3. sem # None
    BY <2>2, PurchasesAssumption DEF PayInv, SemInv
  <2>4. QED
    BY <1>0, <2>3, NoSendBeside
<1>3. CASE SwapGoesOn \/ SwapGivesUp
  <2>1. Swapping
    BY <1>3 DEF SwapGoesOn, SwapGivesUp, SwapProceeds, SwapThrows, PrepareSwap, ExecuteSwap, SwapStored,
                PopulateSwap, Swapping
  <2>2. sem # None
    BY <2>1, PurchasesAssumption DEF PayInv, SemInv
  <2>3. QED
    BY <1>0, <2>2, NoSendBeside
<1>4. CASE \E amount \in TopUps : Deposit(amount)
  <2>1. sem' # None
    BY <1>4, PurchasesAssumption DEF Deposit
  <2>2. ~Sending' /\ (sendPc' = "killed" => boot' = "locked") /\ boot' \notin {"locked"}
    BY <1>4, <2>1 DEF Alone, OrderInv, SendRecord, PayInv, SemInv
  <2>3. QED
    BY <2>2 DEF Sending, SendEnded
<1>5. QED
  BY <1>1, <1>2, <1>3, <1>4 DEF Next

\* Every step that disturbs nothing keeps what is sent and sold.
LEMMA DrainedKept ==
  ASSUME PayInv, PayInv', MoneyTypes, MoneyTypes', OrderInv, OrderInv', Alone, Alone', OtherReads,
         AtSend, Drained, [Next]_vars, ~disturbed, ~disturbed'
  PROVE  Drained'
<1>o. lc' = lc => (Open' <=> Open)
  BY DEF Open
<1>1. CASE Merge
  BY <1>1, DrainingMerges
<1>2. CASE SendGoesOn
  <2>1. SendProceeds /\ late' = late
    BY <1>2 DEF SendGoesOn, SendFrame, Observe
  <2>2. QED
    BY <2>1, DrainingGoesOn
<1>3. CASE Send
  BY <1>3 DEF Send, SendEntireBalance, Drained, Going, Pays, Closes
<1>4. CASE SendGivesUp
  BY <1>4, NotSendingNext DEF SendGivesUp, SendThrows, SendFails, CloseThrows
<1>5. CASE Crash
  <2>1. /\ tx' = tx /\ UNCHANGED <<lc, late>>
        /\ \/ sendPc' = "killed" /\ tx["closeAndReopen"] # None
           \/ sendPc' = "failed" /\ Sending
           \/ sendPc' = sendPc /\ ~Sending /\ tx["closeAndReopen"] = None
    BY <1>5 DEF Crash, hub
  <2>2. CASE sendPc' = "killed"
    <3> DEFINE i == tx["closeAndReopen"].index
    <3>1. SendIndex(sendPc, i) /\ (Sending \/ sendPc = "killed")
      BY <2>1, <2>2 DEF AtSend, OrderInv, SendRecord, Sending, SendEnded
    <3>2. ASSUME i \in {1, 2}
          PROVE  /\ i = 1 => Going({"populate", "wait"}, 1)
                 /\ i = 2 => Going(Closes \cup {"gone"}, 2)
      BY <3>1, <3>2 DEF SendIndex, Going, Sending, SendEnded, Pays, Closes
    <3>3. QED
      BY <1>o, <2>1, <2>2, <3>2 DEF Drained, Going, SentAll, SoldAll, Pays, Closes
  <2>3. CASE sendPc' # "killed"
    BY <2>1, <2>3, NotSendingNext DEF Sending, SendEnded, OrderInv, SendRecord
  <2>4. QED
    BY <2>2, <2>3
<1>6. CASE Unlock
  <2>1. /\ tx' = tx /\ UNCHANGED <<lc, late, sendLc, value>>
        /\ \/ sendPc # "killed" /\ sendPc' = sendPc
           \/ LET i == tx["closeAndReopen"].index IN
              /\ sendPc = "killed"
              /\ \/ i = 0 /\ sendPc' = "close1"
                 \/ i = 1 /\ sendPc' = "wait"
                 \/ i = 2 /\ sendPc' = "execute"
                 \/ i = 3 /\ sendPc' = "open"
    BY <1>6, Restarting
  <2>2. QED
    BY <1>o, <2>1 DEF Drained, Going, SentAll, SoldAll, Pays, Closes
<1>7. CASE ~(Send \/ SendGoesOn \/ SendGivesUp \/ Crash \/ Unlock \/ Merge)
  <2>1. CASE sendPc' \in {"idle", "done", "failed"}
    BY <2>1, NotSendingNext
  <2>2. CASE UNCHANGED hub
    <3>1. UNCHANGED sendVars /\ tx'["closeAndReopen"] = tx["closeAndReopen"]
      BY <1>7, OthersLeaveSend
    <3>2. late' = late
      BY <1>7 DEF Next, Buy, BuyGoesOn, BuyGivesUp, BootGoesOn, BuyFrame, Deposit, SwapGoesOn, SwapGivesUp,
                  SwapFrame, Observe, Persist, vars, ghosts
    <3>3. QED
      BY <1>o, <2>2, <3>1, <3>2 DEF Drained, Going, SentAll, SoldAll, hub, sendVars
  <2>3. QED
    BY <1>7, <2>1, <2>2, OthersLeaveHub
<1>8. QED
  BY <1>1, <1>2, <1>3, <1>4, <1>5, <1>6, <1>7

------------------------------------------------------------------------------
\* So it is at first, and after every step.
LEMMA DrainingInit == Init => AtSend /\ Draining
<1> SUFFICES ASSUME Init PROVE AtSend /\ Draining
  OBVIOUS
<1>1. sendPc = "idle" /\ late = Nothing
  BY DEF Init, InitSend
<1>2. SendIndex("idle", tx["closeAndReopen"].index)
  BY DEF SendIndex, SendEnded, Pays, Closes
<1>3. Drained
  BY <1>1, NotSending DEF Sending, SendEnded
<1>4. QED
  BY <1>1, <1>2, <1>3, Vectors DEF AtSend, Draining

LEMMA DrainingInductive ==
  /\ PayInv /\ PayInv' /\ MoneyTypes /\ MoneyTypes' /\ OrderInv /\ OrderInv'
  /\ Undisturbed /\ Undisturbed' /\ AtSend /\ Draining /\ [Next]_vars
  => AtSend' /\ Draining'
<1> SUFFICES ASSUME PayInv, PayInv', MoneyTypes, MoneyTypes', OrderInv, OrderInv',
                    Undisturbed, Undisturbed', AtSend, Draining, [Next]_vars
             PROVE  AtSend' /\ Draining'
  OBVIOUS
<1>1. AtSend'
  BY AtSendKept
<1>2. ASSUME ~disturbed' PROVE Drained'
  <2>1. ~disturbed
    BY <1>2, GhostSteps
  <2>2. Alone /\ OtherReads /\ Drained
    BY <2>1 DEF Undisturbed, Draining
  <2>3. Alone'
    BY <1>2 DEF Undisturbed
  <2>4. QED
    BY <1>2, <2>1, <2>2, <2>3, DrainedKept
<1>3. QED
  BY <1>1, <1>2 DEF Draining

LEMMA DrainingInvariant == Spec => [](AtSend /\ Draining)
  BY DrainingInit, DrainingInductive, PayInvariant, MoneyTypesInvariant, OrderInvariant,
     UndisturbedInvariant, PTL DEF Spec

\* Only a withdrawal takes the channel away.
LEMMA ChannelStays ==
  ASSUME PayInv, MoneyTypes, [Next]_vars, ~Withdraw
  PROVE  lc' = lc \/ lc' \in Ledgers
<1>0. HubTypes
  BY DEF MoneyTypes
<1>1. ASSUME NEW p \in Purchases, OpenThread(p) PROVE lc' = lc \/ lc' \in Ledgers
  <2>1. SUFFICES ASSUME ~UNCHANGED hub PROVE lc' \in Ledgers
    BY DEF hub
  <2>2. PICK n \in Nat :
          /\ Open /\ n <= lc.A[Orders[p].cur]
          /\ lc' = [A |-> Minus(lc.A, Pair(Orders[p].cur, n)), I |-> lc.I]
    BY <1>0, <1>1, <2>1, Opening
  <2>3. Minus(lc.A, Pair(Orders[p].cur, n)) \in Pairs
    BY <1>0, <2>2, OpenLedger, OrderTypes DEF Minus, Pair, Pairs
  <2>4. QED
    BY <1>0, <2>2, <2>3, OpenLedger DEF Ledgers
<1>2. ASSUME NEW p \in Purchases, CloseForNew(p) PROVE lc' = lc
  BY <1>0, <1>2, Closing
<1>7. ASSUME NEW p \in Purchases, UpdateBalance(p) PROVE lc' = lc \/ lc' \in Ledgers
  BY <1>7, Paying DEF hub
<1>3. CASE CloseThreads \/ CloseListedThreads \/ HubMerges \/ OpenChannel
  BY <1>0, <1>3, Closing, Merging, Reopening DEF hub
<1>4. CASE ExecuteSwap \/ SellBooty \/ SendUpdate
  BY <1>4, Exchanging, Selling, PayingOut DEF hub
<1>5. ASSUME NEW amount \in TopUps, Deposit(amount) PROVE lc' \in Ledgers
  BY <1>0, <1>5, Depositing
<1>6. QED
  BY <1>1, <1>2, <1>3, <1>4, <1>5, <1>7, HubSteps DEF hub

\* A step that closes the channel, undisturbed, closes a drained one.
LEMMA ClosingIsDrained ==
  ASSUME PayInv, MoneyTypes, AtSend, Draining, [Next]_vars, Open, lc' = None, ~disturbed
  PROVE  \A c \in Cur : lc.A[c] - Pair("tok", Dust)[c] \in 0 .. late[c]
<1>n. None \notin Ledgers
  BY NoneAssumption
<1>h. HubTypes
  BY DEF MoneyTypes
<1>1. lc # None /\ lc \in Ledgers /\ lc.A \in Pairs
  BY <1>h, OpenLedger DEF Open
<1>2. Withdraw
  BY <1>n, <1>1, ChannelStays
<1>3. sendPc = "withdraw"
  BY <1>2 DEF Withdraw, NextCloseMethod, Goes
<1>4. SentAll /\ SoldAll
  BY <1>3 DEF Draining, Drained, Going, Closes
<1>5. lc.A["eth"] \in Nat /\ late["eth"] \in Nat
  BY <1>1 DEF AtSend, Pairs, Cur
<1>6. QED
  <2>1. Pair("tok", Dust)["eth"] = 0 /\ Pair("tok", Dust)["tok"] = Dust
    BY DEF Pair, Cur
  <2>2. lc.A["eth"] - 0 \in 0 .. late["eth"]
    BY <1>4, <1>5 DEF SentAll
  <2>3. lc.A["tok"] - Dust \in 0 .. late["tok"]
    BY <1>4 DEF SoldAll
  <2>4. QED
    BY <2>1, <2>2, <2>3 DEF Cur

\* A withdrawal that nothing disturbs closes a channel that it has emptied: ClosesDrained.
THEOREM WithdrawalsDrain == Spec => ClosesDrained
<1>1. /\ PayInv /\ MoneyTypes /\ AtSend /\ Draining /\ [Next]_vars
      => [Open /\ lc' = None /\ ~disturbed =>
            \A c \in Cur : lc.A[c] - Pair("tok", Dust)[c] \in 0 .. late[c]]_vars
  BY ClosingIsDrained
<1>2. QED
  BY <1>1, PayInvariant, MoneyTypesInvariant, DrainingInvariant, PTL DEF Spec, ClosesDrained
==============================================================================
