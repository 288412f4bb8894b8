------------------------------ MODULE BootySwap ------------------------------
(***************************************************************************)
(* lib/transactions/BuyBootyTransaction.ts: what a swap of ether for booty *)
(* with the hub asks for, and the AtomicTransaction 'buyBootyV0' that runs *)
(* under the semaphore after a deposit.  A WEI amount and a BEI amount are *)
(* whole numbers; BOOTY amounts are compared after rounding.               *)
(***************************************************************************)
EXTENDS ChannelLedger

CONSTANTS Finney,       \* less ether than this is not worth a swap
          BeiPerBooty,
          MaxBooty,     \* the 69 booty that a wallet is filled up to
          TopUps        \* the amounts of ether that a deposit may bring

ASSUME SwapAssumption == /\ Finney \in Nat /\ BeiPerBooty \in Nat \ {0} /\ MaxBooty \in Nat
                         /\ TopUps \subseteq Nat

VARIABLES swapPc,       \* where the transaction is
          swapLc,       \* the ledger channel as prepareAndExecuteSwap read it
          asked         \* what the swap asked of party A, None before it

swapVars == <<swapPc, swapLc, asked>>

InitSwap == swapPc = "idle" /\ swapLc = None /\ asked = None

Swapping == swapPc \notin {"idle", "killed"}

------------------------------------------------------------------------------
(* calculateExchangePurchase and buySellBooty *)

\* The change of party A when it buys `bei` BEI; it sells when bei is negative.
Deltas(bei) == [eth |-> - ToWei(bei), tok |-> bei]

Shortfall(x) == IF x < 0 THEN - x ELSE 0
AtLeastZero(x) == IF x > 0 THEN x ELSE 0

\* The hub first adds to its own balance what it lacks for the swap.
HubDeposits(c, bei) == [cur \in Cur |-> Shortfall(c.I[cur] - Deltas(bei)[cur])]

\* The two payments: the hub's deposit, if it needs one, and the swap.
AfterHubDeposit(c, bei) == [A |-> c.A, I |-> Plus(c.I, HubDeposits(c, bei))]
AfterSwap(c, bei) == [A |-> Plus(c.A, Deltas(bei)),
                      I |-> [cur \in Cur |-> AtLeastZero(c.I[cur] - Deltas(bei)[cur])]]

\* The hub accepts a swap computed from c if c, apart from the hub's own deposit,
\* is the state it has, and the swap conserves it.
SwapAccepted(c, bei) ==
  LET mid == AfterHubDeposit(c, bei)
      new == AfterSwap(c, bei) IN
  /\ Open
  /\ Conserves(lc.A, Plus(lc.I, HubDeposits(c, bei)), mid.A, mid.I)
  /\ Conserves(mid.A, mid.I, new.A, new.I)
  /\ NonNegative(new.A)

------------------------------------------------------------------------------
(* prepareAndExecuteSwap: how much booty to buy *)

Booty(bei) == RoundDiv(bei, BeiPerBooty)

\* Seeded fault: up to the limit, however little ether there is.
BeiToBuyUpToLimit(c) ==
  IF c.A["eth"] < Finney \/ Booty(c.A["tok"]) >= MaxBooty THEN 0
  ELSE (MaxBooty - Booty(c.A["tok"])) * BeiPerBooty

\* 0 stands for the early returns.
BeiToBuy(c) ==
  LET owned == Booty(c.A["tok"])
      buyable == Rate * c.A["eth"] IN
  IF c.A["eth"] < Finney \/ owned >= MaxBooty THEN 0
  ELSE IF Booty(buyable) >= MaxBooty THEN (MaxBooty - owned) * BeiPerBooty
  ELSE buyable

------------------------------------------------------------------------------
(* MicropaymentsController.deposit() from the deposit on *)

\* The deposit has reached the ledger channel; buyBootyTransaction.start() begins,
\* or restarts what an earlier session left.
StartSwap(amount) ==
  /\ ~Swapping
  /\ Open
  /\ lc' = [lc EXCEPT !.A = Plus(@, Pair("eth", amount))]
  /\ IF tx["buyBooty"] = None
       THEN /\ Record("buyBooty", [index |-> 0])
            /\ swapPc' = "prepare"
       ELSE /\ swapPc' = <<"prepare", "populate">>[tx["buyBooty"].index + 1]
            /\ UNCHANGED tx
  /\ UNCHANGED <<threads, payouts, onChain, disk, lock, known, swapLc, asked>>

\* The ledger channel is read.
PrepareSwap == /\ swapPc = "prepare"
               /\ Open
               /\ swapLc' = lc
               /\ swapPc' = "swap"
               /\ UNCHANGED <<hub, worker, asked>>

SwapStored == /\ Record("buyBooty", [index |-> 1])
              /\ swapPc' = "populate"

\* The amount is computed and sent; nothing is sent when there is nothing to buy.
ExecuteSwap ==
  /\ swapPc = "swap"
  /\ LET bei == BeiToBuy(swapLc) IN
     IF bei = 0
       THEN SwapStored /\ UNCHANGED <<lc, asked>>
       ELSE /\ asked' = AfterSwap(swapLc, bei).A
            /\ IF SwapAccepted(swapLc, bei)
                 THEN lc' = AfterSwap(swapLc, bei) /\ SwapStored
                 ELSE /\ Forget("buyBooty")
                      /\ swapPc' = "idle"
                      /\ UNCHANGED lc
  /\ swapLc' = None
  /\ UNCHANGED <<threads, payouts, onChain, disk, lock, known>>

\* populateChannels: waits for the lock of the ChannelPopulator.
PopulateSwap == /\ swapPc = "populate"
                /\ lock = None
                /\ StoreChannel
                /\ Forget("buyBooty")
                /\ swapPc' = "idle"
                /\ swapLc' = None
                /\ asked' = None
                /\ UNCHANGED <<hub, disk, lock>>

\* A method throws, among others when there is no channel.
SwapThrows == /\ swapPc \in {"prepare", "swap", "populate"}
              /\ Forget("buyBooty")
              /\ swapPc' = "idle"
              /\ swapLc' = None
              /\ asked' = None
              /\ UNCHANGED <<hub, disk, lock, known>>

SwapProceeds == PrepareSwap \/ ExecuteSwap \/ PopulateSwap
==============================================================================
