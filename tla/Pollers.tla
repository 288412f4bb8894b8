------------------------------- MODULE Pollers -------------------------------
(***************************************************************************)
(* lib/poller/BasePoller.ts and what it runs in the worker: the loop of    *)
(* HubController, which fetches the exchange rates, and, in every session, *)
(* from an unlock to the next lock, the loop of AddressBalanceController,  *)
(* which deposits what has come to the address of the wallet into the      *)
(* channel, but for a reserve.  A session that has been stopped goes on    *)
(* with the callback under way.  The loop of VirtualChannelsController,    *)
(* which calls populate(), is in WorkerLifecycle.                          *)
(***************************************************************************)
EXTENDS Integers

CONSTANTS Reserve,      \* RESERVE_BALANCE
          Cost,         \* OPEN_CHANNEL_COST
          MaxEth,       \* bound on the ether of the address
          MaxSessions,  \* bound on the unlocks
          MaxFaults     \* bound on what fails and on the purchases that are in the way

Hub == 0                     \* the loop of HubController
Sessions == 1 .. MaxSessions \* the loops of AddressBalanceController
Loops == {Hub} \cup Sessions

VARIABLES eth, tok,   \* the balances of the address
          channel,    \* whether the hub has a ledger channel of the wallet
          unlocked, session,
          polling,    \* polling[l]: the loop is started and not stopped
          loop,       \* loop[l]: what the loop does, and the locals of its callback
          shownBalances, moreEthNeeded, rates,
          busy,       \* a purchase has the semaphore of MicropaymentsController
          leaked,     \* a failed deposit has left the lock of the ChannelPopulator taken
          faults

chainVars == <<eth, tok, channel>>
shownVars == <<shownBalances, moreEthNeeded, rates>>
lockVars  == <<unlocked, session, busy, leaked>>
pollVars  == <<chainVars, lockVars, polling, loop, shownVars, faults>>

\* A loop that is in no callback.
Outside(place) == [at |-> place, eth |-> 0, tok |-> 0, onlyUpdate |-> FALSE]

PollInit == /\ eth \in 0 .. MaxEth /\ tok \in 0 .. 1
            /\ channel \in BOOLEAN
            /\ unlocked = FALSE /\ session = 0
            /\ polling = [l \in Loops |-> FALSE]
            /\ loop = [l \in Loops |-> Outside("new")]
            /\ shownBalances = [eth |-> 0, tok |-> 0]
            /\ moreEthNeeded = FALSE /\ rates = "none"
            /\ busy = FALSE /\ leaked = FALSE /\ faults = 0

Fault == faults < MaxFaults /\ faults' = faults + 1

------------------------------------------------------------------------------
(* BasePoller *)

Moves(l, place) == loop' = [loop EXCEPT ![l].at = place]

\* The callback is over: the timer of the next poll is set, even if stop() has come.
Ends(l) == loop' = [loop EXCEPT ![l] = Outside("timer")]

\* Seeded fault: an exception of the callback ends the loop.
ThrowsOut(l) == loop' = [loop EXCEPT ![l] = Outside("stopped")]

\* The callback throws: the exception is logged.
Throws(l) == Ends(l)

\* start(): the first poll is made at once.
Begins(l) == /\ loop[l].at = "new"
             /\ polling' = [polling EXCEPT ![l] = TRUE]
             /\ Moves(l, "polling")

\* stop(): a timer that is set is cleared; a callback is not interrupted.
Halts(l) == /\ polling' = [polling EXCEPT ![l] = FALSE]
            /\ loop' = IF loop[l].at = "timer" THEN [loop EXCEPT ![l].at = "stopped"] ELSE loop

\* The timer fires.
Poll(l) == /\ loop[l].at = "timer"
           /\ Moves(l, IF polling[l] THEN "polling" ELSE "stopped")
           /\ UNCHANGED <<chainVars, lockVars, polling, shownVars, faults>>

------------------------------------------------------------------------------
(* HubController *)

\* The loop of the hub shares nothing with those of the sessions: it is followed in
\* behaviours without a session.
StartHub == /\ session = 0
            /\ Begins(Hub)
            /\ UNCHANGED <<chainVars, lockVars, shownVars, faults>>

\* setExchangeRate(): a failed request leaves the rates there were.
SetExchangeRate ==
  /\ loop[Hub].at = "polling"
  /\ Ends(Hub)
  /\ \/ rates' = "known" /\ UNCHANGED faults
     \/ Fault /\ UNCHANGED rates
  /\ UNCHANGED <<chainVars, lockVars, polling, shownBalances, moreEthNeeded>>

------------------------------------------------------------------------------
(* Sessions: the lock and unlock handlers of worker.ts *)

Unlock == /\ ~unlocked /\ session < MaxSessions
          /\ loop[Hub].at = "new"
          /\ unlocked' = TRUE /\ session' = session + 1
          /\ UNCHANGED <<chainVars, busy, leaked, polling, loop, shownVars, faults>>

\* The migrations are done, and the controllers of the session are started.
StartSession(s) ==
  /\ s <= session
  /\ Begins(s)
  /\ UNCHANGED <<chainVars, lockVars, shownVars, faults>>

\* The lock handler stops the controllers that were started last.
Lock == /\ unlocked
        /\ unlocked' = FALSE
        /\ IF polling[session] THEN Halts(session) ELSE UNCHANGED <<polling, loop>>
        /\ UNCHANGED <<chainVars, session, busy, leaked, shownVars, faults>>

------------------------------------------------------------------------------
(* AddressBalanceController *)

InLoop == UNCHANGED <<lockVars, polling, channel>>

\* updateBalances(): a locked wallet has no accounts.
ReadAddress(s) ==
  /\ loop[s].at = "polling"
  /\ IF unlocked THEN Moves(s, "address") ELSE Ends(s)
  /\ InLoop
  /\ UNCHANGED <<eth, tok, shownVars, faults>>

ReadEth(s) ==
  /\ loop[s].at = "address"
  /\ \/ /\ loop' = [loop EXCEPT ![s].at = "eth", ![s].eth = eth]
        /\ UNCHANGED faults
     \/ Fault /\ Throws(s)
  /\ InLoop
  /\ UNCHANGED <<eth, tok, shownVars>>

\* getTokenBalance(): an error counts as no tokens.
ReadTokens(s) ==
  /\ loop[s].at = "eth"
  /\ \E t \in {tok, 0} :
       /\ t # tok => faults < MaxFaults
       /\ faults' = IF t # tok THEN faults + 1 ELSE faults
       /\ shownBalances' = [eth |-> loop[s].eth, tok |-> t]
       /\ IF loop[s].onlyUpdate THEN Ends(s)
            ELSE loop' = [loop EXCEPT ![s].at = "read", ![s].tok = t]
  /\ InLoop
  /\ UNCHANGED <<eth, tok, moreEthNeeded, rates>>

\* There is nothing to deposit, or not enough ether to pay for it.
NothingToDeposit(s) == loop[s].eth - Cost < Reserve /\ loop[s].tok = 0
CannotPay(s) == loop[s].eth < Cost

Decide(s) ==
  /\ loop[s].at = "read"
  /\ IF NothingToDeposit(s) \/ CannotPay(s) THEN Ends(s) ELSE Moves(s, "deposit")
  /\ moreEthNeeded' = (moreEthNeeded \/ (~NothingToDeposit(s) /\ CannotPay(s)))
  /\ InLoop
  /\ UNCHANGED <<eth, tok, shownBalances, rates, faults>>

\* Seeded fault: the cost comes out of the reserve.
EthDepositWithCost(s) == IF loop[s].eth > Reserve THEN loop[s].eth - Reserve ELSE 0

\* What is deposited of the ether: all but the reserve and the cost.
EthDeposit(s) == IF loop[s].eth > Reserve + Cost THEN loop[s].eth - Reserve - Cost ELSE 0

\* The balances after a deposit, which costs gas if anything is deposited.
Takes(e, t) == \E gas \in (IF e + t > 0 THEN 1 .. Cost ELSE {0}) :
                 /\ eth >= e + gas /\ tok >= t
                 /\ eth' = eth - e - gas /\ tok' = tok - t

\* What mpc.deposit() and its transaction do to the balances; without a channel none
\* can be opened without tokens.
Deposited(s) == /\ channel \/ loop[s].tok > 0
                /\ Takes(EthDeposit(s), loop[s].tok)
                /\ channel' = TRUE

\* A purchase is in the way, or the hub cannot be asked for the channel, or the refresh
\* that is waited for fails: the lock of the ChannelPopulator is not held.
DepositRefused(s) == /\ (busy /\ UNCHANGED faults) \/ Fault
                     /\ Throws(s)
                     /\ UNCHANGED <<chainVars, leaked>>

\* populateDeferred() waits for a lock that nobody will give back: the callback never
\* returns, and the loop with it.
DepositWaits(s) == /\ ~busy /\ leaked
                   /\ Moves(s, "waiting")
                   /\ UNCHANGED <<chainVars, leaked, faults>>

\* A method of the transaction throws: no channel can be opened, or the balance has gone,
\* with the callback of a session that was stopped; or it fails, perhaps with some of it
\* deposited, or all.  afterAll() forgets the holder of the lock before it is released.
MethodThrows(s) ==
  /\ ~busy /\ ~leaked
  /\ \/ /\ \/ ~channel /\ loop[s].tok = 0
           \/ eth < EthDeposit(s) + Cost
           \/ tok < loop[s].tok
        /\ UNCHANGED <<chainVars, faults>>
     \/ Fault /\ UNCHANGED chainVars
     \/ Fault /\ channel /\ Takes(EthDeposit(s), 0) /\ UNCHANGED channel
     \/ Fault /\ Deposited(s)
  /\ leaked' = TRUE
  /\ Throws(s)

\* The transaction is over, the lock free, and buying booty fails.
BootyFails(s) == /\ ~busy /\ ~leaked
                 /\ Fault /\ Deposited(s)
                 /\ Throws(s)
                 /\ UNCHANGED leaked

DepositSucceeds(s) ==
  /\ ~busy /\ ~leaked
  /\ Deposited(s)
  /\ loop' = [loop EXCEPT ![s] = [Outside("address") EXCEPT !.onlyUpdate = TRUE]]
  /\ UNCHANGED <<leaked, faults>>

Deposit(s) == /\ loop[s].at = "deposit"
              /\ \/ DepositRefused(s) \/ DepositWaits(s)
                 \/ MethodThrows(s) \/ BootyFails(s)
                 \/ DepositSucceeds(s)
              /\ UNCHANGED <<unlocked, session, busy, polling, shownVars>>

------------------------------------------------------------------------------
(* The surroundings *)

EthArrives == /\ eth < MaxEth
              /\ eth' = eth + 1
              /\ Fault
              /\ UNCHANGED <<tok, channel, lockVars, polling, loop, shownVars>>

Purchase == /\ ~busy /\ busy' = TRUE
            /\ Fault
            /\ UNCHANGED <<chainVars, unlocked, session, leaked, polling, loop, shownVars>>
PurchaseEnds == /\ busy /\ busy' = FALSE
                /\ UNCHANGED <<chainVars, unlocked, session, leaked, polling, loop,
                               shownVars, faults>>

------------------------------------------------------------------------------
Runs(s) == \/ Poll(s)
           \/ ReadAddress(s) \/ ReadEth(s) \/ ReadTokens(s)
           \/ Decide(s)
           \/ Deposit(s)

PollNext == \/ StartHub
            \/ Poll(Hub) \/ SetExchangeRate
            \/ Unlock \/ Lock
            \/ \E s \in Sessions : StartSession(s) \/ Runs(s)
            \/ EthArrives \/ Purchase \/ PurchaseEnds

------------------------------------------------------------------------------
(* Properties *)

PollTypeOK ==
  /\ eth \in 0 .. MaxEth /\ tok \in 0 .. 1 /\ channel \in BOOLEAN
  /\ unlocked \in BOOLEAN /\ session \in 0 .. MaxSessions
  /\ polling \in [Loops -> BOOLEAN]
  /\ loop \in [Loops -> [at : {"new", "timer", "polling", "address", "eth", "read",
                               "deposit", "waiting", "stopped"},
                         eth : 0 .. MaxEth, tok : 0 .. 1, onlyUpdate : BOOLEAN]]
  /\ moreEthNeeded \in BOOLEAN /\ rates \in {"none", "known"}
  /\ busy \in BOOLEAN /\ leaked \in BOOLEAN /\ faults \in 0 .. MaxFaults

\* The reserve stays at the address: a deposit takes no ether of it, and what depositing
\* costs comes out of it only where tokens are deposited by an address that has no more.
\* The callback of an earlier session, which decides by the balances it has read, may
\* deposit beside the one of the session that goes on, and what both take is too much.
KeepsReserve ==
  [][eth' < eth => \/ eth' >= Reserve
                   \/ eth < Reserve + Cost /\ eth' >= eth - Cost
                   \/ session > 1]_pollVars

\* While a session goes on, all ether above the reserve and the cost gets into the
\* channel, and all tokens that can be paid for, whatever fails on the way outside the
\* methods of a deposit (the reading of balances, the hub, a purchase that is in the
\* way, the buying of booty), and whatever the callback of an earlier session does
\* beside it.  One deposit whose method throws is the end of it: it leaves the lock of
\* the ChannelPopulator taken, and the next one waits for ever.
Swept == eth <= Reserve + Cost /\ (tok > 0 => eth < Cost)
SweptDown == \A s \in Sessions :
               <>[](polling[s] /\ unlocked /\ channel /\ ~leaked) => <>[]Swept
=============================================================================
