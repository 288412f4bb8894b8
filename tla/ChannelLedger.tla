---------------------------- MODULE ChannelLedger ----------------------------
(***************************************************************************)
(* What the operations on money share: the ledger channel and the threads  *)
(* (virtual channels) as the hub has them, and, on the side of the worker, *)
(* the records of the AtomicTransactions, the lock of the ChannelPopulator *)
(* and whether the store knows the channel.                                *)
(*                                                                         *)
(* The hub and Connext are not under src/: they are modelled from how      *)
(* lib/connext/ConnextTypes.ts and its callers use them.  A new state of a *)
(* channel is given by absolute balances; the hub accepts it if nothing is *)
(* negative and, for each currency, the total is what it was.              *)
(***************************************************************************)
EXTENDS Integers, FiniteSets, FiniteSetsExt

CONSTANTS Receivers,    \* the performers that threads are opened to
          Rate,         \* how many BEI a WEI buys
          None

ASSUME RateAssumption == Rate \in Nat \ {0}
ASSUME ReceiversAssumption == IsFiniteSet(Receivers)

VARIABLES lc,           \* the ledger channel: balances of party A and the hub I
          threads,      \* threads[r]: the thread to r, its balances, and whether
                        \*   its closing is under way
          payouts,      \* what the hub was told to pay to a recipient
          onChain,      \* what closing the channel returned to the wallet
          tx,           \* tx[n]: the record of the AtomicTransaction named n
          disk,         \* tx as redux-persist last wrote it
          lock,         \* who holds the awaiter of the ChannelPopulator
          known         \* runtime.channel is the channel that the hub has

hub == <<lc, threads, payouts, onChain>>
worker == <<tx, disk, lock, known>>

Cur == {"eth", "tok"}
TxNames == {"buy", "buyBooty", "closeAndReopen", "withdrawal"}

Pairs == [Cur -> Nat]
Ledgers == [A : Pairs, I : Pairs]
Threads == [A : Pairs, B : Pairs, closing : BOOLEAN]

\* Null is none of the values that stand beside it.
ASSUME NoneAssumption == None \notin Ledgers \cup Threads \cup [index : Nat]

------------------------------------------------------------------------------
(* Balances *)

Pair(cur, n) == [c \in Cur |-> IF c = cur THEN n ELSE 0]
Nothing == [c \in Cur |-> 0]
Plus(a, b) == [c \in Cur |-> a[c] + b[c]]
Minus(a, b) == [c \in Cur |-> a[c] - b[c]]
NonNegative(a) == \A c \in Cur : a[c] >= 0

\* Half a unit is rounded away from zero, as BigNumber.round(0) does.
RoundDiv(n, d) == IF n >= 0 THEN (2 * n + d) \div (2 * d) ELSE - ((d - 2 * n) \div (2 * d))
ToWei(bei) == RoundDiv(bei, Rate)
InBei(b) == Rate * b["eth"] + b["tok"]

\* Two states of a channel, each given by its two balances, hold as much.
Conserves(a1, b1, a2, b2) == Plus(a1, b1) = Plus(a2, b2)

\* The sum of the terms w[x], x in S.
SumOver(S, w) == MapThenSumSet(LAMBDA x : w[x], S)

\* aggregateVCBalances(): what party A has in a set of threads.
InThreads(ts, cur) ==
  SumOver(Receivers, [r \in Receivers |-> IF ts[r] = None THEN 0 ELSE ts[r].A[cur]])

------------------------------------------------------------------------------
(* The hub *)

Open == lc # None
Closable(r) == threads[r] # None /\ ~threads[r].closing

\* A new state of the ledger channel is acceptable.
HubAccepts(new) == /\ Open
                   /\ NonNegative(new.A) /\ NonNegative(new.I)
                   /\ Conserves(lc.A, lc.I, new.A, new.I)

\* A new state of the thread to r is acceptable.
ThreadAccepts(r, new) == /\ Closable(r)
                         /\ NonNegative(new.A) /\ NonNegative(new.B)
                         /\ Conserves(threads[r].A, threads[r].B, new.A, new.B)

\* The hub has taken the closed threads into the ledger channel: it need not be
\* done when closeThreads() resolves.
HubMerges == /\ Open
             /\ \E r \in Receivers :
                  /\ threads[r] # None
                  /\ threads[r].closing
                  /\ lc' = [A |-> Plus(lc.A, threads[r].A), I |-> Plus(lc.I, threads[r].B)]
                  /\ threads' = [threads EXCEPT ![r] = None]
             /\ UNCHANGED <<payouts, onChain, worker>>

------------------------------------------------------------------------------
(* Steps that several operations take *)

\* setChannel: null, for no channel, is ignored.
StoreChannel == known' = (known \/ Open)

\* closeAllVCs() closes the threads of the channel in the store: none while that is
\* the empty one of the initial state, or one that was closed.
CloseAllVCs ==
  /\ threads' = [r \in Receivers |->
                   IF known /\ threads[r] # None THEN [threads[r] EXCEPT !.closing = TRUE]
                                                 ELSE threads[r]]
  /\ UNCHANGED <<lc, payouts, onChain>>

\* AtomicTransaction: the index and arguments of the next method are recorded;
\* the record is removed when the transaction is over, however it ends.
Record(n, r) == tx' = [tx EXCEPT ![n] = r]

\* The record is removed.
Forget(n) == tx' = [tx EXCEPT ![n] = None]

\* redux-persist writes the records to IndexedDB.
FlushTx == /\ disk # tx
           /\ disk' = tx
           /\ UNCHANGED <<hub, tx, lock, known>>

InitLedger(a, i) == /\ lc = [A |-> a, I |-> i]
                    /\ threads = [r \in Receivers |-> None]
                    /\ payouts = 0
                    /\ onChain = Nothing
                    /\ tx = [n \in TxNames |-> None]
                    /\ disk = tx
                    /\ lock = None
                    /\ known = TRUE
==============================================================================
