--------------------------- MODULE ChannelPopulator ---------------------------
(***************************************************************************)
(* lib/ChannelPopulator.ts: refreshes the channel shown by the wallet from *)
(* the hub, one refresh at a time.  The promise `awaiter' is the lock.     *)
(*   - populate() refreshes now, or waits for the refresh under way;       *)
(*   - populateDeferred() takes the lock and hands its caller populate()   *)
(*     and release(), to be called when a deposit or a withdrawal is over. *)
(* A promise is named after the call that created it.  The hub's channel   *)
(* is a version number that grows with every change of it.                 *)
(***************************************************************************)
EXTENDS Integers

CONSTANTS Deferred,     \* calls of populateDeferred()
          Plain,        \* calls of populate()
          None,         \* null
          MaxVersion    \* bound on the changes of the hub's channel

ASSUME PopulatorCalls   == Deferred \cap Plain = {}
ASSUME NoneIsNoCall     == None \notin Deferred \cup Plain
ASSUME VersionsAreNat   == MaxVersion \in Nat

VARIABLES awaiter,      \* the promise new calls wait for, or null
          promise,      \* the promise each call created
          pc,           \* where each call, or the holder it returned, is
          waits,        \* the promise a call waits for
          fetch,        \* the doPopulate() of each call
          ledger,       \* the ledger channel a doPopulate() has read
          channel,      \* runtime.channel: its ledger and its virtual channels
          hub,          \* the hub's channel
          wallet        \* runtime.wallet is set: unlocked

vars == <<awaiter, promise, pc, waits, fetch, ledger, channel, hub, wallet>>

Calls == Deferred \cup Plain
Versions == 0 .. MaxVersion

\* doPopulate() awaits the ledger channel, then the virtual channels, or it has
\* nothing to ask: no wallet, or no channel.
InFlight(c) == fetch[c] \in {"ledger", "virtual", "nothing"}

\* The holder will still use the lock, or a refresh of its own is under way.
Holds(c) == pc[c] = "holding" \/ InFlight(c)

Init == /\ awaiter = None
        /\ promise = [c \in Calls |-> "none"]
        /\ pc = [c \in Calls |-> "idle"]
        /\ waits = [c \in Calls |-> None]
        /\ fetch = [c \in Calls |-> "none"]
        /\ ledger = [c \in Calls |-> 0]
        /\ channel = [lc |-> 0, vcs |-> 0]
        /\ hub = 0
        /\ wallet \in BOOLEAN

------------------------------------------------------------------------------
(* populateDeferred() and the holder it returns *)

\* Waits for the promise of another call, or makes its own the awaiter.
AwaitOrHold(c) == IF awaiter # None
                    THEN /\ waits' = [waits EXCEPT ![c] = awaiter]
                         /\ pc' = [pc EXCEPT ![c] = "waiting"]
                         /\ UNCHANGED <<awaiter, promise>>
                    ELSE /\ awaiter' = c
                         /\ promise' = [promise EXCEPT ![c] = "pending"]
                         /\ pc' = [pc EXCEPT ![c] = "holding"]
                         /\ UNCHANGED waits

PopulateDeferred(c) == /\ c \in Deferred
                       /\ pc[c] = "idle"
                       /\ AwaitOrHold(c)
                       /\ UNCHANGED <<fetch, ledger, channel, hub, wallet>>

\* Seeded fault: the lock is taken without looking again.
ResumeAndHold(c) == /\ c \in Deferred
                    /\ pc[c] = "waiting"
                    /\ promise[waits[c]] # "pending"
                    /\ awaiter' = c
                    /\ promise' = [promise EXCEPT ![c] = "pending"]
                    /\ pc' = [pc EXCEPT ![c] = "holding"]
                    /\ UNCHANGED <<waits, fetch, ledger, channel, hub, wallet>>

\* The promise waited for is settled: look again, or rethrow its rejection.
ResumeDeferred(c) == /\ c \in Deferred
                     /\ pc[c] = "waiting"
                     /\ promise[waits[c]] # "pending"
                     /\ IF promise[waits[c]] = "resolved"
                          THEN AwaitOrHold(c)
                          ELSE /\ pc' = [pc EXCEPT ![c] = "rejected"]
                               /\ UNCHANGED <<awaiter, promise, waits>>
                     /\ UNCHANGED <<fetch, ledger, channel, hub, wallet>>

\* doPopulate() asks the hub only if there is a wallet when it is called.
StartFetch(c) == fetch' = [fetch EXCEPT ![c] = IF wallet THEN "ledger" ELSE "nothing"]

HolderPopulates(c) == /\ pc[c] = "holding"
                      /\ pc' = [pc EXCEPT ![c] = "populating"]
                      /\ StartFetch(c)
                      /\ UNCHANGED <<awaiter, promise, waits, ledger, channel, hub, wallet>>

\* release(): the lock is free again, its promise is left unsettled.
HolderReleases(c) == /\ pc[c] = "holding"
                     /\ awaiter' = None
                     /\ pc' = [pc EXCEPT ![c] = "released"]
                     /\ UNCHANGED <<promise, waits, fetch, ledger, channel, hub, wallet>>

\* The caller forgets its holder (afterAll of a deposit or a withdrawal sets
\* deferredPopulate to null).
HolderIsDropped(c) == /\ pc[c] = "holding"
                      /\ pc' = [pc EXCEPT ![c] = "dropped"]
                      /\ UNCHANGED <<awaiter, promise, waits, fetch, ledger, channel, hub, wallet>>

------------------------------------------------------------------------------
(* populate() *)

\* Seeded fault: refreshes whatever is under way.
PopulateRegardless(c) == /\ c \in Plain
                         /\ pc[c] = "idle"
                         /\ awaiter' = c
                         /\ promise' = [promise EXCEPT ![c] = "pending"]
                         /\ pc' = [pc EXCEPT ![c] = "returned"]
                         /\ StartFetch(c)
                         /\ UNCHANGED <<waits, ledger, channel, hub, wallet>>

\* Returns the promise under way; else starts a refresh and returns without
\* awaiting it.
Populate(c) == /\ c \in Plain
               /\ pc[c] = "idle"
               /\ IF awaiter # None
                    THEN /\ waits' = [waits EXCEPT ![c] = awaiter]
                         /\ pc' = [pc EXCEPT ![c] = "waiting"]
                         /\ UNCHANGED <<awaiter, promise, fetch>>
                    ELSE /\ awaiter' = c
                         /\ promise' = [promise EXCEPT ![c] = "pending"]
                         /\ pc' = [pc EXCEPT ![c] = "returned"]
                         /\ StartFetch(c)
                         /\ UNCHANGED waits
               /\ UNCHANGED <<ledger, channel, hub, wallet>>

ResumePlain(c) == /\ c \in Plain
                  /\ pc[c] = "waiting"
                  /\ promise[waits[c]] # "pending"
                  /\ pc' = [pc EXCEPT ![c] = IF promise[waits[c]] = "resolved"
                                               THEN "returned" ELSE "rejected"]
                  /\ UNCHANGED <<awaiter, promise, waits, fetch, ledger, channel, hub, wallet>>

------------------------------------------------------------------------------
(* doPopulate() and getChannels() *)

\* Seeded fault: the lock is freed, its promise is not settled.
SettleNoOne(c, outcome) == /\ awaiter' = None
                           /\ fetch' = [fetch EXCEPT ![c] = "over"]
                           /\ pc' = [pc EXCEPT ![c] = "returned"]
                           /\ UNCHANGED <<promise, waits, hub, wallet>>

\* The refresh of c is over: its promise is settled and the lock freed.  The
\* holder's populate() resolves either way, the rejection having been caught.
Settle(c, outcome) == /\ promise' = [promise EXCEPT ![c] = outcome]
                      /\ awaiter' = None
                      /\ fetch' = [fetch EXCEPT ![c] = "over"]
                      /\ pc' = [pc EXCEPT ![c] = "returned"]
                      /\ UNCHANGED <<waits, hub, wallet>>

\* Seeded fault: the version read is not one the hub has had.
LedgerArrivesAhead(c) == /\ fetch[c] = "ledger"
                         /\ fetch' = [fetch EXCEPT ![c] = "virtual"]
                         /\ ledger' = [ledger EXCEPT ![c] = hub + 1]
                         /\ UNCHANGED <<awaiter, promise, pc, waits, channel, hub, wallet>>

\* The ledger channel arrives, or there is none and setChannel(null) will change
\* nothing.
LedgerArrives(c) == /\ fetch[c] = "ledger"
                    /\ \/ /\ fetch' = [fetch EXCEPT ![c] = "virtual"]
                          /\ ledger' = [ledger EXCEPT ![c] = hub]
                       \/ /\ fetch' = [fetch EXCEPT ![c] = "nothing"]
                          /\ UNCHANGED ledger
                    /\ UNCHANGED <<awaiter, promise, pc, waits, channel, hub, wallet>>

\* Seeded fault: the virtual channels are read first.
VirtualFirst(c) == /\ fetch[c] = "virtual"
                   /\ wallet
                   /\ channel' = [lc |-> hub, vcs |-> ledger[c]]
                   /\ Settle(c, "resolved")
                   /\ UNCHANGED ledger

\* The virtual channels arrive: balances are computed for the wallet, which must
\* still be there, and the channel is stored.
VirtualArrives(c) == /\ fetch[c] = "virtual"
                     /\ wallet
                     /\ channel' = [lc |-> ledger[c], vcs |-> hub]
                     /\ Settle(c, "resolved")
                     /\ UNCHANGED ledger

NothingToStore(c) == /\ fetch[c] = "nothing"
                     /\ Settle(c, "resolved")
                     /\ UNCHANGED <<ledger, channel>>

\* Seeded fault: a failed refresh frees the lock but rejects nothing.
FetchFailsSilently(c) == /\ fetch[c] \in {"ledger", "virtual"}
                         /\ SettleNoOne(c, "rejected")
                         /\ UNCHANGED <<ledger, channel>>

\* A request fails, or the wallet was locked before the balances are computed.
FetchFails(c) == /\ fetch[c] \in {"ledger", "virtual"}
                 /\ Settle(c, "rejected")
                 /\ UNCHANGED <<ledger, channel>>

------------------------------------------------------------------------------
(* The environment *)

HubMoves == /\ hub < MaxVersion
            /\ hub' = hub + 1
            /\ UNCHANGED <<awaiter, promise, pc, waits, fetch, ledger, channel, wallet>>

LockOrUnlock == /\ wallet' = ~wallet
                /\ UNCHANGED <<awaiter, promise, pc, waits, fetch, ledger, channel, hub>>

------------------------------------------------------------------------------
Finish(c) == VirtualArrives(c) \/ NothingToStore(c) \/ FetchFails(c)

Next == \/ \E c \in Calls : \/ PopulateDeferred(c)
                            \/ ResumeDeferred(c)
                            \/ HolderPopulates(c)
                            \/ HolderReleases(c)
                            \/ HolderIsDropped(c)
                            \/ Populate(c)
                            \/ ResumePlain(c)
                            \/ LedgerArrives(c)
                            \/ Finish(c)
        \/ HubMoves
        \/ LockOrUnlock

Spec == Init /\ [][Next]_vars

\* Continuations of settled promises run; requests to the hub end, in an answer
\* or an error; a deposit or withdrawal comes to an end and does something about
\* its holder.  Nothing obliges the hub to move or the user to lock.
Fairness == \A c \in Calls : /\ WF_vars(ResumeDeferred(c) \/ ResumePlain(c))
                             /\ WF_vars(LedgerArrives(c) \/ Finish(c))
                             /\ WF_vars(HolderPopulates(c) \/ HolderReleases(c) \/ HolderIsDropped(c))

FairSpec == Spec /\ Fairness

------------------------------------------------------------------------------
(* Properties *)

TypeOK == /\ awaiter \in Calls \cup {None}
          /\ promise \in [Calls -> {"none", "pending", "resolved", "rejected"}]
          /\ pc \in [Calls -> {"idle", "waiting", "holding", "populating", "released",
                               "dropped", "returned", "rejected"}]
          /\ waits \in [Calls -> Calls \cup {None}]
          /\ fetch \in [Calls -> {"none", "ledger", "virtual", "nothing", "over"}]
          /\ ledger \in [Calls -> Versions]
          /\ channel \in [lc : Versions, vcs : Versions]
          /\ hub \in Versions
          /\ wallet \in BOOLEAN

\* At most one call holds the lock or refreshes the channel.
OneAtATime == \A c, d \in Calls : Holds(c) /\ Holds(d) => c = d

\* A refresh never replaces what the wallet shows by something older, however
\* long the answers take.
ChannelNeverGoesBack ==
  [][channel'.lc >= channel.lc /\ channel'.vcs >= channel.vcs]_vars

\* The ledger channel is read first: what the wallet shows may have a virtual
\* channel newer than its ledger channel, never an older one.
VirtualNotOlder == channel.lc <= channel.vcs

\* A call waits in vain only for a holder that was released or dropped: any other
\* promise waited for is settled, or is the awaiter of a call still at work.
WaitersAreServed ==
  \A c \in Calls : pc[c] = "waiting" =>
    LET owner == waits[c] IN
      \/ promise[owner] \in {"resolved", "rejected"}
      \/ Holds(owner) /\ awaiter = owner
      \/ pc[owner] \in {"released", "dropped"}

Abandoned == \E c \in Calls : pc[c] \in {"released", "dropped"}

\* Unless some holder is abandoned, every call of populate() and
\* populateDeferred() that waits is answered.
WaitersReturn ==
  \A c \in Calls : pc[c] = "waiting" ~> (pc[c] # "waiting" \/ Abandoned)

------------------------------------------------------------------------------
(* The inductive invariant behind the theorems of ChannelPopulatorProofs *)

\* The lock is held by the call that took it, until its refresh is settled, it
\* was released, or for ever when its holder was dropped.
LockInv ==
  /\ \A c \in Calls : Holds(c) \/ pc[c] = "dropped" => awaiter = c /\ promise[c] = "pending"
  /\ \A c \in Calls : promise[c] = "pending" => Holds(c) \/ pc[c] \in {"released", "dropped"}
  /\ \A c \in Calls : pc[c] \in {"idle", "waiting"} => promise[c] = "none"
  /\ \A c \in Calls : promise[c] # "none" => pc[c] \notin {"idle", "waiting"}
  /\ \A c \in Calls : InFlight(c) => pc[c] \in {"populating", "returned"}
  /\ \A c \in Calls : pc[c] = "waiting" => waits[c] # None /\ promise[waits[c]] # "none"
  /\ awaiter # None => promise[awaiter] # "none"

\* What the wallet shows is no newer than what is being read, which is no newer
\* than the hub.
FreshInv ==
  /\ \A c \in Calls : fetch[c] = "virtual" => channel.lc <= ledger[c] /\ ledger[c] <= hub
  /\ channel.lc <= channel.vcs
  /\ channel.vcs <= hub
===============================================================================
