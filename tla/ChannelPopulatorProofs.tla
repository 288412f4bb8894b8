------------------------ MODULE ChannelPopulatorProofs ------------------------
(***************************************************************************)
(* Theorems about ChannelPopulator, for any number of calls.               *)
(***************************************************************************)
EXTENDS ChannelPopulator, TLAPS

LEMMA TypeInit == Init => TypeOK
  BY VersionsAreNat DEF Init, TypeOK, Calls, Versions

LEMMA TypeStep == TypeOK /\ [Next]_vars => TypeOK'
<1> SUFFICES ASSUME TypeOK, [Next]_vars PROVE TypeOK'
  OBVIOUS
<1> USE VersionsAreNat DEF TypeOK, Calls, Versions
<1>1. ASSUME NEW c \in Calls, PopulateDeferred(c) PROVE TypeOK'
  BY <1>1 DEF PopulateDeferred, AwaitOrHold
<1>2. ASSUME NEW c \in Calls, ResumeDeferred(c) PROVE TypeOK'
  BY <1>2 DEF ResumeDeferred, AwaitOrHold
<1>3. ASSUME NEW c \in Calls, HolderPopulates(c) PROVE TypeOK'
  BY <1>3 DEF HolderPopulates, StartFetch
<1>4. ASSUME NEW c \in Calls, HolderReleases(c) \/ HolderIsDropped(c) PROVE TypeOK'
  BY <1>4 DEF HolderReleases, HolderIsDropped
<1>5. ASSUME NEW c \in Calls, Populate(c) PROVE TypeOK'
  BY <1>5 DEF Populate, StartFetch
<1>6. ASSUME NEW c \in Calls, ResumePlain(c) PROVE TypeOK'
  BY <1>6 DEF ResumePlain
<1>7. ASSUME NEW c \in Calls, LedgerArrives(c) PROVE TypeOK'
  BY <1>7 DEF LedgerArrives
<1>8. ASSUME NEW c \in Calls, Finish(c) PROVE TypeOK'
  BY <1>8 DEF Finish, VirtualArrives, NothingToStore, FetchFails, Settle
<1>9. CASE HubMoves
  BY <1>9 DEF HubMoves
<1>10. CASE LockOrUnlock
  BY <1>10 DEF LockOrUnlock
<1>11. CASE UNCHANGED vars
  BY <1>11 DEF vars
<1>12. QED
  BY <1>1, <1>2, <1>3, <1>4, <1>5, <1>6, <1>7, <1>8, <1>9, <1>10, <1>11 DEF Next

\* The populator's state keeps its types (ChannelPopulator.ts:12-75).
THEOREM Typing == Spec => []TypeOK
  BY TypeInit, TypeStep, PTL DEF Spec

------------------------------------------------------------------------------
LEMMA LockInit == Init => LockInv
  BY DEF Init, LockInv, Holds, InFlight, Calls

LEMMA LockStep == TypeOK /\ LockInv /\ [Next]_vars => LockInv'
<1> SUFFICES ASSUME TypeOK, LockInv, [Next]_vars PROVE LockInv'
  OBVIOUS
<1> USE NoneIsNoCall, PopulatorCalls DEF TypeOK, LockInv, Holds, InFlight, Calls
<1>1. ASSUME NEW c \in Calls, PopulateDeferred(c) PROVE LockInv'
  BY <1>1 DEF PopulateDeferred, AwaitOrHold
<1>2. ASSUME NEW c \in Calls, ResumeDeferred(c) PROVE LockInv'
  BY <1>2 DEF ResumeDeferred, AwaitOrHold
<1>3. ASSUME NEW c \in Calls, HolderPopulates(c) PROVE LockInv'
  BY <1>3 DEF HolderPopulates, StartFetch
<1>4. ASSUME NEW c \in Calls, HolderReleases(c) PROVE LockInv'
  BY <1>4 DEF HolderReleases
<1>5. ASSUME NEW c \in Calls, HolderIsDropped(c) PROVE LockInv'
  BY <1>5 DEF HolderIsDropped
<1>6. ASSUME NEW c \in Calls, Populate(c) PROVE LockInv'
  BY <1>6 DEF Populate, StartFetch
<1>7. ASSUME NEW c \in Calls, ResumePlain(c) PROVE LockInv'
  BY <1>7 DEF ResumePlain
<1>8. ASSUME NEW c \in Calls, LedgerArrives(c) PROVE LockInv'
  BY <1>8 DEF LedgerArrives
<1>9. ASSUME NEW c \in Calls, Finish(c) PROVE LockInv'
  BY <1>9 DEF Finish, VirtualArrives, NothingToStore, FetchFails, Settle
<1>10. CASE HubMoves
  BY <1>10 DEF HubMoves
<1>11. CASE LockOrUnlock
  BY <1>11 DEF LockOrUnlock
<1>12. CASE UNCHANGED vars
  BY <1>12 DEF vars
<1>13. QED
  BY <1>1, <1>2, <1>3, <1>4, <1>5, <1>6, <1>7, <1>8, <1>9, <1>10, <1>11, <1>12 DEF Next

LEMMA LockInvariant == Spec => [](TypeOK /\ LockInv)
  BY TypeInit, TypeStep, LockInit, LockStep, PTL DEF Spec

\* However populate() and populateDeferred() interleave, at most one caller holds
\* the lock or refreshes the channel (ChannelPopulator.ts:23-66).
THEOREM MutualExclusion == Spec => []OneAtATime
<1>1. LockInv => OneAtATime
  BY DEF LockInv, OneAtATime
<1>2. QED
  BY <1>1, LockInvariant, PTL

\* A waiting call waits for a promise that is settled or at work, unless the
\* holder was released or dropped (ChannelPopulator.ts:24-27, 51-53).
THEOREM NoWaiterForgotten == Spec => []WaitersAreServed
<1>1. TypeOK /\ LockInv => WaitersAreServed
  BY DEF LockInv, WaitersAreServed, TypeOK
<1>2. QED
  BY <1>1, LockInvariant, PTL
------------------------------------------------------------------------------
LEMMA FreshInit == Init => FreshInv
  BY DEF Init, FreshInv

\* One refresh at a time is what keeps the versions in order: the only refresh
\* that may store a channel is the one whose reading is compared with it.
LEMMA FreshStep == TypeOK /\ LockInv /\ FreshInv /\ [Next]_vars => FreshInv'
<1> SUFFICES ASSUME TypeOK, LockInv, FreshInv, [Next]_vars PROVE FreshInv'
  OBVIOUS
<1> USE VersionsAreNat DEF TypeOK, FreshInv, Calls, Versions
<1>1. ASSUME NEW c \in Calls, HolderPopulates(c) \/ Populate(c) PROVE FreshInv'
  BY <1>1 DEF HolderPopulates, Populate, StartFetch
<1>2. ASSUME NEW c \in Calls, LedgerArrives(c) PROVE FreshInv'
  BY <1>2 DEF LedgerArrives
<1>3. ASSUME NEW c \in Calls, VirtualArrives(c) PROVE FreshInv'
  <2>1. \A d \in Calls : fetch'[d] # "virtual"
    BY <1>3 DEF VirtualArrives, Settle, LockInv, Holds, InFlight
  <2>2. channel' = [lc |-> ledger[c], vcs |-> hub] /\ ledger[c] <= hub /\ hub' = hub
    BY <1>3 DEF VirtualArrives, Settle
  <2>3. QED
    BY <2>1, <2>2
<1>4. ASSUME NEW c \in Calls, NothingToStore(c) \/ FetchFails(c) PROVE FreshInv'
  BY <1>4 DEF NothingToStore, FetchFails, Settle
<1>5. CASE HubMoves
  BY <1>5 DEF HubMoves
<1>6. CASE LockOrUnlock
  BY <1>6 DEF LockOrUnlock
<1>7. ASSUME NEW c \in Calls,
             \/ PopulateDeferred(c) \/ ResumeDeferred(c) \/ HolderReleases(c)
             \/ HolderIsDropped(c) \/ ResumePlain(c)
      PROVE  FreshInv'
  BY <1>7 DEF PopulateDeferred, ResumeDeferred, HolderReleases, HolderIsDropped,
              ResumePlain
<1>8. CASE UNCHANGED vars
  BY <1>8 DEF vars
<1>9. QED
  BY <1>1, <1>2, <1>3, <1>4, <1>5, <1>6, <1>7, <1>8 DEF Next, Finish

LEMMA FreshInvariant == Spec => [](TypeOK /\ LockInv /\ FreshInv)
  BY LockInvariant, FreshInit, FreshStep, PTL DEF Spec

\* The virtual channels shown are never older than the ledger channel shown with
\* them (getChannels.ts:14-19).
THEOREM LedgerReadFirst == Spec => []VirtualNotOlder
<1>1. FreshInv => VirtualNotOlder
  BY DEF FreshInv, VirtualNotOlder
<1>2. QED
  BY <1>1, FreshInvariant, PTL

\* A refresh never puts an older channel in the store, because no other refresh
\* can have stored one since it read the hub (ChannelPopulator.ts:50-74).
THEOREM RefreshesAreMonotone == Spec => ChannelNeverGoesBack
<1> DEFINE Forward == channel'.lc >= channel.lc /\ channel'.vcs >= channel.vcs
<1>1. TypeOK /\ LockInv /\ FreshInv /\ [Next]_vars => [Forward]_vars
  <2> SUFFICES ASSUME TypeOK, FreshInv, Next PROVE Forward
    OBVIOUS
  <2> USE VersionsAreNat DEF TypeOK, FreshInv, Versions
  <2>1. ASSUME NEW c \in Calls, VirtualArrives(c) PROVE Forward
    BY <2>1 DEF VirtualArrives
  <2>2. CASE UNCHANGED channel
    BY <2>2
  <2> HIDE DEF Forward
  <2>3. QED
    BY <2>1, <2>2
    DEF Next, Finish, PopulateDeferred, ResumeDeferred, HolderPopulates, HolderReleases,
        HolderIsDropped, Populate, ResumePlain, LedgerArrives, NothingToStore, FetchFails,
        HubMoves, LockOrUnlock
<1>2. QED
  BY <1>1, FreshInvariant, PTL DEF Spec, ChannelNeverGoesBack
===============================================================================
