---------------------------- MODULE DepositsProofs ----------------------------
(***************************************************************************)
(* Theorems about Deposits, for any number of requests, sessions, crashes  *)
(* and unlocks.                                                            *)
(***************************************************************************)
EXTENDS Deposits, TLAPS

\* A run that has begun with its transaction, up to the end of its methods.
Inside(r) == pc[r] \in {"method", "effect", "finishing", "populating", "finished"}

\* A run knows its session, a deposit its transaction, and a transaction that has begun
\* its place in it; only requests choose; what has just taken effect is not the last
\* method.
Placed == \A r \in Runs : /\ Live(r) => home[r] \in Sessions
                          /\ pc[r] = "choosing" => r \in Requests
                          /\ Depositing(r) => name[r] \in Names
                          /\ Inside(r) => at[r] \in Checkpoints
                          /\ pc[r] = "effect" => Method(r) \in Spending

Types == TypeOK /\ Placed

------------------------------------------------------------------------------
(* The lists of methods *)

LEMMA NamesAre == Names = {"new", "existing"}
  BY DEF Names, Methods

\* The last method of both transactions, and none before it, is the refresh.
LEMMA LastMethod ==
  ASSUME NEW n \in Names, NEW i \in 1 .. Last
  PROVE  /\ Methods[n][i] = "finishTransaction" <=> i = Last
         /\ Methods[n][i] \in Spending => i < Last
<1>1. n \in {"new", "existing"} /\ i \in {1, 2, 3, 4, 5}
  BY NamesAre DEF Last
<1>2. CASE n = "new"
  <2>1. Methods[n] = <<"maybeErc20Approve", "openChannel", "awaitChainsaw",
                       "maybeRequestDeposit", "finishTransaction">>
    BY <1>2 DEF Methods
  <2>2. QED
    BY <1>1, <2>1 DEF Last, Spending
<1>3. CASE n = "existing"
  <2>1. Methods[n] = <<"maybeErc20Approve", "doEthDeposit", "doTokenDeposit",
                       "awaitChainsawBalanceChange", "finishTransaction">>
    BY <1>3 DEF Methods
  <2>2. QED
    BY <1>1, <2>1 DEF Last, Spending
<1>4. QED
  BY <1>1, <1>2, <1>3

------------------------------------------------------------------------------
(* Types *)

LEMMA TypesInit == Init => Types
<1> SUFFICES ASSUME Init PROVE Types
  OBVIOUS
<1>1. 1 \in Sessions
  BY SessionsAssumption DEF Sessions
<1>2. boot \in [Sessions -> {"none", "start", "booty", "populate", "ready", "broken"}]
  BY DEF Init
<1>3. spent \in Counts /\ paid \in [Runs -> Counts]
  BY DEF Init, Counts
<1>4. tx \in [Names -> Checkpoints \cup {None}] /\ disk = tx
  BY DEF Init
<1>5. pc = [r \in Runs |-> "idle"]
  BY DEF Init
<1>6. TypeOK
  BY <1>1, <1>2, <1>3, <1>4, <1>5 DEF Init, TypeOK, Ended
<1>7. Placed
  BY <1>5 DEF Placed, Live, Ended, Depositing, Inside
<1>8. QED
  BY <1>6, <1>7 DEF Types

\* A step in which only run r moves: it is enough to look at r.
LEMMA OneRunPlaced ==
  ASSUME Types, NEW r \in Runs, NEW where,
         pc' = [pc EXCEPT ![r] = where],
         \A q \in Runs \ {r} : home'[q] = home[q] /\ name'[q] = name[q] /\ at'[q] = at[q],
         where \notin Ended => home'[r] \in Sessions,
         where = "choosing" => r \in Requests,
         where \in {"hook", "method", "effect", "finishing", "populating", "finished"}
           => name'[r] \in Names,
         where \in {"method", "effect", "finishing", "populating", "finished"}
           => at'[r] \in Checkpoints,
         where = "effect" => Methods[name'[r]][at'[r].index] \in Spending
  PROVE  Placed'
<1>1. pc'[r] = where /\ \A q \in Runs \ {r} : pc'[q] = pc[q]
  BY DEF Types, TypeOK
<1>2. SUFFICES ASSUME NEW q \in Runs
               PROVE  (/\ Live(q) => home[q] \in Sessions
                       /\ pc[q] = "choosing" => q \in Requests
                       /\ Depositing(q) => name[q] \in Names
                       /\ Inside(q) => at[q] \in Checkpoints
                       /\ pc[q] = "effect" => Method(q) \in Spending)'
  BY DEF Placed
<1>3. CASE q = r
  BY <1>1, <1>3 DEF Live, Depositing, Inside, Method
<1>4. CASE q # r
  BY <1>1, <1>4 DEF Types, Placed, Live, Depositing, Inside, Method
<1>5. QED
  BY <1>3, <1>4

\* A step in which no run moves.
LEMMA NobodyMoves ==
  ASSUME Types, UNCHANGED <<pc, home, name, at>>
  PROVE  Placed'
  BY DEF Types, Placed, Live, Depositing, Inside, Method

\* The end of a call.
LEMMA EndCallTypes ==
  ASSUME Types, NEW r \in Runs, NEW where \in {"done", "failed"}, EndCall(r, where)
  PROVE  /\ pc' = [pc EXCEPT ![r] = where]
         /\ name' \in [Runs -> Names \cup {None}] /\ name' = [name EXCEPT ![r] = None]
         /\ at' \in [Runs -> Checkpoints \cup {None}] /\ at' = [at EXCEPT ![r] = None]
         /\ waits' \in [Runs -> Holders \cup Answers \cup {None}]
         /\ sem' \in [Sessions -> Requests \cup {None}]
  BY DEF Types, TypeOK, EndCall, MoveTo

\* A promise is settled.
LEMMA SettleTypes ==
  ASSUME Types, NEW h, NEW outcome \in Answers, Settle(h, outcome)
  PROVE  /\ waits' \in [Runs -> Holders \cup Answers \cup {None}]
         /\ bootWaits' \in [Sessions -> Holders \cup Answers \cup {None}]
  BY DEF Types, TypeOK, Settle

\* The lock is taken or waited for.
LEMMA AwaitOrHoldTypes ==
  ASSUME Types, NEW r \in Runs, NEW s \in Sessions, NEW record \in Checkpoints \cup {None},
         AwaitOrHold(r, s, record)
  PROVE  /\ waits' \in [Runs -> Holders \cup Answers \cup {None}]
         /\ lock' \in Holders \cup {None}
         /\ deferred' \in [Sessions -> Runs \cup {None}]
         /\ at' \in [Runs -> Checkpoints \cup {None}]
         /\ \A q \in Runs \ {r} : at'[q] = at[q]
         /\ \/ lock # None /\ pc' = [pc EXCEPT ![r] = "hook"]
            \/ lock = None /\ pc' = [pc EXCEPT ![r] = "method"] /\ at'[r] = record
<1>1. CASE lock # None
  BY <1>1 DEF Types, TypeOK, AwaitOrHold, MoveTo
<1>2. CASE lock = None
  <2>1. /\ lock' = r
        /\ deferred' = [deferred EXCEPT ![s] = r]
        /\ at' = [at EXCEPT ![r] = record]
        /\ waits' = [waits EXCEPT ![r] = None]
        /\ pc' = [pc EXCEPT ![r] = "method"]
    BY <1>2 DEF AwaitOrHold, MoveTo
  <2>2. QED
    BY <1>2, <2>1 DEF Types, TypeOK, Holders
<1>3. QED
  BY <1>1, <1>2

\* What a call leaves alone when it ends.
Rest == <<session, boot, disk, hubChannel, spent, paid>>

LEMMA EndCallKeepsTypes ==
  ASSUME Types, NEW r \in Runs, NEW where \in {"done", "failed"}, EndCall(r, where),
         UNCHANGED <<home, bootWaits, Rest>>,
         tx' \in [Names -> Checkpoints \cup {None}],
         lock' \in Holders \cup {None}, refreshing' \in BOOLEAN, active' \in BOOLEAN,
         deferred' \in [Sessions -> Runs \cup {None}]
  PROVE  Types'
<1>1. TypeOK'
  BY EndCallTypes DEF Types, TypeOK, Rest, Ended
<1>2. Placed'
  BY EndCallTypes, OneRunPlaced DEF Types, TypeOK, Ended
<1>3. QED
  BY <1>1, <1>2 DEF Types

\* A transaction begins, or goes on to wait: it begins with a record.
LEMMA AwaitOrHoldKeepsTypes ==
  ASSUME Types, NEW r \in Runs, NEW s \in Sessions, NEW record \in Checkpoints \cup {None},
         AwaitOrHold(r, s, record), lock = None => record # None,
         name' \in [Runs -> Names \cup {None}], name'[r] \in Names,
         home' \in [Runs -> Sessions \cup {None}], home'[r] \in Sessions,
         \A q \in Runs \ {r} : name'[q] = name[q] /\ home'[q] = home[q],
         boot' \in [Sessions -> {"none", "start", "booty", "populate", "ready", "broken"}],
         tx' \in [Names -> Checkpoints \cup {None}], active' \in BOOLEAN,
         UNCHANGED <<session, bootWaits, sem, disk, refreshing, hubChannel, spent, paid>>
  PROVE  Types'
<1>1. PICK where \in {"hook", "method"} :
         /\ pc' = [pc EXCEPT ![r] = where]
         /\ where = "method" => at'[r] \in Checkpoints
  BY AwaitOrHoldTypes
<1>2. TypeOK'
  BY <1>1, AwaitOrHoldTypes DEF Types, TypeOK
<1>3. \A q \in Runs \ {r} : at'[q] = at[q]
  BY AwaitOrHoldTypes
<1>4. Placed'
  BY <1>1, <1>3, OneRunPlaced
<1>5. QED
  BY <1>2, <1>4 DEF Types

\* A step of the request that a run may be.
LEMMA CallTypes ==
  ASSUME Types, NEW r \in Runs, Request(r) \/ Call(r)
  PROVE  Types'
<1> USE DistinctAssumption DEF Runs
<1>1. CASE Request(r)
  <2>1. session \in Sessions /\ home' = [home EXCEPT ![r] = session] /\ r \in Requests
    BY <1>1 DEF Request, Types, TypeOK
  <2>2. PICK where \in {"refused", "choosing"} : pc' = [pc EXCEPT ![r] = where]
    BY <1>1 DEF Request, MoveTo
  <2>3. sem' \in [Sessions -> Requests \cup {None}]
    BY <1>1, <2>1 DEF Request, Types, TypeOK
  <2>4. TypeOK'
    BY <1>1, <2>1, <2>2, <2>3 DEF Request, Types, TypeOK, Ended, populator
  <2>5. Placed'
    BY <1>1, <2>1, <2>2, OneRunPlaced DEF Request, Types, TypeOK
  <2>6. QED
    BY <2>4, <2>5 DEF Types
<1>2. CASE Choose(r)
  <2>1. PICK n \in Names : /\ name' = [name EXCEPT ![r] = n]
                           /\ tx' = [tx EXCEPT ![n] = [job |-> r, index |-> 1]]
                           /\ AwaitOrHold(r, home[r], [job |-> r, index |-> 1])
    BY <1>2, NamesAre DEF Choose
  <2>2. r \in Requests /\ home[r] \in Sessions
    BY <1>2 DEF Types, TypeOK, Placed, Choose, Live, Ended
  <2>3. [job |-> r, index |-> 1] \in Checkpoints
    BY <2>2 DEF Checkpoints, Last
  <2>4. tx' \in [Names -> Checkpoints \cup {None}]
    BY <2>1, <2>3 DEF Types, TypeOK
  <2>5. /\ active' = TRUE
        /\ UNCHANGED <<session, boot, bootWaits, sem, disk, home, refreshing, hubChannel, spent, paid>>
    BY <1>2 DEF Choose
  <2>6. /\ name' \in [Runs -> Names \cup {None}] /\ name'[r] \in Names
        /\ \A q \in Runs \ {r} : name'[q] = name[q] /\ home'[q] = home[q]
        /\ home' \in [Runs -> Sessions \cup {None}] /\ home'[r] \in Sessions
        /\ boot' \in [Sessions -> {"none", "start", "booty", "populate", "ready", "broken"}]
    BY <2>1, <2>2, <2>5 DEF Types, TypeOK
  <2>7. QED
    BY <2>1, <2>2, <2>3, <2>4, <2>5, <2>6, AwaitOrHoldKeepsTypes
<1>3. CASE ChooseFails(r)
  <2>1. EndCall(r, "failed") /\ UNCHANGED <<tx, home, populator, bootWaits, active, Rest>>
    BY <1>3 DEF ChooseFails, Rest
  <2>2. QED
    BY <2>1, EndCallKeepsTypes DEF Types, TypeOK, populator
<1>4. CASE BuyBooty(r)
  <2>1. CASE EndCall(r, "done") \/ EndCall(r, "failed")
    <3>1. /\ lock' \in Holders \cup {None} /\ refreshing' \in BOOLEAN
          /\ UNCHANGED <<tx, home, deferred, bootWaits, active, Rest>>
      BY <1>4 DEF BuyBooty, Rest, RefreshInBackground, Holders, Types, TypeOK
    <3>2. QED
      BY <2>1, <3>1, EndCallKeepsTypes DEF Types, TypeOK
  <2>2. CASE /\ pc' = [pc EXCEPT ![r] = "bootyPopulate"]
             /\ waits' = [waits EXCEPT ![r] = lock]
             /\ UNCHANGED <<sem, name, at, lock, refreshing>>
    <3>1. UNCHANGED <<tx, home, deferred, bootWaits, active, Rest>> /\ home[r] \in Sessions
      BY <1>4 DEF BuyBooty, Rest, Types, Placed, Live, Ended
    <3>2. TypeOK'
      BY <2>2, <3>1 DEF Types, TypeOK, Rest
    <3>3. Placed'
      BY <2>2, <3>1, OneRunPlaced
    <3>4. QED
      BY <3>2, <3>3 DEF Types
  <2>3. QED
    BY <1>4, <2>1, <2>2 DEF BuyBooty, MoveTo
<1>5. CASE BootyPopulated(r)
  <2>1. EndCall(r, "done") \/ EndCall(r, "failed")
    BY <1>5 DEF BootyPopulated
  <2>2. UNCHANGED <<tx, home, populator, bootWaits, active, Rest>>
    BY <1>5 DEF BootyPopulated, Rest
  <2>3. QED
    BY <2>1, <2>2, EndCallKeepsTypes DEF Types, TypeOK, populator
<1>6. QED
  BY <1>1, <1>2, <1>3, <1>4, <1>5 DEF Call

\* A step of a transaction.
LEMMA TransactionTypes ==
  ASSUME Types, NEW r \in Runs, Transaction(r)
  PROVE  Types'
<1> USE DistinctAssumption
<1>1. CASE ResumeHook(r)
  <2>1. home[r] \in Sessions /\ name[r] \in Names /\ tx[name[r]] \in Checkpoints \cup {None}
    BY <1>1 DEF ResumeHook, Types, TypeOK, Placed, Live, Ended, Depositing
  <2>2. UNCHANGED <<session, boot, bootWaits, tx, disk, home, refreshing, active, hubChannel, spent, paid>>
    BY <1>1 DEF ResumeHook
  <2>3. CASE /\ lock # None \/ tx[name[r]] # None
             /\ AwaitOrHold(r, home[r], tx[name[r]])
             /\ UNCHANGED <<sem, name>>
    <3>1. /\ name' \in [Runs -> Names \cup {None}] /\ home' \in [Runs -> Sessions \cup {None}]
          /\ boot' \in [Sessions -> {"none", "start", "booty", "populate", "ready", "broken"}]
          /\ tx' \in [Names -> Checkpoints \cup {None}] /\ active' \in BOOLEAN
      BY <2>2, <2>3 DEF Types, TypeOK
    <3>2. QED
      BY <2>1, <2>2, <2>3, <3>1, AwaitOrHoldKeepsTypes
  <2>4. CASE EndCall(r, "failed")
    <3>1. lock' \in Holders \cup {None} /\ deferred' \in [Sessions -> Runs \cup {None}]
      BY <1>1, <2>1, <2>4 DEF ResumeHook, Types, TypeOK, Holders, AwaitOrHold
    <3>2. QED
      BY <2>2, <2>4, <3>1, EndCallKeepsTypes DEF Types, TypeOK, Rest
  <2>5. QED
    BY <1>1, <2>3, <2>4 DEF ResumeHook
<1>2. CASE HookRejects(r)
  <2>1. /\ lock' \in Holders \cup {None} /\ deferred' \in [Sessions -> Runs \cup {None}]
        /\ EndCall(r, "failed")
        /\ UNCHANGED <<session, boot, bootWaits, tx, disk, home, refreshing, active, hubChannel,
                       spent, paid>>
    BY <1>2 DEF HookRejects, Types, TypeOK
  <2>2. QED
    BY <2>1, EndCallKeepsTypes DEF Types, TypeOK, Rest
<1>3. CASE TakeEffect(r)
  <2>1. /\ pc[r] = "method" /\ Method(r) \in Spending /\ pc' = [pc EXCEPT ![r] = "effect"]
        /\ spent' = [spent EXCEPT ![at[r].job][Method(r)] = @ + 1]
        /\ paid' = [paid EXCEPT ![r][at[r].job][Method(r)] = @ + 1]
        /\ UNCHANGED <<session, boot, bootWaits, sem, tx, disk, name, at, home, waits,
                       populator, active, hubChannel>>
    BY <1>3 DEF TakeEffect, MoveTo
  <2>2. /\ at[r] \in Checkpoints /\ at[r].job \in Requests /\ name[r] \in Names
        /\ home[r] \in Sessions
    BY <2>1 DEF Types, Placed, Inside, Checkpoints, Depositing, Live, Ended
  <2>3. \A counts \in Counts :
          [counts EXCEPT ![at[r].job][Method(r)] = @ + 1] \in Counts
    <3>1. SUFFICES ASSUME NEW counts \in Counts
                   PROVE  [counts EXCEPT ![at[r].job][Method(r)] = @ + 1] \in Counts
      OBVIOUS
    <3>2. [counts[at[r].job] EXCEPT ![Method(r)] = @ + 1] \in [Spending -> Nat]
      BY <2>1, <2>2 DEF Counts
    <3>3. QED
      BY <2>2, <3>2 DEF Counts
  <2>7. spent' \in Counts /\ paid' \in [Runs -> Counts]
    <3>1. spent \in Counts /\ paid \in [Runs -> Counts]
      BY DEF Types, TypeOK
    <3>2. [paid[r] EXCEPT ![at[r].job][Method(r)] = @ + 1] \in Counts
      BY <2>3, <3>1
    <3>3. QED
      BY <2>1, <2>3, <3>1, <3>2
  <2>4. TypeOK'
    BY <2>1, <2>7 DEF Types, TypeOK, populator
  <2>5. Placed'
    BY <2>1, <2>2, OneRunPlaced DEF Method
  <2>6. QED
    BY <2>4, <2>5 DEF Types
<1>4. CASE NextMethod(r)
  <2>1. /\ at' = [at EXCEPT ![r].index = @ + 1]
        /\ tx' = [tx EXCEPT ![name[r]] = at'[r]]
        /\ pc' = [pc EXCEPT ![r] = "method"]
        /\ UNCHANGED <<session, boot, bootWaits, sem, disk, name, home, waits, populator,
                       active, hubChannel, spent, paid>>
    BY <1>4 DEF NextMethod, MoveTo
  <2>2. /\ at[r] \in Checkpoints /\ name[r] \in Names /\ home[r] \in Sessions
        /\ at[r].index \in 1 .. Last
    BY <1>4 DEF NextMethod, Types, Placed, Inside, Checkpoints, Depositing, Live, Ended
  <2>3. at[r].index < Last
    <3>1. CASE pc[r] = "effect"
      BY <2>2, <3>1, LastMethod DEF Types, Placed, Method
    <3>2. CASE pc[r] = "method" /\ Method(r) # "finishTransaction"
      BY <2>2, <3>2, LastMethod DEF Method, Last
    <3>3. QED
      BY <1>4, <3>1, <3>2 DEF NextMethod
  <2>4. at'[r] = [at[r] EXCEPT !.index = @ + 1] /\ at'[r] \in Checkpoints
    BY <2>1, <2>2, <2>3 DEF Types, TypeOK, Checkpoints, Last
  <2>5. /\ at' \in [Runs -> Checkpoints \cup {None}]
        /\ \A q \in Runs \ {r} : at'[q] = at[q]
    BY <2>1, <2>4 DEF Types, TypeOK
  <2>6. tx' \in [Names -> Checkpoints \cup {None}]
    BY <2>1, <2>4 DEF Types, TypeOK
  <2>7. TypeOK'
    BY <2>1, <2>5, <2>6 DEF Types, TypeOK, populator
  <2>8. Placed'
    BY <2>1, <2>2, <2>4, <2>5, OneRunPlaced
  <2>9. QED
    BY <2>7, <2>8 DEF Types
<1>5. CASE FinishTransaction(r)
  <2>1. PICK where \in {"populating", "finishing", "finished"} : pc' = [pc EXCEPT ![r] = where]
    BY <1>5 DEF FinishTransaction, MoveTo
  <2>2. /\ pc[r] = "method"
        /\ UNCHANGED <<session, boot, bootWaits, sem, tx, disk, name, at, home, deferred, active,
                       hubChannel, spent, paid>>
    BY <1>5 DEF FinishTransaction
  <2>3. at[r] \in Checkpoints /\ name[r] \in Names /\ home[r] \in Sessions
    BY <2>2 DEF Types, Placed, Inside, Depositing, Live, Ended
  <2>4. /\ lock' \in Holders \cup {None} /\ refreshing' \in BOOLEAN
        /\ waits' \in [Runs -> Holders \cup Answers \cup {None}]
    <3>1. deferred[home[r]] \in Holders \cup {None} /\ lock \in Holders \cup {None}
      BY <2>3 DEF Types, TypeOK, Holders
    <3>2. \/ UNCHANGED <<lock, refreshing, waits>>
          \/ lock' = Poller /\ refreshing' = TRUE /\ UNCHANGED waits
          \/ /\ UNCHANGED <<lock, refreshing>>
             /\ \E h \in Holders \cup {None} : waits' = [waits EXCEPT ![r] = h]
      <4>1. CASE deferred[home[r]] # None
        BY <1>5, <3>1, <4>1 DEF FinishTransaction
      <4>2. CASE deferred[home[r]] = None
        BY <1>5, <3>1, <4>2 DEF FinishTransaction, RefreshInBackground
      <4>3. QED
        BY <4>1, <4>2
    <3>3. Poller \in Holders /\ lock \in Holders \cup {None} /\ refreshing \in BOOLEAN
          /\ waits \in [Runs -> Holders \cup Answers \cup {None}]
      BY DEF Types, TypeOK, Holders
    <3>4. \A h \in Holders \cup {None} :
            [waits EXCEPT ![r] = h] \in [Runs -> Holders \cup Answers \cup {None}]
      BY <3>3
    <3>5. QED
      BY <3>2, <3>3, <3>4
  <2>5. TypeOK'
    BY <2>1, <2>2, <2>4 DEF Types, TypeOK
  <2>6. Placed'
    BY <2>1, <2>2, <2>3, OneRunPlaced
  <2>7. QED
    BY <2>5, <2>6 DEF Types
<1>6. CASE Populated(r)
  <2>1. /\ pc[r] = "populating" /\ pc' = [pc EXCEPT ![r] = "finished"] /\ lock' = None
        /\ UNCHANGED <<session, boot, sem, tx, disk, name, at, home, deferred, refreshing,
                       active, hubChannel, spent, paid>>
    BY <1>6 DEF Populated, MoveTo
  <2>2. /\ waits' \in [Runs -> Holders \cup Answers \cup {None}]
        /\ bootWaits' \in [Sessions -> Holders \cup Answers \cup {None}]
    BY <1>6, SettleTypes DEF Populated
  <2>3. TypeOK'
    BY <2>1, <2>2 DEF Types, TypeOK
  <2>4. Placed'
    BY <2>1, OneRunPlaced DEF Types, Placed, Inside, Depositing, Live, Ended
  <2>5. QED
    BY <2>3, <2>4 DEF Types
<1>7. CASE FinishWaited(r)
  <2>1. /\ pc[r] = "finishing" /\ pc' = [pc EXCEPT ![r] = "finished"]
        /\ UNCHANGED <<session, boot, bootWaits, sem, tx, disk, name, at, home, waits,
                       populator, active, hubChannel, spent, paid>>
    BY <1>7 DEF FinishWaited, MoveTo
  <2>2. TypeOK'
    BY <2>1 DEF Types, TypeOK, populator
  <2>3. Placed'
    BY <2>1, OneRunPlaced DEF Types, Placed, Inside, Depositing, Live, Ended
  <2>4. QED
    BY <2>2, <2>3 DEF Types
<1>8. CASE Complete(r) \/ MethodThrows(r)
  <2>1. CleanUp(r) /\ UNCHANGED <<session, boot, bootWaits, disk, home, lock, refreshing,
                                  hubChannel, spent, paid>>
    BY <1>8 DEF Complete, MethodThrows
  <2>2. /\ tx' \in [Names -> Checkpoints \cup {None}] /\ active' \in BOOLEAN
        /\ deferred' \in [Sessions -> Runs \cup {None}]
    BY <2>1 DEF CleanUp, Types, TypeOK
  <2>3. CASE EndCall(r, "done") \/ EndCall(r, "failed")
    BY <2>1, <2>2, <2>3, EndCallKeepsTypes DEF Types, TypeOK, Rest
  <2>4. CASE pc' = [pc EXCEPT ![r] = "booty"] /\ UNCHANGED <<sem, name, at, waits>>
    <3>1. home[r] \in Sessions
      BY <1>8 DEF Complete, MethodThrows, Types, Placed, Live, Ended
    <3>2. TypeOK'
      BY <2>1, <2>2, <2>4 DEF Types, TypeOK
    <3>3. Placed'
      BY <2>1, <2>4, <3>1, OneRunPlaced
    <3>4. QED
      BY <3>2, <3>3 DEF Types
  <2>5. QED
    BY <1>8, <2>3, <2>4 DEF Complete, MethodThrows, MoveTo
<1>9. QED
  BY <1>1, <1>2, <1>3, <1>4, <1>5, <1>6, <1>7, <1>8 DEF Transaction

\* A step of start().
LEMMA BootTypes ==
  ASSUME Types, NEW s \in Sessions, Boot(s)
  PROVE  Types'
<1> USE DistinctAssumption
<1>0. s \in Runs
  BY DEF Runs
<1>1. CASE RestartDeposit(s)
  <2>1. /\ home' = [home EXCEPT ![s] = s]
        /\ UNCHANGED <<session, bootWaits, sem, tx, disk, hubChannel, spent, paid>>
    BY <1>1 DEF RestartDeposit
  <2>2. /\ home' \in [Runs -> Sessions \cup {None}] /\ home'[s] \in Sessions
        /\ \A q \in Runs \ {s} : home'[q] = home[q]
    BY <1>0, <2>1 DEF Types, TypeOK
  <2>3. boot' \in [Sessions -> {"none", "start", "booty", "populate", "ready", "broken"}]
    BY <1>1 DEF RestartDeposit, Types, TypeOK
  <2>4. CASE /\ tx["new"] # None
             /\ name' = [name EXCEPT ![s] = "new"]
             /\ at' = [at EXCEPT ![s] = tx["new"]]
             /\ MoveTo(s, "method")
             /\ UNCHANGED <<populator, waits, active>>
    <3>1. tx["new"] \in Checkpoints /\ "new" \in Names
      BY <2>4, NamesAre DEF Types, TypeOK
    <3>2. pc' = [pc EXCEPT ![s] = "method"]
      BY <2>4 DEF MoveTo
    <3>3. TypeOK'
      BY <1>0, <2>1, <2>2, <2>3, <2>4, <3>1, <3>2 DEF Types, TypeOK, populator
    <3>4. /\ \A q \in Runs \ {s} : name'[q] = name[q] /\ at'[q] = at[q]
          /\ name'[s] \in Names /\ at'[s] \in Checkpoints
      BY <1>0, <2>4, <3>1 DEF Types, TypeOK
    <3>5. Placed'
      BY <1>0, <2>2, <3>2, <3>4, OneRunPlaced
    <3>6. QED
      BY <3>3, <3>5 DEF Types
  <2>5. CASE /\ tx["existing"] # None
             /\ name' = [name EXCEPT ![s] = "existing"]
             /\ active' = TRUE
             /\ AwaitOrHold(s, s, tx["existing"])
             /\ UNCHANGED refreshing
    <3>1. tx["existing"] \in Checkpoints /\ "existing" \in Names
      BY <2>5, NamesAre DEF Types, TypeOK
    <3>2. /\ name' \in [Runs -> Names \cup {None}] /\ name'[s] \in Names
          /\ \A q \in Runs \ {s} : name'[q] = name[q] /\ home'[q] = home[q]
          /\ tx' \in [Names -> Checkpoints \cup {None}] /\ active' \in BOOLEAN
      BY <1>0, <2>1, <2>2, <2>5, <3>1 DEF Types, TypeOK
    <3>3. QED
      BY <1>0, <2>1, <2>2, <2>3, <2>5, <3>1, <3>2, AwaitOrHoldKeepsTypes
  <2>6. CASE UNCHANGED <<name, at, pc, populator, waits, active>>
    <3>1. TypeOK'
      BY <2>1, <2>2, <2>3, <2>6 DEF Types, TypeOK, populator
    <3>2. Placed'
      BY <2>1, <2>2, <2>6 DEF Types, Placed, Live, Depositing, Inside, Method
    <3>3. QED
      BY <3>1, <3>2 DEF Types
  <2>7. QED
    BY <1>1, <2>4, <2>5, <2>6 DEF RestartDeposit
<1>2. CASE BootBooty(s) \/ BootPopulated(s)
  <2>1. /\ UNCHANGED <<session, sem, tx, disk, process, deferred, active, hubChannel, spent, paid>>
        /\ boot' \in [Sessions -> {"none", "start", "booty", "populate", "ready", "broken"}]
        /\ bootWaits' \in [Sessions -> Holders \cup Answers \cup {None}]
        /\ lock' \in Holders \cup {None} /\ refreshing' \in BOOLEAN
    <3>1. CASE BootBooty(s)
      <4>1. lock \in Holders \cup {None} /\ Poller \in Holders
        BY DEF Types, TypeOK, Holders
      <4>2. UNCHANGED <<session, sem, tx, disk, process, deferred, active, hubChannel, spent, paid>>
        BY <3>1 DEF BootBooty
      <4>3. \E step \in {"populate", "ready", "broken"} : boot' = [boot EXCEPT ![s] = step]
        BY <3>1, Zenon DEF BootBooty
      <4>4. bootWaits' = [bootWaits EXCEPT ![s] = lock] \/ UNCHANGED bootWaits
        BY <3>1, Zenon DEF BootBooty
      <4>5. UNCHANGED <<lock, refreshing>> \/ RefreshInBackground
        BY <3>1, Zenon DEF BootBooty
      <4>6. bootWaits' \in [Sessions -> Holders \cup Answers \cup {None}]
        BY <4>1, <4>4 DEF Types, TypeOK
      <4>7. boot' \in [Sessions -> {"none", "start", "booty", "populate", "ready", "broken"}]
        BY <4>3 DEF Types, TypeOK
      <4>8. lock' \in Holders \cup {None} /\ refreshing' \in BOOLEAN
        BY <4>1, <4>5 DEF Types, TypeOK, RefreshInBackground
      <4>9. QED
        BY <4>2, <4>6, <4>7, <4>8
    <3>2. CASE BootPopulated(s)
      <4>1. /\ UNCHANGED <<session, sem, tx, disk, process, populator, active, hubChannel, spent, paid>>
            /\ \E step \in {"ready", "broken"} : boot' = [boot EXCEPT ![s] = step]
            /\ bootWaits' = [bootWaits EXCEPT ![s] = None]
        BY <3>2 DEF BootPopulated
      <4>2. QED
        BY <4>1 DEF Types, TypeOK, populator
    <3>3. QED
      BY <1>2, <3>1, <3>2
  <2>2. TypeOK'
    BY <2>1 DEF Types, TypeOK, process
  <2>3. Placed'
    BY <2>1, NobodyMoves DEF process
  <2>4. QED
    BY <2>2, <2>3 DEF Types
<1>3. QED
  BY <1>1, <1>2 DEF Boot

\* The worker is killed.
LEMMA CrashTypes ==
  ASSUME Types, Crash
  PROVE  Types'
<1>1. session' \in Sessions
  BY SessionsAssumption DEF Crash, NextSession, Types, TypeOK, Sessions
<1>2. /\ boot' \in [Sessions -> {"none", "start", "booty", "populate", "ready", "broken"}]
      /\ bootWaits' \in [Sessions -> Holders \cup Answers \cup {None}]
      /\ sem' \in [Sessions -> Requests \cup {None}]
      /\ deferred' \in [Sessions -> Runs \cup {None}]
  BY DEF Crash
<1>3. /\ name' \in [Runs -> Names \cup {None}] /\ at' \in [Runs -> Checkpoints \cup {None}]
      /\ waits' \in [Runs -> Holders \cup Answers \cup {None}]
  BY DEF Crash
<1>4. pc' = [r \in Runs |-> IF Live(r) THEN "killed" ELSE pc[r]]
  BY DEF Crash
<1>5. /\ \A r \in Runs : pc'[r] \in Ended
      /\ pc' \in [Runs -> Ended]
  BY <1>4 DEF Live, Ended
<1>6. TypeOK'
  BY <1>1, <1>2, <1>3, <1>5 DEF Crash, Types, TypeOK
<1>7. Placed'
  BY <1>5 DEF Placed, Live, Depositing, Inside, Ended
<1>8. QED
  BY <1>6, <1>7 DEF Types

\* What happens besides.
LEMMA EnvironmentTypes ==
  ASSUME Types,
         LockAndUnlock \/ Flush \/ HubSeesChannel \/ PollerPopulates \/ PollerSettles
           \/ UNCHANGED vars
  PROVE  Types'
<1>1. /\ UNCHANGED <<pc, name, at, home, sem, tx, deferred, active, spent, paid>>
      /\ disk' \in [Names -> Checkpoints \cup {None}]
  BY DEF LockAndUnlock, Flush, HubSeesChannel, PollerPopulates, PollerSettles, vars, process,
         populator, Types, TypeOK
<1>2. /\ session' \in Sessions
      /\ boot' \in [Sessions -> {"none", "start", "booty", "populate", "ready", "broken"}]
  <2>1. CASE LockAndUnlock
    <3>1. session' \in Sessions /\ boot' = [boot EXCEPT ![session'] = "start"]
      BY <2>1, SessionsAssumption DEF LockAndUnlock, NextSession, Types, TypeOK, Sessions
    <3>2. QED
      BY <3>1 DEF Types, TypeOK
  <2>2. CASE UNCHANGED <<session, boot>>
    BY <2>2 DEF Types, TypeOK
  <2>3. QED
    BY <2>1, <2>2 DEF Flush, HubSeesChannel, PollerPopulates, PollerSettles, vars
<1>3. hubChannel' \in BOOLEAN /\ lock' \in Holders \cup {None} /\ refreshing' \in BOOLEAN
  BY DEF LockAndUnlock, Flush, HubSeesChannel, PollerPopulates, PollerSettles, vars,
         RefreshInBackground, populator, Types, TypeOK, Holders
<1>4. /\ waits' \in [Runs -> Holders \cup Answers \cup {None}]
      /\ bootWaits' \in [Sessions -> Holders \cup Answers \cup {None}]
  <2>1. CASE PollerSettles
    BY <2>1, SettleTypes DEF PollerSettles
  <2>2. CASE UNCHANGED <<waits, bootWaits>>
    BY <2>2 DEF Types, TypeOK
  <2>3. QED
    BY <2>1, <2>2 DEF LockAndUnlock, Flush, HubSeesChannel, PollerPopulates, vars, process
<1>5. TypeOK'
  BY <1>1, <1>2, <1>3, <1>4 DEF Types, TypeOK
<1>6. Placed'
  BY <1>1, NobodyMoves
<1>7. QED
  BY <1>5, <1>6 DEF Types

LEMMA TypesStep == Types /\ [Next]_vars => Types'
<1> SUFFICES ASSUME Types, [Next]_vars PROVE Types'
  OBVIOUS
<1>1. CASE \E r \in Runs : Request(r) \/ Call(r) \/ Transaction(r)
  BY <1>1, CallTypes, TransactionTypes
<1>2. CASE \E s \in Sessions : Boot(s)
  BY <1>2, BootTypes
<1>3. CASE Crash
  BY <1>3, CrashTypes
<1>4. CASE \/ LockAndUnlock \/ Flush \/ HubSeesChannel \/ PollerPopulates \/ PollerSettles
           \/ UNCHANGED vars
  BY <1>4, EnvironmentTypes
<1>5. QED
  BY <1>1, <1>2, <1>3, <1>4 DEF Next

\* A run never goes past the last method of its transaction, and no record points past
\* it; whoever holds or awaits the lock is a run or the poller (the loop of
\* AtomicTransaction.ts:121).
THEOREM Typing == Spec => []TypeOK
<1>1. Types => TypeOK
  BY DEF Types
<1>2. QED
  BY <1>1, TypesInit, TypesStep, PTL DEF Spec

------------------------------------------------------------------------------
(* The flag of an active deposit *)

\* The wallet never shows a deposit as active that is not on record: a record goes only
\* with the flag, and is otherwise only moved on (MicropaymentsController.ts:75,
\* DepositTransaction.ts:271).
THEOREM Recorded == Spec => []ActiveIsRecorded
<1>1. Init => ActiveIsRecorded
  BY DEF Init, ActiveIsRecorded
<1>2. Types /\ ActiveIsRecorded /\ [Next]_vars => ActiveIsRecorded'
  <2> SUFFICES ASSUME Types, ActiveIsRecorded, [Next]_vars PROVE ActiveIsRecorded'
    OBVIOUS
  <2> USE DistinctAssumption
  <2>1. CASE UNCHANGED <<tx, active>> \/ active' = FALSE
    BY <2>1 DEF ActiveIsRecorded
  <2>2. ASSUME NEW r \in Runs, Choose(r) PROVE ActiveIsRecorded'
    <3>1. PICK n \in Names : tx' = [tx EXCEPT ![n] = [job |-> r, index |-> 1]]
      BY <2>2, NamesAre DEF Choose
    <3>2. r \in Requests
      BY <2>2 DEF Choose, Types, Placed
    <3>3. [job |-> r, index |-> 1] \in Checkpoints
      BY <3>2 DEF Checkpoints, Last
    <3>4. tx'[n] # None
      BY <3>1, <3>3 DEF Types, TypeOK
    <3>5. QED
      BY <3>4 DEF ActiveIsRecorded
  <2>3. ASSUME NEW r \in Runs, NextMethod(r) PROVE ActiveIsRecorded'
    <3>1. name[r] \in Names /\ tx' = [tx EXCEPT ![name[r]] = at'[r]]
      BY <2>3 DEF NextMethod, Types, Placed, Depositing
    <3>2. Placed' /\ pc'[r] = "method"
      <4>1. Types'
        BY <2>3, TransactionTypes DEF Transaction
      <4>2. QED
        BY <2>3, <4>1 DEF NextMethod, MoveTo, Types, TypeOK
    <3>3. at'[r] \in Checkpoints
      BY <3>2 DEF Placed, Inside
    <3>4. tx'[name[r]] # None
      BY <3>1, <3>3 DEF Types, TypeOK
    <3>5. QED
      BY <3>1, <3>4 DEF ActiveIsRecorded
  <2>4. ASSUME NEW s \in Sessions, Boot(s) PROVE ActiveIsRecorded'
    <3>1. UNCHANGED tx
      BY <2>4 DEF Boot, RestartDeposit, BootBooty, BootPopulated
    <3>2. CASE tx["existing"] # None
      BY <3>1, <3>2, NamesAre DEF ActiveIsRecorded
    <3>3. CASE tx["existing"] = None
      <4>1. UNCHANGED active
        BY <2>4, <3>3 DEF Boot, RestartDeposit, BootBooty, BootPopulated
      <4>2. QED
        BY <3>1, <4>1 DEF ActiveIsRecorded
    <3>4. QED
      BY <3>2, <3>3
  <2>5. ASSUME NEW r \in Runs, Request(r) \/ Call(r) \/ Transaction(r)
        PROVE  ActiveIsRecorded'
    <3>1. CASE Request(r) \/ ChooseFails(r) \/ BuyBooty(r) \/ BootyPopulated(r)
      BY <2>1, <3>1 DEF Request, ChooseFails, BuyBooty, BootyPopulated
    <3>2. CASE \/ ResumeHook(r) \/ HookRejects(r) \/ TakeEffect(r) \/ FinishTransaction(r)
               \/ Populated(r) \/ FinishWaited(r)
      BY <2>1, <3>2
         DEF ResumeHook, HookRejects, TakeEffect, FinishTransaction, Populated, FinishWaited
    <3>3. CASE Complete(r) \/ MethodThrows(r)
      BY <2>1, <3>3 DEF Complete, MethodThrows, CleanUp
    <3>4. QED
      BY <2>2, <2>3, <2>5, <3>1, <3>2, <3>3 DEF Call, Transaction
  <2>6. CASE Crash
    BY <2>1, <2>6 DEF Crash
  <2>7. CASE \/ LockAndUnlock \/ Flush \/ HubSeesChannel \/ PollerPopulates \/ PollerSettles
             \/ UNCHANGED vars
    BY <2>1, <2>7 DEF LockAndUnlock, Flush, HubSeesChannel, PollerPopulates, PollerSettles, vars
  <2>8. QED
    BY <2>4, <2>5, <2>6, <2>7 DEF Next
<1>3. QED
  BY <1>1, <1>2, TypesInit, TypesStep, PTL DEF Spec

------------------------------------------------------------------------------
(* The lock of the ChannelPopulator *)

\* Who can have the lock: a run at its methods, one that refreshes, one that failed; or
\* one that waits for itself, its DepositTransaction having forgotten that it has it.
HolderAt(r) == \/ pc[r] \in {"method", "effect", "populating", "failed"}
               \/ pc[r] = "finishing" /\ waits[r] = r

\* A session's own run begins with the session.
Fresh == \A s \in Sessions : boot[s] = "start" \/ s > session => pc[s] = "idle"
Reached == \A s \in Sessions : boot[s] # "none" => s <= session

LockInv == /\ \A r \in Runs : lock = r => HolderAt(r)
           /\ Fresh
           /\ Reached

LEMMA LockInit == Init => LockInv
<1> SUFFICES ASSUME Init PROVE LockInv
  OBVIOUS
<1>1. \A r \in Runs : pc[r] = "idle" /\ lock # r
  BY DistinctAssumption DEF Init
<1>2. Fresh
  BY <1>1 DEF Fresh, Runs
<1>3. Reached
  BY DEF Init, Reached, Sessions
<1>4. QED
  BY <1>1, <1>2, <1>3 DEF LockInv

\* A step of one run, after which the lock is where it was, or free, or with the poller,
\* or with a run where it can be.
LEMMA LockKept ==
  ASSUME Types, LockInv, NEW r \in Runs, NEW where, pc' = [pc EXCEPT ![r] = where],
         r \in Sessions => pc[r] # "idle",
         UNCHANGED <<session, boot>>,
         \/ lock' = None \/ lock' = Poller
         \/ UNCHANGED lock /\ lock # r /\ \A q \in Runs \ {r} : waits'[q] = waits[q]
         \/ lock' = r /\ HolderAt(r)'
  PROVE  LockInv'
<1>1. pc'[r] = where /\ \A q \in Runs \ {r} : pc'[q] = pc[q]
  BY DEF Types, TypeOK
<1>2. ASSUME NEW q \in Runs, lock' = q PROVE HolderAt(q)'
  BY <1>1, <1>2, DistinctAssumption DEF LockInv, HolderAt
<1>3. Fresh'
  <2> SUFFICES ASSUME NEW s \in Sessions, boot[s] = "start" \/ s > session
               PROVE  pc'[s] = "idle"
    BY DEF Fresh
  <2>1. pc[s] = "idle"
    BY DEF LockInv, Fresh
  <2>2. s \in Runs /\ s # r
    BY <2>1 DEF Runs
  <2>3. QED
    BY <1>1, <2>1, <2>2
<1>4. Reached'
  BY DEF LockInv, Reached
<1>5. QED
  BY <1>2, <1>3, <1>4 DEF LockInv

\* A step of one run.
LEMMA LockRuns ==
  ASSUME Types, LockInv, NEW r \in Runs, Request(r) \/ Call(r) \/ Transaction(r)
  PROVE  LockInv'
<1> USE DistinctAssumption
<1>1. lock = r => HolderAt(r)
  BY DEF LockInv
<1>2. /\ UNCHANGED <<session, boot>>
      /\ r \in Sessions => pc[r] # "idle"
  BY DEF Request, Call, Transaction, Choose, ChooseFails, BuyBooty, BootyPopulated, ResumeHook,
         HookRejects, TakeEffect, NextMethod, FinishTransaction, Populated, FinishWaited,
         Complete, MethodThrows
<1>3. ASSUME NEW s, NEW record, AwaitOrHold(r, s, record), pc[r] \in {"choosing", "hook"}
      PROVE  LockInv'
  <2>1. CASE lock = None
    <3>1. lock' = r /\ pc' = [pc EXCEPT ![r] = "method"]
      BY <1>3, <2>1 DEF AwaitOrHold, MoveTo
    <3>2. HolderAt(r)'
      BY <3>1 DEF HolderAt, Types, TypeOK
    <3>3. QED
      BY <1>2, <3>1, <3>2, LockKept
  <2>2. CASE lock # None
    <3>1. /\ UNCHANGED lock /\ waits' = [waits EXCEPT ![r] = lock]
          /\ pc' = [pc EXCEPT ![r] = "hook"]
      BY <1>3, <2>2 DEF AwaitOrHold, MoveTo
    <3>2. lock # r
      BY <1>1, <1>3 DEF HolderAt
    <3>3. \A q \in Runs \ {r} : waits'[q] = waits[q]
      BY <3>1 DEF Types, TypeOK
    <3>4. QED
      BY <1>2, <3>1, <3>2, <3>3, LockKept
  <2>3. QED
    BY <2>1, <2>2
<1>4. ASSUME NEW where \in {"done", "failed"}, EndCall(r, where), UNCHANGED lock,
             lock = r => where = "failed"
      PROVE  LockInv'
  <2>1. pc' = [pc EXCEPT ![r] = where] /\ waits' = [waits EXCEPT ![r] = None]
    BY <1>4 DEF EndCall, MoveTo
  <2>2. CASE lock = r
    <3>1. HolderAt(r)'
      BY <1>4, <2>1, <2>2 DEF HolderAt, Types, TypeOK
    <3>2. QED
      BY <1>2, <1>4, <2>1, <2>2, <3>1, LockKept
  <2>3. CASE lock # r
    <3>1. \A q \in Runs \ {r} : waits'[q] = waits[q]
      BY <2>1 DEF Types, TypeOK
    <3>2. QED
      BY <1>2, <1>4, <2>1, <2>3, <3>1, LockKept
  <2>4. QED
    BY <2>2, <2>3
<1>5. CASE Request(r)
  <2>1. /\ lock # r /\ UNCHANGED <<lock, waits>>
        /\ \E where : pc' = [pc EXCEPT ![r] = where]
    BY <1>1, <1>5 DEF Request, MoveTo, populator, HolderAt
  <2>2. QED
    BY <1>2, <2>1, LockKept
<1>6. CASE Choose(r)
  BY <1>3, <1>6 DEF Choose
<1>7. CASE ChooseFails(r) \/ BootyPopulated(r)
  <2>1. UNCHANGED lock /\ lock # r
    BY <1>1, <1>7 DEF ChooseFails, BootyPopulated, populator, HolderAt
  <2>2. EndCall(r, "done") \/ EndCall(r, "failed")
    BY <1>7 DEF ChooseFails, BootyPopulated
  <2>3. QED
    BY <1>4, <2>1, <2>2
<1>8. CASE BuyBooty(r)
  <2>1. lock # r
    BY <1>1, <1>8 DEF BuyBooty, HolderAt
  <2>2. CASE UNCHANGED lock /\ (EndCall(r, "done") \/ EndCall(r, "failed"))
    BY <1>4, <2>1, <2>2
  <2>3. CASE lock' = Poller /\ EndCall(r, "done")
    BY <1>2, <2>3, LockKept DEF EndCall, MoveTo
  <2>4. CASE /\ UNCHANGED lock /\ pc' = [pc EXCEPT ![r] = "bootyPopulate"]
             /\ waits' = [waits EXCEPT ![r] = lock]
    <3>1. \A q \in Runs \ {r} : waits'[q] = waits[q]
      BY <2>4 DEF Types, TypeOK
    <3>2. QED
      BY <1>2, <2>1, <2>4, <3>1, LockKept
  <2>5. QED
    BY <1>8, <2>2, <2>3, <2>4 DEF BuyBooty, MoveTo, RefreshInBackground
<1>9. CASE ResumeHook(r)
  <2>1. CASE AwaitOrHold(r, home[r], tx[name[r]])
    BY <1>3, <1>9, <2>1 DEF ResumeHook
  <2>2. CASE /\ lock = None /\ EndCall(r, "failed")
             /\ IF r \in Requests
                  THEN /\ deferred' = [deferred EXCEPT ![home[r]] = None]
                       /\ UNCHANGED lock
                  ELSE /\ deferred' = [deferred EXCEPT ![home[r]] = r]
                       /\ lock' = r
    <3>1. pc' = [pc EXCEPT ![r] = "failed"]
      BY <2>2 DEF EndCall, MoveTo
    <3>2. HolderAt(r)'
      BY <3>1 DEF HolderAt, Types, TypeOK
    <3>3. lock' = None \/ lock' = r
      BY <2>2
    <3>4. QED
      BY <1>2, <3>1, <3>2, <3>3, LockKept
  <2>3. QED
    BY <1>9, <2>1, <2>2 DEF ResumeHook
<1>10. CASE HookRejects(r)
  <2>1. EndCall(r, "failed") /\ (lock' = None \/ UNCHANGED lock)
    BY <1>10 DEF HookRejects
  <2>2. CASE UNCHANGED lock
    BY <1>4, <2>1, <2>2
  <2>3. CASE lock' = None
    BY <1>2, <2>1, <2>3, LockKept DEF EndCall, MoveTo
  <2>4. QED
    BY <2>1, <2>2, <2>3
<1>11. CASE TakeEffect(r) \/ NextMethod(r)
  <2>1. /\ UNCHANGED <<lock, waits>>
        /\ \E where \in {"method", "effect"} : pc' = [pc EXCEPT ![r] = where]
    BY <1>11 DEF TakeEffect, NextMethod, MoveTo, populator
  <2>2. HolderAt(r)'
    BY <2>1 DEF HolderAt, Types, TypeOK
  <2>3. QED
    BY <1>2, <2>1, <2>2, LockKept
<1>12. CASE FinishTransaction(r)
  <2>1. CASE lock' = Poller /\ MoveTo(r, "finished")
    BY <1>2, <2>1, LockKept DEF MoveTo
  <2>2. CASE /\ UNCHANGED lock
             /\ \E h \in Runs : waits' = [waits EXCEPT ![r] = h] /\ MoveTo(r, "populating")
    <3>1. pc'[r] = "populating" /\ pc' = [pc EXCEPT ![r] = "populating"]
      BY <2>2 DEF MoveTo, Types, TypeOK
    <3>2. /\ HolderAt(r)'
          /\ \A q \in Runs \ {r} : waits'[q] = waits[q]
      BY <2>2, <3>1 DEF HolderAt, Types, TypeOK
    <3>3. QED
      BY <1>2, <2>2, <3>1, <3>2, LockKept
  <2>3. CASE UNCHANGED lock /\ waits' = [waits EXCEPT ![r] = lock] /\ MoveTo(r, "finishing")
    <3>1. /\ pc'[r] = "finishing" /\ waits'[r] = lock /\ pc' = [pc EXCEPT ![r] = "finishing"]
          /\ \A q \in Runs \ {r} : waits'[q] = waits[q]
      BY <2>3 DEF MoveTo, Types, TypeOK
    <3>2. lock = r => HolderAt(r)'
      BY <3>1 DEF HolderAt
    <3>3. QED
      BY <1>2, <2>3, <3>1, <3>2, LockKept
  <2>4. home[r] \in Sessions /\ deferred[home[r]] \in Runs \cup {None}
    BY <1>12 DEF FinishTransaction, Types, TypeOK, Placed, Live, Ended
  <2>5. QED
    BY <1>12, <2>1, <2>2, <2>3, <2>4 DEF FinishTransaction, RefreshInBackground
<1>13. CASE Populated(r)
  BY <1>2, <1>13, LockKept DEF Populated, MoveTo
<1>14. CASE FinishWaited(r)
  <2>1. lock # r /\ UNCHANGED <<lock, waits>> /\ pc' = [pc EXCEPT ![r] = "finished"]
    BY <1>1, <1>14 DEF FinishWaited, MoveTo, HolderAt, populator
  <2>2. QED
    BY <1>2, <2>1, LockKept
<1>15. CASE Complete(r)
  <2>1. lock # r /\ UNCHANGED lock
    BY <1>1, <1>15 DEF Complete, HolderAt
  <2>2. CASE EndCall(r, "done")
    BY <1>4, <2>1, <2>2
  <2>3. CASE MoveTo(r, "booty") /\ UNCHANGED waits
    BY <1>2, <2>1, <2>3, LockKept DEF MoveTo
  <2>4. QED
    BY <1>15, <2>2, <2>3 DEF Complete
<1>16. CASE MethodThrows(r)
  BY <1>4, <1>16 DEF MethodThrows
<1>17. QED
  BY <1>5, <1>6, <1>7, <1>8, <1>9, <1>10, <1>11, <1>12, <1>13, <1>14, <1>15, <1>16
     DEF Call, Transaction

\* A step of start(), the only one that a run may begin with.
LEMMA LockBoot ==
  ASSUME Types, LockInv, NEW s \in Sessions, Boot(s)
  PROVE  LockInv'
<1> USE DistinctAssumption
<1>0. s \in Runs /\ UNCHANGED session
  BY DEF Runs, Boot, RestartDeposit, BootBooty, BootPopulated
<1>1. /\ \A q \in Sessions \ {s} : boot'[q] = boot[q]
      /\ boot'[s] \notin {"start", "none"} /\ boot[s] # "none"
  BY DEF Boot, RestartDeposit, BootBooty, BootPopulated, Types, TypeOK
<1>2. Reached'
  BY <1>0, <1>1 DEF LockInv, Reached
<1>3. s <= session
  BY <1>1 DEF LockInv, Reached
<1>4. \A q \in Runs \ {s} : pc'[q] = pc[q]
  BY <1>0 DEF Boot, RestartDeposit, BootBooty, BootPopulated, AwaitOrHold, MoveTo, process,
              Types, TypeOK
<1>5. Fresh'
  <2> SUFFICES ASSUME NEW q \in Sessions, boot'[q] = "start" \/ q > session
               PROVE  pc'[q] = "idle"
    BY <1>0 DEF Fresh
  <2>1. q # s
    BY <1>1, <1>3 DEF Types, TypeOK, Sessions
  <2>2. pc[q] = "idle"
    BY <1>1, <2>1 DEF LockInv, Fresh
  <2>3. QED
    BY <1>4, <2>1, <2>2 DEF Runs
<1>6. ASSUME NEW q \in Runs, lock' = q PROVE HolderAt(q)'
  <2>1. CASE RestartDeposit(s)
    <3>1. pc[s] = "idle"
      BY <2>1 DEF RestartDeposit, LockInv, Fresh
    <3>2. lock # s
      BY <1>0, <3>1 DEF LockInv, HolderAt
    <3>3. CASE q = s
      <4>1. lock = None /\ AwaitOrHold(s, s, tx["existing"])
        BY <1>6, <2>1, <3>2, <3>3 DEF RestartDeposit, AwaitOrHold, populator
      <4>2. pc' = [pc EXCEPT ![s] = "method"]
        BY <4>1 DEF AwaitOrHold, MoveTo
      <4>3. QED
        BY <1>0, <3>3, <4>2 DEF HolderAt, Types, TypeOK
    <3>4. CASE q # s
      <4>1. UNCHANGED lock /\ waits'[q] = waits[q]
        BY <1>0, <1>6, <2>1, <3>4
           DEF RestartDeposit, AwaitOrHold, populator, Types, TypeOK
      <4>2. QED
        BY <1>4, <1>6, <3>4, <4>1 DEF LockInv, HolderAt
    <3>5. QED
      BY <3>3, <3>4
  <2>2. CASE BootBooty(s) \/ BootPopulated(s)
    <3>1. UNCHANGED <<pc, waits, lock>>
      BY <1>6, <2>2 DEF BootBooty, BootPopulated, RefreshInBackground, process, populator
    <3>2. QED
      BY <1>6, <3>1 DEF LockInv, HolderAt
  <2>3. QED
    BY <2>1, <2>2 DEF Boot
<1>7. QED
  BY <1>2, <1>5, <1>6 DEF LockInv

LEMMA LockStep == Types /\ LockInv /\ [Next]_vars => LockInv'
<1> SUFFICES ASSUME Types, LockInv, [Next]_vars PROVE LockInv'
  OBVIOUS
<1> USE DistinctAssumption
<1>1. CASE \E r \in Runs : Request(r) \/ Call(r) \/ Transaction(r)
  BY <1>1, LockRuns
<1>2. CASE \E s \in Sessions : Boot(s)
  BY <1>2, LockBoot
<1>3. CASE Crash
  <2>1. /\ session' = session + 1 /\ lock' = None /\ session \in Sessions
        /\ boot' = [s \in Sessions |-> IF s = session' THEN "start" ELSE "none"]
        /\ pc' = [r \in Runs |-> IF Live(r) THEN "killed" ELSE pc[r]]
    BY <1>3 DEF Crash, NextSession, Types, TypeOK
  <2>2. Reached'
    BY <2>1 DEF Reached, Sessions
  <2>3. Fresh'
    <3> SUFFICES ASSUME NEW s \in Sessions, boot'[s] = "start" \/ s > session'
                 PROVE  pc'[s] = "idle"
      BY DEF Fresh
    <3>1. s > session
      BY <2>1 DEF Sessions
    <3>2. pc[s] = "idle" /\ s \in Runs
      BY <3>1 DEF LockInv, Fresh, Runs
    <3>3. QED
      BY <2>1, <3>2 DEF Live, Ended
  <2>4. QED
    BY <2>1, <2>2, <2>3 DEF LockInv
<1>4. CASE LockAndUnlock
  <2>1. /\ session' = session + 1 /\ session \in Sessions
        /\ boot' = [boot EXCEPT ![session'] = "start"]
        /\ UNCHANGED <<pc, waits, lock>>
    BY <1>4 DEF LockAndUnlock, NextSession, Types, TypeOK, process, populator
  <2>2. Reached'
    BY <2>1 DEF LockInv, Reached, Types, TypeOK, Sessions
  <2>3. Fresh'
    BY <2>1 DEF LockInv, Fresh, Types, TypeOK, Sessions
  <2>4. QED
    BY <2>1, <2>2, <2>3 DEF LockInv, HolderAt
<1>5. CASE \/ Flush \/ HubSeesChannel \/ PollerPopulates \/ PollerSettles \/ UNCHANGED vars
  <2>1. UNCHANGED <<session, boot, pc>> /\ (UNCHANGED <<lock, waits>> \/ lock' \in {None, Poller})
    BY <1>5 DEF Flush, HubSeesChannel, PollerPopulates, PollerSettles, RefreshInBackground, vars,
                process, populator
  <2>2. QED
    BY <2>1 DEF LockInv, HolderAt, Fresh, Reached
<1>6. QED
  BY <1>1, <1>2, <1>3, <1>4, <1>5 DEF Next

\* The lock of the ChannelPopulator is left taken only by a run that failed: whoever
\* completes has freed it, and the death of the worker frees it too
\* (DepositTransaction.ts:262, ChannelPopulator.ts:44).
THEOREM LockLeaks == Spec => []LockLeaksOnlyOnFailure
<1>1. LockInv => LockLeaksOnlyOnFailure
  BY DEF LockInv, HolderAt, LockLeaksOnlyOnFailure, Live, Ended
<1>2. QED
  BY <1>1, TypesInit, TypesStep, LockInit, LockStep, PTL DEF Spec

------------------------------------------------------------------------------
(* The semaphore *)

\* A request that is under way has the semaphore of its session.
HoldsSemaphore == \A r \in Requests : Live(r) => sem[home[r]] = r

LEMMA SemaphoreInit == Init => HoldsSemaphore
  BY DEF Init, HoldsSemaphore, Live, Ended, Runs

\* A step in which run r moves and the semaphore is left alone.
LEMMA SemaphoreKept ==
  ASSUME Types, HoldsSemaphore, NEW r \in Runs, NEW where, pc' = [pc EXCEPT ![r] = where],
         r \in Requests => Live(r), UNCHANGED <<sem, home>>
  PROVE  HoldsSemaphore'
<1> SUFFICES ASSUME NEW q \in Requests, Live(q)' PROVE sem'[home'[q]] = q
  BY DEF HoldsSemaphore
<1>1. Live(q)
  BY DEF Live, Types, TypeOK, Runs
<1>2. QED
  BY <1>1 DEF HoldsSemaphore

\* A call that ends, and with it what it held.
LEMMA SemaphoreLeft ==
  ASSUME Types, HoldsSemaphore, NEW r \in Runs, NEW where \in {"done", "failed"},
         EndCall(r, where), r \in Requests => Live(r), UNCHANGED home
  PROVE  HoldsSemaphore'
<1> SUFFICES ASSUME NEW q \in Requests, Live(q)' PROVE sem'[home'[q]] = q
  BY DEF HoldsSemaphore
<1>1. pc' = [pc EXCEPT ![r] = where] /\ q # r /\ Live(q)
  BY DEF EndCall, MoveTo, Live, Ended, Types, TypeOK, Runs
<1>2. sem[home[q]] = q /\ home[q] \in Sessions
  BY <1>1 DEF HoldsSemaphore, Types, Placed, Runs
<1>3. CASE r \in Requests
  <2>1. sem[home[r]] = r
    BY <1>3 DEF HoldsSemaphore
  <2>2. home[q] # home[r]
    BY <1>1, <1>2, <2>1
  <2>3. QED
    BY <1>2, <1>3, <2>2 DEF EndCall, Types, TypeOK
<1>4. CASE r \notin Requests
  BY <1>2, <1>4 DEF EndCall
<1>5. QED
  BY <1>3, <1>4

LEMMA SemaphoreStep == Types /\ HoldsSemaphore /\ [Next]_vars => HoldsSemaphore'
<1> SUFFICES ASSUME Types, HoldsSemaphore, [Next]_vars PROVE HoldsSemaphore'
  OBVIOUS
<1> USE DistinctAssumption
<1>1. ASSUME NEW r \in Runs, Request(r) PROVE HoldsSemaphore'
  <2>1. r \in Requests /\ home' = [home EXCEPT ![r] = session] /\ session \in Sessions
    BY <1>1 DEF Request, Types, TypeOK
  <2> SUFFICES ASSUME NEW q \in Requests, Live(q)' PROVE sem'[home'[q]] = q
    BY DEF HoldsSemaphore
  <2>2. CASE sem[session] # None
    <3>1. pc' = [pc EXCEPT ![r] = "refused"] /\ UNCHANGED sem
      BY <1>1, <2>2 DEF Request, MoveTo
    <3>2. q # r /\ Live(q)
      BY <3>1 DEF Live, Ended, Types, TypeOK, Runs
    <3>3. QED
      BY <2>1, <3>1, <3>2 DEF HoldsSemaphore, Types, TypeOK, Runs
  <2>3. CASE sem[session] = None
    <3>1. pc' = [pc EXCEPT ![r] = "choosing"] /\ sem' = [sem EXCEPT ![session] = r]
      BY <1>1, <2>3 DEF Request, MoveTo
    <3>2. CASE q = r
      BY <2>1, <3>1, <3>2 DEF Types, TypeOK, Runs
    <3>3. CASE q # r
      <4>1. Live(q) /\ home'[q] = home[q]
        BY <2>1, <3>1, <3>3 DEF Live, Types, TypeOK, Runs
      <4>2. sem[home[q]] = q /\ home[q] \in Sessions /\ q # None
        BY <4>1 DEF HoldsSemaphore, Types, Placed, Runs
      <4>3. home[q] # session
        BY <2>3, <4>2
      <4>4. QED
        BY <2>1, <3>1, <4>1, <4>2, <4>3 DEF Types, TypeOK
    <3>4. QED
      BY <3>2, <3>3
  <2>4. QED
    BY <2>2, <2>3
<1>2. ASSUME NEW r \in Runs, Call(r) \/ Transaction(r) PROVE HoldsSemaphore'
  <2>1. UNCHANGED home /\ Live(r)
    BY <1>2 DEF Call, Transaction, Choose, ChooseFails, BuyBooty, BootyPopulated, ResumeHook,
                HookRejects, TakeEffect, NextMethod, FinishTransaction, Populated, FinishWaited,
                Complete, MethodThrows, Live, Ended
  <2>2. CASE EndCall(r, "done") \/ EndCall(r, "failed")
    BY <2>1, <2>2, SemaphoreLeft
  <2>3. CASE UNCHANGED sem /\ \E where : pc' = [pc EXCEPT ![r] = where]
    BY <2>1, <2>3, SemaphoreKept
  <2>4. CASE Choose(r) \/ ResumeHook(r)
    <3>1. ASSUME NEW s, NEW record, AwaitOrHold(r, s, record)
          PROVE  \E where : pc' = [pc EXCEPT ![r] = where]
      BY <3>1 DEF AwaitOrHold, MoveTo
    <3>2. QED
      BY <2>2, <2>3, <2>4, <3>1 DEF Choose, ResumeHook
  <2>5. CASE Call(r) /\ ~Choose(r)
    BY <2>2, <2>3, <2>5 DEF Call, ChooseFails, BuyBooty, BootyPopulated, MoveTo
  <2>6. CASE TakeEffect(r) \/ NextMethod(r) \/ FinishTransaction(r)
    <3>1. UNCHANGED sem
      BY <2>6 DEF TakeEffect, NextMethod, FinishTransaction
    <3>2. \E where : MoveTo(r, where)
      BY <2>6 DEF TakeEffect, NextMethod, FinishTransaction
    <3>3. QED
      BY <2>3, <3>1, <3>2 DEF MoveTo
  <2>7. CASE HookRejects(r) \/ Populated(r) \/ FinishWaited(r) \/ Complete(r) \/ MethodThrows(r)
    BY <2>2, <2>3, <2>7 DEF HookRejects, Populated, FinishWaited, Complete, MethodThrows, MoveTo
  <2>8. QED
    BY <1>2, <2>4, <2>5, <2>6, <2>7 DEF Transaction
<1>3. ASSUME NEW s \in Sessions, Boot(s) PROVE HoldsSemaphore'
  <2>1. UNCHANGED sem
    BY <1>3 DEF Boot, RestartDeposit, BootBooty, BootPopulated
  <2>2. \A q \in Requests : q # s /\ q \in Runs
    BY DEF Runs
  <2>3. \A q \in Requests : pc'[q] = pc[q] /\ home'[q] = home[q]
    BY <1>3, <2>2 DEF Boot, RestartDeposit, BootBooty, BootPopulated, AwaitOrHold, MoveTo,
                      process, Types, TypeOK
  <2>4. QED
    BY <2>1, <2>3 DEF HoldsSemaphore, Live
<1>4. CASE Crash
  <2>1. \A q \in Requests : ~Live(q)'
    BY <1>4 DEF Crash, Live, Ended, Runs
  <2>2. QED
    BY <2>1 DEF HoldsSemaphore
<1>5. CASE \/ LockAndUnlock \/ Flush \/ HubSeesChannel \/ PollerPopulates \/ PollerSettles
           \/ UNCHANGED vars
  <2>1. UNCHANGED <<pc, home, sem>>
    BY <1>5 DEF LockAndUnlock, Flush, HubSeesChannel, PollerPopulates, PollerSettles, vars, process
  <2>2. QED
    BY <2>1 DEF HoldsSemaphore, Live
<1>6. QED
  BY <1>1, <1>2, <1>3, <1>4, <1>5 DEF Next

\* The requests of one session never overlap, crashes and unlocks notwithstanding: who
\* finds the semaphore taken is refused (MicropaymentsController.ts:98).
THEOREM RequestsApart ==
  Spec => [](\A r, q \in Requests : Live(r) /\ Live(q) /\ home[r] = home[q] => r = q)
<1>1. HoldsSemaphore =>
        \A r, q \in Requests : Live(r) /\ Live(q) /\ home[r] = home[q] => r = q
  BY DEF HoldsSemaphore
<1>2. QED
  BY <1>1, TypesInit, TypesStep, SemaphoreInit, SemaphoreStep, PTL DEF Spec

\* As long as no session follows the first, nothing is restarted, and deposits do not
\* overlap at all; deposits_overlap shows that they do from the second session on.
THEOREM Apart ==
  ASSUME MaxSessions = 1
  PROVE  Spec => []OneDepositAtATime
<1> DEFINE Sole == pc[1] = "idle" /\ boot[1] = "ready"
<1>0. Sessions = {1}
  BY DEF Sessions
<1>1. Init => Sole
  BY <1>0 DEF Init, Runs
<1>2. Types /\ Sole /\ [Next]_vars => Sole'
  <2> SUFFICES ASSUME Types, Sole, [Next]_vars PROVE Sole'
    OBVIOUS
  <2> USE DistinctAssumption
  <2>1. 1 \in Runs /\ 1 \notin Requests /\ session = 1
    BY <1>0 DEF Runs, Types, TypeOK
  <2>2. ASSUME NEW r \in Runs, Request(r) \/ Call(r) \/ Transaction(r) PROVE Sole'
    <3>1. r # 1 /\ UNCHANGED boot
      BY <2>1, <2>2 DEF Request, Call, Transaction, Choose, ChooseFails, BuyBooty, BootyPopulated,
         ResumeHook, HookRejects, TakeEffect, NextMethod, FinishTransaction, Populated,
         FinishWaited, Complete, MethodThrows
    <3>2. \E where : pc' = [pc EXCEPT ![r] = where]
      <4>1. ASSUME NEW s, NEW record, AwaitOrHold(r, s, record)
            PROVE  \E where : pc' = [pc EXCEPT ![r] = where]
        BY <4>1 DEF AwaitOrHold, MoveTo
      <4>2. CASE Request(r) \/ Call(r)
        BY <4>1, <4>2 DEF Request, Call, Choose, ChooseFails, BuyBooty, BootyPopulated, EndCall,
                          MoveTo
      <4>3. CASE Transaction(r)
        BY <4>1, <4>3 DEF Transaction, ResumeHook, HookRejects, TakeEffect, NextMethod,
           FinishTransaction, Populated, FinishWaited, Complete, MethodThrows, EndCall, MoveTo
      <4>4. QED
        BY <2>2, <4>2, <4>3
    <3>3. QED
      BY <2>1, <3>1, <3>2 DEF Types, TypeOK
  <2>3. ASSUME NEW s \in Sessions PROVE ~Boot(s)
    BY <1>0 DEF Boot, RestartDeposit, BootBooty, BootPopulated
  <2>4. ~Crash /\ ~LockAndUnlock
    BY <2>1 DEF Crash, LockAndUnlock, NextSession
  <2>5. CASE \/ Flush \/ HubSeesChannel \/ PollerPopulates \/ PollerSettles \/ UNCHANGED vars
    BY <2>5 DEF Flush, HubSeesChannel, PollerPopulates, PollerSettles, vars, process
  <2>6. QED
    BY <2>2, <2>3, <2>4, <2>5 DEF Next
<1>3. Types /\ HoldsSemaphore /\ Sole => OneDepositAtATime
  <2> SUFFICES ASSUME Types, HoldsSemaphore, Sole, NEW r \in Runs, NEW q \in Runs,
                      Depositing(r), Depositing(q)
               PROVE  r = q
    BY DEF OneDepositAtATime
  <2>1. r \in Requests /\ q \in Requests
    BY <1>0 DEF Runs, Depositing
  <2>2. Live(r) /\ Live(q)
    BY DEF Depositing, Live, Ended
  <2>3. home[r] = 1 /\ home[q] = 1
    BY <1>0, <2>2 DEF Types, Placed
  <2>4. QED
    BY <2>1, <2>2, <2>3 DEF HoldsSemaphore
<1>4. QED
  BY <1>1, <1>2, <1>3, TypesInit, TypesStep, SemaphoreInit, SemaphoreStep, PTL DEF Spec
------------------------------------------------------------------------------
(* A run pays for one transaction of one request, and for no step of it twice *)

\* Where a run has made nothing take effect yet, and where it may have.
Before == {"idle", "refused", "choosing", "hook"}
Working == {"method", "effect", "finishing", "populating", "finished", "booty", "bootyPopulate"}

\* Run q, at work, has method m behind it.
Past(q, m) == \E i \in 1 .. at[q].index : /\ i < at[q].index \/ pc[q] = "effect"
                                          /\ Methods[name[q]][i] = m

PaidNothing(q) == \A p \in Requests, m \in Spending : paid[q][p][m] = 0

PaidForPast(q) == \A p \in Requests, m \in Spending :
                    /\ paid[q][p][m] <= 1
                    /\ paid[q][p][m] > 0 => p = at[q].job /\ Past(q, m)

ServesOne(q) == \E r \in Requests \cup {None}, n \in Names : Serves(q, r, n)

Pays(q) == /\ pc[q] \in Before => PaidNothing(q)
           /\ pc[q] \in Working => /\ name[q] \in Names
                                   /\ at[q] \in Checkpoints
                                   /\ PaidForPast(q)
           /\ ServesOne(q)

Paying == \A q \in Runs : Pays(q)

\* No method that moves funds occurs twice in a transaction.
LEMMA MethodsDiffer ==
  ASSUME NEW n \in Names, NEW i \in 1 .. Last, NEW j \in 1 .. Last,
         Methods[n][i] \in Spending, Methods[n][j] = Methods[n][i]
  PROVE  i = j
<1>1. n \in {"new", "existing"} /\ i \in {1, 2, 3, 4, 5} /\ j \in {1, 2, 3, 4, 5}
  BY NamesAre DEF Last
<1>2. CASE n = "new"
  <2>1. Methods[n] = <<"maybeErc20Approve", "openChannel", "awaitChainsaw",
                       "maybeRequestDeposit", "finishTransaction">>
    BY <1>2 DEF Methods
  <2>2. QED
    BY <1>1, <2>1 DEF Spending
<1>3. CASE n = "existing"
  <2>1. Methods[n] = <<"maybeErc20Approve", "doEthDeposit", "doTokenDeposit",
                       "awaitChainsawBalanceChange", "finishTransaction">>
    BY <1>3 DEF Methods
  <2>2. QED
    BY <1>1, <2>1 DEF Spending
<1>4. QED
  BY <1>1, <1>2, <1>3

\* A step of one run leaves the others where they are.
LEMMA OthersStay ==
  ASSUME Types, NEW r \in Runs, Request(r) \/ Call(r) \/ Transaction(r), NEW q \in Runs \ {r}
  PROVE  pc'[q] = pc[q] /\ at'[q] = at[q] /\ name'[q] = name[q]
<1>1. r \in Runs /\ q \in Runs /\ q # r
      /\ pc = [p \in Runs |-> pc[p]] /\ at = [p \in Runs |-> at[p]] 
      /\ name = [p \in Runs |-> name[p]]
  BY DEF Types, TypeOK
<1>2. ASSUME NEW s, NEW record, AwaitOrHold(r, s, record)
      PROVE  pc'[q] = pc[q] /\ at'[q] = at[q]
  BY <1>1, <1>2 DEF AwaitOrHold, MoveTo
<1>3. ASSUME NEW where, EndCall(r, where)
      PROVE  pc'[q] = pc[q] /\ at'[q] = at[q] /\ name'[q] = name[q]
  BY <1>1, <1>3 DEF EndCall, MoveTo
<1>4. CASE Request(r)
  BY <1>1, <1>4 DEF Request, MoveTo
<1>5. CASE Choose(r)
  BY <1>1, <1>2, <1>5 DEF Choose
<1>6. CASE ChooseFails(r) \/ BootyPopulated(r)
  BY <1>3, <1>6 DEF ChooseFails, BootyPopulated
<1>7. CASE BuyBooty(r)
  BY <1>1, <1>3, <1>7 DEF BuyBooty, MoveTo
<1>8. CASE ResumeHook(r)
  <2>1. CASE EndCall(r, "failed")
    BY <1>3, <2>1
  <2>2. CASE AwaitOrHold(r, home[r], tx[name[r]]) /\ UNCHANGED name
    BY <1>2, <2>2
  <2>3. QED
    BY <1>8, <2>1, <2>2 DEF ResumeHook
<1>9. CASE HookRejects(r)
  BY <1>3, <1>9 DEF HookRejects
<1>10. CASE TakeEffect(r) \/ FinishTransaction(r) \/ Populated(r) \/ FinishWaited(r)
  <2>1. (\E where : pc' = [pc EXCEPT ![r] = where]) /\ UNCHANGED <<at, name>>
    BY <1>10 DEF TakeEffect, FinishTransaction, Populated, FinishWaited, MoveTo
  <2>2. QED
    BY <1>1, <2>1
<1>11. CASE NextMethod(r)
  BY <1>1, <1>11 DEF NextMethod, MoveTo
<1>12. CASE Complete(r) \/ MethodThrows(r)
  <2>1. \/ EndCall(r, "done") \/ EndCall(r, "failed")
        \/ pc' = [pc EXCEPT ![r] = "booty"] /\ UNCHANGED <<at, name>>
    BY <1>12 DEF Complete, MethodThrows, MoveTo
  <2>2. QED
    BY <1>1, <1>3, <2>1
<1>13. QED
  BY <1>4, <1>5, <1>6, <1>7, <1>8, <1>9, <1>10, <1>11, <1>12 DEF Call, Transaction

\* A run that stays where it is, and pays nothing, pays as before.
LEMMA PaysStays ==
  ASSUME NEW q \in Runs, Pays(q), pc'[q] = pc[q], at'[q] = at[q], name'[q] = name[q],
         paid'[q] = paid[q]
  PROVE  Pays(q)'
<1>1. PaidNothing(q)' <=> PaidNothing(q)
  BY DEF PaidNothing
<1>2. \A m \in Spending : Past(q, m)' <=> Past(q, m)
  BY DEF Past
<1>3. PaidForPast(q)' <=> PaidForPast(q)
  BY <1>2 DEF PaidForPast
<1>4. ServesOne(q)' <=> ServesOne(q)
  BY DEF ServesOne, Serves
<1>5. QED
  BY <1>1, <1>3, <1>4 DEF Pays

\* A run that pays nothing, and is not at work after its step, unless it begins to be.
LEMMA PaysNothing ==
  ASSUME NEW q \in Runs, Types', Pays(q), paid'[q] = paid[q],
         \/ pc'[q] \notin Before \cup Working
         \/ pc[q] \in Before /\ pc'[q] \in Before \cup {"method"}
  PROVE  Pays(q)'
<1>1. ServesOne(q)'
  BY DEF Pays, ServesOne, Serves
<1>2. CASE pc'[q] \notin Before \cup Working
  BY <1>1, <1>2 DEF Pays
<1>3. CASE pc[q] \in Before /\ pc'[q] \in Before
  <2>1. PaidNothing(q)'
    BY <1>3 DEF Pays, PaidNothing
  <2>2. pc'[q] \notin Working
    BY <1>3 DEF Before, Working
  <2>3. QED
    BY <1>1, <2>1, <2>2 DEF Pays
<1>4. CASE pc[q] \in Before /\ pc'[q] = "method"
  <2>1. PaidForPast(q)'
    BY <1>4 DEF Pays, PaidNothing, PaidForPast
  <2>2. name'[q] \in Names /\ at'[q] \in Checkpoints
    BY <1>4 DEF Types, Placed, Depositing, Inside
  <2>3. pc'[q] \notin Before
    BY <1>4 DEF Before
  <2>4. QED
    BY <1>1, <2>1, <2>2, <2>3 DEF Pays
<1>5. QED
  BY <1>2, <1>3, <1>4

\* A run at work that goes on with its transaction and pays nothing.
LEMMA PaysOn ==
  ASSUME NEW q \in Runs, Types, Types', Pays(q), paid'[q] = paid[q], name'[q] = name[q],
         pc[q] \in Working, pc'[q] \in Working \ {"effect"},
         \/ at'[q] = at[q] /\ pc[q] # "effect"
         \/ at' = [at EXCEPT ![q].index = @ + 1] /\ pc'[q] = "method"
  PROVE  Pays(q)'
<1>1. name[q] \in Names /\ at[q] \in Checkpoints /\ PaidForPast(q) /\ pc'[q] \notin Before
  BY DEF Pays, Working, Before
<1>2. at[q].index \in Nat /\ q \in Runs /\ at = [p \in Runs |-> at[p]]
  BY <1>1 DEF Checkpoints, Last, Types, TypeOK
<1>3. /\ at'[q].job = at[q].job
      /\ \/ at'[q].index = at[q].index /\ pc[q] # "effect"
         \/ at'[q].index = at[q].index + 1
  BY <1>1, <1>2 DEF Checkpoints
<1>4. ASSUME NEW m \in Spending, Past(q, m) PROVE Past(q, m)'
  <2>1. PICK i \in 1 .. at[q].index : /\ i < at[q].index \/ pc[q] = "effect"
                                      /\ Methods[name[q]][i] = m
    BY <1>4 DEF Past
  <2>2. i \in 1 .. at'[q].index /\ i < at'[q].index
    BY <1>2, <1>3, <2>1
  <2>3. QED
    BY <2>1, <2>2 DEF Past
<1>5. PaidForPast(q)'
  BY <1>1, <1>3, <1>4 DEF PaidForPast
<1>6. at'[q] \in Checkpoints
  <2>1. CASE at'[q] = at[q]
    BY <1>1, <2>1
  <2>2. CASE pc'[q] = "method"
    BY <2>2 DEF Types, Placed, Inside
  <2>3. QED
    BY <2>1, <2>2
<1>7. ServesOne(q)'
  BY DEF Pays, ServesOne, Serves
<1>8. QED
  BY <1>1, <1>5, <1>6, <1>7 DEF Pays

\* A method takes effect: it was not behind the run, and now it is.
LEMMA PaysNow ==
  ASSUME NEW q \in Runs, Types, Types', Pays(q), TakeEffect(q)
  PROVE  Pays(q)'
<1> USE DistinctAssumption
<1>1. /\ pc[q] = "method" /\ Method(q) \in Spending /\ pc'[q] = "effect"
      /\ at' = at /\ name' = name
      /\ paid' = [paid EXCEPT ![q][at[q].job][Method(q)] = @ + 1]
  BY DEF TakeEffect, MoveTo, Types, TypeOK
<1>15. PICK k \in Spending : k = Method(q)
  BY <1>1
<1>2. at[q] \in Checkpoints /\ name[q] \in Names /\ at[q].job \in Requests
  BY <1>1 DEF Types, Placed, Inside, Depositing, Checkpoints
<1>3. at[q].index \in 1 .. Last
  BY <1>2 DEF Checkpoints
<1>4. paid \in [Runs -> [Requests -> [Spending -> Nat]]]
  BY DEF Types, TypeOK, Counts
<1>5. /\ paid'[q][at[q].job][k] = paid[q][at[q].job][k] + 1
      /\ \A p \in Requests, m \in Spending :
           ~(p = at[q].job /\ m = k) => paid'[q][p][m] = paid[q][p][m]
  <2>1. paid'[q] = [paid[q] EXCEPT ![at[q].job][Method(q)] = @ + 1]
    BY <1>1, <1>4
  <2>2. paid[q] \in [Requests -> [Spending -> Nat]]
    BY <1>4
  <2>3. QED
    BY <1>1, <1>2, <1>15, <2>1, <2>2
<1>6. PaidForPast(q)
  BY <1>1 DEF Pays, Working
<1>7. ~Past(q, k)
  <2>1. SUFFICES ASSUME NEW i \in 1 .. at[q].index, i < at[q].index,
                        Methods[name[q]][i] = k
                 PROVE  FALSE
    BY <1>1 DEF Past
  <2>2. i \in 1 .. Last
    BY <1>3 DEF Last
  <2>3. QED
    BY <1>1, <1>2, <1>3, <2>1, <2>2, <1>15, MethodsDiffer DEF Method
<1>8. paid[q][at[q].job][k] = 0
  <2>1. paid[q][at[q].job][k] \in Nat
    BY <1>1, <1>2, <1>4
  <2>2. ~(paid[q][at[q].job][k] > 0)
    BY <1>1, <1>2, <1>6, <1>7 DEF PaidForPast
  <2>3. QED
    BY <2>1, <2>2
<1>9. Past(q, k)'
  <2>1. at[q].index \in 1 .. at[q].index
    BY <1>3 DEF Last
  <2>2. QED
    BY <1>1, <1>15, <2>1 DEF Past, Method
<1>10. ASSUME NEW m \in Spending, Past(q, m) PROVE Past(q, m)'
  BY <1>1, <1>10 DEF Past
<1>11. PaidForPast(q)'
  <2>1. SUFFICES ASSUME NEW p \in Requests, NEW m \in Spending
                 PROVE  /\ paid'[q][p][m] <= 1
                        /\ paid'[q][p][m] > 0 => p = at'[q].job /\ Past(q, m)'
    BY DEF PaidForPast
  <2>2. CASE p = at[q].job /\ m = k
    <3>1. paid'[q][p][m] = 1
      BY <1>5, <1>8, <2>2
    <3>2. QED
      BY <1>1, <1>9, <2>2, <3>1
  <2>3. CASE ~(p = at[q].job /\ m = k)
    <3>1. paid'[q][p][m] = paid[q][p][m]
      BY <1>5, <2>3
    <3>2. QED
      BY <1>1, <1>6, <1>10, <3>1 DEF PaidForPast
  <2>4. QED
    BY <2>2, <2>3
<1>12. Serves(q, at[q].job, name[q])'
  <2>1. SUFFICES ASSUME NEW p \in Requests, NEW m \in Spending, paid'[q][p][m] > 0
                 PROVE  p = at[q].job /\ \E i \in 1 .. Last : Methods[name[q]][i] = m
    BY <1>1, <1>11 DEF PaidForPast, Serves
  <2>2. p = at[q].job /\ Past(q, m)'
    BY <1>1, <1>11, <2>1 DEF PaidForPast
  <2>3. PICK i \in 1 .. at[q].index : Methods[name[q]][i] = m
    BY <1>1, <2>2 DEF Past
  <2>4. i \in 1 .. Last
    BY <1>3, <2>3 DEF Last
  <2>5. QED
    BY <2>2, <2>3, <2>4
<1>13. ServesOne(q)'
  BY <1>1, <1>2, <1>12 DEF ServesOne, Serves
<1>14. QED
  BY <1>1, <1>2, <1>11, <1>13 DEF Pays, Before

\* Only a method that takes effect changes what a run has paid, and only that run's.
LEMMA PaidStays ==
  ASSUME Types, [Next]_vars, NEW q \in Runs, ~TakeEffect(q)
  PROVE  paid'[q] = paid[q]
<1>1. ASSUME NEW r \in Runs, TakeEffect(r) PROVE paid'[q] = paid[q]
  <2>1. r # q /\ paid = [p \in Runs |-> paid[p]]
    BY <1>1 DEF Types, TypeOK
  <2>2. QED
    BY <1>1, <2>1 DEF TakeEffect
<1>2. ASSUME NEW r \in Runs, Request(r) \/ Call(r) \/ Transaction(r), ~TakeEffect(r)
      PROVE  paid' = paid
  BY <1>2 DEF Request, Call, Transaction, Choose, ChooseFails, BuyBooty, BootyPopulated,
     ResumeHook, HookRejects, NextMethod, FinishTransaction, Populated, FinishWaited, Complete,
     MethodThrows
<1>3. CASE \/ \E s \in Sessions : Boot(s)
           \/ Crash \/ LockAndUnlock \/ Flush \/ HubSeesChannel \/ PollerPopulates
           \/ PollerSettles \/ UNCHANGED vars
  BY <1>3 DEF Boot, RestartDeposit, BootBooty, BootPopulated, Crash, LockAndUnlock, Flush,
     HubSeesChannel, PollerPopulates, PollerSettles, vars
<1>4. QED
  BY <1>1, <1>2, <1>3 DEF Next, Transaction

\* The step of the run itself.
LEMMA PaysOwnStep ==
  ASSUME NEW q \in Runs, Types, Types', [Next]_vars, Pays(q),
         Request(q) \/ Call(q) \/ Transaction(q)
  PROVE  Pays(q)'
<1> USE DistinctAssumption
<1>0. CASE TakeEffect(q)
  BY <1>0, PaysNow
<1> SUFFICES ASSUME ~TakeEffect(q) PROVE Pays(q)'
  BY <1>0
<1>1. paid'[q] = paid[q]
  BY PaidStays
<1>2. q \in Runs /\ pc = [p \in Runs |-> pc[p]]
  BY DEF Types, TypeOK
<1>3. ASSUME NEW where \in {"done", "failed"}, EndCall(q, where) PROVE Pays(q)'
  <2>1. pc'[q] = where
    BY <1>2, <1>3 DEF EndCall, MoveTo
  <2>2. pc'[q] \notin Before \cup Working
    BY <2>1 DEF Before, Working
  <2>3. QED
    BY <1>1, <2>2, PaysNothing
<1>4. ASSUME NEW s, NEW record, AwaitOrHold(q, s, record), pc[q] \in Before PROVE Pays(q)'
  <2>1. pc'[q] \in {"hook", "method"}
    BY <1>2, <1>4 DEF AwaitOrHold, MoveTo
  <2>2. pc'[q] \in Before \cup {"method"}
    BY <2>1 DEF Before
  <2>3. QED
    BY <1>1, <1>4, <2>2, PaysNothing
<1>5. ASSUME NEW where \in Working \ {"effect"}, pc' = [pc EXCEPT ![q] = where],
             pc[q] \in Working \ {"effect"}, UNCHANGED <<at, name>>
      PROVE  Pays(q)'
  BY <1>1, <1>2, <1>5, PaysOn
<1>6. CASE Request(q)
  <2>1. pc[q] = "idle" /\ pc'[q] \in {"refused", "choosing"}
    BY <1>2, <1>6 DEF Request, MoveTo
  <2>2. QED
    BY <1>1, <2>1, PaysNothing DEF Before
<1>7. CASE Choose(q)
  BY <1>4, <1>7 DEF Choose, Before
<1>8. CASE ChooseFails(q) \/ BootyPopulated(q) \/ HookRejects(q)
  BY <1>3, <1>8 DEF ChooseFails, BootyPopulated, HookRejects
<1>9. CASE BuyBooty(q)
  <2>1. \/ EndCall(q, "done") \/ EndCall(q, "failed")
        \/ pc[q] = "booty" /\ pc' = [pc EXCEPT ![q] = "bootyPopulate"] /\ UNCHANGED <<at, name>>
    BY <1>9 DEF BuyBooty, MoveTo
  <2>2. QED
    BY <1>3, <1>5, <2>1 DEF Working
<1>10. CASE ResumeHook(q)
  <2>1. \/ EndCall(q, "failed")
        \/ AwaitOrHold(q, home[q], tx[name[q]]) /\ pc[q] = "hook"
    BY <1>10 DEF ResumeHook
  <2>2. QED
    BY <1>3, <1>4, <2>1 DEF Before
<1>11. CASE NextMethod(q)
  <2>1. /\ pc[q] \in {"method", "effect"} /\ pc'[q] = "method" /\ name'[q] = name[q]
        /\ at' = [at EXCEPT ![q].index = @ + 1]
    BY <1>2, <1>11 DEF NextMethod, MoveTo
  <2>2. QED
    BY <1>1, <2>1, PaysOn DEF Working
<1>12. CASE FinishTransaction(q) \/ Populated(q) \/ FinishWaited(q)
  <2>1. /\ pc[q] \in {"method", "populating", "finishing"} /\ UNCHANGED <<at, name>>
        /\ \E where \in {"populating", "finishing", "finished"} : pc' = [pc EXCEPT ![q] = where]
    BY <1>12 DEF FinishTransaction, Populated, FinishWaited, MoveTo
  <2>2. QED
    BY <1>5, <2>1 DEF Working
<1>13. CASE Complete(q) \/ MethodThrows(q)
  <2>1. \/ EndCall(q, "done") \/ EndCall(q, "failed")
        \/ /\ pc[q] = "finished" /\ pc' = [pc EXCEPT ![q] = "booty"]
           /\ UNCHANGED <<at, name>>
    BY <1>13 DEF Complete, MethodThrows, MoveTo
  <2>2. QED
    BY <1>3, <1>5, <2>1 DEF Working
<1>14. QED
  BY <1>6, <1>7, <1>8, <1>9, <1>10, <1>11, <1>12, <1>13 DEF Call, Transaction

LEMMA PayingStep ==
  ASSUME Types, Types', Fresh, Paying, [Next]_vars
  PROVE  Paying'
<1> USE DistinctAssumption
<1> SUFFICES ASSUME NEW q \in Runs PROVE Pays(q)'
  BY DEF Paying
<1>1. Pays(q) /\ pc = [p \in Runs |-> pc[p]] /\ q \in Runs
  BY DEF Paying, Types, TypeOK
<1>2. CASE Request(q) \/ Call(q) \/ Transaction(q)
  BY <1>1, <1>2, PaysOwnStep
<1> SUFFICES ASSUME ~(Request(q) \/ Call(q) \/ Transaction(q)) PROVE Pays(q)'
  BY <1>2
<1>3. paid'[q] = paid[q]
  BY PaidStays DEF Transaction
<1>4. ASSUME NEW r \in Runs, Request(r) \/ Call(r) \/ Transaction(r) PROVE Pays(q)'
  BY <1>1, <1>3, <1>4, OthersStay, PaysStays
<1>5. ASSUME NEW s \in Sessions, RestartDeposit(s) PROVE Pays(q)'
  <2>1. boot[s] = "start" /\ s \in Runs
    BY <1>5 DEF RestartDeposit, Runs
  <2>2. ASSUME NEW record, AwaitOrHold(s, s, record)
        PROVE  /\ s # q => pc'[q] = pc[q] /\ at'[q] = at[q]
               /\ s = q => pc'[q] \in {"hook", "method"}
    <3>1. at = [p \in Runs |-> at[p]]
      BY DEF Types, TypeOK
    <3>2. QED
      BY <1>1, <2>1, <2>2, <3>1 DEF AwaitOrHold, MoveTo
  <2>3. CASE s = q
    <3>1. pc[q] = "idle"
      BY <2>1, <2>3 DEF Fresh
    <3>2. pc'[q] \in {"idle", "hook", "method"}
      BY <1>1, <1>5, <2>2, <2>3, <3>1 DEF RestartDeposit, MoveTo
    <3>3. QED
      BY <1>1, <1>3, <3>1, <3>2, PaysNothing DEF Before
  <2>4. CASE s # q
    <3>1. name = [p \in Runs |-> name[p]] /\ at = [p \in Runs |-> at[p]]
      BY DEF Types, TypeOK
    <3>2. pc'[q] = pc[q] /\ at'[q] = at[q] /\ name'[q] = name[q]
      BY <1>1, <1>5, <2>2, <2>4, <3>1 DEF RestartDeposit, MoveTo
    <3>3. QED
      BY <1>1, <1>3, <3>2, PaysStays
  <2>5. QED
    BY <2>3, <2>4
<1>6. ASSUME NEW s \in Sessions, BootBooty(s) \/ BootPopulated(s) PROVE Pays(q)'
  <2>1. UNCHANGED <<pc, at, name>>
    BY <1>6 DEF BootBooty, BootPopulated, process
  <2>2. QED
    BY <1>1, <1>3, <2>1, PaysStays
<1>7. CASE Crash
  <2>1. pc'[q] = IF Live(q) THEN "killed" ELSE pc[q]
    BY <1>7 DEF Crash
  <2>2. \/ pc'[q] \notin Before \cup Working
        \/ pc[q] \in Before /\ pc'[q] \in Before
    BY <2>1 DEF Live, Ended, Before, Working
  <2>3. QED
    BY <1>1, <1>3, <2>2, PaysNothing
<1>8. CASE LockAndUnlock \/ Flush \/ HubSeesChannel \/ PollerPopulates \/ PollerSettles
           \/ UNCHANGED vars
  <2>1. UNCHANGED <<pc, at, name>>
    BY <1>8 DEF LockAndUnlock, Flush, HubSeesChannel, PollerPopulates, PollerSettles, vars,
       process
  <2>2. QED
    BY <1>1, <1>3, <2>1, PaysStays
<1>9. QED
  BY <1>4, <1>5, <1>6, <1>7, <1>8 DEF Next, Boot

\* Where sessions overlap, a run may serve the request of another one, and a request may
\* be served by several runs; but whatever a run pays for belongs to one transaction of
\* one request, and it pays for no step of it twice, whatever crashes and unlocks there are.
THEOREM OncePerRunHolds == Spec => []RepeatsPerRun
<1>1. Init => Paying
  <2> SUFFICES ASSUME Init, NEW q \in Runs PROVE Pays(q)
    BY DEF Paying
  <2>1. pc[q] = "idle" /\ PaidNothing(q)
    BY DEF Init, PaidNothing
  <2>2. "new" \in Names
    BY NamesAre
  <2>3. Serves(q, None, "new")
    BY <2>1 DEF PaidNothing, Serves
  <2>4. QED
    BY <2>1, <2>2, <2>3 DEF Pays, ServesOne, Working
<1>2. Types /\ Types' /\ LockInv /\ Paying /\ [Next]_vars => Paying'
  BY PayingStep DEF LockInv
<1>3. Paying => RepeatsPerRun
  BY DEF Paying, Pays, ServesOne, RepeatsPerRun
<1>4. QED
  BY <1>1, <1>2, <1>3, TypesInit, TypesStep, LockInit, LockStep, PTL DEF Spec

------------------------------------------------------------------------------
(* With crashes alone, funds move for a request once per session *)

Restarting == boot[session] = "start"

\* The restarted deposit shares its transaction, and so the record, with the requests.
Shares == Depositing(session) /\ name[session] = "existing"

\* q may still move funds.
Busy(q) == pc[q] \in {"method", "effect"} /\ at[q].index < Last

Unserved == {"idle", "refused", "choosing"}

\* Method m did not take effect for j in this session, nor twice in an earlier one.
Due(j, m) == spent[j][m] <= session - home[j]
DueFrom(j, n, i) == \A k \in 1 .. Last :
                      k >= i /\ Methods[n][k] \in Spending => Due(j, Methods[n][k])

\* One session at a time: its calls follow its start().
OneSession ==
  /\ \A q \in Runs : Live(q) => home[q] = session
  /\ \A q \in Runs : home[q] # None => home[q] <= session
  /\ \A s \in Sessions : Live(s) => s = session
  /\ \A s \in Sessions : s # session => boot[s] = "none"
  /\ Restarting => \A q \in Runs : ~Live(q)
  /\ \A r \in Requests : Live(r) => boot[session] = "ready"

\* A step of a run, without overlapping sessions.
LEMMA RunStays ==
  ASSUME Types, NEW r \in Runs, Request(r) \/ Call(r) \/ Transaction(r)
  PROVE  /\ UNCHANGED <<session, boot, disk>>
         /\ \A q \in Runs \ {r} : /\ pc'[q] = pc[q] /\ at'[q] = at[q]
                                  /\ name'[q] = name[q] /\ home'[q] = home[q]
         /\ \/ Live(r) /\ UNCHANGED home
            \/ Request(r)
<1>1. \A q \in Runs \ {r} : pc'[q] = pc[q] /\ at'[q] = at[q] /\ name'[q] = name[q]
  BY OthersStay
<1>2. CASE Request(r)
  <2>1. UNCHANGED <<session, boot, disk>> /\ home' = [home EXCEPT ![r] = session]
    BY <1>2 DEF Request
  <2>2. \A q \in Runs \ {r} : home'[q] = home[q]
    BY <2>1 DEF Types, TypeOK
  <2>3. QED
    BY <1>1, <1>2, <2>1, <2>2
<1>3. CASE Call(r) \/ Transaction(r)
  <2>1. UNCHANGED <<session, boot, disk, home>> /\ Live(r)
    BY <1>3 DEF Call, Transaction, Choose, ChooseFails, BuyBooty, BootyPopulated, ResumeHook,
       HookRejects, TakeEffect, NextMethod, FinishTransaction, Populated, FinishWaited,
       Complete, MethodThrows, Live, Ended
  <2>2. QED
    BY <1>1, <2>1
<1>4. QED
  BY <1>2, <1>3

\* A step of a start().
LEMMA BootStays ==
  ASSUME Types, OneSession, NEW s \in Sessions, Boot(s)
  PROVE  /\ s = session
         /\ UNCHANGED <<session, sem, tx, disk, hubChannel, spent>>
         /\ boot' \in [Sessions -> {"booty", "populate", "ready", "broken", "none"}]
         /\ \A t \in Sessions \ {s} : boot'[t] = boot[t]
         /\ boot[s] \in {"start", "booty", "populate"}
         /\ \/ RestartDeposit(s)
            \/ UNCHANGED process /\ boot[s] # "start"
         /\ \A q \in Runs \ {s} : /\ pc'[q] = pc[q] /\ at'[q] = at[q]
                                  /\ name'[q] = name[q] /\ home'[q] = home[q]
                                  /\ waits'[q] = waits[q]
<1> USE DistinctAssumption
<1>1. boot[s] \in {"start", "booty", "populate"}
  BY DEF Boot, RestartDeposit, BootBooty, BootPopulated
<1>2. s = session
  BY <1>1 DEF OneSession
<1>3. /\ UNCHANGED <<session, sem, tx, disk, hubChannel, spent>>
      /\ \E b \in {"booty", "populate", "ready", "broken"} : boot' = [boot EXCEPT ![s] = b]
      /\ \/ RestartDeposit(s)
         \/ UNCHANGED process /\ boot[s] # "start"
  BY DEF Boot, RestartDeposit, BootBooty, BootPopulated
<1>4. boot' \in [Sessions -> {"booty", "populate", "ready", "broken", "none"}]
  <2>1. \A t \in Sessions \ {s} : boot[t] = "none"
    BY <1>2 DEF OneSession
  <2>2. QED
    BY <1>3, <2>1 DEF Types, TypeOK
<1>5. \A t \in Sessions \ {s} : boot'[t] = boot[t]
  BY <1>3 DEF Types, TypeOK
<1>6. ASSUME NEW q \in Runs \ {s}
      PROVE  /\ pc'[q] = pc[q] /\ at'[q] = at[q] /\ name'[q] = name[q] /\ home'[q] = home[q]
             /\ waits'[q] = waits[q]
  <2>1. CASE UNCHANGED process
    BY <2>1 DEF process
  <2>2. CASE RestartDeposit(s)
    <3>1. ASSUME NEW record, AwaitOrHold(s, s, record)
          PROVE  pc'[q] = pc[q] /\ at'[q] = at[q] /\ waits'[q] = waits[q]
      BY <3>1 DEF AwaitOrHold, MoveTo, Types, TypeOK
    <3>2. home'[q] = home[q] /\ name'[q] = name[q]
      BY <2>2 DEF RestartDeposit, Types, TypeOK
    <3>3. QED
      BY <2>2, <3>1, <3>2 DEF RestartDeposit, MoveTo, Types, TypeOK
  <2>3. QED
    BY <1>3, <2>1, <2>2
<1>7. QED
  BY <1>1, <1>2, <1>3, <1>4, <1>5, <1>6

\* What else may happen between two sessions.
LEMMA AroundStays ==
  ASSUME Types, Relock = FALSE,
         LockAndUnlock \/ Flush \/ HubSeesChannel \/ PollerPopulates \/ PollerSettles
           \/ UNCHANGED vars
  PROVE  /\ UNCHANGED <<session, boot, sem, tx, pc, name, at, home, deferred, active, spent>>
         /\ \/ UNCHANGED disk \/ disk' = tx
         /\ hubChannel => hubChannel'
  BY DEF LockAndUnlock, Flush, HubSeesChannel, PollerPopulates, PollerSettles, vars, process,
     populator

LEMMA OneSessionStep ==
  ASSUME Types, Fresh, OneSession, Relock = FALSE, [Next]_vars
  PROVE  OneSession'
<1> USE DistinctAssumption
<1>1. ASSUME NEW r \in Runs, Request(r) \/ Call(r) \/ Transaction(r)
      PROVE  OneSession'
  <2>1. /\ UNCHANGED <<session, boot>>
        /\ \A q \in Runs \ {r} : pc'[q] = pc[q] /\ home'[q] = home[q]
        /\ \/ Live(r) /\ UNCHANGED home
           \/ Request(r)
    BY <1>1, RunStays
  <2>2. session \in Sessions /\ home \in [Runs -> Sessions \cup {None}]
    BY DEF Types, TypeOK
  <2>3. CASE Live(r) /\ UNCHANGED home
    <3>1. \A q \in Runs : Live(q)' => Live(q)
      BY <2>1, <2>3 DEF Live
    <3>2. QED
      BY <2>1, <2>3, <3>1 DEF OneSession, Restarting, Runs
  <2>4. CASE Request(r)
    <3>1. /\ home'[r] = session /\ r \in Requests /\ boot[session] = "ready"
      BY <2>2, <2>4 DEF Request
    <3>2. \A q \in Runs \ {r} : Live(q)' => Live(q)
      BY <2>1 DEF Live
    <3>3. \A s \in Sessions : s # r /\ s \in Runs
      BY <3>1 DEF Runs
    <3>4. session <= session
      BY <2>2 DEF Sessions
    <3>5. QED
      BY <2>1, <3>1, <3>2, <3>3, <3>4 DEF OneSession, Restarting, Runs
  <2>5. QED
    BY <2>1, <2>3, <2>4
<1>2. ASSUME NEW s \in Sessions, Boot(s)
      PROVE  OneSession'
  <2>1. /\ s = session
        /\ UNCHANGED session
        /\ boot' \in [Sessions -> {"booty", "populate", "ready", "broken", "none"}]
        /\ \A t \in Sessions \ {s} : boot'[t] = boot[t]
        /\ boot[s] \in {"start", "booty", "populate"}
        /\ \/ RestartDeposit(s)
           \/ UNCHANGED process
        /\ \A q \in Runs \ {s} : pc'[q] = pc[q] /\ home'[q] = home[q]
    BY <1>2, BootStays
  <2>2. s \in Runs
    BY DEF Runs
  <2>3. \A q \in Runs \ {s} : Live(q)' <=> Live(q)
    BY <2>1 DEF Live
  <2>4. Live(s)' => home'[s] = s
    <3>1. CASE RestartDeposit(s)
      BY <2>2, <3>1 DEF RestartDeposit, Types, TypeOK
    <3>2. CASE UNCHANGED process
      BY <2>1, <2>2, <3>2 DEF process, OneSession, Live
    <3>3. QED
      BY <2>1, <3>1, <3>2
  <2>5. home'[s] # None => home'[s] <= session
    <3>1. CASE RestartDeposit(s)
      BY <2>1, <2>2, <3>1 DEF RestartDeposit, Types, TypeOK, Sessions
    <3>2. CASE UNCHANGED process
      BY <2>2, <3>2 DEF process, OneSession
    <3>3. QED
      BY <2>1, <3>1, <3>2
  <2>6. ~Restarting'
    BY <2>1 DEF Restarting
  <2>7. \A r \in Requests : ~Live(r)
    BY <2>1 DEF OneSession, Restarting, Runs
  <2>8. \A r \in Requests : r \in Runs /\ r # s
    BY DEF Runs
  <2>9. \A t \in Sessions : t \in Runs
    BY DEF Runs
  <2>10. QED
    BY <2>1, <2>3, <2>4, <2>5, <2>6, <2>7, <2>8, <2>9 DEF OneSession
<1>3. CASE Crash
  <2>1. \A q \in Runs : ~Live(q)'
    BY <1>3 DEF Crash, Live, Ended
  <2>2. session' = session + 1 /\ UNCHANGED home /\ session \in Nat
    BY <1>3 DEF Crash, NextSession, Types, TypeOK, Sessions
  <2>3. \A s \in Sessions : s # session' => boot'[s] = "none"
    BY <1>3 DEF Crash
  <2>4. \A q \in Runs : home[q] # None => home[q] <= session'
    <3>1. \A q \in Runs : home[q] # None => home[q] <= session /\ home[q] \in Nat
      BY DEF OneSession, Types, TypeOK, Sessions
    <3>2. QED
      BY <2>2, <3>1
  <2>5. QED
    BY <2>1, <2>2, <2>3, <2>4 DEF OneSession, Runs
<1>4. CASE \/ LockAndUnlock \/ Flush \/ HubSeesChannel \/ PollerPopulates \/ PollerSettles
           \/ UNCHANGED vars
  <2>1. UNCHANGED <<session, boot, pc, home>>
    BY <1>4, AroundStays
  <2>2. QED
    BY <2>1 DEF OneSession, Live, Restarting
<1>5. QED
  BY <1>1, <1>2, <1>3, <1>4 DEF Next

\* As long as the deposit of an earlier session goes on, the hub knows the channel, and a
\* request tops it up; a start() waits to go on with a top-up only.
NamesApart ==
  /\ boot[session] = "populate" => hubChannel
  /\ boot[session] = "ready" /\ pc[session] # "idle" => hubChannel
  /\ \A r \in Requests : Depositing(r) /\ pc[session] # "idle" => name[r] = "existing"
  /\ pc[session] = "hook" => name[session] = "existing"

\* A transaction gets its name as it is chosen.
LEMMA NamesStay ==
  ASSUME Types, NEW r \in Runs, Call(r) \/ Transaction(r)
  PROVE  /\ UNCHANGED hubChannel
         /\ \/ /\ Choose(r)
               /\ name'[r] = IF hubChannel THEN "existing" ELSE "new"
            \/ /\ ~Choose(r)
               /\ Depositing(r)' => Depositing(r) /\ name'[r] = name[r]
               /\ pc'[r] = "hook" => pc[r] = "hook"
<1>0. r \in Runs /\ pc = [q \in Runs |-> pc[q]] /\ name = [q \in Runs |-> name[q]]
  BY DEF Types, TypeOK
<1>1. CASE Choose(r)
  BY <1>0, <1>1 DEF Choose
<1>2. ASSUME NEW where \in {"done", "failed"}, EndCall(r, where) PROVE ~Depositing(r)'
  BY <1>0, <1>2 DEF EndCall, MoveTo, Depositing
<1>3. CASE ChooseFails(r) \/ BuyBooty(r) \/ BootyPopulated(r)
  <2>1. CASE Choose(r)
    BY <1>1, <2>1
  <2>2. CASE EndCall(r, "done") \/ EndCall(r, "failed")
    <3>1. ~Depositing(r)'
      BY <1>2, <2>2
    <3>2. QED
      BY <1>3, <2>1, <3>1 DEF ChooseFails, BuyBooty, BootyPopulated, Depositing
  <2>3. CASE BuyBooty(r) /\ pc' = [pc EXCEPT ![r] = "bootyPopulate"]
    BY <1>0, <1>1, <2>1, <2>3 DEF BuyBooty, Depositing
  <2>4. QED
    BY <1>3, <2>2, <2>3 DEF ChooseFails, BuyBooty, BootyPopulated, MoveTo
<1>4. CASE Transaction(r)
  <2>0. pc'[r] = "hook" => pc[r] = "hook"
    <3>1. CASE ResumeHook(r)
      BY <3>1 DEF ResumeHook
    <3>2. CASE EndCall(r, "done") \/ EndCall(r, "failed")
      BY <1>2, <3>2 DEF Depositing
    <3>3. CASE \E where \in {"effect", "method", "finishing", "populating", "finished", "booty"} :
                 MoveTo(r, where)
      BY <1>0, <3>3 DEF MoveTo
    <3>4. QED
      BY <1>4, <3>1, <3>2, <3>3 DEF Transaction, HookRejects, TakeEffect, NextMethod,
         FinishTransaction, Populated, FinishWaited, Complete, MethodThrows
  <2>1. UNCHANGED hubChannel /\ Depositing(r) /\ ~Choose(r)
    BY <1>4 DEF Transaction, ResumeHook, HookRejects, TakeEffect, NextMethod,
       FinishTransaction, Populated, FinishWaited, Complete, MethodThrows, Depositing, Choose
  <2>2. UNCHANGED name \/ EndCall(r, "done") \/ EndCall(r, "failed")
    BY <1>4 DEF Transaction, ResumeHook, HookRejects, TakeEffect, NextMethod,
       FinishTransaction, Populated, FinishWaited, Complete, MethodThrows
  <2>3. QED
    BY <1>2, <2>0, <2>1, <2>2
<1>5. QED
  BY <1>1, <1>3, <1>4 DEF Call

LEMMA NamesApartStep ==
  ASSUME Types, Fresh, OneSession, NamesApart, Relock = FALSE, [Next]_vars
  PROVE  NamesApart'
<1> USE DistinctAssumption
<1>0. session \in Sessions /\ session \in Runs /\ session \notin Requests
  BY DEF Types, TypeOK, Runs
<1>1. ASSUME NEW r \in Runs, Call(r) \/ Transaction(r)
      PROVE  NamesApart'
  <2>1. /\ UNCHANGED <<session, boot, hubChannel>>
        /\ \A q \in Runs \ {r} : pc'[q] = pc[q] /\ name'[q] = name[q]
    BY <1>1, RunStays, NamesStay
  <2>2. Live(r)
    BY <1>1 DEF Call, Transaction, Choose, ChooseFails, BuyBooty, BootyPopulated, ResumeHook,
       HookRejects, TakeEffect, NextMethod, FinishTransaction, Populated, FinishWaited,
       Complete, MethodThrows, Live, Ended
  <2>3. pc'[session] # "idle" => pc[session] # "idle"
    BY <1>0, <2>1, <2>2 DEF Live, Ended
  <2>4. ASSUME NEW q \in Requests, Depositing(q)', pc[session] # "idle"
        PROVE  name'[q] = "existing"
    <3>1. CASE q # r
      BY <2>1, <2>4, <3>1 DEF NamesApart, Depositing, Runs
    <3>2. CASE q = r
      <4>1. boot[session] = "ready" /\ hubChannel
        BY <2>2, <2>4, <3>2 DEF OneSession, NamesApart
      <4>2. QED
        BY <1>1, <2>4, <3>2, <4>1, NamesStay DEF NamesApart
    <3>3. QED
      BY <3>1, <3>2
  <2>5. pc'[session] = "hook" => name'[session] = "existing"
    <3>1. CASE r # session
      BY <1>0, <2>1, <3>1 DEF NamesApart
    <3>2. CASE r = session
      <4>1. ~Choose(r)
        BY <1>0, <3>2 DEF Choose, Types, Placed
      <4>2. QED
        BY <1>1, <3>2, <4>1, NamesStay DEF NamesApart, Depositing
    <3>3. QED
      BY <3>1, <3>2
  <2>6. QED
    BY <2>1, <2>3, <2>4, <2>5 DEF NamesApart
<1>2. ASSUME NEW r \in Runs, Request(r)
      PROVE  NamesApart'
  <2>1. /\ UNCHANGED <<session, boot, hubChannel, name>> /\ r \in Requests
        /\ \A q \in Runs \ {r} : pc'[q] = pc[q]
    BY <1>2, RunStays DEF Request
  <2>2. ~Depositing(r)'
    BY <1>2 DEF Request, MoveTo, Depositing, Types, TypeOK
  <2>3. QED
    BY <1>0, <2>1, <2>2 DEF NamesApart, Depositing, Runs
<1>3. ASSUME NEW s \in Sessions, Boot(s)
      PROVE  NamesApart'
  <2>1. /\ s = session /\ UNCHANGED <<session, hubChannel>>
        /\ boot[s] \in {"start", "booty", "populate"}
        /\ \A q \in Requests : pc'[q] = pc[q] /\ name'[q] = name[q]
    BY <1>3, BootStays DEF Runs
  <2>2. \A q \in Requests : ~Depositing(q)'
    <3>1. \A q \in Requests : ~Live(q)
      BY <2>1 DEF OneSession
    <3>2. QED
      BY <2>1, <3>1 DEF Live, Ended, Depositing
  <2>3. CASE RestartDeposit(s)
    <3>1. \/ boot'[s] = "booty" 
          \/ boot'[s] = "ready" /\ UNCHANGED pc
      BY <2>3 DEF RestartDeposit, Types, TypeOK
    <3>2. pc[s] = "idle"
      BY <2>3 DEF RestartDeposit, Fresh
    <3>3. pc'[s] = "hook" => name'[s] = "existing"
      BY <1>0, <2>1, <2>3, <3>2 DEF RestartDeposit, MoveTo, Types, TypeOK
    <3>4. QED
      BY <2>1, <2>2, <3>1, <3>2, <3>3 DEF NamesApart
  <2>4. CASE BootBooty(s) \/ BootPopulated(s)
    <3>1. /\ UNCHANGED <<pc, name>>
          /\ \/ boot'[s] = "broken"
             \/ boot'[s] \in {"populate", "ready"} /\ hubChannel
      BY <2>1, <2>4 DEF BootBooty, BootPopulated, process, NamesApart, Types, TypeOK
    <3>2. QED
      BY <2>1, <2>2, <3>1 DEF NamesApart
  <2>5. QED
    BY <1>3, <2>3, <2>4 DEF Boot
<1>4. CASE Crash
  <2>1. \A q \in Runs : ~Depositing(q)'
    BY <1>4 DEF Crash, Live, Ended, Depositing
  <2>2. boot'[session'] = "start"
    <3>1. session' \in Sessions
      BY <1>4, CrashTypes DEF Types, TypeOK
    <3>2. QED
      BY <1>4, <3>1 DEF Crash
  <2>3. session' \in Runs
    BY <1>4, CrashTypes DEF Types, TypeOK, Runs
  <2>4. QED
    BY <2>1, <2>2, <2>3 DEF NamesApart, Depositing, Runs
<1>5. CASE \/ LockAndUnlock \/ Flush \/ HubSeesChannel \/ PollerPopulates \/ PollerSettles
           \/ UNCHANGED vars
  <2>1. UNCHANGED <<session, boot, pc, name>> /\ (hubChannel => hubChannel')
    BY <1>5, AroundStays
  <2>2. QED
    BY <2>1 DEF NamesApart, Depositing
<1>6. QED
  BY <1>1, <1>2, <1>3, <1>4, <1>5 DEF Next

\* The requests of which there is a record, in the store, on disk or with a run.
OnRecord(c, j) == c # None /\ c.job = j
Jobs == {j \in Requests : \/ \E n \in Names : OnRecord(tx[n], j) \/ OnRecord(disk[n], j)
                          \/ \E q \in Runs : OnRecord(at[q], j)}

\* A request is on record from the moment it chose; what is restarted is of an earlier
\* session.
RecordsInv ==
  /\ \A j \in Jobs : home[j] # None /\ pc[j] \notin Unserved
  /\ \A r \in Requests, m \in Spending : pc[r] \in Unserved => spent[r][m] = 0
  /\ Restarting => \A j \in Requests, n \in Names : OnRecord(tx[n], j) => home[j] < session

\* Only choosing puts a request on record.
LEMMA RunJobs ==
  ASSUME Types, NEW r \in Runs, Request(r) \/ Call(r) \/ Transaction(r), NEW j \in Jobs'
  PROVE  j \in Jobs \/ (Choose(r) /\ j = r)
<1> USE DistinctAssumption
<1>0. /\ r \in Runs /\ tx \in [Names -> Checkpoints \cup {None}]
      /\ at \in [Runs -> Checkpoints \cup {None}]
      /\ \A q \in Runs \ {r} : at'[q] = at[q]
      /\ UNCHANGED disk
  BY RunStays DEF Types, TypeOK
<1>1. j \in Requests
  BY DEF Jobs
<1>2. /\ \A n \in Names :
           OnRecord(tx'[n], j) => OnRecord(tx[n], j) \/ OnRecord(at[r], j) \/ (Choose(r) /\ j = r)
      /\ OnRecord(at'[r], j) => j \in Jobs \/ (Choose(r) /\ j = r)
  <2>1. CASE UNCHANGED tx /\ (at'[r] \in {at[r], None})
    BY <1>0, <1>1, <2>1 DEF Jobs, OnRecord
  <2>2. CASE NextMethod(r)
    <3>1. at[r] \in Checkpoints /\ name[r] \in Names /\ at'[r] = [at[r] EXCEPT !.index = @ + 1]
      BY <1>0, <2>2 DEF NextMethod, Types, Placed, Inside, Depositing
    <3>2. at'[r].job = at[r].job /\ at[r] # None
      BY <3>1 DEF Checkpoints
    <3>3. tx' = [tx EXCEPT ![name[r]] = at'[r]]
      BY <2>2 DEF NextMethod
    <3>4. \A n \in Names : OnRecord(tx'[n], j) => OnRecord(tx[n], j) \/ OnRecord(at[r], j)
      BY <1>0, <3>2, <3>3 DEF OnRecord
    <3>5. OnRecord(at'[r], j) => j \in Jobs
      BY <1>1, <3>2 DEF OnRecord, Jobs
    <3>6. QED
      BY <3>4, <3>5
  <2>3. CASE Complete(r) \/ MethodThrows(r)
    <3>1. /\ tx' = [tx EXCEPT ![name[r]] = None]
          /\ UNCHANGED at \/ at' = [at EXCEPT ![r] = None]
      BY <2>3 DEF Complete, MethodThrows, CleanUp, EndCall
    <3>2. \A n \in Names : OnRecord(tx'[n], j) => OnRecord(tx[n], j)
      BY <1>0, <3>1 DEF OnRecord
    <3>3. OnRecord(at'[r], j) => j \in Jobs
      BY <1>0, <1>1, <3>1 DEF OnRecord, Jobs
    <3>4. QED
      BY <3>2, <3>3
  <2>4. ASSUME NEW s, NEW record, AwaitOrHold(r, s, record)
        PROVE  at'[r] = at[r] \/ at'[r] = record
    BY <1>0, <2>4 DEF AwaitOrHold
  <2>5. CASE Choose(r)
    <3>1. PICK n \in Names : tx' = [tx EXCEPT ![n] = [job |-> r, index |-> 1]]
      BY <2>5, NamesAre DEF Choose
    <3>2. at'[r] = at[r] \/ at'[r] = [job |-> r, index |-> 1]
      BY <2>4, <2>5 DEF Choose
    <3>3. \A k \in Names : OnRecord(tx'[k], j) => OnRecord(tx[k], j) \/ j = r
      BY <1>0, <3>1 DEF OnRecord
    <3>4. OnRecord(at'[r], j) => j \in Jobs \/ j = r
      BY <1>1, <3>2 DEF OnRecord, Jobs
    <3>5. QED
      BY <2>5, <3>3, <3>4
  <2>6. CASE ResumeHook(r)
    <3>1. UNCHANGED tx /\ name[r] \in Names
      BY <2>6 DEF ResumeHook, Types, Placed, Depositing
    <3>2. at'[r] \in {at[r], None, tx[name[r]]}
      BY <1>0, <2>4, <2>6 DEF ResumeHook, EndCall
    <3>3. OnRecord(at'[r], j) => j \in Jobs
      BY <1>1, <3>1, <3>2 DEF OnRecord, Jobs
    <3>4. QED
      BY <3>1, <3>3
  <2>7. CASE Request(r) \/ TakeEffect(r) \/ FinishTransaction(r) \/ Populated(r) \/ FinishWaited(r)
    BY <2>1, <2>7 DEF Request, TakeEffect, FinishTransaction, Populated, FinishWaited
  <2>8. CASE ChooseFails(r) \/ BuyBooty(r) \/ BootyPopulated(r) \/ HookRejects(r)
    <3>1. UNCHANGED tx
      BY <2>8 DEF ChooseFails, BuyBooty, BootyPopulated, HookRejects
    <3>2. UNCHANGED at \/ at' = [at EXCEPT ![r] = None]
      BY <2>8 DEF ChooseFails, BuyBooty, BootyPopulated, HookRejects, EndCall
    <3>3. QED
      BY <1>0, <2>1, <3>1, <3>2
  <2>9. QED
    BY <2>2, <2>3, <2>5, <2>6, <2>7, <2>8 DEF Call, Transaction
<1>3. QED
  BY <1>0, <1>1, <1>2 DEF Jobs, OnRecord

LEMMA OtherJobs ==
  ASSUME Types, OneSession, Relock = FALSE, NEW j \in Jobs',
         \/ \E s \in Sessions : Boot(s)
         \/ Crash
         \/ LockAndUnlock \/ Flush \/ HubSeesChannel \/ PollerPopulates \/ PollerSettles
         \/ UNCHANGED vars
  PROVE  j \in Jobs
<1> USE DistinctAssumption
<1>0. j \in Requests
  BY DEF Jobs
<1>1. ASSUME NEW s \in Sessions, Boot(s) PROVE j \in Jobs
  <2>1. /\ UNCHANGED <<tx, disk>> /\ s \in Runs
        /\ RestartDeposit(s) \/ UNCHANGED process
        /\ \A q \in Runs \ {s} : at'[q] = at[q]
    BY <1>1, BootStays DEF Runs
  <2>2. at'[s] \in {at[s], tx["new"], tx["existing"]}
    <3>1. ASSUME NEW record, AwaitOrHold(s, s, record) PROVE at'[s] \in {at[s], record}
      BY <2>1, <3>1 DEF AwaitOrHold, Types, TypeOK
    <3>2. CASE RestartDeposit(s)
      BY <2>1, <3>1, <3>2 DEF RestartDeposit, Types, TypeOK
    <3>3. QED
      BY <2>1, <3>2 DEF process
  <2>3. QED
    BY <1>0, <2>1, <2>2, NamesAre DEF Jobs, OnRecord
<1>2. CASE Crash
  BY <1>0, <1>2 DEF Crash, Jobs, OnRecord
<1>3. CASE \/ LockAndUnlock \/ Flush \/ HubSeesChannel \/ PollerPopulates \/ PollerSettles
           \/ UNCHANGED vars
  <2>1. UNCHANGED <<tx, at>> /\ (UNCHANGED disk \/ disk' = tx)
    BY <1>3, AroundStays
  <2>2. QED
    BY <1>0, <2>1 DEF Jobs, OnRecord
<1>4. QED
  BY <1>1, <1>2, <1>3

\* Once served, a request remains so, and remains of its session.
LEMMA ServedStays ==
  ASSUME Types, Fresh, OneSession, Relock = FALSE, [Next]_vars, NEW j \in Requests
  PROVE  /\ pc[j] \notin Unserved => pc'[j] \notin Unserved
         /\ home'[j] = home[j] \/ (pc[j] = "idle" /\ home'[j] = session /\ session' = session)
<1> USE DistinctAssumption DEF Unserved
<1>0. j \in Runs /\ pc = [p \in Runs |-> pc[p]]
  BY DEF Runs, Types, TypeOK
<1>1. CASE pc'[j] = pc[j] /\ home'[j] = home[j]
  BY <1>1
<1>2. CASE Request(j)
  BY <1>0, <1>2 DEF Request, Types, TypeOK
<1>3. CASE Call(j) \/ Transaction(j)
  <2>1. UNCHANGED home
    BY <1>3, RunStays DEF Call, Transaction, Choose, ChooseFails, BuyBooty, BootyPopulated,
       ResumeHook, HookRejects, TakeEffect, NextMethod, FinishTransaction, Populated,
       FinishWaited, Complete, MethodThrows
  <2>2. ASSUME NEW where \in {"done", "failed"}, EndCall(j, where)
        PROVE  pc'[j] \notin Unserved
    BY <1>0, <2>2 DEF EndCall, MoveTo
  <2>3. ASSUME NEW s, NEW record, AwaitOrHold(j, s, record)
        PROVE  pc'[j] \notin Unserved
    BY <1>0, <2>3 DEF AwaitOrHold, MoveTo
  <2>4. ASSUME NEW where, where \notin Unserved, MoveTo(j, where)
        PROVE  pc'[j] \notin Unserved
    BY <1>0, <2>4 DEF MoveTo
  <2>5. CASE Choose(j) \/ ChooseFails(j) \/ BuyBooty(j) \/ BootyPopulated(j)
    BY <2>1, <2>2, <2>3, <2>4, <2>5 DEF Choose, ChooseFails, BuyBooty, BootyPopulated
  <2>6. CASE ResumeHook(j) \/ HookRejects(j) \/ TakeEffect(j) \/ NextMethod(j) \/ Populated(j)
             \/ FinishWaited(j)
    BY <2>1, <2>2, <2>3, <2>4, <2>6 DEF ResumeHook, HookRejects, TakeEffect, NextMethod,
       Populated, FinishWaited
  <2>7. CASE FinishTransaction(j) \/ Complete(j) \/ MethodThrows(j)
    BY <2>1, <2>2, <2>4, <2>7 DEF FinishTransaction, Complete, MethodThrows
  <2>8. QED
    BY <1>3, <2>5, <2>6, <2>7 DEF Call, Transaction
<1>4. ASSUME NEW r \in Runs, Request(r) \/ Call(r) \/ Transaction(r), r # j
      PROVE  pc'[j] = pc[j] /\ home'[j] = home[j]
  BY <1>0, <1>4, RunStays
<1>5. ASSUME NEW s \in Sessions, Boot(s)
      PROVE  pc'[j] = pc[j] /\ home'[j] = home[j]
  BY <1>0, <1>5, BootStays
<1>6. CASE Crash
  BY <1>0, <1>6 DEF Crash
<1>7. CASE \/ LockAndUnlock \/ Flush \/ HubSeesChannel \/ PollerPopulates \/ PollerSettles
           \/ UNCHANGED vars
  BY <1>1, <1>7, AroundStays
<1>8. QED
  BY <1>1, <1>2, <1>3, <1>4, <1>5, <1>6, <1>7 DEF Next

\* Funds move for requests that are on record.
LEMMA SpentOnJobs ==
  ASSUME Types, [Next]_vars, NEW j \in Requests, NEW m \in Spending
  PROVE  \/ spent'[j][m] = spent[j][m]
         \/ \E q \in Runs : /\ TakeEffect(q) /\ OnRecord(at[q], j) /\ m = Method(q)
                            /\ spent'[j][m] = spent[j][m] + 1
<1> USE DistinctAssumption
<1>1. ASSUME NEW q \in Runs, TakeEffect(q)
      PROVE  \/ spent'[j][m] = spent[j][m]
             \/ OnRecord(at[q], j) /\ m = Method(q) /\ spent'[j][m] = spent[j][m] + 1
  <2>1. /\ at[q] \in Checkpoints /\ Method(q) \in Spending
        /\ spent' = [spent EXCEPT ![at[q].job][Method(q)] = @ + 1]
    BY <1>1 DEF TakeEffect, Types, Placed, Inside
  <2>2. spent \in [Requests -> [Spending -> Nat]] /\ spent[j] \in [Spending -> Nat]
    BY DEF Types, TypeOK, Counts
  <2>3. at[q].job \in Requests
    BY <2>1 DEF Checkpoints
  <2>4. CASE j = at[q].job /\ m = Method(q)
    BY <2>1, <2>2, <2>4 DEF OnRecord
  <2>5. CASE ~(j = at[q].job /\ m = Method(q))
    BY <2>1, <2>2, <2>3, <2>5
  <2>6. QED
    BY <2>4, <2>5
<1>2. ASSUME NEW q \in Runs, Request(q) \/ Call(q) \/ Transaction(q), ~TakeEffect(q)
      PROVE  spent' = spent
  BY <1>2 DEF Request, Call, Transaction, Choose, ChooseFails, BuyBooty, BootyPopulated,
     ResumeHook, HookRejects, NextMethod, FinishTransaction, Populated, FinishWaited, Complete,
     MethodThrows
<1>3. CASE \/ \E s \in Sessions : Boot(s)
           \/ Crash \/ LockAndUnlock \/ Flush \/ HubSeesChannel \/ PollerPopulates
           \/ PollerSettles \/ UNCHANGED vars
  BY <1>3 DEF Boot, RestartDeposit, BootBooty, BootPopulated, Crash, LockAndUnlock, Flush,
     HubSeesChannel, PollerPopulates, PollerSettles, vars
<1>4. QED
  BY <1>1, <1>2, <1>3 DEF Next, Transaction

\* A session that has yet to begin its start() has just begun, or nothing of it has happened.
LEMMA RestartingStep ==
  ASSUME Types, OneSession, Relock = FALSE, [Next]_vars, Restarting'
  PROVE  \/ Crash
         \/ Restarting /\ UNCHANGED <<session, boot, sem, tx, pc, name, at, home, deferred, spent>>
<1>1. ASSUME NEW r \in Runs, Request(r) \/ Call(r) \/ Transaction(r) PROVE FALSE
  <2>1. boot[session] = "start" /\ (Live(r) \/ Request(r))
    BY <1>1, RunStays DEF Restarting
  <2>2. QED
    BY <2>1 DEF OneSession, Restarting, Request
<1>2. ASSUME NEW s \in Sessions, Boot(s) PROVE FALSE
  BY <1>2, BootStays DEF Restarting
<1>3. CASE \/ LockAndUnlock \/ Flush \/ HubSeesChannel \/ PollerPopulates \/ PollerSettles
           \/ UNCHANGED vars
  BY <1>3, AroundStays DEF Restarting
<1>4. QED
  BY <1>1, <1>2, <1>3 DEF Next

LEMMA RecordsStep ==
  ASSUME Types, Fresh, OneSession, RecordsInv, Relock = FALSE, [Next]_vars
  PROVE  RecordsInv'
<1> USE DistinctAssumption
<1>1. ASSUME NEW j \in Jobs' PROVE home'[j] # None /\ pc'[j] \notin Unserved
  <2>0. j \in Requests /\ j \in Runs
    BY DEF Jobs, Runs
  <2>1. CASE j \in Jobs
    BY <2>0, <2>1, ServedStays DEF RecordsInv, Unserved
  <2>2. CASE j \notin Jobs
    <3>1. PICK r \in Runs : Choose(r) /\ j = r
      BY <2>2, RunJobs, OtherJobs DEF Next
    <3>2. ASSUME NEW s, NEW record, AwaitOrHold(r, s, record)
          PROVE  pc'[r] \in {"hook", "method"}
      BY <3>2 DEF AwaitOrHold, MoveTo, Types, TypeOK
    <3>3. pc'[r] \in {"hook", "method"} /\ UNCHANGED home /\ Live(r)
      BY <3>1, <3>2 DEF Choose, Live, Ended
    <3>4. home[r] # None
      BY <3>3 DEF Types, Placed, Runs
    <3>5. QED
      BY <3>1, <3>3, <3>4 DEF Unserved
  <2>3. QED
    BY <2>1, <2>2
<1>2. ASSUME NEW r \in Requests, NEW m \in Spending, pc'[r] \in Unserved
      PROVE  spent'[r][m] = 0
  <2>1. pc[r] \in Unserved
    BY <1>2, ServedStays
  <2>2. r \notin Jobs /\ spent[r][m] = 0
    BY <2>1 DEF RecordsInv
  <2>3. \A q \in Runs : ~OnRecord(at[q], r)
    BY <2>2 DEF Jobs
  <2>4. QED
    BY <2>2, <2>3, SpentOnJobs
<1>3. ASSUME Restarting', NEW j \in Requests, NEW n \in Names, OnRecord(tx'[n], j)
      PROVE  home'[j] < session'
  <2>1. CASE Crash
    <3>1. OnRecord(disk[n], j) /\ UNCHANGED home /\ session' = session + 1
      BY <1>3, <2>1 DEF Crash, NextSession
    <3>2. j \in Jobs /\ j \in Runs
      BY <3>1 DEF Jobs, Runs
    <3>3. home[j] \in Sessions /\ home[j] <= session
      BY <3>2 DEF RecordsInv, OneSession, Types, TypeOK
    <3>4. QED
      BY <3>1, <3>3 DEF Types, TypeOK, Sessions
  <2>2. CASE Restarting /\ UNCHANGED <<session, tx, home>>
    BY <1>3, <2>2 DEF RecordsInv
  <2>3. QED
    BY <1>3, <2>1, <2>2, RestartingStep
<1>4. QED
  BY <1>1, <1>2, <1>3 DEF RecordsInv

\* Nobody moved the funds of a request more than once a session, nor in this session
\* before it begins.
Bounded ==
  \A r \in Requests, m \in Spending :
    home[r] # None => /\ spent[r][m] <= 1 + session - home[r]
                      /\ Restarting => Due(r, m)

\* What a run may still do for a request has not been done in this session.
Owed ==
  \A q \in Runs :
    Busy(q) => DueFrom(at[q].job, name[q],
                       IF pc[q] = "method" THEN at[q].index ELSE at[q].index + 1)

\* A step that moves funds is owed to a request that is on record.
LEMMA EffectIsDue ==
  ASSUME Types, RecordsInv, Owed, NEW q \in Runs, TakeEffect(q)
  PROVE  /\ Busy(q) /\ at[q].job \in Jobs
         /\ Due(at[q].job, Method(q))
<1> USE DistinctAssumption
<1>1. /\ pc[q] = "method" /\ Method(q) \in Spending
      /\ at[q] \in Checkpoints /\ name[q] \in Names
  BY DEF TakeEffect, Types, Placed, Inside, Depositing
<1>2. at[q].job \in Requests /\ at[q].index \in 1 .. Last /\ at[q] # None
  BY <1>1 DEF Checkpoints
<1>3. Busy(q)
  BY <1>1, <1>2, LastMethod DEF Busy, Method
<1>4. at[q].job \in Jobs
  BY <1>2 DEF Jobs, OnRecord
<1>5. Due(at[q].job, Method(q))
  <2>1. DueFrom(at[q].job, name[q], at[q].index)
    BY <1>1, <1>3 DEF Owed
  <2>2. at[q].index >= at[q].index
    BY <1>2 DEF Last
  <2>3. QED
    BY <1>1, <1>2, <2>1, <2>2 DEF DueFrom, Method
<1>6. QED
  BY <1>3, <1>4, <1>5

LEMMA BoundedStep ==
  ASSUME Types, Fresh, OneSession, RecordsInv, Bounded, Owed, Relock = FALSE, [Next]_vars
  PROVE  Bounded'
<1> USE DistinctAssumption
<1>0. SUFFICES ASSUME NEW r \in Requests, NEW m \in Spending, home'[r] # None
               PROVE  /\ spent'[r][m] <= 1 + session' - home'[r]
                      /\ Restarting' => spent'[r][m] <= session' - home'[r]
  BY DEF Bounded, Due
<1>1. /\ spent[r][m] \in Nat /\ session \in Nat /\ r \in Runs
      /\ home[r] \in Sessions \cup {None} /\ Sessions \subseteq Nat
  BY DEF Types, TypeOK, Counts, Sessions, Runs
<1>2. session' \in {session, session + 1}
  BY RunStays, BootStays, AroundStays DEF Next, Crash, NextSession
<1>3. CASE home'[r] # home[r]
  <2>1. pc[r] = "idle" /\ home'[r] = session /\ session' = session
    BY <1>3, ServedStays
  <2>2. spent[r][m] = 0 /\ r \notin Jobs
    BY <2>1 DEF RecordsInv, Unserved
  <2>3. spent'[r][m] = 0
    BY <2>2, SpentOnJobs DEF Jobs
  <2>4. QED
    BY <1>1, <2>1, <2>3
<1>4. CASE home'[r] = home[r]
  <2>1. home[r] \in Nat /\ home[r] <= session
    BY <1>0, <1>1, <1>4 DEF OneSession
  <2>2. spent[r][m] <= 1 + session - home[r]
    BY <1>0, <1>4 DEF Bounded
  <2>3. spent'[r][m] <= 1 + session' - home'[r]
    <3>1. CASE spent'[r][m] = spent[r][m]
      BY <1>1, <1>2, <1>4, <2>1, <2>2, <3>1
    <3>2. ASSUME NEW q \in Runs, TakeEffect(q), OnRecord(at[q], r), m = Method(q),
                 spent'[r][m] = spent[r][m] + 1
          PROVE  spent'[r][m] <= 1 + session' - home'[r]
      <4>1. spent[r][m] <= session - home[r]
        BY <3>2, EffectIsDue DEF Due, OnRecord
      <4>2. QED
        BY <1>1, <1>2, <1>4, <2>1, <3>2, <4>1
    <3>3. QED
      BY <3>1, <3>2, SpentOnJobs
  <2>4. ASSUME Restarting' PROVE spent'[r][m] <= session' - home'[r]
    <3>1. CASE Crash
      <4>1. session' = session + 1 /\ UNCHANGED spent
        BY <3>1 DEF Crash, NextSession
      <4>2. QED
        BY <1>1, <1>4, <2>1, <2>2, <4>1
    <3>2. CASE Restarting /\ UNCHANGED <<session, spent>>
      BY <1>0, <1>4, <3>2 DEF Bounded, Due
    <3>3. QED
      BY <2>4, <3>1, <3>2, RestartingStep
  <2>5. QED
    BY <2>3, <2>4
<1>5. QED
  BY <1>3, <1>4

\* The lock goes from hand to hand: who works has it, who waits waits for whoever has it or
\* has his answer, and a refusal finds it free.
TurnHolds ==
  /\ refreshing => lock = Poller
  /\ \A q \in Runs : pc[q] = "hook" => waits[q] \in Answers \/ (lock # None /\ waits[q] = lock)
  /\ \A q \in Runs : pc[q] = "hook" /\ waits[q] = Rejected =>
       lock = None /\ \A p \in Runs : pc[p] = "hook" => waits[p] # Resolved
  /\ \A q \in Runs : pc[q] \in {"method", "effect"} =>
       lock = q /\ deferred[session] \in {q, None}
  /\ \A q \in Runs : pc[q] = "populating" => lock = q /\ waits[q] = q

TurnInv == Restarting \/ Shares => TurnHolds

\* A step of one run that leaves the lock alone and does not begin to wait or to work.
LEMMA TurnQuiet ==
  ASSUME TurnHolds, NEW r \in Runs,
         \A q \in Runs \ {r} : pc'[q] = pc[q] /\ waits'[q] = waits[q],
         UNCHANGED <<session, lock, refreshing>>,
         deferred'[session] \in {deferred[session], None},
         pc'[r] # "hook",
         pc'[r] \in {"method", "effect"} => pc[r] \in {"method", "effect"},
         pc'[r] = "populating" => pc[r] = "method" /\ waits'[r] = r
  PROVE  TurnHolds'
  BY DEF TurnHolds

\* A run takes the lock, which is free, or waits for who has it.
LEMMA TurnTaken ==
  ASSUME Types, TurnHolds, NEW r \in Runs, NEW record, AwaitOrHold(r, session, record),
         \A q \in Runs \ {r} : pc[q] = "hook" => waits[q] # Rejected,
         UNCHANGED <<session, refreshing>>
  PROVE  TurnHolds'
<1> USE DistinctAssumption
<1>0. /\ r \in Runs /\ session \in Sessions
      /\ pc = [q \in Runs |-> pc[q]] /\ waits = [q \in Runs |-> waits[q]]
      /\ deferred = [s \in Sessions |-> deferred[s]]
  BY DEF Types, TypeOK
<1>1. CASE lock # None
  <2>1. /\ waits'[r] = lock /\ pc'[r] = "hook"
        /\ \A q \in Runs \ {r} : pc'[q] = pc[q] /\ waits'[q] = waits[q]
        /\ UNCHANGED <<lock, deferred>>
    BY <1>0, <1>1 DEF AwaitOrHold, MoveTo
  <2>2. lock \notin Answers
    BY <1>1 DEF Types, TypeOK, Holders, Answers
  <2>3. \A q \in Runs : pc'[q] = "hook" => waits'[q] \in Answers \/ waits'[q] = lock
    BY <2>1 DEF TurnHolds
  <2>4. \A q \in Runs : pc'[q] = "hook" => waits'[q] # Rejected
    BY <2>1, <2>2 DEF Answers
  <2>5. \A q \in Runs : pc'[q] \in {"method", "effect"} =>
          lock = q /\ deferred[session] \in {q, None}
    BY <2>1 DEF TurnHolds
  <2>6. \A q \in Runs : pc'[q] = "populating" => lock = q /\ waits'[q] = q
    BY <2>1 DEF TurnHolds
  <2>7. QED
    BY <1>1, <2>1, <2>3, <2>4, <2>5, <2>6 DEF TurnHolds
<1>2. CASE lock = None
  <2>1. /\ lock' = r /\ pc'[r] = "method" /\ deferred'[session] = r
        /\ \A q \in Runs \ {r} : pc'[q] = pc[q] /\ waits'[q] = waits[q]
    BY <1>0, <1>2 DEF AwaitOrHold, MoveTo
  <2>2. ~refreshing
    BY <1>2 DEF TurnHolds
  <2>3. \A q \in Runs : pc[q] \notin {"method", "effect", "populating"}
    BY <1>2 DEF TurnHolds
  <2>4. \A q \in Runs : pc'[q] = "hook" => waits'[q] \in Answers /\ waits'[q] # Rejected
    BY <1>2, <2>1 DEF TurnHolds
  <2>5. QED
    BY <2>1, <2>2, <2>3, <2>4 DEF TurnHolds
<1>3. QED
  BY <1>1, <1>2

\* Whoever has the lock lets it go, and those who wait for it have their answer.
LEMMA TurnSettled ==
  ASSUME Types, TurnHolds, NEW outcome \in Answers, Settle(lock, outcome), lock # None,
         NewTurn, lock' = None, ~refreshing', UNCHANGED session,
         \A q \in Runs : pc'[q] # "finished" => pc'[q] = pc[q],
         \A q \in Runs : pc'[q] # "finished" /\ pc[q] \in {"method", "effect", "populating"}
                           => lock # q
  PROVE  TurnHolds'
<1>1. \A q \in Runs : pc'[q] = "hook" => waits'[q] = outcome
  <2>1. SUFFICES ASSUME NEW q \in Runs, pc'[q] = "hook" PROVE waits'[q] = outcome
    OBVIOUS
  <2>2. pc[q] = "hook" /\ Waiting(q)
    BY <2>1 DEF Waiting
  <2>3. waits[q] = lock
    BY <2>2 DEF NewTurn, TurnHolds
  <2>4. QED
    BY <2>2, <2>3 DEF Settle
<1>2. \A q \in Runs : pc'[q] \notin {"method", "effect", "populating"}
  BY DEF TurnHolds
<1>3. Rejected # Resolved
  BY DistinctAssumption
<1>4. QED
  BY <1>1, <1>2, <1>3 DEF TurnHolds, Answers

\* Sharing begins with a start().
LEMMA SharesStays ==
  ASSUME Types, OneSession, NEW r \in Runs, Request(r) \/ Call(r) \/ Transaction(r), Shares'
  PROVE  Shares /\ ~Choose(session)
<1> USE DistinctAssumption
<1>0. session \in Runs /\ session \notin Requests /\ UNCHANGED session
  BY RunStays DEF Types, TypeOK, Runs
<1>1. CASE r # session
  <2>1. pc'[session] = pc[session] /\ name'[session] = name[session]
    BY <1>0, <1>1, RunStays
  <2>2. QED
    BY <1>0, <2>1 DEF Shares, Depositing, Choose
<1>2. CASE r = session
  <2>1. ~Request(r) /\ ~Choose(r)
    BY <1>0, <1>2 DEF Request, Choose, Types, Placed
  <2>2. QED
    BY <1>0, <1>2, <2>1, NamesStay DEF Shares
<1>3. QED
  BY <1>1, <1>2

\* Only the end of a refresh changes what others wait for.
LEMMA OthersWait ==
  ASSUME Types, NEW r \in Runs, Request(r) \/ Call(r) \/ Transaction(r), ~Populated(r),
         NEW q \in Runs \ {r}
  PROVE  waits'[q] = waits[q]
<1>0. waits = [p \in Runs |-> waits[p]] /\ q \in Runs /\ q # r
  BY DEF Types, TypeOK
<1>1. ASSUME NEW s, NEW record, AwaitOrHold(r, s, record) PROVE waits'[q] = waits[q]
  BY <1>0, <1>1 DEF AwaitOrHold
<1>2. ASSUME NEW where, EndCall(r, where) PROVE waits'[q] = waits[q]
  BY <1>0, <1>2 DEF EndCall
<1>3. CASE Choose(r) \/ ResumeHook(r)
  BY <1>1, <1>2, <1>3 DEF Choose, ResumeHook
<1>4. CASE ChooseFails(r) \/ BootyPopulated(r) \/ HookRejects(r) \/ MethodThrows(r)
  BY <1>2, <1>4 DEF ChooseFails, BootyPopulated, HookRejects, MethodThrows
<1>5. CASE BuyBooty(r) \/ Complete(r)
  BY <1>0, <1>2, <1>5 DEF BuyBooty, Complete
<1>6. CASE Request(r) \/ TakeEffect(r) \/ NextMethod(r) \/ FinishWaited(r) \/ FinishTransaction(r)
  BY <1>0, <1>6 DEF Request, TakeEffect, NextMethod, FinishWaited, FinishTransaction
<1>7. QED
  BY <1>3, <1>4, <1>5, <1>6 DEF Call, Transaction

LEMMA TurnRuns ==
  ASSUME Types, OneSession, TurnHolds, NEW r \in Runs, Request(r) \/ Call(r) \/ Transaction(r),
         r = session => Depositing(session)'
  PROVE  TurnHolds'
<1> USE DistinctAssumption
<1>0. /\ r \in Runs /\ session \in Sessions /\ UNCHANGED session
      /\ pc = [q \in Runs |-> pc[q]] /\ waits = [q \in Runs |-> waits[q]]
      /\ deferred = [s \in Sessions |-> deferred[s]]
      /\ \A q \in Runs \ {r} : pc'[q] = pc[q]
      /\ lock \in Holders \cup {None}
  BY RunStays DEF Types, TypeOK
<1>1. ~Request(r) => home[r] = session
  BY RunStays DEF OneSession
<1>2. ASSUME NEW where \in {"done", "failed"}, EndCall(r, where)
      PROVE  /\ pc'[r] = where /\ r # session
             /\ \A q \in Runs \ {r} : waits'[q] = waits[q]
  BY <1>0, <1>2 DEF EndCall, MoveTo, Depositing
<1>3. ~Populated(r) => \A q \in Runs \ {r} : waits'[q] = waits[q]
  BY OthersWait
<1>4. CASE Request(r) \/ ChooseFails(r) \/ BootyPopulated(r)
  <2>1. UNCHANGED <<lock, refreshing, deferred>>
    BY <1>4 DEF Request, ChooseFails, BootyPopulated, populator
  <2>2. pc'[r] \in {"choosing", "refused", "done", "failed"}
    BY <1>0, <1>2, <1>4 DEF Request, ChooseFails, BootyPopulated, MoveTo
  <2>3. ~Populated(r)
    BY <1>4 DEF Request, ChooseFails, BootyPopulated, Populated
  <2>4. QED
    BY <1>0, <1>3, <2>1, <2>2, <2>3, TurnQuiet
<1>5. CASE TakeEffect(r) \/ NextMethod(r) \/ FinishWaited(r)
  <2>1. UNCHANGED <<lock, refreshing, deferred>>
    BY <1>5 DEF TakeEffect, NextMethod, FinishWaited, populator
  <2>2. \/ pc'[r] = "finished"
        \/ pc'[r] \in {"method", "effect"} /\ pc[r] \in {"method", "effect"}
    BY <1>0, <1>5 DEF TakeEffect, NextMethod, FinishWaited, MoveTo
  <2>3. ~Populated(r)
    BY <1>5 DEF TakeEffect, NextMethod, FinishWaited, Populated
  <2>4. QED
    BY <1>0, <1>3, <2>1, <2>2, <2>3, TurnQuiet
<1>6. CASE Complete(r) \/ MethodThrows(r)
  <2>1. /\ UNCHANGED <<lock, refreshing>>
        /\ deferred' = [deferred EXCEPT ![home[r]] = None]
    BY <1>6 DEF Complete, MethodThrows, CleanUp
  <2>2. deferred'[session] \in {deferred[session], None}
    BY <1>0, <2>1
  <2>3. pc'[r] \in {"booty", "done", "failed"}
    BY <1>0, <1>2, <1>6 DEF Complete, MethodThrows, MoveTo
  <2>4. ~Populated(r)
    BY <1>6 DEF Complete, MethodThrows, Populated
  <2>5. QED
    BY <1>0, <1>3, <2>1, <2>2, <2>3, <2>4, TurnQuiet
<1>7. CASE FinishTransaction(r)
  <2>1. lock = r /\ deferred[session] \in {r, None} /\ r # None /\ home[r] = session
    BY <1>0, <1>1, <1>7 DEF FinishTransaction, TurnHolds, Request
  <2>2. UNCHANGED <<lock, refreshing, deferred>>
    BY <2>1, <1>7 DEF FinishTransaction
  <2>3. \/ pc'[r] = "populating" /\ waits'[r] = r
        \/ pc'[r] = "finishing"
    BY <1>0, <2>1, <1>7 DEF FinishTransaction, MoveTo
  <2>4. ~Populated(r) /\ pc[r] = "method"
    BY <1>7 DEF FinishTransaction, Populated
  <2>5. QED
    BY <1>0, <1>3, <2>2, <2>3, <2>4, TurnQuiet
<1>8. CASE Populated(r)
  <2>1. lock = r /\ waits[r] = r /\ r # None
    BY <1>8 DEF Populated, TurnHolds
  <2>2. PICK outcome \in Answers : Settle(lock, outcome)
    BY <1>8, <2>1 DEF Populated
  <2>3. ~refreshing'
    BY <1>8, <2>1 DEF Populated, TurnHolds
  <2>4. pc'[r] = "finished" /\ lock' = None /\ NewTurn
    BY <1>0, <1>8 DEF Populated, MoveTo
  <2>5. QED
    BY <1>0, <2>1, <2>2, <2>3, <2>4, TurnSettled
<1>9. CASE HookRejects(r)
  <2>1. r # session /\ pc'[r] = "failed" /\ home[r] = session
    BY <1>1, <1>2, <1>9 DEF HookRejects, Request
  <2>2. lock = None
    BY <1>9 DEF HookRejects, TurnHolds
  <2>3. /\ UNCHANGED <<lock, refreshing>>
        /\ UNCHANGED deferred \/ deferred' = [deferred EXCEPT ![home[r]] = None]
    BY <1>9, <2>2 DEF HookRejects
  <2>4. deferred'[session] \in {deferred[session], None}
    BY <1>0, <2>1, <2>3
  <2>5. ~Populated(r)
    BY <1>9 DEF HookRejects, Populated
  <2>6. QED
    BY <1>0, <1>3, <2>1, <2>3, <2>4, <2>5, TurnQuiet
<1>10. CASE ResumeHook(r)
  <2>1. home[r] = session /\ pc[r] = "hook" /\ waits[r] = Resolved
    BY <1>1, <1>10 DEF ResumeHook, Request
  <2>2. CASE AwaitOrHold(r, home[r], tx[name[r]])
    <3>1. \A q \in Runs \ {r} : pc[q] = "hook" => waits[q] # Rejected
      BY <1>0, <2>1 DEF TurnHolds
    <3>2. UNCHANGED refreshing
      BY <1>10 DEF ResumeHook
    <3>3. QED
      BY <1>0, <2>1, <2>2, <3>1, <3>2, TurnTaken
  <2>3. CASE EndCall(r, "failed") /\ ~AwaitOrHold(r, home[r], tx[name[r]])
    <3>1. r # session /\ pc'[r] = "failed"
      BY <1>2, <2>3
    <3>2. r \in Requests
      <4>1. Live(r)
        BY <2>1 DEF Live, Ended
      <4>2. QED
        BY <3>1, <4>1 DEF OneSession, Runs
    <3>3. UNCHANGED <<lock, refreshing>> /\ deferred' = [deferred EXCEPT ![home[r]] = None]
      BY <1>10, <2>3, <3>2 DEF ResumeHook
    <3>4. deferred'[session] \in {deferred[session], None}
      BY <1>0, <2>1, <3>3
    <3>5. ~Populated(r)
      BY <1>10 DEF ResumeHook, Populated
    <3>6. QED
      BY <1>0, <1>3, <3>1, <3>3, <3>4, <3>5, TurnQuiet
  <2>4. QED
    BY <1>10, <2>2, <2>3 DEF ResumeHook
<1>11. CASE Choose(r)
  <2>1. \A q \in Runs : pc[q] = "hook" => waits[q] \notin Answers
    BY <1>11 DEF Choose, NewTurn, Waiting
  <2>2. \E record : AwaitOrHold(r, session, record)
    BY <1>1, <1>11 DEF Choose, Request
  <2>3. UNCHANGED refreshing
    BY <1>11 DEF Choose
  <2>4. QED
    BY <1>0, <2>1, <2>2, <2>3, TurnTaken DEF Answers
<1>12. CASE BuyBooty(r)
  <2>1. ~Populated(r) /\ UNCHANGED deferred
    BY <1>12 DEF BuyBooty, Populated
  <2>2. pc'[r] \in {"bootyPopulate", "done", "failed"}
    BY <1>0, <1>2, <1>12 DEF BuyBooty, MoveTo
  <2>3. CASE UNCHANGED <<lock, refreshing>>
    BY <1>0, <1>3, <2>1, <2>2, <2>3, TurnQuiet
  <2>4. CASE NewTurn /\ lock = None /\ RefreshInBackground
    <3>1. \A q \in Runs : pc[q] # "hook" /\ pc[q] \notin {"method", "effect", "populating"}
      BY <2>4 DEF TurnHolds, NewTurn, Waiting
    <3>2. \A q \in Runs : pc'[q] \notin {"hook", "method", "effect", "populating"}
      BY <1>0, <2>2, <3>1
    <3>3. QED
      BY <2>4, <3>2 DEF TurnHolds, RefreshInBackground
  <2>5. QED
    BY <1>12, <2>3, <2>4 DEF BuyBooty
<1>13. QED
  BY <1>4, <1>5, <1>6, <1>7, <1>8, <1>9, <1>10, <1>11, <1>12 DEF Call, Transaction

LEMMA TurnStep ==
  ASSUME Types, Fresh, OneSession, TurnInv, Relock = FALSE, [Next]_vars
  PROVE  TurnInv'
<1> USE DistinctAssumption
<1>0. SUFFICES ASSUME Restarting' \/ Shares' PROVE TurnHolds'
  BY DEF TurnInv
<1>1. ASSUME NEW r \in Runs, Request(r) \/ Call(r) \/ Transaction(r) PROVE TurnHolds'
  <2>1. ~Restarting'
    <3>1. boot'[session'] = boot[session] /\ (Live(r) \/ Request(r))
      BY <1>1, RunStays
    <3>2. QED
      BY <3>1 DEF OneSession, Restarting, Request
  <2>2. Shares' /\ Shares /\ UNCHANGED session
    BY <1>0, <1>1, <2>1, SharesStays, RunStays
  <2>3. QED
    BY <1>1, <2>2, TurnRuns DEF TurnInv, Shares
<1>2. ASSUME NEW s \in Sessions, Boot(s) PROVE TurnHolds'
  <2>1. /\ s = session /\ UNCHANGED session /\ s \in Runs
        /\ \/ RestartDeposit(s)
           \/ UNCHANGED process /\ boot[s] # "start"
        /\ \A q \in Runs \ {s} : pc'[q] = pc[q] /\ waits'[q] = waits[q]
    BY <1>2, BootStays DEF Runs
  <2>2. ~Restarting'
    BY <1>2, <2>1, BootStays DEF Restarting
  <2>3. CASE RestartDeposit(s)
    <3>1. Restarting /\ TurnHolds /\ \A q \in Runs : ~Live(q)
      BY <2>1, <2>3 DEF RestartDeposit, TurnInv, OneSession, Restarting
    <3>2. \A q \in Runs : pc[q] \notin {"hook", "method", "effect", "populating"}
      BY <3>1 DEF Live, Ended
    <3>3. name'[s] = "existing" /\ pc'[s] # "idle"
      BY <1>0, <2>1, <2>2 DEF Shares, Depositing
    <3>4. pc[s] = "idle"
      BY <2>3 DEF RestartDeposit, Fresh
    <3>5. tx["new"] = None /\ AwaitOrHold(s, s, tx["existing"]) /\ UNCHANGED refreshing
      BY <2>1, <2>3, <3>3, <3>4 DEF RestartDeposit, Types, TypeOK
    <3>6. QED
      BY <2>1, <3>1, <3>2, <3>5, TurnTaken
  <2>4. CASE UNCHANGED process /\ boot[s] # "start"
    <3>1. Shares /\ TurnHolds
      BY <1>0, <2>1, <2>2, <2>4 DEF Shares, Depositing, process, TurnInv
    <3>2. CASE UNCHANGED <<lock, refreshing, deferred>>
      BY <2>1, <2>4, <3>1, <3>2 DEF process, TurnHolds
    <3>3. CASE NewTurn /\ lock = None /\ RefreshInBackground
      <4>1. \A q \in Runs : pc[q] \notin {"hook", "method", "effect", "populating"}
        BY <3>1, <3>3 DEF TurnHolds, NewTurn, Waiting
      <4>2. QED
        BY <2>4, <3>3, <4>1 DEF TurnHolds, RefreshInBackground, process
    <3>4. QED
      BY <1>2, <2>4, <3>2, <3>3 DEF Boot, RestartDeposit, BootBooty, BootPopulated, populator
  <2>5. QED
    BY <2>1, <2>3, <2>4
<1>3. CASE Crash
  <2>1. \A q \in Runs : pc'[q] \notin {"hook", "method", "effect", "populating"}
    BY <1>3 DEF Crash, Live, Ended
  <2>2. QED
    BY <1>3, <2>1 DEF Crash, TurnHolds
<1>4. CASE \/ LockAndUnlock \/ Flush \/ HubSeesChannel \/ PollerPopulates \/ PollerSettles
           \/ UNCHANGED vars
  <2>1. /\ UNCHANGED <<session, boot, pc, name, deferred>>
        /\ TurnHolds
    BY <1>0, <1>4, AroundStays DEF TurnInv, Restarting, Shares, Depositing
  <2>2. CASE UNCHANGED <<lock, refreshing, waits>>
    BY <2>1, <2>2 DEF TurnHolds
  <2>3. CASE PollerPopulates
    <3>1. \A q \in Runs : pc[q] \notin {"hook", "method", "effect", "populating"}
      BY <2>1, <2>3 DEF PollerPopulates, TurnHolds, NewTurn, Waiting
    <3>2. QED
      BY <2>1, <2>3, <3>1 DEF PollerPopulates, TurnHolds, RefreshInBackground
  <2>4. CASE PollerSettles
    <3>1. lock = Poller /\ lock # None
      BY <2>1, <2>4 DEF PollerSettles, TurnHolds
    <3>2. \A q \in Runs : lock # q
      BY <3>1
    <3>3. PICK outcome \in Answers : Settle(lock, outcome)
      BY <2>4, <3>1 DEF PollerSettles
    <3>4. NewTurn /\ lock' = None /\ ~refreshing'
      BY <2>4 DEF PollerSettles
    <3>5. QED
      BY <2>1, <3>1, <3>2, <3>3, <3>4, TurnSettled
  <2>5. QED
    BY <1>4, <2>2, <2>3, <2>4, AroundStays
       DEF LockAndUnlock, Flush, HubSeesChannel, vars, process, populator
<1>5. QED
  BY <1>1, <1>2, <1>3, <1>4 DEF Next

\* A request works for itself, unless nothing is left to do.
OwnWork == \A r \in Requests : Busy(r) => at[r].job = r

\* The restarted deposit works for a request of an earlier session, or for one that will
\* not work any more in this one.
Over(j) == \/ pc[j] \in Ended
           \/ Shares /\ pc[j] = "hook" /\ waits[j] \in {session, Resolved}
PastWork == Busy(session) => home[at[session].job] < session \/ Over(at[session].job)

\* The record that run q waits to go on with has somebody at work on it, who has the lock,
\* or is for q to take up.
SomeoneAtIt(q) == \E p \in Runs \ {q} : /\ Busy(p) /\ lock = p /\ name[p] = name[q]
                                        /\ at[p].job = tx[name[q]].job
UpForGrabs(q) ==
  LET j == tx[name[q]].job
  IN  /\ \A p \in Runs : Busy(p) => at[p].job # j
      /\ DueFrom(j, name[q], tx[name[q]].index)
      /\ q \in Requests => j = q
      /\ q \in Sessions => home[j] < session \/ pc[j] \in Ended \cup {"hook"}
Waits(q) == pc[q] = "hook" /\ tx[name[q]] # None /\ tx[name[q]].index < Last
WaitsWell == \A q \in Runs : Waits(q) => SomeoneAtIt(q) \/ UpForGrabs(q)

Work == Owed /\ OwnWork /\ PastWork /\ WaitsWell

\* All that holds while sessions follow each other.
SessionInv == /\ OneSession /\ NamesApart /\ RecordsInv /\ Bounded /\ TurnInv /\ Work

Known == Types /\ Fresh /\ HoldsSemaphore /\ SessionInv

LEMMA BusyTypes ==
  ASSUME Types, NEW q \in Runs, Busy(q)
  PROVE  /\ at[q] \in Checkpoints /\ at[q] # None /\ at[q].job \in Jobs
         /\ at[q].job \in Requests /\ at[q].index \in 1 .. Last
         /\ name[q] \in Names /\ Live(q) /\ Depositing(q)
<1>1. at[q] \in Checkpoints /\ name[q] \in Names /\ Live(q) /\ Depositing(q)
  BY DEF Busy, Types, Placed, Inside, Depositing, Live, Ended
<1>2. at[q] # None /\ at[q].job \in Requests /\ at[q].index \in 1 .. Last
  BY <1>1, DistinctAssumption DEF Checkpoints
<1>3. QED
  BY <1>1, <1>2 DEF Jobs, OnRecord

\* Two deposits at a time are the start()'s and one request's.
LEMMA TwoDeposits ==
  ASSUME Known, NEW p \in Runs, NEW q \in Runs, p # q, Depositing(p), Depositing(q)
  PROVE  \/ p = session /\ q \in Requests
         \/ q = session /\ p \in Requests
<1>1. Live(p) /\ Live(q)
  BY DEF Depositing, Live, Ended
<1>2. home[p] = session /\ home[q] = session
  BY <1>1 DEF Known, SessionInv, OneSession
<1>3. ~(p \in Requests /\ q \in Requests)
  BY <1>1, <1>2 DEF Known, HoldsSemaphore
<1>4. (p \in Sessions => p = session) /\ (q \in Sessions => q = session)
  BY <1>1 DEF Known, SessionInv, OneSession
<1>5. QED
  BY <1>3, <1>4 DEF Runs

\* Who shares a transaction with another one does so with the restarted deposit, and then
\* there is one at work at a time.
LEMMA SameName ==
  ASSUME Known, NEW p \in Runs, NEW q \in Runs, p # q, Depositing(p), Depositing(q),
         name[p] = name[q] \/ (pc[p] = "hook" /\ pc[q] = "hook")
  PROVE  Shares /\ TurnHolds /\ name[p] = name[q]
<1>1. ASSUME NEW r \in Requests, Depositing(r), Depositing(session)
      PROVE  name[r] = "existing"
  BY <1>1 DEF Known, SessionInv, NamesApart, Depositing
<1>2. Shares /\ name[p] = name[q]
  BY <1>1, TwoDeposits DEF Known, SessionInv, NamesApart, Shares
<1>3. QED
  BY <1>2 DEF Known, SessionInv, TurnInv

\* No two runs move funds for the same request.
LEMMA BusyApart ==
  ASSUME Known, NEW p \in Runs, NEW q \in Runs, p # q, Busy(p), Busy(q)
  PROVE  at[p].job # at[q].job
<1>1. Depositing(p) /\ Depositing(q) /\ Live(p) /\ Live(q)
  BY BusyTypes DEF Known
<1>2. ASSUME NEW r \in Requests, Busy(r), Busy(session), at[session].job = at[r].job
      PROVE  FALSE
  <2>1. at[session].job = r
    BY <1>2 DEF Known, SessionInv, Work, OwnWork
  <2>2. r \in Runs /\ Live(r)
    BY <1>2, BusyTypes DEF Known, Runs
  <2>3. home[r] = session /\ pc[r] # "hook" /\ pc[r] \notin Ended
    BY <1>2, <2>2 DEF Known, SessionInv, OneSession, Busy, Live
  <2>4. session \in Int
    BY DEF Known, Types, TypeOK, Sessions
  <2>5. QED
    BY <1>2, <2>1, <2>3, <2>4 DEF Known, SessionInv, Work, PastWork, Over
<1>3. QED
  BY <1>1, <1>2, TwoDeposits

\* How a run comes to be at work.
LEMMA BusyAgain ==
  ASSUME Types, NEW r \in Runs, Request(r) \/ Call(r) \/ Transaction(r), Busy(r)'
  PROVE  \/ /\ TakeEffect(r) /\ Busy(r) /\ pc[r] = "method" /\ pc'[r] = "effect"
            /\ UNCHANGED <<at, name, lock, tx>>
         \/ /\ NextMethod(r) /\ Busy(r) /\ pc'[r] = "method" /\ UNCHANGED <<name, lock>>
            /\ at'[r].job = at[r].job /\ at'[r].index = at[r].index + 1
            /\ tx' = [tx EXCEPT ![name[r]] = at'[r]]
         \/ /\ Choose(r) /\ lock = None /\ lock' = r /\ pc'[r] = "method"
            /\ at'[r] = [job |-> r, index |-> 1]
         \/ /\ ResumeHook(r) /\ lock = None /\ lock' = r /\ pc'[r] = "method"
            /\ waits[r] = Resolved
            /\ pc[r] = "hook" /\ tx[name[r]] # None /\ at'[r] = tx[name[r]]
            /\ UNCHANGED <<name, tx>>
<1> USE DistinctAssumption
<1>0. /\ r \in Runs /\ pc = [q \in Runs |-> pc[q]] /\ at = [q \in Runs |-> at[q]]
      /\ pc'[r] \in {"method", "effect"}
  BY DEF Types, TypeOK, Busy
<1>1. ASSUME NEW where \in {"done", "failed"}, EndCall(r, where) PROVE FALSE
  BY <1>0, <1>1 DEF EndCall, MoveTo
<1>2. ASSUME NEW where \in {"refused", "choosing", "bootyPopulate", "finishing", "populating",
                            "finished", "booty"},
             MoveTo(r, where)
      PROVE  FALSE
  BY <1>0, <1>2 DEF MoveTo
<1>3. ASSUME NEW s, NEW record, AwaitOrHold(r, s, record)
      PROVE  lock = None /\ lock' = r /\ pc'[r] = "method" /\ at'[r] = record
  BY <1>0, <1>3 DEF AwaitOrHold, MoveTo
<1>4. CASE TakeEffect(r)
  <2>1. pc[r] = "method" /\ pc'[r] = "effect" /\ UNCHANGED <<at, name, lock, tx>>
    BY <1>0, <1>4 DEF TakeEffect, MoveTo, populator
  <2>2. QED
    BY <1>4, <2>1 DEF Busy
<1>5. CASE NextMethod(r)
  <2>1. /\ pc[r] \in {"method", "effect"} /\ pc'[r] = "method" /\ UNCHANGED <<name, lock>>
        /\ at' = [at EXCEPT ![r].index = @ + 1] /\ tx' = [tx EXCEPT ![name[r]] = at'[r]]
    BY <1>0, <1>5 DEF NextMethod, MoveTo, populator
  <2>2. at[r] \in Checkpoints
    BY <2>1 DEF Types, Placed, Inside
  <2>3. /\ at'[r].job = at[r].job /\ at'[r].index = at[r].index + 1
        /\ at[r].index \in 1 .. Last
    BY <1>0, <2>1, <2>2 DEF Checkpoints
  <2>4. Busy(r)
    BY <2>1, <2>3 DEF Busy, Last
  <2>5. QED
    BY <1>5, <2>1, <2>3, <2>4
<1>6. CASE Choose(r)
  BY <1>3, <1>6 DEF Choose
<1>7. CASE ResumeHook(r)
  BY <1>1, <1>3, <1>7 DEF ResumeHook
<1>8. CASE Request(r) \/ ChooseFails(r) \/ BuyBooty(r) \/ BootyPopulated(r) \/ HookRejects(r)
           \/ FinishTransaction(r) \/ Populated(r) \/ FinishWaited(r) \/ Complete(r)
           \/ MethodThrows(r)
  BY <1>1, <1>2, <1>8 DEF Request, ChooseFails, BuyBooty, BootyPopulated, HookRejects,
     FinishTransaction, Populated, FinishWaited, Complete, MethodThrows
<1>9. QED
  BY <1>4, <1>5, <1>6, <1>7, <1>8 DEF Call, Transaction

\* What is owed stays so, unless it takes effect.
LEMMA DueStays ==
  ASSUME Known, Relock = FALSE, [Next]_vars, session' = session,
         NEW j \in Jobs, NEW m \in Spending, Due(j, m),
         \A q \in Runs : TakeEffect(q) /\ at[q].job = j => Method(q) # m
  PROVE  Due(j, m)'
<1>1. j \in Requests /\ pc[j] \notin Unserved
  BY DEF Jobs, Known, SessionInv, RecordsInv
<1>2. home'[j] = home[j]
  BY <1>1, ServedStays DEF Known, SessionInv, Unserved
<1>3. spent'[j][m] = spent[j][m]
  BY <1>1, SpentOnJobs DEF Known, OnRecord
<1>4. QED
  BY <1>2, <1>3 DEF Due

LEMMA DueFromStays ==
  ASSUME Known, Relock = FALSE, [Next]_vars, session' = session,
         NEW j \in Jobs, NEW n, NEW i, DueFrom(j, n, i),
         \A q \in Runs : TakeEffect(q) => at[q].job # j
  PROVE  DueFrom(j, n, i)'
<1>1. SUFFICES ASSUME NEW k \in 1 .. Last, k >= i, Methods[n][k] \in Spending
               PROVE  Due(j, Methods[n][k])'
  BY DEF DueFrom
<1>2. Due(j, Methods[n][k])
  BY <1>1 DEF DueFrom
<1>3. QED
  BY <1>1, <1>2, DueStays

LEMMA DueFromKept ==
  ASSUME Known, Relock = FALSE, [Next]_vars, UNCHANGED <<session, spent>>,
         NEW j \in Jobs, NEW n, NEW i, DueFrom(j, n, i)
  PROVE  DueFrom(j, n, i)'
<1>1. j \in Requests /\ pc[j] \notin Unserved
  BY DEF Jobs, Known, SessionInv, RecordsInv
<1>2. home'[j] = home[j]
  BY <1>1, ServedStays DEF Known, SessionInv, Unserved
<1>3. QED
  BY <1>2 DEF Due, DueFrom

LEMMA OneEffect ==
  ASSUME Types, NEW r \in Runs, Request(r) \/ Call(r) \/ Transaction(r),
         NEW q \in Runs, TakeEffect(q)
  PROVE  q = r
<1>1. pc[q] = "method" /\ pc'[q] = "effect"
  BY DEF TakeEffect, MoveTo, Types, TypeOK
<1>2. QED
  BY <1>1, RunStays

\* A request that chooses has everything before it.
LEMMA ChosenIsDue ==
  ASSUME Known, NEW r \in Runs, Choose(r), NEW n
  PROVE  /\ r \in Requests /\ r \notin Jobs
         /\ DueFrom(r, n, 1)'
<1>1. /\ r \in Requests /\ pc[r] = "choosing" /\ UNCHANGED <<session, home, spent>> /\ Live(r)
  BY DEF Choose, Known, Types, Placed, Live, Ended
<1>2. r \notin Jobs /\ home[r] = session /\ \A m \in Spending : spent[r][m] = 0
  BY <1>1 DEF Known, SessionInv, RecordsInv, OneSession, Unserved, Runs
<1>3. session \in Int
  BY DEF Known, Types, TypeOK, Sessions
<1>4. QED
  BY <1>1, <1>2, <1>3 DEF DueFrom, Due

\* While nothing is restarted yet, everything on record is due.
LEMMA RestartedIsDue ==
  ASSUME Known, Restarting, NEW j \in Jobs, NEW n, NEW i
  PROVE  DueFrom(j, n, i)
<1>1. j \in Requests /\ home[j] # None
  BY DEF Known, SessionInv, RecordsInv, Jobs
<1>2. QED
  BY <1>1 DEF Known, SessionInv, Bounded, DueFrom

\* Nobody is at work on what a run is about to take up.
LEMMA TakenUp ==
  ASSUME Known, NEW r \in Runs, ResumeHook(r), lock = None, tx[name[r]] # None,
         tx[name[r]].index < Last
  PROVE  UpForGrabs(r)
<1>1. Waits(r)
  BY DEF ResumeHook, Waits
<1>2. ~SomeoneAtIt(r)
  BY DistinctAssumption DEF SomeoneAtIt
<1>3. QED
  BY <1>1, <1>2 DEF Known, SessionInv, Work, WaitsWell

LEMMA OwedStep ==
  ASSUME Known, Relock = FALSE, [Next]_vars
  PROVE  Owed'
<1> USE DistinctAssumption
<1> DEFINE From(q) == IF pc[q] = "method" THEN at[q].index ELSE at[q].index + 1
<1>0. Types
  BY DEF Known
<1>1. SUFFICES ASSUME NEW q \in Runs, Busy(q)'
               PROVE  DueFrom(at[q].job, name[q], From(q))'
  BY DEF Owed
<1>2. Busy(q) => /\ DueFrom(at[q].job, name[q], From(q))
                 /\ at[q].job \in Jobs
  BY <1>0, BusyTypes DEF Known, SessionInv, Work, Owed
<1>3. ASSUME NEW r \in Runs, Request(r) \/ Call(r) \/ Transaction(r)
      PROVE  DueFrom(at[q].job, name[q], From(q))'
  <2>0. session' = session
    BY <1>0, <1>3, RunStays
  <2>1. CASE q # r
    <3>1. pc'[q] = pc[q] /\ at'[q] = at[q] /\ name'[q] = name[q] /\ Busy(q)
      BY <1>0, <1>1, <1>3, <2>1, RunStays DEF Busy
    <3>2. ASSUME NEW p \in Runs, TakeEffect(p) PROVE at[p].job # at[q].job
      <4>1. p = r
        BY <1>0, <1>3, <3>2, OneEffect
      <4>2. Busy(p)
        BY <3>2, EffectIsDue DEF Known, SessionInv, Work
      <4>3. QED
        BY <2>1, <3>1, <4>1, <4>2, BusyApart
    <3>3. PICK j \in Jobs, n \in Names, i \in Nat :
            j = at[q].job /\ n = name[q] /\ i = From(q) /\ DueFrom(j, n, i)
      BY <1>0, <1>2, <3>1, BusyTypes DEF Last
    <3>4. DueFrom(j, n, i)'
      BY <2>0, <3>2, <3>3, DueFromStays
    <3>5. QED
      BY <3>1, <3>3, <3>4
  <2>2. CASE q = r
    <3>1. CASE TakeEffect(r) /\ Busy(r) /\ pc[r] = "method" /\ pc'[r] = "effect"
               /\ UNCHANGED <<at, name>>
      <4>1. PICK j \in Jobs, n \in Names, i \in 1 .. Last :
              j = at[r].job /\ n = name[r] /\ i = at[r].index /\ DueFrom(j, n, i)
        BY <1>0, <1>2, <2>2, <3>1, BusyTypes
      <4>2. SUFFICES ASSUME NEW k \in 1 .. Last, k >= i + 1, Methods[n][k] \in Spending
                     PROVE  Due(j, Methods[n][k])'
        BY <2>2, <3>1, <4>1 DEF DueFrom, Due
      <4>3. Due(j, Methods[n][k])
        BY <4>1, <4>2 DEF DueFrom, Last
      <4>4. ASSUME NEW p \in Runs, TakeEffect(p) PROVE Method(p) # Methods[n][k]
        <5>1. p = r /\ Method(r) \in Spending
          BY <1>0, <1>3, <4>4, OneEffect DEF TakeEffect
        <5>2. k # i
          BY <4>1, <4>2 DEF Last
        <5>3. Methods[n][i] \in Spending
          BY <4>1, <5>1 DEF Method
        <5>4. Methods[n][k] # Methods[n][i]
          BY <5>2, <5>3, MethodsDiffer
        <5>5. QED
          BY <4>1, <5>1, <5>4 DEF Method
      <4>5. QED
        BY <2>0, <4>2, <4>3, <4>4, DueStays
    <3>2. CASE NextMethod(r) /\ Busy(r) /\ pc'[r] = "method" /\ UNCHANGED name
               /\ at'[r].job = at[r].job /\ at'[r].index = at[r].index + 1
      <4>1. /\ at[r].job \in Jobs /\ at[r].index \in 1 .. Last
        BY <1>0, <3>2, BusyTypes
      <4>2. DueFrom(at[r].job, name[r], at[r].index + 1)
        BY <1>2, <2>2, <3>2, <4>1 DEF DueFrom, Last
      <4>3. UNCHANGED spent
        BY <3>2 DEF NextMethod
      <4>4. \A j \in Jobs : DueFrom(j, name[r], at[r].index + 1)
              => \A k \in 1 .. Last : k >= at[r].index + 1 /\ Methods[name[r]][k] \in Spending
                   => spent'[j][Methods[name[r]][k]] <= session' - home'[j]
        <5>1. UNCHANGED home
          BY <3>2 DEF NextMethod
        <5>2. QED
          BY <2>0, <4>3, <5>1 DEF DueFrom, Due
      <4>5. QED
        BY <2>2, <3>2, <4>1, <4>2, <4>4 DEF DueFrom, Due
    <3>3. CASE Choose(r) /\ pc'[r] = "method" /\ at'[r] = [job |-> r, index |-> 1]
      <4>1. \A n : DueFrom(r, n, 1)'
        BY <3>3, ChosenIsDue
      <4>2. QED
        BY <2>2, <3>3, <4>1 DEF DueFrom, Due
    <3>4. CASE /\ ResumeHook(r) /\ lock = None /\ pc'[r] = "method"
               /\ tx[name[r]] # None /\ at'[r] = tx[name[r]] /\ UNCHANGED name
      <4>1. tx[name[r]].index < Last
        BY <1>1, <2>2, <3>4 DEF Busy
      <4>2. DueFrom(tx[name[r]].job, name[r], tx[name[r]].index)
        BY <3>4, <4>1, TakenUp DEF UpForGrabs
      <4>3. UNCHANGED <<home, spent>>
        BY <3>4 DEF ResumeHook
      <4>4. QED
        BY <2>0, <2>2, <3>4, <4>2, <4>3 DEF DueFrom, Due
    <3>5. QED
      BY <1>0, <1>1, <1>3, <2>2, <3>1, <3>2, <3>3, <3>4, BusyAgain
  <2>3. QED
    BY <2>1, <2>2
<1>4. CASE /\ UNCHANGED <<session, spent>> /\ Busy(q)
           /\ pc'[q] = pc[q] /\ at'[q] = at[q] /\ name'[q] = name[q]
  <2>1. at[q].job \in Jobs /\ DueFrom(at[q].job, name[q], From(q))
    BY <1>2, <1>4
  <2>2. home'[at[q].job] = home[at[q].job]
    <3>1. at[q].job \in Requests /\ pc[at[q].job] \notin Unserved
      BY <2>1 DEF Jobs, Known, SessionInv, RecordsInv
    <3>2. QED
      BY <3>1, ServedStays DEF Known, SessionInv, Unserved
  <2>3. QED
    BY <1>4, <2>1, <2>2 DEF DueFrom, Due
<1>5. ASSUME NEW s \in Sessions, Boot(s)
      PROVE  DueFrom(at[q].job, name[q], From(q))'
  <2>1. /\ s = session /\ UNCHANGED <<session, spent, tx>> /\ s \in Runs
        /\ RestartDeposit(s) \/ UNCHANGED process
        /\ \A p \in Runs \ {s} : /\ pc'[p] = pc[p] /\ at'[p] = at[p] /\ name'[p] = name[p]
                                 /\ home'[p] = home[p]
    BY <1>0, <1>5, BootStays DEF Known, SessionInv, Runs
  <2>2. CASE q # s \/ UNCHANGED process
    BY <1>1, <1>4, <2>1, <2>2 DEF process, Busy
  <2>3. CASE q = s /\ RestartDeposit(s)
    <3>1. Restarting /\ pc[s] = "idle"
      BY <2>1, <2>3 DEF RestartDeposit, Restarting, Known, Fresh
    <3>2. ASSUME NEW record, AwaitOrHold(s, s, record), pc'[s] = "method"
          PROVE  at'[s] = record
      BY <2>1, <3>2 DEF AwaitOrHold, MoveTo, Types, TypeOK, Known
    <3>3. PICK n \in Names : tx[n] # None /\ at'[s] = tx[n] /\ pc'[s] = "method"
      <4>1. pc'[s] \in {"hook", "method"} \/ UNCHANGED pc
        BY <2>1, <2>3 DEF RestartDeposit, AwaitOrHold, MoveTo, Types, TypeOK, Known
      <4>2. pc'[s] = "method"
        BY <1>1, <2>1, <2>3, <3>1, <4>1 DEF Busy
      <4>3. QED
        BY <2>1, <2>3, <3>1, <3>2, <4>2, NamesAre DEF RestartDeposit, Known, Types, TypeOK
    <3>4. at'[s].job \in Jobs /\ at'[s].job \in Requests
      <4>1. tx[n] \in Checkpoints
        BY <3>3 DEF Known, Types, TypeOK
      <4>2. QED
        BY <3>3, <4>1 DEF Checkpoints, Jobs, OnRecord
    <3>5. \A m, i : DueFrom(at'[s].job, m, i)
      BY <3>1, <3>4, RestartedIsDue
    <3>6. home'[at'[s].job] = home[at'[s].job]
      BY <2>1, <3>4 DEF Runs
    <3>7. QED
      BY <2>1, <2>3, <3>5, <3>6 DEF DueFrom, Due
  <2>4. QED
    BY <2>1, <2>2, <2>3
<1>6. CASE Crash
  <2>1. pc'[q] \notin {"method", "effect"}
    BY <1>6 DEF Crash, Live, Ended
  <2>2. QED
    BY <1>1, <2>1 DEF Busy
<1>7. CASE \/ LockAndUnlock \/ Flush \/ HubSeesChannel \/ PollerPopulates \/ PollerSettles
           \/ UNCHANGED vars
  BY <1>0, <1>1, <1>4, <1>7, AroundStays DEF Busy
<1>8. QED
  BY <1>3, <1>5, <1>6, <1>7 DEF Next

LEMMA OwnWorkStep ==
  ASSUME Known, Relock = FALSE, [Next]_vars
  PROVE  OwnWork'
<1>0. Types
  BY DEF Known
<1>1. SUFFICES ASSUME NEW q \in Requests, Busy(q)' PROVE at'[q].job = q
  BY DEF OwnWork
<1>2. q \in Runs /\ (Busy(q) => at[q].job = q)
  BY DEF Known, SessionInv, Work, OwnWork, Runs
<1>3. CASE pc'[q] = pc[q] /\ at'[q] = at[q]
  BY <1>1, <1>2, <1>3 DEF Busy
<1>4. CASE Request(q) \/ Call(q) \/ Transaction(q)
  <2>1. CASE Busy(q) /\ at'[q].job = at[q].job
    BY <1>2, <2>1
  <2>2. CASE at'[q] = [job |-> q, index |-> 1]
    BY <2>2
  <2>3. CASE ResumeHook(q) /\ lock = None /\ tx[name[q]] # None /\ at'[q] = tx[name[q]]
    <3>1. tx[name[q]].index < Last
      BY <1>1, <2>3 DEF Busy
    <3>2. QED
      BY <1>2, <2>3, <3>1, TakenUp DEF UpForGrabs
  <2>4. QED
    BY <1>0, <1>1, <1>2, <1>4, <2>1, <2>2, <2>3, BusyAgain
<1>5. ASSUME NEW r \in Runs \ {q}, Request(r) \/ Call(r) \/ Transaction(r) PROVE at'[q].job = q
  BY <1>0, <1>2, <1>3, <1>5, RunStays
<1>6. ASSUME NEW s \in Sessions, Boot(s) PROVE at'[q].job = q
  <2>1. s # q
    BY DistinctAssumption
  <2>2. QED
    BY <1>0, <1>2, <1>3, <1>6, <2>1, BootStays DEF Known, SessionInv
<1>7. CASE Crash
  <2>1. pc'[q] \notin {"method", "effect"}
    BY <1>2, <1>7 DEF Crash, Live, Ended
  <2>2. QED
    BY <1>1, <2>1 DEF Busy
<1>8. CASE \/ LockAndUnlock \/ Flush \/ HubSeesChannel \/ PollerPopulates \/ PollerSettles
           \/ UNCHANGED vars
  BY <1>0, <1>3, <1>8, AroundStays
<1>9. QED
  BY <1>2, <1>4, <1>5, <1>6, <1>7, <1>8 DEF Next

\* Whoever will not work any more in this session still will not.
LEMMA OverStays ==
  ASSUME Known, Relock = FALSE, [Next]_vars, session' = session,
         TurnHolds, lock = session, Depositing(session)', name'[session] = "existing",
         ~Populated(session), NEW j \in Jobs, Over(j)
  PROVE  Over(j)'
<1> USE DistinctAssumption
<1>0. /\ j \in Requests /\ j \in Runs /\ Types /\ pc[j] # "idle" /\ Shares'
      /\ session \in Sessions /\ session \in Runs /\ session # j
  BY DEF Jobs, Known, SessionInv, RecordsInv, Unserved, Shares, Types, TypeOK, Runs
<1>1. CASE pc'[j] = pc[j] /\ waits'[j] = waits[j]
  BY <1>0, <1>1 DEF Over
<1>2. ASSUME NEW r \in Runs, Request(r) \/ Call(r) \/ Transaction(r) PROVE Over(j)'
  <2>1. ~Populated(r)
    <3>1. Populated(r) => lock = r
      BY DEF Populated, TurnHolds
    <3>2. QED
      BY <3>1
  <2>2. CASE r # j
    BY <1>0, <1>1, <1>2, <2>1, <2>2, RunStays, OthersWait
  <2>3. CASE r = j
    <3>1. Live(j)
      BY <1>0, <1>2, <2>3, RunStays DEF Request
    <3>2. pc[j] = "hook" /\ waits[j] \in {session, Resolved}
      BY <3>1 DEF Over, Live
    <3>3. waits[j] = Resolved /\ ResumeHook(j)
      BY <1>0, <1>2, <2>3, <3>2
         DEF Request, Call, Transaction, Choose, ChooseFails, BuyBooty, BootyPopulated, ResumeHook,
         HookRejects, TakeEffect, NextMethod, FinishTransaction, Populated, FinishWaited, Complete,
         MethodThrows, Runs
    <3>4. AwaitOrHold(j, home[j], tx[name[j]]) /\ lock # None
      BY <1>0, <3>3 DEF ResumeHook
    <3>5. pc'[j] = "hook" /\ waits'[j] = session
      BY <1>0, <3>4 DEF AwaitOrHold, MoveTo, Types, TypeOK
    <3>6. QED
      BY <1>0, <3>5 DEF Over
  <2>4. QED
    BY <2>2, <2>3
<1>3. ASSUME NEW s \in Sessions, Boot(s) PROVE Over(j)'
  <2>1. s # j
    BY <1>0
  <2>2. QED
    BY <1>0, <1>1, <1>3, <2>1, BootStays DEF Known, SessionInv
<1>4. ~Crash
  BY <1>0 DEF Crash, NextSession, Sessions
<1>5. CASE \/ LockAndUnlock \/ Flush \/ HubSeesChannel \/ PollerPopulates \/ PollerSettles
           \/ UNCHANGED vars
  <2>1. ~PollerSettles
    BY <1>0 DEF PollerSettles, TurnHolds, Runs
  <2>2. UNCHANGED <<pc, waits>>
    BY <1>0, <1>5, <2>1, AroundStays DEF LockAndUnlock, Flush, HubSeesChannel, PollerPopulates,
       vars, process
  <2>3. QED
    BY <1>1, <2>2
<1>6. QED
  BY <1>2, <1>3, <1>4, <1>5 DEF Next

LEMMA PastWorkStep ==
  ASSUME Known, Relock = FALSE, [Next]_vars, session' = session
  PROVE  PastWork'
<1> USE DistinctAssumption
<1>0. /\ Types /\ OneSession /\ session \in Sessions /\ session \in Runs
      /\ session \notin Requests /\ session \in Int
  <2>1. Types /\ OneSession /\ session \in Sessions
    BY DEF Known, SessionInv, Types, TypeOK
  <2>2. QED
    BY <2>1 DEF Runs, Sessions
<1>1. SUFFICES ASSUME Busy(session)', NEW g, g = at'[session].job
               PROVE  home'[g] < session \/ Over(g)'
  BY DEF PastWork, Busy, Over
<1>2. ASSUME NEW j \in Jobs, home[j] < session PROVE home'[j] < session
  <2>1. j \in Requests /\ pc[j] # "idle"
    BY DEF Jobs, Known, SessionInv, RecordsInv, Unserved
  <2>2. QED
    BY <1>0, <1>2, <2>1, ServedStays DEF Known
\* It goes on with what it was at.
<1>3. ASSUME Busy(session), at'[session].job = at[session].job, name'[session] = name[session],
             ~Populated(session)
      PROVE  home'[g] < session \/ Over(g)'
  <2>1. PICK j \in Jobs : j = at[session].job /\ j = g
    BY <1>0, <1>1, <1>3, BusyTypes
  <2>2. CASE home[j] < session
    BY <1>2, <1>3, <2>1, <2>2
  <2>3. CASE Over(j)
    <3>1. Depositing(session) /\ Depositing(session)'
      BY <1>1, <1>3 DEF Busy, Depositing
    <3>2. j \in Runs /\ pc[j] # "idle"
      BY DEF Jobs, Known, SessionInv, RecordsInv, Unserved, Runs
    <3>3. CASE Shares
      <4>1. TurnHolds /\ lock = session /\ name'[session] = "existing"
        BY <1>0, <1>3, <3>3 DEF Known, SessionInv, TurnInv, TurnHolds, Busy, Shares
      <4>2. QED
        BY <1>3, <2>1, <2>3, <3>1, <4>1, OverStays
    <3>4. CASE ~Shares
      <4>1. pc[j] \in Ended /\ pc[j] # "idle"
        BY <2>3, <3>2, <3>4 DEF Over
      <4>2. pc'[j] = pc[j]
        <5>1. ASSUME NEW r \in Runs, Request(r) \/ Call(r) \/ Transaction(r)
              PROVE  pc'[j] = pc[j]
          <6>1. r # j
            BY <1>0, <4>1, <5>1, RunStays DEF Live, Request
          <6>2. QED
            BY <1>0, <3>2, <5>1, <6>1, RunStays
        <5>2. ASSUME NEW s \in Sessions, Boot(s) PROVE pc'[j] = pc[j]
          <6>1. s # j
            BY DEF Jobs
          <6>2. QED
            BY <1>0, <3>2, <5>2, <6>1, BootStays
        <5>3. ~Crash
          BY <1>0 DEF Crash, NextSession
        <5>4. QED
          BY <1>0, <5>1, <5>2, <5>3, AroundStays DEF Next
      <4>3. QED
        BY <1>3, <2>1, <4>1, <4>2 DEF Over
    <3>5. QED
      BY <3>3, <3>4
  <2>4. QED
    BY <1>3, <2>1, <2>2, <2>3 DEF Known, SessionInv, Work, PastWork
<1>4. ASSUME NEW r \in Runs, Request(r) \/ Call(r) \/ Transaction(r)
      PROVE  home'[g] < session \/ Over(g)'
  <2>1. CASE r # session
    <3>1. /\ pc'[session] = pc[session] /\ at'[session] = at[session]
          /\ name'[session] = name[session]
      BY <1>0, <1>4, <2>1, RunStays
    <3>2. Busy(session) /\ ~Populated(session)
      BY <1>1, <3>1 DEF Busy, Populated
    <3>3. QED
      BY <1>3, <3>1, <3>2
  <2>2. CASE r = session
    <3>1. CASE Busy(session) /\ at'[session].job = at[session].job /\ UNCHANGED name
      <4>1. ~Populated(session)
        BY <3>1 DEF Busy, Populated
      <4>2. QED
        BY <1>3, <3>1, <4>1
    <3>2. ~Choose(session)
      BY <1>0 DEF Choose, Types, Placed
    <3>3. CASE /\ ResumeHook(session) /\ lock = None /\ pc'[session] = "method"
               /\ pc[session] = "hook" /\ waits[session] = Resolved
               /\ tx[name[session]] # None /\ at'[session] = tx[name[session]]
               /\ UNCHANGED <<name, tx>>
      <4>1. tx[name[session]].index < Last /\ name[session] = "existing"
        BY <1>1, <3>3 DEF Busy, Known, SessionInv, NamesApart
      <4>2. tx[name[session]] \in Checkpoints
        BY <1>0, <3>3, <4>1, NamesAre DEF Types, TypeOK
      <4>3. PICK j \in Jobs : j = tx[name[session]].job /\ j = g
        BY <1>1, <3>3, <4>1, <4>2, NamesAre DEF Checkpoints, Jobs, OnRecord
      <4>4. home[j] < session \/ pc[j] \in Ended \cup {"hook"}
        BY <1>0, <3>3, <4>1, <4>3, TakenUp DEF UpForGrabs
      <4>5. CASE home[j] < session
        BY <1>2, <3>3, <4>3, <4>5
      <4>6. j \in Runs /\ j # session
        BY <1>0 DEF Jobs, Runs
      <4>7. pc'[j] = pc[j] /\ waits'[j] = waits[j]
        BY <1>0, <1>4, <2>2, <3>3, <4>6, RunStays, OthersWait DEF ResumeHook, Populated
      <4>8. CASE pc[j] \in Ended
        BY <3>3, <4>3, <4>7, <4>8 DEF Over
      <4>9. CASE pc[j] = "hook"
        <5>1. Shares /\ Shares'
          BY <3>3, <4>1 DEF Shares, Depositing
        <5>2. TurnHolds
          BY <5>1 DEF Known, SessionInv, TurnInv
        <5>3. waits[j] = Resolved
          BY <1>0, <3>3, <4>6, <4>9, <5>2 DEF TurnHolds, Answers
        <5>4. QED
          BY <3>3, <4>3, <4>7, <4>9, <5>1, <5>3 DEF Over
      <4>10. QED
        BY <4>4, <4>5, <4>8, <4>9
    <3>4. QED
      BY <1>0, <1>1, <1>4, <2>2, <3>1, <3>2, <3>3, BusyAgain
  <2>3. QED
    BY <2>1, <2>2
<1>5. ASSUME NEW s \in Sessions, Boot(s)
      PROVE  home'[g] < session \/ Over(g)'
  <2>1. s = session /\ UNCHANGED tx /\ (RestartDeposit(s) \/ UNCHANGED process)
    BY <1>0, <1>5, BootStays
  <2>2. CASE UNCHANGED process
    <3>1. Busy(session) /\ ~Populated(session) /\ UNCHANGED <<at, name>>
      BY <1>1, <2>2 DEF process, Busy, Populated, MoveTo
    <3>2. QED
      BY <1>3, <3>1
  <2>3. CASE RestartDeposit(s) /\ s = session
    <3>1. Restarting /\ pc[s] = "idle"
      BY <2>3 DEF RestartDeposit, Restarting, Known, Fresh
    <3>2. ASSUME NEW record, AwaitOrHold(s, s, record), pc'[s] = "method"
          PROVE  at'[s] = record
      BY <1>0, <2>3, <3>2 DEF AwaitOrHold, MoveTo, Types, TypeOK
    <3>3. PICK n \in Names : tx[n] # None /\ at'[s] = tx[n]
      <4>1. pc'[s] \in {"hook", "method"} \/ UNCHANGED pc
        BY <1>0, <2>3 DEF RestartDeposit, AwaitOrHold, MoveTo, Types, TypeOK
      <4>2. pc'[s] = "method"
        BY <1>1, <2>3, <3>1, <4>1 DEF Busy
      <4>3. QED
        BY <1>0, <2>3, <3>1, <3>2, <4>2, NamesAre DEF RestartDeposit, Types, TypeOK
    <3>4. PICK j \in Jobs : j = tx[n].job /\ j = g
      <4>1. tx[n] \in Checkpoints
        BY <1>0, <3>3 DEF Types, TypeOK
      <4>2. QED
        BY <1>1, <2>3, <3>3, <4>1 DEF Checkpoints, Jobs, OnRecord
    <3>5. home[j] < session
      BY <3>1, <3>3, <3>4 DEF Known, SessionInv, RecordsInv, OnRecord, Jobs
    <3>6. QED
      BY <1>2, <2>3, <3>3, <3>4, <3>5
  <2>4. QED
    BY <1>0, <1>5, <2>2, <2>3, BootStays
<1>6. ~Crash
  BY <1>0 DEF Crash, NextSession
<1>7. CASE \/ LockAndUnlock \/ Flush \/ HubSeesChannel \/ PollerPopulates \/ PollerSettles
           \/ UNCHANGED vars
  <2>1. UNCHANGED <<pc, at, name>>
    BY <1>0, <1>7, AroundStays
  <2>2. Busy(session)
    BY <1>1, <2>1 DEF Busy
  <2>3. ~Populated(session)
    BY <2>2 DEF Busy, Populated
  <2>4. QED
    BY <1>3, <2>1, <2>2, <2>3
<1>8. QED
  BY <1>4, <1>5, <1>6, <1>7 DEF Next

\* How a run comes to wait, and what that leaves alone.
LEMMA WaitsAgain ==
  ASSUME Types, NEW r \in Runs, Request(r) \/ Call(r) \/ Transaction(r), pc'[r] = "hook"
  PROVE  /\ lock # None /\ UNCHANGED lock
         /\ \/ /\ Choose(r)
               /\ tx' = [tx EXCEPT ![name'[r]] = [job |-> r, index |-> 1]] /\ name'[r] \in Names
            \/ ResumeHook(r) /\ pc[r] = "hook" /\ UNCHANGED <<name, tx>>
<1> USE DistinctAssumption
<1>0. r \in Runs /\ pc = [q \in Runs |-> pc[q]] /\ name = [q \in Runs |-> name[q]]
  BY DEF Types, TypeOK
<1>1. ASSUME NEW where \in {"done", "failed"}, EndCall(r, where) PROVE FALSE
  BY <1>0, <1>1 DEF EndCall, MoveTo
<1>2. ASSUME NEW where \in {"refused", "choosing", "bootyPopulate", "finishing", "populating",
                            "finished", "booty", "method", "effect"},
             MoveTo(r, where)
      PROVE  FALSE
  BY <1>0, <1>2 DEF MoveTo
<1>3. ASSUME NEW s, NEW record, AwaitOrHold(r, s, record)
      PROVE  lock # None /\ UNCHANGED lock
  BY <1>0, <1>3 DEF AwaitOrHold, MoveTo
<1>4. CASE Choose(r)
  BY <1>0, <1>3, <1>4, NamesAre DEF Choose
<1>5. CASE ResumeHook(r)
  BY <1>1, <1>3, <1>5 DEF ResumeHook
<1>6. CASE Request(r) \/ ChooseFails(r) \/ BuyBooty(r) \/ BootyPopulated(r) \/ HookRejects(r)
           \/ FinishTransaction(r) \/ Populated(r) \/ FinishWaited(r) \/ Complete(r)
           \/ MethodThrows(r)
  BY <1>1, <1>2, <1>6 DEF Request, ChooseFails, BuyBooty, BootyPopulated, HookRejects,
     FinishTransaction, Populated, FinishWaited, Complete, MethodThrows
<1>7. CASE TakeEffect(r) \/ NextMethod(r)
  BY <1>2, <1>7 DEF TakeEffect, NextMethod
<1>8. QED
  BY <1>4, <1>5, <1>6, <1>7 DEF Call, Transaction

\* What a step of a run writes.
LEMMA RunWrites ==
  ASSUME Types, NEW r \in Runs, Request(r) \/ Call(r) \/ Transaction(r)
  PROVE  \/ UNCHANGED tx /\ ~Choose(r) /\ ~NextMethod(r)
         \/ Choose(r) /\ name'[r] \in Names
            /\ tx' = [tx EXCEPT ![name'[r]] = [job |-> r, index |-> 1]]
         \/ NextMethod(r) /\ name[r] \in Names /\ tx' = [tx EXCEPT ![name[r]] = at'[r]]
         \/ (Complete(r) \/ MethodThrows(r)) /\ name[r] \in Names /\ Depositing(r)
            /\ tx' = [tx EXCEPT ![name[r]] = None]
<1>0. r \in Runs /\ name = [q \in Runs |-> name[q]]
  BY DEF Types, TypeOK
<1>1. CASE Choose(r)
  BY <1>0, <1>1, NamesAre DEF Choose
<1>2. CASE NextMethod(r)
  BY <1>2 DEF NextMethod, Types, Placed, Depositing
<1>3. CASE Complete(r) \/ MethodThrows(r)
  <2>1. Depositing(r)
    BY <1>3 DEF Complete, MethodThrows, Depositing
  <2>2. QED
    BY <1>3, <2>1 DEF Complete, MethodThrows, CleanUp, Types, Placed
<1>4. CASE /\ ~Choose(r) /\ ~NextMethod(r)
           /\ ~Complete(r) /\ ~MethodThrows(r)
  BY <1>4 DEF Request, Call, Transaction, ChooseFails, BuyBooty, BootyPopulated, ResumeHook,
     HookRejects, TakeEffect, FinishTransaction, Populated, FinishWaited
<1>5. QED
  BY <1>1, <1>2, <1>3, <1>4

\* The record that somebody has just taken up, who has the lock.
LEMMA TakenIsAttended ==
  ASSUME NEW q \in Runs, NEW r \in Runs, q # r, Busy(r), lock = r, name[r] = name[q],
         at[r].job = tx[name[q]].job
  PROVE  SomeoneAtIt(q)
  BY DEF SomeoneAtIt

\* A run that already waits, while run r takes a step.
LEMMA WaiterRuns ==
  ASSUME Known, Relock = FALSE, [Next]_vars, TurnInv', NEW r \in Runs,
         Request(r) \/ Call(r) \/ Transaction(r), NEW q \in Runs \ {r}, Waits(q)'
  PROVE  SomeoneAtIt(q)' \/ UpForGrabs(q)'
<1> USE DistinctAssumption
<1>0. /\ Types /\ UNCHANGED session /\ session \in Runs /\ session \in Sessions
      /\ session \notin Requests
      /\ q \in Runs /\ q # r
      /\ pc'[q] = pc[q] /\ name'[q] = name[q] /\ pc[q] = "hook" /\ Depositing(q)
      /\ name[q] \in Names
  <2>1. Types
    BY DEF Known
  <2>2. session \in Sessions /\ session \in Runs /\ session \notin Requests
    BY <2>1 DEF Types, TypeOK, Runs
  <2>3. pc'[q] = pc[q] /\ name'[q] = name[q] /\ UNCHANGED session
    BY <2>1, RunStays
  <2>4. pc[q] = "hook" /\ Depositing(q)
    BY <2>3 DEF Waits, Depositing
  <2>5. QED
    BY <2>1, <2>2, <2>3, <2>4 DEF Types, Placed
<1>1. tx \in [Names -> Checkpoints \cup {None}]
  BY <1>0 DEF Types, TypeOK
\* If r is of another transaction, or not at all, this is not changed.
<1>2. ASSUME Depositing(r)', Depositing(r), name'[r] = name[r], name[r] = name[q]
      PROVE  Shares' /\ TurnHolds' /\ Shares /\ TurnHolds
  <2>1. Shares /\ TurnHolds /\ (q = session \/ r = session)
    BY <1>0, <1>2, SameName, TwoDeposits
  <2>2. Shares'
    BY <1>0, <1>2, <2>1 DEF Shares, Depositing
  <2>3. QED
    BY <2>1, <2>2 DEF TurnInv
<1>3. CASE Choose(r)
  <2>0. r \in Requests /\ q = session
    <3>1. r \in Requests /\ Live(r) /\ Live(q)
      BY <1>0, <1>3, ChosenIsDue DEF Choose, Live, Ended
    <3>2. home[r] = session /\ home[q] = session
      BY <3>1 DEF Known, SessionInv, OneSession
    <3>3. q \notin Requests
      BY <1>0, <3>1, <3>2 DEF Known, HoldsSemaphore
    <3>4. QED
      BY <1>0, <3>1, <3>3 DEF Known, SessionInv, OneSession, Runs
  <2>1. /\ name'[r] \in Names /\ tx' = [tx EXCEPT ![name'[r]] = [job |-> r, index |-> 1]]
        /\ pc'[r] \in {"hook", "method"} /\ Depositing(r)'
    <3>1. pc'[r] \in {"hook", "method"}
      BY <1>0, <1>3 DEF Choose, AwaitOrHold, MoveTo, Types, TypeOK
    <3>2. QED
      BY <1>0, <1>3, <3>1, RunWrites DEF Depositing, NextMethod, Complete, MethodThrows, Choose
  <2>2. name'[r] = name[q] /\ boot[session] = "ready"
    <3>1. Live(r)
      BY <1>3 DEF Choose, Live, Ended
    <3>2. boot[session] = "ready" /\ pc[session] = "hook"
      BY <1>0, <2>0, <3>1 DEF Known, SessionInv, OneSession
    <3>3. hubChannel /\ name[session] = "existing"
      BY <3>2 DEF Known, SessionInv, NamesApart
    <3>4. name'[r] = IF hubChannel THEN "existing" ELSE "new"
      BY <1>0, <1>3, NamesStay DEF Call
    <3>5. QED
      BY <2>0, <3>2, <3>3, <3>4
  <2>3. tx'[name'[q]] = [job |-> r, index |-> 1]
    BY <1>0, <1>1, <2>1, <2>2
  <2>4. CASE pc'[r] = "method"
    <3>1. /\ lock' = r /\ at'[r] = [job |-> r, index |-> 1]
      BY <1>0, <1>3, <2>4 DEF Choose, AwaitOrHold, MoveTo, Types, TypeOK
    <3>2. Busy(r)'
      BY <2>4, <3>1 DEF Busy, Last
    <3>3. SomeoneAtIt(q)'
      BY <1>0, <2>2, <2>3, <3>1, <3>2 DEF SomeoneAtIt
    <3>4. QED
      BY <3>3
  <2>5. CASE pc'[r] = "hook"
    <3>1. ASSUME NEW p \in Runs, Busy(p)' PROVE at'[p].job # r
      <4>1. p # r
        BY <2>5, <3>1 DEF Busy
      <4>2. Busy(p) /\ at'[p] = at[p]
        BY <1>0, <3>1, <4>1, RunStays DEF Busy
      <4>3. at[p].job \in Jobs
        BY <1>0, <4>2, BusyTypes
      <4>4. QED
        BY <1>3, <4>2, <4>3, ChosenIsDue
    <3>2. \A n : DueFrom(r, n, 1)'
      BY <1>3, ChosenIsDue
    <3>3. UpForGrabs(q)'
      BY <1>0, <2>0, <2>3, <2>5, <3>1, <3>2 DEF UpForGrabs, DueFrom, Due
    <3>4. QED
      BY <3>3
  <2>6. QED
    BY <2>1, <2>4, <2>5
<1>4. CASE NextMethod(r) /\ name[r] = name[q]
  <2>1. /\ tx' = [tx EXCEPT ![name[r]] = at'[r]] /\ UNCHANGED name
        /\ pc'[r] = "method" /\ Depositing(r) /\ Depositing(r)'
    BY <1>0, <1>4 DEF NextMethod, MoveTo, Depositing, Types, TypeOK
  <2>2. tx'[name'[q]] = at'[r]
    BY <1>0, <1>1, <1>4, <2>1
  <2>3. Busy(r)'
    BY <2>1, <2>2 DEF Waits, Busy
  <2>4. lock' = r
    BY <1>2, <1>4, <2>1 DEF TurnHolds
  <2>5. QED
    BY <1>0, <1>4, <2>1, <2>2, <2>3, <2>4 DEF SomeoneAtIt
<1>5. CASE (Complete(r) \/ MethodThrows(r)) /\ name[r] = name[q]
  <2>1. tx'[name'[q]] = None
    <3>1. tx' = [tx EXCEPT ![name[r]] = None]
      BY <1>5 DEF Complete, MethodThrows, CleanUp
    <3>2. QED
      BY <1>0, <1>1, <1>5, <3>1
  <2>2. QED
    BY <2>1 DEF Waits
<1>6. CASE /\ ~Choose(r)
           /\ NextMethod(r) \/ Complete(r) \/ MethodThrows(r) => name[r] # name[q]
  <2>1. tx'[name'[q]] = tx[name[q]]
    <3>1. CASE UNCHANGED tx
      BY <1>0, <3>1
    <3>2. CASE \E c : tx' = [tx EXCEPT ![name[r]] = c] /\ name[r] # name[q]
      BY <1>0, <1>1, <3>2
    <3>3. QED
      BY <1>0, <1>6, <3>1, <3>2, RunWrites
  <2>2. tx[name[q]] # None /\ tx[name[q]].index < Last /\ Waits(q)
    BY <1>0, <2>1 DEF Waits
  <2>3. PICK c \in Checkpoints : c = tx[name[q]] /\ c.job \in Jobs /\ c.job \in Requests
    BY <1>0, <1>1, <2>2 DEF Checkpoints, Jobs, OnRecord
  <2>4. CASE SomeoneAtIt(q)
    <3>1. PICK p \in Runs \ {q} : Busy(p) /\ lock = p /\ name[p] = name[q] /\ at[p].job = c.job
      BY <2>3, <2>4 DEF SomeoneAtIt
    <3>2. CASE p # r
      <4>1. Busy(p)' /\ name'[p] = name[p] /\ at'[p] = at[p] /\ pc'[p] \in {"method", "effect"}
        BY <1>0, <3>1, <3>2, RunStays DEF Busy
      <4>2. Shares /\ (p = session \/ q = session)
        BY <1>0, <3>1, SameName, TwoDeposits DEF Busy, Depositing
      <4>3. pc'[p] = pc[p]
        BY <1>0, <3>1, <3>2, RunStays
      <4>4. Shares'
        BY <1>0, <4>1, <4>2, <4>3 DEF Shares, Depositing
      <4>5. lock' = p
        BY <3>1, <4>1, <4>4 DEF TurnInv, TurnHolds
      <4>6. QED
        BY <1>0, <2>1, <2>3, <3>1, <4>1, <4>5 DEF SomeoneAtIt
    <3>3. CASE p = r
      <4>1. TakeEffect(r)
        <5>1. at[r].index \in 1 .. Last /\ name[r] \in Names /\ at[r].index < Last
          BY <1>0, <3>1, <3>3, BusyTypes DEF Busy
        <5>2. ~FinishTransaction(r)
          BY <5>1, LastMethod DEF FinishTransaction, Method
        <5>3. pc[r] \in {"method", "effect"} /\ name[r] = name[q]
          BY <3>1, <3>3 DEF Busy
        <5>4. QED
          BY <1>0, <1>6, <5>2, <5>3 DEF Request, Call, Transaction, Choose, ChooseFails, BuyBooty,
             BootyPopulated, ResumeHook, HookRejects, Populated, FinishWaited, Complete
      <4>2. /\ UNCHANGED <<at, name, lock>> /\ pc'[r] = "effect"
        BY <1>0, <4>1 DEF TakeEffect, MoveTo, populator, Types, TypeOK
      <4>3. Busy(r)'
        BY <3>1, <3>3, <4>2 DEF Busy
      <4>4. QED
        BY <1>0, <2>1, <2>3, <3>1, <3>3, <4>2, <4>3 DEF SomeoneAtIt
    <3>4. QED
      BY <3>2, <3>3
  <2>5. CASE UpForGrabs(q)
    <3>0. /\ \A p \in Runs : Busy(p) => at[p].job # c.job
          /\ DueFrom(c.job, name[q], c.index)
          /\ q \in Requests => c.job = q
          /\ q \in Sessions => home[c.job] < session \/ pc[c.job] \in Ended \cup {"hook"}
      BY <2>3, <2>5 DEF UpForGrabs
    <3>1. CASE ResumeHook(r) /\ Busy(r)'
      <4>1. /\ lock' = r /\ pc[r] = "hook" /\ at'[r] = tx[name[r]] /\ UNCHANGED name
        BY <1>0, <3>1, BusyAgain DEF ResumeHook, TakeEffect, NextMethod, Choose
      <4>2. name[r] = name[q]
        BY <1>0, <4>1, SameName DEF Depositing
      <4>3. QED
        BY <1>0, <2>1, <3>1, <4>1, <4>2 DEF SomeoneAtIt
    <3>2. CASE ~(ResumeHook(r) /\ Busy(r)')
      <4>1. ASSUME NEW p \in Runs, Busy(p)' PROVE at'[p].job # c.job
        <5>1. CASE p # r
          BY <1>0, <3>0, <4>1, <5>1, RunStays DEF Busy
        <5>2. CASE p = r
          <6>1. Busy(r) /\ at'[r].job = at[r].job
            BY <1>0, <1>6, <3>2, <4>1, <5>2, BusyAgain
          <6>2. QED
            BY <3>0, <5>2, <6>1
        <5>3. QED
          BY <5>1, <5>2
      <4>2. ASSUME NEW p \in Runs, TakeEffect(p) PROVE at[p].job # c.job
        BY <3>0, <4>2, EffectIsDue DEF Known, SessionInv, Work
      <4>3. PICK j \in Jobs, n \in Names, i \in Nat : j = c.job /\ n = name[q] /\ i = c.index
        BY <1>0, <2>3 DEF Checkpoints, Last
      <4>4. DueFrom(j, n, i)'
        BY <1>0, <3>0, <4>2, <4>3, DueFromStays
      <4>5. home'[j] = home[j] /\ pc[j] \notin Unserved /\ j \in Requests /\ j \in Runs
        <5>1. j \in Requests /\ pc[j] \notin Unserved
          BY DEF Jobs, Known, SessionInv, RecordsInv
        <5>2. QED
          BY <5>1, ServedStays DEF Known, SessionInv, Unserved, Runs
      <4>6. q \in Sessions => home'[j] < session \/ pc'[j] \in Ended \cup {"hook"}
        <5>1. CASE pc'[j] = pc[j]
          BY <3>0, <4>3, <4>5, <5>1
        <5>2. CASE pc'[j] # pc[j] /\ pc[j] \in Ended
          <6>1. r = j
            BY <1>0, <4>5, <5>2, RunStays
          <6>2. QED
            BY <1>0, <4>5, <5>2, <6>1, RunStays DEF Live, Request, Unserved
        <5>3. CASE pc'[j] # pc[j] /\ pc[j] = "hook"
          <6>1. r = j
            BY <1>0, <4>5, <5>3, RunStays
          <6>2. ~Busy(r)' \/ ~ResumeHook(r)
            BY <3>2
          <6>3. ResumeHook(r) \/ HookRejects(r)
            BY <1>0, <5>3, <6>1 DEF Request, Call, Transaction, Choose, ChooseFails, BuyBooty,
               BootyPopulated, TakeEffect, NextMethod, FinishTransaction, Populated, FinishWaited,
               Complete, MethodThrows
          <6>4. CASE EndCall(r, "failed")
            <7>1. pc'[r] = "failed"
              BY <1>0, <6>4 DEF EndCall, MoveTo, Types, TypeOK
            <7>2. QED
              BY <6>1, <7>1 DEF Ended
          <6>5. CASE ResumeHook(r) /\ AwaitOrHold(r, home[r], tx[name[r]])
            <7>1. pc'[r] = "hook" \/ (pc'[r] = "method" /\ at'[r] = tx[name[r]])
              BY <1>0, <6>5 DEF AwaitOrHold, MoveTo, Types, TypeOK
            <7>2. name[r] = name[q]
              BY <1>0, <5>3, <6>1, SameName DEF Depositing
            <7>3. CASE pc'[r] = "method" /\ at'[r] = tx[name[r]]
              BY <2>2, <6>2, <6>5, <7>2, <7>3 DEF Busy
            <7>4. QED
              BY <6>1, <7>1, <7>3
          <6>6. QED
            BY <6>3, <6>4, <6>5 DEF ResumeHook, HookRejects
        <5>4. QED
          BY <3>0, <4>3, <4>5, <5>1, <5>2, <5>3
      <4>7. UpForGrabs(q)'
        BY <1>0, <2>1, <2>3, <3>0, <4>1, <4>3, <4>4, <4>6 DEF UpForGrabs, DueFrom, Due
      <4>8. QED
        BY <4>7
    <3>3. QED
      BY <3>1, <3>2
  <2>6. QED
    BY <1>0, <2>2, <2>4, <2>5 DEF Known, SessionInv, Work, WaitsWell
<1>7. QED
  BY <1>3, <1>4, <1>5, <1>6

\* A run that waits, in a step that moves no run.
LEMMA WaiterRests ==
  ASSUME Known, Relock = FALSE, [Next]_vars, TurnInv', UNCHANGED <<session, tx, spent>> ,
         UNCHANGED <<pc, at, name, home>> \/ UNCHANGED process,
         NEW q \in Runs, Waits(q)'
  PROVE  SomeoneAtIt(q)' \/ UpForGrabs(q)'
<1>0. UNCHANGED <<pc, at, name, home>> /\ Types
  BY DEF process, Known
<1>1. Waits(q) /\ Depositing(q) /\ name[q] \in Names
  BY <1>0 DEF Waits, Depositing, Types, Placed
<1>2. CASE SomeoneAtIt(q)
  <2>1. PICK p \in Runs \ {q} : /\ Busy(p) /\ lock = p /\ name[p] = name[q]
                                /\ at[p].job = tx[name[q]].job
    BY <1>2 DEF SomeoneAtIt
  <2>2. Shares
    <3>1. p \in Runs /\ p # q /\ Depositing(p) /\ name[p] = name[q]
      BY <2>1 DEF Busy, Depositing
    <3>2. q \in Runs /\ Depositing(q) /\ Known
      BY <1>1
    <3>3. QED
      BY <3>1, <3>2, SameName DEF Depositing
  <2>3. Shares' /\ Busy(p)' /\ pc'[p] \in {"method", "effect"}
    BY <1>0, <2>1, <2>2 DEF Shares, Depositing, Busy
  <2>4. lock' = p
    BY <2>3 DEF TurnInv, TurnHolds
  <2>5. QED
    BY <1>0, <2>1, <2>3, <2>4 DEF SomeoneAtIt
<1>3. CASE UpForGrabs(q)
  BY <1>0, <1>3 DEF UpForGrabs, Busy, DueFrom, Due
<1>4. QED
  BY <1>1, <1>2, <1>3 DEF Known, SessionInv, Work, WaitsWell

LEMMA WaitsWellStep ==
  ASSUME Known, Relock = FALSE, [Next]_vars, TurnInv', session' = session
  PROVE  WaitsWell'
<1> USE DistinctAssumption
<1>0. /\ Types /\ OneSession /\ session \in Sessions /\ session \in Runs
      /\ session \notin Requests
  <2>1. Types /\ OneSession /\ session \in Sessions
    BY DEF Known, SessionInv, Types, TypeOK
  <2>2. QED
    BY <2>1 DEF Runs
<1>1. SUFFICES ASSUME NEW q \in Runs, Waits(q)'
               PROVE  SomeoneAtIt(q)' \/ UpForGrabs(q)'
  BY DEF WaitsWell
<1>2. CASE Request(q) \/ Call(q) \/ Transaction(q)
  <2>1. pc'[q] = "hook" /\ UNCHANGED lock
    BY <1>0, <1>1, <1>2, WaitsAgain DEF Waits
  <2>2. ASSUME NEW p \in Runs \ {q}
        PROVE  pc'[p] = pc[p] /\ at'[p] = at[p] /\ name'[p] = name[p] /\ home'[p] = home[p]
    BY <1>0, <1>2, RunStays
  <2>3. CASE Choose(q) /\ tx' = [tx EXCEPT ![name'[q]] = [job |-> q, index |-> 1]]
             /\ name'[q] \in Names
    <3>1. q \in Requests /\ q \notin Jobs
      BY <2>3, ChosenIsDue DEF Known
    <3>2. tx'[name'[q]] = [job |-> q, index |-> 1]
      BY <1>0, <2>3 DEF Types, TypeOK
    <3>3. ASSUME NEW p \in Runs, Busy(p)' PROVE at'[p].job # q
      <4>1. p # q
        BY <2>1, <3>3 DEF Busy
      <4>2. Busy(p) /\ at'[p] = at[p]
        BY <2>2, <3>3, <4>1 DEF Busy
      <4>3. QED
        BY <1>0, <3>1, <4>2, BusyTypes
    <3>4. \A n : DueFrom(q, n, 1)'
      BY <2>3, ChosenIsDue
    <3>5. q \notin Sessions
      BY <3>1
    <3>6. UpForGrabs(q)'
      BY <3>2, <3>3, <3>4, <3>5 DEF UpForGrabs, DueFrom, Due
    <3>7. QED
      BY <3>6
  <2>4. CASE ResumeHook(q) /\ pc[q] = "hook" /\ UNCHANGED <<name, tx>>
    <3>1. Waits(q) /\ UNCHANGED <<spent, home>>
      BY <1>1, <2>4 DEF Waits, ResumeHook
    <3>2. \A p \in Runs : Busy(p)' => p # q
      BY <2>1 DEF Busy
    <3>3. \A p \in Runs : Busy(p) => p # q
      BY <2>4 DEF Busy
    <3>4. \A p \in Runs \ {q} : Busy(p)' <=> Busy(p)
      BY <2>2 DEF Busy
    <3>5. CASE SomeoneAtIt(q)
      BY <2>1, <2>2, <2>4, <3>4, <3>5 DEF SomeoneAtIt
    <3>6. CASE UpForGrabs(q)
      <4>1. tx[name[q]] \in Checkpoints
        BY <1>0, <3>1 DEF Waits, Types, TypeOK, Placed, Depositing
      <4>2. tx[name[q]].job \in Requests
        BY <4>1 DEF Checkpoints
      <4>3. q \in Sessions => pc'[tx[name[q]].job] = pc[tx[name[q]].job]
        BY <2>2, <4>2 DEF Runs
      <4>4. UpForGrabs(q)'
        BY <2>2, <2>4, <3>1, <3>2, <3>4, <3>6, <4>3 DEF UpForGrabs, DueFrom, Due
      <4>5. QED
        BY <4>4
    <3>7. QED
      BY <3>1, <3>5, <3>6 DEF Known, SessionInv, Work, WaitsWell
  <2>5. QED
    BY <1>0, <1>2, <2>1, <2>3, <2>4, WaitsAgain
<1>3. ASSUME NEW r \in Runs \ {q}, Request(r) \/ Call(r) \/ Transaction(r)
      PROVE  SomeoneAtIt(q)' \/ UpForGrabs(q)'
  <2>1. r \in Runs /\ q \in Runs \ {r}
    OBVIOUS
  <2>2. QED
    BY <1>1, <1>3, <2>1, WaiterRuns
<1>4. ASSUME NEW s \in Sessions, Boot(s) PROVE SomeoneAtIt(q)' \/ UpForGrabs(q)'
  <2>1. /\ s = session /\ UNCHANGED <<tx, spent>>
        /\ RestartDeposit(s) \/ UNCHANGED process
        /\ \A p \in Runs \ {s} : /\ pc'[p] = pc[p] /\ at'[p] = at[p]
                                 /\ name'[p] = name[p] /\ home'[p] = home[p]
    BY <1>0, <1>4, BootStays
  <2>2. CASE UNCHANGED process
    BY <1>0, <1>1, <2>1, <2>2, WaiterRests
  <2>3. CASE RestartDeposit(s)
    <3>1. Restarting /\ \A p \in Runs : ~Live(p)
      BY <1>0, <2>1, <2>3 DEF RestartDeposit, Restarting, OneSession
    <3>2. q = s
      BY <1>1, <2>1, <3>1 DEF Waits, Live, Ended
    <3>3. name'[s] = "existing" /\ tx["existing"] # None
      <4>1. pc[s] # "hook"
        BY <1>0, <2>1, <3>1 DEF Live, Ended
      <4>2. pc'[s] = "hook"
        BY <1>1, <3>2 DEF Waits
      <4>3. QED
        BY <1>0, <2>1, <2>3, <4>1, <4>2 DEF RestartDeposit, MoveTo, Types, TypeOK
    <3>4. tx["existing"] \in Checkpoints /\ "existing" \in Names
      BY <1>0, <3>3, NamesAre DEF Types, TypeOK
    <3>5. PICK j \in Jobs : j = tx["existing"].job /\ j \in Requests
      BY <3>3, <3>4 DEF Checkpoints, Jobs, OnRecord
    <3>6. \A p \in Runs : ~Busy(p)'
      <4>1. pc'[s] = "hook"
        BY <1>1, <3>2 DEF Waits
      <4>2. \A p \in Runs \ {s} : pc'[p] \notin {"method", "effect"}
        BY <2>1, <3>1 DEF Live, Ended
      <4>3. QED
        BY <4>1, <4>2 DEF Busy
    <3>7. \A n, i : DueFrom(j, n, i)
      BY <3>1, RestartedIsDue
    <3>8. home[j] < session /\ home'[j] = home[j]
      BY <2>1, <3>1, <3>3, <3>4, <3>5 DEF Known, SessionInv, RecordsInv, OnRecord, Runs
    <3>9. UpForGrabs(q)'
      BY <1>0, <2>1, <3>2, <3>3, <3>5, <3>6, <3>7, <3>8 DEF UpForGrabs, DueFrom, Due
    <3>10. QED
      BY <3>9
  <2>4. QED
    BY <2>1, <2>2, <2>3
<1>5. ~Crash
  BY <1>0 DEF Crash, NextSession, Sessions
<1>6. CASE \/ LockAndUnlock \/ Flush \/ HubSeesChannel \/ PollerPopulates \/ PollerSettles
           \/ UNCHANGED vars
  <2>1. UNCHANGED <<session, boot, tx, spent, pc, at, name, home>>
    BY <1>0, <1>6, AroundStays
  <2>2. QED
    BY <1>1, <2>1, WaiterRests
<1>7. QED
  BY <1>2, <1>3, <1>4, <1>5, <1>6 DEF Next

LEMMA SessionInit == Init => SessionInv
<1> SUFFICES ASSUME Init PROVE SessionInv
  OBVIOUS
<1> USE DistinctAssumption
<1>0. /\ session = 1 /\ session \in Sessions /\ session \in Runs
      /\ \A q \in Runs : pc[q] = "idle" /\ home[q] = None /\ at[q] = None
      /\ \A n \in Names : tx[n] = None /\ disk[n] = None
      /\ boot[session] = "ready" /\ \A s \in Sessions : s # session => boot[s] = "none"
  BY SessionsAssumption DEF Init, Sessions, Runs
<1>1. OneSession
  BY <1>0 DEF OneSession, Restarting, Live, Ended, Runs
<1>2. NamesApart
  BY <1>0 DEF NamesApart, Depositing, Runs
<1>3. Jobs = {} /\ \A r \in Requests, m \in Spending : spent[r][m] = 0
  BY <1>0 DEF Jobs, OnRecord, Init
<1>4. RecordsInv /\ Bounded
  BY <1>0, <1>3 DEF RecordsInv, Bounded, Restarting, Runs
<1>5. TurnInv
  BY <1>0 DEF TurnInv, Restarting, Shares, Depositing
<1>6. Work
  BY <1>0 DEF Work, Owed, OwnWork, PastWork, WaitsWell, Busy, Waits, Runs
<1>7. QED
  BY <1>1, <1>2, <1>4, <1>5, <1>6 DEF SessionInv

LEMMA SessionStep ==
  ASSUME Known, Relock = FALSE, [Next]_vars
  PROVE  SessionInv'
<1>1. /\ OneSession' /\ NamesApart' /\ RecordsInv' /\ Bounded' /\ TurnInv'
  BY OneSessionStep, NamesApartStep, RecordsStep, BoundedStep, TurnStep
     DEF Known, SessionInv, Work
<1>2. Owed' /\ OwnWork'
  BY OwedStep, OwnWorkStep
<1>3. PastWork' /\ WaitsWell'
  <2>1. CASE session' = session
    BY <1>1, <2>1, PastWorkStep, WaitsWellStep
  <2>2. CASE Crash
    <3>1. \A q \in Runs : pc'[q] \notin {"hook", "method", "effect"}
      BY <2>2 DEF Crash, Live, Ended
    <3>2. session' \in Runs
      BY <2>2, CrashTypes DEF Known, Types, TypeOK, Runs
    <3>3. QED
      BY <3>1, <3>2 DEF PastWork, WaitsWell, Waits, Busy
  <2>3. QED
    BY <2>1, <2>2, RunStays, BootStays, AroundStays DEF Known, SessionInv, Next
<1>4. QED
  BY <1>1, <1>2, <1>3 DEF SessionInv, Work

\* With crashes alone, funds move again for a request only if a later session took it up
\* again, once per session, wherever the worker is killed: the record says what is owed,
\* and whoever goes on with it has the lock, or is the only one of its transaction
\* (MicropaymentsController.ts:49, AtomicTransaction.ts:121).
THEOREM OncePerSession ==
  ASSUME Relock = FALSE
  PROVE  Spec => []RepeatsPerSession
<1>1. Types /\ LockInv /\ HoldsSemaphore /\ SessionInv /\ [Next]_vars => SessionInv'
  BY SessionStep DEF Known, LockInv
<1>2. SessionInv => RepeatsPerSession
  BY DEF SessionInv, Bounded, RepeatsPerSession, Runs
<1>3. QED
  BY <1>1, <1>2, TypesInit, TypesStep, LockInit, LockStep, SemaphoreInit, SemaphoreStep,
     SessionInit, PTL DEF Spec

==============================================================================
