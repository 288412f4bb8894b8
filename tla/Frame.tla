-------------------------------- MODULE Frame --------------------------------
(***************************************************************************)
(* What the frame and its calls to the worker consist of.  The parts share *)
(* no state, and a behaviour is one of a single part, which is chosen at   *)
(* the start: the calls (Messaging), the start of page, frame and worker   *)
(* (Handshake), the shared state (StateSync), the pages on which a wallet  *)
(* is made and opened (WalletPages, over the same store as StateSync), the *)
(* form that sends (SendForm), the list of activities (ActivityList), and  *)
(* the loops that feed the channel and the rates that the frame shows      *)
(* (Pollers).                                                              *)
(***************************************************************************)
EXTENDS Messaging

CONSTANTS None, Dispatches, MaxDispatches, MaxSubmits, MaxLocks, MaxLag,
          MaxTries, MaxKills, MaxSends,
          Reserve, Cost, MaxEth, MaxSessions, MaxFaults,
          Items, MaxHistory

\* toggleFrame() says whether the frame is displayed.
ASSUME DispatchesAssumption ==
  \A a \in Dispatches : a.type = "toggleFrame" => a.payload.isFrameDisplayed \in BOOLEAN

\* Tries are made, and the bounds are bounds.
ASSUME BoundsAssumption ==
  /\ MaxTries \in Nat \ {0}
  /\ {MaxKills, MaxSubmits, MaxLocks, MaxEth, MaxSessions, MaxFaults, MaxHistory} \subseteq Nat
  /\ {Reserve, Cost} \subseteq Nat

\* Amounts are not negative.
ASSUME ItemsAssumption ==
  \A kind \in Items : /\ kind.wei \in Nat /\ kind.token \in Nat
                      /\ kind.incoming \in BOOLEAN

VARIABLES part,
          workerAt, kills, at, tries, request, reply, news, serving, missed,
          store, dispatched, toFrame, toPage, fetch, fetched, lost, frame, page,
          route, form, inbox, jobs, pageAnswers, words, known, mishaps, submits, locks, timer,
          sendForm, bootySupport, cardBalance, sends, awaited, excused,
          eth, tok, channel, unlocked, session, polling, loop, shownBalances, moreEthNeeded,
          rates, busy, leaked, faults,
          history, isLoading, error, detailRows

Hand     == INSTANCE Handshake
Pages    == INSTANCE WalletPages WITH reply <- fetched, answers <- pageAnswers
Send     == INSTANCE SendForm
Poll     == INSTANCE Pollers
Activity == INSTANCE ActivityList

handVars     == <<workerAt, kills, at, tries, request, reply, news, serving, missed>>
storeVars    == <<store, dispatched, toFrame, toPage, fetch, fetched, lost, frame, page>>
pagesVars    == <<route, form, inbox, jobs, pageAnswers, words, known, mishaps, submits, locks,
                  timer>>
sendVars     == <<sendForm, bootySupport, cardBalance, sends, awaited, excused>>
pollVars     == <<eth, tok, channel, unlocked, session, polling, loop, shownBalances,
                  moreEthNeeded, rates, busy, leaked, faults>>
activityVars == <<history, isLoading, error, detailRows>>
vars == <<part, msgVars, handVars, storeVars, pagesVars, sendVars, pollVars, activityVars>>

\* The parts whose initial states differ begin with one of them in the others.
Init ==
  /\ part \in {"calls", "start", "state", "pages", "send", "loops", "activity"}
  /\ MsgInit
  /\ Hand!HandInit
  /\ Pages!WalletInit
  /\ part # "pages" => store = Pages!GetInitialState
  /\ Send!SendInit
  /\ part # "send" => ~bootySupport /\ ~cardBalance
  /\ Poll!PollInit
  /\ part # "loops" => eth = 0 /\ tok = 0 /\ ~channel
  /\ Activity!ActivityInit
  /\ part # "activity" => history = << >>

Next ==
  /\ UNCHANGED part
  /\ \/ /\ part = "calls" /\ MsgNext
        /\ UNCHANGED <<handVars, storeVars, pagesVars, sendVars, pollVars, activityVars>>
     \/ /\ part = "start" /\ Hand!HandNext
        /\ UNCHANGED <<msgVars, storeVars, pagesVars, sendVars, pollVars, activityVars>>
     \/ /\ part = "state" /\ Pages!SyncNext
        /\ UNCHANGED <<msgVars, handVars, pagesVars, sendVars, pollVars, activityVars>>
     \/ /\ part = "pages" /\ Pages!WalletNext
        /\ UNCHANGED <<msgVars, handVars, sendVars, pollVars, activityVars>>
     \/ /\ part = "send" /\ Send!SendNext
        /\ UNCHANGED <<msgVars, handVars, storeVars, pagesVars, pollVars, activityVars>>
     \/ /\ part = "loops" /\ Poll!PollNext
        /\ UNCHANGED <<msgVars, handVars, storeVars, pagesVars, sendVars, activityVars>>
     \/ /\ part = "activity" /\ Activity!ActivityNext
        /\ UNCHANGED <<msgVars, handVars, storeVars, pagesVars, sendVars, pollVars>>

\* A worker that lives, and is neither killed nor fails, gets on with install(); the
\* browser delivers messages and fires timers.
StartFairness ==
  /\ WF_handVars(part = "start" /\ Hand!WorkerProceeds)
  /\ WF_handVars(part = "start" /\ Hand!Load)
  /\ WF_handVars(part = "start" /\ Hand!PassStatus)
  /\ \A x \in Hand!Askers : WF_handVars(part = "start" /\ Hand!Attempts(x))

\* Timers fire, requests end, and a purchase that has the semaphore releases it.
LoopFairness ==
  /\ \A s \in Poll!Sessions : WF_pollVars(part = "loops" /\ Poll!Runs(s))
  /\ WF_pollVars(part = "loops" /\ Poll!PurchaseEnds)

Spec == Init /\ [][Next]_vars

FairSpec == Spec /\ StartFairness /\ LoopFairness

------------------------------------------------------------------------------
(* Properties *)

\* The type invariant of the part that runs.
TypeOK == CASE part = "calls"    -> MsgTypeOK
            [] part = "start"    -> Hand!HandTypeOK
            [] part = "state"    -> Pages!SyncTypeOK
            [] part = "pages"    -> Pages!SyncTypeOK /\ Pages!WalletTypeOK
            [] part = "send"     -> Send!SendTypeOK
            [] part = "loops"    -> Poll!PollTypeOK
            [] part = "activity" -> Activity!ActivityTypeOK

\* With a worker that is ready for good, page and frame start or give up, unless the
\* announcement they wait for has been missed: see Handshake.
HandshakeEnds == Hand!HandshakeEnds

\* An asker that waits has the announcement coming, or has missed it: see Handshake.
AnnouncementsReach == Hand!AnnouncementsReach

\* A mirror that has heard everything shows the state of the worker: see StateSync.
MirrorsAreTrue == part = "state" => Pages!MirrorsAreTrue

\* A wallet that counts as made can be restored from the words that the user has
\* written down: see WalletPages.
KnowsTheWords == part = "pages" => Pages!KnowsTheWords

\* When a failure is shown, no transfer is still under way: see SendForm.
FailureIsFinal == Send!FailureIsFinal

\* What is deposited leaves the reserve at the address: see Pollers.
KeepsReserve == Poll!KeepsReserve

\* While a session goes on and no method of a deposit fails, what comes to the address
\* gets into the channel, but for the reserve: see Pollers.
SweptDown == Poll!SweptDown

\* The list of activities shows the history, the whole history, and nothing but the
\* history: see ActivityList.
HistoryIsWhole == Activity!HistoryIsWhole
==============================================================================
