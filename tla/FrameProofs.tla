---------------------------- MODULE FrameProofs -----------------------------
(***************************************************************************)
(* Theorems about the frame, one part after the other.                     *)
(***************************************************************************)
EXTENDS Frame, MessagingProofs, Sequences, TLAPS, WellFoundedInduction

------------------------------------------------------------------------------
(* The form that sends *)

\* The state of the component.
FormType == [address : Send!Addresses, addressError : {"", "not valid"},
             balanceError : {"", "not valid", "failed"}, isAddressDirty : BOOLEAN,
             disableSend : BOOLEAN, isConfirming : BOOLEAN, shown : BOOLEAN]

\* While a call is awaited, it is the only one, and the button is disabled; a call that
\* the worker still works on is awaited.
SendInv ==
  /\ Send!SendTypeOK
  /\ sendForm \in FormType
  /\ sendForm.isConfirming => sendForm.balanceError = ""
  /\ ~excused =>
       /\ \A i \in DOMAIN sends : sends[i] = "asked" => i \in awaited
       /\ \A i, j \in awaited : i = j
       /\ awaited # {} => sendForm.shown /\ sendForm.disableSend
                          /\ sendForm.balanceError = ""

\* The form as it is mounted, and as it is emptied after a success.
LEMMA EmptyFormType ==
  /\ Send!EmptyForm \in FormType
  /\ Send!EmptyForm.address \in Send!Addresses /\ Send!EmptyForm.addressError = ""
  /\ Send!EmptyForm.balanceError = "" /\ ~Send!EmptyForm.isConfirming /\ Send!EmptyForm.shown
BY DEF Send!EmptyForm, FormType, Send!Addresses

\* A call more: the worker is asked, the form awaits it.
LEMMA SendAsks ==
  ASSUME Send!SendTypeOK, NEW filled \in FormType, Send!OnSendTransaction(filled)
  PROVE  /\ sends' \in Seq({"asked", "sent", "failed"}) /\ awaited' \subseteq DOMAIN sends'
         /\ sendForm' = [filled EXCEPT !.disableSend = TRUE] /\ sendForm' \in FormType
         /\ \E n : /\ awaited' = awaited \cup {n}
                   /\ \A i \in DOMAIN sends' : i = n \/ (i \in DOMAIN sends /\ sends'[i] = sends[i])
<1>1. sends \in Seq({"asked", "sent", "failed"}) /\ awaited \subseteq DOMAIN sends
  BY DEF Send!SendTypeOK
<1>2. /\ sends' = Append(sends, "asked") /\ awaited' = awaited \cup {Len(sends) + 1}
      /\ sendForm' = [filled EXCEPT !.disableSend = TRUE]
  BY DEF Send!OnSendTransaction, Send!Shows
<1>3. /\ sends' \in Seq({"asked", "sent", "failed"})
      /\ DOMAIN sends' = DOMAIN sends \cup {Len(sends) + 1}
      /\ \A i \in DOMAIN sends : sends'[i] = sends[i]
  BY <1>1, <1>2
<1>4. sendForm' \in FormType
  BY <1>2 DEF FormType
<1>5. QED
  BY <1>1, <1>2, <1>3, <1>4

\* Every step of the form, of a call and of the user keeps the invariant.
LEMMA SendInvInductive == SendInv /\ Send!SendNext => SendInv'
<1> SUFFICES ASSUME SendInv, Send!SendNext PROVE SendInv'
  OBVIOUS
<1>t. Send!SendTypeOK /\ sendForm \in FormType
  BY DEF SendInv
<1>1. ASSUME NEW a \in Send!Addresses, Send!OnAddressChange(a) PROVE SendInv'
  BY <1>1 DEF SendInv, Send!SendTypeOK, Send!OnAddressChange, Send!Shows, Send!Edits, FormType
<1>2. CASE Send!Confirm
  <2>1. CASE Send!OnSendTransaction(sendForm)
    <3>1. /\ awaited = {} \/ excused
          /\ sendForm.balanceError = "" /\ sendForm.shown
          /\ UNCHANGED <<bootySupport, cardBalance, excused>>
      BY <1>2 DEF Send!Confirm, Send!CanConfirm, SendInv
    <3>2. sendForm'.balanceError = "" /\ sendForm'.shown /\ sendForm'.disableSend
          /\ sendForm'.address \in Send!Addresses /\ sendForm'.addressError \in {"", "not valid"}
      BY <1>t, <2>1, <3>1, SendAsks DEF FormType
    <3>3. QED
      BY <1>t, <2>1, <3>1, <3>2, SendAsks DEF SendInv, Send!SendTypeOK
  <2>2. CASE ~Send!OnSendTransaction(sendForm)
    BY <1>2, <2>2 DEF SendInv, Send!SendTypeOK, Send!Confirm, Send!CanConfirm, Send!Shows,
       FormType
  <2>3. QED
    BY <2>1, <2>2
<1>3. CASE Send!ConfirmAgain
  <2>1. /\ Send!OnSendTransaction(sendForm) /\ sendForm.shown /\ sendForm.isConfirming
        /\ excused' = (excused \/ awaited # {})
        /\ UNCHANGED <<bootySupport, cardBalance>>
    BY <1>3 DEF Send!ConfirmAgain
  <2>2. sendForm.balanceError = "" /\ excused \in BOOLEAN
    BY <2>1 DEF SendInv, Send!SendTypeOK
  <2>3. sendForm'.balanceError = "" /\ sendForm'.shown /\ sendForm'.disableSend
        /\ sendForm'.address \in Send!Addresses /\ sendForm'.addressError \in {"", "not valid"}
    BY <1>t, <2>1, <2>2, SendAsks DEF FormType
  <2>4. excused' \in BOOLEAN /\ (~excused' => ~excused /\ awaited = {})
    BY <2>1, <2>2, Zenon
  <2>5. QED
    BY <1>t, <2>1, <2>3, <2>4, SendAsks DEF SendInv, Send!SendTypeOK
<1>4. CASE Send!Cancel \/ Send!HearFlags
  BY <1>4 DEF SendInv, Send!SendTypeOK, Send!Cancel, Send!HearFlags, Send!Shows, Send!Edits,
     FormType
<1>10. CASE Send!Return
  BY <1>10, EmptyFormType DEF SendInv, Send!SendTypeOK, Send!Return, Send!Shows, Send!Edits
<1>8. CASE Send!Leave
  <2>1. excused' \in BOOLEAN /\ (~excused' => ~excused /\ awaited = {})
    BY <1>8, Zenon DEF SendInv, Send!SendTypeOK, Send!Leave
  <2>2. QED
    BY <1>8, <2>1 DEF SendInv, Send!SendTypeOK, Send!Leave, Send!Shows, FormType
<1>5. ASSUME NEW i \in DOMAIN sends, Send!Transfer(i) PROVE SendInv'
  <2>1. UNCHANGED <<sendForm, bootySupport, awaited, excused>> /\ cardBalance' \in BOOLEAN
    BY <1>5 DEF Send!Transfer, SendInv, Send!SendTypeOK
  <2>2. PICK what \in {"sent", "failed"} : sends' = [sends EXCEPT ![i] = what]
    BY <1>5 DEF Send!Transfer
  <2>3. /\ sends' \in Seq({"asked", "sent", "failed"}) /\ DOMAIN sends' = DOMAIN sends
        /\ \A j \in DOMAIN sends : sends'[j] = "asked" => sends[j] = "asked"
    <3>1. sends \in Seq({"asked", "sent", "failed"})
      BY <1>t DEF Send!SendTypeOK
    <3>2. sends' \in Seq({"asked", "sent", "failed"})
      BY <2>2, <3>1
    <3>3. DOMAIN sends' = DOMAIN sends
      BY <2>2
    <3>4. \A j \in DOMAIN sends : sends'[j] = IF j = i THEN what ELSE sends[j]
      BY <2>2
    <3>5. QED
      BY <3>2, <3>3, <3>4
  <2>4. QED
    BY <2>1, <2>3 DEF SendInv, Send!SendTypeOK
<1>6. ASSUME NEW i \in DOMAIN sends, Send!Succeeds(i) PROVE SendInv'
  BY <1>6 DEF SendInv, Send!SendTypeOK, Send!Succeeds, Send!Stops, Send!Shows, FormType,
              Send!EmptyForm, Send!Addresses
<1>7. ASSUME NEW i \in DOMAIN sends, Send!Fails(i) \/ Send!TimesOut(i) PROVE SendInv'
  BY <1>7 DEF SendInv, Send!SendTypeOK, Send!Fails, Send!TimesOut, Send!Stops, Send!Shows,
              FormType, Send!AfterFailure
<1>9. QED
  BY <1>1, <1>2, <1>3, <1>4, <1>5, <1>6, <1>7, <1>8, <1>10 DEF Send!SendNext

\* The other parts leave the form alone.
LEMMA SendInvKept == SendInv /\ [Next]_vars => SendInv'
<1> SUFFICES ASSUME SendInv, [Next]_vars PROVE SendInv'
  OBVIOUS
<1>1. CASE UNCHANGED sendVars
  BY <1>1 DEF sendVars, SendInv, Send!SendTypeOK
<1>2. CASE Send!SendNext
  BY <1>2, SendInvInductive
<1>3. QED
  BY <1>1, <1>2 DEF Next, vars

\* The page opens with an empty form and no call.
LEMMA SendInvInit == Init => SendInv
<1> SUFFICES ASSUME Init PROVE SendInv
  OBVIOUS
<1>1. /\ sendForm = Send!EmptyForm /\ bootySupport \in BOOLEAN /\ cardBalance \in BOOLEAN
      /\ sends = << >> /\ awaited = {} /\ excused = FALSE
  BY DEF Init, Send!SendInit
<1>2. sends \in Seq({"asked", "sent", "failed"}) /\ DOMAIN sends = {}
  BY <1>1
<1>3. QED
  BY <1>1, <1>2, EmptyFormType DEF SendInv, Send!SendTypeOK

\* While the form says that sending has failed, no transfer is still under way, unless
\* Confirm was clicked again, the page left, or the call timed out (Send.tsx); for any
\* number of transfers.
THEOREM FailureShownIsFinal == Spec => []FailureIsFinal
<1>1. SendInv => FailureIsFinal
  BY DEF SendInv, FailureIsFinal, Send!FailureIsFinal
<1>2. QED
  BY <1>1, SendInvInit, SendInvKept, PTL DEF Spec

------------------------------------------------------------------------------
(* The shared state *)

\* What the mirrors need of the redux state: the field that shows and hides the iframe.
StoreOK(s) == /\ "runtime" \in DOMAIN s
              /\ "isFrameDisplayed" \in DOMAIN s.runtime
              /\ s.runtime.isFrameDisplayed \in BOOLEAN

\* What is broadcast and answered of it.
Told(s) == Pages!BuildSharedState(s)

\* The store begins with the field.
LEMMA InitialStoreOK == StoreOK(Pages!GetInitialState)
BY DEF StoreOK, Pages!GetInitialState

\* The shared state says whether the iframe is displayed.
LEMMA ToldDisplay == ASSUME NEW s, StoreOK(s) PROVE Told(s).isFrameDisplayed \in BOOLEAN
BY DEF StoreOK, Told, Pages!BuildSharedState

\* It says whether the wallet is locked.
LEMMA ToldLocked == ASSUME NEW s PROVE Told(s).isLocked \in BOOLEAN
BY DEF Told, Pages!BuildSharedState

\* No reducer removes the field, and toggleFrame sets it to what it is told.
LEMMA ReducersKeepFields ==
  ASSUME NEW s, StoreOK(s), NEW v
  PROVE  /\ StoreOK(Pages!SetWallet(s, v)) /\ StoreOK(Pages!SetKeyring(s, v))
         /\ StoreOK(Pages!SetDidStoreMnemonic(s)) /\ StoreOK(Pages!RestoreWallet(s, v))
         /\ StoreOK(Pages!SetTransactionPending(s, v)) /\ StoreOK(Pages!RememberPage(s, v))
         /\ StoreOK(Pages!SetLastUpdateDb(s, v)) /\ StoreOK(Pages!SetHubBranding(s, v))
         /\ StoreOK(Pages!SetCurrentHubUrl(s, v)) /\ StoreOK(Pages!SetCurrentAuthRealm(s, v))
         /\ StoreOK(Pages!SetChannel(s, v)) /\ StoreOK(Pages!SetCurrentAuthToken(s, v))
         /\ StoreOK(Pages!SetHistory(s, v)) /\ StoreOK(Pages!SetPendingTransaction(s, v))
         /\ StoreOK(Pages!SetHasActiveWithdrawal(s, v)) /\ StoreOK(Pages!SetActiveWithdrawalError(s, v))
         /\ StoreOK(Pages!SetExchangeRates(s, v)) /\ StoreOK(Pages!SetUsername(s, v))
         /\ StoreOK(Pages!SetTransactionState(s, v)) /\ StoreOK(Pages!SetIsPendingVerification(s, v))
         /\ StoreOK(Pages!SetHasActiveDeposit(s, v)) /\ StoreOK(Pages!RemoveTransactionState(s, v))
         /\ StoreOK(Pages!SetInitialState(s)) /\ StoreOK(Pages!SetFeatureFlags(s, v))
         /\ StoreOK(Pages!SetBaseCurrency(s, v)) /\ StoreOK(Pages!SetAddressBalances(s, v))
         /\ StoreOK(Pages!SetMoreEthNeeded(s, v)) /\ StoreOK(Pages!SetMigrationState(s, v))
         /\ StoreOK(Pages!SetNeedsCollateral(s, v))
         /\ v.isFrameDisplayed \in BOOLEAN => StoreOK(Pages!ToggleFrame(s, v))
<1>1. /\ StoreOK(Pages!SetWallet(s, v)) /\ StoreOK(Pages!SetTransactionPending(s, v)) 
      /\ StoreOK(Pages!SetLastUpdateDb(s, v)) /\ StoreOK(Pages!SetHubBranding(s, v))
  BY DEF StoreOK, Pages!SetWallet, Pages!SetTransactionPending, Pages!SetLastUpdateDb,
     Pages!SetHubBranding
<1>2. /\ StoreOK(Pages!SetCurrentHubUrl(s, v)) /\ StoreOK(Pages!SetCurrentAuthRealm(s, v))
      /\ StoreOK(Pages!SetChannel(s, v)) /\ StoreOK(Pages!SetCurrentAuthToken(s, v))
  BY DEF StoreOK, Pages!SetCurrentHubUrl, Pages!SetCurrentAuthRealm, Pages!SetChannel,
     Pages!SetCurrentAuthToken
<1>3. /\ StoreOK(Pages!SetHistory(s, v)) /\ StoreOK(Pages!SetPendingTransaction(s, v))
      /\ StoreOK(Pages!SetHasActiveWithdrawal(s, v)) /\ StoreOK(Pages!SetActiveWithdrawalError(s, v))
  BY DEF StoreOK, Pages!SetHistory, Pages!SetPendingTransaction, Pages!SetHasActiveWithdrawal,
     Pages!SetActiveWithdrawalError
<1>4. /\ StoreOK(Pages!SetExchangeRates(s, v)) /\ StoreOK(Pages!SetUsername(s, v))
      /\ StoreOK(Pages!SetIsPendingVerification(s, v)) /\ StoreOK(Pages!SetHasActiveDeposit(s, v))
  BY DEF StoreOK, Pages!SetExchangeRates, Pages!SetUsername, Pages!SetIsPendingVerification,
     Pages!SetHasActiveDeposit
<1>5. /\ StoreOK(Pages!SetAddressBalances(s, v)) /\ StoreOK(Pages!SetMoreEthNeeded(s, v))
      /\ StoreOK(Pages!SetMigrationState(s, v)) /\ StoreOK(Pages!SetNeedsCollateral(s, v))
  BY DEF StoreOK, Pages!SetAddressBalances, Pages!SetMoreEthNeeded, Pages!SetMigrationState,
     Pages!SetNeedsCollateral
<1>6. \A t, w : StoreOK(t) => StoreOK(Pages!SetBaseCurrency(t, w))
  BY DEF StoreOK, Pages!SetBaseCurrency
<1>7. StoreOK(Pages!SetFeatureFlags(s, v))
  <2>1. StoreOK([s EXCEPT !.runtime.featureFlags = v])
    BY DEF StoreOK
  <2>2. QED
    BY <1>6, <2>1 DEF Pages!SetFeatureFlags
<1>8. /\ StoreOK(Pages!SetKeyring(s, v)) /\ StoreOK(Pages!SetDidStoreMnemonic(s))
      /\ StoreOK(Pages!RestoreWallet(s, v)) /\ StoreOK(Pages!RememberPage(s, v))
  BY DEF StoreOK, Pages!SetKeyring, Pages!SetDidStoreMnemonic, Pages!RestoreWallet,
     Pages!RememberPage
<1>9. /\ StoreOK(Pages!SetTransactionState(s, v)) /\ StoreOK(Pages!RemoveTransactionState(s, v))
      /\ StoreOK(Pages!SetInitialState(s))
  BY DEF StoreOK, Pages!SetTransactionState, Pages!RemoveTransactionState, Pages!SetInitialState
<1>10. v.isFrameDisplayed \in BOOLEAN => StoreOK(Pages!ToggleFrame(s, v))
  BY DEF StoreOK, Pages!ToggleFrame
<1>11. QED
  BY <1>1, <1>2, <1>3, <1>4, <1>5, <1>6, <1>7, <1>8, <1>9, <1>10

\* Nor does the reducer of any action that is dispatched.
LEMMA ReducePreserves ==
  ASSUME NEW s, StoreOK(s), NEW a \in Dispatches
  PROVE  StoreOK(Pages!Reduce(s, a))
BY DispatchesAssumption, ReducersKeepFields, Zenon DEF Pages!Reduce

------------------------------------------------------------------------------

\* Broadcasts on their way, in a sequence of whatever.
Queue(q) == \E S : q \in Seq(S)

\* What a queue holds after one more has been sent.
LEMMA QueueAppend ==
  ASSUME NEW q, Queue(q), NEW e
  PROVE  /\ Queue(Append(q, e)) /\ Append(q, e) # << >>
         /\ Append(q, e)[Len(Append(q, e))] = e
         /\ \A i \in DOMAIN Append(q, e) : Append(q, e)[i] = e \/ (i \in DOMAIN q /\ Append(q, e)[i] = q[i])
<1>1. PICK S : q \in Seq(S)
  BY DEF Queue
<1>2. q \in Seq(S \cup {e}) /\ e \in S \cup {e}
  BY <1>1
<1> DEFINE r == Append(q, e)
<1>3. r \in Seq(S \cup {e}) /\ Len(r) = Len(q) + 1 /\ r[Len(q) + 1] = e
      /\ \A i \in 1 .. Len(q) : r[i] = q[i]
  BY <1>2
<1>4. Len(q) \in Nat /\ DOMAIN q = 1 .. Len(q) /\ DOMAIN r = 1 .. Len(r)
  BY <1>2, <1>3
<1>5. Queue(r)
  BY <1>3 DEF Queue
<1> HIDE DEF r
<1>7. r # << >>
  <2>1. Len(<< >>) = 0
    OBVIOUS
  <2>2. QED
    BY <2>1, <1>3, <1>4
<1>8. \A i \in DOMAIN r : r[i] = e \/ (i \in DOMAIN q /\ r[i] = q[i])
  BY <1>3, <1>4
<1>9. Queue(r) /\ r # << >> /\ r[Len(r)] = e
      /\ \A i \in DOMAIN r : r[i] = e \/ (i \in DOMAIN q /\ r[i] = q[i])
  BY <1>3, <1>5, <1>7, <1>8
<1>10. QED
  BY <1>9 DEF r

\* What it holds after the first has arrived.
LEMMA QueueTail ==
  ASSUME NEW q, Queue(q), q # << >>
  PROVE  /\ Queue(Tail(q)) /\ Head(q) = q[1] /\ 1 \in DOMAIN q /\ Len(q) \in DOMAIN q
         /\ Tail(q) # << >> => Tail(q)[Len(Tail(q))] = q[Len(q)]
         /\ Tail(q) = << >> => Head(q) = q[Len(q)]
         /\ \A i \in DOMAIN Tail(q) : i + 1 \in DOMAIN q /\ Tail(q)[i] = q[i + 1]
<1>1. PICK S : q \in Seq(S)
  BY DEF Queue
<1> DEFINE r == Tail(q)
<1>2. r \in Seq(S) /\ Len(r) = Len(q) - 1 /\ Len(q) > 0 /\ Len(q) \in Nat /\ Head(q) = q[1]
  BY <1>1
<1>3. DOMAIN q = 1 .. Len(q) /\ DOMAIN r = 1 .. Len(r)
  BY <1>1, <1>2
<1>4. \A i \in 1 .. Len(r) : r[i] = q[i + 1]
  BY <1>1
<1>5. Queue(r)
  BY <1>2 DEF Queue
<1>6. (r = << >> => Len(r) = 0) /\ (r # << >> => Len(r) # 0)
  <2>1. Len(<< >>) = 0 /\ (Len(r) = 0 => r = << >>)
    BY <1>2
  <2>2. QED
    BY <2>1
<1> HIDE DEF r
<1>7. \A i \in DOMAIN r : i + 1 \in DOMAIN q /\ r[i] = q[i + 1]
  BY <1>2, <1>3, <1>4
<1>8. r # << >> => r[Len(r)] = q[Len(q)]
  BY <1>2, <1>3, <1>4, <1>6
<1>9. r = << >> => Head(q) = q[Len(q)]
  BY <1>2, <1>6
<1>10. 1 \in DOMAIN q /\ Len(q) \in DOMAIN q
  BY <1>2, <1>3
<1>11. QED
  BY <1>2, <1>5, <1>7, <1>8, <1>9, <1>10 DEF r

\* An empty queue holds nothing.
LEMMA QueueEmpty == Queue(<< >>) /\ DOMAIN << >> = {}
<1>1. << >> \in Seq({})
  OBVIOUS
<1>2. QED
  BY <1>1 DEF Queue

\* A message with the state at its version.
Honest(m, s, n) == /\ m.version \in Nat /\ m.version <= n
                   /\ m.version = n => m.state = Told(s)
                   /\ m.state.isFrameDisplayed \in BOOLEAN /\ m.state.isLocked \in BOOLEAN

\* The fields of the page that steps set.
PageFields == {"previous", "unlocked", "told", "displayed", "cover", "hideTimers", "uncovered"}

\* Types.
SyncShape == /\ StoreOK(store) /\ dispatched \in Nat
             /\ Queue(toFrame) /\ Queue(toPage)
             /\ fetch \in [Pages!Mirrors -> {"none", "asked", "answered", "done"}]
             /\ lost \in [Pages!Mirrors -> BOOLEAN]
             /\ DOMAIN fetched = Pages!Mirrors
             /\ "shared" \in DOMAIN frame /\ PageFields \subseteq DOMAIN page

\* Whatever is on its way to a mirror is honest.
AllHonest == /\ \A i \in DOMAIN toFrame : Honest(toFrame[i], store, dispatched)
             /\ \A i \in DOMAIN toPage : Honest(toPage[i], store, dispatched)
             /\ \A x \in Pages!Mirrors : fetch[x] = "answered" => Honest(fetched[x], store, dispatched)

\* The newest broadcast is the last.
NewestLast == /\ toFrame # << >> => toFrame[Len(toFrame)].version = dispatched
              /\ toFrame = << >> /\ toPage # << >> => toPage[Len(toPage)].version = dispatched

\* What a mirror shows, and whether it has heard everything that was sent.
Shown(x) == IF x = "frame" THEN frame.shared ELSE page.previous

Heard(x) == toFrame = << >> /\ (x = "page" => toPage = << >>)

\* A mirror that has heard everything shows the newest state, or will, with the answer it
\* has; or has dropped a newer broadcast.
UpToDate == \A x \in Pages!Mirrors :
  Heard(x) => /\ fetch[x] = "answered" => fetched[x].version = dispatched \/ lost[x]
              /\ fetch[x] = "done" => Shown(x) = Told(store) \/ lost[x]

\* Once it has begun, the page follows what it showed last.
PageFollows ==
  /\ fetch["page"] # "done" => ~page.told
  /\ fetch["page"] = "done" => /\ page.previous.isFrameDisplayed \in BOOLEAN
                               /\ page.previous.isLocked \in BOOLEAN
                               /\ page.unlocked = ~page.previous.isLocked
                               /\ page.told => page.displayed = page.previous.isFrameDisplayed
  /\ page.told \in BOOLEAN /\ page.displayed \in BOOLEAN
  /\ page.displayed => page.cover = "block" \/ page.uncovered

SyncInv == SyncShape /\ AllHonest /\ NewestLast /\ UpToDate /\ PageFollows

\* The invariant is stronger than the property.
LEMMA SyncInvIsTrue == SyncInv => Pages!MirrorsAreTrue
BY DEF SyncInv, SyncShape, UpToDate, PageFollows, Heard, Shown, Told, Pages!Mirrors,
       Pages!MirrorsAreTrue, Pages!FrameIsTrue, Pages!PageIsTrue

\* It holds before anything is sent.
LEMMA SyncInvInit == Init => (part = "state" => SyncInv)
<1> SUFFICES ASSUME Init, part = "state" PROVE SyncInv
  OBVIOUS
<1>0. /\ store = Pages!GetInitialState /\ dispatched = 0 /\ toFrame = << >> /\ toPage = << >>
      /\ fetch = [x \in Pages!Mirrors |-> "none"]
      /\ fetched = [x \in Pages!Mirrors |-> None]
      /\ lost = [x \in Pages!Mirrors |-> FALSE]
      /\ \E shared : frame = Pages!FrameState(shared)
      /\ page = Pages!InitialPage
  BY DEF Init, Pages!WalletInit, Pages!SyncInit
<1>1. SyncShape
  BY <1>0, InitialStoreOK, QueueEmpty
  DEF SyncShape, Pages!FrameState, Pages!InitialPage, PageFields, Pages!Mirrors
<1>2. AllHonest /\ NewestLast /\ UpToDate
  BY <1>0, QueueEmpty DEF AllHonest, NewestLast, UpToDate, Pages!Mirrors
<1>3. PageFollows
  BY <1>0 DEF PageFollows, Pages!InitialPage, Pages!Mirrors
<1>4. QED
  BY <1>1, <1>2, <1>3 DEF SyncInv

\* A dispatch makes all that is on its way older, and is the last.
LEMMA DispatchKeeps ==
  ASSUME SyncInv, NEW a \in Dispatches, Pages!Dispatch(a)
  PROVE  SyncInv'
<1>1. /\ store' = Pages!Reduce(store, a) /\ dispatched' = dispatched + 1
      /\ toFrame' = Append(toFrame, [version |-> dispatched + 1, state |-> Told(store')])
      /\ UNCHANGED <<fetch, fetched, lost, frame, toPage, page>>
  BY DEF Pages!Dispatch, Pages!Commit, Pages!Broadcast, Pages!pageVars, Told
<1>2. StoreOK(store') /\ dispatched \in Nat /\ Queue(toFrame)
  BY <1>1, ReducePreserves DEF SyncInv, SyncShape
<1> DEFINE m == [version |-> dispatched + 1, state |-> Told(store')]
<1>3. Honest(m, store', dispatched + 1)
  BY <1>2, ToldDisplay, ToldLocked DEF Honest
<1>4. \A x : Honest(x, store, dispatched) => Honest(x, store', dispatched + 1)
  BY <1>2 DEF Honest
<1>5. m.version = dispatched + 1
  OBVIOUS
<1>6. toFrame' = Append(toFrame, m)
  BY <1>1
<1> HIDE DEF m
<1>7. SyncShape'
  BY <1>1, <1>2, <1>6, QueueAppend DEF SyncInv, SyncShape
<1>8. AllHonest'
  BY <1>1, <1>2, <1>3, <1>4, <1>6, QueueAppend DEF SyncInv, AllHonest
<1>9. NewestLast' /\ UpToDate'
  BY <1>1, <1>2, <1>5, <1>6, QueueAppend DEF NewestLast, UpToDate, Heard
<1>10. PageFollows'
  BY <1>1 DEF SyncInv, PageFollows
<1>11. QED
  BY <1>7, <1>8, <1>9, <1>10 DEF SyncInv

\* An answer has the state and the version of its moment.
LEMMA FetchKeeps ==
  ASSUME SyncInv, NEW x \in Pages!Mirrors, Pages!AskSharedState(x) \/ Pages!GetSharedState(x)
  PROVE  SyncInv'
<1>1. CASE Pages!AskSharedState(x)
  BY <1>1 DEF Pages!AskSharedState, Pages!pageVars, SyncInv, SyncShape, AllHonest, NewestLast,
              UpToDate, Heard, Shown, PageFollows, Pages!Mirrors
<1>2. CASE Pages!GetSharedState(x)
  <2> DEFINE m == [version |-> dispatched, state |-> Told(store)]
  <2>1. /\ fetch[x] = "asked" /\ fetch' = [fetch EXCEPT ![x] = "answered"]
        /\ fetched' = [fetched EXCEPT ![x] = m]
        /\ UNCHANGED <<store, dispatched, toFrame, lost, frame, toPage, page>>
    BY <1>2 DEF Pages!GetSharedState, Pages!pageVars, Told
  <2>2. Honest(m, store, dispatched) /\ m.version = dispatched
    BY ToldDisplay, ToldLocked DEF Honest, SyncInv, SyncShape
  <2> HIDE DEF m
  <2>3. SyncShape'
    BY <2>1 DEF SyncInv, SyncShape
  <2>4. AllHonest'
    BY <2>1, <2>2 DEF SyncInv, SyncShape, AllHonest
  <2>5. UpToDate'
    BY <2>1, <2>2 DEF SyncInv, SyncShape, UpToDate, Heard, Shown
  <2>6. NewestLast' /\ PageFollows'
    BY <2>1 DEF SyncInv, SyncShape, NewestLast, PageFollows, Pages!Mirrors
  <2>7. QED
    BY <2>3, <2>4, <2>5, <2>6 DEF SyncInv
<1>3. QED
  BY <1>1, <1>2

\* A mirror that has heard everything shows an answer of the newest version.
LEMMA ShowFetchedKeeps ==
  ASSUME SyncInv, Pages!WireToLocal \/ Pages!FinishInit
  PROVE  SyncInv'
<1>1. CASE Pages!WireToLocal
  <2>1. /\ fetch["frame"] = "answered" /\ fetch' = [fetch EXCEPT !["frame"] = "done"]
        /\ frame' = [frame EXCEPT !.shared = fetched["frame"].state]
        /\ UNCHANGED <<store, dispatched, toFrame, fetched, lost, toPage, page>>
    BY <1>1 DEF Pages!WireToLocal, Pages!pageVars
  <2>2. SyncShape' /\ AllHonest' /\ NewestLast' /\ PageFollows'
    BY <2>1 DEF SyncInv, SyncShape, AllHonest, NewestLast, PageFollows, Pages!Mirrors
  <2>3. frame'.shared = fetched["frame"].state
    BY <2>1 DEF SyncInv, SyncShape
  <2>4. fetched["frame"].version = dispatched => frame'.shared = Told(store)
    BY <2>1, <2>3 DEF SyncInv, AllHonest, Honest, Pages!Mirrors
  <2>5. UpToDate'
    BY <2>1, <2>4 DEF SyncInv, SyncShape, UpToDate, Heard, Shown, Pages!Mirrors, Told
  <2>6. QED
    BY <2>2, <2>5 DEF SyncInv
<1>2. CASE Pages!FinishInit
  <2>1. /\ fetch["page"] = "answered" /\ fetch' = [fetch EXCEPT !["page"] = "done"]
        /\ page' = [page EXCEPT !.previous = fetched["page"].state,
                                !.unlocked = ~fetched["page"].state.isLocked]
        /\ UNCHANGED <<store, dispatched, toFrame, fetched, lost, toPage, frame>>
    BY <1>2 DEF Pages!FinishInit
  <2>2. /\ page'.previous = fetched["page"].state /\ page'.unlocked = ~fetched["page"].state.isLocked
        /\ page'.told = page.told /\ page'.displayed = page.displayed
        /\ page'.cover = page.cover /\ page'.uncovered = page.uncovered
        /\ PageFields \subseteq DOMAIN page'
    BY <2>1 DEF SyncInv, SyncShape, PageFields
  <2>3. Honest(fetched["page"], store, dispatched)
    BY <2>1 DEF SyncInv, AllHonest, Pages!Mirrors
  <2>4. SyncShape' /\ AllHonest' /\ NewestLast'
    BY <2>1, <2>2 DEF SyncInv, SyncShape, AllHonest, NewestLast, Pages!Mirrors
  <2>5. PageFollows'
    BY <2>1, <2>2, <2>3 DEF SyncInv, SyncShape, PageFollows, Honest, Pages!Mirrors
  <2>6. UpToDate'
    BY <2>1, <2>2, <2>3 DEF SyncInv, SyncShape, UpToDate, Heard, Shown, Pages!Mirrors, Told,
       Honest
  <2>7. QED
    BY <2>4, <2>5, <2>6 DEF SyncInv
<1>3. QED
  BY <1>1, <1>2

\* The last broadcast has the newest version, so that the frame shows it or drops it
\* knowingly.
LEMMA HearBroadcastKeeps ==
  ASSUME SyncInv, Pages!HearBroadcast
  PROVE  SyncInv'
<1>1. /\ toFrame # << >> /\ toFrame' = Tail(toFrame) /\ toPage' = Append(toPage, Head(toFrame))
      /\ frame' = IF fetch["frame"] = "done"
                    THEN [frame EXCEPT !.shared = Head(toFrame).state] ELSE frame
      /\ lost' = Pages!LostAfter("frame", Head(toFrame))
      /\ UNCHANGED <<store, dispatched, fetch, fetched, page>>
  BY DEF Pages!HearBroadcast
<1> DEFINE m == Head(toFrame)
<1>2. /\ Queue(toFrame) /\ Queue(toPage) /\ 1 \in DOMAIN toFrame /\ m = toFrame[1]
      /\ dispatched \in Nat
  BY <1>1, QueueTail DEF SyncInv, SyncShape
<1>3. Honest(m, store, dispatched)
  BY <1>2 DEF SyncInv, AllHonest
<1>4. Tail(toFrame) = << >> => m.version = dispatched
  BY <1>1, <1>2, QueueTail DEF SyncInv, NewestLast
<1>5. /\ toPage' = Append(toPage, m)
      /\ frame' = IF fetch["frame"] = "done" THEN [frame EXCEPT !.shared = m.state] ELSE frame
      /\ lost' = [lost EXCEPT !["frame"] = /\ fetch["frame"] # "done"
                                           /\ \/ @
                                              \/ fetch["frame"] = "answered"
                                                   /\ m.version > fetched["frame"].version]
  BY <1>1 DEF Pages!LostAfter
<1> HIDE DEF m
<1>6. lost' \in [Pages!Mirrors -> BOOLEAN] /\ lost'["page"] = lost["page"]
      /\ lost'["frame"] = /\ fetch["frame"] # "done"
                          /\ \/ lost["frame"]
                             \/ fetch["frame"] = "answered" /\ m.version > fetched["frame"].version
  BY <1>5, Zenon DEF SyncInv, SyncShape, Pages!Mirrors
<1>7. SyncShape'
  BY <1>1, <1>2, <1>5, <1>6, QueueTail, QueueAppend DEF SyncInv, SyncShape
<1>8. AllHonest'
  <2>1. \A i \in DOMAIN toFrame' : Honest(toFrame'[i], store, dispatched)
    BY <1>1, <1>2, QueueTail DEF SyncInv, AllHonest
  <2>2. \A i \in DOMAIN toPage' : Honest(toPage'[i], store, dispatched)
    BY <1>2, <1>3, <1>5, QueueAppend DEF SyncInv, AllHonest
  <2>3. QED
    BY <1>1, <2>1, <2>2 DEF SyncInv, AllHonest
<1>9. NewestLast'
  <2>1. toFrame' # << >> => toFrame'[Len(toFrame')].version = dispatched
    BY <1>1, <1>2, QueueTail DEF SyncInv, NewestLast
  <2>2. toFrame' = << >> => toPage'[Len(toPage')].version = dispatched
    BY <1>1, <1>2, <1>4, <1>5, QueueAppend
  <2>3. QED
    BY <1>1, <2>1, <2>2 DEF NewestLast
<1>10. UpToDate'
  <2>1. ~Heard("page")'
    BY <1>2, <1>5, QueueAppend DEF Heard
  <2>2. ASSUME Heard("frame")'
        PROVE  /\ fetch["frame"] = "answered" => fetched["frame"].version = dispatched \/ lost'["frame"]
               /\ fetch["frame"] = "done" => frame'.shared = Told(store)
    <3>1. m.version = dispatched /\ m.state = Told(store)
      BY <1>1, <1>3, <1>4, <2>2 DEF Heard, Honest
    <3>2. CASE fetch["frame"] = "answered"
      <4>1. fetched["frame"].version \in Nat /\ fetched["frame"].version <= dispatched
        BY <3>2 DEF SyncInv, AllHonest, Honest, Pages!Mirrors
      <4>2. fetched["frame"].version = dispatched \/ m.version > fetched["frame"].version
        BY <1>2, <3>1, <4>1
      <4>3. QED
        BY <1>6, <3>2, <4>2
    <3>3. CASE fetch["frame"] = "done"
      BY <1>5, <3>1, <3>3 DEF SyncInv, SyncShape
    <3>4. QED
      BY <3>2, <3>3
  <2>3. QED
    BY <1>1, <2>1, <2>2 DEF UpToDate, Pages!Mirrors, Heard, Shown, Told
<1>11. PageFollows'
  BY <1>1 DEF SyncInv, PageFollows
<1>12. QED
  BY <1>7, <1>8, <1>9, <1>10, <1>11 DEF SyncInv

\* What the page makes of a state.
Hears(p, state, q) ==
  /\ PageFields \subseteq DOMAIN q
  /\ q.previous = state /\ q.told = TRUE
  /\ q.displayed = state.isFrameDisplayed
  /\ q.unlocked = IF p.previous.isLocked # state.isLocked THEN ~state.isLocked ELSE p.unlocked
  /\ q.displayed => q.cover = "block"

LEMMA PageHears ==
  ASSUME NEW p, PageFields \subseteq DOMAIN p, NEW state, state.isFrameDisplayed \in BOOLEAN
  PROVE  Hears(p, state, Pages!HandleSharedStateUpdate(p, state))
<1> DEFINE q == Pages!HandleSharedStateUpdate(p, state)
<1> DEFINE e == Pages!WithEvents(p, state)
<1>1. /\ PageFields \subseteq DOMAIN e /\ e.told = TRUE
      /\ e.unlocked = IF p.previous.isLocked # state.isLocked THEN ~state.isLocked ELSE p.unlocked
  BY DEF Pages!WithEvents, PageFields
<1>2. q = [(IF state.isFrameDisplayed THEN Pages!Display(e) ELSE Pages!Hide(e)) EXCEPT !.previous = state]
  BY DEF Pages!HandleSharedStateUpdate
<1> HIDE DEF e
<1> HIDE DEF q
<1>3. ASSUME state.isFrameDisplayed PROVE Hears(p, state, q)
  <2>1. q = [Pages!Display(e) EXCEPT !.previous = state]
    BY <1>2, <1>3
  <2>2. QED
    BY <1>1, <1>3, <2>1 DEF Pages!Display, PageFields, Hears
<1>4. ASSUME ~state.isFrameDisplayed PROVE Hears(p, state, q)
  <2>1. q = [Pages!Hide(e) EXCEPT !.previous = state]
    BY <1>2, <1>4
  <2>2. QED
    BY <1>1, <1>4, <2>1 DEF Pages!Hide, PageFields, Hears
<1>5. Hears(p, state, q)
  BY <1>3, <1>4
<1>6. QED
  BY <1>5 DEF q

\* And so does the page.
LEMMA HearUpdateKeeps ==
  ASSUME SyncInv, Pages!HearUpdate
  PROVE  SyncInv'
<1>1. /\ toPage # << >> /\ toPage' = Tail(toPage)
      /\ page' = IF fetch["page"] = "done"
                   THEN Pages!HandleSharedStateUpdate(page, Head(toPage).state) ELSE page
      /\ lost' = Pages!LostAfter("page", Head(toPage))
      /\ UNCHANGED <<store, dispatched, toFrame, fetch, fetched, frame>>
  BY DEF Pages!HearUpdate
<1> DEFINE m == Head(toPage)
<1>2. Queue(toPage) /\ 1 \in DOMAIN toPage /\ m = toPage[1] /\ dispatched \in Nat
  BY <1>1, QueueTail DEF SyncInv, SyncShape
<1>3. Honest(m, store, dispatched)
  BY <1>2 DEF SyncInv, AllHonest
<1>4. toFrame = << >> /\ Tail(toPage) = << >> => m.version = dispatched
  BY <1>1, <1>2, QueueTail DEF SyncInv, NewestLast
<1>5. /\ page' = IF fetch["page"] = "done"
                   THEN Pages!HandleSharedStateUpdate(page, m.state) ELSE page
      /\ lost' = [lost EXCEPT !["page"] = /\ fetch["page"] # "done"
                                          /\ \/ @
                                             \/ fetch["page"] = "answered"
                                                  /\ m.version > fetched["page"].version]
  BY <1>1 DEF Pages!LostAfter
<1> HIDE DEF m
<1>6. lost' \in [Pages!Mirrors -> BOOLEAN] /\ lost'["frame"] = lost["frame"]
      /\ lost'["page"] = /\ fetch["page"] # "done"
                         /\ \/ lost["page"]
                            \/ fetch["page"] = "answered" /\ m.version > fetched["page"].version
  BY <1>5, Zenon DEF SyncInv, SyncShape, Pages!Mirrors
<1>7. fetch["page"] = "done" => Hears(page, m.state, page')
  <2>1. ASSUME fetch["page"] = "done" PROVE page' = Pages!HandleSharedStateUpdate(page, m.state)
    BY <1>5, <2>1
  <2>2. PageFields \subseteq DOMAIN page /\ m.state.isFrameDisplayed \in BOOLEAN
    BY <1>3 DEF SyncInv, SyncShape, Honest
  <2>3. QED
    BY <2>1, <2>2, PageHears
<1>8. SyncShape'
  BY <1>1, <1>2, <1>5, <1>6, <1>7, QueueTail DEF SyncInv, SyncShape, Hears
<1>9. AllHonest'
  <2>1. \A i \in DOMAIN toPage' : Honest(toPage'[i], store, dispatched)
    BY <1>1, <1>2, QueueTail DEF SyncInv, AllHonest
  <2>2. QED
    BY <1>1, <2>1 DEF SyncInv, AllHonest
<1>10. NewestLast'
  BY <1>1, <1>2, QueueTail DEF SyncInv, NewestLast
<1>11. UpToDate'
  <2>1. Heard("frame")' => Heard("frame")
    BY <1>1 DEF Heard
  <2>2. ASSUME Heard("page")'
        PROVE  /\ fetch["page"] = "answered" => fetched["page"].version = dispatched \/ lost'["page"]
               /\ fetch["page"] = "done" => page'.previous = Told(store)
    <3>1. m.version = dispatched /\ m.state = Told(store)
      BY <1>1, <1>3, <1>4, <2>2 DEF Heard, Honest
    <3>2. CASE fetch["page"] = "answered"
      <4>1. fetched["page"].version \in Nat /\ fetched["page"].version <= dispatched
        BY <3>2 DEF SyncInv, AllHonest, Honest, Pages!Mirrors
      <4>2. fetched["page"].version = dispatched \/ m.version > fetched["page"].version
        BY <1>2, <3>1, <4>1
      <4>3. QED
        BY <1>6, <3>2, <4>2
    <3>3. CASE fetch["page"] = "done"
      BY <1>7, <3>1, <3>3 DEF Hears
    <3>4. QED
      BY <3>2, <3>3
  <2>3. QED
    BY <1>1, <1>6, <2>1, <2>2 DEF SyncInv, UpToDate, Pages!Mirrors, Shown, Told
<1>12. PageFollows'
  <2>1. CASE fetch["page"] = "done"
    <3>1. /\ m.state.isFrameDisplayed \in BOOLEAN /\ m.state.isLocked \in BOOLEAN
          /\ page.previous.isLocked \in BOOLEAN /\ page.unlocked = ~page.previous.isLocked
      BY <1>3, <2>1 DEF Honest, SyncInv, PageFollows
    <3>2. page'.unlocked = ~m.state.isLocked
      BY <1>7, <2>1, <3>1 DEF Hears
    <3>3. QED
      BY <1>1, <1>7, <2>1, <3>1, <3>2 DEF PageFollows, Hears
  <2>2. CASE fetch["page"] # "done"
    BY <1>1, <1>5, <2>2 DEF SyncInv, PageFollows
  <2>3. QED
    BY <2>1, <2>2
<1>13. QED
  BY <1>8, <1>9, <1>10, <1>11, <1>12 DEF SyncInv

\* A timer removes the cover.
LEMMA RemoveCoverKeeps ==
  ASSUME SyncInv, Pages!RemoveCover
  PROVE  SyncInv'
<1>1. /\ page' = [page EXCEPT !.hideTimers = @ - 1, !.cover = "none", !.uncovered = page.displayed]
      /\ UNCHANGED <<store, dispatched, toFrame, toPage, fetch, fetched, lost, frame>>
  BY DEF Pages!RemoveCover
<1>2. /\ page'.previous = page.previous /\ page'.unlocked = page.unlocked
      /\ page'.told = page.told /\ page'.displayed = page.displayed
      /\ page'.uncovered = page.displayed
      /\ PageFields \subseteq DOMAIN page'
  BY <1>1 DEF SyncInv, SyncShape, PageFields
<1>3. SyncShape' /\ AllHonest' /\ NewestLast' /\ UpToDate'
  BY <1>1, <1>2 DEF SyncInv, SyncShape, AllHonest, NewestLast, UpToDate, Heard, Shown
<1>4. PageFollows'
  BY <1>1, <1>2 DEF SyncInv, PageFollows
<1>5. QED
  BY <1>3, <1>4 DEF SyncInv

\* The other parts do not matter.
LEMMA SyncInvKept == (part = "state" => SyncInv) /\ [Next]_vars => (part = "state" => SyncInv)'
<1> SUFFICES ASSUME part = "state" => SyncInv, [Next]_vars, part' = "state" PROVE SyncInv'
  OBVIOUS
<1>1. CASE UNCHANGED storeVars /\ UNCHANGED part
  BY <1>1 DEF storeVars, SyncInv, SyncShape, AllHonest, NewestLast, UpToDate, Heard, Shown,
              PageFollows
<1>2. CASE part = "state" /\ Pages!SyncNext
  BY <1>2, DispatchKeeps, FetchKeeps, ShowFetchedKeeps, HearBroadcastKeeps, HearUpdateKeeps,
     RemoveCoverKeeps DEF Pages!SyncNext
<1>3. QED
  BY <1>1, <1>2 DEF Next, vars

\* MirrorsAreTrue: whatever overtakes what between worker, frame and page, a mirror that
\* has heard everything shows the state of the worker, for any actions dispatched, any
\* number of them, and any delays (RemoteStoreUpdater.ts, VynosClient.ts, Frame.ts).
THEOREM MirrorsFollow == Spec => []MirrorsAreTrue
<1>1. (part = "state" => SyncInv) => MirrorsAreTrue
  BY SyncInvIsTrue DEF MirrorsAreTrue
<1>2. QED
  BY <1>1, SyncInvInit, SyncInvKept, PTL DEF Spec

------------------------------------------------------------------------------
(* What queues of calls hold *)

\* The elements of a queue; whether one has the type; whether one of type u comes after
\* one of type t; whether e is the last of its type.
Elems(q) == {q[i] : i \in DOMAIN q}
In(q, type) == Pages!InFlight(q, type)
After(q, t, u) == \E i, j \in DOMAIN q : i < j /\ q[i].type = t /\ q[j].type = u
Last(q, type, e) == \E i \in DOMAIN q : /\ q[i] = e /\ e.type = type
                                        /\ \A j \in DOMAIN q : j > i => q[j].type # type

\* What r holds when it is q with e behind it.
Adds(q, e, r) ==
  /\ Queue(r)
  /\ \A x : x \in Elems(r) <=> x \in Elems(q) \/ x = e
  /\ \A t : In(r, t) <=> In(q, t) \/ e.type = t
  /\ \A t, u : After(r, t, u) => After(q, t, u) \/ (In(q, t) /\ e.type = u)
  /\ \A t, x : Last(r, t, x) => IF e.type = t THEN x = e ELSE Last(q, t, x)
  /\ \A t, x : Last(q, t, x) /\ e.type # t => Last(r, t, x)
  /\ Last(r, e.type, e)

\* A queue is indexed from 1.
LEMMA QueueDomain ==
  ASSUME NEW q, Queue(q)
  PROVE  Len(q) \in Nat /\ DOMAIN q = 1 .. Len(q)
BY DEF Queue

\* What Append makes of a queue.
LEMMA AppendAdds ==
  ASSUME NEW q, Queue(q), NEW e
  PROVE  Adds(q, e, Append(q, e))
<1> DEFINE r == Append(q, e)
<1> DEFINE n == Len(q) + 1
<1>1. PICK S : q \in Seq(S)
  BY DEF Queue
<1>2. q \in Seq(S \cup {e}) /\ e \in S \cup {e}
  BY <1>1
<1>3. r \in Seq(S \cup {e}) /\ Len(r) = n /\ r[n] = e /\ \A i \in 1 .. Len(q) : r[i] = q[i]
  BY <1>2
<1>4. Queue(r)
  BY <1>3 DEF Queue
<1>5. /\ Len(q) \in Nat /\ DOMAIN q = 1 .. Len(q) /\ DOMAIN r = 1 .. n
      /\ r[n] = e /\ \A i \in DOMAIN q : r[i] = q[i]
  BY <1>3, <1>4, QueueDomain
<1> HIDE DEF r
<1>6. /\ n \in DOMAIN r /\ r[n] = e
      /\ \A i \in DOMAIN q : i \in DOMAIN r /\ i \in Nat /\ i < n /\ r[i] = q[i]
      /\ \A i \in DOMAIN r : i \in Nat /\ (i \in DOMAIN q \/ i = n)
      /\ \A i \in DOMAIN r : ~(n < i)
  BY <1>5
<1> HIDE DEF n
<1>7. \A x : x \in Elems(r) <=> x \in Elems(q) \/ x = e
  BY <1>6 DEF Elems
<1>8. \A t : In(r, t) <=> In(q, t) \/ e.type = t
  BY <1>6 DEF In, Pages!InFlight
<1>9. \A t, u : After(r, t, u) => After(q, t, u) \/ (In(q, t) /\ e.type = u)
  BY <1>6 DEF In, Pages!InFlight, After
<1>10. ASSUME NEW t, NEW x, Last(r, t, x)
       PROVE  IF e.type = t THEN x = e ELSE Last(q, t, x)
  <2>1. PICK i \in DOMAIN r : /\ r[i] = x /\ x.type = t
                              /\ \A j \in DOMAIN r : j > i => r[j].type # t
    BY <1>10 DEF Last
  <2>2. CASE e.type = t
    BY <1>6, <2>1, <2>2
  <2>3. CASE e.type # t
    <3>1. i \in DOMAIN q /\ q[i] = x
      BY <1>6, <2>1, <2>3
    <3>2. QED
      BY <1>6, <2>1, <2>3, <3>1 DEF Last
  <2>4. QED
    BY <2>2, <2>3
<1>11. ASSUME NEW t, NEW x, Last(q, t, x), e.type # t PROVE Last(r, t, x)
  BY <1>6, <1>11 DEF Last
<1>12. Last(r, e.type, e)
  BY <1>6 DEF Last
<1>13. Adds(q, e, r)
  BY <1>4, <1>7, <1>8, <1>9, <1>10, <1>11, <1>12 DEF Adds
<1>14. QED
  BY <1>13 DEF r

\* Posts() appends one request after the other.
LEMMA AppendIs ==
  ASSUME NEW q, Queue(q), NEW e, NEW f
  PROVE  /\ q \o <<e>> = Append(q, e)
         /\ q \o <<e, f>> = Append(Append(q, e), f)
<1>1. PICK S : q \in Seq(S)
  BY DEF Queue
<1>2. q \in Seq(S \cup {e, f}) /\ e \in S \cup {e, f} /\ f \in S \cup {e, f}
  BY <1>1
<1>3. QED
  BY <1>2

\* What r holds when it is q without one element e.
Drops(q, e, r) ==
  /\ Queue(r) /\ e \in Elems(q)
  /\ \A x \in Elems(r) : x \in Elems(q)
  /\ \A t : In(r, t) => In(q, t)
  /\ \A t : In(q, t) => In(r, t) \/ e.type = t
  /\ In(q, e.type)
  /\ \A t, u : After(r, t, u) => After(q, t, u)
  /\ \A t, x : e.type # t => (Last(r, t, x) <=> Last(q, t, x))

\* r is q without the element at k.
Without(q, k, r) ==
  /\ Queue(q) /\ Queue(r) /\ k \in DOMAIN q
  /\ \A i \in DOMAIN r : IF i < k THEN i \in DOMAIN q /\ r[i] = q[i]
                                   ELSE i + 1 \in DOMAIN q /\ r[i] = q[i + 1]
  /\ \A i \in DOMAIN q : /\ i < k => i \in DOMAIN r
                         /\ i > k => i - 1 \in DOMAIN r

\* What is left by taking one element out.
LEMMA WithoutDrops ==
  ASSUME NEW q, NEW k, NEW r, Without(q, k, r)
  PROVE  Drops(q, q[k], r)
<1>1. /\ \A i \in DOMAIN q : i \in Nat
      /\ \A i \in DOMAIN r : i \in Nat
      /\ k \in DOMAIN q
  BY QueueDomain DEF Without
<1>2. \A i \in DOMAIN r : IF i < k THEN i \in DOMAIN q /\ r[i] = q[i]
                                   ELSE i + 1 \in DOMAIN q /\ r[i] = q[i + 1]
  BY DEF Without
<1>3. \A i \in DOMAIN q : \/ i = k
                          \/ i \in DOMAIN r /\ i < k /\ r[i] = q[i]
                          \/ i - 1 \in DOMAIN r /\ i > k /\ r[i - 1] = q[i]
  BY <1>1, <1>2 DEF Without
<1>4. \A x \in Elems(r) : x \in Elems(q)
  BY <1>1, <1>2 DEF Elems
<1>5. \A t : In(r, t) => In(q, t)
  BY <1>1, <1>2 DEF In, Pages!InFlight
<1>6. \A t : In(q, t) => In(r, t) \/ q[k].type = t
  BY <1>1, <1>3 DEF In, Pages!InFlight
<1>7. In(q, q[k].type) /\ q[k] \in Elems(q)
  BY <1>1 DEF In, Pages!InFlight, Elems
<1>8. ASSUME NEW t, NEW u, After(r, t, u) PROVE After(q, t, u)
  <2>1. PICK i \in DOMAIN r, j \in DOMAIN r : i < j /\ r[i].type = t /\ r[j].type = u
    BY <1>8 DEF After
  <2>2. PICK m \in DOMAIN q : r[i] = q[m] /\ (IF i < k THEN m = i ELSE m = i + 1)
    BY <1>1, <1>2
  <2>3. PICK n \in DOMAIN q : r[j] = q[n] /\ (IF j < k THEN n = j ELSE n = j + 1)
    BY <1>1, <1>2
  <2>4. m < n
    BY <1>1, <2>1, <2>2, <2>3
  <2>5. QED
    BY <2>1, <2>2, <2>3, <2>4 DEF After
<1>9. ASSUME NEW t, NEW x, q[k].type # t, Last(r, t, x) PROVE Last(q, t, x)
  <2>1. PICK i \in DOMAIN r : /\ r[i] = x /\ x.type = t
                              /\ \A j \in DOMAIN r : j > i => r[j].type # t
    BY <1>9 DEF Last
  <2>2. PICK m \in DOMAIN q : r[i] = q[m] /\ (IF i < k THEN m = i ELSE m = i + 1)
    BY <1>1, <1>2
  <2>3. ASSUME NEW j \in DOMAIN q, j > m PROVE q[j].type # t
    <3>1. CASE j < k
      BY <1>1, <1>3, <2>1, <2>2, <2>3, <3>1
    <3>2. CASE j = k
      BY <1>9, <3>2
    <3>3. CASE j > k
      <4>1. j - 1 \in DOMAIN r /\ r[j - 1] = q[j]
        BY <1>1, <1>3, <3>3
      <4>2. j - 1 > i
        BY <1>1, <2>2, <2>3, <3>3
      <4>3. QED
        BY <2>1, <4>1, <4>2
    <3>4. QED
      BY <1>1, <3>1, <3>2, <3>3
  <2>4. QED
    BY <2>1, <2>2, <2>3 DEF Last
<1>10. ASSUME NEW t, NEW x, q[k].type # t, Last(q, t, x) PROVE Last(r, t, x)
  <2>1. PICK i \in DOMAIN q : /\ q[i] = x /\ x.type = t
                              /\ \A j \in DOMAIN q : j > i => q[j].type # t
    BY <1>10 DEF Last
  <2>2. PICK m \in DOMAIN r : r[m] = q[i] /\ (IF i < k THEN m = i ELSE m = i - 1 /\ i > k)
    BY <1>1, <1>3, <1>10, <2>1
  <2>3. ASSUME NEW j \in DOMAIN r, j > m PROVE r[j].type # t
    <3>1. PICK n \in DOMAIN q : r[j] = q[n] /\ (IF j < k THEN n = j ELSE n = j + 1)
      BY <1>1, <1>2
    <3>2. n > i
      BY <1>1, <2>2, <2>3, <3>1
    <3>3. QED
      BY <2>1, <3>1, <3>2
  <2>4. QED
    BY <2>1, <2>2, <2>3 DEF Last
<1>11. Queue(r)
  BY DEF Without
<1>12. QED
  BY <1>4, <1>5, <1>6, <1>7, <1>8, <1>9, <1>10, <1>11 DEF Drops

\* Tail takes the first element out.
LEMMA TailWithout ==
  ASSUME NEW q, Queue(q), q # << >>
  PROVE  Without(q, 1, Tail(q)) /\ Head(q) = q[1]
<1>1. PICK S : q \in Seq(S)
  BY DEF Queue
<1> DEFINE r == Tail(q)
<1>2. r \in Seq(S) /\ Len(r) = Len(q) - 1 /\ Len(q) > 0 /\ Len(q) \in Nat /\ Head(q) = q[1]
  BY <1>1
<1>3. DOMAIN q = 1 .. Len(q) /\ DOMAIN r = 1 .. Len(r)
  BY <1>1, <1>2
<1>4. \A i \in 1 .. Len(r) : r[i] = q[i + 1]
  BY <1>1
<1>5. Queue(r)
  BY <1>2 DEF Queue
<1> HIDE DEF r
<1>6. Without(q, 1, r)
  BY <1>2, <1>3, <1>4, <1>5 DEF Without
<1>7. QED
  BY <1>2, <1>6 DEF r

\* RemoveAt takes out the element at k.
LEMMA RemoveAtWithout ==
  ASSUME NEW q, Queue(q), NEW k \in DOMAIN q
  PROVE  Without(q, k, Pages!RemoveAt(q, k))
<1>1. PICK S : q \in Seq(S)
  BY DEF Queue
<1>2. Len(q) \in Nat /\ DOMAIN q = 1 .. Len(q) /\ k \in 1 .. Len(q)
  BY QueueDomain
<1> DEFINE a == SubSeq(q, 1, k - 1)
<1> DEFINE b == SubSeq(q, k + 1, Len(q))
<1>3. a \in Seq(S) /\ Len(a) = k - 1 /\ \A i \in 1 .. k - 1 : a[i] = q[i]
  BY <1>1, <1>2
<1>4. b \in Seq(S) /\ Len(b) = Len(q) - k /\ \A i \in 1 .. Len(q) - k : b[i] = q[i + k]
  BY <1>1, <1>2
<1>5. Pages!RemoveAt(q, k) = a \o b
  BY DEF Pages!RemoveAt
<1> HIDE DEF a, b
<1> DEFINE r == a \o b
<1>6. r \in Seq(S) /\ Len(r) = Len(q) - 1
      /\ \A i \in 1 .. Len(q) - 1 : r[i] = IF i < k THEN q[i] ELSE q[i + 1]
  <2>0. a \in Seq(S) /\ b \in Seq(S)
    BY <1>3, <1>4
  <2>1. r \in Seq(S) /\ Len(r) = Len(a) + Len(b)
        /\ \A i \in 1 .. Len(r) : r[i] = IF i <= Len(a) THEN a[i] ELSE b[i - Len(a)]
    BY <2>0
  <2> HIDE DEF r
  <2>2. Len(r) = Len(q) - 1
    BY <1>2, <1>3, <1>4, <2>1
  <2>3. ASSUME NEW i \in 1 .. Len(q) - 1 PROVE r[i] = IF i < k THEN q[i] ELSE q[i + 1]
    <3>1. CASE i < k
      BY <1>2, <1>3, <2>1, <2>2, <2>3, <3>1
    <3>2. CASE i >= k
      <4>1. r[i] = b[i - k + 1] /\ i - k + 1 \in 1 .. Len(q) - k
        BY <1>2, <1>3, <2>1, <2>2, <2>3, <3>2
      <4>2. b[i - k + 1] = q[i - k + 1 + k] /\ i - k + 1 + k = i + 1
        BY <1>2, <1>4, <4>1
      <4>3. QED
        BY <1>2, <3>2, <4>1, <4>2
    <3>3. QED
      BY <1>2, <3>1, <3>2
  <2>4. QED
    BY <2>1, <2>2, <2>3
<1> HIDE DEF r
<1>7. DOMAIN r = 1 .. Len(q) - 1 /\ Queue(r)
  BY <1>2, <1>6 DEF Queue
<1>8. Without(q, k, r)
  BY <1>2, <1>6, <1>7 DEF Without
<1>9. QED
  BY <1>5, <1>8 DEF r

\* The calls that have to do with a keyring.
Keyed == {"genKeyring", "restoreWallet", "unlockWallet"}

\* What is known besides of the first of the elements that have to do with a keyring.
DropsFirst(q, e, r) ==
  /\ Drops(q, e, r)
  /\ \A t \in Keyed : In(r, t) => After(q, e.type, t)
  /\ e.type = "genKeyring" =>
       /\ \A x : Last(r, "genKeyring", x) => Last(q, "genKeyring", x)
       /\ \A x : Last(q, "genKeyring", x) =>
                   Last(r, "genKeyring", x) \/ (x = e /\ ~In(r, "genKeyring"))
       /\ ~In(r, "genKeyring") => Last(q, "genKeyring", e)

\* What is left, when the element overtakes none of them.
LEMMA FirstDrops ==
  ASSUME NEW q, NEW k, NEW r, Without(q, k, r), q[k].type \in Keyed, ~Pages!Overtakes(q, k)
  PROVE  DropsFirst(q, q[k], r)
<1>0. Drops(q, q[k], r)
  BY WithoutDrops
<1>1. /\ Len(q) \in Nat /\ DOMAIN q = 1 .. Len(q) /\ k \in DOMAIN q
      /\ \A i \in DOMAIN r : i \in Nat
  BY QueueDomain DEF Without
<1>2. \A i \in DOMAIN q : i < k => q[i].type \notin Keyed
  BY <1>1 DEF Pages!Overtakes, Keyed
<1>3. \A i \in DOMAIN r : IF i < k THEN i \in DOMAIN q /\ r[i] = q[i]
                                   ELSE i + 1 \in DOMAIN q /\ r[i] = q[i + 1]
  BY DEF Without
<1>4. \A i \in DOMAIN q : i \in Nat
  BY <1>1
<1>5. \A i \in DOMAIN q : i = k \/ i < k \/ (i - 1 \in DOMAIN r /\ i > k /\ r[i - 1] = q[i])
  BY <1>3, <1>4, <1>1 DEF Without
<1>6. \A i \in DOMAIN r : r[i].type \in Keyed => i >= k /\ i + 1 \in DOMAIN q /\ r[i] = q[i + 1]
  BY <1>1, <1>2, <1>3
<1>7. ASSUME NEW t \in Keyed, In(r, t) PROVE After(q, q[k].type, t)
  <2>1. PICK i \in DOMAIN r : r[i].type = t
    BY <1>7 DEF In, Pages!InFlight
  <2>2. i >= k /\ i + 1 \in DOMAIN q /\ q[i + 1].type = t
    BY <1>6, <2>1
  <2>3. k < i + 1
    BY <1>1, <2>2
  <2>4. QED
    BY <1>1, <2>2, <2>3 DEF After
<1>8. ASSUME NEW x, Last(r, "genKeyring", x) PROVE Last(q, "genKeyring", x)
  <2>1. PICK i \in DOMAIN r : /\ r[i] = x /\ x.type = "genKeyring"
                              /\ \A j \in DOMAIN r : j > i => r[j].type # "genKeyring"
    BY <1>8 DEF Last
  <2>2. i >= k /\ i + 1 \in DOMAIN q /\ q[i + 1] = x
    BY <1>6, <2>1 DEF Keyed
  <2>3. ASSUME NEW j \in DOMAIN q, j > i + 1 PROVE q[j].type # "genKeyring"
    <3>1. j - 1 \in DOMAIN r /\ r[j - 1] = q[j] /\ j - 1 > i
      BY <1>1, <1>4, <1>5, <2>2, <2>3
    <3>2. QED
      BY <2>1, <3>1
  <2>4. QED
    BY <2>1, <2>2, <2>3 DEF Last
<1>9. ASSUME NEW x, Last(q, "genKeyring", x)
      PROVE  Last(r, "genKeyring", x) \/ (x = q[k] /\ ~In(r, "genKeyring"))
  <2>1. PICK i \in DOMAIN q : /\ q[i] = x /\ x.type = "genKeyring"
                              /\ \A j \in DOMAIN q : j > i => q[j].type # "genKeyring"
    BY <1>9 DEF Last
  <2>2. CASE i = k
    <3>1. ASSUME NEW j \in DOMAIN r PROVE r[j].type # "genKeyring"
      <4>1. SUFFICES ASSUME r[j].type = "genKeyring" PROVE FALSE
        OBVIOUS
      <4>2. j >= k /\ j + 1 \in DOMAIN q /\ r[j] = q[j + 1]
        BY <1>6, <4>1 DEF Keyed
      <4>3. QED
        BY <1>1, <2>1, <2>2, <4>1, <4>2
    <3>2. QED
      BY <2>1, <2>2, <3>1 DEF In, Pages!InFlight
  <2>3. CASE i # k
    <3>1. i - 1 \in DOMAIN r /\ i > k /\ r[i - 1] = x
      BY <1>2, <1>5, <2>1, <2>3 DEF Keyed
    <3>2. ASSUME NEW j \in DOMAIN r, j > i - 1, r[j].type = "genKeyring" PROVE FALSE
      <4>1. j + 1 \in DOMAIN q /\ r[j] = q[j + 1] /\ j + 1 > i
        BY <1>1, <1>4, <1>6, <3>2 DEF Keyed
      <4>2. QED
        BY <2>1, <3>2, <4>1
    <3>3. QED
      BY <2>1, <3>1, <3>2 DEF Last
  <2>4. QED
    BY <2>2, <2>3
<1>10. ASSUME q[k].type = "genKeyring", ~In(r, "genKeyring") PROVE Last(q, "genKeyring", q[k])
  <2>1. \A j \in DOMAIN q : j > k => q[j].type # "genKeyring"
    BY <1>1, <1>4, <1>5, <1>10 DEF In, Pages!InFlight
  <2>2. QED
    BY <1>1, <1>10, <2>1 DEF Last
<1>11. QED
  BY <1>0, <1>7, <1>8, <1>9, <1>10 DEF DropsFirst

\* What is left of the requests when the first is handled, all of it behind the first.
LEMMA TailDrops ==
  ASSUME NEW q, Queue(q), q # << >>
  PROVE  /\ Drops(q, Head(q), Tail(q))
         /\ \A t : In(Tail(q), t) => After(q, Head(q).type, t)
<1>1. Without(q, 1, Tail(q)) /\ Head(q) = q[1]
  BY TailWithout
<1>2. Drops(q, Head(q), Tail(q))
  BY <1>1, WithoutDrops
<1>3. ASSUME NEW t, In(Tail(q), t) PROVE After(q, Head(q).type, t)
  <2>1. PICK i \in DOMAIN Tail(q) : Tail(q)[i].type = t
    BY <1>3 DEF In, Pages!InFlight
  <2>2. i \in Nat /\ i >= 1
    <3>1. Queue(Tail(q))
      BY <1>1 DEF Without
    <3>2. QED
      BY <3>1, QueueDomain
  <2>3. i + 1 \in DOMAIN q /\ q[i + 1].type = t /\ 1 \in DOMAIN q
    BY <1>1, <2>1, <2>2 DEF Without
  <2>4. 1 < i + 1
    BY <2>2
  <2>5. QED
    BY <1>1, <2>3, <2>4 DEF After
<1>4. QED
  BY <1>2, <1>3

------------------------------------------------------------------------------
(* The pages on which a wallet is made, restored and unlocked *)

\* The keyring that is stored, whether the wallet counts as made, the wallet that is
\* open, and the words that the frame shows.
Stores == store.persistent.keyring
Done == store.persistent.didInit
Opened == store.runtime.wallet
Words == frame.temp.mnemonic

\* The fields that handlers and pages set.
WalletShape(s) == /\ {"persistent", "runtime"} \subseteq DOMAIN s
                  /\ {"didInit", "keyring"} \subseteq DOMAIN s.persistent
                  /\ {"wallet"} \subseteq DOMAIN s.runtime
FrameShape(f) == /\ {"temp", "shared"} \subseteq DOMAIN f
                 /\ {"mnemonic", "showInitialDeposit"} \subseteq DOMAIN f.temp
FormShape(g) == /\ {"acknowledged", "authenticating", "loading", "restoring", "seeds", "hd"}
                     \subseteq DOMAIN g
                /\ g.restoring \in {"no", "seeds", "pick", "password"}

\* Calls that take time, and all calls.
Worked == {"genKeyring", "restoreWallet", "unlockWallet", "authenticate",
           "generateRestorationCandidates"}
Requested == Worked \cup {"lockWallet", "didStoreMnemonic", "toggleFrame"}

\* A wallet is restored from words that the user has written down.
Meant(r) == /\ r.type = "restoreWallet" => r.with.words \in known
            /\ r.type = "generateRestorationCandidates" => r.with \in known

\* Types.
CallShape ==
  /\ Queue(inbox) /\ Queue(jobs) /\ Queue(pageAnswers) /\ Queue(toFrame)
  /\ \A r \in Elems(inbox) : r.type \in Requested /\ Meant(r)
  /\ \A r \in Elems(jobs) : r.type \in Worked /\ Meant(r)
  /\ \A r \in Elems(pageAnswers) : r.type \in Worked /\ Meant(r)

PageShape == /\ WalletShape(store) /\ FrameShape(frame) /\ FormShape(form)
             /\ form.restoring \in {"pick", "password"} => form.seeds \in known

\* A keyring has yet to be made or to be encrypted.
Making == In(inbox, "genKeyring") \/ In(jobs, "genKeyring")

\* What comes in which order: no keyring is made after a wallet is restored, or once the
\* wallet counts as made; none is unlocked behind a restoration; and when the words have
\* been confirmed, they are those of the keyring that is stored.
Order ==
  /\ ~After(inbox, "restoreWallet", "genKeyring")
  /\ ~After(jobs, "restoreWallet", "genKeyring")
  /\ In(inbox, "genKeyring") => ~In(jobs, "restoreWallet")
  /\ ~After(jobs, "restoreWallet", "unlockWallet")
  /\ Done => ~Making
  /\ In(inbox, "didStoreMnemonic") => /\ ~Making /\ ~In(pageAnswers, "genKeyring")
                                      /\ Stores.words \in known
  /\ In(inbox, "unlockWallet") \/ In(jobs, "unlockWallet") => Done

\* The frame hears of a wallet, and asks to unlock it, only when there is one.
HeardOf == /\ frame.shared.didInit => Done
           /\ \A m \in Elems(toFrame) : m.state.didInit => Done
           /\ route = "/unlock" => Done

\* The last call of genKeyring() has the newest words, and they are what is shown when
\* all calls have been answered.
Newest ==
  /\ \A e : Last(jobs, "genKeyring", e) => e.with.words = words
  /\ ~Making => \A e : Last(pageAnswers, "genKeyring", e) => e.with.words = words
  /\ ~Making /\ ~In(pageAnswers, "genKeyring") => Words \in {None, words}

\* The words of the keyring that is stored are known, or are the newest.
Kept ==
  /\ Done => Stores.words \in known
  /\ Words # None \/ In(pageAnswers, "genKeyring") =>
       (~Making => Stores.words \in known \/ Stores.words = words)

\* Words that have been copied are shown, and no others are coming.
Noted == form.acknowledged => /\ Pages!On("Mnemonic")
                              /\ ~Making /\ ~In(pageAnswers, "genKeyring")
                              /\ Words \in known

\* The wallet that is open is that of the newest keyring: of the one that is being
\* encrypted, or of the one that is stored.
Fits ==
  /\ \A r \in Elems(jobs) : r.type = "unlockWallet" => r.with = Stores
  /\ ~In(jobs, "restoreWallet") =>
       \/ Opened = None
       \/ \E e : Last(jobs, "genKeyring", e) /\ Opened = e.with
       \/ ~In(jobs, "genKeyring") /\ Opened = Stores

WordsInv == CallShape /\ PageShape /\ Order /\ HeardOf /\ Newest /\ Kept /\ Noted /\ Fits

\* The inductive invariant.
PagesInv == part = "pages" /\ mishaps = {} => WordsInv

\* What a reducer makes of the fields that count.
StoreIs(t, done, keyring, opened) ==
  /\ WalletShape(t) /\ t.persistent.didInit = done
  /\ t.persistent.keyring = keyring /\ t.runtime.wallet = opened

\* What the reducers of the handlers make of them.
LEMMA StoreEffects ==
  ASSUME NEW s, WalletShape(s), NEW v
  PROVE  /\ StoreIs(Pages!SetWallet(s, v), s.persistent.didInit, s.persistent.keyring, v)
         /\ StoreIs(Pages!SetKeyring(s, v), s.persistent.didInit, v, s.runtime.wallet)
         /\ StoreIs(Pages!RestoreWallet(s, v), TRUE, v.keyring, v.wallet)
         /\ StoreIs(Pages!SetDidStoreMnemonic(s), TRUE, s.persistent.keyring, s.runtime.wallet)
         /\ StoreIs(Pages!SetCurrentAuthToken(s, v), s.persistent.didInit, s.persistent.keyring,
                    s.runtime.wallet)
         /\ StoreIs(Pages!ToggleFrame(s, v), s.persistent.didInit, s.persistent.keyring,
                    s.runtime.wallet)
<1>1. StoreIs(Pages!SetWallet(s, v), s.persistent.didInit, s.persistent.keyring, v)
  BY DEF StoreIs, WalletShape, Pages!SetWallet
<1>2. StoreIs(Pages!SetKeyring(s, v), s.persistent.didInit, v, s.runtime.wallet)
  BY DEF StoreIs, WalletShape, Pages!SetKeyring
<1>3. StoreIs(Pages!RestoreWallet(s, v), TRUE, v.keyring, v.wallet)
  BY DEF StoreIs, WalletShape, Pages!RestoreWallet
<1>4. StoreIs(Pages!SetDidStoreMnemonic(s), TRUE, s.persistent.keyring, s.runtime.wallet)
  BY DEF StoreIs, WalletShape, Pages!SetDidStoreMnemonic
<1>5. StoreIs(Pages!SetCurrentAuthToken(s, v), s.persistent.didInit, s.persistent.keyring, s.runtime.wallet)
  BY DEF StoreIs, WalletShape, Pages!SetCurrentAuthToken
<1>6. StoreIs(Pages!ToggleFrame(s, v), s.persistent.didInit, s.persistent.keyring, s.runtime.wallet)
  BY DEF StoreIs, WalletShape, Pages!ToggleFrame
<1>7. QED
  BY <1>1, <1>2, <1>3, <1>4, <1>5, <1>6

\* A broadcast says whether the wallet counts as made.
LEMMA ToldDone == ASSUME NEW s PROVE Told(s).didInit = s.persistent.didInit
BY DEF Told, Pages!BuildSharedState


\* The requests that the order is about.
Telling == Keyed \cup {"didStoreMnemonic"}

\* Nothing that counts is added, and no making or restoring is gone.
Keeps(q, r) ==
  /\ \A t \in Telling : In(r, t) => In(q, t)
  /\ \A t \in Telling, u \in Telling : After(r, t, u) => After(q, t, u)
  /\ \A x \in Elems(r) : x.type \in Telling => x \in Elems(q)
  /\ \A t \in {"genKeyring", "restoreWallet"} :
       /\ In(q, t) => In(r, t)
       /\ \A x : Last(r, t, x) <=> Last(q, t, x)

\* The same words are on their way.
KeepsWords(q, r) == /\ In(r, "genKeyring") <=> In(q, "genKeyring")
                    /\ \A x : Last(r, "genKeyring", x) <=> Last(q, "genKeyring", x)

\* Calls of other types may come and go.
LEMMA Keeping ==
  ASSUME NEW q, NEW r, NEW e
  PROVE  /\ Keeps(q, q) /\ KeepsWords(q, q)
         /\ Adds(q, e, r) /\ e.type \notin Telling => Keeps(q, r)
         /\ Drops(q, e, r) /\ e.type \notin {"genKeyring", "restoreWallet"} => Keeps(q, r)
         /\ Adds(q, e, r) /\ e.type # "genKeyring" => KeepsWords(q, r)
         /\ Drops(q, e, r) /\ e.type # "genKeyring" => KeepsWords(q, r)
<1>1. Keeps(q, q) /\ KeepsWords(q, q)
  BY DEF Keeps, KeepsWords
<1>2. ASSUME Adds(q, e, r), e.type \notin Telling PROVE Keeps(q, r)
  <2>1. \A t \in Telling : t # e.type
    BY <1>2
  <2>2. \A t \in Telling : In(r, t) <=> In(q, t)
    BY <1>2, <2>1 DEF Adds
  <2>3. \A t \in Telling, u \in Telling : After(r, t, u) => After(q, t, u)
    BY <1>2, <2>1 DEF Adds
  <2>4. \A t \in Telling : \A x : Last(r, t, x) <=> Last(q, t, x)
    BY <1>2, <2>1 DEF Adds
  <2>5. \A x \in Elems(r) : x.type \in Telling => x \in Elems(q)
    BY <1>2, <2>1 DEF Adds
  <2>6. QED
    BY <2>2, <2>3, <2>4, <2>5 DEF Keeps, Telling, Keyed
<1>3. ASSUME Drops(q, e, r), e.type \notin {"genKeyring", "restoreWallet"} PROVE Keeps(q, r)
  <2>1. \A t \in {"genKeyring", "restoreWallet"} : e.type # t
    BY <1>3
  <2>2. \A t \in {"genKeyring", "restoreWallet"} : In(q, t) => In(r, t)
    BY <1>3, <2>1 DEF Drops
  <2>3. \A t \in {"genKeyring", "restoreWallet"} : \A x : Last(r, t, x) <=> Last(q, t, x)
    BY <1>3, <2>1 DEF Drops
  <2>4. /\ \A t : In(r, t) => In(q, t)
        /\ \A t, u : After(r, t, u) => After(q, t, u)
        /\ \A x \in Elems(r) : x \in Elems(q)
    BY <1>3 DEF Drops
  <2>5. QED
    BY <2>2, <2>3, <2>4 DEF Keeps
<1>4. ASSUME Adds(q, e, r), e.type # "genKeyring" PROVE KeepsWords(q, r)
  BY <1>4 DEF Adds, KeepsWords
<1>5. ASSUME Drops(q, e, r), e.type # "genKeyring" PROVE KeepsWords(q, r)
  BY <1>5 DEF Drops, KeepsWords
<1>6. QED
  BY <1>1, <1>2, <1>3, <1>4, <1>5

\* With that, and the same keyring, the order stays what it is.
LEMMA IdleStep ==
  ASSUME WordsInv, Keeps(inbox, inbox'), Keeps(jobs, jobs'),
         KeepsWords(pageAnswers, pageAnswers'),
         UNCHANGED <<words, known>>, Done' = Done, Stores' = Stores,
         Opened' \in {Opened, None} \/ (Opened' = Stores /\ ~In(jobs, "genKeyring")),
         Words' \in {Words, None}
  PROVE  Order' /\ Newest' /\ Kept' /\ Fits' /\ Making' = Making
<1>1. Order /\ Newest /\ Kept /\ Fits
  BY DEF WordsInv
<1>2. /\ \A t \in Telling : In(inbox', t) => In(inbox, t)
      /\ In(inbox, "genKeyring") => In(inbox', "genKeyring")
      /\ ~After(inbox, "restoreWallet", "genKeyring") => ~After(inbox', "restoreWallet", "genKeyring")
  BY DEF Keeps, Telling, Keyed
<1>3. /\ \A t \in Telling : In(jobs', t) => In(jobs, t)
      /\ In(jobs, "genKeyring") => In(jobs', "genKeyring")
      /\ In(jobs, "restoreWallet") => In(jobs', "restoreWallet")
      /\ \A x : Last(jobs', "genKeyring", x) <=> Last(jobs, "genKeyring", x)
      /\ ~After(jobs, "restoreWallet", "genKeyring") => ~After(jobs', "restoreWallet", "genKeyring")
      /\ ~After(jobs, "restoreWallet", "unlockWallet") => ~After(jobs', "restoreWallet", "unlockWallet")
      /\ \A x \in Elems(jobs') : x.type = "unlockWallet" => x \in Elems(jobs)
  BY DEF Keeps, Telling, Keyed
<1>4. Making' <=> Making
  BY <1>2, <1>3 DEF Making, Telling, Keyed
<1>4a. Making' = Making
  BY <1>2, <1>3 DEF Making, Telling, Keyed
<1>5. /\ In(pageAnswers', "genKeyring") <=> In(pageAnswers, "genKeyring")
      /\ \A x : Last(pageAnswers', "genKeyring", x) <=> Last(pageAnswers, "genKeyring", x)
  BY DEF KeepsWords
<1>6. Order'
  BY <1>1, <1>2, <1>3, <1>4, <1>5 DEF Order, Telling, Keyed
<1>7. Newest'
  BY <1>1, <1>3, <1>4, <1>5 DEF Newest
<1>8. Kept'
  BY <1>1, <1>4, <1>5 DEF Kept
<1>9. Fits'
  <2>1. \A r \in Elems(jobs') : r.type = "unlockWallet" => r.with = Stores'
    BY <1>1, <1>3 DEF Fits
  <2>2. ASSUME ~In(jobs', "restoreWallet")
        PROVE  \/ Opened' = None
               \/ \E e : Last(jobs', "genKeyring", e) /\ Opened' = e.with
               \/ ~In(jobs', "genKeyring") /\ Opened' = Stores'
    BY <1>1, <1>3, <2>2 DEF Fits, Telling, Keyed
  <2>3. QED
    BY <2>1, <2>2 DEF Fits
<1>10. QED
  BY <1>4a, <1>6, <1>7, <1>8, <1>9

\* A step broadcasts what the store becomes, or nothing.
Tells == \/ toFrame' = toFrame
         \/ toFrame' = Append(toFrame, [version |-> dispatched, state |-> Told(store')])

\* Update() broadcasts it.
LEMMA UpdateTells == ASSUME NEW s, Pages!Update(s) PROVE store' = s /\ Tells
BY DEF Pages!Update, Pages!Broadcast, Tells, Told

\* What is broadcast is true.
LEMMA HeardOfKept ==
  ASSUME CallShape, HeardOf, Done => Done', UNCHANGED <<frame, route>>, Tells
  PROVE  HeardOf' /\ Queue(toFrame')
<1>1. CASE toFrame' = toFrame
  BY <1>1 DEF HeardOf, CallShape
<1>2. CASE toFrame' = Append(toFrame, [version |-> dispatched, state |-> Told(store')])
  <2> DEFINE m == [version |-> dispatched, state |-> Told(store')]
  <2>1. m.state.didInit = Done'
    BY ToldDone DEF Done
  <2>2. Adds(toFrame, m, toFrame')
    BY <1>2, AppendAdds DEF CallShape
  <2> HIDE DEF m
  <2>3. \A x \in Elems(toFrame') : x \in Elems(toFrame) \/ x = m
    BY <2>2 DEF Adds
  <2>4. Queue(toFrame')
    BY <2>2 DEF Adds
  <2>5. QED
    BY <2>1, <2>3, <2>4 DEF HeardOf
<1>3. QED
  BY <1>1, <1>2 DEF Tells

\* The component is that of before, in the state that is given, or a new one; and the
\* page to unlock is shown only for a wallet the frame has heard of.
LEMMA ShowResult ==
  ASSUME NEW f, NEW s, Pages!Show(f, s)
  PROVE  /\ frame' = f
         /\ \/ form' = s /\ Pages!Component(route', f) = Pages!Component(route, frame)
            \/ form' = Pages!NewForm
         /\ route' = "/unlock" => route = "/unlock" \/ f.shared.didInit
<1>1. /\ frame' = f /\ route' = Pages!RouteFor(f)
      /\ form' = IF Pages!Component(Pages!RouteFor(f), f) = Pages!Component(route, frame)
                               THEN s ELSE Pages!NewForm
  BY DEF Pages!Show
<1>2. Pages!RouteFor(f) = route \/ Pages!RouteFor(f) = Pages!Destination(Pages!Expects(f))
  BY DEF Pages!RouteFor
<1> DEFINE e == Pages!Expects(f)
<1>3. /\ e.wallet => f.shared.didInit
      /\ e.unlock => f.shared.didInit
  BY DEF Pages!Expects
<1> HIDE DEF e
<1>4. Pages!Destination(e) = "/unlock" => e.wallet \/ e.unlock
  BY DEF Pages!Destination
<1>5. QED
  BY <1>1, <1>2, <1>3, <1>4 DEF e

\* Mnemonic has words to show.
LEMMA MnemonicShown ==
  ASSUME NEW r, NEW f, Pages!Component(r, f) = "Mnemonic" PROVE f.temp.mnemonic # None
BY DEF Pages!Component

\* Unlock has a route of its own.
LEMMA UnlockShown ==
  ASSUME NEW r, NEW f, Pages!Component(r, f) = "Unlock" PROVE r = "/unlock"
BY DEF Pages!Component

\* A component begins empty.
LEMMA NewFormShape ==
  FormShape(Pages!NewForm) /\ ~Pages!NewForm.acknowledged /\ Pages!NewForm.restoring = "no"
BY DEF FormShape, Pages!NewForm

\* The invariant holds of a new wallet, and of that of an earlier session.
LEMMA WordsInvInit == Init => PagesInv
<1> SUFFICES ASSUME Init, part = "pages" PROVE WordsInv
  BY DEF PagesInv
<1>1. Pages!WalletInit
  BY DEF Init
<1>2. /\ inbox = << >> /\ jobs = << >> /\ pageAnswers = << >> /\ toFrame = << >>
      /\ words = 0 /\ known = {0} /\ form = Pages!NewForm
      /\ route = Pages!Destination(Pages!Expects(frame))
      /\ \E shared : frame = Pages!FrameState(shared)
  BY <1>1 DEF Pages!WalletInit, Pages!SyncInit
<1>3. \/ store = Pages!GetInitialState /\ frame = Pages!FrameState(Pages!InitialSharedState)
      \/ store = Pages!Stored /\ frame = Pages!FrameState(Pages!BuildSharedState(Pages!Stored))
  BY <1>1 DEF Pages!WalletInit, Pages!SyncInit
<1> DEFINE g == Pages!GetInitialState
<1>4. StoreIs(g, FALSE, None, None)
  BY DEF StoreIs, WalletShape, Pages!GetInitialState
<1>5. Pages!InitialSharedState.didInit = FALSE
  BY DEF Pages!InitialSharedState, Pages!BuildSharedState, Pages!GetInitialState
<1>6. StoreIs(Pages!Stored, TRUE, Pages!Keyring(0, TRUE), None)
  <2>1. WalletShape(g)
    BY <1>4 DEF StoreIs
  <2>2. StoreIs(Pages!RestoreWallet(g, [keyring |-> Pages!Keyring(0, TRUE), wallet |-> None]), TRUE,
                [keyring |-> Pages!Keyring(0, TRUE), wallet |-> None].keyring,
                [keyring |-> Pages!Keyring(0, TRUE), wallet |-> None].wallet)
    BY <2>1, StoreEffects
  <2>3. QED
    BY <2>2 DEF Pages!Stored
<1> HIDE DEF g
<1>7. Pages!Keyring(0, TRUE).words = 0
  BY DEF Pages!Keyring
<1>8. /\ WalletShape(store) /\ Opened = None
      /\ Done => Stores.words = 0
      /\ frame.shared.didInit => Done
  <2>1. CASE store = g /\ frame = Pages!FrameState(Pages!InitialSharedState)
    <3>1. frame.shared = Pages!InitialSharedState
      BY <2>1 DEF Pages!FrameState
    <3>2. QED
      BY <1>4, <1>5, <2>1, <3>1 DEF StoreIs, Opened, Done, Stores
  <2>2. CASE store = Pages!Stored /\ frame = Pages!FrameState(Pages!BuildSharedState(Pages!Stored))
    <3>1. WalletShape(store) /\ Opened = None /\ Done = TRUE /\ Stores = Pages!Keyring(0, TRUE)
      BY <1>6, <2>2 DEF StoreIs, Opened, Done, Stores
    <3>2. QED
      BY <1>7, <3>1
  <2>3. QED
    BY <1>3, <2>1, <2>2 DEF g
<1>9. route = "/unlock" => Done
  <2> DEFINE e == Pages!Expects(frame)
  <2>1. (e.wallet => frame.shared.didInit) /\ (e.unlock => frame.shared.didInit)
    BY DEF Pages!Expects
  <2> HIDE DEF e
  <2>2. Pages!Destination(e) = "/unlock" => e.wallet \/ e.unlock
    BY DEF Pages!Destination
  <2>3. QED
    BY <1>2, <1>8, <2>1, <2>2 DEF e
<1>10. FrameShape(frame) /\ Words = None
  BY <1>2 DEF Pages!FrameState, FrameShape, Words
<1>11. /\ Queue(<< >>) /\ Elems(<< >>) = {}
       /\ \A t : ~In(<< >>, t)
       /\ \A t, u : ~After(<< >>, t, u)
       /\ \A t, x : ~Last(<< >>, t, x)
  BY QueueEmpty DEF Elems, In, Pages!InFlight, After, Last
<1>12. CallShape /\ PageShape
  BY <1>2, <1>8, <1>10, <1>11, NewFormShape DEF CallShape, PageShape
<1>13. Order /\ HeardOf
  BY <1>2, <1>8, <1>9, <1>11 DEF Order, HeardOf, Making
<1>14. Newest /\ Kept /\ Noted /\ Fits
  BY <1>2, <1>8, <1>10, <1>11, NewFormShape DEF Newest, Kept, Noted, Fits
<1>15. QED
  BY <1>12, <1>13, <1>14 DEF WordsInv

\* A request is put behind the others.
LEMMA PostOne ==
  ASSUME CallShape, NEW r, Pages!Posts(<<r>>)
  PROVE  Adds(inbox, r, inbox')
<1>1. Queue(inbox) /\ inbox' = inbox \o <<r>>
  BY DEF CallShape, Pages!Posts
<1>2. inbox' = Append(inbox, r)
  BY <1>1, AppendIs
<1>3. QED
  BY <1>1, <1>2, AppendAdds

\* A component whose words have been copied stays, or goes with that note.
LEMMA NotedShown ==
  ASSUME WordsInv, NEW f, NEW s, Pages!Show(f, s), s.acknowledged = form.acknowledged,
         Making' = Making, KeepsWords(pageAnswers, pageAnswers'), known' = known,
         f.temp.mnemonic \in {frame.temp.mnemonic, None}
  PROVE  Noted'
<1>1. Noted
  BY DEF WordsInv
<1>2. /\ frame' = f
      /\ \/ form' = s /\ Pages!Component(route', f) = Pages!Component(route, frame)
         \/ form' = Pages!NewForm
  BY ShowResult
<1>3. SUFFICES ASSUME form'.acknowledged
               PROVE  /\ Pages!Component(route', frame') = "Mnemonic"
                      /\ ~Making' /\ ~In(pageAnswers', "genKeyring")
                      /\ Words' \in known'
  BY DEF Noted, Pages!On
<1>4. form' = s /\ Pages!Component(route', f) = Pages!Component(route, frame)
  BY <1>2, <1>3, NewFormShape
<1>5. form.acknowledged
  BY <1>3, <1>4
<1>6. Pages!Component(route', f) = "Mnemonic" /\ ~Making /\ ~In(pageAnswers, "genKeyring") /\ Words \in known
  BY <1>1, <1>4, <1>5 DEF Noted, Pages!On
<1>7. f.temp.mnemonic = frame.temp.mnemonic
  BY <1>6, MnemonicShown
<1>8. QED
  BY <1>2, <1>6, <1>7 DEF KeepsWords, Words

\* The note stays with the words.
LEMMA NotedKept ==
  ASSUME WordsInv, UNCHANGED <<frame, route>>, form'.acknowledged => form.acknowledged,
         Making' = Making, KeepsWords(pageAnswers, pageAnswers'), known' = known
  PROVE  Noted'
BY DEF WordsInv, Noted, Pages!On, KeepsWords, Words

\* The steps of the user that post nothing, or a request without consequence for the keyring.
LEMMA UserIdles ==
  ASSUME WordsInv,
         \/ Pages!SubmitDeposit \/ Pages!ShowRestore \/ Pages!GoBack \/ Pages!PressLock
         \/ Pages!Unacknowledge
         \/ \E hd \in BOOLEAN : Pages!PickAddress(hd)
         \/ \E w \in known : Pages!SubmitSeeds(w)
         \/ \E param \in Pages!ToggleParams : Pages!Toggle(param)
  PROVE  WordsInv'
<1>1. /\ UNCHANGED <<store, dispatched, toFrame, frame, route, jobs, pageAnswers, words, known>>
      /\ \/ inbox' = inbox
         \/ \E r : /\ Pages!Posts(<<r>>)
                   /\ \/ r.type \in {"authenticate", "lockWallet", "toggleFrame"}
                      \/ r.type = "generateRestorationCandidates" /\ r.with \in known
  <2>1. CASE Pages!SubmitDeposit
    BY <2>1 DEF Pages!SubmitDeposit, Pages!Request
  <2>2. CASE \/ Pages!ShowRestore \/ Pages!GoBack \/ Pages!Unacknowledge
             \/ \E hd \in BOOLEAN : Pages!PickAddress(hd)
    BY <2>2 DEF Pages!ShowRestore, Pages!GoBack, Pages!Unacknowledge, Pages!PickAddress,
                Pages!callVars, Pages!userVars
  <2>3. CASE Pages!PressLock
    BY <2>3 DEF Pages!PressLock, Pages!Request, Pages!formVars
  <2>4. ASSUME NEW w \in known, Pages!SubmitSeeds(w)
        PROVE  /\ UNCHANGED <<store, dispatched, toFrame, frame, route, jobs, pageAnswers, words, known>>
               /\ \E r : /\ Pages!Posts(<<r>>)
                         /\ r.type = "generateRestorationCandidates" /\ r.with \in known
    BY <2>4 DEF Pages!SubmitSeeds, Pages!Request, Pages!formVars
  <2>5. ASSUME NEW param, Pages!Toggle(param)
        PROVE  /\ UNCHANGED <<store, dispatched, toFrame, frame, route, jobs, pageAnswers, words, known>>
               /\ \E r : Pages!Posts(<<r>>) /\ r.type \in {"authenticate", "lockWallet", "toggleFrame"}
    BY <2>5 DEF Pages!Toggle, Pages!Request, Pages!formVars
  <2>6. QED
    BY <2>1, <2>2, <2>3, <2>4, <2>5
<1>2. /\ (form'.acknowledged => form.acknowledged) /\ FormShape(form')
      /\ form'.restoring \in {"pick", "password"} => form'.seeds \in known
  <2>1. FormShape(form) /\ (form.restoring \in {"pick", "password"} => form.seeds \in known)
    BY DEF WordsInv, PageShape
  <2>2. CASE form' = form
    BY <2>1, <2>2
  <2>3. CASE Pages!SubmitDeposit
    BY <2>1, <2>3 DEF Pages!SubmitDeposit, FormShape
  <2>4. CASE Pages!ShowRestore
    BY <2>1, <2>4 DEF Pages!ShowRestore, FormShape
  <2>5. CASE Pages!GoBack
    BY <2>1, <2>5 DEF Pages!GoBack, FormShape
  <2>6. ASSUME NEW hd \in BOOLEAN, Pages!PickAddress(hd)
        PROVE  /\ (form'.acknowledged => form.acknowledged) /\ FormShape(form')
               /\ form'.seeds \in known
    BY <2>1, <2>6 DEF Pages!PickAddress, FormShape
  <2>7. Pages!PressLock => form' = form
    BY DEF Pages!PressLock, Pages!formVars
  <2>8. \A w : Pages!SubmitSeeds(w) => form' = form
    BY DEF Pages!SubmitSeeds, Pages!formVars
  <2>9. \A param : Pages!Toggle(param) => form' = form
    BY DEF Pages!Toggle, Pages!formVars
  <2>10. CASE Pages!Unacknowledge
    BY <2>1, <2>10 DEF Pages!Unacknowledge, FormShape
  <2>11. QED
    BY <2>2, <2>3, <2>4, <2>5, <2>6, <2>7, <2>8, <2>9, <2>10
<1>3. /\ Keeps(inbox, inbox') /\ Queue(inbox')
      /\ \A r \in Elems(inbox') : r.type \in Requested /\ Meant(r)
  <2>1. Queue(inbox) /\ \A r \in Elems(inbox) : r.type \in Requested /\ Meant(r)
    BY DEF WordsInv, CallShape
  <2>2. CASE inbox' = inbox
    BY <2>1, <2>2, Keeping
  <2>3. CASE \E r : /\ Pages!Posts(<<r>>)
                    /\ \/ r.type \in {"authenticate", "lockWallet", "toggleFrame"}
                       \/ r.type = "generateRestorationCandidates" /\ r.with \in known
    <3>1. PICK r : /\ Pages!Posts(<<r>>)
                   /\ \/ r.type \in {"authenticate", "lockWallet", "toggleFrame"}
                      \/ r.type = "generateRestorationCandidates" /\ r.with \in known
      BY <2>3
    <3>2. Adds(inbox, r, inbox')
      BY <3>1, PostOne DEF WordsInv
    <3>3. r.type \in Requested /\ r.type \notin Telling /\ Meant(r)
      BY <3>1 DEF Requested, Worked, Telling, Keyed, Meant
    <3>4. Keeps(inbox, inbox')
      BY <3>2, <3>3, Keeping
    <3>5. Queue(inbox') /\ \A x \in Elems(inbox') : x \in Elems(inbox) \/ x = r
      BY <3>2 DEF Adds
    <3>6. QED
      BY <2>1, <3>3, <3>4, <3>5
  <2>4. QED
    BY <1>1, <2>2, <2>3
<1>4. CallShape'
  BY <1>1, <1>3 DEF WordsInv, CallShape, Meant
<1>5. PageShape'
  BY <1>1, <1>2 DEF WordsInv, PageShape
<1>6. Keeps(jobs, jobs') /\ KeepsWords(pageAnswers, pageAnswers')
  BY <1>1, Keeping
<1>7. Order' /\ Newest' /\ Kept' /\ Fits' /\ Making' = Making
  BY <1>1, <1>3, <1>6, IdleStep DEF Done, Stores, Opened, Words
<1>8. HeardOf' /\ Noted'
  BY <1>1, <1>2, <1>6, <1>7, HeardOfKept, NotedKept DEF WordsInv, Done, Tells
<1>9. QED
  BY <1>4, <1>5, <1>7, <1>8 DEF WordsInv

\* Password: two keyrings are going to be made, the second of which counts.
LEMMA SubmitPasswordKeeps ==
  ASSUME WordsInv, Pages!SubmitPassword, mishaps = {}, mishaps' = {}
  PROVE  WordsInv'
<1> DEFINE r == Pages!Request("genKeyring", None, None)
<1>1. /\ Pages!On("Password") /\ inbox' = inbox \o <<r, r>>
      /\ UNCHANGED <<store, dispatched, toFrame, frame, route, form, jobs, pageAnswers, words, known>>
      /\ ~Done /\ ~Pages!Under("didStoreMnemonic") /\ ~Pages!Under("restoreWallet")
  BY DEF Pages!SubmitPassword, Pages!Posts, Pages!formVars, Done
<1>2. /\ ~In(inbox, "didStoreMnemonic") /\ ~In(inbox, "restoreWallet") /\ ~In(jobs, "restoreWallet")
  BY <1>1 DEF Pages!Under, In
<1>3. r.type = "genKeyring" /\ Meant(r)
  BY DEF Pages!Request, Meant
<1> HIDE DEF r
<1> DEFINE q == Append(inbox, r)
<1>4. Queue(inbox)
  BY DEF WordsInv, CallShape
<1>5. Adds(inbox, r, q) /\ Adds(q, r, inbox')
  <2>1. Adds(inbox, r, q) /\ Queue(q)
    BY <1>4, AppendAdds, QueueAppend
  <2>2. inbox' = Append(q, r)
    BY <1>1, <1>4, AppendIs
  <2> HIDE DEF q
  <2>3. QED
    BY <2>1, <2>2, AppendAdds
<1> HIDE DEF q
<1>6. /\ Queue(inbox') /\ \A x \in Elems(inbox') : x \in Elems(inbox) \/ x = r
      /\ In(inbox', "genKeyring")
      /\ \A t : t # "genKeyring" => (In(inbox', t) <=> In(inbox, t))
      /\ ~After(inbox', "restoreWallet", "genKeyring")
  <2>1. ~In(q, "restoreWallet")
    BY <1>2, <1>3, <1>5 DEF Adds
  <2>2. ~After(inbox, "restoreWallet", "genKeyring")
    BY DEF WordsInv, Order
  <2>3. ~After(q, "restoreWallet", "genKeyring")
    BY <1>2, <1>5, <2>2 DEF Adds
  <2>4. ~After(inbox', "restoreWallet", "genKeyring")
    BY <1>5, <2>1, <2>3 DEF Adds
  <2>5. QED
    BY <1>3, <1>5, <2>4 DEF Adds
<1>7. CallShape'
  BY <1>1, <1>3, <1>6 DEF WordsInv, CallShape, Meant, Requested, Worked
<1>8. PageShape' /\ HeardOf'
  BY <1>1 DEF WordsInv, PageShape, HeardOf, Done
<1>9. Making'
  BY <1>6 DEF Making
<1>10. Order'
  BY <1>1, <1>2, <1>6 DEF WordsInv, Order, Done, Stores
<1>11. Newest' /\ Kept' /\ Fits'
  BY <1>1, <1>9 DEF WordsInv, Newest, Kept, Fits, Done, Stores, Opened
<1>12. Noted'
  BY <1>1 DEF WordsInv, Noted, Pages!On
<1>13. QED
  BY <1>7, <1>8, <1>10, <1>11, <1>12 DEF WordsInv

\* No keyring is on its way, so that the words that are copied are the newest.
LEMMA AcknowledgeKeeps ==
  ASSUME WordsInv, Pages!Acknowledge, mishaps = {}, mishaps' = {}
  PROVE  WordsInv'
<1>1. /\ Pages!On("Mnemonic") /\ form' = [form EXCEPT !.acknowledged = TRUE]
      /\ known' = known \cup {Words}
      /\ UNCHANGED <<store, dispatched, toFrame, frame, route, inbox, jobs, pageAnswers, words>>
      /\ ~Pages!Under("genKeyring")
  BY DEF Pages!Acknowledge, Pages!callVars, Words
<1>2. ~Making /\ ~In(pageAnswers, "genKeyring")
  BY <1>1 DEF Pages!Under, In, Making
<1>3. FormShape(form') /\ form'.restoring = form.restoring /\ form'.seeds = form.seeds
  BY <1>1 DEF WordsInv, PageShape, FormShape
<1>4. CallShape' /\ PageShape'
  BY <1>1, <1>3 DEF WordsInv, PageShape, CallShape, Meant
<1>5. Order' /\ HeardOf'
  BY <1>1 DEF WordsInv, Order, HeardOf, Making, Done, Stores
<1>6. Newest' /\ Kept' /\ Fits'
  BY <1>1 DEF WordsInv, Newest, Kept, Fits, Making, Done, Stores, Opened, Words
<1>7. Noted'
  BY <1>1, <1>2 DEF Noted, Pages!On, Making, Words
<1>8. QED
  BY <1>4, <1>5, <1>6, <1>7 DEF WordsInv

\* The words that are confirmed are those of the keyring that is stored.
LEMMA SubmitMnemonicKeeps ==
  ASSUME WordsInv, Pages!SubmitMnemonic
  PROVE  WordsInv'
<1> DEFINE d == Pages!Request("didStoreMnemonic", None, None)
<1> DEFINE a == Pages!Request("authenticate", None, "Mnemonic")
<1>1. /\ Pages!On("Mnemonic") /\ form.acknowledged
      /\ UNCHANGED <<store, dispatched, toFrame, jobs, pageAnswers, words, known>>
      /\ \/ /\ inbox' = inbox \o <<d, a>>
            /\ Pages!Show(Pages!DidAcknowledgeDeposit(Pages!DidStoreMnemonic(frame)),
                          [form EXCEPT !.authenticating = TRUE])
         \/ /\ inbox' = inbox \o <<d>>
            /\ Pages!Show(Pages!DidStoreMnemonic(frame), form)
  BY DEF Pages!SubmitMnemonic, Pages!Posts
<1>2. ~Making /\ ~In(pageAnswers, "genKeyring") /\ Words \in known
  BY <1>1 DEF WordsInv, Noted
<1>3. Words # None
  BY <1>1, MnemonicShown DEF Pages!On, Words
<1>4. Stores.words \in known
  BY <1>2, <1>3 DEF WordsInv, Kept, Newest
<1>5. /\ d.type = "didStoreMnemonic" /\ Meant(d)
      /\ a.type = "authenticate" /\ Meant(a)
  BY DEF Pages!Request, Meant
<1> HIDE DEF d
<1> HIDE DEF a
<1>6. Queue(inbox)
  BY DEF WordsInv, CallShape
<1> DEFINE q == Append(inbox, d)
<1>7. Adds(inbox, d, q) /\ Queue(q)
  BY <1>6, AppendAdds, QueueAppend
<1>8. inbox' = q \/ inbox' = Append(q, a)
  BY <1>1, <1>6, AppendIs
<1> HIDE DEF q
<1>9. Adds(q, a, Append(q, a))
  BY <1>7, AppendAdds
<1>10. /\ Queue(inbox') /\ \A x \in Elems(inbox') : x \in Elems(inbox) \/ x = d \/ x = a
       /\ \A t : t \notin {"didStoreMnemonic", "authenticate"} => (In(inbox', t) <=> In(inbox, t))
       /\ After(inbox', "restoreWallet", "genKeyring") => After(inbox, "restoreWallet", "genKeyring")
  <2>1. /\ \A x \in Elems(q) : x \in Elems(inbox) \/ x = d
        /\ \A t : t \notin {"didStoreMnemonic", "authenticate"} => (In(q, t) <=> In(inbox, t))
        /\ After(q, "restoreWallet", "genKeyring") => After(inbox, "restoreWallet", "genKeyring")
    BY <1>5, <1>7 DEF Adds
  <2>2. CASE inbox' = q
    BY <1>7, <2>1, <2>2
  <2>3. CASE inbox' = Append(q, a)
    <3>1. Adds(q, a, inbox')
      BY <1>9, <2>3
    <3>2. /\ Queue(inbox') /\ \A x \in Elems(inbox') : x \in Elems(q) \/ x = a
          /\ \A t : t # "authenticate" => (In(inbox', t) <=> In(q, t))
          /\ After(inbox', "restoreWallet", "genKeyring") => After(q, "restoreWallet", "genKeyring")
      BY <1>5, <3>1 DEF Adds
    <3>3. QED
      BY <2>1, <3>2
  <2>4. QED
    BY <1>8, <2>2, <2>3
<1>11. PICK f, s : /\ Pages!Show(f, s) /\ FrameShape(f) /\ FormShape(s)
                   /\ s.acknowledged = form.acknowledged
                   /\ s.restoring = form.restoring /\ s.seeds = form.seeds
                   /\ f.temp.mnemonic \in {Words, None} /\ f.shared = frame.shared
  <2>1. FrameShape(frame) /\ FormShape(form)
    BY DEF WordsInv, PageShape
  <2> DEFINE f1 == Pages!DidStoreMnemonic(frame)
  <2> DEFINE f2 == Pages!DidAcknowledgeDeposit(f1)
  <2> DEFINE s2 == [form EXCEPT !.authenticating = TRUE]
  <2>2. FrameShape(f1) /\ f1.temp.mnemonic = Words /\ f1.shared = frame.shared
    BY <2>1 DEF Pages!DidStoreMnemonic, FrameShape, Words
  <2> HIDE DEF f1
  <2>3. FrameShape(f2) /\ f2.temp.mnemonic = None /\ f2.shared = frame.shared
    BY <2>2 DEF Pages!DidAcknowledgeDeposit, FrameShape
  <2>4. /\ FormShape(s2) /\ s2.acknowledged = form.acknowledged
        /\ s2.restoring = form.restoring /\ s2.seeds = form.seeds
    BY <2>1 DEF FormShape
  <2> HIDE DEF f2
  <2> HIDE DEF s2
  <2>5. Pages!Show(f2, s2) \/ Pages!Show(f1, form)
    BY <1>1 DEF f1, f2, s2
  <2>6. QED
    BY <2>1, <2>2, <2>3, <2>4, <2>5
<1>12. /\ frame' = f
       /\ form' = s \/ form' = Pages!NewForm
       /\ route' = "/unlock" => route = "/unlock" \/ f.shared.didInit
  BY <1>11, ShowResult
<1>13. CallShape'
  BY <1>1, <1>5, <1>10 DEF WordsInv, CallShape, Meant, Requested, Worked
<1>14. PageShape'
  BY <1>1, <1>11, <1>12, NewFormShape DEF WordsInv, PageShape
<1>15. Making' = Making
  BY <1>1, <1>10 DEF Making
<1>16. Order'
  BY <1>1, <1>2, <1>4, <1>10, <1>15 DEF WordsInv, Order, Done, Stores
<1>17. HeardOf'
  BY <1>1, <1>11, <1>12 DEF WordsInv, HeardOf, Done
<1>18. Words' \in {Words, None}
  BY <1>11, <1>12 DEF Words
<1>19. Newest' /\ Kept' /\ Fits'
  BY <1>1, <1>2, <1>4, <1>15, <1>18 DEF WordsInv, Newest, Kept, Fits, Done, Stores, Opened
<1>20. Noted'
  BY <1>1, <1>11, <1>15, NotedShown, Keeping DEF Words
<1>21. QED
  BY <1>13, <1>14, <1>16, <1>17, <1>19, <1>20 DEF WordsInv

\* The words are not shown any more.
LEMMA EndOnboardingKeeps ==
  ASSUME WordsInv, Pages!EndOnboarding
  PROVE  WordsInv'
<1> DEFINE f == Pages!DidAcknowledgeDeposit(frame)
<1>1. /\ UNCHANGED <<store, dispatched, toFrame, inbox, jobs, pageAnswers, words, known>>
      /\ Pages!Show(f, form)
  BY DEF Pages!EndOnboarding, Pages!callVars
<1>2. FrameShape(f) /\ f.temp.mnemonic = None /\ f.shared = frame.shared
  BY DEF Pages!DidAcknowledgeDeposit, FrameShape, WordsInv, PageShape
<1> HIDE DEF f
<1>3. /\ form' = form \/ form' = Pages!NewForm
      /\ route' = "/unlock" => route = "/unlock" \/ f.shared.didInit
      /\ frame' = f
  BY <1>1, ShowResult
<1>4. CallShape' /\ PageShape'
  BY <1>1, <1>2, <1>3, NewFormShape DEF WordsInv, CallShape, Meant, PageShape
<1>5. HeardOf'
  BY <1>1, <1>2, <1>3 DEF WordsInv, HeardOf, Done
<1>6. /\ Keeps(inbox, inbox') /\ Keeps(jobs, jobs') /\ KeepsWords(pageAnswers, pageAnswers')
      /\ Words' = None
  BY <1>1, <1>2, <1>3, Keeping DEF Words
<1>7. Order' /\ Newest' /\ Kept' /\ Fits' /\ Making' = Making
  BY <1>1, <1>6, IdleStep DEF Done, Stores, Opened
<1>8. Noted'
  BY <1>1, <1>2, <1>6, <1>7, NotedShown
<1>9. QED
  BY <1>4, <1>5, <1>7, <1>8 DEF WordsInv

\* The frame shows what it hears.
LEMMA HearWorkerKeeps ==
  ASSUME WordsInv, Pages!HearWorker
  PROVE  WordsInv'
<1> DEFINE f == [frame EXCEPT !.shared = Head(toFrame).state]
<1>1. /\ toFrame # << >> /\ toFrame' = Tail(toFrame)
      /\ UNCHANGED <<store, dispatched, inbox, jobs, pageAnswers, words, known>>
      /\ Pages!Show(f, form)
  BY DEF Pages!HearWorker, Pages!callVars, Pages!userVars
<1>2. FrameShape(f) /\ f.temp.mnemonic = frame.temp.mnemonic /\ f.shared = Head(toFrame).state
  BY DEF FrameShape, WordsInv, PageShape
<1> HIDE DEF f
<1>3. /\ frame' = f /\ (form' = form \/ form' = Pages!NewForm)
      /\ route' = "/unlock" => route = "/unlock" \/ f.shared.didInit
  BY <1>1, ShowResult
<1>4. Drops(toFrame, Head(toFrame), toFrame')
  BY <1>1, TailDrops DEF WordsInv, CallShape
<1>5. Queue(toFrame') /\ Head(toFrame) \in Elems(toFrame)
      /\ \A m \in Elems(toFrame') : m \in Elems(toFrame)
  BY <1>4 DEF Drops
<1>6. CallShape' /\ PageShape'
  BY <1>1, <1>2, <1>3, <1>5, NewFormShape DEF WordsInv, CallShape, Meant, PageShape
<1>7. HeardOf'
  BY <1>1, <1>2, <1>3, <1>5 DEF WordsInv, HeardOf, Done
<1>8. /\ Keeps(inbox, inbox') /\ Keeps(jobs, jobs') /\ KeepsWords(pageAnswers, pageAnswers')
      /\ Words' = Words
  BY <1>1, <1>2, <1>3, Keeping DEF Words
<1>9. Order' /\ Newest' /\ Kept' /\ Fits' /\ Making' = Making
  BY <1>1, <1>8, IdleStep DEF Done, Stores, Opened
<1>10. Noted'
  BY <1>1, <1>2, <1>8, <1>9, NotedShown
<1>11. QED
  BY <1>6, <1>7, <1>9, <1>10 DEF WordsInv

\* There is a wallet to unlock.
LEMMA SubmitUnlockKeeps ==
  ASSUME WordsInv, Pages!SubmitUnlock
  PROVE  WordsInv'
<1> DEFINE r == Pages!Request("unlockWallet", None, "Unlock")
<1>1. /\ Pages!On("Unlock") /\ form' = [form EXCEPT !.loading = TRUE]
      /\ Pages!Posts(<<r>>)
      /\ UNCHANGED <<store, dispatched, toFrame, frame, route, jobs, pageAnswers, words, known>>
  BY DEF Pages!SubmitUnlock
<1>2. Done
  BY <1>1, UnlockShown DEF WordsInv, HeardOf, Pages!On
<1>3. r.type = "unlockWallet" /\ Meant(r)
  BY DEF Pages!Request, Meant
<1> HIDE DEF r
<1>4. Adds(inbox, r, inbox')
  BY <1>1, PostOne DEF WordsInv
<1>5. /\ Queue(inbox') /\ \A x \in Elems(inbox') : x \in Elems(inbox) \/ x = r
      /\ \A t : t # "unlockWallet" => (In(inbox', t) <=> In(inbox, t))
      /\ After(inbox', "restoreWallet", "genKeyring") => After(inbox, "restoreWallet", "genKeyring")
  BY <1>3, <1>4 DEF Adds
<1>6. /\ FormShape(form') /\ form'.restoring = form.restoring /\ form'.seeds = form.seeds
      /\ form'.acknowledged = form.acknowledged
  BY <1>1 DEF WordsInv, PageShape, FormShape
<1>7. CallShape' /\ PageShape'
  BY <1>1, <1>3, <1>5, <1>6 DEF WordsInv, CallShape, Meant, Requested, Worked, PageShape
<1>8. Making' = Making
  BY <1>1, <1>5 DEF Making
<1>9. Order' /\ HeardOf'
  BY <1>1, <1>2, <1>5, <1>8 DEF WordsInv, Order, HeardOf, Done, Stores
<1>10. Newest' /\ Kept' /\ Fits'
  BY <1>1, <1>8 DEF WordsInv, Newest, Kept, Fits, Done, Stores, Opened, Words
<1>11. Noted'
  BY <1>1, <1>6, <1>8, NotedKept, Keeping
<1>12. QED
  BY <1>7, <1>9, <1>10, <1>11 DEF WordsInv

\* The wallet of words that are known is going to be restored.
LEMMA SubmitNewPasswordKeeps ==
  ASSUME WordsInv, Pages!SubmitNewPassword
  PROVE  WordsInv'
<1> DEFINE r == Pages!Request("restoreWallet", Pages!Keyring(form.seeds, form.hd),
                              Pages!Component(route, frame))
<1>1. /\ form.restoring = "password" /\ Pages!Posts(<<r>>)
      /\ UNCHANGED <<store, dispatched, toFrame, frame, route, form, jobs, pageAnswers, words, known>>
  BY DEF Pages!SubmitNewPassword, Pages!formVars
<1>2. form.seeds \in known
  BY <1>1 DEF WordsInv, PageShape
<1>3. r.type = "restoreWallet" /\ Meant(r)
  BY <1>2 DEF Pages!Request, Meant, Pages!Keyring
<1> HIDE DEF r
<1>4. Adds(inbox, r, inbox')
  BY <1>1, PostOne DEF WordsInv
<1>5. /\ Queue(inbox') /\ \A x \in Elems(inbox') : x \in Elems(inbox) \/ x = r
      /\ \A t : t # "restoreWallet" => (In(inbox', t) <=> In(inbox, t))
      /\ After(inbox', "restoreWallet", "genKeyring") => After(inbox, "restoreWallet", "genKeyring")
  BY <1>3, <1>4 DEF Adds
<1>6. CallShape' /\ PageShape'
  BY <1>1, <1>3, <1>5 DEF WordsInv, CallShape, Meant, Requested, Worked, PageShape
<1>7. Making' = Making
  BY <1>1, <1>5 DEF Making
<1>8. Order' /\ HeardOf'
  BY <1>1, <1>5, <1>7 DEF WordsInv, Order, HeardOf, Done, Stores
<1>9. Newest' /\ Kept' /\ Fits'
  BY <1>1, <1>7 DEF WordsInv, Newest, Kept, Fits, Done, Stores, Opened, Words
<1>10. Noted'
  BY <1>1, <1>7, NotedKept, Keeping
<1>11. QED
  BY <1>6, <1>8, <1>9, <1>10 DEF WordsInv

\* The last element of a type is one.
LEMMA LastIsIn ==
  ASSUME NEW q, NEW t, NEW x, Last(q, t, x) PROVE In(q, t) /\ x \in Elems(q) /\ x.type = t
BY DEF Last, In, Pages!InFlight, Elems

\* What the dispatches of the handlers make of the store.
LEMMA UpdateEffects ==
  ASSUME WalletShape(store), NEW v
  PROVE  /\ Pages!Update(Pages!SetWallet(store, v)) => Tells /\ StoreIs(store', Done, Stores, v)
         /\ Pages!Update(Pages!SetKeyring(store, v)) => Tells /\ StoreIs(store', Done, v, Opened)
         /\ Pages!Update(Pages!RestoreWallet(store, v)) =>
              Tells /\ StoreIs(store', TRUE, v.keyring, v.wallet)
         /\ Pages!Update(Pages!SetDidStoreMnemonic(store)) =>
              Tells /\ StoreIs(store', TRUE, Stores, Opened)
         /\ Pages!Update(Pages!SetCurrentAuthToken(store, v)) =>
              Tells /\ StoreIs(store', Done, Stores, Opened)
         /\ Pages!Update(Pages!ToggleFrame(store, v)) =>
              Tells /\ StoreIs(store', Done, Stores, Opened)
<1>1. /\ StoreIs(Pages!SetWallet(store, v), Done, Stores, v)
      /\ StoreIs(Pages!SetKeyring(store, v), Done, v, Opened)
      /\ StoreIs(Pages!RestoreWallet(store, v), TRUE, v.keyring, v.wallet)
      /\ StoreIs(Pages!SetDidStoreMnemonic(store), TRUE, Stores, Opened)
      /\ StoreIs(Pages!SetCurrentAuthToken(store, v), Done, Stores, Opened)
      /\ StoreIs(Pages!ToggleFrame(store, v), Done, Stores, Opened)
  BY StoreEffects, Zenon DEF Done, Stores, Opened
<1>2. \A s : Pages!Update(s) => store' = s /\ Tells
  BY UpdateTells
<1>3. QED
  BY <1>1, <1>2, Zenon

\* The request that is handled.
LEMMA HandleFacts ==
  ASSUME WordsInv, Pages!Handle
  PROVE  /\ Drops(inbox, Head(inbox), inbox')
         /\ \A t : In(inbox', t) => After(inbox, Head(inbox).type, t)
         /\ Head(inbox).type \in Requested /\ Meant(Head(inbox))
         /\ UNCHANGED <<frame, route, form, known>>
<1>1. /\ inbox # << >> /\ inbox' = Tail(inbox) /\ UNCHANGED <<frame, route, form, known>>
  BY DEF Pages!Handle, Pages!formVars
<1>2. /\ Drops(inbox, Head(inbox), inbox')
      /\ \A t : In(inbox', t) => After(inbox, Head(inbox).type, t)
  BY <1>1, TailDrops DEF WordsInv, CallShape
<1>3. Head(inbox) \in Elems(inbox)
  BY <1>2 DEF Drops
<1>4. QED
  BY <1>1, <1>2, <1>3 DEF WordsInv, CallShape

\* What the handlers of the requests that matter little change.
LEMMA HandleIdles ==
  ASSUME WordsInv, Pages!Handle,
         Head(inbox).type \in {"authenticate", "lockWallet", "toggleFrame",
                               "generateRestorationCandidates"}
  PROVE  WordsInv'
<1> DEFINE r == Head(inbox)
<1>1. /\ Drops(inbox, r, inbox') /\ Meant(r)
      /\ UNCHANGED <<frame, route, form, known>>
  BY HandleFacts
<1>2. WalletShape(store) /\ Queue(jobs)
  BY DEF WordsInv, PageShape, CallShape
<1>3. /\ UNCHANGED <<pageAnswers, words>> /\ Tells
      /\ WalletShape(store') /\ Done' = Done /\ Stores' = Stores /\ Opened' \in {Opened, None}
      /\ \/ jobs' = jobs
         \/ \E j : /\ jobs' = Append(jobs, j) /\ j.type = r.type /\ j.with \in {None, r.with}
                   /\ r.type \in {"authenticate", "generateRestorationCandidates"}
                   /\ r.type = "generateRestorationCandidates" => j.with = r.with
  <2>1. CASE r.type = "authenticate"
    <3>1. Pages!BeginAuthenticate(r)
      BY <2>1 DEF Pages!Handle
    <3>2. CASE /\ Pages!Began(r.type, None, r.then) /\ UNCHANGED <<store, dispatched, toFrame>>
      <4> DEFINE j == Pages!Request(r.type, None, r.then)
      <4>1. jobs' = Append(jobs, j) /\ j.type = r.type /\ j.with = None
        BY <3>2 DEF Pages!Began, Pages!Request
      <4> HIDE DEF j
      <4>2. QED
        BY <1>2, <2>1, <3>1, <3>2, <4>1 DEF Pages!BeginAuthenticate, Tells, Done, Stores, Opened
    <3>3. CASE /\ Pages!Update(Pages!ToggleFrame(store, [isFrameDisplayed |-> TRUE,
                                 forceRedirect |-> None, isPerformer |-> FALSE]))
               /\ UNCHANGED jobs
      <4>1. Tells /\ StoreIs(store', Done, Stores, Opened)
        BY <1>2, <3>3, UpdateEffects DEF Done, Stores, Opened
      <4>2. QED
        BY <3>1, <3>3, <4>1 DEF Pages!BeginAuthenticate, StoreIs, Done, Stores, Opened
    <3>4. QED
      BY <3>1, <3>2, <3>3 DEF Pages!BeginAuthenticate
  <2>2. CASE r.type = "lockWallet"
    <3>1. Pages!Does(r, Pages!SetWallet(store, None))
      BY <2>2 DEF Pages!Handle
    <3>2. Tells /\ StoreIs(store', Done, Stores, None)
      BY <1>2, <3>1, UpdateEffects DEF Pages!Does, Done, Stores
    <3>3. QED
      BY <3>1, <3>2 DEF Pages!Does, StoreIs, Done, Stores, Opened
  <2>3. CASE r.type = "toggleFrame"
    <3>1. Pages!Does(r, Pages!ToggleFrame(store, r.with))
      BY <2>3 DEF Pages!Handle
    <3>2. Tells /\ StoreIs(store', Done, Stores, Opened)
      BY <1>2, <3>1, UpdateEffects DEF Pages!Does, Done, Stores, Opened
    <3>3. QED
      BY <3>1, <3>2 DEF Pages!Does, StoreIs, Done, Stores, Opened
  <2>4. CASE r.type = "generateRestorationCandidates"
    <3>1. /\ Pages!Began(r.type, r.with, r.then)
          /\ UNCHANGED <<store, dispatched, toFrame, pageAnswers, words>>
      BY <2>4 DEF Pages!Handle
    <3> DEFINE j == Pages!Request(r.type, r.with, r.then)
    <3>2. jobs' = Append(jobs, j) /\ j.type = r.type /\ j.with = r.with
      BY <3>1 DEF Pages!Began, Pages!Request
    <3> HIDE DEF j
    <3>3. QED
      BY <1>2, <2>4, <3>1, <3>2 DEF Tells, Done, Stores, Opened
  <2>5. QED
    BY <2>1, <2>2, <2>3, <2>4
<1>4. /\ Keeps(jobs, jobs') /\ Queue(jobs')
      /\ \A x \in Elems(jobs') : x.type \in Worked /\ Meant(x)
  <2>1. \A x \in Elems(jobs) : x.type \in Worked /\ Meant(x)
    BY DEF WordsInv, CallShape
  <2>2. CASE jobs' = jobs
    BY <1>2, <2>1, <2>2, Keeping
  <2>3. ASSUME NEW j, jobs' = Append(jobs, j), j.type = r.type,
               r.type \in {"authenticate", "generateRestorationCandidates"},
               r.type = "generateRestorationCandidates" => j.with = r.with
        PROVE  /\ Keeps(jobs, jobs') /\ Queue(jobs')
               /\ \A x \in Elems(jobs') : x.type \in Worked /\ Meant(x)
    <3>1. Adds(jobs, j, jobs')
      BY <1>2, <2>3, AppendAdds
    <3>2. j.type \in Worked /\ j.type \notin Telling /\ Meant(j)
      BY <1>1, <2>3 DEF Worked, Telling, Keyed, Meant
    <3>3. Keeps(jobs, jobs')
      BY <3>1, <3>2, Keeping
    <3>4. Queue(jobs') /\ \A x \in Elems(jobs') : x \in Elems(jobs) \/ x = j
      BY <3>1 DEF Adds
    <3>5. QED
      BY <2>1, <3>2, <3>3, <3>4
  <2>4. QED
    BY <1>3, <2>2, <2>3
<1>5. Keeps(inbox, inbox') /\ KeepsWords(pageAnswers, pageAnswers')
  BY <1>1, <1>3, Keeping
<1>6. Queue(inbox') /\ \A x \in Elems(inbox') : x \in Elems(inbox)
  BY <1>1 DEF Drops
<1>7. HeardOf' /\ Queue(toFrame')
  BY <1>1, <1>3, HeardOfKept DEF WordsInv
<1>8. CallShape' /\ PageShape'
  BY <1>1, <1>3, <1>4, <1>6, <1>7 DEF WordsInv, CallShape, Meant, PageShape
<1>9. Order' /\ Newest' /\ Kept' /\ Fits' /\ Making' = Making
  BY <1>1, <1>3, <1>4, <1>5, IdleStep DEF Words
<1>10. Noted'
  BY <1>1, <1>5, <1>9, NotedKept
<1>11. QED
  BY <1>7, <1>8, <1>9, <1>10 DEF WordsInv

\* The newest wallet is open, and its keyring is being encrypted.
LEMMA GenKeyringKeeps ==
  ASSUME WordsInv, Pages!Handle, Head(inbox).type = "genKeyring"
  PROVE  WordsInv'
<1> DEFINE r == Head(inbox)
<1> DEFINE w == Pages!Keyring(words + 1, TRUE)
<1> DEFINE j == Pages!Request("genKeyring", w, r.then)
<1>1. /\ Drops(inbox, r, inbox')
      /\ UNCHANGED <<frame, route, form, known>>
  BY HandleFacts
<1>2. Pages!GenKeyring(r)
  BY DEF Pages!Handle
<1>3. /\ words' = words + 1 /\ UNCHANGED pageAnswers
      /\ Pages!Update(Pages!SetWallet(store, w))
      /\ jobs' = Append(jobs, j)
  BY <1>2 DEF Pages!GenKeyring, Pages!Began
<1>4. j.type = "genKeyring" /\ j.with = w /\ w.words = words'
  BY <1>3 DEF Pages!Request, Pages!Keyring
<1> HIDE DEF j
<1> HIDE DEF w
<1>5. Tells /\ StoreIs(store', Done, Stores, w)
  BY <1>3, UpdateEffects DEF WordsInv, PageShape, Done, Stores
<1>6. WalletShape(store') /\ Done' = Done /\ Stores' = Stores /\ Opened' = w
  BY <1>5 DEF StoreIs, Done, Stores, Opened
<1>7. Adds(jobs, j, jobs')
  BY <1>3, AppendAdds DEF WordsInv, CallShape
<1>8. /\ Queue(inbox') /\ In(inbox, "genKeyring")
      /\ \A x \in Elems(inbox') : x \in Elems(inbox)
      /\ \A t : In(inbox', t) => In(inbox, t)
      /\ \A t, u : After(inbox', t, u) => After(inbox, t, u)
  BY <1>1 DEF Drops
<1>9. /\ Queue(jobs') /\ In(jobs', "genKeyring")
      /\ \A x \in Elems(jobs') : x \in Elems(jobs) \/ x = j
      /\ \A t : t # "genKeyring" => (In(jobs', t) <=> In(jobs, t))
      /\ After(jobs', "restoreWallet", "genKeyring") =>
           After(jobs, "restoreWallet", "genKeyring") \/ In(jobs, "restoreWallet")
      /\ After(jobs', "restoreWallet", "unlockWallet") => After(jobs, "restoreWallet", "unlockWallet")
      /\ \A x : Last(jobs', "genKeyring", x) => x = j
      /\ Last(jobs', "genKeyring", j)
  BY <1>4, <1>7 DEF Adds
<1>10. /\ ~Done /\ ~In(inbox, "didStoreMnemonic") /\ ~In(jobs, "restoreWallet")
       /\ ~In(inbox, "unlockWallet") /\ ~In(jobs, "unlockWallet") /\ ~form.acknowledged
       /\ Making'
  BY <1>8, <1>9 DEF WordsInv, Order, Making, Noted
<1>11. HeardOf' /\ Queue(toFrame')
  BY <1>1, <1>5, <1>6, HeardOfKept DEF WordsInv
<1>12. CallShape' /\ PageShape'
  BY <1>1, <1>3, <1>4, <1>6, <1>8, <1>9, <1>11 DEF WordsInv, CallShape, Meant, Worked, PageShape
<1>13. Order'
  BY <1>1, <1>6, <1>8, <1>9, <1>10 DEF WordsInv, Order
<1>14. Newest' /\ Kept'
  BY <1>4, <1>6, <1>9, <1>10 DEF Newest, Kept
<1>15. Noted'
  BY <1>1, <1>10 DEF Noted
<1>16. Fits'
  <2>1. \A x \in Elems(jobs') : x.type # "unlockWallet"
    BY <1>10, <1>4, <1>9 DEF In, Pages!InFlight, Elems
  <2>2. QED
    BY <1>4, <1>6, <1>9, <2>1 DEF Fits
<1>17. QED
  BY <1>11, <1>12, <1>13, <1>14, <1>15, <1>16 DEF WordsInv

\* No keyring is made behind it.
LEMMA BeginRestoreKeeps ==
  ASSUME WordsInv, Pages!Handle, Head(inbox).type = "restoreWallet"
  PROVE  WordsInv'
<1> DEFINE r == Head(inbox)
<1> DEFINE j == Pages!Request(r.type, r.with, r.then)
<1>1. /\ Drops(inbox, r, inbox') /\ Meant(r)
      /\ \A t : In(inbox', t) => After(inbox, "restoreWallet", t)
      /\ UNCHANGED <<frame, route, form, known>>
  BY HandleFacts
<1>2. Pages!BeginRestore(r)
  BY DEF Pages!Handle
<1>3. /\ UNCHANGED <<pageAnswers, words>>
      /\ Pages!Update(Pages!SetWallet(store, r.with))
      /\ jobs' = Append(jobs, j)
  BY <1>2 DEF Pages!BeginRestore, Pages!Began
<1>4. j.type = "restoreWallet" /\ j.with = r.with
  BY <1>3 DEF Pages!Request
<1> HIDE DEF j
<1>5. Tells /\ StoreIs(store', Done, Stores, r.with)
  BY <1>3, UpdateEffects DEF WordsInv, PageShape, Done, Stores
<1>6. WalletShape(store') /\ Done' = Done /\ Stores' = Stores
  BY <1>5 DEF StoreIs, Done, Stores
<1>7. Adds(jobs, j, jobs')
  BY <1>3, AppendAdds DEF WordsInv, CallShape
<1>8. /\ Queue(inbox')
      /\ \A x \in Elems(inbox') : x \in Elems(inbox)
      /\ \A t : In(inbox', t) => In(inbox, t)
      /\ \A t, u : After(inbox', t, u) => After(inbox, t, u)
      /\ In(inbox, "genKeyring") => In(inbox', "genKeyring")
  BY <1>1 DEF Drops
<1>9. /\ Queue(jobs') /\ In(jobs', "restoreWallet")
      /\ \A x \in Elems(jobs') : x \in Elems(jobs) \/ x = j
      /\ \A t : t # "restoreWallet" => (In(jobs', t) <=> In(jobs, t))
      /\ After(jobs', "restoreWallet", "genKeyring") => After(jobs, "restoreWallet", "genKeyring")
      /\ After(jobs', "restoreWallet", "unlockWallet") => After(jobs, "restoreWallet", "unlockWallet")
      /\ \A x : Last(jobs', "genKeyring", x) => Last(jobs, "genKeyring", x)
  BY <1>4, <1>7 DEF Adds
<1>10. ~In(inbox', "genKeyring") /\ Making' = Making
  BY <1>1, <1>8, <1>9 DEF WordsInv, Order, Making
<1>11. HeardOf' /\ Queue(toFrame')
  BY <1>1, <1>5, <1>6, HeardOfKept DEF WordsInv
<1>12. CallShape' /\ PageShape'
  BY <1>1, <1>3, <1>4, <1>6, <1>8, <1>9, <1>11 DEF WordsInv, CallShape, Meant, Worked, PageShape
<1>13. Order'
  BY <1>1, <1>3, <1>6, <1>8, <1>9, <1>10 DEF WordsInv, Order
<1>14. Newest' /\ Kept'
  BY <1>1, <1>3, <1>6, <1>9, <1>10 DEF WordsInv, Newest, Kept, Words
<1>15. Noted'
  BY <1>1, <1>3, <1>10, NotedKept, Keeping
<1>16. Fits'
  BY <1>4, <1>6, <1>9 DEF WordsInv, Fits
<1>17. QED
  BY <1>11, <1>12, <1>13, <1>14, <1>15, <1>16 DEF WordsInv

\* The keyring that is being decrypted is the one that is stored.
LEMMA BeginUnlockKeeps ==
  ASSUME WordsInv, Pages!Handle, Head(inbox).type = "unlockWallet", mishaps = {}, mishaps' = {}
  PROVE  WordsInv'
<1> DEFINE r == Head(inbox)
<1>1. /\ Drops(inbox, r, inbox') /\ Meant(r)
      /\ UNCHANGED <<frame, route, form, known>>
  BY HandleFacts
<1>2. Pages!BeginUnlock(r) /\ ~In(jobs, "restoreWallet")
  BY DEF Pages!Handle, In
<1>3. /\ UNCHANGED <<store, dispatched, toFrame, words>>
      /\ \/ jobs' = jobs /\ \E a : a.type = "unlockWallet" /\ pageAnswers' = Append(pageAnswers, a)
         \/ \E j : /\ j.type = "unlockWallet" /\ j.with = Stores
                   /\ jobs' = Append(jobs, j) /\ pageAnswers' = pageAnswers
  <2>1. CASE store.persistent.keyring = None
    <3> DEFINE a == [type |-> r.type, with |-> r.with, then |-> r.then, ok |-> FALSE]
    <3>1. a.type = "unlockWallet" /\ pageAnswers' = Append(pageAnswers, a) /\ jobs' = jobs
      BY <1>2, <2>1 DEF Pages!BeginUnlock, Pages!Answered
    <3> HIDE DEF a
    <3>2. QED
      BY <1>2, <3>1 DEF Pages!BeginUnlock
  <2>2. CASE store.persistent.keyring # None
    <3> DEFINE j == Pages!Request(r.type, store.persistent.keyring, r.then)
    <3>1. j.type = "unlockWallet" /\ j.with = Stores /\ jobs' = Append(jobs, j) /\ pageAnswers' = pageAnswers
      BY <1>2, <2>2 DEF Pages!BeginUnlock, Pages!Began, Pages!Request, Stores
    <3> HIDE DEF j
    <3>2. QED
      BY <1>2, <3>1 DEF Pages!BeginUnlock
  <2>3. QED
    BY <2>1, <2>2
<1>4. /\ Queue(inbox') /\ In(inbox, "unlockWallet")
      /\ \A x \in Elems(inbox') : x \in Elems(inbox)
      /\ \A t : In(inbox', t) => In(inbox, t)
      /\ \A t, u : After(inbox', t, u) => After(inbox, t, u)
      /\ In(inbox, "genKeyring") => In(inbox', "genKeyring")
  BY <1>1 DEF Drops
<1>5. Done
  BY <1>4 DEF WordsInv, Order
<1>6. /\ Queue(jobs')
      /\ \A x \in Elems(jobs') : x \in Elems(jobs) \/ (x.type = "unlockWallet" /\ x.with = Stores)
      /\ \A t : t # "unlockWallet" => (In(jobs', t) <=> In(jobs, t))
      /\ After(jobs', "restoreWallet", "genKeyring") => After(jobs, "restoreWallet", "genKeyring")
      /\ ~After(jobs', "restoreWallet", "unlockWallet")
      /\ \A x : Last(jobs', "genKeyring", x) <=> Last(jobs, "genKeyring", x)
  <2>1. Queue(jobs) /\ ~After(jobs, "restoreWallet", "unlockWallet")
    BY DEF WordsInv, CallShape, Order
  <2>2. CASE jobs' = jobs
    BY <2>1, <2>2
  <2>3. ASSUME NEW j, j.type = "unlockWallet", j.with = Stores, jobs' = Append(jobs, j)
        PROVE  /\ Queue(jobs')
               /\ \A x \in Elems(jobs') : x \in Elems(jobs) \/ (x.type = "unlockWallet" /\ x.with = Stores)
               /\ \A t : t # "unlockWallet" => (In(jobs', t) <=> In(jobs, t))
               /\ After(jobs', "restoreWallet", "genKeyring") => After(jobs, "restoreWallet", "genKeyring")
               /\ ~After(jobs', "restoreWallet", "unlockWallet")
               /\ \A x : Last(jobs', "genKeyring", x) <=> Last(jobs, "genKeyring", x)
    <3>1. Adds(jobs, j, jobs')
      BY <2>1, <2>3, AppendAdds
    <3>2. QED
      BY <1>2, <2>1, <2>3, <3>1 DEF Adds
  <2>4. QED
    BY <1>3, <2>2, <2>3
<1>7. /\ Queue(pageAnswers') /\ KeepsWords(pageAnswers, pageAnswers')
      /\ \A x \in Elems(pageAnswers') : x \in Elems(pageAnswers) \/ x.type = "unlockWallet"
  <2>1. Queue(pageAnswers)
    BY DEF WordsInv, CallShape
  <2>2. CASE pageAnswers' = pageAnswers
    BY <2>1, <2>2, Keeping
  <2>3. ASSUME NEW a, a.type = "unlockWallet", pageAnswers' = Append(pageAnswers, a)
        PROVE  /\ Queue(pageAnswers') /\ KeepsWords(pageAnswers, pageAnswers')
               /\ \A x \in Elems(pageAnswers') : x \in Elems(pageAnswers) \/ x.type = "unlockWallet"
    <3>1. Adds(pageAnswers, a, pageAnswers')
      BY <2>1, <2>3, AppendAdds
    <3>2. KeepsWords(pageAnswers, pageAnswers')
      BY <2>3, <3>1, Keeping
    <3>3. QED
      BY <2>3, <3>1, <3>2 DEF Adds
  <2>4. QED
    BY <1>3, <2>2, <2>3
<1>8. Making' = Making
  BY <1>4, <1>6 DEF Making
<1>9. CallShape' /\ PageShape'
  BY <1>1, <1>3, <1>4, <1>6, <1>7 DEF WordsInv, CallShape, Meant, Worked, PageShape
<1>10. Order' /\ HeardOf'
  BY <1>1, <1>3, <1>4, <1>5, <1>6, <1>7, <1>8 DEF WordsInv, Order, HeardOf, Done, Stores,
     KeepsWords
<1>11. Newest' /\ Kept'
  BY <1>1, <1>3, <1>6, <1>7, <1>8 DEF WordsInv, Newest, Kept, Done, Stores, Words, KeepsWords
<1>12. Noted'
  BY <1>1, <1>7, <1>8, NotedKept
<1>13. Fits'
  BY <1>3, <1>6 DEF WordsInv, Fits, Stores, Opened
<1>14. QED
  BY <1>9, <1>10, <1>11, <1>12, <1>13 DEF WordsInv

\* The wallet counts as made once its words are known.
LEMMA StoreMnemonicKeeps ==
  ASSUME WordsInv, Pages!Handle, Head(inbox).type = "didStoreMnemonic"
  PROVE  WordsInv'
<1> DEFINE r == Head(inbox)
<1>1. /\ Drops(inbox, r, inbox')
      /\ UNCHANGED <<frame, route, form, known>>
  BY HandleFacts
<1>2. Pages!Does(r, Pages!SetDidStoreMnemonic(store))
  BY DEF Pages!Handle
<1>3. Tells /\ StoreIs(store', TRUE, Stores, Opened) /\ UNCHANGED <<jobs, pageAnswers, words>>
  BY <1>2, UpdateEffects DEF Pages!Does, WordsInv, PageShape, Stores, Opened
<1>4. WalletShape(store') /\ Done' = TRUE /\ Stores' = Stores /\ Opened' = Opened
  BY <1>3 DEF StoreIs, Done, Stores, Opened
<1>5. /\ Queue(inbox') /\ In(inbox, "didStoreMnemonic")
      /\ \A x \in Elems(inbox') : x \in Elems(inbox)
      /\ \A t : In(inbox', t) => In(inbox, t)
      /\ \A t, u : After(inbox', t, u) => After(inbox, t, u)
  BY <1>1 DEF Drops
<1>6. ~Making /\ ~In(pageAnswers, "genKeyring") /\ Stores.words \in known
  BY <1>5 DEF WordsInv, Order
<1>7. ~Making' /\ ~In(inbox', "genKeyring") /\ ~In(jobs', "genKeyring")
  BY <1>3, <1>5, <1>6 DEF Making
<1>8. HeardOf' /\ Queue(toFrame')
  BY <1>1, <1>3, <1>4, HeardOfKept DEF WordsInv
<1>9. CallShape' /\ PageShape'
  BY <1>1, <1>3, <1>4, <1>5, <1>8 DEF WordsInv, CallShape, Meant, PageShape
<1>10. Order' /\ Kept'
  BY <1>1, <1>3, <1>4, <1>5, <1>6, <1>7 DEF WordsInv, Order, Kept
<1>11. Newest' /\ Fits'
  BY <1>1, <1>3, <1>4, <1>6, <1>7 DEF WordsInv, Newest, Fits, Words
<1>12. Making' = Making
  BY <1>3, <1>5, <1>6 DEF Making
<1>13. Noted'
  BY <1>1, <1>3, <1>12, NotedKept, Keeping
<1>14. QED
  BY <1>8, <1>9, <1>10, <1>11, <1>13 DEF WordsInv

\* The worker handles a request.
LEMMA HandleKeeps ==
  ASSUME WordsInv, Pages!Handle, mishaps = {}, mishaps' = {}
  PROVE  WordsInv'
BY HandleFacts, HandleIdles, GenKeyringKeeps, BeginRestoreKeeps, BeginUnlockKeeps,
   StoreMnemonicKeeps DEF Requested, Worked

\* The job that ends.
LEMMA FinishFacts ==
  ASSUME WordsInv, NEW i \in DOMAIN jobs, Pages!Finish(i), mishaps = {}, mishaps' = {}
  PROVE  /\ Drops(jobs, jobs[i], jobs')
         /\ jobs[i].type \in Keyed => DropsFirst(jobs, jobs[i], jobs')
         /\ jobs[i].type \in Worked /\ Meant(jobs[i])
         /\ \E a : /\ a.type = jobs[i].type /\ a.with = jobs[i].with
                   /\ Adds(pageAnswers, a, pageAnswers')
         /\ UNCHANGED <<frame, route, form, inbox, words, known>>
         /\ \/ /\ jobs[i].type \notin {"genKeyring", "restoreWallet"}
               /\ UNCHANGED <<store, dispatched, toFrame>>
            \/ Pages!Update(Pages!Outcome(jobs[i]))
            \/ Pages!Outcome(jobs[i]) = store /\ UNCHANGED <<store, dispatched, toFrame>>
<1>1. /\ jobs' = Pages!RemoveAt(jobs, i)
      /\ UNCHANGED <<frame, route, form, inbox, words, known>>
      /\ Pages!Answered(jobs[i], TRUE) \/ Pages!Answered(jobs[i], FALSE)
      /\ Pages!NoteOvertaking(jobs, i)
      /\ \/ /\ jobs[i].type \in {"unlockWallet", "authenticate", "generateRestorationCandidates"}
            /\ UNCHANGED <<store, dispatched, toFrame>>
         \/ Pages!Update(Pages!Outcome(jobs[i]))
         \/ Pages!Outcome(jobs[i]) = store /\ UNCHANGED <<store, dispatched, toFrame>>
  BY DEF Pages!Finish, Pages!formVars
<1>2. Queue(jobs) /\ Queue(pageAnswers)
  BY DEF WordsInv, CallShape
<1>3. Without(jobs, i, jobs')
  BY <1>1, <1>2, RemoveAtWithout
<1>4. ~Pages!Overtakes(jobs, i)
  BY <1>1 DEF Pages!NoteOvertaking
<1>5. Drops(jobs, jobs[i], jobs') /\ (jobs[i].type \in Keyed => DropsFirst(jobs, jobs[i], jobs'))
  BY <1>3, <1>4, WithoutDrops, FirstDrops
<1>6. jobs[i].type \in Worked /\ Meant(jobs[i])
  BY DEF WordsInv, CallShape, Elems
<1>7. \E a : /\ a.type = jobs[i].type /\ a.with = jobs[i].with
             /\ Adds(pageAnswers, a, pageAnswers')
  <2>1. ASSUME NEW ok, Pages!Answered(jobs[i], ok)
        PROVE  \E a : /\ a.type = jobs[i].type /\ a.with = jobs[i].with
                      /\ Adds(pageAnswers, a, pageAnswers')
    <3> DEFINE a == [type |-> jobs[i].type, with |-> jobs[i].with, then |-> jobs[i].then,
                     ok |-> ok]
    <3>1. a.type = jobs[i].type /\ a.with = jobs[i].with /\ pageAnswers' = Append(pageAnswers, a)
      BY <2>1 DEF Pages!Answered
    <3> HIDE DEF a
    <3>2. QED
      BY <1>2, <3>1, AppendAdds
  <2>2. QED
    BY <1>1, <2>1
<1>8. QED
  BY <1>1, <1>5, <1>6, <1>7

\* What the end of a job leaves, whatever the job.
LEMMA FinishCalls ==
  ASSUME WordsInv, NEW i \in DOMAIN jobs, Drops(jobs, jobs[i], jobs'),
         jobs[i].type \in Worked, Meant(jobs[i]),
         NEW a, a.type = jobs[i].type, a.with = jobs[i].with, Adds(pageAnswers, a, pageAnswers'),
         UNCHANGED <<frame, route, form, inbox, known>>, WalletShape(store'), Queue(toFrame')
  PROVE  CallShape' /\ PageShape'
<1>1. Queue(jobs') /\ \A x \in Elems(jobs') : x \in Elems(jobs)
  BY DEF Drops
<1>2. Queue(pageAnswers') /\ \A x \in Elems(pageAnswers') : x \in Elems(pageAnswers) \/ x = a
  BY DEF Adds
<1>3. a.type \in Worked /\ Meant(a)
  BY DEF Meant
<1>4. QED
  BY <1>1, <1>2, <1>3 DEF WordsInv, CallShape, Meant, PageShape

\* A job that leaves the keyring.
LEMMA FinishIdles ==
  ASSUME WordsInv, NEW i \in DOMAIN jobs, Pages!Finish(i), mishaps = {}, mishaps' = {},
         jobs[i].type \notin {"genKeyring", "restoreWallet"}
  PROVE  WordsInv'
<1>1. /\ Drops(jobs, jobs[i], jobs') /\ jobs[i].type \in Worked /\ Meant(jobs[i])
      /\ UNCHANGED <<frame, route, form, inbox, words, known>>
      /\ \/ UNCHANGED <<store, dispatched, toFrame>>
         \/ Pages!Update(Pages!Outcome(jobs[i]))
  BY FinishFacts
<1>2. PICK a : /\ a.type = jobs[i].type /\ a.with = jobs[i].with
               /\ Adds(pageAnswers, a, pageAnswers')
  BY FinishFacts
<1>3. jobs[i].type = "unlockWallet" => jobs[i].with = Stores /\ ~In(jobs, "genKeyring")
  <2>1. jobs[i] \in Elems(jobs) /\ In(jobs, jobs[i].type)
    BY <1>1 DEF Drops
  <2>2. QED
    BY <2>1 DEF WordsInv, Fits, Order, Making
<1>4. /\ Tells /\ WalletShape(store') /\ Done' = Done /\ Stores' = Stores
      /\ Opened' \in {Opened, None} \/ (Opened' = Stores /\ ~In(jobs, "genKeyring"))
  <2>1. WalletShape(store)
    BY DEF WordsInv, PageShape
  <2>2. CASE UNCHANGED <<store, dispatched, toFrame>>
    BY <2>1, <2>2 DEF Tells, Done, Stores, Opened
  <2>3. CASE Pages!Update(Pages!Outcome(jobs[i])) /\ jobs[i].type = "unlockWallet"
    <3>1. Pages!Outcome(jobs[i]) = Pages!SetWallet(store, jobs[i].with)
      BY <2>3 DEF Pages!Outcome
    <3>2. Tells /\ StoreIs(store', Done, Stores, jobs[i].with)
      BY <2>1, <2>3, <3>1, UpdateEffects
    <3>3. QED
      BY <1>3, <2>3, <3>2 DEF StoreIs, Done, Stores, Opened
  <2>4. CASE Pages!Update(Pages!Outcome(jobs[i])) /\ jobs[i].type = "authenticate"
    <3>1. Pages!Outcome(jobs[i]) = Pages!SetCurrentAuthToken(store, "token")
      BY <2>4 DEF Pages!Outcome
    <3>2. Tells /\ StoreIs(store', Done, Stores, Opened)
      BY <2>1, <2>4, <3>1, UpdateEffects
    <3>3. QED
      BY <3>2 DEF StoreIs, Done, Stores, Opened
  <2>5. CASE Pages!Update(Pages!Outcome(jobs[i])) /\ jobs[i].type = "generateRestorationCandidates"
    <3>1. Pages!Outcome(jobs[i]) = store
      BY <2>5 DEF Pages!Outcome
    <3>2. Tells /\ store' = store
      BY <2>5, <3>1, UpdateTells
    <3>3. QED
      BY <2>1, <3>2 DEF Done, Stores, Opened
  <2>6. QED
    BY <1>1, <2>2, <2>3, <2>4, <2>5 DEF Worked
<1>5. Keeps(inbox, inbox') /\ Keeps(jobs, jobs') /\ KeepsWords(pageAnswers, pageAnswers')
  BY <1>1, <1>2, Keeping
<1>6. HeardOf' /\ Queue(toFrame')
  BY <1>1, <1>4, HeardOfKept DEF WordsInv
<1>7. CallShape' /\ PageShape'
  BY <1>1, <1>2, <1>4, <1>6, FinishCalls
<1>8. Order' /\ Newest' /\ Kept' /\ Fits' /\ Making' = Making
  BY <1>1, <1>4, <1>5, IdleStep DEF Words
<1>9. Noted'
  BY <1>1, <1>5, <1>8, NotedKept
<1>10. QED
  BY <1>6, <1>7, <1>8, <1>9 DEF WordsInv

\* The keyring is stored; when it is the last one, its words are the newest.
LEMMA StoreKeyringKeeps ==
  ASSUME WordsInv, NEW i \in DOMAIN jobs, Pages!Finish(i), mishaps = {}, mishaps' = {},
         jobs[i].type = "genKeyring"
  PROVE  WordsInv'
<1> DEFINE j == jobs[i]
<1>1. /\ Drops(jobs, j, jobs') /\ DropsFirst(jobs, j, jobs') /\ j.type \in Worked /\ Meant(j)
      /\ UNCHANGED <<frame, route, form, inbox, words, known>>
      /\ \/ Pages!Update(Pages!Outcome(j))
         \/ Pages!Outcome(j) = store /\ UNCHANGED <<store, dispatched, toFrame>>
  BY FinishFacts DEF Keyed
<1>2. PICK a : a.type = j.type /\ a.with = j.with /\ Adds(pageAnswers, a, pageAnswers')
  BY FinishFacts
<1>3. Tells /\ WalletShape(store') /\ Done' = Done /\ Stores' = j.with /\ Opened' = Opened
  <2>1. WalletShape(store)
    BY DEF WordsInv, PageShape
  <2>2. Pages!Outcome(j) = Pages!SetKeyring(store, j.with)
    BY DEF Pages!Outcome
  <2>3. CASE Pages!Update(Pages!Outcome(j))
    <3>1. Tells /\ StoreIs(store', Done, j.with, Opened)
      BY <2>1, <2>2, <2>3, UpdateEffects
    <3>2. QED
      BY <3>1 DEF StoreIs, Done, Stores, Opened
  <2>4. CASE Pages!Outcome(j) = store /\ UNCHANGED <<store, dispatched, toFrame>>
    <3>1. StoreIs(Pages!SetKeyring(store, j.with), store.persistent.didInit, j.with,
                  store.runtime.wallet)
      BY <2>1, StoreEffects
    <3>2. StoreIs(store', Done, j.with, Opened) /\ Tells
      BY <2>2, <2>4, <3>1 DEF Done, Opened, Tells
    <3>3. QED
      BY <3>2 DEF StoreIs, Done, Stores, Opened
  <2>5. QED
    BY <1>1, <2>3, <2>4
<1>4. /\ In(jobs, "genKeyring")
      /\ \A t : In(jobs', t) => In(jobs, t)
      /\ \A t : In(jobs, t) => In(jobs', t) \/ t = "genKeyring"
      /\ \A t, u : After(jobs', t, u) => After(jobs, t, u)
      /\ \A x \in Elems(jobs') : x \in Elems(jobs)
  BY <1>1 DEF Drops
<1>5. /\ \A x : Last(jobs', "genKeyring", x) => Last(jobs, "genKeyring", x)
      /\ \A x : Last(jobs, "genKeyring", x) =>
                  Last(jobs', "genKeyring", x) \/ (x = j /\ ~In(jobs', "genKeyring"))
      /\ ~In(jobs', "genKeyring") => Last(jobs, "genKeyring", j)
  BY <1>1 DEF DropsFirst
<1>6. /\ In(pageAnswers', "genKeyring")
      /\ \A x : Last(pageAnswers', "genKeyring", x) => x = a
  BY <1>2 DEF Adds
<1> HIDE DEF j
<1>7. /\ Making /\ ~Done /\ ~In(inbox, "didStoreMnemonic") /\ ~In(inbox, "unlockWallet")
      /\ ~In(jobs, "unlockWallet") /\ ~form.acknowledged
  BY <1>4 DEF WordsInv, Order, Making, Noted
<1>8. HeardOf' /\ Queue(toFrame')
  BY <1>1, <1>3, HeardOfKept DEF WordsInv
<1>9. CallShape' /\ PageShape'
  BY <1>1, <1>2, <1>3, <1>8, FinishCalls DEF j
<1>10. Order'
  BY <1>1, <1>3, <1>4, <1>7 DEF WordsInv, Order
<1>11. ~Making' => j.with.words = words
  BY <1>5 DEF WordsInv, Newest, Making
<1>12. Newest' /\ Kept'
  BY <1>1, <1>2, <1>3, <1>5, <1>6, <1>7, <1>11 DEF WordsInv, Newest, Kept
<1>13. Noted'
  BY <1>1, <1>7 DEF Noted
<1>14. Fits'
  <2>1. \A x \in Elems(jobs') : x.type # "unlockWallet"
    BY <1>4, <1>7 DEF In, Pages!InFlight, Elems
  <2>2. ASSUME ~In(jobs', "restoreWallet")
        PROVE  \/ Opened' = None
               \/ \E e : Last(jobs', "genKeyring", e) /\ Opened' = e.with
               \/ ~In(jobs', "genKeyring") /\ Opened' = Stores'
    <3>1. ~In(jobs, "restoreWallet")
      BY <1>4, <2>2
    <3>2. \/ Opened = None
          \/ \E e : Last(jobs, "genKeyring", e) /\ Opened = e.with
      BY <1>4, <3>1 DEF WordsInv, Fits
    <3>3. QED
      BY <1>3, <1>5, <3>2
  <2>3. QED
    BY <2>1, <2>2 DEF Fits
<1>15. QED
  BY <1>8, <1>9, <1>10, <1>12, <1>13, <1>14 DEF WordsInv

\* The restored wallet is stored; nothing is left that was to make or unlock another.
LEMMA RestoreKeeps ==
  ASSUME WordsInv, NEW i \in DOMAIN jobs, Pages!Finish(i), mishaps = {}, mishaps' = {},
         jobs[i].type = "restoreWallet"
  PROVE  WordsInv'
<1> DEFINE j == jobs[i]
<1>1. /\ Drops(jobs, j, jobs') /\ DropsFirst(jobs, j, jobs') /\ j.type \in Worked /\ Meant(j)
      /\ UNCHANGED <<frame, route, form, inbox, words, known>>
      /\ \/ Pages!Update(Pages!Outcome(j))
         \/ Pages!Outcome(j) = store /\ UNCHANGED <<store, dispatched, toFrame>>
  BY FinishFacts DEF Keyed
<1>2. PICK a : a.type = j.type /\ a.with = j.with /\ Adds(pageAnswers, a, pageAnswers')
  BY FinishFacts
<1>3. Tells /\ WalletShape(store') /\ Done' = TRUE /\ Stores' = j.with /\ Opened' = j.with
  <2>1. WalletShape(store)
    BY DEF WordsInv, PageShape
  <2> DEFINE v == [keyring |-> j.with, wallet |-> j.with]
  <2>2. Pages!Outcome(j) = Pages!RestoreWallet(store, v) /\ v.keyring = j.with /\ v.wallet = j.with
    BY DEF Pages!Outcome
  <2> HIDE DEF v
  <2>3. CASE Pages!Update(Pages!Outcome(j))
    <3>1. Tells /\ StoreIs(store', TRUE, v.keyring, v.wallet)
      BY <2>1, <2>2, <2>3, UpdateEffects
    <3>2. QED
      BY <2>2, <3>1 DEF StoreIs, Done, Stores, Opened
  <2>4. CASE Pages!Outcome(j) = store /\ UNCHANGED <<store, dispatched, toFrame>>
    <3>1. StoreIs(Pages!RestoreWallet(store, v), TRUE, v.keyring, v.wallet)
      BY <2>1, StoreEffects
    <3>2. StoreIs(store', TRUE, v.keyring, v.wallet) /\ Tells
      BY <2>2, <2>4, <3>1 DEF Tells
    <3>3. QED
      BY <2>2, <3>2 DEF StoreIs, Done, Stores, Opened
  <2>5. QED
    BY <1>1, <2>3, <2>4
<1>4. j.with.words \in known
  BY <1>1 DEF Meant
<1>5. /\ In(jobs, "restoreWallet")
      /\ \A t : In(jobs', t) => In(jobs, t)
      /\ \A t : In(jobs, t) => In(jobs', t) \/ t = "restoreWallet"
      /\ \A t, u : After(jobs', t, u) => After(jobs, t, u)
      /\ \A x \in Elems(jobs') : x \in Elems(jobs)
  BY <1>1 DEF Drops
<1>6. ~In(jobs', "genKeyring") /\ ~In(jobs', "unlockWallet")
  BY <1>1 DEF DropsFirst, Keyed, WordsInv, Order
<1>7. ~Making /\ ~Making' /\ ~In(jobs, "genKeyring")
  BY <1>1, <1>5, <1>6 DEF WordsInv, Order, Making
<1>8. KeepsWords(pageAnswers, pageAnswers')
  BY <1>2, Keeping
<1> HIDE DEF j
<1>9. HeardOf' /\ Queue(toFrame')
  BY <1>1, <1>3, HeardOfKept DEF WordsInv
<1>10. CallShape' /\ PageShape'
  BY <1>1, <1>2, <1>3, <1>9, FinishCalls DEF j
<1>11. Order' /\ Kept'
  BY <1>1, <1>3, <1>4, <1>5, <1>6, <1>7, <1>8 DEF WordsInv, Order, Kept, KeepsWords
<1>12. Newest'
  <2>1. \A e : ~Last(jobs', "genKeyring", e)
    BY <1>6, LastIsIn
  <2>2. QED
    BY <1>1, <1>7, <1>8, <2>1 DEF WordsInv, Newest, KeepsWords, Words
<1>13. Noted'
  <2>1. Making' = Making
    BY <1>1, <1>6, <1>7 DEF Making
  <2>2. QED
    BY <1>1, <1>8, <2>1, NotedKept
<1>14. Fits'
  <2>1. \A x \in Elems(jobs') : x.type # "unlockWallet"
    BY <1>6 DEF In, Pages!InFlight, Elems
  <2>2. QED
    BY <1>3, <1>6, <2>1 DEF Fits
<1>15. QED
  BY <1>9, <1>10, <1>11, <1>12, <1>13, <1>14 DEF WordsInv

\* A job ends.
LEMMA FinishKeeps ==
  ASSUME WordsInv, NEW i \in DOMAIN jobs, Pages!Finish(i), mishaps = {}, mishaps' = {}
  PROVE  WordsInv'
BY FinishIdles, StoreKeyringKeeps, RestoreKeeps

\* The answer that is taken.
LEMMA TakeFacts ==
  ASSUME WordsInv, NEW i \in DOMAIN pageAnswers, Pages!Take(i), mishaps = {}, mishaps' = {}
  PROVE  /\ Drops(pageAnswers, pageAnswers[i], pageAnswers')
         /\ pageAnswers[i].type \in Keyed => DropsFirst(pageAnswers, pageAnswers[i], pageAnswers')
         /\ pageAnswers[i].type \in Worked /\ Meant(pageAnswers[i])
         /\ UNCHANGED <<store, dispatched, toFrame, jobs, words, known>>
<1>1. /\ pageAnswers' = Pages!RemoveAt(pageAnswers, i)
      /\ UNCHANGED <<store, dispatched, toFrame, jobs, words, known>>
      /\ Pages!NoteOvertaking(pageAnswers, i)
  BY DEF Pages!Take
<1>2. Queue(pageAnswers)
  BY DEF WordsInv, CallShape
<1>3. Without(pageAnswers, i, pageAnswers')
  BY <1>1, <1>2, RemoveAtWithout
<1>4. ~Pages!Overtakes(pageAnswers, i)
  BY <1>1 DEF Pages!NoteOvertaking
<1>5. /\ Drops(pageAnswers, pageAnswers[i], pageAnswers')
      /\ pageAnswers[i].type \in Keyed => DropsFirst(pageAnswers, pageAnswers[i], pageAnswers')
  BY <1>3, <1>4, WithoutDrops, FirstDrops
<1>6. pageAnswers[i].type \in Worked /\ Meant(pageAnswers[i])
  BY DEF WordsInv, CallShape, Elems
<1>7. QED
  BY <1>1, <1>5, <1>6

\* The words that are shown last are the newest.
LEMMA TakeWordsKeeps ==
  ASSUME WordsInv, NEW i \in DOMAIN pageAnswers, Pages!Take(i), mishaps = {}, mishaps' = {},
         pageAnswers[i].type = "genKeyring"
  PROVE  WordsInv'
<1> DEFINE a == pageAnswers[i]
<1> DEFINE f == Pages!DidReceiveMnemonic(frame, a.with.words)
<1>1. /\ Drops(pageAnswers, a, pageAnswers') /\ DropsFirst(pageAnswers, a, pageAnswers')
      /\ UNCHANGED <<store, dispatched, toFrame, jobs, words, known>>
  BY TakeFacts DEF Keyed
<1>2. Pages!Show(f, form) /\ inbox' = inbox
  BY DEF Pages!Take, Pages!TakeWords
<1>3. FrameShape(f) /\ f.temp.mnemonic = a.with.words /\ f.shared = frame.shared
  BY DEF Pages!DidReceiveMnemonic, FrameShape, WordsInv, PageShape
<1>4. /\ In(pageAnswers, "genKeyring") /\ Queue(pageAnswers')
      /\ \A t : In(pageAnswers', t) => In(pageAnswers, t)
      /\ \A x \in Elems(pageAnswers') : x \in Elems(pageAnswers)
  BY <1>1 DEF Drops
<1>5. /\ \A x : Last(pageAnswers', "genKeyring", x) => Last(pageAnswers, "genKeyring", x)
      /\ ~In(pageAnswers', "genKeyring") => Last(pageAnswers, "genKeyring", a)
  BY <1>1 DEF DropsFirst
<1> HIDE DEF f
<1> HIDE DEF a
<1>6. /\ frame' = f /\ (form' = form \/ form' = Pages!NewForm)
      /\ route' = "/unlock" => route = "/unlock" \/ f.shared.didInit
  BY <1>2, ShowResult
<1>7. ~form.acknowledged
  BY <1>4 DEF WordsInv, Noted
<1>8. CallShape' /\ PageShape'
  BY <1>1, <1>2, <1>3, <1>4, <1>6, NewFormShape DEF WordsInv, CallShape, Meant, PageShape
<1>9. Making' = Making /\ Words' = a.with.words
  BY <1>1, <1>2, <1>3, <1>6 DEF Making, Words
<1>10. Order' /\ HeardOf'
  BY <1>1, <1>2, <1>3, <1>4, <1>6, <1>9 DEF WordsInv, Order, HeardOf, Done, Stores
<1>11. Newest'
  BY <1>1, <1>5, <1>9 DEF WordsInv, Newest
<1>12. Kept'
  BY <1>1, <1>4, <1>9 DEF WordsInv, Kept, Done, Stores
<1>13. Noted'
  BY <1>6, <1>7, NewFormShape DEF Noted
<1>14. Fits'
  BY <1>1 DEF WordsInv, Fits, Stores, Opened
<1>15. QED
  BY <1>8, <1>10, <1>11, <1>12, <1>13, <1>14 DEF WordsInv

\* The other answers do not change the words.
LEMMA TakeIdles ==
  ASSUME WordsInv, NEW i \in DOMAIN pageAnswers, Pages!Take(i), mishaps = {}, mishaps' = {},
         pageAnswers[i].type # "genKeyring"
  PROVE  WordsInv'
<1> DEFINE a == pageAnswers[i]
<1>1. /\ Drops(pageAnswers, a, pageAnswers') /\ a.type \in Worked /\ Meant(a)
      /\ UNCHANGED <<store, dispatched, toFrame, jobs, words, known>>
  BY TakeFacts
<1>2. \/ a.type = "authenticate" /\ Pages!TakeToken(a)
      \/ a.type = "unlockWallet" /\ Pages!TakeUnlocked(a)
      \/ a.type = "generateRestorationCandidates" /\ Pages!TakeCandidates(a)
      \/ a.type = "restoreWallet" /\ Pages!TakeRestored(a)
  BY <1>1 DEF Pages!Take, Worked
<1>3. FormShape(form) /\ (form.restoring \in {"pick", "password"} => form.seeds \in known)
  BY DEF WordsInv, PageShape
<1> HIDE DEF a
<1>4. /\ frame' = frame
      /\ \/ route' = route /\ form'.acknowledged = form.acknowledged
         \/ route' = "/wallet" /\ (form' = Pages!NewForm \/ (form' = form /\ Pages!On("Wallet")))
      /\ FormShape(form')
      /\ form'.restoring \in {"pick", "password"} => form'.seeds \in known
      /\ \/ inbox' = inbox
         \/ \E r : Pages!Posts(<<r>>) /\ r.type \in {"authenticate", "toggleFrame"}
  <2>1. CASE a.type = "authenticate" /\ Pages!TakeToken(a)
    <3>1. CASE a.then = "Deposit" /\ a.ok
      BY <1>3, <2>1, <3>1 DEF Pages!TakeToken, Pages!Request, Pages!formVars
    <3>2. CASE a.then = "Deposit" /\ ~a.ok
      BY <1>3, <2>1, <3>2 DEF Pages!TakeToken, FormShape
    <3>3. CASE a.then = "Unlock" /\ a.ok
      BY <1>3, <2>1, <3>3, NewFormShape DEF Pages!TakeToken
    <3>4. CASE a.then # "Deposit" /\ ~(a.then = "Unlock" /\ a.ok)
      BY <1>3, <2>1, <3>4 DEF Pages!TakeToken, Pages!formVars
    <3>5. QED
      BY <3>1, <3>2, <3>3, <3>4
  <2>2. CASE a.type = "unlockWallet" /\ Pages!TakeUnlocked(a)
    BY <1>3, <2>2 DEF Pages!TakeUnlocked, Pages!Request, FormShape
  <2>3. CASE a.type = "generateRestorationCandidates" /\ Pages!TakeCandidates(a)
    <3>1. a.with \in known
      BY <1>1, <2>3 DEF Meant
    <3>2. frame' = frame /\ route' = route /\ inbox' = inbox
      BY <2>3 DEF Pages!TakeCandidates
    <3>3. CASE form' = form
      BY <1>3, <3>2, <3>3
    <3>4. CASE form' \in {[form EXCEPT !.seeds = a.with, !.restoring = "pick"],
                       [form EXCEPT !.seeds = a.with, !.restoring = "password", !.hd = TRUE],
                       [form EXCEPT !.seeds = a.with, !.restoring = "password", !.hd = FALSE]}
      BY <1>3, <3>1, <3>2, <3>4 DEF FormShape
    <3>5. QED
      BY <2>3, <3>3, <3>4 DEF Pages!TakeCandidates
  <2>4. CASE a.type = "restoreWallet" /\ Pages!TakeRestored(a)
    BY <1>3, <2>4 DEF Pages!TakeRestored, Pages!Request, FormShape
  <2>5. QED
    BY <1>2, <2>1, <2>2, <2>3, <2>4
<1>5. /\ Keeps(inbox, inbox') /\ Queue(inbox')
      /\ \A x \in Elems(inbox') : x.type \in Requested /\ Meant(x)
  <2>1. Queue(inbox) /\ \A x \in Elems(inbox) : x.type \in Requested /\ Meant(x)
    BY DEF WordsInv, CallShape
  <2>2. CASE inbox' = inbox
    BY <2>1, <2>2, Keeping
  <2>3. ASSUME NEW r, Pages!Posts(<<r>>), r.type \in {"authenticate", "toggleFrame"}
        PROVE  /\ Keeps(inbox, inbox') /\ Queue(inbox')
               /\ \A x \in Elems(inbox') : x.type \in Requested /\ Meant(x)
    <3>1. Adds(inbox, r, inbox')
      BY <2>3, PostOne DEF WordsInv
    <3>2. r.type \in Requested /\ r.type \notin Telling /\ Meant(r)
      BY <2>3 DEF Requested, Worked, Telling, Keyed, Meant
    <3>3. Keeps(inbox, inbox')
      BY <3>1, <3>2, Keeping
    <3>4. Queue(inbox') /\ \A x \in Elems(inbox') : x \in Elems(inbox) \/ x = r
      BY <3>1 DEF Adds
    <3>5. QED
      BY <2>1, <3>2, <3>3, <3>4
  <2>4. QED
    BY <1>4, <2>2, <2>3
<1>6. Queue(pageAnswers') /\ \A x \in Elems(pageAnswers') : x \in Elems(pageAnswers)
  BY <1>1 DEF Drops
<1>7. Keeps(jobs, jobs') /\ KeepsWords(pageAnswers, pageAnswers')
  BY <1>1, Keeping DEF a
<1>8. CallShape'
  BY <1>1, <1>5, <1>6 DEF WordsInv, CallShape, Meant
<1>9. PageShape'
  BY <1>1, <1>4 DEF WordsInv, PageShape
<1>10. Order' /\ Newest' /\ Kept' /\ Fits' /\ Making' = Making
  BY <1>1, <1>4, <1>5, <1>7, IdleStep DEF Done, Stores, Opened, Words
<1>11. HeardOf'
  BY <1>1, <1>4 DEF WordsInv, HeardOf, Done
<1>12. Noted'
  <2>1. CASE route' = route /\ form'.acknowledged = form.acknowledged
    BY <1>1, <1>4, <1>7, <1>10, <2>1, NotedKept
  <2>2. CASE form' = form /\ Pages!On("Wallet")
    BY <2>2 DEF WordsInv, Noted, Pages!On
  <2>3. CASE form' = Pages!NewForm
    BY <2>3, NewFormShape DEF Noted
  <2>4. QED
    BY <1>4, <2>1, <2>2, <2>3
<1>13. QED
  BY <1>8, <1>9, <1>10, <1>11, <1>12 DEF WordsInv

\* Every step of the pages keeps the invariant; the other parts do not matter.
LEMMA WordsInvKept == PagesInv /\ [Next]_vars => PagesInv'
<1> SUFFICES ASSUME PagesInv, [Next]_vars, part' = "pages", mishaps' = {}
             PROVE  WordsInv'
  BY DEF PagesInv
<1>1. CASE UNCHANGED <<part, storeVars, pagesVars>>
  BY <1>1 DEF PagesInv, storeVars, pagesVars, WordsInv, CallShape, Meant, PageShape, Order,
     HeardOf, Newest, Kept,
              Noted, Fits, Making, Stores, Done, Opened, Words, Pages!On
<1>2. CASE part = "pages" /\ Pages!WalletNext
  <2>1. mishaps = {} /\ WordsInv
    BY <1>2 DEF Pages!WalletNext, PagesInv
  <2>2. \A r \in DOMAIN jobs : Pages!Finish(r) => WordsInv'
    BY <2>1, FinishKeeps
  <2>3. \A r \in DOMAIN pageAnswers : Pages!Take(r) => WordsInv'
    BY <2>1, TakeWordsKeeps, TakeIdles
  <2>4. Pages!UserActs => WordsInv'
    BY <2>1, UserIdles, SubmitPasswordKeeps, AcknowledgeKeeps, SubmitMnemonicKeeps,
       SubmitUnlockKeeps, SubmitNewPasswordKeeps DEF Pages!UserActs
  <2>5. QED
    BY <1>2, <2>1, <2>2, <2>3, <2>4, EndOnboardingKeeps, HandleKeeps, HearWorkerKeeps
    DEF Pages!WalletNext
<1>3. QED
  BY <1>1, <1>2 DEF Next, vars

\* KnowsTheWords: a wallet that counts as made can be restored from words that the user
\* has written down, and the one that is open is the one that is stored, in whatever
\* order user, worker and answers come but for the mishaps named there; for any number
\* of forms, locks and broadcasts (AuthController.ts, the pages of wallet creation,
\* restoration and unlocking).
THEOREM UserKnowsTheWords == Spec => []KnowsTheWords
<1>1. PagesInv => KnowsTheWords
  <2> SUFFICES ASSUME WordsInv, Done, Pages!Quiet
               PROVE  Stores.words \in known /\ Opened \in {None, Stores}
    BY DEF PagesInv, KnowsTheWords, Pages!KnowsTheWords, Done, Stores, Opened
  <2>1. ~In(jobs, "restoreWallet") /\ ~In(jobs, "genKeyring")
    BY DEF Pages!Quiet, Pages!Under, In
  <2>2. QED
    BY <2>1, LastIsIn DEF WordsInv, Kept, Fits
<1>2. QED
  BY <1>1, WordsInvInit, WordsInvKept, PTL DEF Spec
------------------------------------------------------------------------------
(* How page, frame and worker find each other *)

\* Who still asks has a try left.
TriesLeft == \A x \in Hand!Askers :
  at[x] \in {"idle", "registering", "asking", "pausing"} => tries[x] < MaxTries

HandInv == Hand!HandTypeOK /\ TriesLeft

\* What the assumption says of the handshake.
LEMMA HandBounds == MaxTries \in Nat /\ MaxTries > 0 /\ MaxKills \in Nat
BY BoundsAssumption

LEMMA HandInvInit == Init => HandInv
<1> SUFFICES ASSUME Init PROVE HandInv
  OBVIOUS
<1>1. Hand!HandInit
  BY DEF Init
<1>2. /\ workerAt = "loading" /\ kills = 0 /\ at = [frame |-> "registering", page |-> "idle"]
      /\ tries = [x \in Hand!Askers |-> 0] /\ serving = FALSE
      /\ request = [x \in Hand!Askers |-> "none"] /\ reply = [x \in Hand!Askers |-> "none"]
      /\ news = [x \in Hand!Askers |-> 0] /\ missed = [x \in Hand!Askers |-> FALSE]
  BY <1>1 DEF Hand!HandInit
<1>3. at \in [Hand!Askers -> {"idle", "registering", "unregistered", "asking", "pausing",
                             "waiting", "started", "rejected"}]
  BY <1>2 DEF Hand!Askers
<1>4. kills \in 0 .. MaxKills /\ tries \in [Hand!Askers -> 0 .. MaxTries]
  BY <1>2, HandBounds
<1>5. Hand!HandTypeOK
  BY <1>2, <1>3, <1>4 DEF Hand!HandTypeOK
<1>6. TriesLeft
  BY <1>2, HandBounds DEF TriesLeft
<1>7. QED
  BY <1>5, <1>6 DEF HandInv

\* A try that fails is counted, and is the last one when there are MaxTries.
LEMMA FailureCounts ==
  ASSUME HandInv, NEW x \in Hand!Askers, at[x] \in {"asking", "pausing"},
         tries' = [tries EXCEPT ![x] = @ + 1], Hand!Becomes(x, Hand!AfterFailure(x))
  PROVE  /\ tries' \in [Hand!Askers -> 0 .. MaxTries]
         /\ at' \in [Hand!Askers -> {"idle", "registering", "unregistered", "asking", "pausing",
                                     "waiting", "started", "rejected"}]
         /\ TriesLeft'
<1>0. tries \in [Hand!Askers -> 0 .. MaxTries] /\ tries[x] < MaxTries
  BY DEF HandInv, Hand!HandTypeOK, TriesLeft
<1>1. tries'[x] = tries[x] + 1 /\ tries'[x] \in 0 .. MaxTries
  BY <1>0, HandBounds
<1>2. /\ at' = [at EXCEPT ![x] = Hand!AfterFailure(x)]
      /\ Hand!AfterFailure(x) \in {"asking", "rejected", "waiting"}
      /\ Hand!AfterFailure(x) = "asking" => tries'[x] < MaxTries
  BY DEF Hand!Becomes, Hand!AfterFailure
<1>3. QED
  BY <1>1, <1>2 DEF HandInv, Hand!HandTypeOK, TriesLeft

LEMMA HandInvInductive == HandInv /\ Hand!HandNext => HandInv'
<1> SUFFICES ASSUME HandInv, Hand!HandNext PROVE HandInv'
  OBVIOUS
<1>t. Hand!HandTypeOK /\ TriesLeft
  BY DEF HandInv
<1>1. CASE Hand!WorkerProceeds \/ Hand!WorkerFails \/ Hand!KillInstalled
  <2>1. UNCHANGED <<at, tries, request, reply>>
    BY <1>1 DEF Hand!WorkerProceeds, Hand!WorkerFails, Hand!KillInstalled, Hand!askVars
  <2>2. TriesLeft'
    BY <1>t, <2>1 DEF TriesLeft
  <2>3. CASE Hand!WorkerProceeds
    <3>1. /\ UNCHANGED <<kills, serving>>
          /\ (Hand!Boot /\ UNCHANGED <<news, missed>>) \/ Hand!BecomeReady
      BY <2>3 DEF Hand!WorkerProceeds
    <3>2. workerAt' \in {"silent", "initializing", "ready"}
      BY <3>1 DEF Hand!Boot, Hand!BecomeReady
    <3>3. news' \in [Hand!Askers -> Nat]
      <4>1. news \in [Hand!Askers -> Nat] /\ news["frame"] \in Nat
        BY <1>t DEF Hand!HandTypeOK, Hand!Askers
      <4>2. news' = news \/ news' = [news EXCEPT !["frame"] = @ + 1]
        BY <3>1 DEF Hand!BecomeReady
      <4>3. QED
        BY <4>1, <4>2
    <3>4. missed' \in [Hand!Askers -> BOOLEAN]
      BY <1>t, <3>1 DEF Hand!HandTypeOK, Hand!BecomeReady
    <3>5. QED
      BY <1>t, <2>1, <2>2, <3>1, <3>2, <3>3, <3>4 DEF HandInv, Hand!HandTypeOK
  <2>4. CASE Hand!WorkerFails
    BY <1>t, <2>1, <2>2, <2>4 DEF HandInv, Hand!HandTypeOK, Hand!WorkerFails
  <2>5. CASE Hand!KillInstalled
    <3>1. /\ kills' = kills + 1 /\ kills < MaxKills /\ workerAt' = "loading"
          /\ missed' = [x \in Hand!Askers |-> FALSE] /\ UNCHANGED <<news, serving>>
      BY <2>5 DEF Hand!KillInstalled
    <3>2. kills \in 0 .. MaxKills
      BY <1>t DEF Hand!HandTypeOK
    <3>3. kills' \in 0 .. MaxKills
      BY <3>1, <3>2, HandBounds
    <3>4. QED
      BY <1>t, <2>1, <2>2, <3>1, <3>3 DEF HandInv, Hand!HandTypeOK
  <2>6. QED
    BY <1>1, <2>3, <2>4, <2>5
<1>2. CASE Hand!Load \/ Hand!RegistrationFails \/ Hand!StopServing \/ Hand!InitPage
  BY <1>t, <1>2 DEF HandInv, Hand!HandTypeOK, TriesLeft, Hand!Load, Hand!RegistrationFails, Hand!StopServing,
     Hand!InitPage, Hand!Becomes, Hand!askVars, Hand!Askers
<1>3. CASE Hand!PassStatus
  BY <1>t, <1>3 DEF HandInv, Hand!HandTypeOK, TriesLeft, Hand!PassStatus, Hand!Askers
<1>4. ASSUME NEW x \in Hand!Askers, Hand!Ask(x) \/ Hand!Serve(x) PROVE HandInv'
  BY <1>t, <1>4 DEF HandInv, Hand!HandTypeOK, TriesLeft, Hand!Ask, Hand!Serve, Hand!Status
<1>5. ASSUME NEW x \in Hand!Askers, Hand!ReceiveStatus(x) \/ Hand!ReceiveError(x) PROVE HandInv'
  BY <1>t, <1>5 DEF HandInv, Hand!HandTypeOK, TriesLeft, Hand!ReceiveStatus, Hand!ReceiveError, Hand!Becomes,
     Hand!EndsCall
<1>6. ASSUME NEW x \in Hand!Askers, Hand!EndPause(x) \/ Hand!TimeOut(x) PROVE HandInv'
  <2>1. /\ at[x] \in {"asking", "pausing"} /\ tries' = [tries EXCEPT ![x] = @ + 1]
        /\ Hand!Becomes(x, Hand!AfterFailure(x))
    BY <1>6 DEF Hand!EndPause, Hand!TimeOut
  <2>2. UNCHANGED <<workerAt, kills, news, serving, missed>>
    BY <1>6 DEF Hand!EndPause, Hand!TimeOut, Hand!EndsCall
  <2>3. /\ request' \in [Hand!Askers -> {"none", "frame", "worker", "served"}]
        /\ reply' \in [Hand!Askers -> {"none", "not found", "INITIALIZING", "READY"}]
    BY <1>t, <1>6 DEF Hand!HandTypeOK, Hand!EndPause, Hand!TimeOut, Hand!EndsCall
  <2>4. QED
    BY <1>t, <2>1, <2>2, <2>3, FailureCounts DEF HandInv, Hand!HandTypeOK
<1>7. ASSUME NEW x \in Hand!Askers, Hand!Hear(x) PROVE HandInv'
  <2>1. news \in [Hand!Askers -> Nat] /\ news[x] > 0
    BY <1>t, <1>7 DEF Hand!HandTypeOK, Hand!Hear
  <2>2. news' = [y \in Hand!Askers |->
                   IF y = x THEN news[y] - 1
                   ELSE IF y = "page" /\ Hand!Loaded THEN news[y] + 2 ELSE news[y]]
    BY <1>7 DEF Hand!Hear
  <2>3. news' \in [Hand!Askers -> Nat]
    <3>1. ASSUME NEW y \in Hand!Askers PROVE news'[y] \in Nat
      <4>1. news[y] \in Nat /\ news[x] - 1 \in Nat
        BY <2>1
      <4>2. QED
        BY <2>2, <4>1
    <3>2. QED
      BY <2>2, <3>1
  <2>4. missed' \in [Hand!Askers -> BOOLEAN]
    BY <1>t, <1>7 DEF Hand!HandTypeOK, Hand!Hear
  <2>5. UNCHANGED <<workerAt, kills, tries, request, reply, serving>>
    BY <1>7 DEF Hand!Hear
  <2>6. at' = IF at[x] = "waiting" THEN [at EXCEPT ![x] = "started"] ELSE at
    BY <1>7 DEF Hand!Hear
  <2>7. /\ at' \in [Hand!Askers -> {"idle", "registering", "unregistered", "asking", "pausing",
                                    "waiting", "started", "rejected"}]
        /\ \A y \in Hand!Askers : at'[y] \in {at[y], "started"}
    BY <1>t, <2>6 DEF Hand!HandTypeOK
  <2>8. QED
    BY <1>t, <2>3, <2>4, <2>5, <2>7 DEF HandInv, Hand!HandTypeOK, TriesLeft
<1>8. QED
  BY <1>1, <1>2, <1>3, <1>4, <1>5, <1>6, <1>7 DEF Hand!HandNext, Hand!Proceeds, Hand!Attempts

\* The announcement of a worker that is ready is on its way to who has not started, or
\* has been missed.
Announced == \A x \in Hand!Askers :
  workerAt = "ready" => \/ at[x] = "started"
                        \/ news[x] > 0
                        \/ x = "page" /\ news["frame"] > 0
                        \/ missed[x]

LEMMA AnnouncedInductive == HandInv /\ Announced /\ Hand!HandNext => Announced'
<1> SUFFICES ASSUME HandInv, Announced, Hand!HandNext PROVE Announced'
  OBVIOUS
<1>t. Hand!HandTypeOK /\ "frame" \in Hand!Askers
  BY DEF HandInv, Hand!Askers
<1>1. CASE Hand!WorkerProceeds
  <2>1. CASE Hand!Boot
    BY <2>1 DEF Announced, Hand!Boot
  <2>2. CASE Hand!BecomeReady /\ news' = [news EXCEPT !["frame"] = @ + 1]
    <3>1. news \in [Hand!Askers -> Nat]
      BY <1>t DEF Hand!HandTypeOK
    <3>2. news'["frame"] > 0
      BY <1>t, <2>2, <3>1
    <3>3. QED
      BY <3>2 DEF Announced, Hand!Askers
  <2>3. CASE Hand!BecomeReady /\ missed' = [x \in Hand!Askers |-> TRUE]
    BY <2>3 DEF Announced
  <2>4. QED
    BY <1>1, <2>1, <2>2, <2>3 DEF Hand!WorkerProceeds, Hand!BecomeReady
<1>2. CASE Hand!WorkerFails \/ Hand!KillInstalled
  BY <1>2 DEF Announced, Hand!WorkerFails, Hand!KillInstalled
<1>3. ASSUME UNCHANGED <<workerAt, news, missed>>,
             \A x \in Hand!Askers : at[x] = "started" => at'[x] = "started"
      PROVE  Announced'
  BY <1>3 DEF Announced
<1>4. CASE Hand!Load \/ Hand!RegistrationFails \/ Hand!StopServing \/ Hand!InitPage \/ Hand!PassStatus
  BY <1>t, <1>3, <1>4 DEF Hand!HandTypeOK, Hand!Load, Hand!RegistrationFails, Hand!StopServing,
     Hand!InitPage, Hand!PassStatus, Hand!Becomes, Hand!askVars, Hand!Askers
<1>5. ASSUME NEW x \in Hand!Askers, \/ Hand!Ask(x) \/ Hand!Serve(x) \/ Hand!ReceiveStatus(x)
                                    \/ Hand!ReceiveError(x) \/ Hand!EndPause(x) \/ Hand!TimeOut(x)
      PROVE  Announced'
  <2>1. UNCHANGED <<workerAt, news, missed>>
    BY <1>5 DEF Hand!Ask, Hand!Serve, Hand!ReceiveStatus, Hand!ReceiveError, Hand!EndPause,
       Hand!TimeOut, Hand!EndsCall
  <2>2. \/ at' = at
        \/ at[x] # "started" /\ \E what : at' = [at EXCEPT ![x] = what]
    BY <1>5 DEF Hand!Ask, Hand!Serve, Hand!ReceiveStatus, Hand!ReceiveError, Hand!EndPause,
       Hand!TimeOut, Hand!Becomes
  <2>3. QED
    BY <1>t, <1>3, <2>1, <2>2 DEF Hand!HandTypeOK
<1>6. ASSUME NEW x \in Hand!Askers, Hand!Hear(x), NEW y \in Hand!Askers, workerAt' = "ready"
      PROVE  at'[y] = "started" \/ news'[y] > 0 \/ (y = "page" /\ news'["frame"] > 0) \/ missed'[y]
  <2>1. /\ workerAt = "ready"
        /\ news'[y] = IF y = x THEN news[y] - 1
                      ELSE IF y = "page" /\ Hand!Loaded THEN news[y] + 2 ELSE news[y]
        /\ news'["frame"] = IF x = "frame" THEN news["frame"] - 1 ELSE news["frame"]
        /\ missed'[y] = \/ missed[y]
                        \/ y = x /\ at[x] \notin {"waiting", "started"}
                        \/ x = "frame" /\ y = "page" /\ ~Hand!Loaded
        /\ at'[y] = IF y = x /\ at[x] = "waiting" THEN "started" ELSE at[y]
    BY <1>t, <1>6 DEF Hand!Hear, Hand!HandTypeOK
  <2>2. CASE y = x
    BY <2>1, <2>2
  <2>3. CASE y # x /\ x = "frame"
    <3>1. y = "page" /\ news[y] \in Nat
      BY <1>t, <2>3 DEF Hand!Askers, Hand!HandTypeOK
    <3>2. QED
      BY <2>1, <2>3, <3>1
  <2>4. CASE y # x /\ x = "page"
    BY <1>t, <2>1, <2>4 DEF Announced, Hand!Askers, Hand!HandTypeOK
  <2>5. QED
    BY <2>2, <2>3, <2>4 DEF Hand!Askers
<1>7. QED
  BY <1>1, <1>2, <1>4, <1>5, <1>6 DEF Hand!HandNext, Hand!Proceeds, Hand!Attempts, Announced

\* The other parts leave the handshake alone.
LEMMA HandKept == HandInv /\ Announced /\ [Next]_vars => HandInv' /\ Announced'
<1> SUFFICES ASSUME HandInv, Announced, [Next]_vars PROVE HandInv' /\ Announced'
  OBVIOUS
<1>1. CASE UNCHANGED handVars
  BY <1>1 DEF handVars, HandInv, Hand!HandTypeOK, TriesLeft, Announced
<1>2. CASE Hand!HandNext
  BY <1>2, HandInvInductive, AnnouncedInductive
<1>3. QED
  BY <1>1, <1>2 DEF Next, vars

\* AnnouncementsReach: a page or a frame that waits for a worker that is ready will hear of
\* it, unless the announcement came before it waited, or while the frame was not loaded; for any
\* number of tries and of workers killed (worker.ts:300, serviceWorkerClient.ts).
THEOREM NobodyWaitsInVain == Spec => []AnnouncementsReach
<1>1. Init => Announced
  BY DEF Init, Hand!HandInit, Announced
<1>2. Announced => AnnouncementsReach
  BY DEF Announced, AnnouncementsReach, Hand!AnnouncementsReach
<1>3. QED
  BY <1>1, <1>2, HandInvInit, HandKept, PTL DEF Spec

------------------------------------------------------------------------------
(* The loops *)

\* What the assumption says of the loops.
LEMMA PollBounds ==
  /\ MaxEth \in Nat /\ MaxSessions \in Nat /\ MaxFaults \in Nat
  /\ Reserve \in Nat /\ Cost \in Nat
BY BoundsAssumption

\* What a loop does, and the locals of its callback.
LoopType == [at : {"new", "timer", "polling", "address", "eth", "read", "deposit", "waiting",
              "stopped"},
             eth : 0 .. MaxEth, tok : 0 .. 1, onlyUpdate : BOOLEAN]

\* A callback that has read the ether of the address.
HasRead(l) == l.at \in {"eth", "read", "deposit"}

\* The loop of a session to come has not been started, and in the first session the address
\* holds what its callback has read, or more.
ReadIsThere == \A s \in Poll!Sessions :
                 /\ loop[s].at # "new" => s <= session
                 /\ session <= 1 /\ HasRead(loop[s]) => loop[s].eth <= eth

PollInv == Poll!PollTypeOK /\ ReadIsThere

LEMMA OutsideType ==
  /\ \A place \in {"new", "timer", "polling", "address", "waiting", "stopped"} :
       Poll!Outside(place) \in LoopType /\ Poll!Outside(place).at = place
  /\ [Poll!Outside("address") EXCEPT !.onlyUpdate = TRUE] \in LoopType
  /\ [Poll!Outside("address") EXCEPT !.onlyUpdate = TRUE].at = "address"
<1>1. 0 \in 0 .. MaxEth /\ 0 \in 0 .. 1
  BY PollBounds
<1>2. QED
  BY <1>1 DEF Poll!Outside, LoopType

LEMMA PollInvInit == Init => PollInv
<1> SUFFICES ASSUME Init PROVE PollInv
  OBVIOUS
<1>1. Poll!PollInit
  BY DEF Init
<1>2. loop = [l \in Poll!Loops |-> Poll!Outside("new")] /\ Poll!Outside("new") \in LoopType
  BY <1>1, OutsideType DEF Poll!PollInit
<1>3. loop \in [Poll!Loops -> LoopType]
  BY <1>2
<1>4. session = 0 /\ 0 \in 0 .. MaxSessions /\ faults = 0 /\ 0 \in 0 .. MaxFaults
  BY <1>1, PollBounds DEF Poll!PollInit
<1>5. Poll!PollTypeOK
  BY <1>1, <1>3, <1>4 DEF Poll!PollInit, Poll!PollTypeOK, LoopType
<1>6. \A s \in Poll!Sessions : loop[s].at = "new"
  BY <1>2, OutsideType DEF Poll!Loops
<1>7. QED
  BY <1>5, <1>6 DEF PollInv, ReadIsThere, HasRead

\* A step of one loop, and its only one, that keeps to the types.
LEMMA LoopSteps ==
  ASSUME PollInv, NEW l \in Poll!Loops, NEW next \in LoopType, loop' = [loop EXCEPT ![l] = next],
         next.at # "new", l = 0 \/ (l <= session /\ (HasRead(next) => next.eth <= eth \/ session > 1)),
         session' = session, eth' \in 0 .. MaxEth, eth' >= eth \/ (l # 0 /\ ~HasRead(next))
  PROVE  loop' \in [Poll!Loops -> LoopType] /\ ReadIsThere'
<1>t. loop \in [Poll!Loops -> LoopType] /\ session \in 0 .. MaxSessions /\ eth \in 0 .. MaxEth
  BY DEF PollInv, Poll!PollTypeOK, LoopType
<1>1. loop' \in [Poll!Loops -> LoopType]
  BY <1>t
<1>2. ASSUME NEW s \in Poll!Sessions
      PROVE  /\ loop'[s].at # "new" => s <= session'
             /\ session' <= 1 /\ HasRead(loop'[s]) => loop'[s].eth <= eth'
  <2>1. s \in Poll!Loops /\ s \in Nat /\ s >= 1
    BY PollBounds DEF Poll!Loops, Poll!Sessions
  <2>2. /\ loop[s].at # "new" => s <= session
        /\ session <= 1 /\ HasRead(loop[s]) => loop[s].eth <= eth
    BY DEF PollInv, ReadIsThere
  <2>3. CASE s = l
    <3>1. loop'[s] = next /\ next.eth \in 0 .. MaxEth
      BY <1>t, <2>3 DEF LoopType
    <3>2. QED
      BY <1>t, <2>1, <2>3, <3>1, PollBounds
  <2>4. CASE s # l
    <3>1. loop'[s] = loop[s] /\ loop[s].eth \in 0 .. MaxEth
      BY <1>t, <2>1, <2>4 DEF LoopType
    <3>2. ASSUME session <= 1, HasRead(loop[s]) PROVE eth' >= eth
      <4>1. loop[s].at # "new"
        BY <3>2 DEF HasRead
      <4>2. s = 1
        BY <1>t, <2>1, <2>2, <3>2, <4>1, PollBounds
      <4>3. l = 0 \/ l > 1
        BY <2>1, <2>4, <4>2, PollBounds DEF Poll!Loops, Poll!Sessions, Poll!Hub
      <4>4. QED
        BY <1>t, <3>2, <4>3, PollBounds DEF Poll!Loops, Poll!Sessions, Poll!Hub
    <3>3. QED
      BY <1>t, <2>1, <2>2, <3>1, <3>2, PollBounds
  <2>5. QED
    BY <2>3, <2>4
<1>3. QED
  BY <1>1, <1>2 DEF ReadIsThere

\* What moves, ends or goes on stays a loop.
LEMMA LoopMoves ==
  ASSUME PollInv, NEW l \in Poll!Loops, NEW place, Poll!Moves(l, place),
         place \in {"polling", "address", "deposit", "waiting", "stopped"}
  PROVE  LET next == [loop[l] EXCEPT !.at = place]
         IN  next \in LoopType /\ next.at = place /\ next.eth = loop[l].eth
             /\ loop' = [loop EXCEPT ![l] = next]
<1>1. loop \in [Poll!Loops -> LoopType] /\ loop' = [loop EXCEPT ![l].at = place]
  BY DEF PollInv, Poll!PollTypeOK, LoopType, Poll!Moves
<1>2. loop[l] \in LoopType /\ loop' = [loop EXCEPT ![l] = [loop[l] EXCEPT !.at = place]]
  BY <1>1
<1>3. QED
  BY <1>2 DEF LoopType

LEMMA MovesKeep ==
  ASSUME PollInv, NEW l \in Poll!Loops, NEW place, Poll!Moves(l, place),
         place \in {"polling", "address", "waiting", "stopped"}, l = 0 \/ l <= session, UNCHANGED <<session, eth>>
  PROVE  loop' \in [Poll!Loops -> LoopType] /\ ReadIsThere'
<1> DEFINE next == [loop[l] EXCEPT !.at = place]
<1>1. next \in LoopType /\ next.at = place /\ loop' = [loop EXCEPT ![l] = next]
  BY LoopMoves
<1>2. eth' \in 0 .. MaxEth /\ eth' >= eth
  BY PollBounds DEF PollInv, Poll!PollTypeOK
<1>3. next.at # "new" /\ ~HasRead(next)
  BY <1>1 DEF HasRead
<1> HIDE DEF next
<1>4. QED
  BY <1>1, <1>2, <1>3, LoopSteps

\* The invariant is one of what it is about.
LEMMA PollInvParts ==
  PollInv => /\ eth \in 0 .. MaxEth /\ tok \in 0 .. 1 /\ channel \in BOOLEAN
             /\ unlocked \in BOOLEAN /\ session \in 0 .. MaxSessions
             /\ polling \in [Poll!Loops -> BOOLEAN]
             /\ loop \in [Poll!Loops -> LoopType]
             /\ moreEthNeeded \in BOOLEAN /\ rates \in {"none", "known"}
             /\ busy \in BOOLEAN /\ leaked \in BOOLEAN /\ faults \in 0 .. MaxFaults
             /\ ReadIsThere
BY DEF PollInv, Poll!PollTypeOK, LoopType

LEMMA PollInvWhole ==
  ASSUME eth' \in 0 .. MaxEth, tok' \in 0 .. 1, channel' \in BOOLEAN,
         unlocked' \in BOOLEAN, session' \in 0 .. MaxSessions,
         polling' \in [Poll!Loops -> BOOLEAN],
         loop' \in [Poll!Loops -> LoopType],
         moreEthNeeded' \in BOOLEAN, rates' \in {"none", "known"},
         busy' \in BOOLEAN, leaked' \in BOOLEAN, faults' \in 0 .. MaxFaults, ReadIsThere'
  PROVE  PollInv'
BY DEF PollInv, Poll!PollTypeOK, LoopType

LEMMA FaultType == ASSUME PollInv, Poll!Fault PROVE faults' \in 0 .. MaxFaults
<1>1. faults \in 0 .. MaxFaults /\ faults < MaxFaults /\ faults' = faults + 1
  BY PollInvParts DEF Poll!Fault
<1>2. QED
  BY <1>1, PollBounds

\* A deposit leaves no less than nothing, and of the ether that was read the reserve.
LEMMA TakesLeaves ==
  ASSUME PollInv, NEW s \in Poll!Sessions, NEW t \in 0 .. 1, Poll!Takes(Poll!EthDeposit(s), t)
  PROVE  /\ eth' \in 0 .. MaxEth /\ tok' \in 0 .. 1
         /\ loop[s].eth <= eth => eth' >= Reserve \/ (eth < Reserve + Cost /\ eth' >= eth - Cost)
<1> DEFINE e == Poll!EthDeposit(s)
<1>1. eth \in 0 .. MaxEth /\ tok \in 0 .. 1 /\ loop[s].eth \in 0 .. MaxEth
  <2>1. s \in Poll!Loops
    BY DEF Poll!Loops
  <2>2. QED
    BY <2>1, PollInvParts DEF LoopType
<1>2. /\ e \in Nat
      /\ IF loop[s].eth > Reserve + Cost THEN e = loop[s].eth - Reserve - Cost ELSE e = 0
  BY <1>1, PollBounds DEF Poll!EthDeposit
<1>3. PICK gas \in (IF e + t > 0 THEN 1 .. Cost ELSE {0}) :
        eth >= e + gas /\ tok >= t /\ eth' = eth - e - gas /\ tok' = tok - t
  BY DEF Poll!Takes
<1>4. gas \in Nat /\ gas <= Cost
  BY <1>2, <1>3, PollBounds
<1> HIDE DEF e
<1>5. eth' \in 0 .. MaxEth /\ tok' \in 0 .. 1
  BY <1>1, <1>2, <1>3, <1>4, PollBounds
<1>6. ASSUME loop[s].eth <= eth PROVE eth' >= Reserve \/ (eth < Reserve + Cost /\ eth' >= eth - Cost)
  <2>1. CASE loop[s].eth > Reserve + Cost
    BY <1>1, <1>2, <1>3, <1>4, <1>6, <2>1, PollBounds
  <2>2. CASE ~(loop[s].eth > Reserve + Cost)
    BY <1>1, <1>2, <1>3, <1>4, <1>6, <2>2, PollBounds
  <2>3. QED
    BY <2>1, <2>2
<1>7. QED
  BY <1>5, <1>6

LEMMA PollInvInductive == PollInv /\ Poll!PollNext => PollInv'
<1> SUFFICES ASSUME PollInv, Poll!PollNext PROVE PollInv'
  OBVIOUS
<1>t. /\ eth \in 0 .. MaxEth /\ tok \in 0 .. 1 /\ channel \in BOOLEAN
      /\ unlocked \in BOOLEAN /\ session \in 0 .. MaxSessions
      /\ polling \in [Poll!Loops -> BOOLEAN]
      /\ loop \in [Poll!Loops -> LoopType]
      /\ moreEthNeeded \in BOOLEAN /\ rates \in {"none", "known"}
      /\ busy \in BOOLEAN /\ leaked \in BOOLEAN /\ faults \in 0 .. MaxFaults
      /\ ReadIsThere
  BY PollInvParts
<1>h. 0 \in Poll!Loops /\ Poll!Hub = 0 /\ \A s \in Poll!Sessions : s \in Poll!Loops /\ s # 0
  BY PollBounds DEF Poll!Loops, Poll!Hub, Poll!Sessions
<1>e. eth >= eth
  BY <1>t, PollBounds
\* A step that leaves the ether and moves loops only.
<1>b. ASSUME NEW l \in Poll!Loops, Poll!Begins(l), l = 0 \/ l <= session,
             UNCHANGED <<eth, tok, channel, unlocked, session, busy, leaked, shownBalances, moreEthNeeded, rates, faults>>
      PROVE  PollInv'
  <2>1. /\ polling' = [polling EXCEPT ![l] = TRUE]
        /\ Poll!Moves(l, "polling")
    BY <1>b DEF Poll!Begins
  <2>2. loop' \in [Poll!Loops -> LoopType] /\ ReadIsThere'
    BY <1>b, <2>1, MovesKeep
  <2>3. polling' \in [Poll!Loops -> BOOLEAN]
    BY <1>t, <2>1
  <2>4. QED
    BY <1>t, <1>b, <2>2, <2>3, PollInvWhole
<1>1. CASE Poll!StartHub
  BY <1>1, <1>b, <1>h DEF Poll!StartHub, Poll!chainVars, Poll!lockVars, Poll!shownVars
<1>2. CASE Poll!SetExchangeRate
  <2>1. /\ loop' = [loop EXCEPT ![0] = Poll!Outside("timer")]
        /\ UNCHANGED <<eth, tok, channel, unlocked, session, busy, leaked, polling, shownBalances, moreEthNeeded>>
        /\ \/ rates' = "known" /\ UNCHANGED faults
           \/ Poll!Fault /\ UNCHANGED rates
    BY <1>2, <1>h DEF Poll!SetExchangeRate, Poll!Ends, Poll!chainVars, Poll!lockVars
  <2>2. loop' \in [Poll!Loops -> LoopType] /\ ReadIsThere'
    BY <1>t, <1>h, <1>e, <2>1, OutsideType, LoopSteps
  <2>3. faults' \in 0 .. MaxFaults /\ rates' \in {"none", "known"}
    BY <1>t, <2>1, FaultType
  <2>4. QED
    BY <1>t, <2>1, <2>2, <2>3, PollInvWhole
<1>3. CASE Poll!Unlock
  <2>1. /\ session < MaxSessions /\ unlocked' = TRUE /\ session' = session + 1
        /\ UNCHANGED <<eth, tok, channel, busy, leaked, polling, loop, shownBalances, moreEthNeeded, rates, faults>>
    BY <1>3 DEF Poll!Unlock, Poll!chainVars, Poll!shownVars
  <2>2. session' \in 0 .. MaxSessions
    BY <1>t, <2>1, PollBounds
  <2>3. ReadIsThere'
    <3>1. ASSUME NEW s \in Poll!Sessions
          PROVE  /\ loop[s].at # "new" => s <= session + 1
                 /\ session + 1 <= 1 /\ HasRead(loop[s]) => loop[s].eth <= eth
      <4>1. /\ loop[s].at # "new" => s <= session
            /\ session <= 1 /\ HasRead(loop[s]) => loop[s].eth <= eth
        BY <1>t DEF ReadIsThere
      <4>2. s \in Nat
        BY PollBounds DEF Poll!Sessions
      <4>3. QED
        BY <1>t, <4>1, <4>2, PollBounds
    <3>2. QED
      BY <2>1, <3>1 DEF ReadIsThere
  <2>4. QED
    BY <1>t, <2>1, <2>2, <2>3, PollInvWhole
<1>4. CASE Poll!Lock
  <2>1. /\ unlocked' = FALSE
        /\ IF polling[session] THEN Poll!Halts(session) ELSE UNCHANGED <<polling, loop>>
        /\ UNCHANGED <<eth, tok, channel, session, busy, leaked, shownBalances, moreEthNeeded, rates, faults>>
    BY <1>4 DEF Poll!Lock, Poll!chainVars, Poll!shownVars
  <2>2. CASE UNCHANGED <<polling, loop>>
    BY <1>t, <2>1, <2>2, PollInvWhole DEF ReadIsThere
  <2>3. CASE Poll!Halts(session)
    <3>1. /\ polling' = [polling EXCEPT ![session] = FALSE]
          /\ IF loop[session].at = "timer" THEN Poll!Moves(session, "stopped") ELSE loop' = loop
      BY <2>3 DEF Poll!Halts, Poll!Moves
    <3>2. polling' \in [Poll!Loops -> BOOLEAN]
      BY <1>t, <3>1
    <3>3. session \in Poll!Loops /\ session <= session
      BY <1>t, PollBounds DEF Poll!Loops, Poll!Sessions, Poll!Hub
    <3>4. CASE loop' = loop
      BY <1>t, <2>1, <3>2, <3>4, PollInvWhole DEF ReadIsThere
    <3>5. CASE Poll!Moves(session, "stopped")
      <4>1. loop' \in [Poll!Loops -> LoopType] /\ ReadIsThere'
        BY <2>1, <3>3, <3>5, MovesKeep
      <4>2. QED
        BY <1>t, <2>1, <3>2, <4>1, PollInvWhole
    <3>6. QED
      BY <3>1, <3>4, <3>5
  <2>4. QED
    BY <2>1, <2>2, <2>3
<1>5. ASSUME NEW l \in Poll!Loops, Poll!Poll(l) PROVE PollInv'
  <2>1. /\ loop[l].at = "timer"
        /\ Poll!Moves(l, "polling") \/ Poll!Moves(l, "stopped")
        /\ UNCHANGED <<eth, tok, channel, unlocked, session, busy, leaked, polling, shownBalances, moreEthNeeded, rates, faults>>
    BY <1>5 DEF Poll!Poll, Poll!chainVars, Poll!lockVars, Poll!shownVars
  <2>2. l = 0 \/ l <= session
    BY <1>t, <2>1 DEF ReadIsThere, Poll!Loops, Poll!Hub
  <2>3. loop' \in [Poll!Loops -> LoopType] /\ ReadIsThere'
    BY <2>1, <2>2, MovesKeep
  <2>4. QED
    BY <1>t, <2>1, <2>3, PollInvWhole
<1>6. ASSUME NEW s \in Poll!Sessions, Poll!StartSession(s) PROVE PollInv'
  BY <1>6, <1>b, <1>h DEF Poll!StartSession, Poll!chainVars, Poll!lockVars, Poll!shownVars
<1>7. ASSUME NEW s \in Poll!Sessions, Poll!ReadAddress(s) \/ Poll!ReadEth(s) \/ Poll!ReadTokens(s)
                                      \/ Poll!Decide(s) \/ Poll!Deposit(s)
      PROVE  PollInv'
  <2>0. s \in Poll!Loops /\ loop[s] \in LoopType /\ loop[s].at # "new" /\ s # 0
    BY <1>t, <1>7, <1>h DEF Poll!ReadAddress, Poll!ReadEth, Poll!ReadTokens, Poll!Decide, Poll!Deposit
  <2>s. s <= session /\ (session <= 1 /\ HasRead(loop[s]) => loop[s].eth <= eth)
    BY <1>t, <2>0 DEF ReadIsThere
  <2>f. session > 1 \/ session <= 1
    BY <1>t, PollBounds
  <2>u. UNCHANGED <<unlocked, session, busy, polling>> /\ leaked' \in BOOLEAN
    <3>1. CASE Poll!Deposit(s)
      BY <1>t, <3>1 DEF Poll!Deposit, Poll!DepositRefused, Poll!DepositWaits, Poll!MethodThrows,
         Poll!BootyFails, Poll!DepositSucceeds
    <3>2. CASE ~Poll!Deposit(s)
      BY <1>t, <1>7, <3>2 DEF Poll!ReadAddress, Poll!ReadEth, Poll!ReadTokens, Poll!Decide, Poll!InLoop,
         Poll!lockVars
    <3>3. QED
      BY <3>1, <3>2
  <2>o. ASSUME Poll!Ends(s), eth' \in 0 .. MaxEth PROVE loop' \in [Poll!Loops -> LoopType] /\ ReadIsThere'
    BY <2>0, <2>o, <2>s, <2>u, OutsideType, LoopSteps DEF Poll!Ends, HasRead
  <2>1. CASE Poll!ReadAddress(s)
    <3>1. /\ Poll!Moves(s, "address") \/ Poll!Ends(s)
          /\ UNCHANGED <<eth, tok, channel, shownBalances, moreEthNeeded, rates, faults>>
      BY <2>1 DEF Poll!ReadAddress, Poll!InLoop, Poll!shownVars
    <3>2. loop' \in [Poll!Loops -> LoopType] /\ ReadIsThere'
      BY <1>t, <2>0, <2>s, <2>u, <2>o, <3>1, MovesKeep
    <3>3. QED
      BY <1>t, <2>u, <3>1, <3>2, PollInvWhole
  <2>2. CASE Poll!ReadEth(s)
    <3>1. /\ \/ loop' = [loop EXCEPT ![s].at = "eth", ![s].eth = eth] /\ UNCHANGED faults
             \/ Poll!Fault /\ Poll!Ends(s)
          /\ UNCHANGED <<eth, tok, channel, shownBalances, moreEthNeeded, rates>>
      BY <2>2 DEF Poll!ReadEth, Poll!InLoop, Poll!shownVars, Poll!Throws
    <3>2. faults' \in 0 .. MaxFaults
      BY <1>t, <3>1, FaultType
    <3>3. ASSUME loop' = [loop EXCEPT ![s].at = "eth", ![s].eth = eth]
          PROVE  loop' \in [Poll!Loops -> LoopType] /\ ReadIsThere'
      <4> DEFINE next == [loop[s] EXCEPT !.at = "eth", !.eth = eth]
      <4>1. next \in LoopType /\ next.at = "eth" /\ next.eth = eth
        BY <1>t, <2>0 DEF LoopType
      <4>2. loop' = [loop EXCEPT ![s] = next]
        BY <1>t, <2>0, <3>3
      <4>3. next.eth <= eth
        BY <1>e, <4>1
      <4> HIDE DEF next
      <4>4. QED
        BY <1>t, <1>e, <2>0, <2>s, <2>u, <3>1, <4>1, <4>2, <4>3, LoopSteps
    <3>4. QED
      BY <1>t, <2>u, <2>o, <3>1, <3>2, <3>3, PollInvWhole
  <2>3. CASE Poll!ReadTokens(s)
    <3>1. PICK t \in {tok, 0} :
            /\ t # tok => faults < MaxFaults
            /\ faults' = IF t # tok THEN faults + 1 ELSE faults
            /\ IF loop[s].onlyUpdate THEN Poll!Ends(s)
                 ELSE loop' = [loop EXCEPT ![s].at = "read", ![s].tok = t]
      BY <2>3 DEF Poll!ReadTokens
    <3>2. loop[s].at = "eth" /\ UNCHANGED <<eth, tok, channel, moreEthNeeded, rates>>
      BY <2>3 DEF Poll!ReadTokens, Poll!InLoop
    <3>3. faults' \in 0 .. MaxFaults /\ t \in 0 .. 1
      BY <1>t, <3>1, PollBounds
    <3>4. ASSUME loop' = [loop EXCEPT ![s].at = "read", ![s].tok = t]
          PROVE  loop' \in [Poll!Loops -> LoopType] /\ ReadIsThere'
      <4> DEFINE next == [loop[s] EXCEPT !.at = "read", !.tok = t]
      <4>1. next \in LoopType /\ next.at = "read" /\ next.eth = loop[s].eth
        BY <2>0, <3>3 DEF LoopType
      <4>2. loop' = [loop EXCEPT ![s] = next]
        BY <1>t, <2>0, <3>4
      <4>3. next.eth <= eth \/ session > 1
        BY <2>f, <2>s, <3>2, <4>1 DEF HasRead
      <4> HIDE DEF next
      <4>4. QED
        BY <1>t, <1>e, <2>0, <2>s, <2>u, <3>2, <4>1, <4>2, <4>3, LoopSteps
    <3>5. QED
      BY <1>t, <2>u, <2>o, <3>1, <3>2, <3>3, <3>4, PollInvWhole
  <2>4. CASE Poll!Decide(s)
    <3>1. /\ loop[s].at = "read"
          /\ Poll!Moves(s, "deposit") \/ Poll!Ends(s)
          /\ moreEthNeeded' \in BOOLEAN
          /\ UNCHANGED <<eth, tok, channel, shownBalances, rates, faults>>
      BY <2>4, <1>t DEF Poll!Decide, Poll!InLoop, Poll!NothingToDeposit, Poll!CannotPay
    <3>2. ASSUME Poll!Moves(s, "deposit") PROVE loop' \in [Poll!Loops -> LoopType] /\ ReadIsThere'
      <4> DEFINE next == [loop[s] EXCEPT !.at = "deposit"]
      <4>1. next \in LoopType /\ next.at = "deposit" /\ next.eth = loop[s].eth
            /\ loop' = [loop EXCEPT ![s] = next]
        BY <2>0, <3>2, LoopMoves
      <4>2. next.eth <= eth \/ session > 1
        BY <2>f, <2>s, <3>1, <4>1 DEF HasRead
      <4> HIDE DEF next
      <4>3. QED
        BY <1>t, <1>e, <2>0, <2>s, <2>u, <3>1, <4>1, <4>2, LoopSteps
    <3>3. QED
      BY <1>t, <2>u, <2>o, <3>1, <3>2, PollInvWhole
  <2>5. CASE Poll!Deposit(s)
    <3>0. /\ UNCHANGED <<shownBalances, moreEthNeeded, rates>> /\ loop[s].at = "deposit"
          /\ \/ Poll!DepositRefused(s) \/ Poll!DepositWaits(s) \/ Poll!MethodThrows(s)
             \/ Poll!BootyFails(s) \/ Poll!DepositSucceeds(s)
      BY <2>5 DEF Poll!Deposit, Poll!shownVars
    <3>k. loop[s].tok \in 0 .. 1 /\ 0 \in 0 .. 1
      BY <2>0 DEF LoopType
    <3>1. CASE Poll!DepositSucceeds(s)
      <4>1. /\ Poll!Takes(Poll!EthDeposit(s), loop[s].tok) /\ channel' = TRUE /\ UNCHANGED faults
            /\ loop' = [loop EXCEPT ![s] = [Poll!Outside("address") EXCEPT !.onlyUpdate = TRUE]]
        BY <3>1 DEF Poll!DepositSucceeds, Poll!Deposited
      <4>2. eth' \in 0 .. MaxEth /\ tok' \in 0 .. 1
        BY <3>k, <4>1, TakesLeaves
      <4>3. loop' \in [Poll!Loops -> LoopType] /\ ReadIsThere'
        BY <2>0, <2>s, <2>u, <4>1, <4>2, OutsideType, LoopSteps DEF HasRead
      <4>4. QED
        BY <1>t, <2>u, <3>0, <4>1, <4>2, <4>3, PollInvWhole
    <3>2. CASE Poll!DepositRefused(s) \/ Poll!MethodThrows(s) \/ Poll!BootyFails(s)
      <4>1. /\ Poll!Ends(s)
            /\ UNCHANGED channel \/ channel' = TRUE
            /\ UNCHANGED faults \/ Poll!Fault
            /\ \/ UNCHANGED <<eth, tok>>
               \/ Poll!Takes(Poll!EthDeposit(s), 0)
               \/ Poll!Takes(Poll!EthDeposit(s), loop[s].tok)
        BY <3>2 DEF Poll!DepositRefused, Poll!MethodThrows, Poll!BootyFails, Poll!Deposited, Poll!Throws,
           Poll!chainVars
      <4>2. eth' \in 0 .. MaxEth /\ tok' \in 0 .. 1 /\ faults' \in 0 .. MaxFaults
        BY <1>t, <3>k, <4>1, TakesLeaves, FaultType
      <4>3. channel' \in BOOLEAN /\ loop' \in [Poll!Loops -> LoopType] /\ ReadIsThere'
        BY <1>t, <2>o, <4>1, <4>2
      <4>4. QED
        BY <1>t, <2>u, <3>0, <4>2, <4>3, PollInvWhole
    <3>4. CASE Poll!DepositWaits(s)
      <4>1. Poll!Moves(s, "waiting") /\ UNCHANGED <<eth, tok, channel, faults>>
        BY <3>4 DEF Poll!DepositWaits, Poll!chainVars
      <4>2. loop' \in [Poll!Loops -> LoopType] /\ ReadIsThere'
        BY <2>0, <2>s, <2>u, <4>1, MovesKeep
      <4>3. QED
        BY <1>t, <2>u, <3>0, <4>1, <4>2, PollInvWhole
    <3>3. QED
      BY <3>0, <3>1, <3>2, <3>4
  <2>6. QED
    BY <1>7, <2>1, <2>2, <2>3, <2>4, <2>5
<1>8. CASE Poll!EthArrives
  <2>1. /\ eth < MaxEth /\ eth' = eth + 1 /\ Poll!Fault
        /\ UNCHANGED <<tok, channel, unlocked, session, busy, leaked, polling, loop, shownBalances, moreEthNeeded, rates>>
    BY <1>8 DEF Poll!EthArrives, Poll!lockVars, Poll!shownVars
  <2>2. eth' \in 0 .. MaxEth /\ eth' >= eth
    BY <1>t, <2>1, PollBounds
  <2>3. ReadIsThere'
    <3>1. \A s \in Poll!Sessions : loop[s].eth \in 0 .. MaxEth
      BY <1>t, <1>h DEF LoopType
    <3>2. \A s \in Poll!Sessions : loop[s].eth <= eth => loop[s].eth <= eth'
      BY <1>t, <2>2, <3>1, PollBounds
    <3>3. QED
      BY <1>t, <2>1, <3>2 DEF ReadIsThere
  <2>4. QED
    BY <1>t, <2>1, <2>2, <2>3, FaultType, PollInvWhole
<1>9. CASE Poll!Purchase \/ Poll!PurchaseEnds
  <2>1. /\ busy' \in BOOLEAN /\ (Poll!Fault \/ UNCHANGED faults)
        /\ UNCHANGED <<eth, tok, channel, unlocked, session, leaked, polling, loop, shownBalances, moreEthNeeded, rates>>
    BY <1>9 DEF Poll!Purchase, Poll!PurchaseEnds, Poll!chainVars, Poll!shownVars
  <2>2. QED
    BY <1>t, <2>1, FaultType, PollInvWhole DEF ReadIsThere
<1>10. QED
  BY <1>1, <1>2, <1>3, <1>4, <1>5, <1>6, <1>7, <1>8, <1>9, <1>h DEF Poll!PollNext, Poll!Runs

LEMMA PollKept == PollInv /\ [Next]_vars => PollInv'
<1> SUFFICES ASSUME PollInv, [Next]_vars PROVE PollInv'
  OBVIOUS
<1>1. CASE UNCHANGED pollVars
  BY <1>1 DEF pollVars, PollInv, Poll!PollTypeOK, ReadIsThere
<1>2. CASE Poll!PollNext
  BY <1>2, PollInvInductive
<1>3. QED
  BY <1>1, <1>2 DEF Next, vars

\* KeepsReserve: whatever arrives, fails and is in the way, in the first session a deposit
\* leaves the reserve at the address, and depositing tokens takes no more of it than it costs;
\* for any reserve, cost and number of sessions (AddressBalanceController.ts:78).
THEOREM ReserveIsKept == Spec => KeepsReserve
<1>1. ASSUME PollInv, [Next]_vars
      PROVE  [eth' < eth => \/ eth' >= Reserve
                            \/ eth < Reserve + Cost /\ eth' >= eth - Cost
                            \/ session > 1]_(Poll!pollVars)
  <2>1. SUFFICES ASSUME eth' < eth, ~(session > 1)
                 PROVE  eth' >= Reserve \/ (eth < Reserve + Cost /\ eth' >= eth - Cost)
    OBVIOUS
  <2>2. eth \in 0 .. MaxEth /\ session \in 0 .. MaxSessions /\ loop \in [Poll!Loops -> LoopType] /\ ReadIsThere
    BY <1>1, PollInvParts
  <2>3. eth' # eth
    BY <2>1, <2>2, PollBounds
  <2>4. Poll!PollNext
    BY <1>1, <2>3 DEF Next, vars, pollVars
  <2>5. ~Poll!EthArrives
    BY <2>1, <2>2, PollBounds DEF Poll!EthArrives
  <2>6. PICK s \in Poll!Sessions : Poll!Deposit(s)
    BY <2>3, <2>4, <2>5 DEF Poll!PollNext, Poll!Runs, Poll!StartHub, Poll!Poll, Poll!SetExchangeRate, Poll!Unlock,
       Poll!Lock, Poll!StartSession, Poll!ReadAddress, Poll!ReadEth, Poll!ReadTokens, Poll!Decide, Poll!Purchase,
       Poll!PurchaseEnds, Poll!chainVars
  <2>7. loop[s].at = "deposit" /\ loop[s].tok \in 0 .. 1 /\ 0 \in 0 .. 1
    <3>1. s \in Poll!Loops
      BY DEF Poll!Loops
    <3>2. QED
      BY <2>2, <2>6, <3>1 DEF Poll!Deposit, LoopType
  <2>8. session <= 1
    BY <2>1, <2>2, PollBounds
  <2>9. loop[s].eth <= eth
    BY <2>2, <2>7, <2>8 DEF ReadIsThere, HasRead
  <2>10. \/ Poll!Takes(Poll!EthDeposit(s), loop[s].tok)
         \/ Poll!Takes(Poll!EthDeposit(s), 0)
    BY <2>3, <2>6 DEF Poll!Deposit, Poll!DepositRefused, Poll!DepositWaits, Poll!MethodThrows,
       Poll!BootyFails, Poll!DepositSucceeds, Poll!Deposited, Poll!chainVars
  <2>11. QED
    BY <1>1, <2>7, <2>9, <2>10, TakesLeaves
<1>2. QED
  BY <1>1, PollInvInit, PollKept, PTL DEF Spec, KeepsReserve, Poll!KeepsReserve

------------------------------------------------------------------------------
(* The types of the shared state *)

\* The fields of the runtime half are always the same.
RuntimeOK(s) == /\ "runtime" \in DOMAIN s
                /\ DOMAIN s.runtime = DOMAIN Pages!GetInitialState.runtime

\* And so are those of the shared state.
SharedOK(t) == DOMAIN t = DOMAIN Pages!InitialSharedState

LEMMA InitialRuntimeOK == RuntimeOK(Pages!GetInitialState) /\ SharedOK(Pages!InitialSharedState)
BY DEF RuntimeOK, SharedOK, Pages!GetInitialState

LEMMA ToldShared == ASSUME NEW s, RuntimeOK(s) PROVE SharedOK(Told(s))
<1> DEFINE own == {"didInit", "rememberPath", "isLocked", "moreEthNeeded", "currentMigration"}
<1>1. \A t : DOMAIN Told(t) = own \cup DOMAIN t.runtime
  BY DEF Told, Pages!BuildSharedState
<1>2. DOMAIN Pages!InitialSharedState = DOMAIN Told(Pages!GetInitialState)
  BY DEF Pages!InitialSharedState, Told
<1>3. QED
  BY <1>1, <1>2 DEF SharedOK, RuntimeOK

\* No reducer adds a field of the runtime half, or removes one.
LEMMA ReducersKeepRuntime ==
  ASSUME NEW s, RuntimeOK(s), NEW v
  PROVE  /\ RuntimeOK(Pages!SetWallet(s, v)) /\ RuntimeOK(Pages!SetKeyring(s, v))
         /\ RuntimeOK(Pages!SetDidStoreMnemonic(s)) /\ RuntimeOK(Pages!RestoreWallet(s, v))
         /\ RuntimeOK(Pages!SetTransactionPending(s, v)) /\ RuntimeOK(Pages!RememberPage(s, v))
         /\ RuntimeOK(Pages!SetLastUpdateDb(s, v)) /\ RuntimeOK(Pages!SetHubBranding(s, v))
         /\ RuntimeOK(Pages!SetCurrentHubUrl(s, v)) /\ RuntimeOK(Pages!SetCurrentAuthRealm(s, v))
         /\ RuntimeOK(Pages!SetChannel(s, v)) /\ RuntimeOK(Pages!SetCurrentAuthToken(s, v))
         /\ RuntimeOK(Pages!SetHistory(s, v)) /\ RuntimeOK(Pages!SetPendingTransaction(s, v))
         /\ RuntimeOK(Pages!SetHasActiveWithdrawal(s, v)) /\ RuntimeOK(Pages!SetActiveWithdrawalError(s, v))
         /\ RuntimeOK(Pages!SetExchangeRates(s, v)) /\ RuntimeOK(Pages!SetUsername(s, v))
         /\ RuntimeOK(Pages!SetTransactionState(s, v)) /\ RuntimeOK(Pages!SetIsPendingVerification(s, v))
         /\ RuntimeOK(Pages!SetHasActiveDeposit(s, v)) /\ RuntimeOK(Pages!RemoveTransactionState(s, v))
         /\ RuntimeOK(Pages!SetInitialState(s)) /\ RuntimeOK(Pages!SetFeatureFlags(s, v))
         /\ RuntimeOK(Pages!SetBaseCurrency(s, v)) /\ RuntimeOK(Pages!SetAddressBalances(s, v))
         /\ RuntimeOK(Pages!SetMoreEthNeeded(s, v)) /\ RuntimeOK(Pages!SetMigrationState(s, v))
         /\ RuntimeOK(Pages!SetNeedsCollateral(s, v)) /\ RuntimeOK(Pages!ToggleFrame(s, v))
<1>1. /\ RuntimeOK(Pages!SetWallet(s, v)) /\ RuntimeOK(Pages!SetTransactionPending(s, v))
      /\ RuntimeOK(Pages!SetLastUpdateDb(s, v)) /\ RuntimeOK(Pages!SetHubBranding(s, v))
  BY DEF RuntimeOK, Pages!SetWallet, Pages!SetTransactionPending, Pages!SetLastUpdateDb,
     Pages!SetHubBranding
<1>2. /\ RuntimeOK(Pages!SetCurrentHubUrl(s, v)) /\ RuntimeOK(Pages!SetCurrentAuthRealm(s, v))
      /\ RuntimeOK(Pages!SetChannel(s, v)) /\ RuntimeOK(Pages!SetCurrentAuthToken(s, v))
  BY DEF RuntimeOK, Pages!SetCurrentHubUrl, Pages!SetCurrentAuthRealm, Pages!SetChannel,
     Pages!SetCurrentAuthToken
<1>3. /\ RuntimeOK(Pages!SetHistory(s, v)) /\ RuntimeOK(Pages!SetPendingTransaction(s, v))
      /\ RuntimeOK(Pages!SetHasActiveWithdrawal(s, v)) /\ RuntimeOK(Pages!SetActiveWithdrawalError(s, v))
  BY DEF RuntimeOK, Pages!SetHistory, Pages!SetPendingTransaction, Pages!SetHasActiveWithdrawal,
     Pages!SetActiveWithdrawalError
<1>4. /\ RuntimeOK(Pages!SetExchangeRates(s, v)) /\ RuntimeOK(Pages!SetUsername(s, v))
      /\ RuntimeOK(Pages!SetIsPendingVerification(s, v)) /\ RuntimeOK(Pages!SetHasActiveDeposit(s, v))
  BY DEF RuntimeOK, Pages!SetExchangeRates, Pages!SetUsername, Pages!SetIsPendingVerification,
     Pages!SetHasActiveDeposit
<1>5. /\ RuntimeOK(Pages!SetAddressBalances(s, v)) /\ RuntimeOK(Pages!SetMoreEthNeeded(s, v))
      /\ RuntimeOK(Pages!SetMigrationState(s, v)) /\ RuntimeOK(Pages!SetNeedsCollateral(s, v))
  BY DEF RuntimeOK, Pages!SetAddressBalances, Pages!SetMoreEthNeeded, Pages!SetMigrationState,
     Pages!SetNeedsCollateral
<1>6. \A t, w : RuntimeOK(t) => RuntimeOK(Pages!SetBaseCurrency(t, w))
  BY DEF RuntimeOK, Pages!SetBaseCurrency
<1>7. RuntimeOK(Pages!SetFeatureFlags(s, v))
  <2>1. RuntimeOK([s EXCEPT !.runtime.featureFlags = v])
    BY DEF RuntimeOK
  <2>2. QED
    BY <1>6, <2>1 DEF Pages!SetFeatureFlags
<1>8. /\ RuntimeOK(Pages!SetKeyring(s, v)) /\ RuntimeOK(Pages!SetDidStoreMnemonic(s))
      /\ RuntimeOK(Pages!RestoreWallet(s, v)) /\ RuntimeOK(Pages!RememberPage(s, v))
  BY DEF RuntimeOK, Pages!SetKeyring, Pages!SetDidStoreMnemonic, Pages!RestoreWallet,
     Pages!RememberPage
<1>9. /\ RuntimeOK(Pages!SetTransactionState(s, v)) /\ RuntimeOK(Pages!RemoveTransactionState(s, v))
      /\ RuntimeOK(Pages!SetInitialState(s))
  BY DEF RuntimeOK, Pages!SetTransactionState, Pages!RemoveTransactionState, Pages!SetInitialState
<1>10. RuntimeOK(Pages!ToggleFrame(s, v))
  BY DEF RuntimeOK, Pages!ToggleFrame
<1>11. QED
  BY <1>1, <1>2, <1>3, <1>4, <1>5, <1>6, <1>7, <1>8, <1>9, <1>10

LEMMA ReduceKeepsRuntime ==
  ASSUME NEW s, RuntimeOK(s), NEW a \in Dispatches
  PROVE  RuntimeOK(Pages!Reduce(s, a))
BY ReducersKeepRuntime, Zenon DEF Pages!Reduce

\* What is on its way to the frame, and what the frame shows, has these fields.
SyncTypes ==
  /\ RuntimeOK(store) /\ SharedOK(frame.shared)
  /\ \A i \in DOMAIN toFrame : SharedOK(toFrame[i].state)
  /\ fetch["frame"] = "answered" => SharedOK(fetched["frame"].state)
  /\ page.cover \in {"block", "none"} /\ page.hideTimers \in Nat

LEMMA PageDisplays ==
  ASSUME NEW p, PageFields \subseteq DOMAIN p, p.cover \in {"block", "none"}, p.hideTimers \in Nat,
         NEW state, state.isFrameDisplayed \in BOOLEAN
  PROVE  LET q == Pages!HandleSharedStateUpdate(p, state)
         IN  q.cover \in {"block", "none"} /\ q.hideTimers \in Nat
<1> DEFINE q == Pages!HandleSharedStateUpdate(p, state)
<1> DEFINE e == Pages!WithEvents(p, state)
<1>1. PageFields \subseteq DOMAIN e /\ e.cover = p.cover /\ e.hideTimers = p.hideTimers
  BY DEF Pages!WithEvents, PageFields
<1>2. q = [(IF state.isFrameDisplayed THEN Pages!Display(e) ELSE Pages!Hide(e)) EXCEPT !.previous = state]
  BY DEF Pages!HandleSharedStateUpdate
<1> HIDE DEF e
<1> HIDE DEF q
<1>3. ASSUME state.isFrameDisplayed PROVE q.cover \in {"block", "none"} /\ q.hideTimers \in Nat
  <2>1. q = [Pages!Display(e) EXCEPT !.previous = state]
    BY <1>2, <1>3
  <2>2. QED
    BY <1>1, <2>1 DEF Pages!Display, PageFields
<1>4. ASSUME ~state.isFrameDisplayed PROVE q.cover \in {"block", "none"} /\ q.hideTimers \in Nat
  <2>1. q = [Pages!Hide(e) EXCEPT !.previous = state]
    BY <1>2, <1>4
  <2>2. q.cover = e.cover /\ q.hideTimers = e.hideTimers + 1
    BY <1>1, <2>1 DEF Pages!Hide, PageFields
  <2>3. QED
    BY <1>1, <2>2
<1>5. q.cover \in {"block", "none"} /\ q.hideTimers \in Nat
  BY <1>3, <1>4
<1>6. QED
  BY <1>5 DEF q

LEMMA SyncTypesInductive == SyncInv /\ SyncTypes /\ Pages!SyncNext => SyncTypes'
<1> SUFFICES ASSUME SyncInv, SyncTypes, Pages!SyncNext PROVE SyncTypes'
  OBVIOUS
<1>q. Queue(toFrame) /\ Queue(toPage) /\ PageFields \subseteq DOMAIN page /\ "shared" \in DOMAIN frame
      /\ DOMAIN fetched = Pages!Mirrors /\ DOMAIN fetch = Pages!Mirrors
      /\ "frame" \in Pages!Mirrors /\ "page" \in Pages!Mirrors
  BY DEF SyncInv, SyncShape, Pages!Mirrors
<1>1. ASSUME NEW a \in Dispatches, Pages!Dispatch(a) PROVE SyncTypes'
  <2> DEFINE m == [version |-> dispatched + 1, state |-> Told(store')]
  <2>1. /\ store' = Pages!Reduce(store, a) /\ toFrame' = Append(toFrame, m)
        /\ UNCHANGED <<fetch, fetched, frame, page>>
    BY <1>1 DEF Pages!Dispatch, Pages!Commit, Pages!Broadcast, Pages!pageVars, Told
  <2>2. RuntimeOK(store')
    BY <2>1, ReduceKeepsRuntime DEF SyncTypes
  <2>3. SharedOK(m.state)
    BY <2>2, ToldShared
  <2> HIDE DEF m
  <2>4. \A i \in DOMAIN toFrame' : SharedOK(toFrame'[i].state)
    BY <1>q, <2>1, <2>3, QueueAppend DEF SyncTypes
  <2>5. QED
    BY <2>1, <2>2, <2>4 DEF SyncTypes
<1>2. ASSUME NEW x \in Pages!Mirrors, Pages!AskSharedState(x) PROVE SyncTypes'
  BY <1>q, <1>2 DEF SyncTypes, Pages!AskSharedState, Pages!pageVars, SyncInv, SyncShape
<1>3. ASSUME NEW x \in Pages!Mirrors, Pages!GetSharedState(x) PROVE SyncTypes'
  <2> DEFINE m == [version |-> dispatched, state |-> Told(store)]
  <2>1. /\ fetch' = [fetch EXCEPT ![x] = "answered"] /\ fetched' = [fetched EXCEPT ![x] = m]
        /\ UNCHANGED <<store, toFrame, frame, page>>
    BY <1>3 DEF Pages!GetSharedState, Pages!pageVars, Told
  <2>2. SharedOK(m.state)
    BY ToldShared DEF SyncTypes
  <2> HIDE DEF m
  <2>3. QED
    BY <1>q, <2>1, <2>2 DEF SyncTypes
<1>4. CASE Pages!WireToLocal
  <2>1. /\ fetch["frame"] = "answered" /\ fetch' = [fetch EXCEPT !["frame"] = "done"]
        /\ frame' = [frame EXCEPT !.shared = fetched["frame"].state]
        /\ UNCHANGED <<store, toFrame, fetched, page>>
    BY <1>4 DEF Pages!WireToLocal, Pages!pageVars
  <2>2. QED
    BY <1>q, <2>1 DEF SyncTypes
<1>5. CASE Pages!HearBroadcast
  <2>1. /\ toFrame # << >> /\ toFrame' = Tail(toFrame)
        /\ frame' = IF fetch["frame"] = "done"
                      THEN [frame EXCEPT !.shared = Head(toFrame).state] ELSE frame
        /\ UNCHANGED <<store, fetch, fetched, page>>
    BY <1>5 DEF Pages!HearBroadcast
  <2>2. SharedOK(Head(toFrame).state) /\ \A i \in DOMAIN toFrame' : SharedOK(toFrame'[i].state)
    BY <1>q, <2>1, QueueTail DEF SyncTypes
  <2>3. SharedOK(frame'.shared)
    BY <1>q, <2>1, <2>2 DEF SyncTypes
  <2>4. QED
    BY <2>1, <2>2, <2>3 DEF SyncTypes
<1>6. CASE Pages!FinishInit
  <2>1. /\ fetch["page"] = "answered" /\ fetch' = [fetch EXCEPT !["page"] = "done"]
        /\ page' = [page EXCEPT !.previous = fetched["page"].state,
                                !.unlocked = ~fetched["page"].state.isLocked]
        /\ UNCHANGED <<store, toFrame, fetched, frame>>
    BY <1>6 DEF Pages!FinishInit
  <2>2. page'.cover = page.cover /\ page'.hideTimers = page.hideTimers /\ fetch'["frame"] = fetch["frame"]
    BY <1>q, <2>1 DEF PageFields
  <2>3. QED
    BY <2>1, <2>2 DEF SyncTypes
<1>7. CASE Pages!HearUpdate
  <2>1. /\ toPage # << >>
        /\ page' = IF fetch["page"] = "done"
                     THEN Pages!HandleSharedStateUpdate(page, Head(toPage).state) ELSE page
        /\ UNCHANGED <<store, toFrame, fetch, fetched, frame>>
    BY <1>7 DEF Pages!HearUpdate
  <2> DEFINE m == Head(toPage)
  <2>2. m = toPage[1] /\ 1 \in DOMAIN toPage
    BY <1>q, <2>1, QueueTail
  <2>3. m.state.isFrameDisplayed \in BOOLEAN
    BY <2>2 DEF SyncInv, AllHonest, Honest
  <2>4. page' = IF fetch["page"] = "done"
                     THEN Pages!HandleSharedStateUpdate(page, m.state) ELSE page
    BY <2>1
  <2> HIDE DEF m
  <2>5. page.cover \in {"block", "none"} /\ page.hideTimers \in Nat
    BY DEF SyncTypes
  <2>6. page'.cover \in {"block", "none"} /\ page'.hideTimers \in Nat
    BY <1>q, <2>3, <2>4, <2>5, PageDisplays
  <2>7. QED
    BY <2>1, <2>6 DEF SyncTypes
<1>8. CASE Pages!RemoveCover
  <2>1. /\ page.hideTimers > 0
        /\ page' = [page EXCEPT !.hideTimers = @ - 1, !.cover = "none", !.uncovered = page.displayed]
        /\ UNCHANGED <<store, toFrame, fetch, fetched, frame>>
    BY <1>8 DEF Pages!RemoveCover
  <2>2. page'.hideTimers = page.hideTimers - 1 /\ page'.cover = "none" /\ page.hideTimers \in Nat
    BY <1>q, <2>1 DEF PageFields, SyncTypes
  <2>3. page'.hideTimers \in Nat
    BY <2>1, <2>2
  <2>4. QED
    BY <2>1, <2>2, <2>3 DEF SyncTypes
<1>9. QED
  BY <1>1, <1>2, <1>3, <1>4, <1>5, <1>6, <1>7, <1>8 DEF Pages!SyncNext

LEMMA SyncTypesInit == Init => SyncTypes \/ part = "pages"
<1> SUFFICES ASSUME Init, part # "pages" PROVE SyncTypes
  OBVIOUS
<1>1. /\ store = Pages!GetInitialState /\ toFrame = << >>
      /\ fetch = [x \in Pages!Mirrors |-> "none"] /\ page = Pages!InitialPage
      /\ frame \in {Pages!FrameState(Pages!InitialSharedState),
                    Pages!FrameState(Told(Pages!Stored))}
  BY DEF Init, Pages!WalletInit, Pages!SyncInit, Told
<1>2. RuntimeOK(Pages!Stored)
  BY InitialRuntimeOK, ReducersKeepRuntime DEF Pages!Stored
<1>3. SharedOK(frame.shared)
  BY <1>1, <1>2, InitialRuntimeOK, ToldShared DEF Pages!FrameState
<1>4. fetch["frame"] = "none"
  BY <1>1 DEF Pages!Mirrors
<1>5. QED
  BY <1>1, <1>3, <1>4, InitialRuntimeOK, QueueEmpty DEF SyncTypes, Pages!InitialPage

------------------------------------------------------------------------------
(* The types of the pages *)

\* The redirections that a page asks for, and the locations of the frame.
Redirects == {None, "/wallet/send"}
Routes == {"/init", "/unlock", "/wallet", "/wallet/send"}

StoreTypes(s) == /\ RuntimeOK(s) /\ "forceRedirect" \in DOMAIN s.runtime
                 /\ s.runtime.forceRedirect \in Redirects

SharedTypes(t) == SharedOK(t) /\ t.forceRedirect \in Redirects

\* A request to show or hide the frame says where to redirect to.
ToggleOK(r) == r.type = "toggleFrame" => r.with.forceRedirect \in Redirects

FetchTypes == /\ dispatched \in Nat
              /\ fetch \in [Pages!Mirrors -> {"none", "asked", "answered", "done"}]
              /\ lost \in [Pages!Mirrors -> BOOLEAN]
              /\ page.cover \in {"block", "none"} /\ page.hideTimers \in Nat

\* What the worker has and tells.
TellTypes == StoreTypes(store) /\ \A m \in Elems(toFrame) : SharedTypes(m.state)

\* What the frame shows.
ShownTypes == FrameShape(frame) /\ FormShape(form) /\ SharedTypes(frame.shared) /\ route \in Routes

\* No words are newer than the newest.
WordsOf(q) == \A r \in Elems(q) : r.type = "genKeyring" => r.with.words \in 0 .. words
WordTypes == /\ words \in Nat /\ known \subseteq 0 .. words /\ Words \in {None} \cup 0 .. words
             /\ WordsOf(jobs) /\ WordsOf(pageAnswers)

AskTypes == \A r \in Elems(inbox) : ToggleOK(r)

CountTypes == /\ mishaps \subseteq {"again", "early", "overtaken", "stale"}
              /\ submits \in 0 .. MaxSubmits /\ locks \in 0 .. MaxLocks

PagesTypes == FetchTypes /\ TellTypes /\ ShownTypes /\ WordTypes /\ AskTypes /\ CountTypes

LEMMA PageBounds == MaxSubmits \in Nat /\ MaxLocks \in Nat
BY BoundsAssumption

\* The redirection that is shown is the one that is stored.
LEMMA ToldTypes == ASSUME NEW s, StoreTypes(s) PROVE SharedTypes(Told(s))
<1>1. SharedOK(Told(s))
  BY ToldShared DEF StoreTypes
<1>2. Told(s).forceRedirect = s.runtime.forceRedirect
  BY DEF StoreTypes, Told, Pages!BuildSharedState
<1>3. QED
  BY <1>1, <1>2 DEF StoreTypes, SharedTypes

LEMMA InitialTypes == /\ StoreTypes(Pages!GetInitialState) /\ StoreTypes(Pages!Stored)
                      /\ SharedTypes(Pages!InitialSharedState)
<1>1. StoreTypes(Pages!GetInitialState)
  BY InitialRuntimeOK DEF StoreTypes, Pages!GetInitialState, Redirects
<1>2. \A s, v : StoreTypes(s) => StoreTypes(Pages!RestoreWallet(s, v))
  BY ReducersKeepRuntime DEF StoreTypes, RuntimeOK, Pages!RestoreWallet
<1>3. StoreTypes(Pages!Stored)
  BY <1>1, <1>2 DEF Pages!Stored
<1>4. SharedTypes(Told(Pages!GetInitialState))
  BY <1>1, ToldTypes
<1>5. Pages!InitialSharedState.forceRedirect = Told(Pages!GetInitialState).forceRedirect
  <2>1. "forceRedirect" \in DOMAIN Told(Pages!GetInitialState)
    BY <1>1 DEF Told, Pages!BuildSharedState, StoreTypes
  <2>2. QED
    BY <2>1 DEF Pages!InitialSharedState, Told
<1>6. QED
  BY <1>1, <1>3, <1>4, <1>5, InitialRuntimeOK DEF SharedTypes

LEMMA ReducersKeepTypes ==
  ASSUME NEW s, StoreTypes(s), NEW v
  PROVE  /\ StoreTypes(Pages!SetWallet(s, v)) /\ StoreTypes(Pages!SetKeyring(s, v))
         /\ StoreTypes(Pages!RestoreWallet(s, v)) /\ StoreTypes(Pages!SetDidStoreMnemonic(s))
         /\ StoreTypes(Pages!SetCurrentAuthToken(s, v))
         /\ v.forceRedirect \in Redirects => StoreTypes(Pages!ToggleFrame(s, v))
<1>1. StoreTypes(Pages!SetWallet(s, v)) /\ StoreTypes(Pages!SetCurrentAuthToken(s, v))
  BY DEF StoreTypes, RuntimeOK, Pages!SetWallet, Pages!SetCurrentAuthToken
<1>2. StoreTypes(Pages!SetKeyring(s, v)) /\ StoreTypes(Pages!SetDidStoreMnemonic(s))
  BY DEF StoreTypes, RuntimeOK, Pages!SetKeyring, Pages!SetDidStoreMnemonic
<1>3. StoreTypes(Pages!RestoreWallet(s, v))
  BY DEF StoreTypes, RuntimeOK, Pages!RestoreWallet
<1>4. v.forceRedirect \in Redirects => StoreTypes(Pages!ToggleFrame(s, v))
  BY DEF StoreTypes, RuntimeOK, Pages!ToggleFrame
<1>5. QED
  BY <1>1, <1>2, <1>3, <1>4

\* What is broadcast has the fields of the store.
LEMMA TellingTypes ==
  ASSUME TellTypes, Queue(toFrame), StoreTypes(store'), Tells PROVE TellTypes'
<1>1. CASE toFrame' = toFrame
  BY <1>1 DEF TellTypes
<1>2. CASE toFrame' = Append(toFrame, [version |-> dispatched, state |-> Told(store')])
  <2> DEFINE m == [version |-> dispatched, state |-> Told(store')]
  <2>1. SharedTypes(m.state) /\ toFrame' = Append(toFrame, m)
    BY <1>2, ToldTypes
  <2> HIDE DEF m
  <2>2. Adds(toFrame, m, toFrame')
    BY <2>1, AppendAdds
  <2>3. QED
    BY <2>1, <2>2 DEF TellTypes, Adds
<1>3. QED
  BY <1>1, <1>2 DEF Tells

LEMMA NoTelling == TellTypes /\ UNCHANGED <<store, toFrame>> => TellTypes'
BY DEF TellTypes

\* A route is one of the locations.
LEMMA ShowingTypes ==
  ASSUME ShownTypes, NEW f, FrameShape(f), SharedTypes(f.shared), NEW s, FormShape(s),
         Pages!Show(f, s)
  PROVE  ShownTypes'
<1> DEFINE e == Pages!Expects(f)
<1>1. frame' = f /\ route' \in {route, Pages!Destination(e)} /\ form' \in {s, Pages!NewForm}
  BY DEF Pages!Show, Pages!RouteFor
<1>2. e.redirect \in Redirects /\ e.wallet \in BOOLEAN /\ e.unlock \in BOOLEAN
  BY DEF Pages!Expects, SharedTypes
<1> HIDE DEF e
<1>3. Pages!Destination(e) \in Routes
  BY <1>2 DEF Pages!Destination, Routes, Redirects
<1>4. QED
  BY <1>1, <1>3, NewFormShape DEF ShownTypes

\* What one more request, or one fewer, makes of them.
LEMMA AskingTypes ==
  ASSUME AskTypes, Queue(inbox), NEW r, ToggleOK(r), Pages!Posts(<<r>>) PROVE AskTypes'
<1>1. inbox' = Append(inbox, r)
  BY AppendIs DEF Pages!Posts
<1>2. Adds(inbox, r, inbox')
  BY <1>1, AppendAdds
<1>3. QED
  BY <1>2 DEF AskTypes, Adds

LEMMA AskingTwiceTypes ==
  ASSUME AskTypes, Queue(inbox), NEW r, ToggleOK(r), NEW t, ToggleOK(t), Pages!Posts(<<r, t>>)
  PROVE  AskTypes'
<1> DEFINE q == Append(inbox, r)
<1>1. inbox' = Append(q, t) /\ Adds(inbox, r, q)
  BY AppendIs, AppendAdds DEF Pages!Posts
<1> HIDE DEF q
<1>2. Queue(q)
  BY <1>1 DEF Adds
<1>3. Adds(q, t, inbox')
  BY <1>1, <1>2, AppendAdds
<1>4. QED
  BY <1>1, <1>3 DEF AskTypes, Adds

LEMMA SubmitTypes == ASSUME CountTypes, Pages!Submits PROVE submits' \in 0 .. MaxSubmits
<1>1. submits \in 0 .. MaxSubmits /\ submits < MaxSubmits /\ submits' = submits + 1
  BY DEF CountTypes, Pages!Submits, Pages!MaySubmit
<1>2. QED
  BY <1>1, PageBounds

LEMMA LockTypes == ASSUME CountTypes, locks < MaxLocks, locks' = locks + 1 PROVE locks' \in 0 .. MaxLocks
<1>1. locks \in 0 .. MaxLocks
  BY DEF CountTypes
<1>2. QED
  BY <1>1, PageBounds

LEMMA OtherRequests ==
  \A type, with, then : type # "toggleFrame" => ToggleOK(Pages!Request(type, with, then))
BY DEF ToggleOK, Pages!Request

\* What the user does.
LEMMA UserTypes ==
  ASSUME PagesTypes, WordsInv, mishaps = {}, Pages!UserActs
  PROVE  /\ UNCHANGED <<store, dispatched, toFrame, jobs, pageAnswers, words>>
         /\ ShownTypes' /\ AskTypes' /\ CountTypes'
         /\ known' \subseteq 0 .. words /\ Words' \in {Words, None}
<1>t. /\ ShownTypes /\ AskTypes /\ CountTypes /\ known \subseteq 0 .. words
      /\ Words \in {None} \cup 0 .. words /\ Queue(inbox)
  BY DEF PagesTypes, WordTypes, WordsInv, CallShape
<1>f. FormShape(form) /\ FrameShape(frame)
  BY <1>t DEF ShownTypes
<1> DEFINE Result == /\ UNCHANGED <<store, dispatched, toFrame, jobs, pageAnswers, words>>
                     /\ ShownTypes' /\ AskTypes' /\ CountTypes'
                     /\ known' \subseteq 0 .. words /\ Words' \in {Words, None}
<1>1. CASE Pages!SubmitPassword
  <2> DEFINE r == Pages!Request("genKeyring", None, None)
  <2>1. /\ Pages!Posts(<<r, r>>) /\ Pages!Submits /\ mishaps' \in {mishaps, mishaps \cup {"again"}}
        /\ UNCHANGED <<store, dispatched, toFrame, frame, route, form, jobs, pageAnswers, words, known, locks>>
    BY <1>1 DEF Pages!SubmitPassword, Pages!formVars
  <2>2. ToggleOK(r)
    BY OtherRequests
  <2> HIDE DEF r
  <2>3. AskTypes' /\ submits' \in 0 .. MaxSubmits
    BY <1>t, <2>1, <2>2, AskingTwiceTypes, SubmitTypes
  <2>4. QED
    BY <1>t, <2>1, <2>3 DEF ShownTypes, CountTypes, Words
<1>2. CASE Pages!Acknowledge
  <2>1. /\ form' = [form EXCEPT !.acknowledged = TRUE] /\ known' = known \cup {Words}
        /\ mishaps' \in {mishaps, mishaps \cup {"early"}}
        /\ UNCHANGED <<store, dispatched, toFrame, frame, route, inbox, jobs, pageAnswers, words, submits, locks>>
    BY <1>2 DEF Pages!Acknowledge, Pages!callVars, Words
  <2>2. Words # None
    BY <1>2, MnemonicShown DEF Pages!Acknowledge, Pages!On, Words
  <2>3. FormShape(form')
    BY <1>f, <2>1 DEF FormShape
  <2>4. QED
    BY <1>t, <2>1, <2>2, <2>3 DEF ShownTypes, AskTypes, CountTypes, Words
<1>u. CASE Pages!Unacknowledge
  <2>1. FormShape(form')
    BY <1>f, <1>u DEF FormShape, Pages!Unacknowledge
  <2>2. QED
    BY <1>t, <1>u, <2>1 DEF Pages!Unacknowledge, Pages!callVars, Pages!userVars, ShownTypes,
                             AskTypes, CountTypes, Words
<1>3. CASE Pages!SubmitMnemonic
  <2>1. /\ Pages!Submits
        /\ UNCHANGED <<store, dispatched, toFrame, jobs, pageAnswers, words, known, mishaps, locks>>
    BY <1>3 DEF Pages!SubmitMnemonic
  <2> DEFINE r == Pages!Request("didStoreMnemonic", None, None)
  <2> DEFINE t == Pages!Request("authenticate", None, "Mnemonic")
  <2> DEFINE f == Pages!DidStoreMnemonic(frame)
  <2> DEFINE g == Pages!DidAcknowledgeDeposit(f)
  <2>2. /\ FrameShape(f) /\ f.shared = frame.shared /\ f.temp.mnemonic = Words
        /\ FrameShape(g) /\ g.shared = frame.shared /\ g.temp.mnemonic = None
    BY <1>f DEF FrameShape, Pages!DidStoreMnemonic, Pages!DidAcknowledgeDeposit, Words
  <2>3. ToggleOK(r) /\ ToggleOK(t) /\ FormShape([form EXCEPT !.authenticating = TRUE])
    BY <1>f, OtherRequests DEF FormShape
  <2>4. \/ Pages!Posts(<<r, t>>) /\ Pages!Show(g, [form EXCEPT !.authenticating = TRUE])
        \/ Pages!Posts(<<r>>) /\ Pages!Show(f, form)
    BY <1>3 DEF Pages!SubmitMnemonic
  <2> HIDE DEF r
  <2> HIDE DEF t
  <2> HIDE DEF g
  <2> HIDE DEF f
  <2>5. AskTypes' /\ submits' \in 0 .. MaxSubmits
    BY <1>t, <2>1, <2>3, <2>4, AskingTypes, AskingTwiceTypes, SubmitTypes
  <2>6. ShownTypes'
    <3>1. SharedTypes(f.shared) /\ SharedTypes(g.shared)
      BY <1>t, <2>2 DEF ShownTypes
    <3>2. QED
      BY <1>t, <1>f, <2>2, <2>3, <2>4, <3>1, ShowingTypes
  <2>7. Words' \in {Words, None}
    BY <2>2, <2>4 DEF Pages!Show, Words
  <2>8. QED
    BY <1>t, <2>1, <2>5, <2>6, <2>7 DEF CountTypes
<1>4. ASSUME NEW r, NEW c,
             Pages!Submits, Pages!Posts(<<r>>), ToggleOK(r), form' = c, FormShape(c),
             UNCHANGED <<store, dispatched, toFrame, frame, route, jobs, pageAnswers, words, known, mishaps, locks>>
      PROVE  Result
  BY <1>t, <1>4, AskingTypes, SubmitTypes DEF ShownTypes, CountTypes, Words
<1>5. CASE Pages!SubmitDeposit
  <2>1. FormShape([form EXCEPT !.authenticating = TRUE])
    BY <1>f DEF FormShape
  <2>2. QED
    BY <1>4, <1>5, <2>1, OtherRequests DEF Pages!SubmitDeposit
<1>6. CASE Pages!SubmitUnlock
  <2>1. FormShape([form EXCEPT !.loading = TRUE])
    BY <1>f DEF FormShape
  <2>2. QED
    BY <1>4, <1>6, <2>1, OtherRequests DEF Pages!SubmitUnlock
<1>7. CASE Pages!SubmitNewPassword
  BY <1>4, <1>7, <1>f, OtherRequests DEF Pages!SubmitNewPassword, Pages!formVars
<1>8. ASSUME NEW w \in known, Pages!SubmitSeeds(w) PROVE Result
  BY <1>4, <1>8, <1>f, OtherRequests DEF Pages!SubmitSeeds, Pages!formVars
<1>9. ASSUME NEW c, form' = c, FormShape(c),
             UNCHANGED <<store, dispatched, toFrame, frame, route, inbox, jobs, pageAnswers, words, known, mishaps, submits, locks>>
      PROVE  Result
  BY <1>t, <1>9 DEF ShownTypes, AskTypes, CountTypes, Words
<1>10. CASE Pages!ShowRestore
  <2>1. FormShape([form EXCEPT !.restoring = "seeds"])
    BY <1>f DEF FormShape
  <2>2. QED
    BY <1>9, <1>10, <2>1 DEF Pages!ShowRestore, Pages!callVars, Pages!userVars
<1>11. CASE Pages!GoBack
  <2>1. FormShape(form')
    BY <1>f, <1>11 DEF FormShape, Pages!GoBack
  <2>2. QED
    BY <1>9, <1>11, <2>1 DEF Pages!GoBack, Pages!callVars, Pages!userVars
<1>12. ASSUME NEW hd \in BOOLEAN, Pages!PickAddress(hd) PROVE Result
  <2>1. FormShape(form')
    BY <1>f, <1>12 DEF FormShape, Pages!PickAddress
  <2>2. QED
    BY <1>9, <1>12, <2>1 DEF Pages!PickAddress, Pages!callVars, Pages!userVars
<1>13. ASSUME NEW r, Pages!Posts(<<r>>), ToggleOK(r), locks < MaxLocks, locks' = locks + 1,
              UNCHANGED <<store, dispatched, toFrame, frame, route, form, jobs, pageAnswers, words, known, mishaps, submits>>
       PROVE  Result
  BY <1>t, <1>13, AskingTypes, LockTypes DEF ShownTypes, CountTypes, Words
<1>14. CASE Pages!PressLock
  BY <1>13, <1>14, OtherRequests DEF Pages!PressLock, Pages!formVars
<1>15. ASSUME NEW param \in Pages!ToggleParams, Pages!Toggle(param) PROVE Result
  <2>1. ToggleOK(Pages!Request("toggleFrame", param, None))
    BY DEF ToggleOK, Pages!Request, Pages!ToggleParams, Redirects
  <2>2. QED
    BY <1>13, <1>15, <2>1 DEF Pages!Toggle, Pages!formVars
<1>16. QED
  BY <1>1, <1>2, <1>u, <1>3, <1>5, <1>6, <1>7, <1>8, <1>10, <1>11, <1>12, <1>14, <1>15
  DEF Pages!UserActs

\* The words of calls stay words that have been made.
LEMMA WordsStay ==
  ASSUME NEW q, NEW r, WordsOf(q), words \in Nat, words' \in Nat, words' >= words,
         (\A x \in Elems(r) : x \in Elems(q)) \/
         (\E e : /\ Adds(q, e, r)
                 /\ e.type = "genKeyring" => e.with.words \in 0 .. words')
  PROVE  \A x \in Elems(r) : x.type = "genKeyring" => x.with.words \in 0 .. words'
<1>1. \A n \in 0 .. words : n \in 0 .. words'
  OBVIOUS
<1>2. \A x \in Elems(q) : x.type = "genKeyring" => x.with.words \in 0 .. words'
  BY <1>1 DEF WordsOf
<1>3. QED
  BY <1>2 DEF Adds

\* What the handlers of the worker do.
LEMMA HandleTypes ==
  ASSUME PagesTypes, WordsInv, mishaps = {}, Pages!Handle
  PROVE  /\ UNCHANGED <<dispatched, frame, route, form, known, submits, locks>>
         /\ TellTypes' /\ AskTypes' /\ WordTypes' /\ CountTypes'
<1> DEFINE r == Head(inbox)
<1>1. /\ Drops(inbox, r, inbox') /\ r.type \in Requested
      /\ UNCHANGED <<frame, route, form, known>>
  BY HandleFacts
<1>2. /\ Queue(toFrame) /\ Queue(jobs) /\ Queue(pageAnswers)
      /\ TellTypes /\ StoreTypes(store) /\ AskTypes /\ WordTypes /\ CountTypes
      /\ words \in Nat /\ known \subseteq 0 .. words /\ Words \in {None} \cup 0 .. words
      /\ WordsOf(jobs) /\ WordsOf(pageAnswers)
  BY DEF WordsInv, CallShape, PagesTypes, TellTypes, WordTypes
<1>3. ToggleOK(r) /\ AskTypes'
  BY <1>1, <1>2 DEF AskTypes, Drops
<1>4. UNCHANGED <<submits, locks>> /\ mishaps' \in {mishaps, mishaps \cup {"stale"}}
  BY DEF Pages!Handle
<1>5. CountTypes'
  BY <1>2, <1>4 DEF CountTypes
<1>6. \A s : Pages!Update(s) => store' = s /\ Tells /\ dispatched' = dispatched
  BY UpdateTells DEF Pages!Update, Pages!Broadcast
<1>7. /\ r.type = "genKeyring" => Pages!GenKeyring(r)
      /\ r.type = "restoreWallet" => Pages!BeginRestore(r)
      /\ r.type = "unlockWallet" => Pages!BeginUnlock(r)
      /\ r.type = "authenticate" => Pages!BeginAuthenticate(r)
      /\ r.type = "lockWallet" => Pages!Does(r, Pages!SetWallet(store, None))
      /\ r.type = "didStoreMnemonic" => Pages!Does(r, Pages!SetDidStoreMnemonic(store))
      /\ r.type = "toggleFrame" => Pages!Does(r, Pages!ToggleFrame(store, r.with))
      /\ r.type = "generateRestorationCandidates" =>
           Pages!Began(r.type, r.with, r.then) /\ UNCHANGED <<store, dispatched, toFrame, pageAnswers, words>>
  BY DEF Pages!Handle
<1> HIDE DEF r
\* A job that begins, and an answer that is sent.
<1>8. \A type, with, then : Pages!Began(type, with, then) =>
        \E e : Adds(jobs, e, jobs') /\ e.type = type /\ e.with = with
  <2>1. ASSUME NEW type, NEW with, NEW then, Pages!Began(type, with, then)
        PROVE  \E e : Adds(jobs, e, jobs') /\ e.type = type /\ e.with = with
    <3> DEFINE e == Pages!Request(type, with, then)
    <3>1. jobs' = Append(jobs, e) /\ e.type = type /\ e.with = with
      BY <2>1 DEF Pages!Began, Pages!Request
    <3> HIDE DEF e
    <3>2. QED
      BY <1>2, <3>1, AppendAdds
  <2>2. QED
    BY <2>1
<1>9. ASSUME words' \in Nat, words' >= words, StoreTypes(store'), Tells \/ UNCHANGED toFrame,
             jobs' = jobs \/ (\E e : /\ Adds(jobs, e, jobs')
                                     /\ e.type = "genKeyring" => e.with.words \in 0 .. words'),
             pageAnswers' = pageAnswers \/ (\E e : Adds(pageAnswers, e, pageAnswers') /\ e.type # "genKeyring")
      PROVE  TellTypes' /\ WordTypes'
  <2>1. TellTypes'
    BY <1>2, <1>9, TellingTypes DEF Tells
  <2>2. /\ \A x \in Elems(jobs') : x.type = "genKeyring" => x.with.words \in 0 .. words'
        /\ \A x \in Elems(pageAnswers') : x.type = "genKeyring" => x.with.words \in 0 .. words'
    BY <1>2, <1>9, WordsStay
  <2>3. \A n \in 0 .. words : n \in 0 .. words'
    BY <1>2, <1>9
  <2>4. QED
    BY <1>1, <1>2, <1>9, <2>1, <2>2, <2>3 DEF WordTypes, WordsOf, Words
<1>10. CASE r.type = "genKeyring"
  <2>0. PICK k, s, then : /\ k = Pages!Keyring(words + 1, TRUE) /\ then = r.then
                          /\ s = Pages!SetWallet(store, k)
    OBVIOUS
  <2>1. /\ words' = words + 1 /\ Pages!Update(s)
        /\ Pages!Began("genKeyring", k, then) /\ UNCHANGED pageAnswers
    BY <1>7, <1>10, <2>0 DEF Pages!GenKeyring
  <2>2. words' \in Nat /\ words' >= words /\ k.words \in 0 .. words'
    BY <1>2, <2>0, <2>1 DEF Pages!Keyring
  <2>3. \E e : /\ Adds(jobs, e, jobs')
               /\ e.type = "genKeyring" => e.with.words \in 0 .. words'
    BY <1>8, <2>1, <2>2
  <2>4. StoreTypes(store') /\ Tells /\ dispatched' = dispatched
    <3>1. StoreTypes(s)
      BY <1>2, <2>0, ReducersKeepTypes
    <3>2. store' = s /\ Tells /\ dispatched' = dispatched
      BY <1>6, <2>1
    <3>3. QED
      BY <3>1, <3>2
  <2>5. QED
    BY <1>1, <1>3, <1>4, <1>5, <1>9, <2>1, <2>2, <2>3, <2>4
<1>w. words >= words
  BY <1>2
<1>11. CASE r.type = "restoreWallet"
  <2>1. /\ Pages!Update(Pages!SetWallet(store, r.with)) /\ Pages!Began(r.type, r.with, r.then)
        /\ UNCHANGED <<pageAnswers, words>>
    BY <1>7, <1>11 DEF Pages!BeginRestore
  <2>2. StoreTypes(store') /\ Tells /\ dispatched' = dispatched
    BY <1>2, <1>6, <2>1, ReducersKeepTypes
  <2>3. \E e : Adds(jobs, e, jobs') /\ e.type # "genKeyring"
    BY <1>8, <1>11, <2>1
  <2>4. QED
    BY <1>1, <1>2, <1>3, <1>4, <1>5, <1>9, <1>w, <2>1, <2>2, <2>3
<1>12. CASE r.type = "unlockWallet"
  <2>1. /\ UNCHANGED <<store, dispatched, toFrame, words>>
        /\ \/ Pages!Answered(r, FALSE) /\ UNCHANGED jobs
           \/ Pages!Began(r.type, store.persistent.keyring, r.then) /\ UNCHANGED pageAnswers
    BY <1>7, <1>12 DEF Pages!BeginUnlock
  <2>2. Pages!Answered(r, FALSE) => \E e : Adds(pageAnswers, e, pageAnswers') /\ e.type # "genKeyring"
    <3> DEFINE e == [type |-> r.type, with |-> r.with, then |-> r.then, ok |-> FALSE]
    <3>1. e.type = r.type /\ (Pages!Answered(r, FALSE) => pageAnswers' = Append(pageAnswers, e))
      BY DEF Pages!Answered
    <3> HIDE DEF e
    <3>2. QED
      BY <1>2, <1>12, <3>1, AppendAdds
  <2>3. \A v, w : Pages!Began(r.type, v, w) => \E e : Adds(jobs, e, jobs') /\ e.type # "genKeyring"
    BY <1>8, <1>12
  <2>4. \/ jobs' = jobs /\ \E e : Adds(pageAnswers, e, pageAnswers') /\ e.type # "genKeyring"
        \/ pageAnswers' = pageAnswers /\ \E e : Adds(jobs, e, jobs') /\ e.type # "genKeyring"
    BY <2>1, <2>2, <2>3
  <2>5. QED
    BY <1>1, <1>2, <1>3, <1>4, <1>5, <1>9, <1>w, <2>1, <2>4
<1>13. CASE r.type = "authenticate"
  <2> DEFINE p == [isFrameDisplayed |-> TRUE, forceRedirect |-> None, isPerformer |-> FALSE]
  <2>1. /\ UNCHANGED <<pageAnswers, words>>
        /\ \/ Pages!Began(r.type, None, r.then) /\ UNCHANGED <<store, dispatched, toFrame>>
           \/ Pages!Update(Pages!ToggleFrame(store, p)) /\ UNCHANGED jobs
    BY <1>7, <1>13 DEF Pages!BeginAuthenticate
  <2>2. p.forceRedirect \in Redirects
    BY DEF Redirects
  <2> HIDE DEF p
  <2>3. Pages!Update(Pages!ToggleFrame(store, p)) => StoreTypes(store') /\ Tells /\ dispatched' = dispatched
    BY <1>2, <1>6, <2>2, ReducersKeepTypes
  <2>4. \A v, w : Pages!Began(r.type, v, w) => \E e : Adds(jobs, e, jobs') /\ e.type # "genKeyring"
    BY <1>8, <1>13
  <2>5. QED
    BY <1>1, <1>2, <1>3, <1>4, <1>5, <1>9, <1>w, <2>1, <2>3, <2>4
<1>14. ASSUME NEW s, StoreTypes(s), Pages!Does(r, s)
       PROVE  TellTypes' /\ WordTypes' /\ dispatched' = dispatched
  <2>1. /\ store' = s /\ Tells /\ dispatched' = dispatched /\ UNCHANGED <<jobs, pageAnswers, words>>
    BY <1>6, <1>14 DEF Pages!Does
  <2>2. QED
    BY <1>2, <1>9, <1>w, <1>14, <2>1
<1>15. CASE r.type \in {"lockWallet", "didStoreMnemonic"}
  <2>1. StoreTypes(Pages!SetWallet(store, None)) /\ StoreTypes(Pages!SetDidStoreMnemonic(store))
    BY <1>2, ReducersKeepTypes
  <2>2. QED
    BY <1>1, <1>3, <1>4, <1>5, <1>7, <1>14, <1>15, <2>1
<1>16. CASE r.type = "toggleFrame"
  <2>1. StoreTypes(Pages!ToggleFrame(store, r.with))
    BY <1>2, <1>3, <1>16, ReducersKeepTypes DEF ToggleOK
  <2>2. QED
    BY <1>1, <1>3, <1>4, <1>5, <1>7, <1>14, <1>16, <2>1
<1>17. CASE r.type = "generateRestorationCandidates"
  <2>1. UNCHANGED <<store, dispatched, toFrame, pageAnswers, words>>
        /\ \E e : Adds(jobs, e, jobs') /\ e.type # "genKeyring"
    BY <1>7, <1>8, <1>17
  <2>2. QED
    BY <1>1, <1>2, <1>3, <1>4, <1>5, <1>9, <1>w, <2>1
<1>18. QED
  BY <1>1, <1>10, <1>11, <1>12, <1>13, <1>15, <1>16, <1>17 DEF Requested, Worked

\* What the end of a job does.
LEMMA FinishTypes ==
  ASSUME PagesTypes, WordsInv, mishaps = {}, NEW i \in DOMAIN jobs, Pages!Finish(i)
  PROVE  /\ UNCHANGED <<dispatched, frame, route, form, inbox, known, submits, locks>>
         /\ TellTypes' /\ WordTypes' /\ CountTypes'
<1> DEFINE j == jobs[i]
<1>1. /\ jobs' = Pages!RemoveAt(jobs, i)
      /\ UNCHANGED <<frame, route, form, inbox, words, known, submits, locks>>
      /\ Pages!Answered(j, TRUE) \/ Pages!Answered(j, FALSE)
      /\ UNCHANGED <<store, dispatched, toFrame>> \/ Pages!Update(Pages!Outcome(j))
      /\ mishaps' \in {mishaps, mishaps \cup {"overtaken"}}
  BY DEF Pages!Finish, Pages!formVars, Pages!NoteOvertaking
<1>2. /\ Queue(toFrame) /\ Queue(jobs) /\ Queue(pageAnswers)
      /\ TellTypes /\ StoreTypes(store) /\ CountTypes
      /\ words \in Nat /\ known \subseteq 0 .. words /\ Words \in {None} \cup 0 .. words
      /\ WordsOf(jobs) /\ WordsOf(pageAnswers)
  BY DEF WordsInv, CallShape, PagesTypes, TellTypes, WordTypes
<1>3. Drops(jobs, j, jobs')
  BY <1>1, <1>2, RemoveAtWithout, WithoutDrops
<1>4. \E e : Adds(pageAnswers, e, pageAnswers') /\ e.type = j.type /\ e.with = j.with
  <2>1. ASSUME NEW ok, Pages!Answered(j, ok)
        PROVE  \E e : Adds(pageAnswers, e, pageAnswers') /\ e.type = j.type /\ e.with = j.with
    <3> DEFINE e == [type |-> j.type, with |-> j.with, then |-> j.then, ok |-> ok]
    <3>1. e.type = j.type /\ e.with = j.with /\ pageAnswers' = Append(pageAnswers, e)
      BY <2>1 DEF Pages!Answered
    <3> HIDE DEF e
    <3>2. QED
      BY <1>2, <3>1, AppendAdds
  <2>2. QED
    BY <1>1, <2>1
<1>5. /\ j.type = "genKeyring" => j.with.words \in 0 .. words
      /\ \A x \in Elems(jobs') : x \in Elems(jobs)
  BY <1>2, <1>3 DEF WordsOf, Drops
<1> HIDE DEF j
<1>6. StoreTypes(Pages!Outcome(j))
  BY <1>2, ReducersKeepTypes DEF Pages!Outcome
<1>7. TellTypes' /\ dispatched' = dispatched
  <2>1. CASE UNCHANGED <<store, dispatched, toFrame>>
    BY <1>2, <2>1, NoTelling
  <2>2. CASE Pages!Update(Pages!Outcome(j))
    <3>1. store' = Pages!Outcome(j) /\ Tells /\ dispatched' = dispatched
      BY <2>2, UpdateTells DEF Pages!Update, Pages!Broadcast
    <3>2. QED
      BY <1>2, <1>6, <3>1, TellingTypes
  <2>3. QED
    BY <1>1, <2>1, <2>2
<1>8. WordTypes'
  <2>1. words' \in Nat /\ words' >= words /\ words' = words
    BY <1>1, <1>2
  <2>2. \A x \in Elems(jobs') : x.type = "genKeyring" => x.with.words \in 0 .. words'
    BY <1>2, <1>5, <2>1, WordsStay
  <2>3. \A x \in Elems(pageAnswers') : x.type = "genKeyring" => x.with.words \in 0 .. words'
    BY <1>2, <1>4, <1>5, <2>1, WordsStay
  <2>4. QED
    BY <1>1, <1>2, <2>1, <2>2, <2>3 DEF WordTypes, WordsOf, Words
<1>9. CountTypes'
  BY <1>1, <1>2 DEF CountTypes
<1>10. QED
  BY <1>1, <1>7, <1>8, <1>9

\* What the pages do with an answer.
LEMMA TakeTypes ==
  ASSUME PagesTypes, WordsInv, mishaps = {}, NEW i \in DOMAIN pageAnswers, Pages!Take(i)
  PROVE  /\ UNCHANGED <<store, dispatched, toFrame, words, known, submits, locks>>
         /\ ShownTypes' /\ AskTypes' /\ WordTypes' /\ CountTypes'
<1> DEFINE a == pageAnswers[i]
<1>1. /\ pageAnswers' = Pages!RemoveAt(pageAnswers, i)
      /\ UNCHANGED <<store, dispatched, toFrame, jobs, words, known, submits, locks>>
      /\ mishaps' \in {mishaps, mishaps \cup {"overtaken"}}
      /\ a.type = "genKeyring" => Pages!TakeWords(a)
      /\ a.type = "authenticate" => Pages!TakeToken(a)
      /\ a.type = "unlockWallet" => Pages!TakeUnlocked(a)
      /\ a.type = "generateRestorationCandidates" => Pages!TakeCandidates(a)
      /\ a.type = "restoreWallet" => Pages!TakeRestored(a)
  BY DEF Pages!Take, Pages!NoteOvertaking
<1>2. /\ Queue(inbox) /\ Queue(pageAnswers) /\ a.type \in Worked
      /\ ShownTypes /\ AskTypes /\ CountTypes
      /\ words \in Nat /\ known \subseteq 0 .. words /\ Words \in {None} \cup 0 .. words
      /\ WordsOf(jobs) /\ WordsOf(pageAnswers)
  BY DEF WordsInv, CallShape, PagesTypes, WordTypes, Elems
<1>f. FormShape(form) /\ FrameShape(frame) /\ SharedTypes(frame.shared) /\ route \in Routes
  BY <1>2 DEF ShownTypes
<1>3. Drops(pageAnswers, a, pageAnswers')
  BY <1>1, <1>2, RemoveAtWithout, WithoutDrops
<1>4. /\ a.type = "genKeyring" => a.with.words \in 0 .. words
      /\ \A x \in Elems(pageAnswers') : x \in Elems(pageAnswers)
  BY <1>2, <1>3 DEF WordsOf, Drops
<1> HIDE DEF a
<1>5. CountTypes'
  BY <1>1, <1>2 DEF CountTypes
<1>6. ASSUME Words' \in {None} \cup 0 .. words PROVE WordTypes'
  BY <1>1, <1>2, <1>4, <1>6 DEF WordTypes, WordsOf
<1>7. CASE a.type = "genKeyring"
  <2> DEFINE f == Pages!DidReceiveMnemonic(frame, a.with.words)
  <2>1. Pages!Show(f, form) /\ inbox' = inbox
    BY <1>1, <1>7 DEF Pages!TakeWords
  <2>2. FrameShape(f) /\ f.shared = frame.shared /\ f.temp.mnemonic = a.with.words
    BY <1>f DEF FrameShape, Pages!DidReceiveMnemonic
  <2> HIDE DEF f
  <2>3. ShownTypes' /\ frame' = f
    BY <1>2, <1>f, <2>1, <2>2, ShowingTypes DEF Pages!Show
  <2>4. Words' \in 0 .. words
    BY <1>4, <1>7, <2>2, <2>3 DEF Words
  <2>5. QED
    BY <1>1, <1>2, <1>5, <1>6, <2>1, <2>3, <2>4 DEF AskTypes
\* The frame's own state is left.
<1>8. ASSUME frame' = frame, route' \in Routes, FormShape(form'),
             inbox' = inbox \/ (\E r : Pages!Posts(<<r>>) /\ ToggleOK(r))
      PROVE  ShownTypes' /\ AskTypes' /\ WordTypes'
  <2>1. ShownTypes'
    BY <1>f, <1>8 DEF ShownTypes
  <2>2. AskTypes'
    BY <1>2, <1>8, AskingTypes DEF AskTypes
  <2>3. WordTypes'
    BY <1>2, <1>6, <1>8 DEF Words
  <2>4. QED
    BY <2>1, <2>2, <2>3
<1>9. CASE a.type = "authenticate"
  <2> DEFINE r == Pages!Request("toggleFrame", [isFrameDisplayed |-> FALSE, forceRedirect |-> None,
                                                isPerformer |-> FALSE], None)
  <2>1. ToggleOK(r)
    BY DEF ToggleOK, Pages!Request, Redirects
  <2>2. \/ Pages!Posts(<<r>>) /\ UNCHANGED <<frame, route, form>>
        \/ form' \in {form, [form EXCEPT !.authenticating = FALSE]} /\ UNCHANGED <<frame, route, inbox>>
        \/ form' \in {form, Pages!NewForm} /\ route' = "/wallet" /\ UNCHANGED <<frame, inbox>>
        \/ UNCHANGED <<frame, route, form, inbox>>
    BY <1>1, <1>9 DEF Pages!TakeToken, Pages!formVars
  <2> HIDE DEF r
  <2>3. FormShape([form EXCEPT !.authenticating = FALSE])
    BY <1>f DEF FormShape
  <2>4. "/wallet" \in Routes
    BY DEF Routes
  <2>5. QED
    BY <1>1, <1>f, <1>5, <1>8, <2>1, <2>2, <2>3, <2>4, NewFormShape
<1>10. CASE a.type = "unlockWallet"
  <2>1. /\ UNCHANGED <<frame, route>>
        /\ \/ Pages!Posts(<<Pages!Request("authenticate", None, "Unlock")>>) /\ UNCHANGED form
           \/ form' \in {form, [form EXCEPT !.loading = FALSE]} /\ UNCHANGED inbox
    BY <1>1, <1>10 DEF Pages!TakeUnlocked
  <2>2. FormShape([form EXCEPT !.loading = FALSE])
    BY <1>f DEF FormShape
  <2>3. QED
    BY <1>1, <1>f, <1>5, <1>8, <2>1, <2>2, OtherRequests
<1>11. CASE a.type = "generateRestorationCandidates"
  <2>1. /\ UNCHANGED <<frame, route, inbox>>
        /\ form' \in {form, [form EXCEPT !.seeds = a.with, !.restoring = "pick"],
                      [form EXCEPT !.seeds = a.with, !.restoring = "password", !.hd = TRUE],
                      [form EXCEPT !.seeds = a.with, !.restoring = "password", !.hd = FALSE]}
    BY <1>1, <1>11 DEF Pages!TakeCandidates
  <2>2. FormShape(form')
    BY <1>f, <2>1 DEF FormShape
  <2>3. QED
    BY <1>1, <1>f, <1>5, <1>8, <2>1, <2>2
<1>12. CASE a.type = "restoreWallet"
  <2>1. /\ UNCHANGED <<frame, route>> /\ form' \in {form, [form EXCEPT !.restoring = "no"]}
        /\ Pages!Posts(<<Pages!Request("authenticate", None, "Restore")>>)
    BY <1>1, <1>12 DEF Pages!TakeRestored
  <2>2. FormShape(form')
    BY <1>f, <2>1 DEF FormShape
  <2>3. QED
    BY <1>1, <1>f, <1>5, <1>8, <2>1, <2>2, OtherRequests
<1>13. QED
  BY <1>2, <1>7, <1>9, <1>10, <1>11, <1>12 DEF Worked

\* The onboarding ends, and a broadcast is heard.
LEMMA ShowTypes ==
  ASSUME PagesTypes, WordsInv, Pages!EndOnboarding \/ Pages!HearWorker
  PROVE  /\ UNCHANGED <<store, dispatched, inbox, jobs, pageAnswers, words, known, mishaps, submits, locks>>
         /\ TellTypes' /\ ShownTypes' /\ Words' \in {Words, None}
<1>1. /\ Queue(toFrame) /\ TellTypes /\ ShownTypes
      /\ FormShape(form) /\ FrameShape(frame) /\ SharedTypes(frame.shared)
  BY DEF WordsInv, CallShape, PagesTypes, ShownTypes
<1>2. CASE Pages!EndOnboarding
  <2> DEFINE f == Pages!DidAcknowledgeDeposit(frame)
  <2>1. /\ Pages!Show(f, form)
        /\ UNCHANGED <<store, dispatched, toFrame, inbox, jobs, pageAnswers, words, known, mishaps, submits, locks>>
    BY <1>2 DEF Pages!EndOnboarding, Pages!callVars
  <2>2. FrameShape(f) /\ f.shared = frame.shared /\ f.temp.mnemonic = None
    BY <1>1 DEF FrameShape, Pages!DidAcknowledgeDeposit
  <2> HIDE DEF f
  <2>3. ShownTypes' /\ frame' = f
    BY <1>1, <2>1, <2>2, ShowingTypes DEF Pages!Show
  <2>4. QED
    BY <1>1, <2>1, <2>2, <2>3, NoTelling DEF Words
<1>3. CASE Pages!HearWorker
  <2> DEFINE f == [frame EXCEPT !.shared = Head(toFrame).state]
  <2>1. /\ toFrame # << >> /\ toFrame' = Tail(toFrame) /\ Pages!Show(f, form)
        /\ UNCHANGED <<store, dispatched, inbox, jobs, pageAnswers, words, known, mishaps, submits, locks>>
    BY <1>3 DEF Pages!HearWorker, Pages!callVars, Pages!userVars
  <2>2. Drops(toFrame, Head(toFrame), toFrame')
    BY <1>1, <2>1, TailDrops
  <2>3. TellTypes' /\ SharedTypes(Head(toFrame).state)
    BY <1>1, <2>1, <2>2 DEF Drops, TellTypes
  <2>4. FrameShape(f) /\ SharedTypes(f.shared) /\ f.temp.mnemonic = Words
    BY <1>1, <2>3 DEF FrameShape, Words
  <2> HIDE DEF f
  <2>5. ShownTypes' /\ frame' = f
    BY <1>1, <2>1, <2>4, ShowingTypes DEF Pages!Show
  <2>6. QED
    BY <2>1, <2>3, <2>4, <2>5 DEF Words
<1>4. QED
  BY <1>2, <1>3

LEMMA PagesTypesInductive == PagesTypes /\ WordsInv /\ Pages!WalletNext => PagesTypes'
<1> SUFFICES ASSUME PagesTypes, WordsInv, Pages!WalletNext PROVE PagesTypes'
  OBVIOUS
<1>1. /\ mishaps = {} /\ UNCHANGED <<toPage, fetch, fetched, lost, page>>
      /\ \/ Pages!UserActs \/ Pages!EndOnboarding \/ Pages!Handle \/ Pages!HearWorker
         \/ \E i \in DOMAIN jobs : Pages!Finish(i)
         \/ \E i \in DOMAIN pageAnswers : Pages!Take(i)
  BY DEF Pages!WalletNext, Pages!fetchVars
<1>2. FetchTypes /\ TellTypes /\ ShownTypes /\ WordTypes /\ AskTypes /\ CountTypes
  BY DEF PagesTypes
<1>3. dispatched' = dispatched => FetchTypes'
  BY <1>1, <1>2 DEF FetchTypes
<1>4. CASE Pages!UserActs
  <2>1. /\ UNCHANGED <<store, dispatched, toFrame, jobs, pageAnswers, words>>
        /\ ShownTypes' /\ AskTypes' /\ CountTypes'
        /\ known' \subseteq 0 .. words /\ Words' \in {Words, None}
    BY <1>1, <1>4, UserTypes
  <2>2. WordTypes'
    BY <1>2, <2>1 DEF WordTypes, WordsOf
  <2>3. QED
    BY <1>2, <1>3, <2>1, <2>2, NoTelling DEF PagesTypes
<1>5. CASE Pages!EndOnboarding \/ Pages!HearWorker
  <2>1. /\ UNCHANGED <<store, dispatched, inbox, jobs, pageAnswers, words, known, mishaps, submits, locks>>
        /\ TellTypes' /\ ShownTypes' /\ Words' \in {Words, None}
    BY <1>5, ShowTypes
  <2>2. WordTypes' /\ AskTypes' /\ CountTypes'
    BY <1>2, <2>1 DEF WordTypes, WordsOf, AskTypes, CountTypes
  <2>3. QED
    BY <1>3, <2>1, <2>2 DEF PagesTypes
<1>6. CASE Pages!Handle
  <2>1. /\ UNCHANGED <<dispatched, frame, route, form>>
        /\ TellTypes' /\ AskTypes' /\ WordTypes' /\ CountTypes'
    BY <1>1, <1>6, HandleTypes
  <2>2. ShownTypes'
    BY <1>2, <2>1 DEF ShownTypes
  <2>3. QED
    BY <1>3, <2>1, <2>2 DEF PagesTypes
<1>7. ASSUME NEW i \in DOMAIN jobs, Pages!Finish(i) PROVE PagesTypes'
  <2>1. /\ UNCHANGED <<dispatched, frame, route, form, inbox>>
        /\ TellTypes' /\ WordTypes' /\ CountTypes'
    BY <1>1, <1>7, FinishTypes
  <2>2. ShownTypes' /\ AskTypes'
    BY <1>2, <2>1 DEF ShownTypes, AskTypes
  <2>3. QED
    BY <1>3, <2>1, <2>2 DEF PagesTypes
<1>8. ASSUME NEW i \in DOMAIN pageAnswers, Pages!Take(i) PROVE PagesTypes'
  <2>1. /\ UNCHANGED <<store, dispatched, toFrame>>
        /\ ShownTypes' /\ AskTypes' /\ WordTypes' /\ CountTypes'
    BY <1>1, <1>8, TakeTypes
  <2>2. QED
    BY <1>2, <1>3, <2>1, NoTelling DEF PagesTypes
<1>9. QED
  BY <1>1, <1>4, <1>5, <1>6, <1>7, <1>8

LEMMA PagesTypesInit == Init => PagesTypes
<1> SUFFICES ASSUME Init PROVE PagesTypes
  OBVIOUS
<1>1. /\ dispatched = 0 /\ toFrame = << >>
      /\ fetch = [x \in Pages!Mirrors |-> "none"] /\ lost = [x \in Pages!Mirrors |-> FALSE]
      /\ page = Pages!InitialPage
      /\ \/ store = Pages!GetInitialState /\ frame = Pages!FrameState(Pages!InitialSharedState)
         \/ store = Pages!Stored /\ frame = Pages!FrameState(Told(Pages!Stored))
      /\ route = Pages!Destination(Pages!Expects(frame)) /\ form = Pages!NewForm
      /\ inbox = << >> /\ jobs = << >> /\ pageAnswers = << >>
      /\ words = 0 /\ known = {0} /\ mishaps = {} /\ submits = 0 /\ locks = 0
  BY DEF Init, Pages!WalletInit, Pages!SyncInit, Told
<1>2. FetchTypes
  BY <1>1 DEF FetchTypes, Pages!InitialPage
<1>3. Elems(<< >>) = {}
  BY QueueEmpty DEF Elems
<1>4. SharedTypes(Told(Pages!Stored)) /\ SharedTypes(Pages!InitialSharedState)
      /\ StoreTypes(Pages!GetInitialState) /\ StoreTypes(Pages!Stored)
  BY InitialTypes, ToldTypes
<1>5. TellTypes
  BY <1>1, <1>3, <1>4 DEF TellTypes
<1>6. /\ FrameShape(frame) /\ SharedTypes(frame.shared) /\ Words = None
  BY <1>1, <1>4 DEF FrameShape, Pages!FrameState, Words
<1>7. ShownTypes
  <2> DEFINE e == Pages!Expects(frame)
  <2>1. e.redirect \in Redirects /\ e.wallet \in BOOLEAN /\ e.unlock \in BOOLEAN
    BY <1>6 DEF Pages!Expects, SharedTypes
  <2>2. route = Pages!Destination(e)
    BY <1>1
  <2> HIDE DEF e
  <2>3. route \in Routes
    BY <2>1, <2>2 DEF Pages!Destination, Routes, Redirects
  <2>4. QED
    BY <1>1, <1>6, <2>3, NewFormShape DEF ShownTypes
<1>8. WordTypes /\ AskTypes
  BY <1>1, <1>3, <1>6 DEF WordTypes, WordsOf, AskTypes
<1>9. CountTypes
  BY <1>1, PageBounds DEF CountTypes
<1>10. QED
  BY <1>2, <1>5, <1>7, <1>8, <1>9 DEF PagesTypes


------------------------------------------------------------------------------
(* The types of the frame *)

\* The history is a list, and not too long.
ActivityInv == Activity!ActivityTypeOK /\ Queue(history)

LEMMA HistoryBound == MaxHistory \in Nat
BY BoundsAssumption

LEMMA ActivityInvInit == Init => ActivityInv
<1> SUFFICES ASSUME Init PROVE ActivityInv
  OBVIOUS
<1>1. history \in Activity!Histories /\ isLoading = FALSE /\ error = "" /\ detailRows = {}
  BY DEF Init, Activity!ActivityInit
<1>2. PICK n \in 0 .. MaxHistory :
        history \in {[i \in 1 .. n |-> Activity!ItemAt(i, kinds[i])] : kinds \in [1 .. n -> Items]}
  BY <1>1 DEF Activity!Histories
<1>2a. PICK kinds \in [1 .. n -> Items] : history = [i \in 1 .. n |-> Activity!ItemAt(i, kinds[i])]
  BY <1>2
<1>3. n \in Nat /\ n <= MaxHistory
  BY HistoryBound
<1>4. history \in [1 .. n -> Elems(history)]
  <2>1. DOMAIN history = 1 .. n /\ history = [i \in 1 .. n |-> history[i]]
    BY <1>2a
  <2>2. QED
    BY <2>1 DEF Elems
<1>5. history \in Seq(Elems(history)) /\ Len(history) = n
  BY <1>3, <1>4
<1>6. QED
  BY <1>1, <1>3, <1>5 DEF ActivityInv, Activity!ActivityTypeOK, Queue

LEMMA ActivityInvInductive == ActivityInv /\ Activity!ActivityNext => ActivityInv'
<1> SUFFICES ASSUME ActivityInv, Activity!ActivityNext PROVE ActivityInv'
  OBVIOUS
<1>t. /\ Queue(history) /\ Len(history) \in Nat /\ Len(history) <= MaxHistory
      /\ isLoading \in BOOLEAN /\ error \in {"", "Couldn't fetch history."}
      /\ detailRows \subseteq 1 .. MaxHistory
  BY QueueDomain DEF ActivityInv, Activity!ActivityTypeOK
<1>1. CASE Activity!FetchHistory
  BY <1>t, <1>1 DEF ActivityInv, Activity!ActivityTypeOK, Activity!FetchHistory
<1>2. CASE Activity!HearHistory
  <2>0. \E item : history' = Append(history, item)
    BY <1>2 DEF Activity!HearHistory
  <2>1. Len(history) < MaxHistory /\ UNCHANGED <<isLoading, error, detailRows>>
    BY <1>2 DEF Activity!HearHistory
  <2>2. Queue(history') /\ Len(history') = Len(history) + 1
    <3>1. PICK item : history' = Append(history, item)
      BY <2>0
    <3>2. PICK S : history \in Seq(S)
      BY <1>t DEF Queue
    <3>3. history \in Seq(S \cup {item}) /\ item \in S \cup {item}
      BY <3>2
    <3>4. history' \in Seq(S \cup {item}) /\ Len(history') = Len(history) + 1
      BY <3>1, <3>3
    <3>5. QED
      BY <3>4 DEF Queue
  <2>3. Len(history') <= MaxHistory
    <3>1. Len(history') = Len(history) + 1 /\ Len(history) < MaxHistory /\ Len(history) \in Nat
      BY <1>t, <2>1, <2>2
    <3>2. QED
      BY <3>1, HistoryBound
  <2>4. Activity!ActivityTypeOK'
    BY <1>t, <2>1, <2>3 DEF Activity!ActivityTypeOK
  <2>5. QED
    BY <2>2, <2>4 DEF ActivityInv, Queue
<1>3. CASE Activity!FetchEnds
  BY <1>t, <1>3 DEF ActivityInv, Activity!ActivityTypeOK, Activity!FetchEnds
<1>4. ASSUME NEW i \in 1 .. MaxHistory, Activity!ToggleDetails(i) PROVE ActivityInv'
  BY <1>t, <1>4 DEF ActivityInv, Activity!ActivityTypeOK, Activity!ToggleDetails
<1>5. QED
  BY <1>1, <1>2, <1>3, <1>4 DEF Activity!ActivityNext

LEMMA ActivityKept == ActivityInv /\ [Next]_vars => ActivityInv'
<1> SUFFICES ASSUME ActivityInv, [Next]_vars PROVE ActivityInv'
  OBVIOUS
<1>1. CASE UNCHANGED activityVars
  BY <1>1 DEF activityVars, ActivityInv, Activity!ActivityTypeOK
<1>2. CASE Activity!ActivityNext
  BY <1>2, ActivityInvInductive
<1>3. QED
  BY <1>1, <1>2 DEF Next, vars

\* Types of the calls, by the theorem about them.
LEMMA MsgKept == MsgTypeOK /\ [Next]_vars => MsgTypeOK'
<1> SUFFICES ASSUME MsgTypeOK, [Next]_vars PROVE MsgTypeOK'
  OBVIOUS
<1>1. [MsgNext]_msgVars
  BY DEF Next, vars
<1>2. QED
  BY <1>1, MsgTypeInductive

\* Types of the shared state, and of the pages up to the first mishap.
LEMMA SyncTypesKept ==
  (part = "state" => SyncInv /\ SyncTypes) /\ [Next]_vars => (part = "state" => SyncInv /\ SyncTypes)'
<1> SUFFICES ASSUME part = "state" => SyncInv /\ SyncTypes, [Next]_vars, part' = "state"
             PROVE  SyncInv' /\ SyncTypes'
  OBVIOUS
<1>1. part = "state" /\ SyncInv /\ SyncTypes
  BY DEF Next, vars
<1>2. SyncInv'
  BY <1>1, SyncInvKept
<1>3. CASE Pages!SyncNext
  BY <1>1, <1>2, <1>3, SyncTypesInductive
<1>4. CASE UNCHANGED storeVars
  BY <1>1, <1>2, <1>4 DEF storeVars, SyncTypes
<1>5. QED
  BY <1>1, <1>2, <1>3, <1>4 DEF Next, vars

LEMMA PagesTypesKept ==
  PagesInv /\ (part = "pages" => PagesTypes) /\ [Next]_vars => (part = "pages" => PagesTypes)'
<1> SUFFICES ASSUME PagesInv, part = "pages" => PagesTypes, [Next]_vars, part' = "pages"
             PROVE  PagesTypes'
  OBVIOUS
<1>1. part = "pages" /\ PagesTypes
  BY DEF Next, vars
<1>2. CASE Pages!WalletNext
  <2>1. WordsInv
    BY <1>1, <1>2 DEF PagesInv, Pages!WalletNext
  <2>2. QED
    BY <1>1, <1>2, <2>1, PagesTypesInductive
<1>3. CASE UNCHANGED <<storeVars, pagesVars>>
  BY <1>1, <1>3 DEF storeVars, pagesVars, PagesTypes, FetchTypes, TellTypes, ShownTypes, WordTypes, WordsOf,
     AskTypes, CountTypes, Words
<1>4. QED
  BY <1>1, <1>2, <1>3 DEF Next, vars

\* The inductive invariant of the whole.
TypeInv == /\ part \in {"calls", "start", "state", "pages", "send", "loops", "activity"}
           /\ MsgTypeOK /\ HandInv /\ SendInv /\ PollInv /\ ActivityInv
           /\ part = "state" => SyncInv /\ SyncTypes
           /\ PagesInv /\ (part = "pages" => PagesTypes)

LEMMA TypeInvInit == Init => TypeInv
<1> SUFFICES ASSUME Init PROVE TypeInv
  OBVIOUS
<1>1. MsgTypeOK
  BY MsgInvInit DEF Init, MsgInv
<1>2. HandInv /\ SendInv /\ PollInv /\ ActivityInv
  BY HandInvInit, SendInvInit, PollInvInit, ActivityInvInit
<1>3. part = "state" => SyncInv /\ SyncTypes
  BY SyncInvInit, SyncTypesInit
<1>4. PagesInv /\ PagesTypes
  BY WordsInvInit, PagesTypesInit
<1>5. QED
  BY <1>1, <1>2, <1>3, <1>4 DEF TypeInv, Init

LEMMA TypeInvInductive == TypeInv /\ [Next]_vars => TypeInv'
<1> SUFFICES ASSUME TypeInv, [Next]_vars PROVE TypeInv'
  OBVIOUS
<1>1. part' = part
  BY DEF Next, vars
<1>2. MsgTypeOK' /\ SendInv' /\ PollInv' /\ ActivityInv'
  BY MsgKept, SendInvKept, PollKept, ActivityKept DEF TypeInv
<1>3. HandInv'
  <2>1. CASE UNCHANGED handVars
    BY <2>1 DEF handVars, TypeInv, HandInv, Hand!HandTypeOK, TriesLeft
  <2>2. CASE Hand!HandNext
    BY <2>2, HandInvInductive DEF TypeInv
  <2>3. QED
    BY <2>1, <2>2 DEF Next, vars
<1>4. (part = "state" => SyncInv /\ SyncTypes)'
  BY SyncTypesKept DEF TypeInv
<1>5. PagesInv' /\ (part = "pages" => PagesTypes)'
  BY WordsInvKept, PagesTypesKept DEF TypeInv
<1>6. QED
  BY <1>1, <1>2, <1>3, <1>4, <1>5 DEF TypeInv

\* TypeOK: each part keeps to its types: the tries of an asker within their number
\* (serviceWorkerClient.ts), the fields of the shared state (reducers.ts), the locations of the
\* frame (RootContainer), the balances and the words within theirs; for all calls and
\* dispatches, and all bounds.
THEOREM FrameTyping == Spec => []TypeOK
<1>1. TypeInv => TypeOK
  <2> SUFFICES ASSUME TypeInv PROVE TypeOK
    OBVIOUS
  <2>1. MsgTypeOK /\ Hand!HandTypeOK /\ Send!SendTypeOK /\ Poll!PollTypeOK /\ Activity!ActivityTypeOK
    BY DEF TypeInv, HandInv, SendInv, PollInv, ActivityInv
  <2>2. part = "state" => Pages!SyncTypeOK
    BY DEF TypeInv, SyncInv, SyncShape, SyncTypes, RuntimeOK, SharedOK, Pages!SyncTypeOK
  <2>3. part = "pages" => Pages!SyncTypeOK /\ Pages!WalletTypeOK
    BY DEF TypeInv, PagesTypes, FetchTypes, TellTypes, StoreTypes, ShownTypes, SharedTypes, WordTypes, CountTypes,
       RuntimeOK, SharedOK, FormShape, Routes, Pages!SyncTypeOK, Pages!WalletTypeOK
  <2>4. part \in {"calls", "start", "state", "pages", "send", "loops", "activity"}
    BY DEF TypeInv
  <2>5. QED
    BY <2>1, <2>2, <2>3, <2>4 DEF TypeOK
<1>2. QED
  BY <1>1, TypeInvInit, TypeInvInductive, PTL DEF Spec

------------------------------------------------------------------------------
(* Folds over lists *)

\* Induction over the natural numbers, stated of a set.
LEMMA CountUp ==
  ASSUME NEW B \in SUBSET Nat, 0 \in B, \A n \in B : n + 1 \in B
  PROVE  B = Nat
<1> SUFFICES ASSUME Nat \ B # {} PROVE FALSE
  OBVIOUS
<1> DEFINE R == OpToRel(<, Nat)
<1>1. IsWellFoundedOn(R, Nat)
  BY NatLessThanWellFounded
<1> HIDE DEF R
<1>2. PICK n \in Nat \ B : \A m \in Nat \ B : ~(<<m, n>> \in R)
  BY <1>1, WFMin
<1>3. n # 0 /\ n - 1 \in Nat
  BY <1>2
<1>4. <<n - 1, n>> \in R
  BY <1>2, <1>3 DEF R, OpToRel
<1>5. n - 1 \in B
  BY <1>2, <1>3, <1>4
<1>6. QED
  BY <1>2, <1>3, <1>5

\* What holds of 0, and of each of the next up to n.
LEMMA CountUpTo ==
  ASSUME NEW n \in Nat, NEW B, 0 \in B, \A k \in 1 .. n : k - 1 \in B => k \in B
  PROVE  0 .. n \subseteq B
<1> DEFINE C == {k \in Nat : k <= n => k \in B}
<1>1. \A k \in C : k + 1 \in C
  <2> SUFFICES ASSUME NEW k \in C, k + 1 <= n PROVE k + 1 \in B
    OBVIOUS
  <2>1. k \in B /\ k + 1 \in 1 .. n /\ (k + 1) - 1 = k
    OBVIOUS
  <2>2. QED
    BY <2>1
<1>2. C \in SUBSET Nat /\ 0 \in C
  OBVIOUS
<1>3. C = Nat
  <2> HIDE DEF C
  <2>1. QED
    BY <1>1, <1>2, CountUp
<1>4. QED
  BY <1>3

\* The place that a fold takes last.
Top(T) == CHOOSE x \in T : \A y \in T : x >= y

LEMMA TopOfSegment ==
  ASSUME NEW k \in Nat, k > 0
  PROVE  Top(1 .. k) = k /\ (1 .. k) \ {Top(1 .. k)} = 1 .. (k - 1)
<1>1. Top(1 .. k) = k
  <2>1. k \in 1 .. k /\ \A y \in 1 .. k : k >= y
    OBVIOUS
  <2>2. \A x \in 1 .. k : (\A y \in 1 .. k : x >= y) => x = k
    BY <2>1
  <2>3. QED
    BY <2>1, <2>2 DEF Top
<1>2. QED
  BY <1>1

\* Each set of places of a list has a last one.
LEMMA TopIn ==
  ASSUME NEW n \in Nat, NEW T \in SUBSET (1 .. n), T # {}
  PROVE  Top(T) \in T /\ \A y \in T : Top(T) >= y
<1> DEFINE B == {k \in Nat : \A U \in SUBSET (1 .. k) : U # {} => \E x \in U : \A y \in U : x >= y}
<1>1. 0 \in B
  <2>1. 1 .. 0 = {}
    OBVIOUS
  <2>2. QED
    BY <2>1
<1>2. ASSUME NEW k \in B PROVE k + 1 \in B
  <2>1. SUFFICES ASSUME NEW U \in SUBSET (1 .. k + 1), U # {}
                 PROVE  \E x \in U : \A y \in U : x >= y
    OBVIOUS
  <2>2. CASE k + 1 \in U
    BY <2>2
  <2>3. CASE k + 1 \notin U
    <3>1. U \in SUBSET (1 .. k)
      BY <2>3
    <3>2. QED
      BY <2>1, <3>1
  <2>4. QED
    BY <2>2, <2>3
<1>3. B = Nat
  <2> HIDE DEF B
  <2>1. B \in SUBSET Nat
    BY DEF B
  <2>2. QED
    BY <1>1, <1>2, <2>1, CountUp
<1>4. \E x \in T : \A y \in T : x >= y
  BY <1>3
<1>5. QED
  BY <1>4 DEF Top

\* The recursive function by which a fold is defined exists, where the steps keep to a
\* set of values; step[k][v] is what becomes of v at place k.
Iterates(f, n, V, base, step) ==
  /\ f \in [SUBSET (1 .. n) -> V]
  /\ \A T \in SUBSET (1 .. n) : f[T] = IF T = {} THEN base ELSE step[Top(T)][f[T \ {Top(T)}]]

LEMMA FoldExists ==
  ASSUME NEW n \in Nat, NEW V, NEW base \in V, NEW step \in [1 .. n -> [V -> V]]
  PROVE  \E f : Iterates(f, n, V, base, step)
<1> DEFINE S == SUBSET (1 .. n)
           D(k) == {T \in S : T \subseteq 1 .. k}
           Sol(f, k) == /\ f \in [D(k) -> V]
                        /\ \A T \in D(k) : f[T] = IF T = {} THEN base ELSE step[Top(T)][f[T \ {Top(T)}]]
           B == {k \in Nat : \E f : Sol(f, k)}
<1>1. 0 \in B
  <2> DEFINE f == [T \in D(0) |-> base]
  <2>1. \A T \in D(0) : T = {}
    OBVIOUS
  <2>2. Sol(f, 0)
    BY <2>1
  <2>3. QED
    BY <2>2
<1>2. ASSUME NEW k \in 1 .. n, k - 1 \in B PROVE k \in B
  <2>1. PICK f : Sol(f, k - 1)
    BY <1>2
  <2> DEFINE Step(T) == IF T = {} THEN base ELSE step[Top(T)][f[T \ {Top(T)}]]
             g == [T \in D(k) |-> Step(T)]
  <2>2. ASSUME NEW T \in D(k), T # {}
        PROVE  Top(T) \in 1 .. n /\ T \ {Top(T)} \in D(k - 1) /\ T \ {Top(T)} \in D(k)
    <3>1. PICK t : t = Top(T)
      OBVIOUS
    <3>2. t \in T /\ \A y \in T : t >= y
      BY <2>2, <3>1, TopIn
    <3>3. t \in 1 .. k /\ t \in 1 .. n /\ \A y \in T \ {t} : y \in 1 .. (k - 1)
      BY <2>2, <3>2
    <3>4. QED
      BY <2>2, <3>1, <3>3
  <2>3. \A T \in D(k) : Step(T) \in V
    BY <2>1, <2>2
  <2>4. ASSUME NEW T \in D(k - 1) PROVE g[T] = f[T]
    <3>1. T \in D(k)
      BY <1>2
    <3>2. g[T] = Step(T)
      BY <3>1
    <3>3. f[T] = Step(T)
      BY <2>1
    <3>4. QED
      BY <3>2, <3>3
  <2>5. \A T \in D(k) : g[T] = IF T = {} THEN base ELSE step[Top(T)][g[T \ {Top(T)}]]
    BY <2>2, <2>4
  <2>6. Sol(g, k)
    BY <2>3, <2>5
  <2> HIDE DEF Sol, g
  <2>7. QED
    BY <2>6
<1>3. n \in B
  <2> HIDE DEF B
  <2>1. 0 .. n \subseteq B
    BY <1>1, <1>2, CountUpTo
  <2>2. QED
    BY <2>1
<1>4. D(n) = S
  OBVIOUS
<1>5. QED
  BY <1>3, <1>4 DEF Iterates

------------------------------------------------------------------------------
(* The history as rows *)

Dated  == {Activity!ItemAt(i, kind) : i \in Nat, kind \in Items}
Keys   == {kind.key : kind \in Items}
Filled == Seq(Dated) \ {<< >>}
Entries == [tips : BOOLEAN, items : Filled]
Groups  == [startDate : Nat, endDate : Nat, groupKey : Keys, items : Filled]

LEMMA DatedFields ==
  ASSUME NEW x \in Dated
  PROVE  /\ x.createdAt \in Nat /\ x.key \in Keys
         /\ x.wei \in Nat /\ x.token \in Nat /\ x.incoming \in BOOLEAN
         /\ "items" \notin DOMAIN x
<1>1. PICK i \in Nat, kind \in Items : x = Activity!ItemAt(i, kind)
  BY DEF Dated
<1>2. DOMAIN x = {"type", "key", "incoming", "wei", "token", "createdAt"}
  BY <1>1 DEF Activity!ItemAt
<1>3. x.createdAt = i /\ x.key = kind.key /\ x.wei = kind.wei /\ x.token = kind.token
      /\ x.incoming = kind.incoming
  BY <1>1 DEF Activity!ItemAt
<1>4. kind.wei \in Nat /\ kind.token \in Nat /\ kind.incoming \in BOOLEAN
  BY ItemsAssumption
<1>5. "items" \notin DOMAIN x
  BY <1>2
<1>6. x.key \in Keys
  BY <1>3 DEF Keys
<1>7. QED
  BY <1>3, <1>4, <1>5, <1>6

\* A list with an item more, and a list of one.
LEMMA FilledMore ==
  ASSUME NEW x \in Dated
  PROVE  /\ <<x>> \in Filled
         /\ \A s \in Filled : Append(s, x) \in Filled /\ Len(Append(s, x)) = Len(s) + 1 /\ Len(s) > 0
BY DEF Filled

\* reduceByTipOrPurchase() keeps to lists of entries.
LEMMA ReduceType ==
  ASSUME NEW acc \in Seq(Entries), NEW x \in Dated
  PROVE  Activity!ReduceByTipOrPurchase(acc, x) \in Seq(Entries)
<1>1. Activity!EntryFor(x) \in Entries
  BY FilledMore DEF Activity!EntryFor, Activity!IsTip, Entries
<1>2. Append(acc, Activity!EntryFor(x)) \in Seq(Entries)
  BY <1>1
<1>3. ASSUME acc # << >> PROVE Activity!Push(acc, x) \in Seq(Entries)
  <2>1. Len(acc) \in DOMAIN acc /\ acc[Len(acc)] \in Entries
    BY <1>3
  <2>2. [acc[Len(acc)] EXCEPT !.items = Append(@, x)] \in Entries
    BY <2>1, FilledMore DEF Entries
  <2>3. Activity!Push(acc, x) = [acc EXCEPT ![Len(acc)] = [acc[Len(acc)] EXCEPT !.items = Append(@, x)]]
    BY <2>1 DEF Activity!Push, Entries
  <2>4. QED
    BY <2>1, <2>2, <2>3
<1>4. QED
  BY <1>2, <1>3 DEF Activity!ReduceByTipOrPurchase

\* What the first fold makes of the first k items.
LEMMA EntriesFold ==
  ASSUME NEW h \in Seq(Dated)
  PROVE  \E f : /\ f[0] = << >> /\ \A k \in 0 .. Len(h) : f[k] \in Seq(Entries)
                /\ \A k \in 1 .. Len(h) : f[k] = Activity!ReduceByTipOrPurchase(f[k - 1], h[k])
                /\ Activity!FoldLeft(Activity!ReduceByTipOrPurchase, << >>, h) = f[Len(h)]
<1> DEFINE n == Len(h)
           V == Seq(Entries)
           Solves(f) == f = [T \in SUBSET (1 .. n) |->
                               IF T = {} THEN << >>
                               ELSE Activity!ReduceByTipOrPurchase(f[T \ {Top(T)}], h[Top(T)])]
           step == [k \in 1 .. n |-> [v \in V |-> Activity!ReduceByTipOrPurchase(v, h[k])]]
<1>1. n \in Nat /\ DOMAIN h = 1 .. n
  OBVIOUS
<1>2. \A k \in 1 .. n : \A v \in V : Activity!ReduceByTipOrPurchase(v, h[k]) \in V
  BY <1>1, ReduceType
<1>3. << >> \in V
  OBVIOUS
<1>4. \E f : Solves(f)
  <2>1. n \in Nat /\ step \in [1 .. n -> [V -> V]]
    BY <1>1, <1>2
  <2> HIDE DEF step, V, n
  <2>2. PICK f : Iterates(f, n, V, << >>, step)
    BY <2>1, <1>3, FoldExists
  <2>3. /\ f \in [SUBSET (1 .. n) -> V]
        /\ \A T \in SUBSET (1 .. n) : f[T] = IF T = {} THEN << >> ELSE step[Top(T)][f[T \ {Top(T)}]]
    BY <2>2 DEF Iterates
  <2>4. ASSUME NEW T \in SUBSET (1 .. n), T # {}
        PROVE  step[Top(T)][f[T \ {Top(T)}]] = Activity!ReduceByTipOrPurchase(f[T \ {Top(T)}], h[Top(T)])
    <3>1. PICK t : t = Top(T)
      OBVIOUS
    <3>2. t \in 1 .. n /\ T \ {t} \in SUBSET (1 .. n)
      BY <1>1, <2>4, <3>1, TopIn
    <3>3. QED
      BY <2>3, <3>1, <3>2 DEF step
  <2>5. QED
    BY <2>3, <2>4
<1>5. PICK g : Solves(g) /\ Activity!FoldLeft(Activity!ReduceByTipOrPurchase, << >>, h) = g[1 .. n]
  <2>1. Activity!FoldLeft(Activity!ReduceByTipOrPurchase, << >>, h) = (CHOOSE f : Solves(f))[1 .. n]
    BY <1>1 DEF Activity!FoldLeft, Activity!MapThenFoldSet, Top, Activity!Max
  <2>2. Solves(CHOOSE f : Solves(f))
    BY <1>4
  <2>3. QED
    BY <2>1, <2>2
<1>6. g[1 .. 0] = << >>
  BY <1>5
<1>7. ASSUME NEW k \in 1 .. n PROVE g[1 .. k] = Activity!ReduceByTipOrPurchase(g[1 .. (k - 1)], h[k])
  <2>1. 1 .. k \in SUBSET (1 .. n) /\ 1 .. k # {} /\ k \in Nat /\ k > 0
    BY <1>1
  <2>2. Top(1 .. k) = k /\ (1 .. k) \ {Top(1 .. k)} = 1 .. (k - 1)
    BY <2>1, TopOfSegment
  <2>3. QED
    BY <1>5, <2>1, <2>2
<1> DEFINE f == [k \in 0 .. n |-> g[1 .. k]]
           B == {k \in 0 .. n : f[k] \in V}
<1>8. f[0] = << >> /\ f[n] = g[1 .. n]
  BY <1>1, <1>6
<1>9. \A k \in 1 .. n : f[k] = Activity!ReduceByTipOrPurchase(f[k - 1], h[k])
  BY <1>1, <1>7
<1> HIDE DEF f, V, n
<1>10. \A k \in 0 .. n : f[k] \in V
  <2>1. 0 \in B
    BY <1>1, <1>3, <1>8
  <2>2. \A k \in 1 .. n : k - 1 \in B => k \in B
    BY <1>2, <1>9
  <2>3. 0 .. n \subseteq B
    <3> HIDE DEF B
    <3>1. QED
      BY <1>1, <2>1, <2>2, CountUpTo
  <2>4. QED
    BY <2>3
<1>11. QED
  BY <1>5, <1>8, <1>9, <1>10 DEF V, n

\* reduceByTipStream() keeps to lists of groups.
LEMMA StreamType ==
  ASSUME NEW h \in Seq(Dated), NEW i \in 1 .. Len(h), NEW acc \in Seq(Groups)
  PROVE  Activity!ReduceByTipStream(acc, i, h) \in Seq(Groups)
<1> DEFINE x == h[i]
           n == Len(acc)
<1>1. x \in Dated
  OBVIOUS
<1> HIDE DEF x
<1>2. \A d \in Nat : Activity!NewGroup(x, d) \in Groups
  BY <1>1, DatedFields, FilledMore DEF Activity!NewGroup, Groups
<1>3. Activity!NoDate \in Nat /\ x.createdAt \in Nat
  BY <1>1, DatedFields DEF Activity!NoDate
<1>4. ASSUME acc # << >>
      PROVE  /\ n \in DOMAIN acc /\ acc[n] \in Groups /\ Activity!Last(acc) = acc[n]
             /\ Activity!Last(acc[n].items).createdAt \in Nat
  <2>1. n \in DOMAIN acc /\ acc[n] \in Groups /\ Activity!Last(acc) = acc[n]
    BY <1>4 DEF Activity!Last
  <2>2. acc[n].items \in Filled
    BY <2>1 DEF Groups
  <2>3. Activity!Last(acc[n].items) \in Dated
    BY <2>2 DEF Filled, Activity!Last
  <2>4. QED
    BY <2>1, <2>3, DatedFields
<1>5. CASE acc = << >>
  <2>1. Activity!ReduceByTipStream(acc, i, h) = <<Activity!NewGroup(x, Activity!NoDate)>>
    BY <1>5 DEF Activity!ReduceByTipStream, x
  <2>2. QED
    BY <2>1, <1>2, <1>3
<1>6. CASE acc # << >> /\ Activity!Last(acc).groupKey = x.key
  <2> DEFINE d == IF i = Len(h) THEN x.createdAt ELSE acc[n].endDate
             last == [acc[n] EXCEPT !.items = Append(@, x), !.endDate = d]
  <2>1. last \in Groups
    BY <1>1, <1>3, <1>4, <1>6, FilledMore DEF Groups
  <2>2. Activity!ReduceByTipStream(acc, i, h) = [acc EXCEPT ![n] = last]
    BY <1>4, <1>6 DEF Activity!ReduceByTipStream, Activity!Push, x, Groups
  <2>3. QED
    BY <1>4, <1>6, <2>1, <2>2
<1>7. CASE acc # << >> /\ Activity!Last(acc).groupKey # x.key
  <2> DEFINE last == [acc[n] EXCEPT !.endDate = Activity!Last(acc[n].items).createdAt]
             new == Activity!NewGroup(x, IF i = Len(h) THEN x.createdAt ELSE Activity!NoDate)
  <2>1. last \in Groups /\ new \in Groups
    BY <1>2, <1>3, <1>4, <1>7 DEF Groups
  <2>2. Activity!Close(acc) = [acc EXCEPT ![n] = last]
    BY <1>4, <1>7 DEF Activity!Close
  <2>3. Activity!ReduceByTipStream(acc, i, h) = Append(Activity!Close(acc), new)
    BY <1>7 DEF Activity!ReduceByTipStream, x
  <2> HIDE DEF last, new
  <2>4. Activity!Close(acc) \in Seq(Groups)
    BY <1>4, <1>7, <2>1, <2>2
  <2>5. QED
    BY <2>1, <2>3, <2>4
<1>8. QED
  BY <1>5, <1>6, <1>7

\* FoldLeftDomain() folds over the places of a list.
Places(h) == [i \in DOMAIN h |-> i]

LEMMA PlacesAre == \A h : DOMAIN Places(h) = DOMAIN h /\ \A i \in DOMAIN h : Places(h)[i] = i
BY DEF Places

\* What the second fold makes of the first k tips of a list.
LEMMA GroupsFold ==
  ASSUME NEW h \in Seq(Dated)
  PROVE  \E f : /\ f[0] = << >> /\ \A k \in 0 .. Len(h) : f[k] \in Seq(Groups)
                /\ \A k \in 1 .. Len(h) : f[k] = Activity!ReduceByTipStream(f[k - 1], Places(h)[k], h)
                /\ Activity!GroupTips(h) = f[Len(h)]
<1> DEFINE n == Len(h)
           V == Seq(Groups)
           Solves(f) == f = [T \in SUBSET (1 .. n) |->
                               IF T = {} THEN << >>
                               ELSE Activity!ReduceByTipStream(f[T \ {Top(T)}], Places(h)[Top(T)], h)]
           step == [k \in 1 .. n |-> [v \in V |-> Activity!ReduceByTipStream(v, Places(h)[k], h)]]
<1>1. n \in Nat /\ DOMAIN h = 1 .. n
  OBVIOUS
<1>2. \A k \in 1 .. n : \A v \in V : Activity!ReduceByTipStream(v, Places(h)[k], h) \in V
  BY <1>1, PlacesAre, StreamType
<1>3. << >> \in V
  OBVIOUS
<1>4. \E f : Solves(f)
  <2>1. n \in Nat /\ step \in [1 .. n -> [V -> V]]
    BY <1>1, <1>2
  <2> HIDE DEF step, V, n
  <2>2. PICK f : Iterates(f, n, V, << >>, step)
    BY <2>1, <1>3, FoldExists
  <2>3. /\ f \in [SUBSET (1 .. n) -> V]
        /\ \A T \in SUBSET (1 .. n) : f[T] = IF T = {} THEN << >> ELSE step[Top(T)][f[T \ {Top(T)}]]
    BY <2>2 DEF Iterates
  <2>4. ASSUME NEW T \in SUBSET (1 .. n), T # {}
        PROVE  step[Top(T)][f[T \ {Top(T)}]] = Activity!ReduceByTipStream(f[T \ {Top(T)}], Places(h)[Top(T)], h)
    <3>1. PICK t : t = Top(T)
      OBVIOUS
    <3>2. t \in 1 .. n /\ T \ {t} \in SUBSET (1 .. n)
      BY <1>1, <2>4, <3>1, TopIn
    <3>3. QED
      BY <2>3, <3>1, <3>2 DEF step
  <2>5. QED
    BY <2>3, <2>4
<1>5. PICK g : Solves(g) /\ Activity!GroupTips(h) = g[1 .. n]
  <2> DEFINE Stream(acc, i) == Activity!ReduceByTipStream(acc, i, h)
  <2>a. Activity!GroupTips(h) = Activity!FoldLeft(Stream, << >>, Places(h))
    BY DEF Activity!GroupTips, Activity!FoldLeftDomain, Activity!FoldLeft, Activity!MapThenFoldSet, Top, Activity!Max, Places
  <2>p. DOMAIN Places(h) = 1 .. n
    BY <1>1, PlacesAre
  <2>b. Activity!FoldLeft(Stream, << >>, Places(h)) = (CHOOSE f : Solves(f))[1 .. n]
    BY <2>p DEF Activity!FoldLeft, Activity!MapThenFoldSet, Top, Activity!Max
  <2>1. Activity!GroupTips(h) = (CHOOSE f : Solves(f))[1 .. n]
    BY <2>a, <2>b
  <2>2. Solves(CHOOSE f : Solves(f))
    BY <1>4
  <2>3. QED
    BY <2>1, <2>2
<1>6. g[1 .. 0] = << >>
  BY <1>5
<1>7. ASSUME NEW k \in 1 .. n PROVE g[1 .. k] = Activity!ReduceByTipStream(g[1 .. (k - 1)], Places(h)[k], h)
  <2>1. 1 .. k \in SUBSET (1 .. n) /\ 1 .. k # {} /\ k \in Nat /\ k > 0
    BY <1>1
  <2>2. Top(1 .. k) = k /\ (1 .. k) \ {Top(1 .. k)} = 1 .. (k - 1)
    BY <2>1, TopOfSegment
  <2>3. QED
    BY <1>5, <2>1, <2>2
<1> DEFINE f == [k \in 0 .. n |-> g[1 .. k]]
           B == {k \in 0 .. n : f[k] \in V}
<1>8. f[0] = << >> /\ f[n] = g[1 .. n]
  BY <1>1, <1>6
<1>9. \A k \in 1 .. n : f[k] = Activity!ReduceByTipStream(f[k - 1], Places(h)[k], h)
  BY <1>1, <1>7
<1> HIDE DEF f, V, n
<1>10. \A k \in 0 .. n : f[k] \in V
  <2>1. 0 \in B
    BY <1>1, <1>3, <1>8
  <2>2. \A k \in 1 .. n : k - 1 \in B => k \in B
    BY <1>2, <1>9
  <2>3. 0 .. n \subseteq B
    <3> HIDE DEF B
    <3>1. QED
      BY <1>1, <2>1, <2>2, CountUpTo
  <2>4. QED
    BY <2>3
<1>11. QED
  BY <1>5, <1>8, <1>9, <1>10 DEF V, n

\* The rows of an entry, after those that there are.
AddRows(acc, entry) == acc \o (IF entry.tips THEN Activity!GroupTips(entry.items) ELSE entry.items)

\* So render() keeps to lists of items and groups.
LEMMA AddRowsType ==
  ASSUME NEW acc \in Seq(Dated \cup Groups), NEW entry \in Entries
  PROVE  AddRows(acc, entry) \in Seq(Dated \cup Groups)
<1>1. entry.items \in Seq(Dated)
  BY DEF Entries, Filled
<1>2. Activity!GroupTips(entry.items) \in Seq(Groups)
  <2>1. Len(entry.items) \in 0 .. Len(entry.items)
    BY <1>1
  <2>2. QED
    BY <1>1, <2>1, GroupsFold
<1>3. entry.items \in Seq(Dated \cup Groups) /\ Activity!GroupTips(entry.items) \in Seq(Dated \cup Groups)
  BY <1>1, <1>2
<1>4. QED
  BY <1>3 DEF AddRows

\* The rows of the first k entries.
LEMMA RowsFold ==
  ASSUME NEW h \in Seq(Entries)
  PROVE  \E f : /\ f[0] = << >> /\ \A k \in 0 .. Len(h) : f[k] \in Seq(Dated \cup Groups)
                /\ \A k \in 1 .. Len(h) : f[k] = AddRows(f[k - 1], h[k])
                /\ Activity!FoldLeft(AddRows, << >>, h) = f[Len(h)]
<1> DEFINE n == Len(h)
           V == Seq(Dated \cup Groups)
           Solves(f) == f = [T \in SUBSET (1 .. n) |->
                               IF T = {} THEN << >>
                               ELSE AddRows(f[T \ {Top(T)}], h[Top(T)])]
           step == [k \in 1 .. n |-> [v \in V |-> AddRows(v, h[k])]]
<1>1. n \in Nat /\ DOMAIN h = 1 .. n
  OBVIOUS
<1>2. \A k \in 1 .. n : \A v \in V : AddRows(v, h[k]) \in V
  BY <1>1, AddRowsType
<1>3. << >> \in V
  OBVIOUS
<1>4. \E f : Solves(f)
  <2>1. n \in Nat /\ step \in [1 .. n -> [V -> V]]
    BY <1>1, <1>2
  <2> HIDE DEF step, V, n
  <2>2. PICK f : Iterates(f, n, V, << >>, step)
    BY <2>1, <1>3, FoldExists
  <2>3. /\ f \in [SUBSET (1 .. n) -> V]
        /\ \A T \in SUBSET (1 .. n) : f[T] = IF T = {} THEN << >> ELSE step[Top(T)][f[T \ {Top(T)}]]
    BY <2>2 DEF Iterates
  <2>4. ASSUME NEW T \in SUBSET (1 .. n), T # {}
        PROVE  step[Top(T)][f[T \ {Top(T)}]] = AddRows(f[T \ {Top(T)}], h[Top(T)])
    <3>1. PICK t : t = Top(T)
      OBVIOUS
    <3>2. t \in 1 .. n /\ T \ {t} \in SUBSET (1 .. n)
      BY <1>1, <2>4, <3>1, TopIn
    <3>3. QED
      BY <2>3, <3>1, <3>2 DEF step
  <2>5. QED
    BY <2>3, <2>4
<1>5. PICK g : Solves(g) /\ Activity!FoldLeft(AddRows, << >>, h) = g[1 .. n]
  <2>1. Activity!FoldLeft(AddRows, << >>, h) = (CHOOSE f : Solves(f))[1 .. n]
    BY <1>1 DEF Activity!FoldLeft, Activity!MapThenFoldSet, Top, Activity!Max
  <2>2. Solves(CHOOSE f : Solves(f))
    BY <1>4
  <2>3. QED
    BY <2>1, <2>2
<1>6. g[1 .. 0] = << >>
  BY <1>5
<1>7. ASSUME NEW k \in 1 .. n PROVE g[1 .. k] = AddRows(g[1 .. (k - 1)], h[k])
  <2>1. 1 .. k \in SUBSET (1 .. n) /\ 1 .. k # {} /\ k \in Nat /\ k > 0
    BY <1>1
  <2>2. Top(1 .. k) = k /\ (1 .. k) \ {Top(1 .. k)} = 1 .. (k - 1)
    BY <2>1, TopOfSegment
  <2>3. QED
    BY <1>5, <2>1, <2>2
<1> DEFINE f == [k \in 0 .. n |-> g[1 .. k]]
           B == {k \in 0 .. n : f[k] \in V}
<1>8. f[0] = << >> /\ f[n] = g[1 .. n]
  BY <1>1, <1>6
<1>9. \A k \in 1 .. n : f[k] = AddRows(f[k - 1], h[k])
  BY <1>1, <1>7
<1> HIDE DEF f, V, n
<1>10. \A k \in 0 .. n : f[k] \in V
  <2>1. 0 \in B
    BY <1>1, <1>3, <1>8
  <2>2. \A k \in 1 .. n : k - 1 \in B => k \in B
    BY <1>2, <1>9
  <2>3. 0 .. n \subseteq B
    <3> HIDE DEF B
    <3>1. QED
      BY <1>1, <2>1, <2>2, CountUpTo
  <2>4. QED
    BY <2>3
<1>11. QED
  BY <1>5, <1>8, <1>9, <1>10 DEF V, n

\* The steps of renderGroup(), and of the sum it is compared with.
AddToTotal(sum, item) ==
  LET sign == IF Activity!IsTip(item) /\ item.incoming THEN 1 ELSE -1
  IN  IF item.wei > 0 THEN [sum EXCEPT !.wei = @ + sign * item.wei]
                      ELSE [sum EXCEPT !.token = @ + sign * item.token]
AddEther(sum, item) == sum + (IF item.incoming THEN item.wei ELSE -item.wei)

LEMMA AddToTotalType ==
  ASSUME NEW sum \in [wei : Int, token : Int], NEW item \in Dated
  PROVE  AddToTotal(sum, item) \in [wei : Int, token : Int]
BY DatedFields DEF AddToTotal

LEMMA AddEtherType ==
  ASSUME NEW sum \in Int, NEW item \in Dated
  PROVE  AddEther(sum, item) \in Int
BY DatedFields DEF AddEther

\* The total of the first k items.
LEMMA TotalFold ==
  ASSUME NEW h \in Seq(Dated)
  PROVE  \E f : /\ f[0] = [wei |-> 0, token |-> 0] /\ \A k \in 0 .. Len(h) : f[k] \in [wei : Int, token : Int]
                /\ \A k \in 1 .. Len(h) : f[k] = AddToTotal(f[k - 1], h[k])
                /\ Activity!FoldLeft(AddToTotal, [wei |-> 0, token |-> 0], h) = f[Len(h)]
<1> DEFINE n == Len(h)
           V == [wei : Int, token : Int]
           Solves(f) == f = [T \in SUBSET (1 .. n) |->
                               IF T = {} THEN [wei |-> 0, token |-> 0]
                               ELSE AddToTotal(f[T \ {Top(T)}], h[Top(T)])]
           step == [k \in 1 .. n |-> [v \in V |-> AddToTotal(v, h[k])]]
<1>1. n \in Nat /\ DOMAIN h = 1 .. n
  OBVIOUS
<1>2. \A k \in 1 .. n : \A v \in V : AddToTotal(v, h[k]) \in V
  BY <1>1, AddToTotalType
<1>3. [wei |-> 0, token |-> 0] \in V
  OBVIOUS
<1>4. \E f : Solves(f)
  <2>1. n \in Nat /\ step \in [1 .. n -> [V -> V]]
    BY <1>1, <1>2
  <2> HIDE DEF step, V, n
  <2>2. PICK f : Iterates(f, n, V, [wei |-> 0, token |-> 0], step)
    BY <2>1, <1>3, FoldExists
  <2>3. /\ f \in [SUBSET (1 .. n) -> V]
        /\ \A T \in SUBSET (1 .. n) : f[T] = IF T = {} THEN [wei |-> 0, token |-> 0] ELSE step[Top(T)][f[T \ {Top(T)}]]
    BY <2>2 DEF Iterates
  <2>4. ASSUME NEW T \in SUBSET (1 .. n), T # {}
        PROVE  step[Top(T)][f[T \ {Top(T)}]] = AddToTotal(f[T \ {Top(T)}], h[Top(T)])
    <3>1. PICK t : t = Top(T)
      OBVIOUS
    <3>2. t \in 1 .. n /\ T \ {t} \in SUBSET (1 .. n)
      BY <1>1, <2>4, <3>1, TopIn
    <3>3. QED
      BY <2>3, <3>1, <3>2 DEF step
  <2>5. QED
    BY <2>3, <2>4
<1>5. PICK g : Solves(g) /\ Activity!FoldLeft(AddToTotal, [wei |-> 0, token |-> 0], h) = g[1 .. n]
  <2>1. Activity!FoldLeft(AddToTotal, [wei |-> 0, token |-> 0], h) = (CHOOSE f : Solves(f))[1 .. n]
    BY <1>1 DEF Activity!FoldLeft, Activity!MapThenFoldSet, Top, Activity!Max
  <2>2. Solves(CHOOSE f : Solves(f))
    BY <1>4
  <2>3. QED
    BY <2>1, <2>2
<1>6. g[1 .. 0] = [wei |-> 0, token |-> 0]
  BY <1>5
<1>7. ASSUME NEW k \in 1 .. n PROVE g[1 .. k] = AddToTotal(g[1 .. (k - 1)], h[k])
  <2>1. 1 .. k \in SUBSET (1 .. n) /\ 1 .. k # {} /\ k \in Nat /\ k > 0
    BY <1>1
  <2>2. Top(1 .. k) = k /\ (1 .. k) \ {Top(1 .. k)} = 1 .. (k - 1)
    BY <2>1, TopOfSegment
  <2>3. QED
    BY <1>5, <2>1, <2>2
<1> DEFINE f == [k \in 0 .. n |-> g[1 .. k]]
           B == {k \in 0 .. n : f[k] \in V}
<1>8. f[0] = [wei |-> 0, token |-> 0] /\ f[n] = g[1 .. n]
  BY <1>1, <1>6
<1>9. \A k \in 1 .. n : f[k] = AddToTotal(f[k - 1], h[k])
  BY <1>1, <1>7
<1> HIDE DEF f, V, n
<1>10. \A k \in 0 .. n : f[k] \in V
  <2>1. 0 \in B
    BY <1>1, <1>3, <1>8
  <2>2. \A k \in 1 .. n : k - 1 \in B => k \in B
    BY <1>2, <1>9
  <2>3. 0 .. n \subseteq B
    <3> HIDE DEF B
    <3>1. QED
      BY <1>1, <2>1, <2>2, CountUpTo
  <2>4. QED
    BY <2>3
<1>11. QED
  BY <1>5, <1>8, <1>9, <1>10 DEF V, n

\* The ether of the first k items.
LEMMA EtherFold ==
  ASSUME NEW h \in Seq(Dated)
  PROVE  \E f : /\ f[0] = 0 /\ \A k \in 0 .. Len(h) : f[k] \in Int
                /\ \A k \in 1 .. Len(h) : f[k] = AddEther(f[k - 1], h[k])
                /\ Activity!FoldLeft(AddEther, 0, h) = f[Len(h)]
<1> DEFINE n == Len(h)
           V == Int
           Solves(f) == f = [T \in SUBSET (1 .. n) |->
                               IF T = {} THEN 0
                               ELSE AddEther(f[T \ {Top(T)}], h[Top(T)])]
           step == [k \in 1 .. n |-> [v \in V |-> AddEther(v, h[k])]]
<1>1. n \in Nat /\ DOMAIN h = 1 .. n
  OBVIOUS
<1>2. \A k \in 1 .. n : \A v \in V : AddEther(v, h[k]) \in V
  BY <1>1, AddEtherType
<1>3. 0 \in V
  OBVIOUS
<1>4. \E f : Solves(f)
  <2>1. n \in Nat /\ step \in [1 .. n -> [V -> V]]
    BY <1>1, <1>2
  <2> HIDE DEF step, V, n
  <2>2. PICK f : Iterates(f, n, V, 0, step)
    BY <2>1, <1>3, FoldExists
  <2>3. /\ f \in [SUBSET (1 .. n) -> V]
        /\ \A T \in SUBSET (1 .. n) : f[T] = IF T = {} THEN 0 ELSE step[Top(T)][f[T \ {Top(T)}]]
    BY <2>2 DEF Iterates
  <2>4. ASSUME NEW T \in SUBSET (1 .. n), T # {}
        PROVE  step[Top(T)][f[T \ {Top(T)}]] = AddEther(f[T \ {Top(T)}], h[Top(T)])
    <3>1. PICK t : t = Top(T)
      OBVIOUS
    <3>2. t \in 1 .. n /\ T \ {t} \in SUBSET (1 .. n)
      BY <1>1, <2>4, <3>1, TopIn
    <3>3. QED
      BY <2>3, <3>1, <3>2 DEF step
  <2>5. QED
    BY <2>3, <2>4
<1>5. PICK g : Solves(g) /\ Activity!FoldLeft(AddEther, 0, h) = g[1 .. n]
  <2>1. Activity!FoldLeft(AddEther, 0, h) = (CHOOSE f : Solves(f))[1 .. n]
    BY <1>1 DEF Activity!FoldLeft, Activity!MapThenFoldSet, Top, Activity!Max
  <2>2. Solves(CHOOSE f : Solves(f))
    BY <1>4
  <2>3. QED
    BY <2>1, <2>2
<1>6. g[1 .. 0] = 0
  BY <1>5
<1>7. ASSUME NEW k \in 1 .. n PROVE g[1 .. k] = AddEther(g[1 .. (k - 1)], h[k])
  <2>1. 1 .. k \in SUBSET (1 .. n) /\ 1 .. k # {} /\ k \in Nat /\ k > 0
    BY <1>1
  <2>2. Top(1 .. k) = k /\ (1 .. k) \ {Top(1 .. k)} = 1 .. (k - 1)
    BY <2>1, TopOfSegment
  <2>3. QED
    BY <1>5, <2>1, <2>2
<1> DEFINE f == [k \in 0 .. n |-> g[1 .. k]]
           B == {k \in 0 .. n : f[k] \in V}
<1>8. f[0] = 0 /\ f[n] = g[1 .. n]
  BY <1>1, <1>6
<1>9. \A k \in 1 .. n : f[k] = AddEther(f[k - 1], h[k])
  BY <1>1, <1>7
<1> HIDE DEF f, V, n
<1>10. \A k \in 0 .. n : f[k] \in V
  <2>1. 0 \in B
    BY <1>1, <1>3, <1>8
  <2>2. \A k \in 1 .. n : k - 1 \in B => k \in B
    BY <1>2, <1>9
  <2>3. 0 .. n \subseteq B
    <3> HIDE DEF B
    <3>1. QED
      BY <1>1, <2>1, <2>2, CountUpTo
  <2>4. QED
    BY <2>3
<1>11. QED
  BY <1>5, <1>8, <1>9, <1>10 DEF V, n

\* The ether of the total of a group of tips is that of its items.
LEMMA TotalIsEther ==
  ASSUME NEW row, row.items \in Seq(Dated), \A k \in DOMAIN row.items : Activity!IsTip(row.items[k])
  PROVE  Activity!Total(row).wei = Activity!EtherOf(row.items)
<1> DEFINE h == row.items
           n == Len(h)
<1>1. n \in Nat /\ DOMAIN h = 1 .. n /\ \A k \in 1 .. n : h[k] \in Dated /\ Activity!IsTip(h[k])
  OBVIOUS
<1>2. Activity!Total(row) = Activity!FoldLeft(AddToTotal, [wei |-> 0, token |-> 0], h)
  BY DEF Activity!Total, Activity!FoldLeft, Activity!MapThenFoldSet, Activity!Max, AddToTotal
<1>3. Activity!EtherOf(h) = Activity!FoldLeft(AddEther, 0, h)
  BY DEF Activity!EtherOf, Activity!FoldLeft, Activity!MapThenFoldSet, Activity!Max, AddEther
<1>4. h \in Seq(Dated)
  OBVIOUS
<1> HIDE DEF h
<1>5. PICK f : /\ f[0] = [wei |-> 0, token |-> 0] /\ \A k \in 0 .. Len(h) : f[k] \in [wei : Int, token : Int]
               /\ \A k \in 1 .. Len(h) : f[k] = AddToTotal(f[k - 1], h[k])
               /\ Activity!FoldLeft(AddToTotal, [wei |-> 0, token |-> 0], h) = f[Len(h)]
  BY <1>4, TotalFold
<1>6. PICK e : /\ e[0] = 0 /\ \A k \in 0 .. Len(h) : e[k] \in Int
               /\ \A k \in 1 .. Len(h) : e[k] = AddEther(e[k - 1], h[k])
               /\ Activity!FoldLeft(AddEther, 0, h) = e[Len(h)]
  BY <1>4, EtherFold
<1> DEFINE B == {k \in 0 .. n : f[k].wei = e[k]}
<1>7. 0 \in B
  BY <1>1, <1>5, <1>6
<1>8. ASSUME NEW k \in 1 .. n, k - 1 \in B PROVE k \in B
  <2>1. f[k - 1] \in [wei : Int, token : Int] /\ e[k - 1] \in Int /\ f[k - 1].wei = e[k - 1]
    BY <1>1, <1>5, <1>6, <1>8
  <2>2. h[k] \in Dated /\ Activity!IsTip(h[k]) /\ h[k].wei \in Nat /\ h[k].incoming \in BOOLEAN
    BY <1>1, DatedFields
  <2>3. AddToTotal(f[k - 1], h[k]).wei = AddEther(e[k - 1], h[k])
    BY <2>1, <2>2 DEF AddToTotal, AddEther
  <2>4. QED
    BY <1>1, <1>5, <1>6, <2>3
<1>9. 0 .. n \subseteq B
  <2> HIDE DEF B, n
  <2>1. QED
    BY <1>1, <1>7, <1>8, CountUpTo
<1>10. f[n].wei = e[n]
  BY <1>1, <1>9
<1>11. QED
  BY <1>2, <1>3, <1>5, <1>6, <1>10 DEF h, n

\* A list goes on after another: all of the one was created before all of the other.
Before(lists, x) == \A y \in Activity!AllOf(lists) : y.createdAt < x.createdAt

LEMMA ListsShape ==
  ASSUME NEW A \in Seq(Filled)
  PROVE  /\ Len(A) \in Nat /\ DOMAIN A = 1 .. Len(A)
         /\ \A i \in DOMAIN A : /\ A[i] \in Seq(Dated) /\ Len(A[i]) \in Nat /\ Len(A[i]) > 0
                                /\ DOMAIN A[i] = 1 .. Len(A[i])
                                /\ \A k \in DOMAIN A[i] : A[i][k] \in Dated /\ A[i][k].createdAt \in Nat
<1>1. Len(A) \in Nat /\ DOMAIN A = 1 .. Len(A)
  OBVIOUS
<1>2. ASSUME NEW i \in DOMAIN A
      PROVE  A[i] \in Seq(Dated) /\ Len(A[i]) \in Nat /\ Len(A[i]) > 0 /\ DOMAIN A[i] = 1 .. Len(A[i])
  <2>1. A[i] \in Filled
    OBVIOUS
  <2>2. QED
    BY <2>1 DEF Filled
<1>3. ASSUME NEW i \in DOMAIN A, NEW k \in DOMAIN A[i] PROVE A[i][k] \in Dated /\ A[i][k].createdAt \in Nat
  BY <1>2, DatedFields
<1>4. QED
  BY <1>1, <1>2, <1>3

LEMMA InAll ==
  ASSUME NEW A, NEW x
  PROVE  x \in Activity!AllOf(A) <=> \E i \in DOMAIN A : \E k \in DOMAIN A[i] : x = A[i][k]
BY DEF Activity!AllOf

\* An item more in a list of its own.
LEMMA OwnList ==
  ASSUME NEW A \in Seq(Filled), NEW x \in Dated, Activity!InOrder(A), Before(A, x)
  PROVE  LET B == Append(A, <<x>>)
         IN  B \in Seq(Filled) /\ Activity!InOrder(B) /\ Activity!AllOf(B) = Activity!AllOf(A) \cup {x}
<1> DEFINE B == Append(A, <<x>>)
           n == Len(A)
<1>1. n \in Nat /\ DOMAIN A = 1 .. n /\ DOMAIN B = 1 .. (n + 1) /\ B \in Seq(Filled)
  BY FilledMore
<1>2. \A i \in 1 .. n : B[i] = A[i]
  BY <1>1
<1>3. B[n + 1] = <<x>> /\ DOMAIN <<x>> = {1} /\ <<x>>[1] = x
  BY <1>1
<1> HIDE DEF B, n
<1>4. Activity!AllOf(B) = Activity!AllOf(A) \cup {x}
  <2>1. \A y : y \in Activity!AllOf(B) => y \in Activity!AllOf(A) \cup {x}
    BY <1>1, <1>2, <1>3, InAll
  <2>2. \A y : y \in Activity!AllOf(A) => y \in Activity!AllOf(B)
    <3>1. \A i \in DOMAIN A : i \in DOMAIN B
      BY <1>1
    <3>2. QED
      BY <1>1, <1>2, <3>1, InAll
  <2>3. x \in Activity!AllOf(B)
    <3>1. n + 1 \in DOMAIN B /\ 1 \in DOMAIN B[n + 1] /\ x = B[n + 1][1]
      BY <1>1, <1>3
    <3>2. QED
      BY <3>1, InAll
  <2>4. QED
    BY <2>1, <2>2, <2>3
<1>5. Activity!InOrder(B)
  <2>1. SUFFICES ASSUME NEW i \in DOMAIN B, NEW j \in DOMAIN B, NEW k \in DOMAIN B[i], NEW l \in DOMAIN B[j],
                        i < j \/ (i = j /\ k < l)
                 PROVE  B[i][k].createdAt < B[j][l].createdAt
    BY DEF Activity!InOrder
  <2>2. CASE j \in 1 .. n
    <3>1. i \in 1 .. n
      BY <1>1, <2>1, <2>2
    <3>2. QED
      BY <1>1, <1>2, <2>1, <2>2, <3>1 DEF Activity!InOrder
  <2>3. CASE j = n + 1
    <3>1. l = 1 /\ B[j][l] = x
      BY <1>3, <2>3
    <3>2. i \in 1 .. n
      <4>1. i # j
        <5>1. ASSUME i = j PROVE k = 1
          BY <1>3, <2>1, <2>3, <5>1
        <5>2. i \in Int /\ j \in Int
          BY <1>1
        <5>3. ASSUME i = j PROVE FALSE
          BY <2>1, <3>1, <5>1, <5>2, <5>3
        <5>4. QED
          BY <5>3
      <4>2. QED
        BY <1>1, <2>1, <2>3, <4>1
    <3>3. B[i][k] \in Activity!AllOf(A)
      BY <1>1, <1>2, <3>2, InAll
    <3>4. QED
      BY <3>1, <3>3 DEF Before
  <2>4. QED
    BY <1>1, <2>2, <2>3
<1>6. QED
  BY <1>1, <1>4, <1>5 DEF B

\* An item more in the last list.
LEMMA LastList ==
  ASSUME NEW A \in Seq(Filled), NEW x \in Dated, Activity!InOrder(A), Before(A, x), A # << >>
  PROVE  LET B == [A EXCEPT ![Len(A)] = Append(A[Len(A)], x)]
         IN  B \in Seq(Filled) /\ Activity!InOrder(B) /\ Activity!AllOf(B) = Activity!AllOf(A) \cup {x}
<1> DEFINE n == Len(A)
           s == A[n]
           m == Len(s)
           B == [A EXCEPT ![n] = Append(s, x)]
<1>1. n \in Nat /\ n > 0 /\ DOMAIN A = 1 .. n
  OBVIOUS
<1>2. s \in Seq(Dated) /\ s \in Filled /\ m \in Nat /\ m > 0 /\ DOMAIN s = 1 .. m
  BY <1>1, ListsShape
<1>3. Append(s, x) \in Filled /\ DOMAIN Append(s, x) = 1 .. (m + 1) /\ Append(s, x)[m + 1] = x
      /\ \A k \in 1 .. m : Append(s, x)[k] = s[k]
  <2> HIDE DEF s
  <2>1. Append(s, x) \in Filled
    BY <1>2, FilledMore
  <2>2. DOMAIN Append(s, x) = 1 .. (m + 1) /\ Append(s, x)[m + 1] = x
    BY <1>2
  <2>3. \A k \in 1 .. m : Append(s, x)[k] = s[k]
    BY <1>2
  <2>4. QED
    BY <2>1, <2>2, <2>3
<1> HIDE DEF s, m
<1>4. B \in Seq(Filled) /\ DOMAIN B = 1 .. n
  BY <1>1, <1>3
<1>5. \A i \in 1 .. n : i # n => B[i] = A[i]
  BY <1>1
<1>6. B[n] = Append(s, x) /\ A[n] = s
  BY <1>1 DEF s
<1> HIDE DEF B, n
<1>7. \A i \in 1 .. n : \A k \in DOMAIN A[i] : k \in DOMAIN B[i] /\ B[i][k] = A[i][k]
  BY <1>2, <1>3, <1>5, <1>6
<1>8. \A i \in 1 .. n : \A k \in DOMAIN B[i] :
        (k \in DOMAIN A[i] /\ B[i][k] = A[i][k]) \/ (i = n /\ k = m + 1 /\ B[i][k] = x)
  BY <1>2, <1>3, <1>5, <1>6
<1>9. Activity!AllOf(B) = Activity!AllOf(A) \cup {x}
  <2>1. \A y : y \in Activity!AllOf(B) => y \in Activity!AllOf(A) \cup {x}
    BY <1>1, <1>4, <1>8, InAll
  <2>2. \A y : y \in Activity!AllOf(A) => y \in Activity!AllOf(B)
    BY <1>1, <1>4, <1>7, InAll
  <2>3. x \in Activity!AllOf(B)
    <3>1. n \in DOMAIN B /\ m + 1 \in DOMAIN B[n] /\ x = B[n][m + 1]
      BY <1>1, <1>2, <1>3, <1>4, <1>6
    <3>2. QED
      BY <3>1, InAll
  <2>4. QED
    BY <2>1, <2>2, <2>3
<1>10. Activity!InOrder(B)
  <2>1. SUFFICES ASSUME NEW i \in DOMAIN B, NEW j \in DOMAIN B, NEW k \in DOMAIN B[i], NEW l \in DOMAIN B[j],
                        i < j \/ (i = j /\ k < l)
                 PROVE  B[i][k].createdAt < B[j][l].createdAt
    BY DEF Activity!InOrder
  <2>2. i \in 1 .. n /\ j \in 1 .. n /\ i <= n /\ j <= n
    BY <1>1, <1>4
  <2>3. CASE k \in DOMAIN A[i] /\ B[i][k] = A[i][k]
    <3>1. CASE l \in DOMAIN A[j] /\ B[j][l] = A[j][l]
      BY <1>1, <2>1, <2>2, <2>3, <3>1 DEF Activity!InOrder
    <3>2. CASE B[j][l] = x
      <4>1. A[i][k] \in Activity!AllOf(A)
        BY <1>1, <2>2, <2>3, InAll
      <4>2. QED
        BY <2>3, <3>2, <4>1 DEF Before
    <3>3. QED
      BY <1>8, <2>2, <3>1, <3>2
  <2>4. CASE i = n /\ k = m + 1
    <3>1. i = j /\ k < l
      BY <1>1, <2>1, <2>2, <2>4
    <3>2. l \in 1 .. (m + 1)
      BY <1>3, <1>6, <2>4, <3>1
    <3>3. QED
      BY <1>2, <2>4, <3>1, <3>2
  <2>5. QED
    BY <1>8, <2>2, <2>3, <2>4
<1>11. QED
  BY <1>4, <1>9, <1>10 DEF B, n, s

\* Lists after lists.
LEMMA MoreLists ==
  ASSUME NEW A \in Seq(Filled), NEW C \in Seq(Filled), Activity!InOrder(A), Activity!InOrder(C),
         \A x \in Activity!AllOf(C) : Before(A, x)
  PROVE  LET B == A \o C
         IN  B \in Seq(Filled) /\ Activity!InOrder(B)
             /\ Activity!AllOf(B) = Activity!AllOf(A) \cup Activity!AllOf(C)
<1> DEFINE B == A \o C
           n == Len(A)
           m == Len(C)
<1>1. n \in Nat /\ DOMAIN A = 1 .. n /\ m \in Nat /\ DOMAIN C = 1 .. m
      /\ DOMAIN B = 1 .. (n + m) /\ B \in Seq(Filled)
  OBVIOUS
<1>2. \A i \in 1 .. n : B[i] = A[i]
  BY <1>1
<1>3. \A i \in 1 .. m : n + i \in 1 .. (n + m) /\ B[n + i] = C[i]
  BY <1>1
<1>4. \A i \in 1 .. (n + m) : i \in 1 .. n \/ \E p \in 1 .. m : i = n + p
  <2> HIDE DEF n, m
  <2>1. SUFFICES ASSUME NEW i \in 1 .. (n + m), i \notin 1 .. n PROVE \E p \in 1 .. m : i = n + p
    OBVIOUS
  <2>2. i - n \in 1 .. m /\ i = n + (i - n)
    BY <1>1, <2>1
  <2>3. QED
    BY <2>2
<1> HIDE DEF B, n, m
<1>5. Activity!AllOf(B) = Activity!AllOf(A) \cup Activity!AllOf(C)
  <2>1. ASSUME NEW y \in Activity!AllOf(B) PROVE y \in Activity!AllOf(A) \cup Activity!AllOf(C)
    <3>1. PICK i \in DOMAIN B : \E k \in DOMAIN B[i] : y = B[i][k]
      BY <2>1, InAll
    <3>2. CASE i \in 1 .. n
      BY <1>1, <1>2, <3>1, <3>2, InAll
    <3>3. ASSUME NEW p \in 1 .. m, i = n + p PROVE y \in Activity!AllOf(C)
      <4>1. p \in DOMAIN C /\ B[i] = C[p]
        BY <1>1, <1>3, <3>3
      <4>2. QED
        BY <3>1, <4>1, InAll
    <3>4. QED
      BY <1>1, <1>4, <3>2, <3>3
  <2>2. ASSUME NEW y \in Activity!AllOf(A) PROVE y \in Activity!AllOf(B)
    <3>1. \A i \in 1 .. n : i \in 1 .. (n + m)
      BY <1>1
    <3>2. QED
      BY <1>1, <1>2, <2>2, <3>1, InAll
  <2>3. ASSUME NEW y \in Activity!AllOf(C) PROVE y \in Activity!AllOf(B)
    <3>1. PICK p \in 1 .. m : \E k \in DOMAIN C[p] : y = C[p][k]
      BY <1>1, <2>3, InAll
    <3>2. n + p \in DOMAIN B /\ B[n + p] = C[p]
      BY <1>1, <1>3
    <3>3. QED
      BY <3>1, <3>2, InAll
  <2>4. QED
    BY <2>1, <2>2, <2>3
<1>6. Activity!InOrder(B)
  <2>1. SUFFICES ASSUME NEW i \in DOMAIN B, NEW j \in DOMAIN B, NEW k \in DOMAIN B[i], NEW l \in DOMAIN B[j],
                        i < j \/ (i = j /\ k < l)
                 PROVE  B[i][k].createdAt < B[j][l].createdAt
    BY DEF Activity!InOrder
  <2>2. CASE j \in 1 .. n
    <3>1. i \in 1 .. n
      BY <1>1, <2>1, <2>2
    <3>2. QED
      BY <1>1, <1>2, <2>1, <2>2, <3>1 DEF Activity!InOrder
  <2>3. ASSUME NEW q \in 1 .. m, j = n + q PROVE B[i][k].createdAt < B[j][l].createdAt
    <3>1. B[j][l] = C[q][l] /\ l \in DOMAIN C[q] /\ B[j][l] \in Activity!AllOf(C)
      BY <1>1, <1>3, <2>3, InAll
    <3>2. CASE i \in 1 .. n
      <4>1. B[i][k] \in Activity!AllOf(A)
        BY <1>1, <1>2, <3>2, InAll
      <4>2. QED
        BY <3>1, <4>1 DEF Before
    <3>3. ASSUME NEW p \in 1 .. m, i = n + p PROVE B[i][k].createdAt < B[j][l].createdAt
      <4>1. B[i][k] = C[p][k] /\ k \in DOMAIN C[p]
        BY <1>1, <1>3, <3>3
      <4>2. p < q \/ (p = q /\ k < l)
        BY <1>1, <2>1, <2>3, <3>3
      <4>3. QED
        BY <1>1, <3>1, <4>1, <4>2 DEF Activity!InOrder
    <3>4. QED
      BY <1>1, <1>4, <3>2, <3>3
  <2>4. QED
    BY <1>1, <1>4, <2>2, <2>3
<1>7. QED
  BY <1>1, <1>5, <1>6 DEF B

\* Appending and concatenating, place by place.
LEMMA ListIs ==
  ASSUME NEW X, NEW q \in Seq(X)
  PROVE  q = [i \in DOMAIN q |-> q[i]]
<1>1. PICK n \in Nat : q \in [1 .. n -> X]
  OBVIOUS
<1>2. QED
  BY <1>1

LEMMA ItemAppended ==
  ASSUME NEW X, NEW S \in Seq(X), NEW e \in X
  PROVE  Append(S, e) = [i \in 1 .. (Len(S) + 1) |-> IF i = Len(S) + 1 THEN e ELSE S[i]]
<1>1. Append(S, e) \in Seq(X) /\ Len(S) \in Nat /\ DOMAIN Append(S, e) = 1 .. (Len(S) + 1)
  OBVIOUS
<1>2. Append(S, e) = [i \in 1 .. (Len(S) + 1) |-> Append(S, e)[i]]
  <2>1. PICK q : q = Append(S, e)
    OBVIOUS
  <2>2. q \in Seq(X) /\ DOMAIN q = 1 .. (Len(S) + 1)
    BY <1>1, <2>1
  <2>3. q = [i \in 1 .. (Len(S) + 1) |-> q[i]]
    BY <2>2, ListIs
  <2>4. QED
    BY <2>1, <2>3
<1>3. \A i \in 1 .. (Len(S) + 1) : Append(S, e)[i] = IF i = Len(S) + 1 THEN e ELSE S[i]
  BY <1>1
<1>4. QED
  BY <1>2, <1>3

LEMMA ConcatIs ==
  ASSUME NEW X, NEW S \in Seq(X), NEW R \in Seq(X)
  PROVE  S \o R = [i \in 1 .. (Len(S) + Len(R)) |-> IF i <= Len(S) THEN S[i] ELSE R[i - Len(S)]]
<1>1. /\ S \o R \in Seq(X) /\ Len(S) \in Nat /\ Len(R) \in Nat
      /\ DOMAIN (S \o R) = 1 .. (Len(S) + Len(R))
  OBVIOUS
<1>2. S \o R = [i \in 1 .. (Len(S) + Len(R)) |-> (S \o R)[i]]
  <2>1. PICK q : q = S \o R
    OBVIOUS
  <2>2. q \in Seq(X) /\ DOMAIN q = 1 .. (Len(S) + Len(R))
    BY <1>1, <2>1
  <2>3. q = [i \in 1 .. (Len(S) + Len(R)) |-> q[i]]
    BY <2>2, ListIs
  <2>4. QED
    BY <2>1, <2>3
<1>3. \A i \in 1 .. (Len(S) + Len(R)) : (S \o R)[i] = IF i <= Len(S) THEN S[i] ELSE R[i - Len(S)]
  BY <1>1
<1>4. QED
  BY <1>2, <1>3

\* The lists of items of rows and more rows.
LEMMA ListsAppend ==
  ASSUME NEW X, NEW S \in Seq(X), NEW e \in X
  PROVE  Activity!ItemLists(Append(S, e)) = Append(Activity!ItemLists(S), Activity!ItemsOf(e))
<1>1. Len(S) \in Nat /\ DOMAIN S = 1 .. Len(S) /\ DOMAIN Append(S, e) = 1 .. (Len(S) + 1)
  OBVIOUS
<1>2. Activity!ItemLists(S) = [i \in 1 .. Len(S) |-> Activity!ItemsOf(S[i])]
  BY <1>1 DEF Activity!ItemLists
<1> DEFINE Y == {Activity!ItemsOf(x) : x \in X}
<1>3. Activity!ItemLists(S) \in Seq(Y) /\ Len(Activity!ItemLists(S)) = Len(S) /\ Activity!ItemsOf(e) \in Y
  <2>1. \A i \in 1 .. Len(S) : Activity!ItemsOf(S[i]) \in Y
    BY <1>1
  <2>2. Activity!ItemsOf(e) \in Y
    OBVIOUS
  <2> HIDE DEF Y
  <2>3. QED
    BY <1>1, <1>2, <2>1, <2>2
<1>4. Activity!ItemLists(Append(S, e)) = [i \in 1 .. (Len(S) + 1) |-> Activity!ItemsOf(Append(S, e)[i])]
  BY <1>1 DEF Activity!ItemLists
<1>5. \A i \in 1 .. (Len(S) + 1) : Append(S, e)[i] = IF i = Len(S) + 1 THEN e ELSE S[i]
  BY <1>1
<1>6. Append(Activity!ItemLists(S), Activity!ItemsOf(e))
      = [i \in 1 .. (Len(S) + 1) |-> IF i = Len(S) + 1 THEN Activity!ItemsOf(e) ELSE Activity!ItemLists(S)[i]]
  BY <1>3, ItemAppended
<1>7. \A i \in 1 .. (Len(S) + 1) : Activity!ItemsOf(Append(S, e)[i])
                                  = IF i = Len(S) + 1 THEN Activity!ItemsOf(e) ELSE Activity!ItemLists(S)[i]
  BY <1>1, <1>2, <1>5
<1>8. QED
  BY <1>4, <1>6, <1>7

LEMMA ListsConcat ==
  ASSUME NEW X, NEW S \in Seq(X), NEW R \in Seq(X)
  PROVE  Activity!ItemLists(S \o R) = Activity!ItemLists(S) \o Activity!ItemLists(R)
<1> DEFINE n == Len(S)
           m == Len(R)
           Y == {Activity!ItemsOf(x) : x \in X}
<1>1. n \in Nat /\ DOMAIN S = 1 .. n /\ m \in Nat /\ DOMAIN R = 1 .. m /\ DOMAIN (S \o R) = 1 .. (n + m)
  OBVIOUS
<1>2. Activity!ItemLists(S) = [i \in 1 .. n |-> Activity!ItemsOf(S[i])]
      /\ Activity!ItemLists(R) = [i \in 1 .. m |-> Activity!ItemsOf(R[i])]
  BY <1>1 DEF Activity!ItemLists
<1>3. /\ Activity!ItemLists(S) \in Seq(Y) /\ Len(Activity!ItemLists(S)) = n
      /\ Activity!ItemLists(R) \in Seq(Y) /\ Len(Activity!ItemLists(R)) = m
  <2>1. \A i \in 1 .. n : Activity!ItemsOf(S[i]) \in Y
    BY <1>1
  <2>2. \A i \in 1 .. m : Activity!ItemsOf(R[i]) \in Y
    BY <1>1
  <2> HIDE DEF Y, n, m
  <2>3. QED
    BY <1>1, <1>2, <2>1, <2>2
<1>4. Activity!ItemLists(S \o R) = [i \in 1 .. (n + m) |-> Activity!ItemsOf((S \o R)[i])]
  BY <1>1 DEF Activity!ItemLists
<1>5. \A i \in 1 .. (n + m) : (S \o R)[i] = IF i <= n THEN S[i] ELSE R[i - n]
  BY <1>1
<1>6. Activity!ItemLists(S) \o Activity!ItemLists(R)
      = [i \in 1 .. (n + m) |-> IF i <= n THEN Activity!ItemLists(S)[i] ELSE Activity!ItemLists(R)[i - n]]
  <2> DEFINE A == Activity!ItemLists(S)
             C == Activity!ItemLists(R)
  <2>1. A \in Seq(Y) /\ Len(A) = n /\ C \in Seq(Y) /\ Len(C) = m
    BY <1>3
  <2> HIDE DEF n, m, Y, A, C
  <2>2. A \o C = [i \in 1 .. (Len(A) + Len(C)) |-> IF i <= Len(A) THEN A[i] ELSE C[i - Len(A)]]
    BY <2>1, ConcatIs
  <2>3. A \o C = [i \in 1 .. (n + m) |-> IF i <= n THEN A[i] ELSE C[i - n]]
    BY <2>1, <2>2
  <2>4. QED
    BY <2>3 DEF A, C
<1>7. ASSUME NEW i \in 1 .. (n + m)
      PROVE  Activity!ItemsOf((S \o R)[i])
             = IF i <= n THEN Activity!ItemLists(S)[i] ELSE Activity!ItemLists(R)[i - n]
  <2>1. CASE i <= n
    BY <1>1, <1>2, <1>5, <2>1
  <2>2. CASE ~(i <= n)
    <3>1. i - n \in 1 .. m
      BY <1>1, <2>2
    <3>2. QED
      BY <1>2, <1>5, <2>2, <3>1
  <2>3. QED
    BY <2>1, <2>2
<1>8. QED
  BY <1>4, <1>6, <1>7

\* What stands for a list of items, and what is one.
LEMMA ItemsAre ==
  /\ \A x \in Entries \cup Groups : Activity!IsGroup(x) /\ Activity!ItemsOf(x) = x.items /\ x.items \in Filled
  /\ \A x \in Dated : ~Activity!IsGroup(x) /\ Activity!ItemsOf(x) = <<x>> /\ <<x>> \in Filled
<1>1. ASSUME NEW x \in Entries \cup Groups
      PROVE  Activity!IsGroup(x) /\ Activity!ItemsOf(x) = x.items /\ x.items \in Filled
  <2>1. "items" \in DOMAIN x /\ x.items \in Filled
    BY DEF Entries, Groups
  <2>2. QED
    BY <2>1 DEF Activity!IsGroup, Activity!ItemsOf
<1>2. ASSUME NEW x \in Dated
      PROVE  ~Activity!IsGroup(x) /\ Activity!ItemsOf(x) = <<x>> /\ <<x>> \in Filled
  BY DatedFields, FilledMore DEF Activity!IsGroup, Activity!ItemsOf
<1>3. QED
  BY <1>1, <1>2

Rowish == Entries \cup Groups \cup Dated

LEMMA RowLists ==
  ASSUME NEW S \in Seq(Rowish)
  PROVE  /\ Activity!ItemLists(S) \in Seq(Filled) /\ Len(Activity!ItemLists(S)) = Len(S)
         /\ DOMAIN Activity!ItemLists(S) = DOMAIN S
         /\ \A i \in DOMAIN S : Activity!ItemLists(S)[i] = Activity!ItemsOf(S[i])
         /\ \A i \in DOMAIN S : S[i] \in Rowish /\ Activity!ItemsOf(S[i]) \in Filled
<1>1. Len(S) \in Nat /\ DOMAIN S = 1 .. Len(S)
  OBVIOUS
<1>2. \A i \in DOMAIN S : S[i] \in Rowish /\ Activity!ItemsOf(S[i]) \in Filled
  <2>1. \A x \in Rowish : Activity!ItemsOf(x) \in Filled
    BY ItemsAre DEF Rowish
  <2>2. QED
    BY <2>1
<1>3. Activity!ItemLists(S) = [i \in DOMAIN S |-> Activity!ItemsOf(S[i])]
  BY DEF Activity!ItemLists
<1>4. Activity!ItemLists(S) \in Seq(Filled) /\ Len(Activity!ItemLists(S)) = Len(S)
  BY <1>1, <1>2, <1>3
<1>5. QED
  BY <1>2, <1>3, <1>4

\* The last list of items becomes another one.
LEMMA ListsLast ==
  ASSUME NEW S \in Seq(Rowish), S # << >>, NEW r \in Rowish
  PROVE  Activity!ItemLists([S EXCEPT ![Len(S)] = r])
         = [Activity!ItemLists(S) EXCEPT ![Len(Activity!ItemLists(S))] = Activity!ItemsOf(r)]
<1> DEFINE n == Len(S)
           Z == [S EXCEPT ![n] = r]
<1>1. n \in DOMAIN S /\ Len(Activity!ItemLists(S)) = n /\ DOMAIN Z = DOMAIN S
  BY RowLists
<1>2. Z[n] = r /\ \A i \in DOMAIN S : i # n => Z[i] = S[i]
  BY <1>1
<1> HIDE DEF Z
<1>3. Activity!ItemLists(Z) = [i \in DOMAIN S |-> Activity!ItemsOf(Z[i])]
  BY <1>1 DEF Activity!ItemLists
<1>4. Activity!ItemLists(S) = [i \in DOMAIN S |-> Activity!ItemsOf(S[i])]
  BY DEF Activity!ItemLists
<1>5. [Activity!ItemLists(S) EXCEPT ![n] = Activity!ItemsOf(r)]
      = [i \in DOMAIN S |-> IF i = n THEN Activity!ItemsOf(r) ELSE Activity!ItemsOf(S[i])]
  BY <1>4
<1>6. \A i \in DOMAIN S : Activity!ItemsOf(Z[i]) = IF i = n THEN Activity!ItemsOf(r) ELSE Activity!ItemsOf(S[i])
  BY <1>2
<1>7. QED
  BY <1>1, <1>3, <1>5, <1>6 DEF Z

\* S shows the items of M, and no others, in order.
Arranges(S, M) == /\ Activity!InOrder(Activity!ItemLists(S))
                  /\ Activity!AllOf(Activity!ItemLists(S)) = M

Later(x, M) == \A y \in M : y.createdAt < x.createdAt

LEMMA ArrangeNew ==
  ASSUME NEW S \in Seq(Rowish), NEW M, Arranges(S, M), NEW x \in Dated, Later(x, M),
         NEW r \in Rowish, Activity!ItemsOf(r) = <<x>>
  PROVE  Append(S, r) \in Seq(Rowish) /\ Arranges(Append(S, r), M \cup {x})
<1>1. Activity!ItemLists(Append(S, r)) = Append(Activity!ItemLists(S), <<x>>)
  BY ListsAppend
<1>2. Activity!ItemLists(S) \in Seq(Filled)
  BY RowLists
<1>3. Before(Activity!ItemLists(S), x) /\ Activity!InOrder(Activity!ItemLists(S))
  BY DEF Before, Later, Arranges
<1>4. /\ Activity!InOrder(Append(Activity!ItemLists(S), <<x>>))
      /\ Activity!AllOf(Append(Activity!ItemLists(S), <<x>>)) = Activity!AllOf(Activity!ItemLists(S)) \cup {x}
  BY <1>2, <1>3, OwnList
<1>5. Append(S, r) \in Seq(Rowish)
  OBVIOUS
<1>6. QED
  BY <1>1, <1>4, <1>5 DEF Arranges

LEMMA ArrangeLast ==
  ASSUME NEW S \in Seq(Rowish), S # << >>, NEW M, Arranges(S, M), NEW x \in Dated, Later(x, M),
         NEW r \in Rowish, Activity!ItemsOf(r) = Append(Activity!ItemsOf(S[Len(S)]), x)
  PROVE  Arranges([S EXCEPT ![Len(S)] = r], M \cup {x})
<1> DEFINE A == Activity!ItemLists(S)
<1>1. A \in Seq(Filled) /\ Len(A) = Len(S) /\ Len(S) \in DOMAIN S /\ A[Len(S)] = Activity!ItemsOf(S[Len(S)])
  BY RowLists
<1>2. Activity!ItemLists([S EXCEPT ![Len(S)] = r]) = [A EXCEPT ![Len(A)] = Append(A[Len(A)], x)]
  BY <1>1, ListsLast
<1>3. Before(A, x) /\ Activity!InOrder(A) /\ Activity!AllOf(A) = M
  BY DEF Before, Later, Arranges
<1>4. A # << >>
  BY <1>1
<1> HIDE DEF A
<1>5. /\ Activity!InOrder([A EXCEPT ![Len(A)] = Append(A[Len(A)], x)])
      /\ Activity!AllOf([A EXCEPT ![Len(A)] = Append(A[Len(A)], x)]) = Activity!AllOf(A) \cup {x}
  BY <1>1, <1>3, <1>4, LastList
<1>6. QED
  BY <1>2, <1>3, <1>5 DEF Arranges

LEMMA ArrangeMore ==
  ASSUME NEW S \in Seq(Rowish), NEW R \in Seq(Rowish), NEW M, NEW N, Arranges(S, M), Arranges(R, N),
         \A x \in N : Later(x, M)
  PROVE  Arranges(S \o R, M \cup N)
<1>1. Activity!ItemLists(S) \in Seq(Filled) /\ Activity!ItemLists(R) \in Seq(Filled)
  BY RowLists
<1>2. Activity!ItemLists(S \o R) = Activity!ItemLists(S) \o Activity!ItemLists(R)
  BY ListsConcat
<1>3. /\ Activity!InOrder(Activity!ItemLists(S)) /\ Activity!InOrder(Activity!ItemLists(R))
      /\ Activity!AllOf(Activity!ItemLists(S)) = M /\ Activity!AllOf(Activity!ItemLists(R)) = N
      /\ \A x \in Activity!AllOf(Activity!ItemLists(R)) : Before(Activity!ItemLists(S), x)
  BY DEF Before, Later, Arranges
<1>4. /\ Activity!InOrder(Activity!ItemLists(S) \o Activity!ItemLists(R))
      /\ Activity!AllOf(Activity!ItemLists(S) \o Activity!ItemLists(R)) = M \cup N
  BY <1>1, <1>3, MoreLists
<1>5. QED
  BY <1>2, <1>4 DEF Arranges

\* Nothing in no rows.
LEMMA ArrangeNone == Arranges(<< >>, {})
<1>1. DOMAIN Activity!ItemLists(<< >>) = {}
  BY DEF Activity!ItemLists
<1>2. QED
  BY <1>1 DEF Arranges, Activity!InOrder, Activity!AllOf

\* The first fold: neighbouring tips are in one entry, anything else is in one of its own.
EntriesTrue(E, M) ==
  /\ E \in Seq(Entries) /\ Arranges(E, M)
  /\ \A i \in DOMAIN E : IF E[i].tips THEN \A k \in DOMAIN E[i].items : Activity!IsTip(E[i].items[k])
                                      ELSE Len(E[i].items) = 1 /\ ~Activity!IsTip(E[i].items[1])
  /\ \A i \in DOMAIN E : i > 1 => ~(E[i].tips /\ E[i - 1].tips)

LEMMA ReduceTrue ==
  ASSUME NEW E, NEW M, EntriesTrue(E, M), NEW x \in Dated, Later(x, M)
  PROVE  EntriesTrue(Activity!ReduceByTipOrPurchase(E, x), IF Activity!Moving(x) THEN M \cup {x} ELSE M)
<1> DEFINE n == Len(E)
<1>1. E \in Seq(Entries) /\ E \in Seq(Rowish) /\ n \in Nat /\ DOMAIN E = 1 .. n
  BY DEF EntriesTrue, Rowish
<1>2. x.wei \in Nat /\ x.token \in Nat
  BY DatedFields
<1>3. CASE ~Activity!Moving(x)
  <2>1. (x.wei = 0 /\ x.token = 0) \/ x.type = "FEE"
    BY <1>2, <1>3 DEF Activity!Moving
  <2>2. Activity!ReduceByTipOrPurchase(E, x) = E
    BY <2>1 DEF Activity!ReduceByTipOrPurchase
  <2>3. QED
    BY <1>3, <2>2
<1>4. ASSUME Activity!Moving(x) PROVE ~((x.wei = 0 /\ x.token = 0) \/ x.type = "FEE")
  BY <1>2, <1>4 DEF Activity!Moving
<1>5. CASE Activity!Moving(x) /\ E # << >> /\ Activity!Last(E).tips /\ Activity!IsTip(x)
  <2> DEFINE last == [E[n] EXCEPT !.items = Append(@, x)]
             Z == [E EXCEPT ![n] = last]
  <2>1. n \in DOMAIN E /\ E[n] \in Entries /\ E[n].tips
    BY <1>1, <1>5 DEF Activity!Last
  <2>2. Activity!ReduceByTipOrPurchase(E, x) = Z
    <3>1. Activity!ReduceByTipOrPurchase(E, x) = Activity!Push(E, x)
      BY <1>4, <1>5 DEF Activity!ReduceByTipOrPurchase
    <3>2. Activity!Push(E, x) = Z
      BY <2>1 DEF Activity!Push, Entries
    <3>3. QED
      BY <3>1, <3>2
  <2>3. E[n].items \in Filled /\ Append(E[n].items, x) \in Filled
    BY <2>1, FilledMore DEF Entries
  <2>4. last \in Entries /\ last.items = Append(E[n].items, x) /\ last.tips
    BY <2>1, <2>3 DEF Entries
  <2>5. last \in Rowish /\ Activity!ItemsOf(last) = Append(Activity!ItemsOf(E[n]), x)
    BY <2>1, <2>4, ItemsAre DEF Rowish
  <2> HIDE DEF last
  <2>6. Arranges(Z, M \cup {x})
    BY <1>1, <1>5, <2>5, ArrangeLast DEF EntriesTrue
  <2>7. Z \in Seq(Entries) /\ DOMAIN Z = 1 .. n /\ Z[n] = last /\ \A i \in 1 .. n : i # n => Z[i] = E[i]
    BY <1>1, <2>1, <2>4
  <2> HIDE DEF Z
  <2>8. \A k \in DOMAIN last.items : Activity!IsTip(last.items[k])
    <3>1. PICK s : s = E[n].items
      OBVIOUS
    <3>2. s \in Seq(Dated) /\ \A k \in DOMAIN s : Activity!IsTip(s[k])
      BY <2>1, <2>3, <3>1 DEF EntriesTrue, Filled
    <3>3. \A k \in DOMAIN Append(s, x) : (k \in DOMAIN s /\ Append(s, x)[k] = s[k]) \/ Append(s, x)[k] = x
      BY <3>2
    <3>4. QED
      BY <1>5, <2>4, <3>1, <3>2, <3>3
  <2>9. \A i \in 1 .. n : Z[i].tips <=> E[i].tips
    <3>1. Z[n].tips <=> E[n].tips
      BY <2>1, <2>4, <2>7
    <3>2. QED
      BY <2>7, <3>1
  <2>10. \A i \in DOMAIN Z : i > 1 => ~(Z[i].tips /\ Z[i - 1].tips)
    <3>1. \A i \in 1 .. n : i > 1 => i - 1 \in 1 .. n
      BY <1>1
    <3>2. QED
      BY <1>1, <2>7, <2>9, <3>1 DEF EntriesTrue
  <2>11. \A i \in DOMAIN Z : IF Z[i].tips THEN \A k \in DOMAIN Z[i].items : Activity!IsTip(Z[i].items[k])
                             ELSE Len(Z[i].items) = 1 /\ ~Activity!IsTip(Z[i].items[1])
    <3>1. \A i \in 1 .. n : i # n =>
            IF Z[i].tips THEN \A k \in DOMAIN Z[i].items : Activity!IsTip(Z[i].items[k])
            ELSE Len(Z[i].items) = 1 /\ ~Activity!IsTip(Z[i].items[1])
      BY <1>1, <2>7 DEF EntriesTrue
    <3>2. Z[n].tips /\ \A k \in DOMAIN Z[n].items : Activity!IsTip(Z[n].items[k])
      BY <2>4, <2>7, <2>8
    <3>3. QED
      BY <2>7, <3>1, <3>2
  <2>12. EntriesTrue(Z, M \cup {x})
    BY <2>6, <2>7, <2>10, <2>11 DEF EntriesTrue
  <2>13. QED
    BY <1>5, <2>2, <2>12
<1>6. CASE Activity!Moving(x) /\ ~(E # << >> /\ Activity!Last(E).tips /\ Activity!IsTip(x))
  <2> DEFINE e == Activity!EntryFor(x)
             Z == Append(E, e)
  <2>1. Activity!ReduceByTipOrPurchase(E, x) = Z
    BY <1>4, <1>6 DEF Activity!ReduceByTipOrPurchase
  <2>2. e \in Entries /\ e.tips = Activity!IsTip(x) /\ e.items = <<x>>
    BY FilledMore DEF Activity!EntryFor, Activity!IsTip, Entries
  <2> HIDE DEF e
  <2>3. e \in Rowish /\ Activity!ItemsOf(e) = <<x>>
    BY <2>2, ItemsAre DEF Rowish
  <2>4. Arranges(Z, M \cup {x})
    BY <1>1, <2>3, ArrangeNew DEF EntriesTrue
  <2>5. Z \in Seq(Entries) /\ DOMAIN Z = 1 .. (n + 1) /\ Z[n + 1] = e /\ \A i \in 1 .. n : Z[i] = E[i]
    BY <1>1, <2>2
  <2> HIDE DEF Z
  <2>6. \A i \in DOMAIN Z : i \in 1 .. n \/ i = n + 1
    BY <1>1, <2>5
  <2>7. Len(<<x>>) = 1 /\ <<x>>[1] = x /\ DOMAIN <<x>> = {1}
    OBVIOUS
  <2>8. \A i \in DOMAIN Z : IF Z[i].tips THEN \A k \in DOMAIN Z[i].items : Activity!IsTip(Z[i].items[k])
                            ELSE Len(Z[i].items) = 1 /\ ~Activity!IsTip(Z[i].items[1])
    <3>1. \A i \in 1 .. n : IF Z[i].tips THEN \A k \in DOMAIN Z[i].items : Activity!IsTip(Z[i].items[k])
                            ELSE Len(Z[i].items) = 1 /\ ~Activity!IsTip(Z[i].items[1])
      BY <1>1, <2>5 DEF EntriesTrue
    <3>2. IF Z[n + 1].tips THEN \A k \in DOMAIN Z[n + 1].items : Activity!IsTip(Z[n + 1].items[k])
          ELSE Len(Z[n + 1].items) = 1 /\ ~Activity!IsTip(Z[n + 1].items[1])
      BY <2>2, <2>5, <2>7
    <3>3. QED
      BY <2>6, <3>1, <3>2
  <2>9. ASSUME NEW i \in DOMAIN Z, i > 1 PROVE ~(Z[i].tips /\ Z[i - 1].tips)
    <3>1. i - 1 \in 1 .. n
      BY <1>1, <2>5, <2>9
    <3>2. CASE i \in 1 .. n
      BY <1>1, <2>5, <2>9, <3>1, <3>2 DEF EntriesTrue
    <3>3. CASE i = n + 1
      <4>1. n > 0 /\ E # << >> /\ Activity!Last(E) = E[n] /\ i - 1 = n
        BY <1>1, <3>1, <3>3 DEF Activity!Last
      <4>2. ~(E[n].tips /\ Activity!IsTip(x))
        BY <1>6, <4>1
      <4>3. Z[i].tips = Activity!IsTip(x) /\ Z[i - 1] = E[n]
        BY <1>1, <2>2, <2>5, <3>1, <3>3, <4>1
      <4>4. QED
        BY <4>2, <4>3
    <3>4. QED
      BY <2>6, <3>2, <3>3
  <2>10. EntriesTrue(Z, M \cup {x})
    BY <2>4, <2>5, <2>8, <2>9 DEF EntriesTrue
  <2>11. QED
    BY <1>6, <2>1, <2>10
<1>7. QED
  BY <1>3, <1>5, <1>6

Increasing(h) == \A i, j \in DOMAIN h : i < j => h[i].createdAt < h[j].createdAt

LEMMA EntriesAreTrue ==
  ASSUME NEW h \in Seq(Dated), Increasing(h)
  PROVE  EntriesTrue(Activity!FoldLeft(Activity!ReduceByTipOrPurchase, << >>, h),
                     {h[k] : k \in {m \in DOMAIN h : Activity!Moving(h[m])}})
<1> DEFINE n == Len(h)
           M(k) == {h[j] : j \in {m \in 1 .. k : Activity!Moving(h[m])}}
<1>1. n \in Nat /\ DOMAIN h = 1 .. n
  OBVIOUS
<1>2. PICK f : /\ f[0] = << >>
               /\ \A k \in 1 .. Len(h) : f[k] = Activity!ReduceByTipOrPurchase(f[k - 1], h[k])
               /\ Activity!FoldLeft(Activity!ReduceByTipOrPurchase, << >>, h) = f[Len(h)]
  BY EntriesFold
<1> DEFINE B == {k \in 0 .. n : EntriesTrue(f[k], M(k))}
<1>3. 0 \in B
  <2>1. M(0) = {}
    <3>1. 1 .. 0 = {}
      OBVIOUS
    <3>2. QED
      BY <3>1
  <2>2. EntriesTrue(<< >>, {})
    BY ArrangeNone DEF EntriesTrue
  <2> HIDE DEF M
  <2>3. EntriesTrue(f[0], M(0))
    BY <1>2, <2>1, <2>2
  <2>4. QED
    BY <1>1, <2>3
<1>4. ASSUME NEW k \in 1 .. n, k - 1 \in B PROVE k \in B
  <2>1. h[k] \in Dated /\ f[k] = Activity!ReduceByTipOrPurchase(f[k - 1], h[k]) /\ EntriesTrue(f[k - 1], M(k - 1))
    BY <1>1, <1>2, <1>4
  <2>2. Later(h[k], M(k - 1))
    <3>1. ASSUME NEW j \in 1 .. (k - 1) PROVE h[j].createdAt < h[k].createdAt
      <4>1. j \in DOMAIN h /\ k \in DOMAIN h /\ j < k
        BY <1>1
      <4>2. QED
        BY <4>1 DEF Increasing
    <3>2. QED
      BY <3>1 DEF Later
  <2>3. M(k) = IF Activity!Moving(h[k]) THEN M(k - 1) \cup {h[k]} ELSE M(k - 1)
    <3>1. 1 .. k = (1 .. (k - 1)) \cup {k}
      BY <1>1
    <3>2. {m \in 1 .. k : Activity!Moving(h[m])}
          = {m \in 1 .. (k - 1) : Activity!Moving(h[m])} \cup (IF Activity!Moving(h[k]) THEN {k} ELSE {})
      BY <3>1
    <3>3. QED
      BY <3>2
  <2> HIDE DEF M
  <2>4. EntriesTrue(f[k], M(k))
    BY <2>1, <2>2, <2>3, ReduceTrue
  <2>5. QED
    BY <1>1, <2>4
<1>5. 0 .. n \subseteq B
  <2> HIDE DEF B, n
  <2>1. QED
    BY <1>1, <1>3, <1>4, CountUpTo
<1>6. EntriesTrue(f[n], M(n))
  <2> HIDE DEF M
  <2>1. n \in B
    BY <1>1, <1>5
  <2>2. QED
    BY <2>1
<1>7. QED
  BY <1>1, <1>2, <1>6

\* The second fold, after i tips: neighbouring tips with one key are in one group, which
\* begins with the first of them; each group but the last has its end, and the last one has it
\* when all tips are there, unless there is one tip only.
GroupsTrue(G, h, i) ==
  /\ G \in Seq(Groups) /\ Arranges(G, {h[j] : j \in 1 .. i})
  /\ i > 0 => G # << >>
  /\ \A r \in DOMAIN G : /\ \A k \in DOMAIN G[r].items : G[r].items[k].key = G[r].groupKey
                         /\ r > 1 => G[r - 1].groupKey # G[r].groupKey
                         /\ G[r].startDate = G[r].items[1].createdAt
                         /\ (r < Len(G) \/ (i = Len(h) /\ i > 1))
                              => G[r].endDate = Activity!Last(G[r].items).createdAt
  /\ i = 1 => Len(G) = 1 /\ Len(G[1].items) = 1 /\ G[1].endDate = Activity!NoDate

LEMMA StreamTrue ==
  ASSUME NEW h \in Seq(Dated), Increasing(h), NEW i \in 1 .. Len(h), NEW G, GroupsTrue(G, h, i - 1)
  PROVE  GroupsTrue(Activity!ReduceByTipStream(G, i, h), h, i)
<1> DEFINE x == h[i]
           n == Len(G)
           M == {h[j] : j \in 1 .. (i - 1)}
<1>1. /\ G \in Seq(Groups) /\ G \in Seq(Rowish) /\ n \in Nat /\ DOMAIN G = 1 .. n
      /\ i \in Nat /\ i > 0 /\ i <= Len(h) /\ Len(h) \in Nat
  BY DEF GroupsTrue, Rowish
<1>0. n \in Nat
  BY <1>1
<1>2. x \in Dated /\ x.createdAt \in Nat /\ x.key \in Keys
  BY DatedFields
<1>3. Later(x, M)
  <2>1. ASSUME NEW j \in 1 .. (i - 1) PROVE h[j].createdAt < h[i].createdAt
    <3>1. j \in DOMAIN h /\ i \in DOMAIN h /\ j < i
      BY <1>1
    <3>2. QED
      BY <3>1 DEF Increasing
  <2>2. QED
    BY <2>1 DEF Later
<1>4. {h[j] : j \in 1 .. i} = M \cup {x}
  <2>1. 1 .. i = (1 .. (i - 1)) \cup {i}
    BY <1>1
  <2>2. QED
    BY <2>1
<1>5. Arranges(G, M)
  BY DEF GroupsTrue
<1>6. \A d : /\ Activity!NewGroup(x, d).items = <<x>> /\ Activity!NewGroup(x, d).groupKey = x.key
             /\ Activity!NewGroup(x, d).startDate = x.createdAt /\ Activity!NewGroup(x, d).endDate = d
  BY DEF Activity!NewGroup
<1>7. /\ \A d \in Nat : Activity!NewGroup(x, d) \in Groups
      /\ Activity!NoDate \in Nat
  BY <1>2, FilledMore DEF Activity!NewGroup, Groups, Activity!NoDate
<1>8. <<x>>[1] = x /\ Len(<<x>>) = 1 /\ DOMAIN <<x>> = {1} /\ Activity!Last(<<x>>) = x
  BY DEF Activity!Last
<1>9. \A r \in DOMAIN G : G[r] \in Groups /\ G[r].items \in Filled
  <2>1. \A g \in Groups : g.items \in Filled
    BY ItemsAre
  <2>2. \A r \in DOMAIN G : G[r] \in Groups
    BY <1>1
  <2>3. QED
    BY <2>1, <2>2
<1>10. CASE G = << >>
  <2> DEFINE g == Activity!NewGroup(x, Activity!NoDate)
             Z == <<g>>
  <2>1. Activity!ReduceByTipStream(G, i, h) = Z
    BY <1>10 DEF Activity!ReduceByTipStream
  <2>2. i = 1
    BY <1>1, <1>10 DEF GroupsTrue
  <2>3. g \in Groups /\ g \in Rowish
    BY <1>7 DEF Rowish
  <2>4. g.items = <<x>> /\ g.groupKey = x.key /\ g.startDate = x.createdAt /\ g.endDate = Activity!NoDate
    BY <1>6
  <2> HIDE DEF g
  <2>5. Activity!ItemsOf(g) = <<x>>
    BY <2>3, <2>4, ItemsAre
  <2>6. Arranges(Append(G, g), M \cup {x})
    BY <1>1, <1>2, <1>3, <1>5, <2>3, <2>5, ArrangeNew
  <2>7. Append(G, g) = Z /\ Z \in Seq(Groups) /\ DOMAIN Z = {1} /\ Z[1] = g /\ Len(Z) = 1 /\ Z # << >>
    BY <1>10, <2>3
  <2> HIDE DEF Z
  <2>8. /\ \A k \in DOMAIN g.items : g.items[k].key = g.groupKey
        /\ g.startDate = g.items[1].createdAt
        /\ Len(g.items) = 1
    BY <1>8, <2>4
  <2>9. Arranges(Z, {h[j] : j \in 1 .. i})
    BY <1>4, <2>6, <2>7
  <2>10. GroupsTrue(Z, h, i)
    BY <2>2, <2>4, <2>7, <2>8, <2>9 DEF GroupsTrue
  <2>11. QED
    BY <2>1, <2>10
<1>11. ASSUME G # << >>
       PROVE  /\ n \in DOMAIN G /\ n > 0 /\ Activity!Last(G) = G[n] /\ G[n] \in Groups /\ G[n].items \in Filled
              /\ Activity!Last(G[n].items) \in Dated /\ Activity!Last(G[n].items).createdAt \in Nat
              /\ i > 1
  <2>1. n \in DOMAIN G /\ n > 0 /\ Activity!Last(G) = G[n]
    BY <1>1, <1>11 DEF Activity!Last
  <2>2. G[n] \in Groups /\ G[n].items \in Filled
    BY <1>9, <2>1
  <2>3. Activity!Last(G[n].items) \in Dated
    BY <2>2 DEF Filled, Activity!Last
  <2>4. i > 1
    <3>1. SUFFICES ASSUME i = 1 PROVE FALSE
      BY <1>1
    <3>2. 1 .. (i - 1) = {}
      BY <3>1
    <3>3. Activity!AllOf(Activity!ItemLists(G)) = {}
      BY <1>5, <3>2 DEF Arranges
    <3>4. 1 \in DOMAIN G[n].items
      <4>1. G[n].items # << >> /\ G[n].items \in Seq(Dated)
        BY <2>2 DEF Filled
      <4>2. QED
        BY <4>1
    <3>5. n \in DOMAIN Activity!ItemLists(G) /\ Activity!ItemLists(G)[n] = G[n].items
      BY <1>1, <2>1, <2>2, RowLists, ItemsAre
    <3>6. G[n].items[1] \in Activity!AllOf(Activity!ItemLists(G))
      BY <3>4, <3>5, InAll
    <3>7. QED
      BY <3>3, <3>6
  <2>5. QED
    BY <2>1, <2>2, <2>3, <2>4, DatedFields
<1>12. CASE G # << >> /\ Activity!Last(G).groupKey = x.key
  <2> DEFINE d == IF i = Len(h) THEN x.createdAt ELSE G[n].endDate
             last == [G[n] EXCEPT !.items = Append(@, x), !.endDate = d]
             Z == [G EXCEPT ![n] = last]
  <2>1. Activity!ReduceByTipStream(G, i, h) = Z
    BY <1>11, <1>12 DEF Activity!ReduceByTipStream, Activity!Push, Groups
  <2>2. d \in Nat /\ (i = Len(h) => d = x.createdAt)
    BY <1>2, <1>11, <1>12 DEF Groups
  <2> HIDE DEF d
  <2>3. PICK s : s = G[n].items
    OBVIOUS
  <2>4. s \in Filled /\ Append(s, x) \in Filled /\ s \in Seq(Dated) /\ Len(s) \in Nat /\ Len(s) > 0
    <3>1. s \in Filled /\ s \in Seq(Dated)
      BY <1>11, <1>12, <2>3 DEF Filled
    <3>2. Append(s, x) \in Filled /\ Len(s) > 0
      BY <1>2, <3>1, FilledMore
    <3>3. Len(s) \in Nat
      BY <3>1
    <3>4. QED
      BY <3>1, <3>2, <3>3
  <2>5. last \in Groups /\ last.items = Append(s, x) /\ last.groupKey = G[n].groupKey
        /\ last.startDate = G[n].startDate /\ last.endDate = d
    BY <1>11, <1>12, <2>2, <2>3, <2>4 DEF Groups
  <2>6. last \in Rowish /\ Activity!ItemsOf(last) = Append(Activity!ItemsOf(G[n]), x)
    BY <1>11, <1>12, <2>3, <2>5, ItemsAre DEF Rowish
  <2> HIDE DEF last
  <2>7. Arranges(Z, M \cup {x})
    BY <1>1, <1>2, <1>3, <1>5, <1>12, <2>6, ArrangeLast
  <2>8. Z \in Seq(Groups) /\ DOMAIN Z = 1 .. n /\ Len(Z) = n /\ Z[n] = last /\ (\A r \in 1 .. n : r # n => Z[r] = G[r])
        /\ Z # << >>
    BY <1>1, <1>11, <1>12, <2>5
  <2> HIDE DEF Z
  <2>8a. DOMAIN Z = 1 .. n /\ Len(Z) = n
    BY <2>8
  <2>9. Append(s, x)[1] = s[1] /\ Activity!Last(Append(s, x)) = x
        /\ \A k \in DOMAIN Append(s, x) : (k \in DOMAIN s /\ Append(s, x)[k] = s[k]) \/ Append(s, x)[k] = x
    BY <2>4 DEF Activity!Last
  <2>10. \A k \in DOMAIN s : s[k].key = G[n].groupKey
    BY <1>1, <1>11, <1>12, <2>3 DEF GroupsTrue
  <2>11. \A k \in DOMAIN last.items : last.items[k].key = last.groupKey
    BY <1>11, <1>12, <2>5, <2>9, <2>10
  <2>12. last.startDate = last.items[1].createdAt
    BY <1>1, <1>11, <1>12, <2>3, <2>5, <2>9 DEF GroupsTrue
  <2>13. i = Len(h) => last.endDate = Activity!Last(last.items).createdAt
    BY <2>2, <2>5, <2>9
  <2>14. \A r \in 1 .. n : Z[r].groupKey = G[r].groupKey
    BY <2>5, <2>8
  <2>15. ASSUME NEW r \in DOMAIN Z
         PROVE  /\ \A k \in DOMAIN Z[r].items : Z[r].items[k].key = Z[r].groupKey
                /\ r > 1 => Z[r - 1].groupKey # Z[r].groupKey
                /\ Z[r].startDate = Z[r].items[1].createdAt
                /\ (r < Len(Z) \/ (i = Len(h) /\ i > 1))
                     => Z[r].endDate = Activity!Last(Z[r].items).createdAt
    <3>1. r > 1 => Z[r - 1].groupKey # Z[r].groupKey
      <4>1. SUFFICES ASSUME r > 1 PROVE Z[r - 1].groupKey # Z[r].groupKey
        OBVIOUS
      <4>2. r - 1 \in 1 .. n /\ r \in 1 .. n
        <5>1. r \in 1 .. n
          BY <2>8a
        <5>2. QED
          BY <1>0, <4>1, <5>1
      <4>3. G[r - 1].groupKey # G[r].groupKey
        BY <1>1, <4>1, <4>2 DEF GroupsTrue
      <4>4. QED
        BY <2>14, <4>2, <4>3
    <3>2. CASE r = n
      <4>1. r = Len(Z) /\ ~(r < Len(Z))
        BY <1>0, <2>8a, <3>2
      <4>2. QED
        BY <2>8, <2>11, <2>12, <2>13, <3>1, <3>2, <4>1
    <3>3. CASE r # n
      <4>1. Z[r] = G[r] /\ r \in DOMAIN G /\ r < n
        <5>1. r \in 1 .. n
          BY <2>8a
        <5>2. r < n
          BY <1>0, <3>3, <5>1
        <5>3. Z[r] = G[r]
          BY <2>8, <3>3, <5>1
        <5>4. QED
          BY <1>1, <5>1, <5>2, <5>3
      <4>2. /\ \A k \in DOMAIN G[r].items : G[r].items[k].key = G[r].groupKey
            /\ G[r].startDate = G[r].items[1].createdAt
            /\ G[r].endDate = Activity!Last(G[r].items).createdAt
        BY <4>1 DEF GroupsTrue
      <4>3. QED
        BY <3>1, <4>1, <4>2
    <3>4. QED
      BY <3>2, <3>3
  <2>16. i # 1
    BY <1>11, <1>12
  <2>17. GroupsTrue(Z, h, i)
    BY <1>4, <2>7, <2>8, <2>15, <2>16 DEF GroupsTrue
  <2>18. QED
    BY <2>1, <2>17
<1>13. CASE G # << >> /\ Activity!Last(G).groupKey # x.key
  <2> DEFINE last == [G[n] EXCEPT !.endDate = Activity!Last(G[n].items).createdAt]
             d == IF i = Len(h) THEN x.createdAt ELSE Activity!NoDate
             new == Activity!NewGroup(x, d)
             C == [G EXCEPT ![n] = last]
             Z == Append(C, new)
  <2>1. Activity!Close(G) = C
    BY <1>11, <1>13 DEF Activity!Close
  <2>2. Activity!ReduceByTipStream(G, i, h) = Z
    <3>1. Activity!ReduceByTipStream(G, i, h) = Append(Activity!Close(G), new)
      BY <1>13 DEF Activity!ReduceByTipStream
    <3>2. QED
      BY <2>1, <3>1
  <2>3. d \in Nat /\ (i = Len(h) => d = x.createdAt)
    BY <1>2, <1>7
  <2> HIDE DEF d
  <2>4. new \in Groups /\ new.items = <<x>> /\ new.groupKey = x.key /\ new.startDate = x.createdAt /\ new.endDate = d
    BY <1>6, <1>7, <2>3
  <2> HIDE DEF new
  <2>5. new \in Rowish /\ Activity!ItemsOf(new) = <<x>>
    BY <2>4, ItemsAre DEF Rowish
  <2>6. last \in Groups /\ last.items = G[n].items /\ last.groupKey = G[n].groupKey
        /\ last.startDate = G[n].startDate /\ last.endDate = Activity!Last(last.items).createdAt
    BY <1>11, <1>13 DEF Groups
  <2> HIDE DEF last
  <2>7. C \in Seq(Groups) /\ DOMAIN C = 1 .. n /\ Len(C) = n /\ C[n] = last /\ \A r \in 1 .. n : r # n => C[r] = G[r]
    BY <1>1, <1>11, <1>13, <2>6
  <2> HIDE DEF C
  <2>8. \A r \in 1 .. n : C[r].items = G[r].items /\ C[r].groupKey = G[r].groupKey /\ C[r].startDate = G[r].startDate
                          /\ C[r] \in Groups
    BY <1>1, <1>9, <2>6, <2>7
  <2>9. Activity!ItemLists(C) = Activity!ItemLists(G)
    <3>1. \A r \in 1 .. n : Activity!ItemsOf(C[r]) = Activity!ItemsOf(G[r])
      BY <1>1, <1>9, <2>8, ItemsAre
    <3>2. QED
      BY <1>1, <2>7, <3>1 DEF Activity!ItemLists
  <2>10. Arranges(C, M) /\ C \in Seq(Rowish)
    <3>1. C \in Seq(Rowish)
      BY <2>7 DEF Rowish
    <3>2. QED
      BY <1>5, <2>9, <3>1 DEF Arranges
  <2>11. Arranges(Z, M \cup {x})
    BY <1>2, <1>3, <2>5, <2>10, ArrangeNew
  <2>12. Z \in Seq(Groups) /\ DOMAIN Z = 1 .. (n + 1) /\ Len(Z) = n + 1 /\ Z[n + 1] = new
         /\ (\A r \in 1 .. n : Z[r] = C[r]) /\ Z # << >>
    <3>1. C \in Seq(Groups) /\ Len(C) = n
      BY <2>7
    <3> HIDE DEF n
    <3>2. Z \in Seq(Groups) /\ DOMAIN Z = 1 .. (n + 1) /\ Len(Z) = n + 1
      BY <1>0, <2>4, <3>1
    <3>3. Z[n + 1] = new /\ \A r \in 1 .. n : Z[r] = C[r]
      BY <1>0, <2>4, <3>1
    <3>4. QED
      BY <1>0, <3>2, <3>3
  <2> HIDE DEF Z
  <2>13. ASSUME NEW r \in DOMAIN Z
         PROVE  /\ \A k \in DOMAIN Z[r].items : Z[r].items[k].key = Z[r].groupKey
                /\ r > 1 => Z[r - 1].groupKey # Z[r].groupKey
                /\ Z[r].startDate = Z[r].items[1].createdAt
                /\ (r < Len(Z) \/ (i = Len(h) /\ i > 1))
                     => Z[r].endDate = Activity!Last(Z[r].items).createdAt
    <3>1. CASE r = n + 1
      <4>1. r = Len(Z) /\ ~(r < Len(Z)) /\ r - 1 = n /\ Z[n] = C[n]
        BY <1>1, <1>11, <1>13, <2>12, <3>1
      <4>2. Z[r - 1].groupKey # Z[r].groupKey
        BY <1>11, <1>13, <2>4, <2>6, <2>7, <2>12, <3>1, <4>1
      <4>3. QED
        BY <1>8, <2>3, <2>4, <2>12, <3>1, <4>1, <4>2
    <3>2. CASE r \in 1 .. n
      <4>1. r \in DOMAIN G /\ Z[r] = C[r] /\ C[r].items = G[r].items /\ C[r].groupKey = G[r].groupKey
            /\ C[r].startDate = G[r].startDate
        BY <1>1, <2>8, <2>12, <3>2
      <4>2. /\ \A k \in DOMAIN G[r].items : G[r].items[k].key = G[r].groupKey
            /\ G[r].startDate = G[r].items[1].createdAt
        BY <4>1 DEF GroupsTrue
      <4>3. r > 1 => Z[r - 1].groupKey # Z[r].groupKey
        <5>1. SUFFICES ASSUME r > 1 PROVE Z[r - 1].groupKey # Z[r].groupKey
          OBVIOUS
        <5>2. r - 1 \in 1 .. n
          BY <1>1, <3>2, <5>1
        <5>3. G[r - 1].groupKey # G[r].groupKey
          BY <4>1, <5>1 DEF GroupsTrue
        <5>4. QED
          BY <2>8, <2>12, <4>1, <5>2, <5>3
      <4>4. C[r].endDate = Activity!Last(C[r].items).createdAt
        <5>1. CASE r = n
          BY <2>6, <2>7, <5>1
        <5>2. CASE r # n
          <6>1. r < n /\ C[r] = G[r]
            <7>1. r < n
              BY <1>0, <3>2, <5>2
            <7>2. QED
              BY <2>7, <3>2, <5>2, <7>1
          <6>2. QED
            BY <4>1, <6>1 DEF GroupsTrue
        <5>3. QED
          BY <5>1, <5>2
      <4>5. QED
        BY <4>1, <4>2, <4>3, <4>4
    <3>3. QED
      BY <1>1, <2>12, <3>1, <3>2
  <2>14. i # 1
    BY <1>11, <1>13
  <2>15. GroupsTrue(Z, h, i)
    BY <1>4, <2>11, <2>12, <2>13, <2>14 DEF GroupsTrue
  <2>16. QED
    BY <2>2, <2>15
<1>14. QED
  BY <1>10, <1>12, <1>13

LEMMA GroupsAreTrue ==
  ASSUME NEW h \in Seq(Dated), Increasing(h)
  PROVE  GroupsTrue(Activity!GroupTips(h), h, Len(h))
<1> DEFINE n == Len(h)
<1>1. n \in Nat /\ DOMAIN h = 1 .. n
  OBVIOUS
<1>2. PICK f : /\ f[0] = << >>
               /\ \A k \in 1 .. Len(h) : f[k] = Activity!ReduceByTipStream(f[k - 1], Places(h)[k], h)
               /\ Activity!GroupTips(h) = f[Len(h)]
  BY GroupsFold
<1> DEFINE B == {k \in 0 .. n : GroupsTrue(f[k], h, k)}
<1>3. 0 \in B
  <2>1. {h[j] : j \in 1 .. 0} = {}
    <3>1. 1 .. 0 = {}
      OBVIOUS
    <3>2. QED
      BY <3>1
  <2>2. GroupsTrue(<< >>, h, 0)
    <3>1. << >> \in Seq(Groups) /\ DOMAIN << >> = {} /\ ~(0 > 0) /\ 0 # 1
      OBVIOUS
    <3>2. Arranges(<< >>, {h[j] : j \in 1 .. 0})
      BY <2>1, ArrangeNone
    <3>3. QED
      BY <3>1, <3>2 DEF GroupsTrue
  <2>3. QED
    BY <1>1, <1>2, <2>2
<1>4. ASSUME NEW k \in 1 .. n, k - 1 \in B PROVE k \in B
  <2>1. f[k] = Activity!ReduceByTipStream(f[k - 1], k, h)
    BY <1>1, <1>2, PlacesAre
  <2>2. GroupsTrue(f[k - 1], h, k - 1)
    BY <1>4
  <2>3. GroupsTrue(f[k], h, k)
    BY <2>1, <2>2, StreamTrue
  <2>4. QED
    BY <1>1, <2>3
<1>5. 0 .. n \subseteq B
  <2> HIDE DEF B, n
  <2>1. QED
    BY <1>1, <1>3, <1>4, CountUpTo
<1>6. n \in B
  BY <1>1, <1>5
<1>7. QED
  BY <1>2, <1>6

RowsTrue(R) == \A i \in DOMAIN R : IF Activity!IsGroup(R[i]) THEN Activity!GroupIsTrue(R, i)
                                                             ELSE ~Activity!IsTip(R[i])

RowSet == Dated \cup Groups

\* The rows that one entry makes: all groups, or one that is none.
NewRows(entry) == IF entry.tips THEN Activity!GroupTips(entry.items) ELSE entry.items

LEMMA NewRowsTrue ==
  ASSUME NEW e \in Entries, Increasing(e.items),
         IF e.tips THEN \A k \in DOMAIN e.items : Activity!IsTip(e.items[k])
                   ELSE Len(e.items) = 1 /\ ~Activity!IsTip(e.items[1])
  PROVE  /\ NewRows(e) \in Seq(RowSet) /\ NewRows(e) # << >>
         /\ Arranges(NewRows(e), {e.items[k] : k \in DOMAIN e.items})
         /\ RowsTrue(NewRows(e))
         /\ \A i \in DOMAIN NewRows(e) : Activity!IsGroup(NewRows(e)[i]) <=> e.tips
<1> DEFINE h == e.items
           n == Len(h)
           X == NewRows(e)
<1>1. h \in Seq(Dated) /\ h # << >> /\ n \in Nat /\ n > 0 /\ DOMAIN h = 1 .. n
  <2>1. h \in Seq(Dated) /\ h # << >>
    BY DEF Entries, Filled
  <2> HIDE DEF h
  <2>2. QED
    BY <2>1
<1>2. CASE ~e.tips
  <2>1. X = h /\ n = 1 /\ ~Activity!IsTip(h[1])
    BY <1>2 DEF NewRows
  <2>2. PICK x : x = h[1]
    OBVIOUS
  <2>3. x \in Dated /\ x \in Rowish /\ ~Activity!IsGroup(x) /\ Activity!ItemsOf(x) = <<x>>
    <3> HIDE DEF h
    <3>1. x \in Dated
      BY <1>1, <2>2
    <3>2. QED
      BY <3>1, ItemsAre DEF Rowish
  <2>4. h = Append(<< >>, x) /\ {h[k] : k \in DOMAIN h} = {x}
    <3> HIDE DEF h
    <3>1. DOMAIN h = {1} /\ h = <<h[1]>>
      BY <1>1, <2>1
    <3>2. QED
      BY <2>2, <3>1
  <2>5. Arranges(h, {x})
    <3>1. << >> \in Seq(Rowish) /\ Later(x, {})
      BY DEF Later
    <3>2. Arranges(Append(<< >>, x), {} \cup {x})
      BY <2>3, <3>1, ArrangeNone, ArrangeNew
    <3>3. QED
      BY <2>4, <3>2
  <2>6. \A i \in DOMAIN h : h[i] = x
    BY <1>1, <2>1, <2>2
  <2>7. RowsTrue(h)
    BY <2>1, <2>2, <2>3, <2>6 DEF RowsTrue
  <2>8. h \in Seq(RowSet)
    BY <1>1 DEF RowSet
  <2> HIDE DEF h, X
  <2>9. QED
    BY <1>1, <1>2, <2>1, <2>3, <2>4, <2>5, <2>6, <2>7, <2>8 DEF X, h
<1>3. CASE e.tips
  <2>1. X = Activity!GroupTips(h) /\ \A k \in DOMAIN h : Activity!IsTip(h[k])
    BY <1>3 DEF NewRows
  <2>2. GroupsTrue(X, h, n)
    BY <1>1, <2>1, GroupsAreTrue
  <2> HIDE DEF X
  <2>3. X \in Seq(Groups) /\ X # << >> /\ Arranges(X, {h[j] : j \in 1 .. n})
    BY <1>1, <2>2 DEF GroupsTrue
  <2>4. Len(X) \in Nat /\ Len(X) > 0 /\ DOMAIN X = 1 .. Len(X) /\ \A i \in DOMAIN X : X[i] \in Groups
    BY <2>3
  <2>5. \A i \in DOMAIN X : Activity!IsGroup(X[i]) /\ X[i].items \in Filled /\ Activity!ItemsOf(X[i]) = X[i].items
    BY <2>4, ItemsAre
  <2>6. X \in Seq(Rowish) /\ X \in Seq(RowSet)
    BY <2>3 DEF Rowish, RowSet
  <2>7. ASSUME NEW i \in DOMAIN X PROVE Activity!GroupIsTrue(X, i)
    <3>1. X[i].items \in Seq(Dated) /\ X[i].items # << >>
      BY <2>5 DEF Filled
    <3>2. \A k \in DOMAIN X[i].items : Activity!IsTip(X[i].items[k])
      <4>1. SUFFICES ASSUME NEW k \in DOMAIN X[i].items PROVE Activity!IsTip(X[i].items[k])
        OBVIOUS
      <4>2. i \in DOMAIN Activity!ItemLists(X) /\ Activity!ItemLists(X)[i] = X[i].items
        BY <2>5, <2>6, RowLists
      <4>3. X[i].items[k] \in Activity!AllOf(Activity!ItemLists(X))
        BY <4>1, <4>2, InAll
      <4>4. X[i].items[k] \in {h[j] : j \in 1 .. n}
        BY <2>3, <4>3 DEF Arranges
      <4>5. QED
        BY <1>1, <2>1, <4>4
    <3>3. /\ \A k \in DOMAIN X[i].items : X[i].items[k].key = X[i].groupKey
          /\ i > 1 => X[i - 1].groupKey # X[i].groupKey
          /\ X[i].startDate = X[i].items[1].createdAt
          /\ (i < Len(X) \/ n > 1) => X[i].endDate = Activity!Last(X[i].items).createdAt
      BY <2>2 DEF GroupsTrue
    <3>4. Activity!Follows(X, i) => X[i - 1].groupKey # X[i].groupKey
      BY <3>3 DEF Activity!Follows
    <3>5. \/ X[i].endDate = Activity!Last(X[i].items).createdAt
          \/ /\ X[i].endDate = Activity!NoDate /\ Len(X[i].items) = 1
             /\ ~Activity!Follows(X, i)
             /\ i < Len(X) => ~Activity!Follows(X, i + 1)
      <4>1. CASE n > 1
        BY <3>3, <4>1
      <4>2. CASE n = 1
        <5>1. Len(X) = 1 /\ Len(X[1].items) = 1 /\ X[1].endDate = Activity!NoDate
          BY <2>2, <4>2 DEF GroupsTrue
        <5>2. i = 1
          BY <2>4, <5>1
        <5>3. ~Activity!Follows(X, i) /\ ~(i < Len(X))
          BY <5>1, <5>2 DEF Activity!Follows
        <5>4. X[i].endDate = Activity!NoDate /\ Len(X[i].items) = 1
          BY <5>1, <5>2
        <5>5. i < Len(X) => ~Activity!Follows(X, i + 1)
          BY <5>3
        <5> HIDE DEF X
        <5>6. QED
          BY <5>3, <5>4, <5>5
      <4>3. n > 1 \/ n = 1
        <5> HIDE DEF n
        <5>1. QED
          BY <1>1
      <4>4. QED
        BY <4>1, <4>2, <4>3
    <3>6. Activity!Total(X[i]).wei = Activity!EtherOf(X[i].items)
      BY <3>1, <3>2, TotalIsEther
    <3>7. QED
      BY <3>2, <3>3, <3>4, <3>5, <3>6 DEF Activity!GroupIsTrue
  <2>8. RowsTrue(X)
    BY <2>5, <2>7 DEF RowsTrue
  <2>9. QED
    BY <1>1, <1>3, <2>3, <2>5, <2>6, <2>8 DEF X
<1>4. QED
  BY <1>2, <1>3

\* Rows after rows, where not both the last of the one and the first of the other are groups.
LEMMA RowsJoin ==
  ASSUME NEW R \in Seq(RowSet), NEW X \in Seq(RowSet), RowsTrue(R), RowsTrue(X), X # << >>,
         R # << >> => ~(Activity!IsGroup(R[Len(R)]) /\ Activity!IsGroup(X[1]))
  PROVE  RowsTrue(R \o X)
<1> DEFINE Z == R \o X
           n == Len(R)
           m == Len(X)
<1>1. n \in Nat /\ m \in Nat /\ m > 0 /\ DOMAIN R = 1 .. n /\ DOMAIN X = 1 .. m
      /\ DOMAIN Z = 1 .. (n + m) /\ Len(Z) = n + m
  OBVIOUS
<1>2. \A i \in 1 .. n : Z[i] = R[i]
  BY <1>1
<1>3. \A p \in 1 .. m : Z[n + p] = X[p]
  BY <1>1
<1>4. n > 0 => ~(Activity!IsGroup(R[n]) /\ Activity!IsGroup(X[1]))
  BY <1>1
<1> HIDE DEF Z, n, m
<1>5. \A i \in 1 .. n : Activity!Follows(Z, i) <=> Activity!Follows(R, i)
  <2> SUFFICES ASSUME NEW i \in 1 .. n PROVE Activity!Follows(Z, i) <=> Activity!Follows(R, i)
    OBVIOUS
  <2>1. i > 1 => i - 1 \in 1 .. n
    BY <1>1
  <2>2. QED
    BY <1>2, <2>1 DEF Activity!Follows
<1>6. ~Activity!Follows(Z, n + 1)
  <2>1. SUFFICES ASSUME n + 1 > 1 PROVE ~(Activity!IsGroup(Z[n + 1]) /\ Activity!IsGroup(Z[(n + 1) - 1]))
    BY DEF Activity!Follows
  <2>2. n > 0 /\ n \in 1 .. n /\ (n + 1) - 1 = n /\ 1 \in 1 .. m
    BY <1>1, <2>1
  <2>3. Z[n + 1] = X[1] /\ Z[n] = R[n]
    BY <1>2, <1>3, <2>2
  <2>4. QED
    BY <1>4, <2>2, <2>3
<1>7. \A p \in 1 .. m : p > 1 => (Activity!Follows(Z, n + p) <=> Activity!Follows(X, p))
  <2> SUFFICES ASSUME NEW p \in 1 .. m, p > 1 PROVE Activity!Follows(Z, n + p) <=> Activity!Follows(X, p)
    OBVIOUS
  <2>1. p - 1 \in 1 .. m /\ (n + p) - 1 = n + (p - 1) /\ n + p > 1
    BY <1>1
  <2>2. Z[n + p] = X[p] /\ Z[(n + p) - 1] = X[p - 1]
    BY <1>3, <2>1
  <2>3. QED
    BY <2>1, <2>2 DEF Activity!Follows
<1>8. ASSUME NEW i \in 1 .. n, Activity!IsGroup(R[i]) PROVE Activity!GroupIsTrue(Z, i)
  <2>1. Activity!GroupIsTrue(R, i)
    BY <1>1, <1>8 DEF RowsTrue
  <2>2. Z[i] = R[i] /\ (i > 1 => Z[i - 1] = R[i - 1])
    <3>1. i > 1 => i - 1 \in 1 .. n
      BY <1>1
    <3>2. QED
      BY <1>2, <3>1
  <2>3. Activity!Follows(Z, i) <=> Activity!Follows(R, i)
    BY <1>5
  <2>4. Activity!Follows(Z, i) => i > 1
    BY DEF Activity!Follows
  <2>5. (i < n => ~Activity!Follows(R, i + 1)) => ~Activity!Follows(Z, i + 1)
    <3>1. CASE i < n
      <4>1. i + 1 \in 1 .. n
        BY <1>1, <3>1
      <4>2. QED
        BY <1>5, <3>1, <4>1
    <3>2. CASE i = n
      BY <1>6, <3>2
    <3>3. QED
      BY <1>1, <3>1, <3>2
  <2>6. QED
    BY <2>1, <2>2, <2>3, <2>4, <2>5 DEF Activity!GroupIsTrue, n
<1>9. ASSUME NEW p \in 1 .. m, Activity!IsGroup(X[p]) PROVE Activity!GroupIsTrue(Z, n + p)
  <2>1. Activity!GroupIsTrue(X, p)
    BY <1>1, <1>9 DEF RowsTrue
  <2>2. Z[n + p] = X[p] /\ (p > 1 => Z[(n + p) - 1] = X[p - 1])
    <3>1. p > 1 => p - 1 \in 1 .. m /\ (n + p) - 1 = n + (p - 1)
      BY <1>1
    <3>2. QED
      BY <1>3, <3>1
  <2>3. Activity!Follows(Z, n + p) => p > 1 /\ Activity!Follows(X, p)
    <3>1. CASE p > 1
      BY <1>7, <3>1
    <3>2. CASE p = 1
      BY <1>6, <3>2
    <3>3. QED
      BY <1>1, <3>1, <3>2
  <2>4. (p < m => ~Activity!Follows(X, p + 1)) => (n + p < n + m => ~Activity!Follows(Z, (n + p) + 1))
    <3>1. SUFFICES ASSUME p < m PROVE Activity!Follows(Z, (n + p) + 1) <=> Activity!Follows(X, p + 1)
      BY <1>1
    <3>2. p + 1 \in 1 .. m /\ p + 1 > 1 /\ (n + p) + 1 = n + (p + 1)
      BY <1>1, <3>1
    <3>3. QED
      BY <1>7, <3>2
  <2>5. Len(Z) = n + m
    BY <1>1
  <2>6. QED
    BY <2>1, <2>2, <2>3, <2>4, <2>5 DEF Activity!GroupIsTrue, m
<1>10. \A i \in 1 .. (n + m) : i \in 1 .. n \/ i - n \in 1 .. m
  BY <1>1
<1>11. ASSUME NEW i \in 1 .. (n + m)
       PROVE  IF Activity!IsGroup(Z[i]) THEN Activity!GroupIsTrue(Z, i) ELSE ~Activity!IsTip(Z[i])
  <2>1. CASE i \in 1 .. n
    BY <1>1, <1>2, <1>8, <2>1 DEF RowsTrue
  <2>2. CASE i - n \in 1 .. m
    <3>1. PICK p \in 1 .. m : i = n + p
      BY <1>1, <2>2
    <3>2. Z[i] = X[p]
      BY <1>3, <3>1
    <3>3. QED
      BY <1>1, <1>9, <3>1, <3>2 DEF RowsTrue
  <2>3. QED
    BY <1>10, <2>1, <2>2
<1>12. QED
  BY <1>1, <1>11 DEF RowsTrue, Z

\* The items of the first j entries.
FirstItems(E, j) == UNION {{E[i].items[k] : k \in DOMAIN E[i].items} : i \in 1 .. j}

\* The rows of the first j entries.
ShowsFirst(R, E, j) ==
  /\ R \in Seq(RowSet) /\ Arranges(R, FirstItems(E, j)) /\ RowsTrue(R)
  /\ R # << >> /\ Activity!IsGroup(R[Len(R)]) => j > 0 /\ E[j].tips

LEMMA AddRowsTrue ==
  ASSUME NEW E, NEW M, EntriesTrue(E, M), NEW j \in 1 .. Len(E), NEW R, ShowsFirst(R, E, j - 1)
  PROVE  ShowsFirst(AddRows(R, E[j]), E, j)
<1> DEFINE e == E[j]
           X == NewRows(e)
           N == {e.items[k] : k \in DOMAIN e.items}
           A == Activity!ItemLists(E)
<1>1. E \in Seq(Entries) /\ E \in Seq(Rowish) /\ DOMAIN E = 1 .. Len(E) /\ Len(E) \in Nat /\ e \in Entries
  BY DEF EntriesTrue, Rowish
<1>2. \A i \in 1 .. Len(E) : i \in DOMAIN A /\ A[i] = E[i].items /\ E[i].items \in Seq(Dated)
  <2>1. DOMAIN A = DOMAIN E /\ \A i \in DOMAIN E : A[i] = Activity!ItemsOf(E[i])
    BY <1>1, RowLists
  <2>2. \A i \in 1 .. Len(E) : E[i] \in Entries
    BY <1>1
  <2>3. \A i \in 1 .. Len(E) : Activity!ItemsOf(E[i]) = E[i].items /\ E[i].items \in Filled
    BY <2>2, ItemsAre
  <2>4. QED
    BY <1>1, <2>1, <2>3 DEF Filled
<1>3. Activity!InOrder(A)
  BY DEF EntriesTrue, Arranges
<1> HIDE DEF A
<1>4. Increasing(e.items)
  BY <1>1, <1>2, <1>3 DEF Increasing, Activity!InOrder
<1>5. \A x \in N : Later(x, FirstItems(E, j - 1))
  <2>1. SUFFICES ASSUME NEW l \in DOMAIN E[j].items, NEW i \in 1 .. (j - 1), NEW k \in DOMAIN E[i].items
                 PROVE  E[i].items[k].createdAt < E[j].items[l].createdAt
    BY DEF Later, FirstItems
  <2>2. i \in 1 .. Len(E) /\ j \in 1 .. Len(E) /\ i < j
    BY <1>1
  <2>3. QED
    BY <1>2, <1>3, <2>1, <2>2 DEF Activity!InOrder
<1>6. IF e.tips THEN \A k \in DOMAIN e.items : Activity!IsTip(e.items[k])
                ELSE Len(e.items) = 1 /\ ~Activity!IsTip(e.items[1])
  BY <1>1 DEF EntriesTrue
<1>7. /\ X \in Seq(RowSet) /\ X # << >> /\ Arranges(X, N) /\ RowsTrue(X)
      /\ \A i \in DOMAIN X : Activity!IsGroup(X[i]) <=> e.tips
  BY <1>1, <1>4, <1>6, NewRowsTrue
<1>8. R \in Seq(RowSet) /\ Arranges(R, FirstItems(E, j - 1)) /\ RowsTrue(R)
      /\ (R # << >> /\ Activity!IsGroup(R[Len(R)]) => j - 1 > 0 /\ E[j - 1].tips)
  BY DEF ShowsFirst
<1>9. AddRows(R, e) = R \o X
  BY DEF AddRows, NewRows
<1> HIDE DEF X
<1>10. FirstItems(E, j) = FirstItems(E, j - 1) \cup N
  <2>1. 1 .. j = (1 .. (j - 1)) \cup {j}
    BY <1>1
  <2>2. QED
    BY <2>1 DEF FirstItems
<1>11. Arranges(R \o X, FirstItems(E, j))
  <2>1. R \in Seq(Rowish) /\ X \in Seq(Rowish)
    BY <1>7, <1>8 DEF RowSet, Rowish
  <2> HIDE DEF N
  <2>2. Arranges(R \o X, FirstItems(E, j - 1) \cup N)
    BY <1>5, <1>7, <1>8, <2>1, ArrangeMore
  <2>3. QED
    BY <1>10, <2>2
<1>12. 1 \in DOMAIN X /\ Len(X) \in DOMAIN X /\ Len(X) > 0 /\ Len(X) \in Nat
  BY <1>7
<1>13. RowsTrue(R \o X)
  <2>1. R # << >> => ~(Activity!IsGroup(R[Len(R)]) /\ Activity!IsGroup(X[1]))
    <3>1. SUFFICES ASSUME R # << >>, Activity!IsGroup(R[Len(R)]), Activity!IsGroup(X[1]) PROVE FALSE
      OBVIOUS
    <3>2. j - 1 > 0 /\ E[j - 1].tips /\ E[j].tips
      BY <1>7, <1>8, <1>12, <3>1
    <3>3. j > 1 /\ j \in DOMAIN E
      BY <1>1, <3>2
    <3>4. QED
      BY <3>2, <3>3 DEF EntriesTrue
  <2>2. QED
    BY <1>7, <1>8, <2>1, RowsJoin
<1>14. R \o X \in Seq(RowSet) /\ Len(R \o X) = Len(R) + Len(X) /\ (R \o X)[Len(R \o X)] = X[Len(X)]
  BY <1>7, <1>8, <1>12
<1>15. Activity!IsGroup((R \o X)[Len(R \o X)]) => j > 0 /\ E[j].tips
  BY <1>1, <1>7, <1>12, <1>14
<1>16. QED
  BY <1>9, <1>11, <1>13, <1>14, <1>15 DEF ShowsFirst

\* The history: each item knows its place.
HistoryInv == \A i \in DOMAIN history : \E kind \in Items : history[i] = Activity!ItemAt(i, kind)

LEMMA RowsAreTrue ==
  ASSUME NEW h \in Seq(Dated), Increasing(h)
  PROVE  /\ Arranges(Activity!Rows(h), {h[k] : k \in {m \in DOMAIN h : Activity!Moving(h[m])}})
         /\ RowsTrue(Activity!Rows(h))
<1> DEFINE E == Activity!FoldLeft(Activity!ReduceByTipOrPurchase, << >>, h)
           M == {h[k] : k \in {m \in DOMAIN h : Activity!Moving(h[m])}}
           n == Len(E)
<1>1. EntriesTrue(E, M)
  BY EntriesAreTrue
<1>2. Activity!Rows(h) = Activity!FoldLeft(AddRows, << >>, E)
  BY DEF Activity!Rows, AddRows, Activity!FoldLeft, Activity!MapThenFoldSet, Activity!Max
<1> HIDE DEF E, M
<1>3. E \in Seq(Entries) /\ n \in Nat /\ DOMAIN E = 1 .. n
  BY <1>1 DEF EntriesTrue
<1>4. PICK f : /\ f[0] = << >>
               /\ \A k \in 1 .. Len(E) : f[k] = AddRows(f[k - 1], E[k])
               /\ Activity!FoldLeft(AddRows, << >>, E) = f[Len(E)]
  BY <1>3, RowsFold
<1> DEFINE B == {k \in 0 .. n : ShowsFirst(f[k], E, k)}
<1>5. 0 \in B
  <2>1. FirstItems(E, 0) = {}
    <3>1. 1 .. 0 = {}
      OBVIOUS
    <3>2. QED
      BY <3>1 DEF FirstItems
  <2>2. << >> \in Seq(RowSet) /\ RowsTrue(<< >>)
    BY DEF RowsTrue
  <2>3. ShowsFirst(f[0], E, 0)
    BY <1>4, <2>1, <2>2, ArrangeNone DEF ShowsFirst
  <2>4. QED
    BY <1>3, <2>3
<1>6. ASSUME NEW k \in 1 .. n, k - 1 \in B PROVE k \in B
  <2>1. f[k] = AddRows(f[k - 1], E[k]) /\ ShowsFirst(f[k - 1], E, k - 1)
    BY <1>4, <1>6
  <2>2. ShowsFirst(f[k], E, k)
    BY <1>1, <2>1, AddRowsTrue
  <2>3. QED
    BY <1>3, <2>2
<1>7. 0 .. n \subseteq B
  <2> HIDE DEF B, n
  <2>1. QED
    BY <1>3, <1>5, <1>6, CountUpTo
<1>8. ShowsFirst(f[n], E, n)
  <2>1. n \in B
    BY <1>3, <1>7
  <2>2. QED
    BY <2>1
<1>9. FirstItems(E, n) = M
  <2>1. E \in Seq(Rowish) /\ Activity!AllOf(Activity!ItemLists(E)) = M
    BY <1>1, <1>3 DEF EntriesTrue, Arranges, Rowish
  <2>2. DOMAIN Activity!ItemLists(E) = 1 .. n /\ \A i \in 1 .. n : Activity!ItemLists(E)[i] = E[i].items
    <3>1. \A i \in 1 .. n : E[i] \in Entries
      BY <1>3
    <3>2. QED
      BY <1>3, <2>1, <3>1, RowLists, ItemsAre
  <2>3. Activity!AllOf(Activity!ItemLists(E)) = FirstItems(E, n)
    BY <2>2 DEF Activity!AllOf, FirstItems
  <2>4. QED
    BY <2>1, <2>3
<1>10. Arranges(f[n], M) /\ RowsTrue(f[n])
  BY <1>8, <1>9 DEF ShowsFirst
<1>11. QED
  BY <1>2, <1>4, <1>10 DEF M

LEMMA HistoryIsList == ActivityInv => history \in Seq(Elems(history)) /\ Len(history) \in Nat
<1> SUFFICES ASSUME ActivityInv PROVE history \in Seq(Elems(history)) /\ Len(history) \in Nat
  OBVIOUS
<1>1. PICK S : history \in Seq(S)
  BY DEF ActivityInv, Queue
<1>2. DOMAIN history = 1 .. Len(history) /\ Len(history) \in Nat
  BY <1>1
<1>3. history \in [1 .. Len(history) -> Elems(history)]
  <2>1. history = [i \in 1 .. Len(history) |-> history[i]]
    BY <1>1, <1>2
  <2>2. QED
    BY <1>2, <2>1 DEF Elems
<1>4. QED
  BY <1>2, <1>3

LEMMA HistoryInvInit == Init => HistoryInv
<1> SUFFICES ASSUME Init PROVE HistoryInv
  OBVIOUS
<1>1. history \in Activity!Histories
  BY DEF Init, Activity!ActivityInit
<1>2. PICK n \in 0 .. MaxHistory :
        history \in {[i \in 1 .. n |-> Activity!ItemAt(i, kinds[i])] : kinds \in [1 .. n -> Items]}
  BY <1>1 DEF Activity!Histories
<1>3. PICK kinds \in [1 .. n -> Items] : history = [i \in 1 .. n |-> Activity!ItemAt(i, kinds[i])]
  BY <1>2
<1>4. ASSUME NEW i \in DOMAIN history PROVE \E kind \in Items : history[i] = Activity!ItemAt(i, kind)
  <2>1. i \in 1 .. n /\ history[i] = Activity!ItemAt(i, kinds[i]) /\ kinds[i] \in Items
    BY <1>3
  <2>2. QED
    BY <2>1
<1>5. QED
  BY <1>4 DEF HistoryInv

LEMMA HistoryInvInductive == ActivityInv /\ HistoryInv /\ [Next]_vars => HistoryInv'
<1> SUFFICES ASSUME ActivityInv, HistoryInv, [Next]_vars PROVE HistoryInv'
  OBVIOUS
<1>1. CASE history' = history
  BY <1>1 DEF HistoryInv
<1>2. CASE Activity!HearHistory
  <2>1. PICK item \in Items : history' = Append(history, Activity!ItemAt(Len(history) + 1, item))
    BY <1>2 DEF Activity!HearHistory
  <2>2. PICK new : new = Activity!ItemAt(Len(history) + 1, item)
    OBVIOUS
  <2>3. PICK n : n = Len(history) /\ n \in Nat /\ history \in Seq(Elems(history)) /\ DOMAIN history = 1 .. n
    BY HistoryIsList
  <2>4. history \in Seq(Elems(history) \cup {new})
    BY <2>3
  <2>5. history' = Append(history, new)
    BY <2>1, <2>2
  <2>6. /\ DOMAIN history' = 1 .. (n + 1) /\ history'[n + 1] = new
        /\ \A i \in 1 .. n : history'[i] = history[i]
    BY <2>3, <2>4, <2>5
  <2>7. ASSUME NEW i \in DOMAIN history' PROVE \E kind \in Items : history'[i] = Activity!ItemAt(i, kind)
    <3>1. CASE i = n + 1
      <4>1. history'[i] = Activity!ItemAt(n + 1, item)
        BY <2>2, <2>3, <2>6, <3>1
      <4>2. QED
        BY <3>1, <4>1
    <3>2. CASE i \in 1 .. n
      BY <2>3, <2>6, <3>2 DEF HistoryInv
    <3>3. QED
      BY <2>3, <2>6, <3>1, <3>2
  <2>8. QED
    BY <2>7 DEF HistoryInv
<1>3. history' = history \/ Activity!HearHistory
  <2>1. CASE UNCHANGED activityVars
    BY <2>1 DEF activityVars
  <2>2. CASE Activity!ActivityNext
    BY <2>2 DEF Activity!ActivityNext, Activity!FetchHistory, Activity!FetchEnds, Activity!ToggleDetails
  <2>3. QED
    BY <2>1, <2>2 DEF Next, vars
<1>4. QED
  BY <1>1, <1>2, <1>3

LEMMA HistoryIsDated == ActivityInv /\ HistoryInv => history \in Seq(Dated) /\ Increasing(history)
<1> SUFFICES ASSUME ActivityInv, HistoryInv PROVE history \in Seq(Dated) /\ Increasing(history)
  OBVIOUS
<1>1. history \in Seq(Elems(history)) /\ Len(history) \in Nat /\ DOMAIN history = 1 .. Len(history)
  BY HistoryIsList
<1>2. \A i \in DOMAIN history : history[i] \in Dated /\ history[i].createdAt = i
  BY <1>1 DEF HistoryInv, Dated, Activity!ItemAt
<1>3. Increasing(history)
  BY <1>2 DEF Increasing
<1>4. history \in Seq(Dated)
  BY <1>1, <1>2 DEF Elems
<1>5. QED
  BY <1>3, <1>4

\* HistoryIsWhole: the list of activities shows every item of the history that moves an amount
\* and is no fee, once and in order, tips in groups and nothing else in one; a group holds the
\* tips with one key that are next to each other, from the first to the last, says when they
\* began and ended, and adds up their ether (the two reductions and totalForTips() of
\* Activity.tsx); for every history, however long, and all items.
THEOREM HistoryIsShownWhole == Spec => []HistoryIsWhole
<1> DEFINE Inv == ActivityInv /\ HistoryInv
<1>1. Init => Inv
  BY ActivityInvInit, HistoryInvInit
<1>2. Inv /\ [Next]_vars => Inv'
  BY ActivityKept, HistoryInvInductive
<1>3. Inv => HistoryIsWhole
  <2>1. SUFFICES ASSUME ActivityInv, HistoryInv PROVE HistoryIsWhole
    OBVIOUS
  <2>2. /\ Arranges(Activity!Rows(history), {history[k] : k \in {m \in DOMAIN history : Activity!Moving(history[m])}})
        /\ RowsTrue(Activity!Rows(history))
    BY <2>1, HistoryIsDated, RowsAreTrue
  <2>3. QED
    BY <2>2 DEF HistoryIsWhole, Activity!HistoryIsWhole, Arranges, RowsTrue
<1>4. QED
  BY <1>1, <1>2, <1>3, PTL DEF Spec

==============================================================================
