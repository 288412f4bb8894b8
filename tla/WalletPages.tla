----------------------------- MODULE WalletPages -----------------------------
(***************************************************************************)
(* The pages of the frame on which a user makes, restores and unlocks the  *)
(* wallet, with the handlers of the worker they call.  Requests reach the  *)
(* worker in order.  Encrypting, decrypting and asking the hub take time,  *)
(* during which other requests are handled; answers come through a port    *)
(* each.  The page that is shown follows the route, which follows the      *)
(* shared state that the frame has heard of.                               *)
(***************************************************************************)
EXTENDS StateSync, SequencesExt

CONSTANTS MaxSubmits,  \* bound on the forms the user submits
          MaxLocks,    \* bound on the times the user locks the wallet or hides the frame
          MaxLag       \* bound on the broadcasts the frame has not heard

VARIABLES route,   \* the location of the frame
          form,    \* the state of the component of the page
          inbox,   \* requests on their way to the worker
          jobs,    \* handlers under way in the worker, in the order they began
          answers, \* answers on their way to the frame, in the order they were sent
          words,   \* how many mnemonics have been generated; 0 is that of an earlier wallet
          known,   \* the mnemonics that the user has written down
          mishaps, \* what has happened that the pages do not guard against
          submits, locks,
          timer    \* the timer of Deposit that ends the onboarding is set

formVars == <<route, form>>
callVars == <<inbox, jobs, answers>>
userVars == <<words, known, mishaps, submits, locks, timer>>
walletVars == <<store, dispatched, toFrame, frame, formVars, callVars, userVars>>
fetchVars == <<toPage, fetch, reply, lost, page>>

NewForm == [acknowledged |-> FALSE, authenticating |-> FALSE, loading |-> FALSE,
            restoring |-> "no", seeds |-> None, hd |-> TRUE]

Request(type, with, then) == [type |-> type, with |-> with, then |-> then]

\* What genKeyring() makes of a mnemonic, and what restoreWallet() does.
Keyring(mnemonic, hd) == [words |-> mnemonic, hd |-> hd]

\* The wallet of an earlier session, whose words the user has written down.
Stored == RestoreWallet(GetInitialState, [keyring |-> Keyring(0, TRUE), wallet |-> None])

------------------------------------------------------------------------------
(* RootContainer *)

Expects(f) ==
  LET shared == f.shared
      begun == shared.didInit /\ ~f.temp.showInitialDeposit
  IN  [wallet |-> begun /\ ~shared.isLocked /\ shared.currentAuthToken # None,
       unlock |-> \/ shared.didInit /\ shared.isLocked
                  \/ begun /\ shared.currentAuthToken = None,
       displayed |-> shared.isFrameDisplayed,
       redirect |-> shared.forceRedirect]

\* determineRoute()
Destination(e) == CASE e.wallet /\ e.redirect # None -> e.redirect
                    [] e.wallet /\ e.redirect = None -> "/wallet"
                    [] ~e.wallet /\ e.unlock -> "/unlock"
                    [] OTHER -> "/init"

\* The wallet is new, or the persisted one, which is locked.
WalletInit == /\ \/ SyncInit(GetInitialState, InitialSharedState)
                 \/ SyncInit(Stored, BuildSharedState(Stored))
              /\ route = Destination(Expects(frame)) /\ form = NewForm
              /\ inbox = << >> /\ jobs = << >> /\ answers = << >>
              /\ words = 0 /\ known = {0} /\ mishaps = {}
              /\ submits = 0 /\ locks = 0 /\ timer = FALSE

\* componentWillReceiveProps(): the route changes only when what is expected does.
RouteFor(f) == IF Expects(f) = Expects(frame) THEN route ELSE Destination(Expects(f))

\* The component that a route shows; InitPage chooses by the performer.
Component(r, f) ==
  CASE r = "/unlock" -> "Unlock"
    [] r = "/init" /\ f.temp.showInitialDeposit /\ ~f.shared.isPerformer -> "Deposit"
    [] r = "/init" /\ f.temp.mnemonic # None
         /\ ~(f.temp.showInitialDeposit /\ ~f.shared.isPerformer) -> "Mnemonic"
    [] r = "/init" /\ f.temp.mnemonic = None
         /\ ~(f.temp.showInitialDeposit /\ ~f.shared.isPerformer) -> "Password"
    [] OTHER -> "Wallet"

\* The frame's state becomes f, with the component in the state that is given, if it
\* is still the same one.
Show(f, state) == /\ frame' = f
                  /\ route' = RouteFor(f)
                  /\ form' = IF Component(RouteFor(f), f) = Component(route, frame)
                               THEN state ELSE NewForm

On(component) == Component(route, frame) = component

\* Password and Unlock show RestorePage in their place.
Restoring == On("Password") \/ On("Unlock")

------------------------------------------------------------------------------
(* Reducers of the frame *)

DidReceiveMnemonicOnce(f, mnemonic) ==
  IF f.temp.mnemonic = None THEN [f EXCEPT !.temp.mnemonic = mnemonic] ELSE f

DidReceiveMnemonic(f, mnemonic) == [f EXCEPT !.temp.mnemonic = mnemonic]

DidStoreMnemonic(f) == [f EXCEPT !.temp.showInitialDeposit = TRUE]

DidAcknowledgeDeposit(f) == [f EXCEPT !.temp.mnemonic = None,
                                      !.temp.showInitialDeposit = FALSE]

------------------------------------------------------------------------------
(* What the user does *)

Posts(requests) == inbox' = inbox \o requests

MaySubmit == submits < MaxSubmits
Submits == MaySubmit /\ submits' = submits + 1

\* A keyring is being made: the calls of genKeyring() that have not been answered.
InFlight(calls, type) == \E i \in DOMAIN calls : calls[i].type = type
Under(type) == InFlight(inbox, type) \/ InFlight(jobs, type) \/ InFlight(answers, type)

\* Password.handleSubmit(), for a password that is valid: Next is clicked, and
\* then submits the form around it, with the same handler.
SubmitPassword ==
  /\ On("Password") /\ form.restoring = "no"
  /\ Submits
  /\ Posts(<<Request("genKeyring", None, None), Request("genKeyring", None, None)>>)
  /\ mishaps' = IF store.persistent.didInit \/ Under("didStoreMnemonic") \/ Under("restoreWallet")
                  THEN mishaps \cup {"again"} ELSE mishaps
  /\ UNCHANGED <<store, dispatched, toFrame, frame, formVars, jobs, answers, words, known,
                 locks, timer>>

\* The words that are shown now are copied.
Acknowledge ==
  /\ On("Mnemonic") /\ ~form.acknowledged
  /\ form' = [form EXCEPT !.acknowledged = TRUE]
  /\ known' = known \cup {frame.temp.mnemonic}
  /\ mishaps' = IF Under("genKeyring") THEN mishaps \cup {"early"} ELSE mishaps
  /\ UNCHANGED <<store, dispatched, toFrame, frame, route, callVars, words, submits, locks,
                 timer>>

\* The box is unticked; what has been written down stays written down.
Unacknowledge ==
  /\ On("Mnemonic") /\ form.acknowledged
  /\ form' = [form EXCEPT !.acknowledged = FALSE]
  /\ UNCHANGED <<store, dispatched, toFrame, frame, route, callVars, userVars>>

\* Mnemonic.handleSubmit(): a performer is authenticated at once, without Deposit.
SubmitMnemonic ==
  /\ On("Mnemonic") /\ form.acknowledged
  /\ Submits
  /\ IF frame.shared.isPerformer
       THEN /\ Posts(<<Request("didStoreMnemonic", None, None),
                       Request("authenticate", None, "Mnemonic")>>)
            /\ Show(DidAcknowledgeDeposit(DidStoreMnemonic(frame)),
                    [form EXCEPT !.authenticating = TRUE])
       ELSE /\ Posts(<<Request("didStoreMnemonic", None, None)>>)
            /\ Show(DidStoreMnemonic(frame), form)
  /\ UNCHANGED <<store, dispatched, toFrame, jobs, answers, words, known, mishaps, locks,
                 timer>>

\* Deposit.handleSubmit()
SubmitDeposit ==
  /\ On("Deposit") /\ ~form.authenticating
  /\ Submits
  /\ form' = [form EXCEPT !.authenticating = TRUE]
  /\ Posts(<<Request("authenticate", None, "Deposit")>>)
  /\ UNCHANGED <<store, dispatched, toFrame, frame, route, jobs, answers, words, known,
                 mishaps, locks, timer>>

\* The 500 ms after which Deposit ends the onboarding have passed.
EndOnboarding ==
  /\ timer
  /\ timer' = FALSE
  /\ Show(DidAcknowledgeDeposit(frame), form)
  /\ UNCHANGED <<store, dispatched, toFrame, callVars, words, known, mishaps, submits, locks>>

\* UnlockPage.handleSubmit(): the button is disabled while it loads.
SubmitUnlock ==
  /\ On("Unlock") /\ form.restoring = "no" /\ ~form.loading
  /\ Submits
  /\ form' = [form EXCEPT !.loading = TRUE]
  /\ Posts(<<Request("unlockWallet", None, "Unlock")>>)
  /\ UNCHANGED <<store, dispatched, toFrame, frame, route, jobs, answers, words, known,
                 mishaps, locks, timer>>

\* RestorePage: the words of a wallet the user knows, the address among the two that
\* they make, then a new password.  The page belongs to the component that shows it.
ShowRestore == /\ Restoring /\ form.restoring = "no"
               /\ MaySubmit
               /\ form' = [form EXCEPT !.restoring = "seeds"]
               /\ UNCHANGED <<store, dispatched, toFrame, frame, route, callVars, userVars>>

GoBack == /\ form.restoring # "no"
          /\ form' = [form EXCEPT !.restoring = CASE @ = "seeds" -> "no"
                                                  [] @ = "pick" -> "seeds"
                                                  [] OTHER -> "pick"]
          /\ UNCHANGED <<store, dispatched, toFrame, frame, route, callVars, userVars>>

SubmitSeeds(mnemonic) ==
  /\ form.restoring = "seeds"
  /\ mnemonic \in known
  /\ Submits
  /\ Posts(<<Request("generateRestorationCandidates", mnemonic, Component(route, frame))>>)
  /\ UNCHANGED <<store, dispatched, toFrame, frame, formVars, jobs, answers, words, known,
                 mishaps, locks, timer>>

PickAddress(hd) == /\ form.restoring = "pick"
                   /\ form' = [form EXCEPT !.restoring = "password", !.hd = hd]
                   /\ UNCHANGED <<store, dispatched, toFrame, frame, route, callVars, userVars>>

SubmitNewPassword ==
  /\ form.restoring = "password"
  /\ Submits
  /\ Posts(<<Request("restoreWallet", Keyring(form.seeds, form.hd), Component(route, frame))>>)
  /\ UNCHANGED <<store, dispatched, toFrame, frame, formVars, jobs, answers, words, known,
                 mishaps, locks, timer>>

\* The lock key, and the ways to hide the frame; the page shows it again, perhaps to
\* make its user a performer.
PressLock == /\ locks < MaxLocks
             /\ locks' = locks + 1
             /\ Posts(<<Request("lockWallet", None, None)>>)
             /\ UNCHANGED <<store, dispatched, toFrame, frame, formVars, jobs, answers, words,
                            known, mishaps, submits, timer>>

Toggle(param) == /\ locks < MaxLocks
                 /\ locks' = locks + 1
                 /\ Posts(<<Request("toggleFrame", param, None)>>)
                 /\ UNCHANGED <<store, dispatched, toFrame, frame, formVars, jobs, answers,
                                words, known, mishaps, submits, timer>>

------------------------------------------------------------------------------
(* Handlers of the worker *)

\* A dispatch, and its broadcast; the frame is at most MaxLag broadcasts behind.
Update(s) == Len(toFrame) < MaxLag /\ Broadcast(s, dispatched)

Began(type, with, then) == jobs' = Append(jobs, Request(type, with, then))

Answered(request, ok) ==
  answers' = Append(answers, [type |-> request.type, with |-> request.with,
                              then |-> request.then, ok |-> ok])

\* A job that stores a keyring ends before one that began earlier, or an answer with
\* words comes before one that was sent earlier.
Overtakes(calls, i) ==
  \E j \in 1 .. i - 1 : {calls[j].type, calls[i].type} \subseteq
                          {"genKeyring", "restoreWallet", "unlockWallet"}
NoteOvertaking(calls, i) ==
  mishaps' = IF Overtakes(calls, i) THEN mishaps \cup {"overtaken"} ELSE mishaps

\* genKeyring(): the wallet is set at once, the keyring once it is encrypted.
GenKeyring(r) == /\ words' = words + 1
                 /\ Update(SetWallet(store, Keyring(words + 1, TRUE)))
                 /\ Began("genKeyring", Keyring(words + 1, TRUE), r.then)
                 /\ UNCHANGED answers

BeginRestore(r) == /\ Update(SetWallet(store, r.with))
                   /\ Began(r.type, r.with, r.then)
                   /\ UNCHANGED <<answers, words>>

\* unlockWallet(): the keyring is read now, and decrypted.  When it is about to be
\* replaced by the one of a restored wallet, the wallet of the old one is opened.
BeginUnlock(r) == /\ IF store.persistent.keyring = None
                       THEN Answered(r, FALSE) /\ UNCHANGED jobs
                       ELSE Began(r.type, store.persistent.keyring, r.then) /\ UNCHANGED answers
                  /\ UNCHANGED <<store, dispatched, toFrame, words>>

\* Without an unlocked wallet, authenticate() shows the frame and waits for ever.
BeginAuthenticate(r) ==
  /\ IF store.persistent.didInit /\ store.runtime.wallet # None
       THEN Began(r.type, None, r.then) /\ UNCHANGED <<store, dispatched, toFrame>>
       ELSE /\ Update(ToggleFrame(store, [isFrameDisplayed |-> TRUE, forceRedirect |-> None,
                                          isPerformer |-> FALSE]))
            /\ UNCHANGED jobs
  /\ UNCHANGED <<answers, words>>

\* The handlers that dispatch and are done.
Does(r, s) == Update(s) /\ UNCHANGED <<jobs, answers, words>>

Handle ==
  /\ inbox # << >>
  /\ inbox' = Tail(inbox)
  /\ LET r == Head(inbox)
     IN  CASE r.type = "genKeyring" -> GenKeyring(r)
           [] r.type = "restoreWallet" -> BeginRestore(r)
           [] r.type = "unlockWallet" -> BeginUnlock(r)
           [] r.type = "authenticate" -> BeginAuthenticate(r)
           [] r.type = "lockWallet" -> Does(r, SetWallet(store, None))
           [] r.type = "didStoreMnemonic" -> Does(r, SetDidStoreMnemonic(store))
           [] r.type = "toggleFrame" -> Does(r, ToggleFrame(store, r.with))
           [] r.type = "generateRestorationCandidates" ->
                Began(r.type, r.with, r.then) /\ UNCHANGED <<store, dispatched, toFrame, answers, words>>
  /\ mishaps' = IF Head(inbox).type = "unlockWallet" /\ InFlight(jobs, "restoreWallet")
                  THEN mishaps \cup {"stale"} ELSE mishaps
  /\ UNCHANGED <<frame, formVars, known, submits, locks, timer>>

\* What a job has to store when it ends well.
Outcome(job) ==
  CASE job.type = "genKeyring" -> SetKeyring(store, job.with)
    [] job.type = "restoreWallet" -> RestoreWallet(store, [keyring |-> job.with, wallet |-> job.with])
    [] job.type = "unlockWallet" -> SetWallet(store, job.with)
    [] job.type = "authenticate" -> SetCurrentAuthToken(store, "token")
    [] OTHER -> store

\* A job ends; a wrong password, or the network, may make one fail.
Finish(i) ==
  /\ jobs' = RemoveAt(jobs, i)
  /\ \/ /\ IF Outcome(jobs[i]) = store THEN UNCHANGED <<store, dispatched, toFrame>>
                                       ELSE Update(Outcome(jobs[i]))
        /\ Answered(jobs[i], TRUE)
     \/ /\ jobs[i].type \in {"unlockWallet", "authenticate", "generateRestorationCandidates"}
        /\ Answered(jobs[i], FALSE)
        /\ UNCHANGED <<store, dispatched, toFrame>>
  /\ NoteOvertaking(jobs, i)
  /\ UNCHANGED <<frame, formVars, inbox, words, known, submits, locks, timer>>

------------------------------------------------------------------------------
(* What the pages do with the answers *)

\* Password: the words are shown.
TakeWords(a) == /\ Show(DidReceiveMnemonic(frame, a.with.words), form)
                /\ UNCHANGED <<inbox, timer>>

\* Deposit hides the frame and sets its timer; UnlockPage shows the wallet.
TakeToken(a) ==
  CASE a.then = "Deposit" /\ a.ok ->
         /\ Posts(<<Request("toggleFrame", [isFrameDisplayed |-> FALSE, forceRedirect |-> None,
                                            isPerformer |-> FALSE], None)>>)
         /\ timer' = TRUE
         /\ UNCHANGED <<frame, formVars>>
    [] a.then = "Deposit" /\ ~a.ok ->
         /\ form' = IF On("Deposit") THEN [form EXCEPT !.authenticating = FALSE] ELSE form
         /\ UNCHANGED <<frame, route, inbox, timer>>
    [] a.then = "Unlock" /\ a.ok ->
         /\ route' = "/wallet"
         /\ form' = IF On("Wallet") THEN form ELSE NewForm
         /\ UNCHANGED <<frame, inbox, timer>>
    [] OTHER -> UNCHANGED <<frame, formVars, inbox, timer>>

\* UnlockPage: the next step is to authenticate; after an error, another try.
TakeUnlocked(a) ==
  /\ IF a.ok THEN Posts(<<Request("authenticate", None, "Unlock")>>) /\ UNCHANGED form
             ELSE /\ form' = IF On("Unlock") THEN [form EXCEPT !.loading = FALSE] ELSE form
                  /\ UNCHANGED inbox
  /\ UNCHANGED <<frame, route, timer>>

\* RestorePage: the addresses that the words make; one that alone has a balance is
\* picked at once.
TakeCandidates(a) ==
  /\ IF a.ok /\ On(a.then) /\ form.restoring # "no"
       THEN form' \in {[form EXCEPT !.seeds = a.with, !.restoring = "pick"],
                       [form EXCEPT !.seeds = a.with, !.restoring = "password", !.hd = TRUE],
                       [form EXCEPT !.seeds = a.with, !.restoring = "password", !.hd = FALSE]}
       ELSE UNCHANGED form
  /\ UNCHANGED <<frame, route, inbox, timer>>

\* goBack() of the component that asked, which may be gone by now, and authenticate().
TakeRestored(a) == /\ form' = IF On(a.then) THEN [form EXCEPT !.restoring = "no"] ELSE form
                   /\ Posts(<<Request("authenticate", None, "Restore")>>)
                   /\ UNCHANGED <<frame, route, timer>>

Take(i) ==
  /\ answers' = RemoveAt(answers, i)
  /\ LET a == answers[i]
     IN  CASE a.type = "genKeyring" -> TakeWords(a)
           [] a.type = "authenticate" -> TakeToken(a)
           [] a.type = "unlockWallet" -> TakeUnlocked(a)
           [] a.type = "generateRestorationCandidates" -> TakeCandidates(a)
           [] a.type = "restoreWallet" -> TakeRestored(a)
  /\ NoteOvertaking(answers, i)
  /\ UNCHANGED <<store, dispatched, toFrame, jobs, words, known, submits, locks>>

\* A broadcast of the worker changes what the frame shows.
HearWorker == /\ toFrame # << >>
              /\ toFrame' = Tail(toFrame)
              /\ Show([frame EXCEPT !.shared = Head(toFrame).state], form)
              /\ UNCHANGED <<store, dispatched, callVars, userVars>>

------------------------------------------------------------------------------
ToggleParams ==
  {[isFrameDisplayed |-> FALSE, forceRedirect |-> None, isPerformer |-> FALSE],
   [isFrameDisplayed |-> TRUE, forceRedirect |-> "/wallet/send", isPerformer |-> TRUE]}

UserActs == \/ SubmitPassword \/ Acknowledge \/ Unacknowledge \/ SubmitMnemonic \/ SubmitDeposit \/ SubmitUnlock
            \/ ShowRestore \/ GoBack \/ SubmitNewPassword
            \/ \E w \in known : SubmitSeeds(w)
            \/ \E hd \in BOOLEAN : PickAddress(hd)
            \/ PressLock
            \/ \E param \in ToggleParams : Toggle(param)

\* Behaviours are followed up to the first mishap.
WalletNext == /\ mishaps = {}
              /\ \/ UserActs
                 \/ EndOnboarding
                 \/ Handle
                 \/ \E i \in DOMAIN jobs : Finish(i)
                 \/ \E i \in DOMAIN answers : Take(i)
                 \/ HearWorker
              /\ UNCHANGED fetchVars

------------------------------------------------------------------------------
(* Properties *)

WalletTypeOK == /\ route \in {"/init", "/unlock", "/wallet", "/wallet/send"}
                /\ form.restoring \in {"no", "seeds", "pick", "password"}
                /\ known \subseteq 0 .. words
                /\ mishaps \subseteq {"again", "early", "overtaken", "stale"}
                /\ submits \in 0 .. MaxSubmits /\ locks \in 0 .. MaxLocks

Quiet == \A type \in {"genKeyring", "restoreWallet", "unlockWallet"} : ~Under(type)

\* "Your backup words are the only way to get your account back": once the wallet
\* counts as made, and nothing that changes it is under way, the user has written
\* down the words of the keyring that is stored, and the wallet that is open is the
\* one this keyring opens; unless the words were acknowledged while a call to make a
\* keyring was under way, calls ended in another order than they began, the wallet
\* was unlocked while another was restored, or a keyring was made for a wallet that
\* existed.
KnowsTheWords == store.persistent.didInit /\ Quiet /\ mishaps = {}
                   => /\ store.persistent.keyring.words \in known
                      /\ store.runtime.wallet \in {None, store.persistent.keyring}
==============================================================================
