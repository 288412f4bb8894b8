----------------------------- MODULE WorkerStore -----------------------------
(***************************************************************************)
(* The redux state of the worker: a persistent half, which redux-persist   *)
(* writes to disk, and a runtime half; the reducer of every action; and    *)
(* the shared state, which is the part of it that frame and page are       *)
(* shown.  A value that is only stored and shown stands for itself.        *)
(***************************************************************************)
EXTENDS Functions, TLC

CONSTANT None  \* null and undefined

EmptyBalances == [eth |-> 0, token |-> 0]
NoChannel == [ledgerId |-> "", balances |-> EmptyBalances]

GetInitialState ==
  [persistent |-> [didInit |-> FALSE, keyring |-> None, rememberPath |-> "/",
                   transactions |-> << >>],
   runtime |->
     [wallet |-> None, isTransactionPending |-> FALSE, lastUpdateDb |-> 0,
      currentHubUrl |-> "hub", currentAuthRealm |-> "", currentAuthToken |-> None,
      authorizationRequest |-> None, isFrameDisplayed |-> FALSE, isPerformer |-> FALSE,
      isPendingVerification |-> FALSE, needsCollateral |-> FALSE, forceRedirect |-> None,
      branding |-> None, channel |-> NoChannel, history |-> << >>,
      addressBalances |-> EmptyBalances, pendingTransaction |-> None,
      hasActiveWithdrawal |-> FALSE, hasActiveDeposit |-> FALSE, hasActiveExchange |-> FALSE,
      activeWithdrawalError |-> None, exchangeRates |-> << >>, username |-> None,
      baseCurrency |-> "FINNEY", renderedCurrency |-> "BOOTY",
      featureFlags |-> [bootySupport |-> TRUE], moreEthNeeded |-> FALSE,
      migrationState |-> "DONE", currentMigration |-> None]]

\* What the worker shows.  The address stands for the wallet; moreEthNeeded and
\* currentMigration are shown as constants.
BuildSharedState(s) ==
  LET own == [didInit |-> s.persistent.didInit, rememberPath |-> s.persistent.rememberPath,
              isLocked |-> s.runtime.wallet = None,
              moreEthNeeded |-> FALSE, currentMigration |-> None]
  IN  [x \in DOMAIN own \cup DOMAIN s.runtime |->
         IF x \in DOMAIN own THEN own[x] ELSE s.runtime[x]]

\* What frame and page show before they have heard of the worker.
InitialSharedState ==
  [BuildSharedState(GetInitialState) EXCEPT !.baseCurrency = "WEI",
                                            !.featureFlags = [bootySupport |-> FALSE]]

------------------------------------------------------------------------------
(* Reducers, named for their actions *)

SetExchangeRates(s, rates) == [s EXCEPT !.runtime.exchangeRates = rates @@ @]

\* Another wallet, or none, makes the token void.
SetWallet(s, wallet) == [s EXCEPT !.runtime.currentAuthToken = None,
                                  !.runtime.wallet = wallet]

SetBaseCurrency(s, currency) ==
  [s EXCEPT !.runtime.baseCurrency = currency,
            !.runtime.renderedCurrency = IF currency = "WEI" THEN "FINNEY" ELSE "BOOTY"]

SetFeatureFlags(s, flags) ==
  SetBaseCurrency([s EXCEPT !.runtime.featureFlags = flags],
                  IF flags.bootySupport THEN "BEI" ELSE "WEI")

SetMoreEthNeeded(s, needed) == [s EXCEPT !.runtime.moreEthNeeded = needed]
SetIsPendingVerification(s, pending) == [s EXCEPT !.runtime.isPendingVerification = pending]
SetNeedsCollateral(s, needs) == [s EXCEPT !.runtime.needsCollateral = needs]
SetKeyring(s, keyring) == [s EXCEPT !.persistent.keyring = keyring]

\* The wallet is set together with its keyring, and the token is kept.
RestoreWallet(s, param) == [s EXCEPT !.persistent.didInit = TRUE,
                                     !.persistent.keyring = param.keyring,
                                     !.runtime.wallet = param.wallet]

SetDidStoreMnemonic(s) == [s EXCEPT !.persistent.didInit = TRUE]
SetHasActiveDeposit(s, active) == [s EXCEPT !.runtime.hasActiveDeposit = active]

\* What was not in the state that was read from disk.
SetInitialState(s) == [persistent |-> s.persistent @@ GetInitialState.persistent,
                       runtime |-> s.runtime]

SetTransactionState(s, param) ==
  [s EXCEPT !.persistent.transactions = (param.name :> param.newState) @@ @]

RemoveTransactionState(s, name) ==
  [s EXCEPT !.persistent.transactions = Restrict(@, DOMAIN @ \ {name})]

SetTransactionPending(s, pending) == [s EXCEPT !.runtime.isTransactionPending = pending]
RememberPage(s, path) == [s EXCEPT !.persistent.rememberPath = path]
SetLastUpdateDb(s, timestamp) == [s EXCEPT !.runtime.lastUpdateDb = timestamp]
SetCurrentHubUrl(s, url) == [s EXCEPT !.runtime.currentHubUrl = url]
SetCurrentAuthRealm(s, realm) == [s EXCEPT !.runtime.currentAuthRealm = realm]
SetCurrentAuthToken(s, token) == [s EXCEPT !.runtime.currentAuthToken = token]
SetHubBranding(s, branding) == [s EXCEPT !.runtime.branding = branding]

\* All three are set: hiding the frame forgets the redirection and the performer.
ToggleFrame(s, param) == [s EXCEPT !.runtime.isFrameDisplayed = param.isFrameDisplayed,
                                   !.runtime.forceRedirect = param.forceRedirect,
                                   !.runtime.isPerformer = param.isPerformer]

SetChannel(s, channel) == IF channel = None THEN s ELSE [s EXCEPT !.runtime.channel = channel]
SetHistory(s, history) == [s EXCEPT !.runtime.history = history]
SetAddressBalances(s, balances) == [s EXCEPT !.runtime.addressBalances = balances]
SetPendingTransaction(s, transaction) == [s EXCEPT !.runtime.pendingTransaction = transaction]
SetHasActiveWithdrawal(s, active) == [s EXCEPT !.runtime.hasActiveWithdrawal = active]
SetActiveWithdrawalError(s, error) == [s EXCEPT !.runtime.activeWithdrawalError = error]
SetUsername(s, username) == [s EXCEPT !.runtime.username = username]
SetMigrationState(s, param) == [s EXCEPT !.runtime.migrationState = param.state,
                                         !.runtime.currentMigration = param.currentMigration]

\* The reducer: what an action does to the state.  setHasActiveExchange has a
\* handler, but no case, and changes nothing.
Reduce(s, a) ==
  CASE a.type = "setWallet" -> SetWallet(s, a.payload)
    [] a.type = "setKeyring" -> SetKeyring(s, a.payload)
    [] a.type = "setDidStoreMnemonic" -> SetDidStoreMnemonic(s)
    [] a.type = "restoreWallet" -> RestoreWallet(s, a.payload)
    [] a.type = "setTransactionPending" -> SetTransactionPending(s, a.payload)
    [] a.type = "rememberPage" -> RememberPage(s, a.payload)
    [] a.type = "setLastUpdateDb" -> SetLastUpdateDb(s, a.payload)
    [] a.type = "setHubBranding" -> SetHubBranding(s, a.payload)
    [] a.type = "setCurrentHubUrl" -> SetCurrentHubUrl(s, a.payload)
    [] a.type = "setCurrentAuthRealm" -> SetCurrentAuthRealm(s, a.payload)
    [] a.type = "toggleFrame" -> ToggleFrame(s, a.payload)
    [] a.type = "setChannel" -> SetChannel(s, a.payload)
    [] a.type = "setCurrentAuthToken" -> SetCurrentAuthToken(s, a.payload)
    [] a.type = "setHistory" -> SetHistory(s, a.payload)
    [] a.type = "setPendingTransaction" -> SetPendingTransaction(s, a.payload)
    [] a.type = "setHasActiveWithdrawal" -> SetHasActiveWithdrawal(s, a.payload)
    [] a.type = "setActiveWithdrawalError" -> SetActiveWithdrawalError(s, a.payload)
    [] a.type = "setExchangeRates" -> SetExchangeRates(s, a.payload)
    [] a.type = "setUsername" -> SetUsername(s, a.payload)
    [] a.type = "setTransactionState" -> SetTransactionState(s, a.payload)
    [] a.type = "setIsPendingVerification" -> SetIsPendingVerification(s, a.payload)
    [] a.type = "setHasActiveDeposit" -> SetHasActiveDeposit(s, a.payload)
    [] a.type = "removeTransactionState" -> RemoveTransactionState(s, a.payload)
    [] a.type = "setInitialState" -> SetInitialState(s)
    [] a.type = "setFeatureFlags" -> SetFeatureFlags(s, a.payload)
    [] a.type = "setBaseCurrency" -> SetBaseCurrency(s, a.payload)
    [] a.type = "setAddressBalances" -> SetAddressBalances(s, a.payload)
    [] a.type = "setMoreEthNeeded" -> SetMoreEthNeeded(s, a.payload)
    [] a.type = "setMigrationState" -> SetMigrationState(s, a.payload)
    [] a.type = "setNeedsCollateral" -> SetNeedsCollateral(s, a.payload)
    [] OTHER -> s
==============================================================================
