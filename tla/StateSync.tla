------------------------------ MODULE StateSync ------------------------------
(***************************************************************************)
(* How frame and page follow the worker.  Every dispatch in the worker     *)
(* broadcasts the shared state to the frames, and a frame passes the       *)
(* broadcast on to its page.  Each also fetches the state once, when it    *)
(* starts, and only then begins to listen: the answer comes through a port *)
(* of its own, and may be older or newer than the broadcasts around it.    *)
(* The page turns what it hears into events and into the display of the    *)
(* iframe, whose cover goes with a timer.                                  *)
(***************************************************************************)
EXTENDS WorkerStore, Naturals, Sequences

CONSTANTS Dispatches,    \* actions that controllers dispatch: [type, payload]
          MaxDispatches  \* bound on them

Mirrors == {"frame", "page"}

VARIABLES store,       \* the redux state of the worker
          dispatched,  \* the number of dispatches, the version of the store
          toFrame,     \* broadcasts on their way to the frame: [version, state]
          toPage,      \* and from the frame to the page
          fetch,       \* fetch[x]: how far x is with fetching the state
          reply,       \* reply[x]: the answer, with its version
          lost,        \* lost[x]: x dropped a broadcast newer than what it shows
          frame,       \* the redux state of the frame: [temp, shared]
          page         \* the fields of Vynos and of its Frame

syncVars == <<store, dispatched, toFrame, toPage, fetch, reply, lost, frame, page>>
pageVars == <<toPage, page>>

FrameState(shared) == [temp |-> [mnemonic |-> None, showInitialDeposit |-> FALSE],
                       shared |-> shared]

\* The iframe begins hidden, and its cover is about to go.
InitialPage == [previous |-> InitialSharedState, unlocked |-> FALSE, told |-> FALSE,
                displayed |-> FALSE, cover |-> "block", hideTimers |-> 1, uncovered |-> FALSE]

\* The worker has the state that is given, and the frame shows shared.
SyncInit(state, shared) ==
  /\ store = state /\ dispatched = 0
  /\ toFrame = << >> /\ toPage = << >>
  /\ fetch = [x \in Mirrors |-> "none"]
  /\ reply = [x \in Mirrors |-> None]
  /\ lost = [x \in Mirrors |-> FALSE]
  /\ frame = FrameState(shared)
  /\ page = InitialPage

------------------------------------------------------------------------------
(* The worker *)

\* Seeded fault: what is broadcast is the state before the dispatch.
BroadcastEarly(s, version) ==
  /\ store' = s
  /\ dispatched' = version
  /\ toFrame' = Append(toFrame, [version |-> version, state |-> BuildSharedState(store)])

\* The subscriber of didChangeSharedState() broadcasts what the store has become.
Broadcast(s, version) ==
  /\ store' = s
  /\ dispatched' = version
  /\ toFrame' = Append(toFrame, [version |-> version, state |-> BuildSharedState(s)])

Commit(s) == Broadcast(s, dispatched + 1)

Dispatch(a) == /\ dispatched < MaxDispatches
               /\ Commit(Reduce(store, a))
               /\ UNCHANGED <<fetch, reply, lost, frame, pageVars>>

\* The handler of getSharedState.
GetSharedState(x) ==
  /\ fetch[x] = "asked"
  /\ fetch' = [fetch EXCEPT ![x] = "answered"]
  /\ reply' = [reply EXCEPT ![x] = [version |-> dispatched, state |-> BuildSharedState(store)]]
  /\ UNCHANGED <<store, dispatched, toFrame, lost, frame, pageVars>>

------------------------------------------------------------------------------
(* The frame *)

\* renderToMountPoint() and doInit() ask for the state before they listen.
AskSharedState(x) == /\ fetch[x] = "none"
                     /\ fetch' = [fetch EXCEPT ![x] = "asked"]
                     /\ UNCHANGED <<store, dispatched, toFrame, reply, lost, frame, pageVars>>

\* wireToLocal(): listen, then show what was fetched.
WireToLocal == /\ fetch["frame"] = "answered"
               /\ fetch' = [fetch EXCEPT !["frame"] = "done"]
               /\ frame' = [frame EXCEPT !.shared = reply["frame"].state]
               /\ UNCHANGED <<store, dispatched, toFrame, reply, lost, pageVars>>

\* What x drops of a broadcast, and what the next broadcast makes good.
LostAfter(x, message) ==
  [lost EXCEPT ![x] = /\ fetch[x] # "done"
                      /\ \/ @
                         \/ fetch[x] = "answered" /\ message.version > reply[x].version]

\* A broadcast comes to the frame, which shows it, and passes it on.
HearBroadcast ==
  /\ toFrame # << >>
  /\ toFrame' = Tail(toFrame)
  /\ toPage' = Append(toPage, Head(toFrame))
  /\ frame' = IF fetch["frame"] = "done"
                THEN [frame EXCEPT !.shared = Head(toFrame).state] ELSE frame
  /\ lost' = LostAfter("frame", Head(toFrame))
  /\ UNCHANGED <<store, dispatched, fetch, reply, page>>

------------------------------------------------------------------------------
(* The page *)

\* doInit(): keep what was fetched, listen, and say so if the wallet is unlocked.
FinishInit == /\ fetch["page"] = "answered"
              /\ fetch' = [fetch EXCEPT !["page"] = "done"]
              /\ page' = [page EXCEPT !.previous = reply["page"].state,
                                      !.unlocked = ~reply["page"].state.isLocked]
              /\ UNCHANGED <<store, dispatched, toFrame, reply, lost, frame, toPage>>

\* Frame.display() and hide(): the cover of a hidden iframe goes after 250 ms.
Display(p) == [p EXCEPT !.displayed = TRUE, !.cover = "block", !.uncovered = FALSE]
Hide(p) == [p EXCEPT !.displayed = FALSE, !.hideTimers = @ + 1]

\* handleSpecificEvents(): the events didLock and didUnlock are sent when the lock
\* state differs from that of the state before.
WithEvents(p, state) ==
  [p EXCEPT !.unlocked = IF p.previous.isLocked # state.isLocked THEN ~state.isLocked ELSE @,
            !.told = TRUE]

\* handleSharedStateUpdate()
HandleSharedStateUpdate(p, state) ==
  [(IF state.isFrameDisplayed THEN Display(WithEvents(p, state)) ELSE Hide(WithEvents(p, state)))
     EXCEPT !.previous = state]

HearUpdate ==
  /\ toPage # << >>
  /\ toPage' = Tail(toPage)
  /\ page' = IF fetch["page"] = "done"
               THEN HandleSharedStateUpdate(page, Head(toPage).state) ELSE page
  /\ lost' = LostAfter("page", Head(toPage))
  /\ UNCHANGED <<store, dispatched, toFrame, fetch, reply, frame>>

\* A timer of hide() fires, whatever has been displayed since.
RemoveCover == /\ page.hideTimers > 0
               /\ page' = [page EXCEPT !.hideTimers = @ - 1, !.cover = "none",
                                       !.uncovered = page.displayed]
               /\ UNCHANGED <<store, dispatched, toFrame, toPage, fetch, reply, lost, frame>>

------------------------------------------------------------------------------
SyncNext == \/ \E a \in Dispatches : Dispatch(a)
            \/ \E x \in Mirrors : AskSharedState(x) \/ GetSharedState(x)
            \/ WireToLocal
            \/ HearBroadcast
            \/ FinishInit
            \/ HearUpdate
            \/ RemoveCover

------------------------------------------------------------------------------
(* Properties *)

SyncTypeOK == /\ dispatched \in Nat
              /\ DOMAIN store.runtime = DOMAIN GetInitialState.runtime
              /\ fetch \in [Mirrors -> {"none", "asked", "answered", "done"}]
              /\ lost \in [Mirrors -> BOOLEAN]
              /\ DOMAIN frame.shared = DOMAIN InitialSharedState
              /\ page.cover \in {"block", "none"} /\ page.hideTimers \in Nat

FrameIsTrue == fetch["frame"] = "done" /\ toFrame = << >>
                 => frame.shared = BuildSharedState(store) \/ lost["frame"]

PageIsTrue ==
  fetch["page"] = "done" /\ toFrame = << >> /\ toPage = << >>
    => /\ page.previous = BuildSharedState(store) \/ lost["page"]
       /\ page.unlocked = ~page.previous.isLocked
       /\ page.told => page.displayed = page.previous.isFrameDisplayed
       /\ page.displayed => page.cover = "block" \/ page.uncovered

\* Whatever overtakes what, a mirror that has heard everything shows the state the
\* worker is in, or has dropped a newer broadcast while it fetched; the page has
\* told its listeners whether the wallet is locked, and an iframe that is displayed
\* is covered, unless a timer of an earlier hide() fired since.
MirrorsAreTrue == FrameIsTrue /\ PageIsTrue
==============================================================================
