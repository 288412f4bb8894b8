------------------------------ MODULE Handshake ------------------------------
(***************************************************************************)
(* How a page, its frame and the worker find each other.  The worker       *)
(* installs itself in steps and announces at the end that it is ready.     *)
(* Frame and page each ask for its status, at most MaxTries times, and     *)
(* wait for the announcement if the status is not READY yet: the page      *)
(* through the frame, which passes announcements on.  Answers come through *)
(* ports and announcements as broadcasts, so that neither waits for the    *)
(* other.                                                                  *)
(***************************************************************************)
EXTENDS Naturals

CONSTANTS MaxTries,  \* status calls of one asker: 5 in the code
          MaxKills   \* bound on the times the browser kills the worker

Askers == {"frame", "page"}

VARIABLES workerAt,  \* how far install() has come
          kills,
          at,        \* at[x]: what the asker does
          tries,     \* tries[x]: status calls that have failed
          request,   \* request[x]: where the status call under way is
          reply,     \* reply[x]: the answer to it, on its way
          news,      \* news[x]: announcements on their way to x
          serving,   \* whether the FrameServer hears the page
          missed     \* missed[x]: the announcement of this worker came while x did not
                     \* wait, or did not reach x

handVars == <<workerAt, kills, at, tries, request, reply, news, serving, missed>>
askVars == <<at, tries, request, reply>>

HandInit == /\ workerAt = "loading" /\ kills = 0
            /\ at = [frame |-> "registering", page |-> "idle"]
            /\ tries = [x \in Askers |-> 0]
            /\ request = [x \in Askers |-> "none"]
            /\ reply = [x \in Askers |-> "none"]
            /\ news = [x \in Askers |-> 0]
            /\ serving = FALSE
            /\ missed = [x \in Askers |-> FALSE]

------------------------------------------------------------------------------
(* worker.ts: install() *)

\* The stored state is read, and migrated, before the server exists; then the
\* controllers register their handlers and, last, the status handler is added.
Boot == \/ workerAt = "loading" /\ workerAt' = "silent"
        \/ workerAt = "silent" /\ workerAt' = "initializing"

\* Seeded fault: the announcement is forgotten.
BecomeReadySilently == /\ workerAt = "initializing"
                       /\ workerAt' = "ready"
                       /\ UNCHANGED <<news, missed>>

\* HubController.start() has the branding: the status is READY, and a broadcast
\* says so to the windows that matchAll() returns, the frame among them or not.
BecomeReady == /\ workerAt = "initializing"
               /\ workerAt' = "ready"
               /\ \/ news' = [news EXCEPT !["frame"] = @ + 1] /\ UNCHANGED missed
                  \/ missed' = [x \in Askers |-> TRUE] /\ UNCHANGED news

WorkerProceeds == /\ \/ Boot /\ UNCHANGED <<news, missed>>
                     \/ BecomeReady
                  /\ UNCHANGED <<kills, askVars, serving>>

\* install() rejects, and stays where it was: storage, or four requests for the
\* branding, have failed.
WorkerFails == /\ \/ workerAt = "loading" /\ workerAt' = "unloaded"
                  \/ workerAt = "silent" /\ workerAt' = "unanswering"
                  \/ workerAt = "initializing" /\ workerAt' = "failed"
               /\ UNCHANGED <<kills, askVars, news, serving, missed>>

\* The browser kills the worker; the next event starts install() again.
KillInstalled == /\ kills < MaxKills
                 /\ kills' = kills + 1
                 /\ workerAt' = "loading"
                 /\ missed' = [x \in Askers |-> FALSE]
                 /\ UNCHANGED <<askVars, news, serving>>

------------------------------------------------------------------------------
(* serviceWorkerClient.ts and Client.load() *)

Becomes(x, what) == at' = [at EXCEPT ![x] = what]

\* The registered worker is, or becomes, activated: the frame makes its server and
\* begins to ask.
Load == /\ at["frame"] = "registering"
        /\ Becomes("frame", "asking")
        /\ serving' = TRUE
        /\ UNCHANGED <<workerAt, kills, tries, request, reply, news, missed>>

RegistrationFails == /\ at["frame"] = "registering"
                     /\ Becomes("frame", "unregistered")
                     /\ UNCHANGED <<workerAt, kills, tries, request, reply, news, serving, missed>>

\* The worker has become redundant: the frame no longer hears the page.
StopServing == /\ serving
               /\ serving' = FALSE
               /\ UNCHANGED <<workerAt, kills, askVars, news, missed>>

\* Vynos.doInit(): the iframe is in place, and its load event has come.
InitPage == /\ at["page"] = "idle"
            /\ Becomes("page", "asking")
            /\ UNCHANGED <<workerAt, kills, tries, request, reply, news, serving, missed>>

------------------------------------------------------------------------------
(* statusWithRetry(), of the frame's Client and of VynosClient *)

Ask(x) == /\ at[x] = "asking" /\ request[x] = "none"
          /\ request' = [request EXCEPT ![x] = IF x = "page" THEN "frame" ELSE "worker"]
          /\ UNCHANGED <<workerAt, kills, at, tries, reply, news, serving, missed>>

\* The FrameServer hands the status call of the page on.
PassStatus == /\ request["page"] = "frame" /\ serving
              /\ request' = [request EXCEPT !["page"] = "worker"]
              /\ UNCHANGED <<workerAt, kills, at, tries, reply, news, serving, missed>>

\* What the worker answers, if its server is there to hear.
Status == CASE workerAt \in {"silent", "unanswering"} -> "not found"
            [] workerAt \in {"initializing", "failed"} -> "INITIALIZING"
            [] workerAt = "ready" -> "READY"
            [] OTHER -> "none"

Serve(x) == /\ request[x] = "worker"
            /\ request' = [request EXCEPT ![x] = "served"]
            /\ reply' = [reply EXCEPT ![x] = Status]
            /\ UNCHANGED <<workerAt, kills, at, tries, news, serving, missed>>

EndsCall(x) == /\ request' = [request EXCEPT ![x] = "none"]
               /\ reply' = [reply EXCEPT ![x] = "none"]
               /\ UNCHANGED <<workerAt, kills, news, serving, missed>>

\* Out of tries, the frame waits for the announcement, and initialize() rejects.
AfterFailure(x) == IF tries'[x] < MaxTries THEN "asking"
                   ELSE IF x = "page" THEN "rejected" ELSE "waiting"

\* READY ends the handshake; any other status is waited out.
ReceiveStatus(x) == /\ at[x] = "asking"
                    /\ reply[x] \in {"INITIALIZING", "READY"}
                    /\ Becomes(x, IF reply[x] = "READY" THEN "started" ELSE "waiting")
                    /\ EndsCall(x)
                    /\ UNCHANGED tries

\* An error answer: the rest of five seconds passes before the next try.
ReceiveError(x) == /\ at[x] = "asking"
                   /\ reply[x] = "not found"
                   /\ Becomes(x, "pausing")
                   /\ EndsCall(x)
                   /\ UNCHANGED tries
EndPause(x) == /\ at[x] = "pausing"
               /\ tries' = [tries EXCEPT ![x] = @ + 1]
               /\ Becomes(x, AfterFailure(x))
               /\ UNCHANGED <<workerAt, kills, request, reply, news, serving, missed>>

\* No answer in five seconds; a later one is not looked at.
TimeOut(x) == /\ at[x] = "asking" /\ request[x] # "none"
              /\ tries' = [tries EXCEPT ![x] = @ + 1]
              /\ Becomes(x, AfterFailure(x))
              /\ EndsCall(x)

\* Client.load() has been called: there is a WorkerProxy, which hears the worker.
Loaded == at["frame"] \notin {"registering", "unregistered"}

\* The announcement comes in.  The frame, once loaded, passes it on twice, by the
\* FrameServer and by Client.passEvent(), which go on after unload().
Hear(x) ==
  /\ news[x] > 0
  /\ news' = [y \in Askers |->
               IF y = x THEN news[y] - 1
               ELSE IF y = "page" /\ Loaded THEN news[y] + 2 ELSE news[y]]
  /\ at' = IF at[x] = "waiting" THEN [at EXCEPT ![x] = "started"] ELSE at
  /\ missed' = [y \in Askers |->
                 \/ missed[y]
                 \/ /\ workerAt = "ready"
                    /\ \/ y = x /\ at[x] \notin {"waiting", "started"}
                       \/ x = "frame" /\ y = "page" /\ ~Loaded]
  /\ UNCHANGED <<workerAt, kills, tries, request, reply, serving>>

------------------------------------------------------------------------------
Attempts(x) == \/ Ask(x)
               \/ Serve(x)
               \/ ReceiveStatus(x)
               \/ ReceiveError(x)
               \/ EndPause(x)
               \/ TimeOut(x)
               \/ Hear(x)

Proceeds == \/ WorkerProceeds
            \/ Load
            \/ PassStatus
            \/ \E x \in Askers : Attempts(x)

HandNext == \/ Proceeds
            \/ WorkerFails
            \/ KillInstalled
            \/ RegistrationFails
            \/ StopServing
            \/ InitPage

------------------------------------------------------------------------------
(* Properties *)

HandTypeOK ==
  /\ workerAt \in {"loading", "unloaded", "silent", "unanswering", "initializing",
                   "failed", "ready"}
  /\ kills \in 0 .. MaxKills
  /\ at \in [Askers -> {"idle", "registering", "unregistered", "asking", "pausing",
                        "waiting", "started", "rejected"}]
  /\ tries \in [Askers -> 0 .. MaxTries]
  /\ request \in [Askers -> {"none", "frame", "worker", "served"}]
  /\ reply \in [Askers -> {"none", "not found", "INITIALIZING", "READY"}]
  /\ news \in [Askers -> Nat]
  /\ serving \in BOOLEAN /\ missed \in [Askers -> BOOLEAN]

\* An asker that waits for a worker which is ready has the announcement coming, by way
\* of the frame perhaps; or it came before the asker waited, or did not reach it: the
\* frame was not among the clients of the worker, or not loaded yet.
AnnouncementsReach ==
  \A x \in Askers : at[x] = "waiting" /\ workerAt = "ready"
                    => \/ news[x] > 0
                       \/ x = "page" /\ news["frame"] > 0
                       \/ missed[x]

\* With a worker that is ready for good, an asker starts, or gives up, unless it
\* waits for an announcement that came before it began to wait: one that overtook
\* the answer INITIALIZING, came during the pause after the last failed try, or did
\* not reach the frame, or the page because the frame had not been loaded.
Ended(x) == \/ at[x] \in {"started", "rejected", "unregistered", "idle"}
            \/ at[x] = "waiting" /\ missed[x]
HandshakeEnds == <>[](workerAt = "ready") => \A x \in Askers : <>[]Ended(x)
==============================================================================
