------------------------------ MODULE Messaging ------------------------------
(***************************************************************************)
(* Calls between the page, the frame and the worker.  A JsonRpcClient      *)
(* sends a request with a port for the answer and sets a timer; the        *)
(* JsonRpcServer at the other end looks for a handler and answers through  *)
(* the port.  The FrameServer hands the calls of the page on to the        *)
(* worker, through the client of the frame, so that such a call has two    *)
(* promises, two timers and two answers.  What is lost on the way is       *)
(* reported by the timers alone.                                           *)
(***************************************************************************)
EXTENDS Naturals, FiniteSets

CONSTANTS Calls,
          Caller,     \* Caller[c]: "page" or "frame", who makes the call
          Method,     \* Method[c]: the method called
          Origin,     \* Origin[c]: the origin of the calling window
          Passed,     \* the methods that the FrameServer hands on
          Controlled, \* the methods that controllers of the worker register
          Engine,     \* the eth_ methods, which the provider engine handles
          Whitelist   \* Whitelist[l]: the origins that the server for l allows

Layers == {"page", "frame"}
Outcomes == {"result", "error", "timeout"}

ASSUME MessagingAssumption == Caller \in [Calls -> Layers]

VARIABLES client,    \* client[l][c]: the promise of the call in the client of l
          requests,  \* <<l, c>>: requests on the way to the server for l
          answers,   \* <<l, c, outcome>>: answers on the way back to l
          work,      \* work[c]: what became of the call in the servers
          handlers,  \* the methods that have a handler in the worker
          listening  \* whether the FrameServer hears the page

msgVars == <<client, requests, answers, work, handlers, listening>>

MsgInit == /\ client = [l \in Layers |-> [c \in Calls |-> "idle"]]
           /\ requests = {} /\ answers = {}
           /\ work = [c \in Calls |-> "none"]
           /\ handlers = Controlled
           /\ listening = TRUE

Becomes(l, c, outcome) == [client EXCEPT ![l][c] = outcome]

Answer(l, c, outcome) == answers \cup {<<l, c, outcome>>}

------------------------------------------------------------------------------
(* JsonRpcClient *)

\* callWithTimeout(): the request is posted and the timer set.
Call(c) == /\ client[Caller[c]][c] = "idle"
           /\ client' = Becomes(Caller[c], c, "waiting")
           /\ requests' = requests \cup {<<Caller[c], c>>}
           /\ UNCHANGED <<answers, work, handlers, listening>>

\* How a promise settles; in the frame, a call of the page settles by answering the
\* page, with the result or the error, the one of the timer included.
Settles(l, c, outcome, rest) ==
  /\ client' = IF client[l][c] = "waiting" THEN Becomes(l, c, outcome) ELSE client
  /\ answers' = IF client[l][c] = "waiting" /\ l # Caller[c]
                  THEN rest \cup {<<Caller[c], c, outcome>>} ELSE rest
  /\ UNCHANGED <<requests, work, handlers, listening>>

\* Seeded fault: an error answer settles the promise like a result.
ReceiveAsResult(l, c) ==
  \E outcome \in Outcomes :
    /\ <<l, c, outcome>> \in answers
    /\ Settles(l, c, IF outcome = "error" THEN "result" ELSE outcome,
               answers \ {<<l, c, outcome>>})

\* The answer comes through the port of the call: it settles the promise, unless
\* the timer has done so.
Receive(l, c) == \E outcome \in Outcomes :
                   /\ <<l, c, outcome>> \in answers
                   /\ Settles(l, c, outcome, answers \ {<<l, c, outcome>>})

\* The timer rejects the promise; nothing tells the server.
Expire(l, c) == /\ client[l][c] = "waiting"
                /\ Settles(l, c, "timeout", answers)

------------------------------------------------------------------------------
(* JsonRpcServer *)

\* onMessage() does not hear windows of other origins.
IsAllowed(l, c) == (IF l = Caller[c] THEN Origin[c] ELSE "frame") \in Whitelist[l]

Takes(l, c) == /\ <<l, c>> \in requests
               /\ IsAllowed(l, c)

\* FrameServer: a method it hands on is called in the worker, with a timer of its
\* own; any other is answered with METHOD_NOT_FOUND.
HandOn(c) ==
  /\ Takes("page", c)
  /\ listening
  /\ IF Method[c] \in Passed
       THEN /\ client' = Becomes("frame", c, "waiting")
            /\ requests' = (requests \ {<<"page", c>>}) \cup {<<"frame", c>>}
            /\ UNCHANGED <<answers, work>>
       ELSE /\ requests' = requests \ {<<"page", c>>}
            /\ answers' = Answer("page", c, "error")
            /\ work' = [work EXCEPT ![c] = "refused"]
            /\ UNCHANGED client
  /\ UNCHANGED <<handlers, listening>>

\* WorkerServer.findHandler(): eth_ methods go to the provider engine, the others
\* to the handler that a controller registered, if one is registered now.
Found(c) == Method[c] \in Engine \cup handlers

Serve(c) ==
  /\ Takes("frame", c)
  /\ requests' = requests \ {<<"frame", c>>}
  /\ IF Found(c)
       THEN /\ work' = [work EXCEPT ![c] = "working"]
            /\ UNCHANGED answers
       ELSE /\ work' = [work EXCEPT ![c] = "refused"]
            /\ answers' = Answer("frame", c, "error")
  /\ UNCHANGED <<client, handlers, listening>>

\* The handler calls back, with a result or with the error it caught.
CallBack(c) ==
  /\ work[c] = "working"
  /\ \/ /\ work' = [work EXCEPT ![c] = "carried"]
        /\ answers' = Answer("frame", c, "result")
     \/ /\ work' = [work EXCEPT ![c] = "refused"]
        /\ answers' = Answer("frame", c, "error")
  /\ UNCHANGED <<client, requests, handlers, listening>>

\* A request finds nobody who listens, or a window of another origin.
Lose(l, c) == /\ <<l, c>> \in requests
              /\ requests' = requests \ {<<l, c>>}
              /\ UNCHANGED <<client, answers, work, handlers, listening>>

\* addHandler() and removeHandler(), as controllers start and stop.
Register(m) == /\ m \notin handlers
               /\ handlers' = handlers \cup {m}
               /\ UNCHANGED <<client, requests, answers, work, listening>>
Unregister(m) == /\ m \in handlers
                 /\ handlers' = handlers \ {m}
                 /\ UNCHANGED <<client, requests, answers, work, listening>>

\* The browser kills the worker: handlers that have not called back never will.
KillWorker == /\ work' = [c \in Calls |-> IF work[c] = "working" THEN "killed" ELSE work[c]]
              /\ work' # work
              /\ UNCHANGED <<client, requests, answers, handlers, listening>>

\* Client.unload() stops the FrameServer, when the worker has been replaced.
Unload == /\ listening
          /\ listening' = FALSE
          /\ UNCHANGED <<client, requests, answers, work, handlers>>

------------------------------------------------------------------------------
Carry(c) == \/ Call(c)
            \/ \E l \in Layers : \/ Receive(l, c)
                                 \/ Expire(l, c)
                                 \/ Lose(l, c)
            \/ HandOn(c)
            \/ Serve(c)
            \/ CallBack(c)

MsgNext == \/ \E c \in Calls : Carry(c)
           \/ \E m \in Controlled : Register(m) \/ Unregister(m)
           \/ KillWorker
           \/ Unload

MsgSpec == MsgInit /\ [][MsgNext]_msgVars

------------------------------------------------------------------------------
(* Properties *)

MsgTypeOK ==
  /\ client \in [Layers -> [Calls -> {"idle", "waiting"} \cup Outcomes]]
  /\ requests \subseteq Layers \X Calls
  /\ answers \subseteq Layers \X Calls \X Outcomes
  /\ work \in [Calls -> {"none", "working", "carried", "refused", "killed"}]
  /\ handlers \subseteq Controlled
  /\ listening \in BOOLEAN

\* Over two clients, two servers and two timers, a call keeps the contract of a
\* single one: a result or an error answer that reaches the caller tells the truth
\* about what the worker did, and only a timeout leaves it open.
Contract == INSTANCE CallContract
              WITH promise <- [c \in Calls |-> client[Caller[c]][c]],
                   carried <- {c \in Calls : work[c] = "carried"},
                   refused <- {c \in Calls : work[c] = "refused"}

AnswersTellTheTruth == Contract!Spec
==============================================================================
