--------------------------- MODULE MessagingProofs ---------------------------
(***************************************************************************)
(* Calls keep their contract, over any number of calls: the theorems       *)
(* behind the property AnswersTellTheTruth of Messaging.                   *)
(***************************************************************************)
EXTENDS Messaging, TLAPS

\* What is known of one call.  A request that is on its way has not been worked on,
\* and is in one place; an answer tells what became of the work; and nothing happens
\* before the call is made.
Consistent(c) ==
  /\ client[Caller[c]][c] = "idle" =>
       work[c] = "none" /\ \A l \in Layers : <<l, c>> \notin requests
  /\ \A l \in Layers : <<l, c>> \in requests => work[c] = "none"
  /\ <<"page", c>> \in requests => Caller[c] = "page" /\ <<"frame", c>> \notin requests
  /\ \A l \in Layers : <<l, c, "result">> \in answers => work[c] = "carried"
  /\ \A l \in Layers : <<l, c, "error">> \in answers => work[c] = "refused"

MsgInv == MsgTypeOK /\ \A c \in Calls : Consistent(c)

LEMMA MsgInvInit == MsgInit => MsgInv
  BY MessagingAssumption DEF MsgInit, MsgInv, MsgTypeOK, Consistent, Layers

\* One promise settles, or is made, and no other changes.
LEMMA OnePromise ==
  ASSUME MsgTypeOK, NEW l \in Layers, NEW c \in Calls,
         NEW outcome \in {"waiting"} \cup Outcomes, client' = Becomes(l, c, outcome)
  PROVE  /\ client' \in [Layers -> [Calls -> {"idle", "waiting"} \cup Outcomes]]
         /\ client'[l][c] = outcome
         /\ \A k \in Layers, d \in Calls : k # l \/ d # c => client'[k][d] = client[k][d]
<1>1. client'[l] = [client[l] EXCEPT ![c] = outcome]
  BY DEF MsgTypeOK, Becomes
<1>2. \A k \in Layers : k # l => client'[k] = client[k]
  BY DEF MsgTypeOK, Becomes
<1>3. QED
  BY <1>1, <1>2 DEF MsgTypeOK, Becomes

LEMMA MsgTypeInductive == MsgTypeOK /\ [MsgNext]_msgVars => MsgTypeOK'
<1> SUFFICES ASSUME MsgTypeOK, [MsgNext]_msgVars PROVE MsgTypeOK'
  OBVIOUS
<1> USE MessagingAssumption
<1>1. ASSUME NEW c \in Calls, NEW l \in Layers, NEW outcome \in Outcomes, NEW rest,
             rest \subseteq answers, Settles(l, c, outcome, rest)
      PROVE  MsgTypeOK'
  <2>1. client' \in [Layers -> [Calls -> {"idle", "waiting"} \cup Outcomes]]
    BY <1>1, OnePromise DEF Settles, MsgTypeOK
  <2>2. answers' \subseteq Layers \X Calls \X Outcomes
    BY <1>1 DEF Settles, MsgTypeOK, Layers
  <2>3. QED
    BY <1>1, <2>1, <2>2 DEF Settles, MsgTypeOK
<1>2. ASSUME NEW c \in Calls, Call(c) PROVE MsgTypeOK'
  <2>1. client' \in [Layers -> [Calls -> {"idle", "waiting"} \cup Outcomes]]
    BY <1>2, OnePromise DEF Call, Outcomes
  <2>2. requests' \subseteq Layers \X Calls
    BY <1>2 DEF Call, MsgTypeOK, Layers
  <2>3. QED
    BY <1>2, <2>1, <2>2 DEF Call, MsgTypeOK
<1>3. ASSUME NEW c \in Calls, NEW l \in Layers, Receive(l, c) PROVE MsgTypeOK'
  BY <1>1, <1>3 DEF Receive
<1>4. ASSUME NEW c \in Calls, NEW l \in Layers, Expire(l, c) PROVE MsgTypeOK'
  BY <1>1, <1>4 DEF Expire, Outcomes
<1>5. ASSUME NEW c \in Calls, NEW l \in Layers, Lose(l, c) PROVE MsgTypeOK'
  BY <1>5 DEF Lose, MsgTypeOK
<1>6. ASSUME NEW c \in Calls, HandOn(c) PROVE MsgTypeOK'
  <2>1. CASE Method[c] \in Passed
    <3>1. client' \in [Layers -> [Calls -> {"idle", "waiting"} \cup Outcomes]]
      BY <1>6, <2>1, OnePromise DEF HandOn, Layers
    <3>2. requests' \subseteq Layers \X Calls
      BY <1>6, <2>1 DEF HandOn, MsgTypeOK, Layers
    <3>3. QED
      BY <1>6, <2>1, <3>1, <3>2 DEF HandOn, MsgTypeOK
  <2>2. CASE Method[c] \notin Passed
    BY <1>6, <2>2 DEF HandOn, Answer, MsgTypeOK, Layers, Outcomes
  <2>3. QED
    BY <2>1, <2>2
<1>7. ASSUME NEW c \in Calls, Serve(c) PROVE MsgTypeOK'
  BY <1>7 DEF Serve, Answer, MsgTypeOK, Layers, Outcomes
<1>8. ASSUME NEW c \in Calls, CallBack(c) PROVE MsgTypeOK'
  BY <1>8 DEF CallBack, Answer, MsgTypeOK, Layers, Outcomes
<1>9. ASSUME NEW m \in Controlled, Register(m) \/ Unregister(m) PROVE MsgTypeOK'
  BY <1>9 DEF Register, Unregister, MsgTypeOK
<1>10. CASE KillWorker
  BY <1>10 DEF KillWorker, MsgTypeOK
<1>11. CASE Unload
  BY <1>11 DEF Unload, MsgTypeOK
<1>12. CASE UNCHANGED msgVars
  BY <1>12 DEF msgVars, MsgTypeOK
<1>13. QED
  BY <1>2, <1>3, <1>4, <1>5, <1>6, <1>7, <1>8, <1>9, <1>10, <1>11, <1>12
  DEF MsgNext, Carry

LEMMA ConsistentInductive ==
  ASSUME MsgInv, [MsgNext]_msgVars, NEW d \in Calls
  PROVE  Consistent(d)'
<1> USE MessagingAssumption DEF MsgInv
<1>1. ASSUME NEW c \in Calls, NEW l \in Layers, NEW outcome \in Outcomes, NEW rest,
             rest \subseteq answers, Settles(l, c, outcome, rest),
             outcome = "timeout" \/ <<l, c, outcome>> \in answers
      PROVE  Consistent(d)'
  <2>1. client'[Caller[d]][d] = "idle" => client[Caller[d]][d] = "idle"
    BY <1>1, OnePromise DEF Settles, Outcomes
  <2>2. /\ \A k \in Layers : <<k, d, "result">> \in answers' => work[d] = "carried"
        /\ \A k \in Layers : <<k, d, "error">> \in answers' => work[d] = "refused"
    BY <1>1 DEF Settles, Consistent
  <2>3. UNCHANGED <<requests, work>>
    BY <1>1 DEF Settles
  <2>4. QED
    BY <2>1, <2>2, <2>3 DEF Consistent
<1>2. ASSUME NEW c \in Calls, Call(c) PROVE Consistent(d)'
  <2>1. client'[Caller[d]][d] = "idle" => client[Caller[d]][d] = "idle" /\ d # c
    BY <1>2, OnePromise DEF Call, Outcomes
  <2>2. \A k \in Layers :
          <<k, d>> \in requests' => <<k, d>> \in requests \/ (d = c /\ k = Caller[c])
    BY <1>2 DEF Call
  <2>3. work[c] = "none" /\ \A k \in Layers : <<k, c>> \notin requests
    BY <1>2 DEF Call, Consistent
  <2>4. UNCHANGED <<answers, work>>
    BY <1>2 DEF Call
  <2>5. "page" \in Layers /\ "frame" \in Layers
    BY DEF Layers
  <2>6. QED
    BY <2>1, <2>2, <2>3, <2>4, <2>5 DEF Consistent
<1>3. ASSUME NEW c \in Calls, NEW l \in Layers, Receive(l, c) PROVE Consistent(d)'
  BY <1>1, <1>3 DEF Receive
<1>4. ASSUME NEW c \in Calls, NEW l \in Layers, Expire(l, c) PROVE Consistent(d)'
  BY <1>1, <1>4 DEF Expire, Outcomes
<1>5. ASSUME NEW c \in Calls, NEW l \in Layers, Lose(l, c) PROVE Consistent(d)'
  BY <1>5 DEF Lose, Consistent
<1>6. ASSUME NEW c \in Calls, HandOn(c) PROVE Consistent(d)'
  <2>1. /\ Caller[c] = "page" /\ <<"frame", c>> \notin requests /\ work[c] = "none"
        /\ client[Caller[c]][c] # "idle"
    BY <1>6 DEF HandOn, Takes, Consistent, Layers
  <2>2. CASE Method[c] \in Passed
    <3>1. client'[Caller[d]][d] = client[Caller[d]][d]
      BY <1>6, <2>1, <2>2, OnePromise DEF HandOn, Layers
    <3>2. \A k \in Layers :
            <<k, d>> \in requests' <=> IF d = c THEN k = "frame" ELSE <<k, d>> \in requests
      BY <1>6, <2>1, <2>2 DEF HandOn, Layers
    <3>3. UNCHANGED <<answers, work>>
      BY <1>6, <2>2 DEF HandOn
    <3>4. QED
      BY <2>1, <3>1, <3>2, <3>3 DEF Consistent, Layers
  <2>3. CASE Method[c] \notin Passed
    <3>1. \A k \in Layers :
            <<k, d>> \in requests' <=> <<k, d>> \in requests /\ d # c
      BY <1>6, <2>1, <2>3 DEF HandOn, Layers
    <3>2. \A k \in Layers, o \in Outcomes :
            <<k, d, o>> \in answers' =>
              <<k, d, o>> \in answers \/ (d = c /\ o = "error")
      BY <1>6, <2>3 DEF HandOn, Answer
    <3>3. work'[d] = IF d = c THEN "refused" ELSE work[d]
      BY <1>6, <2>3 DEF HandOn, MsgTypeOK
    <3>4. client' = client
      BY <1>6, <2>3 DEF HandOn
    <3>5. QED
      BY <2>1, <3>1, <3>2, <3>3, <3>4 DEF Consistent, Layers, Outcomes
  <2>4. QED
    BY <2>2, <2>3
<1>7. ASSUME NEW c \in Calls, Serve(c) PROVE Consistent(d)'
  <2>1. work[c] = "none" /\ client[Caller[c]][c] # "idle" /\ <<"page", c>> \notin requests
    BY <1>7 DEF Serve, Takes, Consistent, Layers
  <2>2. \A k \in Layers : <<k, d>> \in requests' <=> <<k, d>> \in requests /\ d # c
    BY <1>7, <2>1 DEF Serve, Layers
  <2>3. \A k \in Layers, o \in Outcomes :
          <<k, d, o>> \in answers' =>
            <<k, d, o>> \in answers \/ (d = c /\ o = "error" /\ work'[c] = "refused")
    BY <1>7 DEF Serve, Answer, MsgTypeOK
  <2>4. d # c => work'[d] = work[d]
    BY <1>7 DEF Serve, MsgTypeOK
  <2>5. client' = client
    BY <1>7 DEF Serve
  <2>6. QED
    BY <2>1, <2>2, <2>3, <2>4, <2>5 DEF Consistent, Layers, Outcomes
<1>8. ASSUME NEW c \in Calls, CallBack(c) PROVE Consistent(d)'
  <2>1. work[c] = "working" /\ UNCHANGED <<client, requests>>
    BY <1>8 DEF CallBack
  <2>2. \A k \in Layers, o \in Outcomes :
          <<k, d, o>> \in answers' =>
            \/ <<k, d, o>> \in answers
            \/ d = c /\ o = "error" /\ work'[c] = "refused"
            \/ d = c /\ o = "result" /\ work'[c] = "carried"
    BY <1>8 DEF CallBack, Answer, MsgTypeOK
  <2>3. d # c => work'[d] = work[d]
    BY <1>8 DEF CallBack, MsgTypeOK
  <2>4. QED
    BY <2>1, <2>2, <2>3 DEF Consistent, Layers, Outcomes
<1>9. ASSUME NEW m \in Controlled, Register(m) \/ Unregister(m) PROVE Consistent(d)'
  BY <1>9 DEF Register, Unregister, Consistent
<1>10. CASE KillWorker
  BY <1>10 DEF KillWorker, Consistent, MsgTypeOK
<1>11. CASE Unload
  BY <1>11 DEF Unload, Consistent
<1>12. CASE UNCHANGED msgVars
  BY <1>12 DEF msgVars, Consistent
<1>13. QED
  BY <1>2, <1>3, <1>4, <1>5, <1>6, <1>7, <1>8, <1>9, <1>10, <1>11, <1>12
  DEF MsgNext, Carry

LEMMA MsgInvInductive == MsgInv /\ [MsgNext]_msgVars => MsgInv'
<1> SUFFICES ASSUME MsgInv, [MsgNext]_msgVars PROVE MsgInv'
  OBVIOUS
<1>1. MsgTypeOK'
  BY MsgTypeInductive DEF MsgInv
<1>2. ASSUME NEW d \in Calls PROVE Consistent(d)'
  BY ConsistentInductive
<1>3. QED
  BY <1>1, <1>2 DEF MsgInv

LEMMA MsgInvariant == MsgSpec => []MsgInv
  BY MsgInvInit, MsgInvInductive, PTL DEF MsgSpec

\* The promises, the messages and the handlers keep their types, whatever is lost
\* and whoever is killed (JsonRpcClient.ts:58-105, JsonRpcServer.ts:89-131).
THEOREM MessagingTyping == MsgSpec => []MsgTypeOK
<1>1. MsgInv => MsgTypeOK
  BY DEF MsgInv
<1>2. QED
  BY <1>1, MsgInvariant, PTL
------------------------------------------------------------------------------
(* The contract of a call *)

LEMMA MsgInitContract == MsgInit => Contract!Init
  BY MessagingAssumption DEF MsgInit, Contract!Init, Layers

\* How the caller's promise, and the fate of its call, follow a step.
LEMMA ContractStep == MsgInv /\ [MsgNext]_msgVars => [Contract!Next]_(Contract!contract)
<1> SUFFICES ASSUME MsgInv, [MsgNext]_msgVars
             PROVE  [Contract!Next]_(Contract!contract)
  OBVIOUS
<1> USE MessagingAssumption
    DEF MsgInv, MsgTypeOK, Consistent, Layers, Outcomes,
        Contract!contract, Contract!Next, Contract!Settle
<1>1. ASSUME NEW c \in Calls, Call(c) PROVE Contract!Ask(c)
  BY <1>1 DEF Call, Becomes, Contract!Ask
<1>2. ASSUME NEW c \in Calls, NEW l \in Layers, Receive(l, c)
      PROVE  [Contract!Next]_(Contract!contract)
  <2>1. PICK outcome \in Outcomes :
          /\ <<l, c, outcome>> \in answers
          /\ Settles(l, c, outcome, answers \ {<<l, c, outcome>>})
    BY <1>2 DEF Receive
  <2>2. CASE client[l][c] = "waiting" /\ l = Caller[c]
    <3>1. CASE outcome = "result"
      <4>1. Contract!Resolve(c)
        BY <2>1, <2>2, <3>1 DEF Settles, Becomes, Contract!Resolve
      <4>2. QED
        BY <4>1
    <3>2. CASE outcome = "error"
      <4>1. Contract!Reject(c)
        BY <2>1, <2>2, <3>2 DEF Settles, Becomes, Contract!Reject
      <4>2. QED
        BY <4>1
    <3>3. CASE outcome = "timeout"
      <4>1. Contract!TimeOut(c)
        BY <2>1, <2>2, <3>3 DEF Settles, Becomes, Contract!TimeOut
      <4>2. QED
        BY <4>1
    <3>4. QED
      BY <3>1, <3>2, <3>3
  <2>3. CASE ~(client[l][c] = "waiting" /\ l = Caller[c])
    BY <2>1, <2>3 DEF Settles, Becomes
  <2>4. QED
    BY <2>2, <2>3
<1>3. ASSUME NEW c \in Calls, NEW l \in Layers, Expire(l, c)
      PROVE  [Contract!Next]_(Contract!contract)
  <2>1. CASE l = Caller[c]
    <3>1. Contract!TimeOut(c)
      BY <1>3, <2>1 DEF Expire, Settles, Becomes, Contract!TimeOut
    <3>2. QED
      BY <3>1
  <2>2. CASE l # Caller[c]
    BY <1>3, <2>2 DEF Expire, Settles, Becomes
  <2>3. QED
    BY <2>1, <2>2
<1>4. ASSUME NEW c \in Calls, NEW l \in Layers, Lose(l, c)
      PROVE  UNCHANGED Contract!contract
  BY <1>4 DEF Lose
<1>5. ASSUME NEW c \in Calls, HandOn(c) PROVE [Contract!Next]_(Contract!contract)
  <2>1. Caller[c] = "page" /\ work[c] = "none" /\ client[Caller[c]][c] # "idle"
    BY <1>5 DEF HandOn, Takes
  <2>2. CASE Method[c] \in Passed
    <3>1. \A d \in Calls : client'[Caller[d]][d] = client[Caller[d]][d]
      <4> SUFFICES ASSUME NEW d \in Calls
                   PROVE  client'[Caller[d]][d] = client[Caller[d]][d]
        OBVIOUS
      <4>1. client' = Becomes("frame", c, "waiting")
        BY <1>5, <2>2 DEF HandOn
      <4>2. Caller[d] \in Layers /\ (Caller[d] # "frame" \/ d # c)
        BY <2>1
      <4>3. MsgTypeOK /\ "frame" \in Layers /\ "waiting" \in {"waiting"} \cup Outcomes
        OBVIOUS
      <4> HIDE DEF MsgInv, MsgTypeOK, Layers, Outcomes
      <4>4. QED
        BY <4>1, <4>2, <4>3, OnePromise
    <3>2. work' = work
      BY <1>5, <2>2 DEF HandOn
    <3>3. QED
      BY <3>1, <3>2
  <2>3. CASE Method[c] \notin Passed
    <3>1. work' = [work EXCEPT ![c] = "refused"] /\ client' = client
      BY <1>5, <2>3 DEF HandOn
    <3>2. Contract!Refuse(c)
      BY <2>1, <3>1 DEF Contract!Refuse
    <3>3. QED
      BY <3>2
  <2>4. QED
    BY <2>2, <2>3
<1>6. ASSUME NEW c \in Calls, Serve(c) PROVE [Contract!Next]_(Contract!contract)
  <2>1. work[c] = "none" /\ client[Caller[c]][c] # "idle" /\ client' = client
    BY <1>6 DEF Serve, Takes
  <2>2. CASE Found(c)
    BY <1>6, <2>1, <2>2 DEF Serve
  <2>3. CASE ~Found(c)
    <3>1. work' = [work EXCEPT ![c] = "refused"]
      BY <1>6, <2>3 DEF Serve
    <3>2. Contract!Refuse(c)
      BY <2>1, <3>1 DEF Contract!Refuse
    <3>3. QED
      BY <3>2
  <2>4. QED
    BY <2>2, <2>3
<1>7. ASSUME NEW c \in Calls, CallBack(c) PROVE [Contract!Next]_(Contract!contract)
  <2>1. CASE work'[c] = "carried"
    <3>1. Contract!CarryOut(c)
      BY <1>7, <2>1 DEF CallBack, Contract!CarryOut
    <3>2. QED
      BY <3>1
  <2>2. CASE work'[c] # "carried"
    <3>1. Contract!Refuse(c)
      BY <1>7, <2>2 DEF CallBack, Contract!Refuse
    <3>2. QED
      BY <3>1
  <2>3. QED
    BY <2>1, <2>2
<1>8. ASSUME NEW m \in Controlled, Register(m) \/ Unregister(m)
      PROVE  UNCHANGED Contract!contract
  BY <1>8 DEF Register, Unregister
<1>9. CASE KillWorker
  BY <1>9 DEF KillWorker
<1>10. CASE Unload
  BY <1>10 DEF Unload
<1>11. CASE UNCHANGED msgVars
  BY <1>11 DEF msgVars
<1>12. QED
  BY <1>1, <1>2, <1>3, <1>4, <1>5, <1>6, <1>7, <1>8, <1>9, <1>10, <1>11
  DEF MsgNext, Carry

\* Over two clients, two servers and two timers, with messages lost, workers killed
\* and handlers coming and going, a result or an error answer tells the caller the
\* truth about what the worker did (JsonRpcClient.ts:41-105, FrameServer.ts:21-43,
\* JsonRpcServer.ts:89-131).
THEOREM CallsKeepTheContract == MsgSpec => AnswersTellTheTruth
  BY MsgInvariant, MsgInitContract, ContractStep, PTL
  DEF MsgSpec, AnswersTellTheTruth, Contract!Spec
==============================================================================
