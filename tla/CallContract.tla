----------------------------- MODULE CallContract -----------------------------
(***************************************************************************)
(* What the caller of JsonRpcClient.call() may conclude from the way its   *)
(* promise settles: after a result the method has been carried out, after  *)
(* an error answer it has not and will not be, and after a timeout it may  *)
(* have been, or may still be.                                             *)
(***************************************************************************)
CONSTANTS Calls

VARIABLES promise,   \* promise[c]: what the caller holds
          carried,   \* the calls whose method was carried out
          refused    \* the calls whose method threw, or does not exist

contract == <<promise, carried, refused>>

Init == /\ promise = [c \in Calls |-> "idle"]
        /\ carried = {}
        /\ refused = {}

Settle(c, outcome) == promise' = [promise EXCEPT ![c] = outcome]

\* The caller calls; the method may be refused on the spot.
Ask(c) == /\ promise[c] = "idle"
          /\ Settle(c, "waiting")
          /\ UNCHANGED <<carried, refused>>

\* The method ends, once, whether or not somebody still waits.
CarryOut(c) == /\ promise[c] # "idle" /\ c \notin carried \cup refused
               /\ carried' = carried \cup {c}
               /\ UNCHANGED <<promise, refused>>
Refuse(c) == /\ promise[c] # "idle" /\ c \notin carried \cup refused
             /\ refused' = refused \cup {c}
             /\ UNCHANGED <<promise, carried>>

Resolve(c) == /\ promise[c] = "waiting" /\ c \in carried
              /\ Settle(c, "result")
              /\ UNCHANGED <<carried, refused>>
Reject(c) == /\ promise[c] = "waiting" /\ c \in refused
             /\ Settle(c, "error")
             /\ UNCHANGED <<carried, refused>>
TimeOut(c) == /\ promise[c] = "waiting"
              /\ Settle(c, "timeout")
              /\ UNCHANGED <<carried, refused>>

Next == \E c \in Calls : \/ Ask(c) \/ CarryOut(c) \/ Refuse(c)
                         \/ Resolve(c) \/ Reject(c) \/ TimeOut(c)

Spec == Init /\ [][Next]_contract
==============================================================================
