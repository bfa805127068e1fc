----------------------------- MODULE WebhookInbox -----------------------------
(***************************************************************************)
(* What the webhook_event table promises to the billing module, one event  *)
(* at a time: an event is accepted once, at most one worker holds it, only *)
(* an event that failed is handed out again, and a processed event is      *)
(* never touched any more.  It does not promise that an accepted event is  *)
(* processed: its first worker may drop it before it failed, and such an   *)
(* event stays pending for ever.                                           *)
(***************************************************************************)
CONSTANTS Events, Workers

VARIABLES
    phase,   \* "unseen", "pending", "failed" or "done"
    holder   \* the workers that are processing the event

inboxState == <<phase, holder>>

Init ==
    /\ phase = [e \in Events |-> "unseen"]
    /\ holder = [e \in Events |-> {}]

Accept(e, w) ==
    /\ phase[e] = "unseen"
    /\ phase' = [phase EXCEPT ![e] = "pending"]
    /\ holder' = [holder EXCEPT ![e] = {w}]

Retry(e, w) ==
    /\ phase[e] = "failed"
    /\ holder[e] = {}
    /\ holder' = [holder EXCEPT ![e] = {w}]
    /\ UNCHANGED phase

Complete(e) ==
    /\ phase[e] \in {"pending", "failed"}
    /\ holder[e] # {}
    /\ phase' = [phase EXCEPT ![e] = "done"]
    /\ holder' = [holder EXCEPT ![e] = {}]

Reject(e) ==
    /\ phase[e] \in {"pending", "failed"}
    /\ holder[e] # {}
    /\ phase' = [phase EXCEPT ![e] = "failed"]
    /\ holder' = [holder EXCEPT ![e] = {}]

Drop(e) ==
    /\ holder[e] # {}
    /\ holder' = [holder EXCEPT ![e] = {}]
    /\ UNCHANGED phase

Next ==
    \E e \in Events :
        \/ \E w \in Workers : Accept(e, w) \/ Retry(e, w)
        \/ Complete(e)
        \/ Reject(e)
        \/ Drop(e)

Spec == Init /\ [][Next]_inboxState
=============================================================================
