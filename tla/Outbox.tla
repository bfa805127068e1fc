-------------------------------- MODULE Outbox --------------------------------
(***************************************************************************)
(* What the send queue promises to whoever writes a message, one message   *)
(* at a time: it is tried a bounded number of times, each try puts at most *)
(* one copy before the client, it is shown as sent only if a copy is there *)
(* and is done only when it is shown as sent.  A message that is over is   *)
(* touched no more, and nothing brings PENDING back.  It does not promise  *)
(* that there is one copy, that a message that is over is shown as FAILED, *)
(* or that one shown as FAILED did not reach the client.                   *)
(***************************************************************************)
EXTENDS Naturals

CONSTANTS Messages, MaxTries

VARIABLES
    place,    \* "new", "kept", "queued", "trying", "done" or "over"
    shown,    \* what the writer is shown: "NONE", "PENDING", "SENT" or "FAILED"
    tries,    \* how often the message was tried
    copies    \* how many copies the client may have

outboxState == <<place, shown, tries, copies>>

Init ==
    /\ place = [m \in Messages |-> "new"]
    /\ shown = [m \in Messages |-> "NONE"]
    /\ tries = [m \in Messages |-> 0]
    /\ copies = [m \in Messages |-> 0]

Move(m, from, to) ==
    /\ place[m] = from
    /\ place' = [place EXCEPT ![m] = to]

Keep(m) ==
    /\ Move(m, "new", "kept")
    /\ shown' = [shown EXCEPT ![m] = "PENDING"]
    /\ UNCHANGED <<tries, copies>>

Hand(m) ==
    /\ Move(m, "kept", "queued")
    /\ UNCHANGED <<shown, tries, copies>>

\* The queue does not take the message.
Refuse(m) ==
    /\ Move(m, "kept", "over")
    /\ \E s \in {"PENDING", "FAILED"} : shown' = [shown EXCEPT ![m] = s]
    /\ UNCHANGED <<tries, copies>>

Try(m) ==
    /\ tries[m] < MaxTries
    /\ \E p \in {"trying", "over"} : Move(m, "queued", p)
    /\ tries' = [tries EXCEPT ![m] = @ + 1]
    /\ UNCHANGED <<shown, copies>>

Transmit(m) ==
    /\ copies[m] < tries[m]
    /\ copies' = [copies EXCEPT ![m] = @ + 1]
    /\ \E p \in {"trying", "queued", "over"} : Move(m, "trying", p)
    /\ UNCHANGED <<shown, tries>>

Show(m) ==
    /\ place[m] = "trying"
    /\ \/ copies[m] > 0 /\ shown' = [shown EXCEPT ![m] = "SENT"]
       \/ shown' = [shown EXCEPT ![m] = "FAILED"]
    /\ UNCHANGED <<place, tries, copies>>

GiveUp(m) ==
    /\ \E p \in {"queued", "over"} : Move(m, "trying", p)
    /\ UNCHANGED <<shown, tries, copies>>

Finish(m) ==
    /\ shown[m] = "SENT"
    /\ Move(m, "trying", "done")
    /\ UNCHANGED <<shown, tries, copies>>

Next ==
    \E m \in Messages :
        \/ Keep(m) \/ Hand(m) \/ Refuse(m)
        \/ Try(m) \/ Transmit(m) \/ Show(m) \/ GiveUp(m) \/ Finish(m)

Spec == Init /\ [][Next]_outboxState
=============================================================================
