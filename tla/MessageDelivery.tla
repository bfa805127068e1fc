--------------------------- MODULE MessageDelivery ---------------------------
(***************************************************************************)
(* Messages on their way out: whoever writes one stores it as PENDING and  *)
(* gives it to the send queue; a worker finds the channel and its broker,  *)
(* sends, writes the outcome and publishes it.  The provider's answer may  *)
(* be lost, each await may throw, the worker may die, and the session of   *)
(* the channel comes and goes; the job is then tried again from its start. *)
(* A rate limit is answered with a DelayedError although the job was not   *)
(* moved: the job stays active until it is found stalled.                  *)
(***************************************************************************)
EXTENDS Naturals, FiniteSets

CONSTANTS
    Messages,    \* messages of one channel
    Workers,     \* concurrency of the send worker
    Attempts,    \* attempts of a job
    Stalls       \* maxStalledCount

ASSUME DeliveryAssumption ==
    /\ Workers \in Nat \ {0}
    /\ Attempts \in Nat \ {0}
    /\ Stalls \in Nat

VARIABLES
    status,      \* Message.status, "NONE" before it is stored
    at,          \* where the message's job stands
    attempts,    \* failed attempts of the job
    stalls,      \* stalledCounter of the job
    accepted,    \* how often the provider took the message
    session      \* the channel's broker: not in the map, without socket, with one

jobVars == <<at, attempts, stalls>>
vars == <<status, jobVars, accepted, session>>

Active == {"send", "write", "publish", "reject", "rejected", "limited"}
Ended == {"completed", "failed"}
Sessions == {"absent", "offline", "online"}

TypeOK ==
    /\ status \in [Messages -> {"NONE", "PENDING", "SENT", "FAILED"}]
    /\ at \in [Messages -> {"none", "add", "waiting", "dropped"} \cup Active \cup Ended]
    /\ attempts \in [Messages -> 0 .. Attempts]
    /\ stalls \in [Messages -> 0 .. Stalls]
    /\ accepted \in [Messages -> Nat]
    /\ session \in Sessions

Init ==
    /\ status = [m \in Messages |-> "NONE"]
    /\ at = [m \in Messages |-> "none"]
    /\ attempts = [m \in Messages |-> 0]
    /\ stalls = [m \in Messages |-> 0]
    /\ accepted = [m \in Messages |-> 0]
    /\ session = "absent"

-----------------------------------------------------------------------------
(* The sender *)

Busy == {m \in Messages : at[m] \in Active \ {"limited"}}

GoTo(m, from, to) ==
    /\ at[m] = from
    /\ at' = [at EXCEPT ![m] = to]

Store(m) ==
    /\ GoTo(m, "none", "add")
    /\ status' = [status EXCEPT ![m] = "PENDING"]
    /\ UNCHANGED <<attempts, stalls, accepted, session>>

Enqueue(m) ==
    /\ GoTo(m, "add", "waiting")
    /\ UNCHANGED <<status, attempts, stalls, accepted, session>>

\* The queue refuses, or the sender dies; only the confirmation of a closing is
\* marked FAILED then.
NotEnqueued(m) ==
    /\ GoTo(m, "add", "dropped")
    /\ \E s \in {"PENDING", "FAILED"} : status' = [status EXCEPT ![m] = s]
    /\ UNCHANGED <<attempts, stalls, accepted, session>>

-----------------------------------------------------------------------------
(* The job *)

\* Fault: one attempt too many.
GiveBackOnceMore(m) ==
    /\ attempts' = [attempts EXCEPT ![m] = @ + 1]
    /\ at' = [at EXCEPT ![m] = IF attempts[m] < Attempts THEN "waiting" ELSE "failed"]
    /\ UNCHANGED stalls

\* The processor throws: another attempt, unless it was the last.
GiveBack(m) ==
    /\ attempts' = [attempts EXCEPT ![m] = @ + 1]
    /\ at' = [at EXCEPT ![m] = IF attempts[m] + 1 < Attempts THEN "waiting" ELSE "failed"]
    /\ UNCHANGED stalls

\* The channel and the broker are there.
FindBroker(m) ==
    /\ Cardinality(Busy) < Workers
    /\ session # "absent"
    /\ GoTo(m, "waiting", "send")
    /\ UNCHANGED <<status, attempts, stalls, accepted, session>>

\* An UnrecoverableError: no such channel, or its session is not in the map.
NoBroker(m) ==
    /\ Cardinality(Busy) < Workers
    /\ GoTo(m, "waiting", "failed")
    /\ UNCHANGED <<status, attempts, stalls, accepted, session>>

ProviderAccepts(m) ==
    /\ session = "online"
    /\ GoTo(m, "send", "write")
    /\ accepted' = [accepted EXCEPT ![m] = @ + 1]
    /\ UNCHANGED <<status, attempts, stalls, session>>

\* The provider took it and its answer is lost: a transient error.
AnswerLost(m) ==
    /\ at[m] = "send" /\ session = "online"
    /\ accepted' = [accepted EXCEPT ![m] = @ + 1]
    /\ GiveBack(m)
    /\ UNCHANGED <<status, session>>

\* One of the PERMANENT_ERROR_CODES
ProviderRefuses(m) ==
    /\ session = "online"
    /\ GoTo(m, "send", "reject")
    /\ UNCHANGED <<status, attempts, stalls, accepted, session>>

\* Fault: a rate limit is taken for a success.
RateLimitedSent(m) ==
    /\ session = "online"
    /\ GoTo(m, "send", "write")
    /\ UNCHANGED <<status, attempts, stalls, accepted, session>>

RateLimited(m) ==
    /\ session = "online"
    /\ GoTo(m, "send", "limited")
    /\ UNCHANGED <<status, attempts, stalls, accepted, session>>

WriteSent(m) ==
    /\ GoTo(m, "write", "publish")
    /\ status' = [status EXCEPT ![m] = "SENT"]
    /\ UNCHANGED <<attempts, stalls, accepted, session>>

Publish(m) ==
    /\ GoTo(m, "publish", "completed")
    /\ UNCHANGED <<status, attempts, stalls, accepted, session>>

Reject(m) ==
    /\ GoTo(m, "reject", "rejected")
    /\ status' = [status EXCEPT ![m] = "FAILED"]
    /\ UNCHANGED <<attempts, stalls, accepted, session>>

\* Fault: the refusal is thrown as an error like any other.
RefusedThrowsError(m) ==
    /\ at[m] = "rejected"
    /\ GiveBack(m)
    /\ UNCHANGED <<status, accepted, session>>

\* An UnrecoverableError ends the job.
Refused(m) ==
    /\ GoTo(m, "rejected", "failed")
    /\ UNCHANGED <<status, attempts, stalls, accepted, session>>

\* Any await throws: the database, the broker (NOT_CONNECTED or another
\* transient code) or Redis, whose failure repeats what was already sent.
AttemptFails(m) ==
    /\ at[m] \in Active \ {"limited", "rejected"}
    /\ GiveBack(m)
    /\ UNCHANGED <<status, accepted, session>>

\* Fault: only the jobs of a worker that died count as stalled.
StalledNotLimited(m) ==
    /\ at[m] \in Active \ {"limited"}
    /\ stalls[m] < Stalls
    /\ stalls' = [stalls EXCEPT ![m] = @ + 1]
    /\ at' = [at EXCEPT ![m] = "waiting"]
    /\ UNCHANGED <<status, attempts, accepted, session>>

\* The lock of a job is not renewed, because its worker died or gave it up for
\* the rate limit: the job waits again, unless it stalled too often.  A run that
\* outlives its lock would go on beside the next one; here it ends.
Stalled(m) ==
    /\ at[m] \in Active
    /\ IF stalls[m] < Stalls
       THEN /\ stalls' = [stalls EXCEPT ![m] = @ + 1]
            /\ at' = [at EXCEPT ![m] = "waiting"]
       ELSE /\ at' = [at EXCEPT ![m] = "failed"]
            /\ UNCHANGED stalls
    /\ UNCHANGED <<status, attempts, accepted, session>>

\* The session connects, loses its socket or leaves the map.
SessionChanges ==
    /\ \E s \in Sessions \ {session} : session' = s
    /\ UNCHANGED <<status, jobVars, accepted>>

Run(m) ==
    \/ FindBroker(m) \/ NoBroker(m) \/ ProviderAccepts(m) \/ AnswerLost(m)
    \/ ProviderRefuses(m) \/ RateLimited(m) \/ WriteSent(m) \/ Publish(m)
    \/ Reject(m) \/ Refused(m) \/ AttemptFails(m)

Next ==
    \/ \E m \in Messages :
          Store(m) \/ Enqueue(m) \/ NotEnqueued(m) \/ Run(m) \/ Stalled(m)
    \/ SessionChanges

Spec == Init /\ [][Next]_vars

\* The workers run, and the stalled check runs every stalledInterval; a job that
\* waits is taken sooner or later although others come before it.
Fairness ==
    \A m \in Messages :
        /\ SF_vars(FindBroker(m) \/ NoBroker(m))
        /\ WF_vars(at[m] \in Active /\ (Run(m) \/ Stalled(m)))

FairSpec == Spec /\ Fairness

-----------------------------------------------------------------------------
(* Properties *)

\* Where the message stands for its writer
Place(m) ==
    CASE at[m] = "none" -> "new"
      [] at[m] = "add" -> "kept"
      [] at[m] = "waiting" -> "queued"
      [] at[m] \in Active -> "trying"
      [] at[m] = "completed" -> "done"
      [] OTHER -> "over"

\* The runs of its job: those that failed, those that stalled and the one that
\* is under way or ended the job otherwise.
Tries(m) ==
    attempts[m] + stalls[m]
    + (IF at[m] \in Active \/ (at[m] \in Ended /\ attempts[m] < Attempts) THEN 1 ELSE 0)

Box == INSTANCE Outbox WITH
    MaxTries <- Attempts + Stalls,
    place <- [m \in Messages |-> Place(m)],
    shown <- status,
    tries <- [m \in Messages |-> Tries(m)],
    copies <- accepted

\* The store, the queue and its worker are the outbox, through every failure and
\* second run: what is shown as sent was accepted, a job that completes leaves
\* its message SENT whatever earlier runs wrote, and a run sends it once at most.
ImplementsOutbox == Box!Spec

\* FAILED is never shown of a message while its job may still send it, unless
\* the job stalled after it wrote the outcome.
FailedIsLast ==
    \A m \in Messages :
        status[m] = "FAILED" /\ at[m] \in (Active \ {"rejected"}) \cup {"waiting"}
            => stalls[m] > 0

\* Nothing stays in the queue for ever, whatever the provider answers.
EveryJobEnds == \A m \in Messages : at[m] = "waiting" ~> at[m] \in Ended
=============================================================================
