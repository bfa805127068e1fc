----------------------------- MODULE ChatIncoming -----------------------------
(***************************************************************************)
(* The jobs of the incoming queue of the chat worker, for the messages of  *)
(* one contact on one channel.  The provider may deliver a message more    *)
(* than once, so two jobs may carry the same externalId; several workers   *)
(* take jobs at the same time; each await of the processor is a step, and  *)
(* any of them may throw or be the last one of its process, after which    *)
(* the job is taken again from its beginning.  The conversations are those *)
(* of Conversation.  The job of the AI agent that a message wakes is part  *)
(* of ChatBot and left out here.                                           *)
(***************************************************************************)
EXTENDS Conversation

CONSTANTS
    Jobs,        \* jobs of the incoming queue
    Messages,    \* externalId
    Msg,         \* the message of each job
    Commands,    \* messages whose text is the command that closes
    Workers,     \* concurrency of the worker
    Runs         \* how often a job is started: attempts, and stalls

ASSUME IncomingAssumption ==
    /\ IsFiniteSet(Jobs)
    /\ Msg \in [Jobs -> Messages]
    /\ Commands \subseteq Messages
    /\ Workers \in Nat \ {0}
    /\ Runs \in Nat \ {0}
    /\ None \notin Convs

VARIABLES
    job,         \* per job: at which await, started how often, on what conversation
    copies,      \* Message documents of the client that each job has stored
    confirms,    \* confirmations of the closing stored in each conversation
    queued,      \* conversations whose confirmation was given to the send queue
    failed       \* conversations whose confirmation was marked FAILED

ownVars == <<job, copies, confirms, queued, failed>>
vars == <<convVars, ownVars>>

Awaits == {"look", "insert", "store", "touch", "announce",
           "close", "note", "confirm", "send"}
Ends == {"done", "duplicate", "ignored", "failed"}

TypeOK ==
    /\ ConvTypeOK
    /\ job \in [Jobs -> [at: {"queued"} \cup Awaits \cup Ends, runs: 0 .. Runs,
                         conv: Convs \cup {None}]]
    /\ copies \in [Jobs -> Nat]
    /\ confirms \in [Convs -> Nat]
    /\ queued \subseteq Convs
    /\ failed \subseteq Convs

Init ==
    /\ ConvInit
    /\ job = [j \in Jobs |-> [at |-> "queued", runs |-> 0, conv |-> None]]
    /\ copies = [j \in Jobs |-> 0]
    /\ confirms = [c \in Convs |-> 0]
    /\ queued = {}
    /\ failed = {}

-----------------------------------------------------------------------------
At(s) == {j \in Jobs : job[j].at = s}
Running == {j \in Jobs : job[j].at \in Awaits}
OpenConvs == {c \in Convs : status[c] \in OpenStatus}
IsCommand(j) == Msg[j] \in Commands
Stored(j) == \E k \in Jobs : Msg[k] = Msg[j] /\ copies[k] > 0

GoTo(j, from, to) ==
    /\ job[j].at = from
    /\ job' = [job EXCEPT ![j].at = to]

GoOn(j, from, to, c) ==
    /\ job[j].at = from
    /\ job' = [job EXCEPT ![j].at = to, ![j].conv = c]

\* Fault: no look at the messages that are there.
StartUnchecked(j) ==
    /\ job[j].at = "queued"
    /\ job[j].runs < Runs
    /\ Cardinality(Running) < Workers
    /\ job' = [job EXCEPT ![j].at = "look", ![j].runs = @ + 1]
    /\ UNCHANGED <<convVars, copies, confirms, queued, failed>>

\* A worker takes the job and looks for its message.
Start(j) ==
    /\ job[j].at = "queued"
    /\ job[j].runs < Runs
    /\ Cardinality(Running) < Workers
    /\ job' = [job EXCEPT ![j].at = IF Stored(j) THEN "duplicate" ELSE "look",
                          ![j].runs = @ + 1]
    /\ UNCHANGED <<convVars, copies, confirms, queued, failed>>

\* The channel is gone, or the command finds nothing to close.
Ignore(j) ==
    /\ GoTo(j, "look", "ignored")
    /\ UNCHANGED <<convVars, copies, confirms, queued, failed>>

\* An open conversation of the contact is found.
FindOpen(j) ==
    /\ \E c \in OpenConvs : GoOn(j, "look", "store", c)
    /\ UNCHANGED <<convVars, copies, confirms, queued, failed>>

\* Fault: a conversation is created whether or not one is open.
FindNoneAlways(j) ==
    /\ ~IsCommand(j)
    /\ GoTo(j, "look", "insert")
    /\ UNCHANGED <<convVars, copies, confirms, queued, failed>>

\* The upsert finds none; its insertion is a second step of the database, and
\* no unique index makes it fail.
FindNone(j) ==
    /\ OpenConvs = {} /\ ~IsCommand(j)
    /\ GoTo(j, "look", "insert")
    /\ UNCHANGED <<convVars, copies, confirms, queued, failed>>

InsertConversation(j) ==
    /\ \E c \in Convs : Open(c) /\ GoOn(j, "insert", "store", c)
    /\ UNCHANGED <<copies, confirms, queued, failed>>

\* The conversation may have been closed since it was found.
StoreMessage(j) ==
    /\ GoTo(j, "store", "touch")
    /\ copies' = [copies EXCEPT ![j] = @ + 1]
    /\ UNCHANGED <<convVars, confirms, queued, failed>>

UpdateConversation(j) ==
    /\ GoTo(j, "touch", "announce")
    /\ Touch(job[j].conv)
    /\ UNCHANGED <<copies, confirms, queued, failed>>

\* The events are published; a command goes on.
Announce(j) ==
    /\ GoTo(j, "announce", IF IsCommand(j) THEN "close" ELSE "done")
    /\ UNCHANGED <<convVars, copies, confirms, queued, failed>>

CloseByCommand(j) ==
    /\ GoTo(j, "close", "note")
    /\ ClientCloses(job[j].conv)
    /\ UNCHANGED <<copies, confirms, queued, failed>>

\* Fault: the result of the update is not looked at.
LateToCloseConfirms(j) ==
    /\ GoTo(j, "close", "confirm")
    /\ status[job[j].conv] = "CLOSED"
    /\ UNCHANGED <<convVars, copies, confirms, queued, failed>>

\* Somebody else has closed it.
LateToClose(j) ==
    /\ GoTo(j, "close", "done")
    /\ status[job[j].conv] = "CLOSED"
    /\ UNCHANGED <<convVars, copies, confirms, queued, failed>>

StoreClosingNote(j) ==
    /\ GoTo(j, "note", "confirm")
    /\ WriteNote(job[j].conv, "client")
    /\ UNCHANGED <<copies, confirms, queued, failed>>

StoreConfirmation(j) ==
    /\ GoTo(j, "confirm", "send")
    /\ confirms' = [confirms EXCEPT ![job[j].conv] = @ + 1]
    /\ UNCHANGED <<convVars, copies, queued, failed>>

SendConfirmation(j) ==
    /\ GoTo(j, "send", "done")
    /\ queued' = queued \cup {job[j].conv}
    /\ UNCHANGED <<convVars, copies, confirms, failed>>

\* Fault: an error is swallowed and the job counts as done.
GiveBackAsDone(j) == job' = [job EXCEPT ![j].at = "done"]

\* The job waits for another run, unless it had its last one.
GiveBack(j) ==
    job' = [job EXCEPT ![j].at = IF job[j].runs < Runs THEN "queued" ELSE "failed",
                       ![j].conv = None]

\* Fault: the job is given back first, and nobody knows what to mark.
SendRefusedTooLate(j) ==
    /\ job[j].at = "send"
    /\ GiveBack(j)
    /\ failed' = failed \cup {job'[j].conv}
    /\ UNCHANGED <<convVars, copies, confirms, queued>>

\* The send queue refuses: the confirmation is marked FAILED and the error is
\* thrown again.
SendRefused(j) ==
    /\ job[j].at = "send"
    /\ failed' = failed \cup {job[j].conv}
    /\ GiveBack(j)
    /\ UNCHANGED <<convVars, copies, confirms, queued>>

\* An await throws, or its process dies.
RunFails(j) ==
    /\ job[j].at \in Awaits
    /\ GiveBack(j)
    /\ IF job[j].at = "note" THEN LoseNote(job[j].conv, "client")
                             ELSE UNCHANGED convVars
    /\ UNCHANGED <<copies, confirms, queued, failed>>

JobNext(j) ==
    \/ Start(j) \/ Ignore(j) \/ FindOpen(j) \/ FindNone(j)
    \/ InsertConversation(j) \/ StoreMessage(j) \/ UpdateConversation(j)
    \/ Announce(j) \/ CloseByCommand(j) \/ LateToClose(j)
    \/ StoreClosingNote(j) \/ StoreConfirmation(j) \/ SendConfirmation(j)
    \/ SendRefused(j) \/ RunFails(j)

\* Meanwhile an agent closes a conversation.
AgentNext ==
    /\ \E c \in Convs, a \in Agents : Close(c, a) \/ WriteNote(c, a) \/ LoseNote(c, a)
    /\ UNCHANGED ownVars

Next == (\E j \in Jobs : JobNext(j)) \/ AgentNext

Spec == Init /\ [][Next]_vars

-----------------------------------------------------------------------------
(* Properties *)

\* Nothing in the database keeps a contact from having two open conversations;
\* what bounds them is the number of workers that saw none at the same time.
OpenAtMostWorkers ==
    Cardinality(OpenConvs) + Cardinality(At("insert")) =< Workers

\* However often a job is run again after a failure, it stores its message
\* once: copies of a message are at most as many as its deliveries.
RetryStoresOnce == \A j \in Jobs : copies[j] =< 1

\* A job that ends well has done its work: the message is stored, by this job
\* or by another one, and the conversation of a command is closed.
EndedIsDone ==
    \A j \in Jobs :
        /\ job[j].at \in {"done", "duplicate"} => Stored(j)
        /\ (job[j].at = "done" /\ IsCommand(j)) => status[job[j].conv] = "CLOSED"

\* Commands, agents and retries race for the closing: a conversation gets one
\* confirmation, if the client closed it and after its closing message, and a
\* confirmation that was given to the send queue is not marked FAILED.
OneConfirmation ==
    /\ \A c \in Convs :
          /\ confirms[c] =< 1
          /\ confirms[c] = 1 => closedBy[c] = "client" /\ notes[c] = 1
    /\ queued \cap failed = {}
=============================================================================
