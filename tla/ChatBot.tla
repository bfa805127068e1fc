------------------------------- MODULE ChatBot -------------------------------
(***************************************************************************)
(* The AI agent at work on the conversations of module Conversation: the   *)
(* messages of the client that wake it, its queue, and the steps of its    *)
(* processor, with the conversation moving underneath.  The WhatsApp and   *)
(* Meta workers add the job under the conversation's own job id, so that   *)
(* BullMQ ignores the request while a job with that id exists; the web     *)
(* widget adds a job per message.                                          *)
(***************************************************************************)
EXTENDS Conversation

CONSTANTS
    Widget,       \* conversations of the web widget
    Jobs,         \* slots for jobs of the queue
    ConvOf,       \* ConvOf[j]: the conversation of slot j
    MaxReplies,   \* maxResponsesPerConversation
    MaxAttempts   \* attempts of a job

ASSUME ChatBotAssumption ==
    /\ Widget \subseteq Convs
    /\ ConvOf \in [Jobs -> Convs]
    /\ MaxReplies \in Nat
    /\ MaxAttempts \in Nat \ {0}

VARIABLES
    asking,    \* next await of the incoming message of a conversation, or that
               \* its processing was the last to fail
    wakes,     \* that message found its conversation in BOT_ACTIVE
    unread,    \* a client message is stored that no job has read yet
    stage,     \* next await of a job
    attempts,  \* failed attempts of a job
    replies    \* messages of the bot stored in a conversation

askVars == <<asking, wakes, unread>>
jobVars == <<stage, attempts, replies>>
vars == <<convVars, askVars, jobVars>>

Asking == {"idle", "lost", "store", "touch", "trigger"}
Stages == {"none", "queued", "count", "read", "generate", "save", "touch",
           "send", "escalate"}
Live == {j \in Jobs : stage[j] # "none"}

TypeOK ==
    /\ ConvTypeOK
    /\ asking \in [Convs -> Asking]
    /\ wakes \in [Convs -> BOOLEAN]
    /\ unread \in [Convs -> BOOLEAN]
    /\ stage \in [Jobs -> Stages]
    /\ attempts \in [Jobs -> 0 .. MaxAttempts - 1]
    /\ replies \in [Convs -> Nat]

Init ==
    /\ ConvInit
    /\ asking = [c \in Convs |-> "idle"]
    /\ wakes = [c \in Convs |-> FALSE]
    /\ unread = [c \in Convs |-> FALSE]
    /\ stage = [j \in Jobs |-> "none"]
    /\ attempts = [j \in Jobs |-> 0]
    /\ replies = [c \in Convs |-> 0]

-----------------------------------------------------------------------------
(* An incoming message, one at a time in each conversation.                 *)

\* The open conversation is found, and its status remembered.
FindConversation(c) ==
    /\ asking[c] \in {"idle", "lost"}
    /\ status[c] \in OpenStatus
    /\ wakes' = [wakes EXCEPT ![c] = (status[c] = "BOT_ACTIVE")]
    /\ asking' = [asking EXCEPT ![c] = "store"]
    /\ UNCHANGED <<convVars, unread, jobVars>>

\* Message.create
StoreMessage(c) ==
    /\ asking[c] = "store"
    /\ unread' = [unread EXCEPT ![c] = TRUE]
    /\ asking' = [asking EXCEPT ![c] = "touch"]
    /\ UNCHANGED <<convVars, wakes, jobVars>>

\* publishMessageEvents
UpdateLastMessage(c) ==
    /\ asking[c] = "touch"
    /\ Touch(c)
    /\ asking' = [asking EXCEPT ![c] = IF wakes[c] THEN "trigger" ELSE "idle"]
    /\ UNCHANGED <<wakes, unread, jobVars>>

\* Fault: a job id per message.
SharesJobIdNever(c) == FALSE

\* The job is added under an id of the conversation.
SharesJobId(c) == c \notin Widget

\* Whether queue.add creates job j, or finds one with its id.
MayAdd(j) ==
    /\ stage[j] = "none"
    /\ SharesJobId(ConvOf[j]) => \A k \in Live : ConvOf[k] # ConvOf[j]

EnqueueAiBotJob(c) ==
    /\ asking[c] = "trigger"
    /\ asking' = [asking EXCEPT ![c] = "idle"]
    /\ \/ \E j \in Jobs :
             /\ ConvOf[j] = c /\ MayAdd(j)
             /\ stage' = [stage EXCEPT ![j] = "queued"]
             /\ attempts' = [attempts EXCEPT ![j] = 0]
       \/ /\ SharesJobId(c)
          /\ \E j \in Live : ConvOf[j] = c
          /\ UNCHANGED <<stage, attempts>>
    /\ UNCHANGED <<convVars, wakes, unread, replies>>

\* An await throws, or the worker dies.  A message that was stored is taken
\* for a duplicate when the job is tried again, and wakes nobody; the widget only
\* logs that its job was not added.
LoseMessage(c) ==
    /\ asking[c] \notin {"idle", "lost"}
    /\ asking' = [asking EXCEPT ![c] = "lost"]
    /\ UNCHANGED <<convVars, wakes, unread, jobVars>>

-----------------------------------------------------------------------------
(* The AI bot processor.                                                    *)

GoTo(j, s) == stage' = [stage EXCEPT ![j] = s]

\* A channel without an active agent or a provider without a key hands over.
CheckStatus(j) ==
    /\ stage[j] = "queued"
    /\ IF status[ConvOf[j]] = "BOT_ACTIVE"
           THEN GoTo(j, "count") \/ GoTo(j, "escalate")
           ELSE GoTo(j, "none")
    /\ UNCHANGED <<convVars, askVars, attempts, replies>>

CountReplies(j) ==
    /\ stage[j] = "count"
    /\ IF replies[ConvOf[j]] >= MaxReplies
           THEN GoTo(j, "escalate") ELSE GoTo(j, "read")
    /\ UNCHANGED <<convVars, askVars, attempts, replies>>

ReadHistory(j) ==
    /\ stage[j] = "read"
    /\ unread' = [unread EXCEPT ![ConvOf[j]] = FALSE]
    /\ GoTo(j, "generate")
    /\ UNCHANGED <<convVars, asking, wakes, attempts, replies>>

\* Fault: the update has no status in its filter.
HandOverAnyStatus(c) ==
    /\ Transition(c, OpenStatus \cup {"CLOSED"}, "WAITING_HUMAN", assignedTo[c])
    /\ UNCHANGED <<closedBy, owed, notes, scan>>

\* updateOne with status BOT_ACTIVE in its filter.
HandOver(c) ==
    IF status[c] = "BOT_ACTIVE" THEN EscalateToHuman(c) ELSE UNCHANGED convVars

\* The model calls captureLead, which hands over, and goes on to its answer.
CaptureLead(j) ==
    /\ stage[j] = "generate"
    /\ EscalateToHuman(ConvOf[j])
    /\ UNCHANGED <<askVars, jobVars>>

\* The model calls escalateToHuman: there is no answer.
EscalateTool(j) ==
    /\ stage[j] = "generate"
    /\ HandOver(ConvOf[j])
    /\ GoTo(j, "none")
    /\ UNCHANGED <<askVars, attempts, replies>>

\* generateWithTools returns a text, or nothing, or throws.
Generate(j) ==
    /\ stage[j] = "generate"
    /\ GoTo(j, "save") \/ GoTo(j, "escalate")
    /\ UNCHANGED <<convVars, askVars, attempts, replies>>

Escalate(j) ==
    /\ stage[j] = "escalate"
    /\ HandOver(ConvOf[j])
    /\ GoTo(j, "none")
    /\ UNCHANGED <<askVars, attempts, replies>>

\* The message is stored whatever became of the conversation meanwhile.
SaveReply(j) ==
    /\ stage[j] = "save"
    /\ replies' = [replies EXCEPT ![ConvOf[j]] = @ + 1]
    /\ GoTo(j, "touch")
    /\ UNCHANGED <<convVars, askVars, attempts>>

TouchConversation(j) ==
    /\ stage[j] = "touch"
    /\ Touch(ConvOf[j])
    /\ GoTo(j, "send")
    /\ UNCHANGED <<askVars, attempts, replies>>

\* The job of the send-message queue is added.
SendReply(j) ==
    /\ stage[j] = "send"
    /\ GoTo(j, "none")
    /\ UNCHANGED <<convVars, askVars, attempts, replies>>

\* Fault: the job is tried again for ever.
JobFailsUncapped(j) ==
    /\ stage[j] \notin {"none", "queued"}
    /\ attempts[j] < MaxAttempts
    /\ GoTo(j, "queued")
    /\ attempts' = [attempts EXCEPT ![j] = @ + 1]
    /\ UNCHANGED <<convVars, askVars, replies>>

\* Fault: the job is not tried again.
JobFailsForGood(j) ==
    /\ stage[j] \notin {"none", "queued"}
    /\ GoTo(j, "none")
    /\ UNCHANGED <<convVars, askVars, attempts, replies>>

\* An await throws: the job starts over, or is removed after its last attempt.
JobFails(j) ==
    /\ stage[j] \notin {"none", "queued"}
    /\ IF attempts[j] + 1 < MaxAttempts
           THEN /\ GoTo(j, "queued")
                /\ attempts' = [attempts EXCEPT ![j] = @ + 1]
           ELSE GoTo(j, "none") /\ UNCHANGED attempts
    /\ UNCHANGED <<convVars, askVars, replies>>

JobStep(j) ==
    \/ CheckStatus(j) \/ CountReplies(j) \/ ReadHistory(j)
    \/ EscalateTool(j) \/ Generate(j) \/ Escalate(j)
    \/ SaveReply(j) \/ TouchConversation(j) \/ SendReply(j)

-----------------------------------------------------------------------------
Next ==
    \/ (HumanNext \/ AutoCloseNext) /\ UNCHANGED <<askVars, jobVars>>
    \/ \E c \in Convs : \/ FindConversation(c) \/ StoreMessage(c)
                        \/ UpdateLastMessage(c) \/ EnqueueAiBotJob(c) \/ LoseMessage(c)
    \/ \E j \in Jobs : JobStep(j) \/ CaptureLead(j) \/ JobFails(j)

Spec == Init /\ [][Next]_vars

-----------------------------------------------------------------------------
(* Properties *)

\* A conversation of WhatsApp, Messenger or Instagram never gets more than
\* MaxReplies answers: jobs that fail after they stored one, return-to-bot and
\* new messages included.  In the widget two jobs may both count the last but
\* one, though the documentation gives the limit for any conversation.
BotWithinLimit == \A c \in Convs \ Widget : replies[c] =< MaxReplies

\* The bot and its queue move a conversation only the way Conversation allows.
ImplementsConversation == ConvSpec

\* A job that is still to read the history, or to hand the conversation over.
Attends(j) == stage[j] \in {"queued", "count", "read", "escalate"}

\* The bot has the conversation, and the message of the client waits for the next.
Forgotten(c) ==
    /\ unread[c] /\ asking[c] \in {"idle", "lost"} /\ status[c] = "BOT_ACTIVE"
    /\ \A j \in Live : ConvOf[j] = c => ~Attends(j)

ForgottenStep ==
    \A c \in Convs :
        ~Forgotten(c) /\ Forgotten(c)' =>
            \/ asking[c] = "trigger" /\ SharesJobId(c) /\ \E j \in Live : ConvOf[j] = c
            \/ \E j \in Live : /\ ConvOf[j] = c /\ attempts[j] + 1 = MaxAttempts
                               /\ stage'[j] = "none"
            \/ asking[c] = "touch" /\ ~wakes[c]
            \/ asking[c] # "lost" /\ asking'[c] = "lost"
            \/ status[c] # "BOT_ACTIVE"

\* A message that is stored is read by the bot or handed over, unless: the queue
\* ignores its job, as one of the conversation runs that has read the history
\* before; a job fails for the last time; the rest of its own processing fails; or
\* people had the conversation when it came, and the bot gets it back.  The guide
\* makes no exception for the first: the bot answers or hands over.
ForgottenMessages == [][ForgottenStep]_vars
=============================================================================
