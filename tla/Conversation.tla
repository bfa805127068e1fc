---------------------------- MODULE Conversation ----------------------------
(***************************************************************************)
(* The Conversation documents of the chat and everything that moves one    *)
(* from state to state: the agents' routes of the chat server, the client  *)
(* who writes or closes, the AI agent that hands over, and the hourly      *)
(* auto-close job.  Each transition is one findOneAndUpdate or updateOne   *)
(* whose filter is its guard; the system message that announces a closing  *)
(* is a second await, which may throw.  The other system messages change   *)
(* nothing that a property tells apart and are left out.                   *)
(***************************************************************************)
EXTENDS Naturals, FiniteSets

CONSTANTS
    Convs,        \* conversations, one per contact and channel at a time
    Agents,       \* users who attend
    HasAI,        \* conversations of a channel with aiAgentId
    CloseBatch,   \* AUTO_CLOSE_BATCH_SIZE
    None

ASSUME ConversationAssumption ==
    /\ HasAI \subseteq Convs
    /\ CloseBatch \in Nat \ {0}
    /\ None \notin Agents
    /\ {"client", "system"} \cap (Agents \cup {None}) = {}

VARIABLES
    status,      \* Conversation.status, "NONE" before it exists
    assignedTo,
    closedBy,
    recent,      \* updatedAt is not older than AUTO_CLOSE_HOURS
    owed,        \* <<c, who>>: who closed c and has not written its message yet
    notes,       \* closing messages stored in the conversation
    scan         \* rows the auto-close job has read and not yet reached

convVars == <<status, assignedTo, closedBy, recent, owed, notes, scan>>

OpenStatus == {"BOT_ACTIVE", "WAITING_HUMAN", "HUMAN_ACTIVE"}
ConversationStatus == OpenStatus \cup {"NONE", "CLOSED"}
Closers == Agents \cup {"client", "system"}

ConvTypeOK ==
    /\ status \in [Convs -> ConversationStatus]
    /\ assignedTo \in [Convs -> Agents \cup {None}]
    /\ closedBy \in [Convs -> Closers \cup {None}]
    /\ recent \in [Convs -> BOOLEAN]
    /\ owed \subseteq Convs \X Closers
    /\ notes \in [Convs -> Nat]
    /\ scan \subseteq Convs

ConvInit ==
    /\ status = [c \in Convs |-> "NONE"]
    /\ assignedTo = [c \in Convs |-> None]
    /\ closedBy = [c \in Convs |-> None]
    /\ recent = [c \in Convs |-> FALSE]
    /\ owed = {}
    /\ notes = [c \in Convs |-> 0]
    /\ scan = {}

-----------------------------------------------------------------------------
(* Every update of the document also sets updatedAt.                        *)

\* atomicTransition: the document is changed only if its status is in from.
Transition(c, from, to, agent) ==
    /\ status[c] \in from
    /\ status' = [status EXCEPT ![c] = to]
    /\ assignedTo' = [assignedTo EXCEPT ![c] = agent]
    /\ recent' = [recent EXCEPT ![c] = TRUE]

\* A client message finds no open conversation and creates one.
Open(c) ==
    /\ Transition(c, {"NONE"},
                  IF c \in HasAI THEN "BOT_ACTIVE" ELSE "WAITING_HUMAN", None)
    /\ UNCHANGED <<closedBy, owed, notes, scan>>

\* The last message of the conversation is updated, whoever wrote it; a
\* message may reach a conversation that was closed since it was looked up.
Touch(c) ==
    /\ status[c] # "NONE"
    /\ recent' = [recent EXCEPT ![c] = TRUE]
    /\ UNCHANGED <<status, assignedTo, closedBy, owed, notes, scan>>

\* A day passes without any update.
GoSilent(c) ==
    /\ recent[c]
    /\ recent' = [recent EXCEPT ![c] = FALSE]
    /\ UNCHANGED <<status, assignedTo, closedBy, owed, notes, scan>>

\* atomicAssign, which also wants assignedTo to be null.
Assign(c, a) ==
    /\ assignedTo[c] = None
    /\ Transition(c, {"WAITING_HUMAN"}, "HUMAN_ACTIVE", a)
    /\ UNCHANGED <<closedBy, owed, notes, scan>>

Transfer(c, a) ==
    /\ Transition(c, {"HUMAN_ACTIVE"}, "HUMAN_ACTIVE", a)
    /\ UNCHANGED <<closedBy, owed, notes, scan>>

\* Fault: the agent is left on the conversation.
ReturnToQueueKeepsAgent(c) ==
    /\ Transition(c, {"HUMAN_ACTIVE"}, "WAITING_HUMAN", assignedTo[c])
    /\ UNCHANGED <<closedBy, owed, notes, scan>>

ReturnToQueue(c) ==
    /\ Transition(c, {"HUMAN_ACTIVE"}, "WAITING_HUMAN", None)
    /\ UNCHANGED <<closedBy, owed, notes, scan>>

\* Fault: the status is not part of the filter.
ReturnToBotFromAny(c) ==
    /\ Transition(c, ConversationStatus \ {"NONE"}, "BOT_ACTIVE", None)
    /\ UNCHANGED <<closedBy, owed, notes, scan>>

ReturnToBot(c) ==
    /\ Transition(c, {"HUMAN_ACTIVE", "WAITING_HUMAN"}, "BOT_ACTIVE", None)
    /\ UNCHANGED <<closedBy, owed, notes, scan>>

\* escalateToHuman and transferConversationToHuman
EscalateToHuman(c) ==
    /\ Transition(c, {"BOT_ACTIVE"}, "WAITING_HUMAN", assignedTo[c])
    /\ UNCHANGED <<closedBy, owed, notes, scan>>

-----------------------------------------------------------------------------
(* Closing: the document keeps the agent it was assigned to.                *)

CloseFrom(c, from, who) ==
    /\ Transition(c, from, "CLOSED", assignedTo[c])
    /\ closedBy' = [closedBy EXCEPT ![c] = who]
    /\ owed' = owed \cup {<<c, who>>}
    /\ UNCHANGED notes

\* CloseConversation, by an agent; he need not be the one assigned.
Close(c, a) ==
    /\ CloseFrom(c, OpenStatus, a)
    /\ UNCHANGED scan

\* Fault: the close does not look at the status.
CloseOnMongoAnyStatus(c, who) == CloseFrom(c, OpenStatus \cup {"CLOSED"}, who)

\* closeConversationOnMongo
CloseOnMongo(c, who) == CloseFrom(c, OpenStatus, who)

ClientCloses(c) ==
    /\ CloseOnMongo(c, "client")
    /\ UNCHANGED scan

\* The second await of whoever closed the conversation.
WriteNote(c, who) ==
    /\ <<c, who>> \in owed
    /\ owed' = owed \ {<<c, who>>}
    /\ notes' = [notes EXCEPT ![c] = @ + 1]
    /\ UNCHANGED <<status, assignedTo, closedBy, recent, scan>>

\* It throws, or the process dies.
LoseNote(c, who) ==
    /\ <<c, who>> \in owed
    /\ owed' = owed \ {<<c, who>>}
    /\ UNCHANGED <<status, assignedTo, closedBy, recent, notes, scan>>

-----------------------------------------------------------------------------
(* The auto-close job: hourly, one at a time, one row after the other.      *)

\* Fault: only conversations that an agent left open are looked for.
SilentAttended == {c \in Convs : status[c] = "HUMAN_ACTIVE" /\ ~recent[c]}

Silent == {c \in Convs : status[c] \in OpenStatus /\ ~recent[c]}

BetweenRows == \A c \in Convs : <<c, "system">> \notin owed

AutoCloseScan ==
    /\ scan = {} /\ BetweenRows
    /\ \E B \in SUBSET Silent :
          /\ B # {}
          /\ B = Silent \/ Cardinality(B) = CloseBatch
          /\ scan' = B
    /\ UNCHANGED <<status, assignedTo, closedBy, recent, owed, notes>>

\* The row is closed unless it is closed already; its updatedAt is not looked
\* at again.
AutoClose(c) ==
    /\ c \in scan /\ BetweenRows
    /\ \/ CloseOnMongo(c, "system")
       \/ /\ status[c] = "CLOSED"
          /\ UNCHANGED <<status, assignedTo, closedBy, recent, owed, notes>>
    /\ scan' = scan \ {c}

\* The update throws and the row is skipped.
AutoCloseFails(c) ==
    /\ c \in scan /\ BetweenRows
    /\ scan' = scan \ {c}
    /\ UNCHANGED <<status, assignedTo, closedBy, recent, owed, notes>>

AutoCloseDies ==
    /\ scan # {}
    /\ scan' = {}
    /\ UNCHANGED <<status, assignedTo, closedBy, recent, owed, notes>>

-----------------------------------------------------------------------------
HumanNext ==
    \E c \in Convs :
        \/ Open(c) \/ GoSilent(c)
        \/ ReturnToQueue(c) \/ ReturnToBot(c) \/ ClientCloses(c)
        \/ \E a \in Agents : Assign(c, a) \/ Transfer(c, a) \/ Close(c, a)
        \/ \E who \in Closers : WriteNote(c, who) \/ LoseNote(c, who)

AutoCloseNext ==
    \/ AutoCloseScan \/ AutoCloseDies
    \/ \E c \in Convs : AutoClose(c) \/ AutoCloseFails(c)

BotNext == \E c \in Convs : Touch(c) \/ EscalateToHuman(c)

ConvNext == HumanNext \/ AutoCloseNext \/ BotNext

ConvSpec == ConvInit /\ [][ConvNext]_convVars

\* The job is scheduled every hour for ever; a row that fails is found again by
\* the next scan, so a step that may throw is strongly fair.
AutoCloseFairness ==
    /\ WF_convVars(AutoCloseScan)
    /\ \A c \in Convs :
          /\ SF_convVars(AutoClose(c))
          /\ WF_convVars(WriteNote(c, "system") \/ LoseNote(c, "system"))

FairConvSpec == ConvSpec /\ AutoCloseFairness

-----------------------------------------------------------------------------
(* Properties *)

\* Who has a conversation agrees with its status; in the queue nobody has it,
\* or the filter of atomicAssign would refuse every agent for ever.
AgentMatchesStatus ==
    \A c \in Convs :
        /\ status[c] \in {"BOT_ACTIVE", "WAITING_HUMAN"} => assignedTo[c] = None
        /\ status[c] = "HUMAN_ACTIVE" => assignedTo[c] # None

\* Agents, client and auto-close may close at the same moment: one of them
\* closes the conversation, and at most one closing message is ever stored.
ClosedOnce ==
    \A c \in Convs :
        /\ notes[c] + Cardinality({w \in Closers : <<c, w>> \in owed}) =< 1
        /\ \A w \in Closers : <<c, w>> \in owed => closedBy[c] = w

\* A closed conversation is never reopened, nor closed again by somebody else.
ClosedIsFinal ==
    [][\A c \in Convs : status[c] = "CLOSED" =>
           /\ status'[c] = "CLOSED"
           /\ closedBy'[c] = closedBy[c]
           /\ assignedTo'[c] = assignedTo[c]]_convVars

\* A conversation that stays silent does not stay open.
SilentIsClosed ==
    \A c \in Convs :
        (status[c] \in OpenStatus /\ ~recent[c]) ~> (status[c] = "CLOSED" \/ recent[c])
=============================================================================
