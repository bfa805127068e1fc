---------------------------- MODULE ChatBotProofs ----------------------------
(***************************************************************************)
(* Proofs about ChatBot: outside the widget no conversation gets more than *)
(* MaxReplies answers, and the bot moves a conversation only as module     *)
(* Conversation allows, whose invariants it therefore inherits.            *)
(***************************************************************************)
EXTENDS ChatBot, ConversationProofs

\* The job id of the conversation: one job at a time outside the widget.
OneJob ==
    \A j, k \in Jobs :
        /\ stage[j] # "none" /\ stage[k] # "none"
        /\ ConvOf[j] = ConvOf[k] /\ ConvOf[j] \notin Widget
        => j = k

\* A job that has counted leaves room for its answer until it stores it.
Counted ==
    \A j \in Jobs :
        stage[j] \in {"read", "generate", "save"} /\ ConvOf[j] \notin Widget
            => replies[ConvOf[j]] < MaxReplies

BotTypes ==
    /\ asking \in [Convs -> Asking]
    /\ wakes \in [Convs -> BOOLEAN]
    /\ unread \in [Convs -> BOOLEAN]
    /\ stage \in [Jobs -> Stages]
    /\ attempts \in [Jobs -> 0 .. MaxAttempts - 1]
    /\ replies \in [Convs -> Nat]

BotInv == BotTypes /\ OneJob /\ Counted /\ BotWithinLimit

\* Nothing is queued and nothing is answered at the start.
LEMMA BotInitInv == Init => BotInv
  BY ChatBotAssumption
  DEF Init, BotInv, BotTypes, OneJob, Counted, BotWithinLimit, Asking, Stages

\* A job that only goes to another stage, where it is still counted, keeps the
\* invariant.
LEMMA GoToInv ==
    ASSUME BotInv, NEW j \in Jobs, stage[j] # "none", NEW s \in Stages, GoTo(j, s),
           s \in {"read", "generate", "save"} /\ ConvOf[j] \notin Widget
               => replies[ConvOf[j]] < MaxReplies,
           unread' \in [Convs -> BOOLEAN], UNCHANGED <<asking, wakes, replies>>,
           attempts' \in [Jobs -> 0 .. MaxAttempts - 1]
    PROVE  BotInv'
  <1> USE ChatBotAssumption DEF BotInv, GoTo
  <1>1. BotTypes'
    BY DEF BotTypes
  <1>2. OneJob'
    BY DEF OneJob, BotTypes
  <1>3. Counted'
    BY DEF Counted, BotTypes
  <1>4. BotWithinLimit'
    BY DEF BotWithinLimit
  <1> QED BY <1>1, <1>2, <1>3, <1>4

\* Every step of the messages, the jobs and the people keeps the invariant.
LEMMA BotNextInv == BotInv /\ [Next]_vars => BotInv'
  <1> SUFFICES ASSUME BotInv, [Next]_vars PROVE BotInv'
    OBVIOUS
  <1> USE ChatBotAssumption
  <1>1. CASE UNCHANGED <<askVars, jobVars>>
    BY <1>1 DEF askVars, jobVars, BotInv, BotTypes, OneJob, Counted, BotWithinLimit
  <1>2. ASSUME NEW c \in Convs,
               \/ FindConversation(c) \/ StoreMessage(c)
               \/ UpdateLastMessage(c) \/ LoseMessage(c)
        PROVE  BotInv'
    <2>1. /\ UNCHANGED jobVars
          /\ asking' \in [Convs -> Asking]
          /\ wakes' \in [Convs -> BOOLEAN] /\ unread' \in [Convs -> BOOLEAN]
      BY <1>2 DEF FindConversation, StoreMessage, UpdateLastMessage, LoseMessage, BotInv,
                  BotTypes, Asking
    <2> QED BY <2>1 DEF jobVars, BotInv, BotTypes, OneJob, Counted, BotWithinLimit
  <1>3. ASSUME NEW c \in Convs, EnqueueAiBotJob(c) PROVE BotInv'
    <2>1. asking' \in [Convs -> Asking] /\ UNCHANGED <<wakes, unread, replies>>
      BY <1>3 DEF EnqueueAiBotJob, BotInv, BotTypes, Asking
    <2>2. CASE UNCHANGED <<stage, attempts>>
      BY <2>1, <2>2 DEF BotInv, BotTypes, OneJob, Counted, BotWithinLimit
    <2>3. ASSUME NEW j \in Jobs, MayAdd(j), stage' = [stage EXCEPT ![j] = "queued"],
                 attempts' = [attempts EXCEPT ![j] = 0]
          PROVE  BotInv'
      <3>1. BotTypes'
        BY <2>1, <2>3 DEF BotInv, BotTypes, Stages
      <3>2. OneJob'
        BY <2>3 DEF BotInv, BotTypes, OneJob, MayAdd, SharesJobId, Live
      <3>3. Counted' /\ BotWithinLimit'
        BY <2>1, <2>3 DEF BotInv, BotTypes, Counted, BotWithinLimit
      <3> QED BY <3>1, <3>2, <3>3 DEF BotInv
    <2> QED BY <1>3, <2>2, <2>3 DEF EnqueueAiBotJob
  <1>4. ASSUME NEW j \in Jobs,
               \/ CheckStatus(j) \/ CountReplies(j) \/ ReadHistory(j) \/ EscalateTool(j)
               \/ Generate(j) \/ Escalate(j) \/ TouchConversation(j) \/ SendReply(j)
        PROVE  BotInv'
    <2>1. /\ stage[j] # "none" /\ UNCHANGED <<asking, wakes, replies, attempts>>
          /\ unread' \in [Convs -> BOOLEAN]
      BY <1>4 DEF CheckStatus, CountReplies, ReadHistory, EscalateTool, Generate, Escalate,
                  TouchConversation, SendReply, askVars, BotInv, BotTypes
    <2>2. PICK s \in Stages :
             /\ GoTo(j, s)
             /\ s \in {"read", "generate", "save"} /\ ConvOf[j] \notin Widget
                    => replies[ConvOf[j]] < MaxReplies
      BY <1>4 DEF CheckStatus, CountReplies, ReadHistory, EscalateTool, Generate, Escalate,
                  TouchConversation, SendReply, Stages, BotInv, BotTypes, Counted
    <2> QED BY <2>1, <2>2, GoToInv DEF BotInv, BotTypes
  <1>5. ASSUME NEW j \in Jobs, SaveReply(j) PROVE BotInv'
    <2> USE <1>5 DEF SaveReply, GoTo, askVars, BotInv
    <2>1. BotTypes'
      BY DEF BotTypes, Stages
    <2>2. OneJob'
      BY DEF OneJob, BotTypes
    <2>3. Counted'
      <3> SUFFICES ASSUME NEW k \in Jobs, stage'[k] \in {"read", "generate", "save"},
                          ConvOf[k] \notin Widget
                   PROVE  replies'[ConvOf[k]] < MaxReplies
        BY DEF Counted
      <3>1. k # j /\ stage[k] = stage'[k]
        BY DEF BotTypes
      <3>2. ConvOf[k] # ConvOf[j]
        BY <3>1 DEF OneJob
      <3> QED BY <3>1, <3>2 DEF Counted, BotTypes
    <2>4. BotWithinLimit'
      BY DEF BotWithinLimit, Counted, BotTypes
    <2> QED BY <2>1, <2>2, <2>3, <2>4
  <1>6. ASSUME NEW j \in Jobs, JobFails(j) PROVE BotInv'
    <2>1. /\ stage[j] # "none" /\ UNCHANGED <<asking, wakes, unread, replies>>
          /\ GoTo(j, "queued") \/ GoTo(j, "none")
      BY <1>6 DEF JobFails, askVars
    <2>2. attempts' \in [Jobs -> 0 .. MaxAttempts - 1]
      BY <1>6 DEF JobFails, BotInv, BotTypes
    <2> QED BY <2>1, <2>2, GoToInv DEF Stages, BotInv, BotTypes
  <1>7. ASSUME NEW j \in Jobs, CaptureLead(j) PROVE BotInv'
    BY <1>7, <1>1 DEF CaptureLead
  <1>8. CASE UNCHANGED vars
    BY <1>8, <1>1 DEF vars
  <1> QED
    BY <1>1, <1>2, <1>3, <1>4, <1>5, <1>6, <1>7, <1>8 DEF Next, JobStep

\* The invariant holds for ever.
LEMMA BotInvariant == Spec => []BotInv
  BY BotInitInv, BotNextInv, PTL DEF Spec

\* Handing over is EscalateToHuman or nothing, and each other step of the bot
\* touches a conversation or leaves all of them alone.
THEOREM BotRefinesConversation == Spec => ImplementsConversation
  <1>1. Init => ConvInit
    BY DEF Init
  <1>2. [Next]_vars => [ConvNext]_convVars
    <2> SUFFICES ASSUME [Next]_vars PROVE [ConvNext]_convVars
      OBVIOUS
    <2>1. ASSUME NEW c \in Convs, Touch(c) \/ EscalateToHuman(c) PROVE ConvNext
      BY <2>1 DEF ConvNext, BotNext
    <2>2. ASSUME NEW c \in Convs,
                 \/ FindConversation(c) \/ StoreMessage(c) \/ UpdateLastMessage(c)
                 \/ EnqueueAiBotJob(c) \/ LoseMessage(c)
          PROVE  [ConvNext]_convVars
      BY <2>2, <2>1 DEF FindConversation, StoreMessage, UpdateLastMessage,
         EnqueueAiBotJob, LoseMessage
    <2>3. ASSUME NEW j \in Jobs, JobStep(j) \/ CaptureLead(j) \/ JobFails(j)
          PROVE  [ConvNext]_convVars
      <3>1. ConvOf[j] \in Convs
        BY ChatBotAssumption
      <3> QED
        BY <2>3, <2>1, <3>1 DEF JobStep, CaptureLead, JobFails, CheckStatus, CountReplies,
           ReadHistory, EscalateTool, Generate, Escalate, SaveReply, TouchConversation,
           SendReply, HandOver
    <2>4. CASE UNCHANGED vars
      BY <2>4 DEF vars
    <2> QED BY <2>2, <2>3, <2>4 DEF Next, ConvNext
  <1> QED BY <1>1, <1>2, PTL DEF Spec, ConvSpec, ImplementsConversation

\* Conversations, messages and jobs keep their types.
THEOREM ChatTypeCorrect == Spec => []TypeOK
  <1>1. BotInv /\ ConvTypeOK => TypeOK
    BY DEF BotInv, BotTypes, TypeOK
  <1> QED
    BY <1>1, BotInvariant, BotRefinesConversation, ConvTypeCorrect, PTL
       DEF ImplementsConversation

\* The count, the job id and the single save of an attempt together keep the
\* limit, through retries and conversations returned to the bot.
THEOREM LimitHolds == Spec => []BotWithinLimit
  BY BotInvariant, PTL DEF BotInv

\* With the bot at work too, a closed conversation stays closed.
THEOREM ClosedForGoodWithBot == Spec => ClosedIsFinal
  BY BotRefinesConversation, ClosedForGood DEF ImplementsConversation

\* And its agent still agrees with its status, and it gets one closing message at
\* most, whoever hands over while it is assigned or closed.
THEOREM ConversationsKeptWithBot == Spec => []AgentMatchesStatus /\ []ClosedOnce
  BY BotRefinesConversation, AgentAgrees, ClosesOnce DEF ImplementsConversation

-----------------------------------------------------------------------------
(* The messages that the bot passes over.                                   *)

\* A job that no longer attends to its conversation has read the history, or has
\* ended: with its conversation handed over, or after its last attempt.
LEMMA AttentionEnds ==
    ASSUME BotInv, NEW j \in Jobs, JobStep(j) \/ JobFails(j), Attends(j), ~Attends(j)',
           status[ConvOf[j]] = "BOT_ACTIVE", ConvTypeOK
    PROVE  \/ ~unread'[ConvOf[j]] \/ status'[ConvOf[j]] # "BOT_ACTIVE"
           \/ attempts[j] + 1 = MaxAttempts /\ stage'[j] = "none"
  <1> USE ChatBotAssumption DEF BotInv, BotTypes, Attends, GoTo
  <1>1. CASE CheckStatus(j)
    BY <1>1 DEF CheckStatus
  <1>2. CASE CountReplies(j)
    BY <1>2 DEF CountReplies
  <1>3. CASE ReadHistory(j)
    BY <1>3 DEF ReadHistory
  <1>4. CASE EscalateTool(j) \/ Generate(j) \/ SaveReply(j) \/ TouchConversation(j) \/ SendReply(j)
    BY <1>4 DEF EscalateTool, Generate, SaveReply, TouchConversation, SendReply
  <1>5. CASE Escalate(j)
    BY <1>5 DEF Escalate, HandOver, EscalateToHuman, Transition, ConvTypeOK
  <1>6. CASE JobFails(j)
    BY <1>6 DEF JobFails
  <1> QED BY <1>1, <1>2, <1>3, <1>4, <1>5, <1>6 DEF JobStep

\* Who can leave a message to the next one.
LEMMA ForgottenHolds == BotInv /\ ConvTypeOK /\ [Next]_vars => ForgottenStep
  <1> SUFFICES ASSUME BotInv, ConvTypeOK, [Next]_vars, NEW c \in Convs,
                      ~Forgotten(c), Forgotten(c)', status[c] = "BOT_ACTIVE"
               PROVE  \/ asking[c] = "trigger" /\ SharesJobId(c) /\ \E j \in Live : ConvOf[j] = c
                      \/ \E j \in Live : /\ ConvOf[j] = c /\ attempts[j] + 1 = MaxAttempts
                                         /\ stage'[j] = "none"
                      \/ asking[c] = "touch" /\ ~wakes[c]
                      \/ asking[c] # "lost" /\ asking'[c] = "lost"
    BY DEF ForgottenStep
  <1> USE ChatBotAssumption DEF BotInv, BotTypes
  <1>1. CASE UNCHANGED <<askVars, jobVars>>
    BY <1>1 DEF Forgotten, Attends, Live, askVars, jobVars
  <1>2. ASSUME NEW d \in Convs,
               \/ FindConversation(d) \/ StoreMessage(d) \/ UpdateLastMessage(d) \/ LoseMessage(d)
        PROVE  \/ asking[c] = "touch" /\ ~wakes[c]
               \/ asking[c] # "lost" /\ asking'[c] = "lost"
    <2>1. UNCHANGED <<stage, attempts>>
      BY <1>2 DEF FindConversation, StoreMessage, UpdateLastMessage, LoseMessage, jobVars
    <2>2. CASE d # c
      <3>1. asking'[c] = asking[c] /\ unread'[c] = unread[c]
        BY <1>2, <2>2 DEF FindConversation, StoreMessage, UpdateLastMessage, LoseMessage
      <3> QED BY <2>1, <3>1 DEF Forgotten, Attends, Live
    <2>3. CASE d = c
      BY <1>2, <2>3 DEF FindConversation, StoreMessage, UpdateLastMessage, LoseMessage, Forgotten
    <2> QED BY <2>2, <2>3
  <1>3. ASSUME NEW d \in Convs, EnqueueAiBotJob(d)
        PROVE  asking[c] = "trigger" /\ SharesJobId(c) /\ \E j \in Live : ConvOf[j] = c
    <2>1. ASSUME d # c PROVE FALSE
      <3>1. asking'[c] = asking[c] /\ unread'[c] = unread[c]
        BY <1>3, <2>1 DEF EnqueueAiBotJob
      <3>2. \A j \in Jobs : ConvOf[j] = c => stage'[j] = stage[j]
        BY <1>3, <2>1 DEF EnqueueAiBotJob
      <3> QED BY <3>1, <3>2 DEF Forgotten, Attends, Live
    <2>2. ASSUME NEW j \in Jobs, ConvOf[j] = c, stage' = [stage EXCEPT ![j] = "queued"]
          PROVE  FALSE
      BY <2>2 DEF Forgotten, Attends, Live
    <2> QED BY <1>3, <2>1, <2>2 DEF EnqueueAiBotJob
  <1>4. ASSUME NEW k \in Jobs, JobStep(k) \/ JobFails(k)
        PROVE  \E j \in Live : /\ ConvOf[j] = c /\ attempts[j] + 1 = MaxAttempts
                               /\ stage'[j] = "none"
    <2>1. /\ UNCHANGED asking
          /\ unread'[c] => unread[c]
          /\ \E s : stage' = [stage EXCEPT ![k] = s]
      BY <1>4 DEF JobStep, CheckStatus, CountReplies, ReadHistory, EscalateTool, Generate,
         Escalate, SaveReply, TouchConversation, SendReply, JobFails, GoTo, askVars
    <2>2. PICK j \in Live : ConvOf[j] = c /\ Attends(j)
      BY <2>1 DEF Forgotten
    <2>3. ~Attends(j)'
      BY <2>2 DEF Forgotten, Attends, Live
    <2>4. j = k
      BY <2>1, <2>2, <2>3 DEF Attends, Live
    <2> QED BY <1>4, <2>2, <2>3, <2>4, AttentionEnds DEF Forgotten, Live
  <1>5. ASSUME NEW k \in Jobs, CaptureLead(k) PROVE FALSE
    BY <1>5, <1>1 DEF CaptureLead, Forgotten, Attends, Live, askVars, jobVars
  <1>6. CASE UNCHANGED vars
    BY <1>6, <1>1 DEF vars
  <1> QED BY <1>1, <1>2, <1>3, <1>4, <1>5, <1>6 DEF Next

\* However many jobs and attempts there are, and on every channel, no message waits
\* for the next one for another reason.
THEOREM ForgottenForAReason == Spec => ForgottenMessages
  <1>1. BotInv /\ ConvTypeOK /\ [Next]_vars => [ForgottenStep]_vars
    BY ForgottenHolds
  <1> QED
    BY <1>1, BotInvariant, BotRefinesConversation, ConvTypeCorrect, PTL
       DEF Spec, ForgottenMessages, ImplementsConversation

-----------------------------------------------------------------------------
(* The widget, where nothing keeps two jobs of one conversation apart.      *)

Slots(c) == {j \in Jobs : ConvOf[j] = c}

\* Jobs that have found room for their answer and have not stored it.
Answering(c) == {j \in Slots(c) : stage[j] \in {"read", "generate", "save"}}

\* What is stored and what may still be, once there is any of it
RoomInv ==
    \A c \in Convs :
        \/ replies[c] = 0 /\ Answering(c) = {}
        \/ replies[c] + Cardinality(Answering(c)) < MaxReplies + Cardinality(Slots(c))

\* Slots are finitely many.
LEMMA FewSlots ==
    ASSUME IsFiniteSet(Jobs), NEW c \in Convs
    PROVE  /\ IsFiniteSet(Slots(c)) /\ Cardinality(Slots(c)) \in Nat
           /\ IsFiniteSet(Answering(c)) /\ Cardinality(Answering(c)) \in Nat
           /\ Cardinality(Answering(c)) =< Cardinality(Slots(c))
  <1>1. IsFiniteSet(Slots(c)) /\ Answering(c) \subseteq Slots(c)
    BY FS_Subset DEF Slots, Answering
  <1> QED BY <1>1, FS_Subset, FS_CardinalityType

\* A step of a job leaves the jobs of other slots where they are.
LEMMA OneSlot ==
    ASSUME BotInv, [Next]_vars
    PROVE  \/ UNCHANGED replies /\ \A c \in Convs : Answering(c)' \subseteq Answering(c)
           \/ /\ UNCHANGED replies
              /\ \E j \in Jobs : /\ replies[ConvOf[j]] < MaxReplies
                                 /\ \A c \in Convs \ {ConvOf[j]} : Answering(c)' = Answering(c)
           \/ \E j \in Jobs : SaveReply(j)
  <1> USE ChatBotAssumption DEF BotInv, BotTypes
  <1>1. CASE UNCHANGED stage /\ UNCHANGED replies
    BY <1>1 DEF Answering
  <1>2. ASSUME NEW j \in Jobs, CountReplies(j), replies[ConvOf[j]] < MaxReplies
        PROVE  /\ UNCHANGED replies
               /\ \A c \in Convs \ {ConvOf[j]} : Answering(c)' = Answering(c)
    BY <1>2 DEF CountReplies, GoTo, Answering, Slots
  <1>3. ASSUME NEW j \in Jobs, NEW s, stage' = [stage EXCEPT ![j] = s],
               s \in {"read", "generate", "save"} => stage[j] \in {"read", "generate", "save"}
        PROVE  \A c \in Convs : Answering(c)' \subseteq Answering(c)
    BY <1>3 DEF Answering, Slots
  <1>4. ASSUME NEW j \in Jobs,
               \/ CheckStatus(j) \/ (CountReplies(j) /\ ~(replies[ConvOf[j]] < MaxReplies))
               \/ ReadHistory(j) \/ EscalateTool(j) \/ Generate(j) \/ Escalate(j)
               \/ TouchConversation(j) \/ SendReply(j) \/ JobFails(j)
        PROVE  UNCHANGED replies /\ \A c \in Convs : Answering(c)' \subseteq Answering(c)
    <2>1. UNCHANGED replies
      BY <1>4 DEF CheckStatus, CountReplies, ReadHistory, EscalateTool, Generate, Escalate,
                  TouchConversation, SendReply, JobFails
    <2>2. PICK s : /\ stage' = [stage EXCEPT ![j] = s]
                   /\ s \in {"read", "generate", "save"}
                          => stage[j] \in {"read", "generate", "save"}
      BY <1>4 DEF CheckStatus, CountReplies, ReadHistory, EscalateTool, Generate, Escalate,
                  TouchConversation, SendReply, JobFails, GoTo
    <2> QED BY <2>1, <2>2, <1>3
  <1>5. ASSUME NEW c \in Convs, EnqueueAiBotJob(c)
        PROVE  UNCHANGED replies /\ \A d \in Convs : Answering(d)' \subseteq Answering(d)
    <2>1. UNCHANGED replies
      BY <1>5 DEF EnqueueAiBotJob
    <2>2. UNCHANGED stage \/ \E j \in Jobs : stage' = [stage EXCEPT ![j] = "queued"]
      BY <1>5 DEF EnqueueAiBotJob
    <2>3. CASE UNCHANGED stage
      BY <2>1, <2>3 DEF Answering
    <2> QED BY <2>1, <2>2, <2>3, <1>3
  <1>6. ASSUME NEW c \in Convs,
               \/ FindConversation(c) \/ StoreMessage(c)
               \/ UpdateLastMessage(c) \/ LoseMessage(c)
        PROVE  UNCHANGED stage /\ UNCHANGED replies
    BY <1>6 DEF FindConversation, StoreMessage, UpdateLastMessage, LoseMessage, jobVars
  <1>7. ASSUME NEW j \in Jobs, CaptureLead(j) PROVE UNCHANGED stage /\ UNCHANGED replies
    BY <1>7 DEF CaptureLead, jobVars
  <1>8. CASE UNCHANGED jobVars
    BY <1>8, <1>1 DEF jobVars
  <1>9. CASE UNCHANGED vars
    BY <1>9, <1>8 DEF vars
  <1>10. ASSUME NEW j \in Jobs, JobStep(j) \/ CaptureLead(j) \/ JobFails(j)
         PROVE  \/ UNCHANGED replies /\ \A c \in Convs : Answering(c)' \subseteq Answering(c)
                \/ /\ UNCHANGED replies
                   /\ replies[ConvOf[j]] < MaxReplies
                   /\ \A c \in Convs \ {ConvOf[j]} : Answering(c)' = Answering(c)
                \/ SaveReply(j)
    <2>1. CASE CaptureLead(j)
      BY <2>1, <1>7 DEF Answering
    <2> QED BY <1>2, <1>4, <1>10, <2>1 DEF JobStep
  <1>11. ASSUME NEW c \in Convs,
                \/ FindConversation(c) \/ StoreMessage(c) \/ UpdateLastMessage(c)
                \/ LoseMessage(c) \/ EnqueueAiBotJob(c)
         PROVE  UNCHANGED replies /\ \A d \in Convs : Answering(d)' \subseteq Answering(d)
    BY <1>5, <1>6, <1>11 DEF Answering
  <1> QED BY <1>8, <1>9, <1>10, <1>11 DEF Next

\* An answer takes the room that its job had found.
LEMMA RoomStep ==
    ASSUME IsFiniteSet(Jobs), BotInv, RoomInv, [Next]_vars
    PROVE  RoomInv'
  <1> SUFFICES ASSUME NEW c \in Convs
               PROVE  \/ replies'[c] = 0 /\ Answering(c)' = {}
                      \/ replies'[c] + Cardinality(Answering(c)')
                             < MaxReplies + Cardinality(Slots(c))
    BY DEF RoomInv, Slots
  <1>1. /\ IsFiniteSet(Slots(c)) /\ Cardinality(Slots(c)) \in Nat
        /\ IsFiniteSet(Answering(c)) /\ Cardinality(Answering(c)) \in Nat
        /\ replies[c] \in Nat /\ MaxReplies \in Nat
    BY FewSlots, ChatBotAssumption DEF BotInv, BotTypes
  <1>2. Answering(c)' \subseteq Slots(c)
    BY DEF Answering, Slots
  <1>3. /\ Cardinality(Answering(c)') \in Nat
        /\ Cardinality(Answering(c)') =< Cardinality(Slots(c))
    BY <1>1, <1>2, FS_Subset, FS_CardinalityType
  <1>4. ASSUME UNCHANGED replies, Answering(c)' \subseteq Answering(c)
        PROVE  \/ replies'[c] = 0 /\ Answering(c)' = {}
               \/ replies'[c] + Cardinality(Answering(c)') < MaxReplies + Cardinality(Slots(c))
    <2>1. Cardinality(Answering(c)') =< Cardinality(Answering(c))
      BY <1>1, <1>4, FS_Subset
    <2> QED BY <1>1, <1>3, <1>4, <2>1 DEF RoomInv
  <1>5. ASSUME NEW j \in Jobs, UNCHANGED replies, replies[ConvOf[j]] < MaxReplies,
               \A d \in Convs \ {ConvOf[j]} : Answering(d)' = Answering(d)
        PROVE  \/ replies'[c] = 0 /\ Answering(c)' = {}
               \/ replies'[c] + Cardinality(Answering(c)') < MaxReplies + Cardinality(Slots(c))
    <2>1. CASE c = ConvOf[j]
      BY <1>1, <1>3, <1>5, <2>1
    <2>2. CASE c # ConvOf[j]
      BY <1>4, <1>5, <2>2
    <2> QED BY <2>1, <2>2
  <1>6. ASSUME NEW j \in Jobs, SaveReply(j)
        PROVE  \/ replies'[c] = 0 /\ Answering(c)' = {}
               \/ replies'[c] + Cardinality(Answering(c)') < MaxReplies + Cardinality(Slots(c))
    <2> USE <1>6 DEF SaveReply, GoTo, BotInv, BotTypes
    <2>1. CASE c = ConvOf[j]
      <3>1. j \in Answering(c) /\ Answering(c)' = Answering(c) \ {j}
        BY <2>1 DEF Answering, Slots
      <3>2. Cardinality(Answering(c)') = Cardinality(Answering(c)) - 1
        BY <1>1, <3>1, FS_RemoveElement
      <3>3. replies'[c] = replies[c] + 1
        BY <2>1
      <3> QED BY <1>1, <3>1, <3>2, <3>3 DEF RoomInv
    <2>2. CASE c # ConvOf[j]
      <3>1. replies'[c] = replies[c] /\ Answering(c)' = Answering(c)
        BY <2>2 DEF Answering, Slots
      <3> QED BY <3>1 DEF RoomInv
    <2> QED BY <2>1, <2>2
  <1> QED BY <1>4, <1>5, <1>6, OneSlot

\* In the widget the limit may be passed, but by less than the number of jobs that
\* the queue holds for the conversation at once, however often each is tried.
THEOREM LimitAlmostHolds ==
    ASSUME IsFiniteSet(Jobs)
    PROVE  Spec => [](\A c \in Convs : \/ replies[c] =< MaxReplies
                                       \/ replies[c] < MaxReplies + Cardinality(Slots(c)))
  <1>1. Init => RoomInv
    <2> SUFFICES ASSUME Init, NEW c \in Convs PROVE replies[c] = 0 /\ Answering(c) = {}
      BY DEF RoomInv
    <2> QED BY DEF Init, Answering, Slots
  <1>2. BotInv /\ RoomInv /\ [Next]_vars => RoomInv'
    BY RoomStep
  <1>3. BotInv /\ RoomInv =>
            \A c \in Convs : \/ replies[c] =< MaxReplies
                             \/ replies[c] < MaxReplies + Cardinality(Slots(c))
    <2> SUFFICES ASSUME BotInv, RoomInv, NEW c \in Convs
                 PROVE  \/ replies[c] =< MaxReplies
                        \/ replies[c] < MaxReplies + Cardinality(Slots(c))
      OBVIOUS
    <2>1. replies[c] \in Nat /\ MaxReplies \in Nat
      BY ChatBotAssumption DEF BotInv, BotTypes
    <2> QED BY <2>1, FewSlots DEF RoomInv
  <1> QED BY <1>1, <1>2, <1>3, BotInvariant, PTL DEF Spec
=============================================================================
