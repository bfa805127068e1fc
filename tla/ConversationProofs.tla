------------------------- MODULE ConversationProofs -------------------------
(***************************************************************************)
(* Proofs about Conversation, for any number of conversations and agents:  *)
(* a conversation is closed once and for good, and its agent agrees with   *)
(* its status.                                                             *)
(***************************************************************************)
EXTENDS Conversation, FiniteSetTheorems, TLAPS

USE ConversationAssumption

\* Who still owes the message of a conversation is the one who closed it, and
\* no message is stored before it is paid.
NoteInv ==
    \A c \in Convs :
        /\ notes[c] \in {0, 1}
        /\ notes[c] = 1 => status[c] = "CLOSED" /\ \A w \in Closers : <<c, w>> \notin owed
        /\ \A w \in Closers : <<c, w>> \in owed => status[c] = "CLOSED" /\ closedBy[c] = w

ConvInv == ConvTypeOK /\ AgentMatchesStatus /\ NoteInv

\* The empty collection satisfies the invariant.
LEMMA ConvInitInv == ConvInit => ConvInv
  BY DEF ConvInit, ConvInv, ConvTypeOK, AgentMatchesStatus, NoteInv, ConversationStatus,
         OpenStatus, Closers

\* A move between statuses other than CLOSED keeps the invariant if the agent
\* goes with the new status.
LEMMA MoveInv ==
    ASSUME ConvInv, NEW c \in Convs, NEW from \in SUBSET (ConversationStatus \ {"CLOSED"}),
           NEW to \in OpenStatus, NEW a \in Agents \cup {None},
           to = "HUMAN_ACTIVE" <=> a # None,
           Transition(c, from, to, a), UNCHANGED <<closedBy, owed, notes, scan>>
    PROVE  ConvInv'
  <1> USE DEF ConvInv, ConvTypeOK, Transition
  <1>1. ConvTypeOK'
    BY DEF ConversationStatus
  <1>2. AgentMatchesStatus'
    BY DEF AgentMatchesStatus, OpenStatus
  <1>3. NoteInv'
    BY DEF NoteInv
  <1> QED BY <1>1, <1>2, <1>3

\* Whoever closes an open conversation keeps the invariant.
LEMMA CloseInv ==
    ASSUME ConvInv, NEW c \in Convs, NEW w \in Closers, CloseFrom(c, OpenStatus, w),
           scan' \subseteq Convs
    PROVE  ConvInv'
  <1> USE DEF ConvInv, ConvTypeOK, CloseFrom, Transition, OpenStatus, ConversationStatus
  <1>1. ConvTypeOK'
    OBVIOUS
  <1>2. AgentMatchesStatus'
    BY DEF AgentMatchesStatus
  <1>3. NoteInv'
    BY DEF NoteInv
  <1> QED BY <1>1, <1>2, <1>3

\* Every step keeps the invariant.
LEMMA ConvNextInv == ConvInv /\ [ConvNext]_convVars => ConvInv'
  <1> SUFFICES ASSUME ConvInv, [ConvNext]_convVars PROVE ConvInv'
    OBVIOUS
  <1>1. ASSUME NEW c \in Convs, NEW a \in Agents, Assign(c, a) \/ Transfer(c, a)
        PROVE  ConvInv'
    <2>1. CASE Assign(c, a)
      BY <2>1, MoveInv DEF Assign, ConversationStatus, OpenStatus
    <2>2. CASE Transfer(c, a)
      BY <2>2, MoveInv DEF Transfer, ConversationStatus, OpenStatus
    <2> QED BY <1>1, <2>1, <2>2
  <1>2. ASSUME NEW c \in Convs, Touch(c) \/ GoSilent(c) PROVE ConvInv'
    <2>1. /\ UNCHANGED <<status, assignedTo, closedBy, owed, notes, scan>>
          /\ recent' \in [Convs -> BOOLEAN]
      BY <1>2 DEF Touch, GoSilent, ConvInv, ConvTypeOK
    <2> QED BY <2>1 DEF ConvInv, ConvTypeOK, AgentMatchesStatus, NoteInv
  <1>3. ASSUME NEW c \in Convs, NEW a \in Agents, Close(c, a) PROVE ConvInv'
    BY <1>3, CloseInv DEF Close, Closers, ConvInv, ConvTypeOK
  <1>4. ASSUME NEW c \in Convs, ClientCloses(c) PROVE ConvInv'
    BY <1>4, CloseInv DEF ClientCloses, CloseOnMongo, Closers, ConvInv, ConvTypeOK
  <1>5. ASSUME NEW c \in Convs, NEW w \in Closers, WriteNote(c, w) PROVE ConvInv'
    <2>1. ConvTypeOK' /\ AgentMatchesStatus'
      BY <1>5 DEF WriteNote, ConvInv, ConvTypeOK, AgentMatchesStatus
    <2>2. NoteInv'
      BY <1>5 DEF WriteNote, ConvInv, ConvTypeOK, NoteInv
    <2> QED BY <2>1, <2>2 DEF ConvInv
  <1>6. ASSUME NEW c \in Convs, NEW w \in Closers, LoseNote(c, w) PROVE ConvInv'
    BY <1>6 DEF LoseNote, ConvInv, ConvTypeOK, AgentMatchesStatus, NoteInv
  <1>7. ASSUME NEW c \in Convs, AutoClose(c) PROVE ConvInv'
    <2>1. CASE CloseOnMongo(c, "system")
      BY <2>1, <1>7, CloseInv DEF AutoClose, CloseOnMongo, Closers, ConvInv, ConvTypeOK
    <2>2. CASE UNCHANGED <<status, assignedTo, closedBy, recent, owed, notes>>
      BY <2>2, <1>7 DEF AutoClose, ConvInv, ConvTypeOK, AgentMatchesStatus, NoteInv
    <2> QED BY <1>7, <2>1, <2>2 DEF AutoClose
  <1>8. ASSUME AutoCloseScan \/ AutoCloseDies \/ (\E c \in Convs : AutoCloseFails(c))
        PROVE  ConvInv'
    BY <1>8 DEF AutoCloseScan, AutoCloseDies, AutoCloseFails, Silent, ConvInv, ConvTypeOK,
                AgentMatchesStatus, NoteInv
  <1>9. CASE UNCHANGED convVars
    BY <1>9 DEF convVars, ConvInv, ConvTypeOK, AgentMatchesStatus, NoteInv
  <1>10. ASSUME NEW c \in Convs,
                \/ Open(c) \/ ReturnToQueue(c) \/ ReturnToBot(c) \/ EscalateToHuman(c)
         PROVE  ConvInv'
    <2>1. CASE Open(c)
      BY <2>1, MoveInv DEF Open, ConversationStatus, OpenStatus
    <2>2. CASE ReturnToQueue(c)
      BY <2>2, MoveInv DEF ReturnToQueue, ConversationStatus, OpenStatus
    <2>3. CASE ReturnToBot(c)
      BY <2>3, MoveInv DEF ReturnToBot, ConversationStatus, OpenStatus
    <2>4. CASE EscalateToHuman(c)
      <3>1. status[c] = "BOT_ACTIVE" /\ assignedTo[c] = None
        BY <2>4 DEF EscalateToHuman, Transition, ConvInv, AgentMatchesStatus
      <3> QED
        BY <2>4, <3>1, MoveInv DEF EscalateToHuman, ConversationStatus, OpenStatus
    <2> QED BY <1>10, <2>1, <2>2, <2>3, <2>4
  <1> QED
    BY <1>1, <1>2, <1>3, <1>4, <1>5, <1>6, <1>7, <1>8, <1>9, <1>10
       DEF ConvNext, HumanNext, AutoCloseNext, BotNext

\* The invariant holds for ever.
LEMMA ConvInvariant == ConvSpec => []ConvInv
  BY ConvInitInv, ConvNextInv, PTL DEF ConvSpec

\* Every document keeps its type.
THEOREM ConvTypeCorrect == ConvSpec => []ConvTypeOK
  BY ConvInvariant, PTL DEF ConvInv

\* The updates of the chat server and the worker keep assignedTo and status in
\* step: whoever is in the queue can be assumed.
THEOREM AgentAgrees == ConvSpec => []AgentMatchesStatus
  BY ConvInvariant, PTL DEF ConvInv

\* The status filters of the three ways to close let one closer through.
THEOREM ClosesOnce == ConvSpec => []ClosedOnce
  <1>1. ConvInv => ClosedOnce
    <2> SUFFICES ASSUME ConvInv, NEW c \in Convs
                 PROVE  /\ notes[c] + Cardinality({w \in Closers : <<c, w>> \in owed}) =< 1
                        /\ \A w \in Closers : <<c, w>> \in owed => closedBy[c] = w
      BY DEF ClosedOnce
    <2> DEFINE D == {w \in Closers : <<c, w>> \in owed}
    <2>1. CASE D = {}
      <3>1. Cardinality(D) = 0
        BY <2>1, FS_EmptySet
      <3>2. notes[c] \in {0, 1}
        BY DEF ConvInv, NoteInv
      <3>3. \A w \in Closers : <<c, w>> \notin owed
        BY <2>1
      <3> QED BY <3>1, <3>2, <3>3
    <2>2. CASE D # {}
      <3>1. PICK w \in Closers : <<c, w>> \in owed
        BY <2>2
      <3>2. D = {w} /\ notes[c] = 0
        BY <3>1 DEF ConvInv, NoteInv
      <3>3. Cardinality(D) = 1
        BY <3>2, FS_Singleton
      <3> QED BY <3>2, <3>3 DEF ConvInv, NoteInv
    <2> QED BY <2>1, <2>2
  <1> QED BY <1>1, ConvInvariant, PTL

\* No handler, worker or agent changes the status, the closer or the agent of a
\* closed conversation.
THEOREM ClosedForGood == ConvSpec => ClosedIsFinal
  <1> DEFINE Final ==
        \A c \in Convs : status[c] = "CLOSED" =>
           /\ status'[c] = "CLOSED"
           /\ closedBy'[c] = closedBy[c]
           /\ assignedTo'[c] = assignedTo[c]
  <1>1. ConvInv /\ [ConvNext]_convVars => [Final]_convVars
    <2> SUFFICES ASSUME ConvInv, ConvNext PROVE Final
      OBVIOUS
    <2> USE DEF ConvInv, ConvTypeOK
    <2>1. ASSUME NEW c \in Convs, NEW from, "CLOSED" \notin from, NEW to, NEW a,
                 Transition(c, from, to, a),
                 \A d \in Convs \ {c} : closedBy'[d] = closedBy[d]
          PROVE  Final
      BY <2>1 DEF Transition
    <2>2. ASSUME NEW c \in Convs, NEW w, CloseFrom(c, OpenStatus, w) PROVE Final
      BY <2>2, <2>1 DEF CloseFrom, OpenStatus
    <2>3. CASE UNCHANGED <<status, closedBy, assignedTo>>
      BY <2>3
    <2>4. ASSUME NEW c \in Convs, NEW a \in Agents,
                 \/ Assign(c, a) \/ Transfer(c, a) \/ Close(c, a)
          PROVE  Final
      BY <2>4, <2>1, <2>2 DEF Assign, Transfer, Close
    <2>5. ASSUME NEW c \in Convs,
                 \/ Open(c) \/ ReturnToQueue(c) \/ ReturnToBot(c) \/ EscalateToHuman(c)
                 \/ ClientCloses(c) \/ AutoClose(c)
          PROVE  Final
      BY <2>5, <2>1, <2>2, <2>3 DEF Open, ReturnToQueue, ReturnToBot, EscalateToHuman,
         ClientCloses, AutoClose, CloseOnMongo
    <2> QED
      BY <2>3, <2>4, <2>5 DEF ConvNext, HumanNext, AutoCloseNext, BotNext, GoSilent, Touch,
         WriteNote, LoseNote, AutoCloseScan, AutoCloseDies, AutoCloseFails
  <1>2. ConvSpec => [][Final]_convVars
    BY <1>1, ConvInvariant, PTL DEF ConvSpec
  <1> QED BY <1>2, PTL DEF ClosedIsFinal
=============================================================================
