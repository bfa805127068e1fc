-------------------------- MODULE ChatIncomingProofs --------------------------
(***************************************************************************)
(* Proofs about ChatIncoming, for any number of jobs, workers, runs and    *)
(* conversations.                                                          *)
(***************************************************************************)
EXTENDS ChatIncoming, ConversationProofs

USE IncomingAssumption

IncomingTypes ==
    /\ job \in [Jobs -> [at: {"queued"} \cup Awaits \cup Ends, runs: 0 .. Runs,
                         conv: Convs \cup {None}]]
    /\ copies \in [Jobs -> Nat]
    /\ confirms \in [Convs -> Nat]
    /\ queued \subseteq Convs
    /\ failed \subseteq Convs

HasConv == {"store", "touch", "announce", "close", "note", "confirm", "send", "done"}
Closing == {"note", "confirm", "send"}

\* Until its message is stored a job has no copy, and afterwards it has one.
StoreInv ==
    \A j \in Jobs :
        /\ copies[j] =< 1
        /\ job[j].at \in HasConv => job[j].conv \in Convs
        /\ job[j].at \in {"look", "insert", "store"} => copies[j] = 0
        /\ job[j].at \in HasConv \ {"store"} => copies[j] = 1
        /\ job[j].at = "duplicate" => Stored(j)
        /\ job[j].at = "done" /\ IsCommand(j) => status[job[j].conv] = "CLOSED"

\* A conversation that the client closed is in the hands of one job until its
\* confirmation is sent.
ConfirmInv ==
    /\ \A j \in Jobs : job[j].at \in Closing =>
          /\ status[job[j].conv] = "CLOSED" /\ closedBy[job[j].conv] = "client"
          /\ job[j].at = "note" => <<job[j].conv, "client">> \in owed
          /\ job[j].at = "confirm" => notes[job[j].conv] = 1
          /\ confirms[job[j].conv] = IF job[j].at = "send" THEN 1 ELSE 0
          /\ job[j].at = "send" => job[j].conv \notin queued \cup failed
    /\ \A j, k \in Jobs :
          job[j].at \in Closing /\ job[k].at \in Closing /\ job[j].conv = job[k].conv
              => j = k
    /\ \A c \in Convs :
          /\ confirms[c] =< 1
          /\ confirms[c] = 1 => status[c] = "CLOSED" /\ closedBy[c] = "client" /\ notes[c] = 1
          /\ c \in queued \cup failed => confirms[c] = 1
    /\ queued \cap failed = {}

\* Nothing is running at the start.
LEMMA IncomingInit == Init => ConvInit /\ IncomingTypes /\ StoreInv /\ ConfirmInv
  BY DEF Init, IncomingTypes, StoreInv, ConfirmInv, HasConv, Closing

\* Every job step is a step of Conversation or leaves the conversations alone.
LEMMA IncomingStep ==
    ASSUME IncomingTypes, StoreInv, [Next]_vars
    PROVE  [ConvNext]_convVars
  <1>1. ASSUME NEW j \in Jobs, JobNext(j) PROVE [ConvNext]_convVars
    <2>1. ASSUME job[j].at \in HasConv PROVE job[j].conv \in Convs
      BY <2>1 DEF StoreInv
    <2>2. CASE InsertConversation(j)
      BY <2>2 DEF InsertConversation, ConvNext, HumanNext
    <2>3. CASE UpdateConversation(j)
      BY <2>1, <2>3 DEF UpdateConversation, GoTo, HasConv, ConvNext, BotNext
    <2>4. CASE CloseByCommand(j)
      BY <2>1, <2>4 DEF CloseByCommand, GoTo, HasConv, ConvNext, HumanNext
    <2>5. CASE StoreClosingNote(j)
      BY <2>1, <2>5 DEF StoreClosingNote, GoTo, HasConv, ConvNext, HumanNext, Closers
    <2>6. CASE RunFails(j)
      BY <2>1, <2>6 DEF RunFails, HasConv, ConvNext, HumanNext, Closers
    <2> QED
      BY <1>1, <2>2, <2>3, <2>4, <2>5, <2>6
         DEF JobNext, Start, Ignore, FindOpen, FindNone, StoreMessage, Announce, LateToClose,
             StoreConfirmation, SendConfirmation, SendRefused
  <1>2. CASE AgentNext
    BY <1>2 DEF AgentNext, ConvNext, HumanNext, Closers
  <1>3. CASE UNCHANGED vars
    BY <1>3 DEF vars
  <1> QED BY <1>1, <1>2, <1>3 DEF Next

\* A step of Conversation neither reopens nor closes again what is closed, and
\* does not take back a stored note.
LEMMA ClosedStays ==
    ASSUME ConvInv, [ConvNext]_convVars, NEW c \in Convs, status[c] = "CLOSED"
    PROVE  status'[c] = "CLOSED" /\ closedBy'[c] = closedBy[c]
  BY DEF ConvInv, ConvTypeOK, ConvNext, HumanNext, AutoCloseNext, BotNext, Open, GoSilent,
     ReturnToQueue, ReturnToBot, ClientCloses, Assign, Transfer, Close, WriteNote, LoseNote,
     AutoCloseScan, AutoCloseDies, AutoClose, AutoCloseFails, Touch, EscalateToHuman,
     CloseOnMongo, CloseFrom, Transition, OpenStatus, convVars

\* The jobs keep their types.
LEMMA TypesStep ==
    ASSUME IncomingTypes, StoreInv, [Next]_vars
    PROVE  IncomingTypes'
  <1> USE DEF IncomingTypes
  <1>1. ASSUME NEW j \in Jobs, JobNext(j) PROVE IncomingTypes'
    <2>1. job[j].at \in HasConv => job[j].conv \in Convs
      BY DEF StoreInv
    <2>2. /\ copies' \in [Jobs -> Nat] /\ confirms' \in [Convs -> Nat]
          /\ queued' \subseteq Convs /\ failed' \subseteq Convs
      BY <1>1, <2>1 DEF JobNext, Start, Ignore, FindOpen, FindNone, InsertConversation,
         StoreMessage, UpdateConversation, Announce, CloseByCommand, LateToClose,
         StoreClosingNote, StoreConfirmation, SendConfirmation, SendRefused, RunFails,
         GoTo, HasConv
    <2>3. \E s \in {"queued"} \cup Awaits \cup Ends, n \in 0 .. Runs, c \in Convs \cup {None} :
              job' = [job EXCEPT ![j] = [at |-> s, runs |-> n, conv |-> c]]
      BY <1>1 DEF JobNext, Start, Ignore, FindOpen, FindNone, InsertConversation,
         StoreMessage, UpdateConversation, Announce, CloseByCommand, LateToClose,
         StoreClosingNote, StoreConfirmation, SendConfirmation, SendRefused, RunFails,
         GoTo, GoOn, GiveBack, Awaits, Ends, OpenConvs
    <2> QED BY <2>2, <2>3
  <1>2. CASE AgentNext
    BY <1>2 DEF AgentNext, ownVars
  <1>3. CASE UNCHANGED vars
    BY <1>3 DEF vars, ownVars
  <1> QED BY <1>1, <1>2, <1>3 DEF Next

\* A step of a job leaves the other jobs and their copies alone.
LEMMA OthersStay ==
    ASSUME IncomingTypes, NEW j \in Jobs, JobNext(j), NEW k \in Jobs, k # j
    PROVE  job'[k] = job[k] /\ copies'[k] = copies[k]
  BY DEF IncomingTypes, JobNext, Start, Ignore, FindOpen, FindNone, InsertConversation,
     StoreMessage, UpdateConversation, Announce, CloseByCommand, LateToClose,
     StoreClosingNote, StoreConfirmation, SendConfirmation, SendRefused, RunFails,
     GoTo, GoOn, GiveBack

\* A message that is stored stays stored.
LEMMA StoredStays ==
    ASSUME IncomingTypes, NEW j \in Jobs, JobNext(j), NEW k \in Jobs, Stored(k)
    PROVE  Stored(k)'
  <1>1. \A i \in Jobs : copies[i] > 0 => copies'[i] > 0
    BY DEF IncomingTypes, JobNext, Start, Ignore, FindOpen, FindNone, InsertConversation,
       StoreMessage, UpdateConversation, Announce, CloseByCommand, LateToClose,
       StoreClosingNote, StoreConfirmation, SendConfirmation, SendRefused, RunFails
  <1> QED BY <1>1 DEF Stored

\* A run stores the message only after it has looked for it.
LEMMA StoreStep ==
    ASSUME IncomingTypes, StoreInv, ConfirmInv, ConvInv, [Next]_vars
    PROVE  StoreInv'
  <1> DEFINE Good(k) ==
        /\ copies[k] =< 1
        /\ job[k].at \in HasConv => job[k].conv \in Convs
        /\ job[k].at \in {"look", "insert", "store"} => copies[k] = 0
        /\ job[k].at \in HasConv \ {"store"} => copies[k] = 1
        /\ job[k].at = "duplicate" => Stored(k)
        /\ job[k].at = "done" /\ IsCommand(k) => status[job[k].conv] = "CLOSED"
  <1>1. \A c \in Convs : status[c] = "CLOSED" => status'[c] = "CLOSED"
    BY IncomingStep, ClosedStays
  <1>2. ASSUME NEW j \in Jobs, JobNext(j) PROVE StoreInv'
    <2>1. ASSUME NEW k \in Jobs, k # j PROVE Good(k)'
      <3>1. Good(k)
        BY DEF StoreInv
      <3>2. job'[k] = job[k] /\ copies'[k] = copies[k] /\ (Stored(k) => Stored(k)')
        BY <1>2, <2>1, OthersStay, StoredStays
      <3>3. job[k].at = "done" => job[k].conv \in Convs
        BY <3>1 DEF HasConv
      <3> QED BY <3>1, <3>2, <3>3, <1>1 DEF IsCommand
    <2>2. Good(j)'
      <3>1. Good(j) /\ copies[j] \in Nat
        BY DEF StoreInv, IncomingTypes
      <3>2. CASE Start(j)
        <4>1. ~Stored(j) => copies[j] = 0
          BY <3>1 DEF Stored
        <4>2. Stored(j)' <=> Stored(j)
          BY <3>2 DEF Start, Stored
        <4>3. CASE Stored(j)
          BY <3>1, <3>2, <4>2, <4>3 DEF Start, IncomingTypes, HasConv
        <4>4. CASE ~Stored(j)
          BY <3>1, <3>2, <4>1, <4>4 DEF Start, IncomingTypes, HasConv
        <4> QED BY <4>3, <4>4
      <3>3. CASE Ignore(j) \/ FindOpen(j) \/ FindNone(j) \/ InsertConversation(j)
        BY <3>1, <3>3 DEF Ignore, FindOpen, FindNone, InsertConversation, GoTo, GoOn,
           IncomingTypes, HasConv, OpenConvs
      <3>4. CASE StoreMessage(j) \/ UpdateConversation(j) \/ Announce(j)
        BY <3>1, <3>4 DEF StoreMessage, UpdateConversation, Announce, GoTo,
           IncomingTypes, HasConv
      <3>5. CASE CloseByCommand(j) \/ StoreClosingNote(j) \/ StoreConfirmation(j)
        BY <3>1, <3>5 DEF CloseByCommand, StoreClosingNote, StoreConfirmation, GoTo,
           IncomingTypes, HasConv
      <3>6. CASE LateToClose(j)
        BY <3>1, <3>6, <1>1 DEF LateToClose, GoTo, IncomingTypes, HasConv
      <3>7. CASE SendConfirmation(j)
        <4>1. IsCommand(j) => status[job[j].conv] = "CLOSED"
          BY <3>7 DEF SendConfirmation, GoTo, ConfirmInv, Closing
        <4> QED
          BY <3>1, <3>7, <4>1, <1>1 DEF SendConfirmation, GoTo, IncomingTypes, HasConv
      <3>8. CASE SendRefused(j) \/ RunFails(j)
        BY <3>1, <3>8 DEF SendRefused, RunFails, GiveBack, IncomingTypes, HasConv, Awaits
      <3> QED
        BY <1>2, <3>2, <3>3, <3>4, <3>5, <3>6, <3>7, <3>8 DEF JobNext
    <2> QED BY <2>1, <2>2 DEF StoreInv
  <1>3. CASE AgentNext \/ UNCHANGED vars
    BY <1>1, <1>3 DEF AgentNext, vars, ownVars, StoreInv, Stored, IsCommand, HasConv
  <1> QED BY <1>2, <1>3 DEF Next

\* A step changes the notes of a conversation only while somebody owes one.
LEMMA NotesStay ==
    ASSUME ConvInv, [ConvNext]_convVars, NEW c \in Convs, notes[c] = 1
    PROVE  notes'[c] = 1
  BY DEF ConvInv, ConvTypeOK, NoteInv, ConvNext, HumanNext, AutoCloseNext, BotNext, Open,
     GoSilent, ReturnToQueue, ReturnToBot, ClientCloses, Assign, Transfer, Close, WriteNote,
     LoseNote, AutoCloseScan, AutoCloseDies, AutoClose, AutoCloseFails, Touch,
     EscalateToHuman, CloseOnMongo, CloseFrom, convVars

\* The client's note is owed until the job that closed the conversation ends
\* its step, and a job elsewhere does not touch it.
LEMMA OwedStays ==
    ASSUME IncomingTypes, StoreInv, ConfirmInv, ConvInv, [Next]_vars, NEW k \in Jobs,
           job[k].at = "note", UNCHANGED job[k]
    PROVE  <<job[k].conv, "client">> \in owed'
  <1>1. <<job[k].conv, "client">> \in owed /\ job[k].conv \in Convs
    BY DEF ConfirmInv, Closing, StoreInv, HasConv
  <1>2. ASSUME NEW j \in Jobs, JobNext(j) PROVE <<job[k].conv, "client">> \in owed'
    <2>1. CASE StoreClosingNote(j) \/ RunFails(j)
      <3>1. job'[j].at # job[j].at
        BY <2>1 DEF StoreClosingNote, RunFails, GoTo, GiveBack, IncomingTypes, Awaits
      <3>2. j # k
        BY <3>1
      <3>3. job[j].at = "note" => job[j].conv # job[k].conv
        BY <3>2 DEF ConfirmInv, Closing
      <3> QED
        BY <1>1, <2>1, <3>3 DEF StoreClosingNote, RunFails, GoTo, WriteNote, LoseNote, convVars
    <2> QED
      BY <1>1, <1>2, <2>1 DEF JobNext, Start, Ignore, FindOpen, FindNone, InsertConversation,
         StoreMessage, UpdateConversation, Announce, CloseByCommand, LateToClose,
         StoreConfirmation, SendConfirmation, SendRefused, Open, Touch, ClientCloses,
         CloseOnMongo, CloseFrom, convVars
  <1>3. CASE AgentNext
    <2>1. \A a \in Agents : a # "client"
      BY ConversationAssumption
    <2> QED
      BY <1>1, <1>3, <2>1 DEF AgentNext, Close, CloseFrom, WriteNote, LoseNote
  <1>4. CASE UNCHANGED vars
    BY <1>1, <1>4 DEF vars, convVars
  <1> QED BY <1>2, <1>3, <1>4 DEF Next

\* One job closes a conversation, and it alone confirms.
LEMMA ConfirmStep ==
    ASSUME IncomingTypes, StoreInv, ConfirmInv, ConvInv, [Next]_vars
    PROVE  ConfirmInv'
  <1> DEFINE Holds(k) == job[k].at \in Closing =>
          /\ status[job[k].conv] = "CLOSED" /\ closedBy[job[k].conv] = "client"
          /\ job[k].at = "note" => <<job[k].conv, "client">> \in owed
          /\ job[k].at = "confirm" => notes[job[k].conv] = 1
          /\ confirms[job[k].conv] = IF job[k].at = "send" THEN 1 ELSE 0
          /\ job[k].at = "send" => job[k].conv \notin queued \cup failed
             Confirmed(c) ==
          /\ confirms[c] =< 1
          /\ confirms[c] = 1 => status[c] = "CLOSED" /\ closedBy[c] = "client" /\ notes[c] = 1
          /\ c \in queued \cup failed => confirms[c] = 1
             Alone(j, k) ==
          job[j].at \in Closing /\ job[k].at \in Closing /\ job[j].conv = job[k].conv
              => j = k
  <1>0. /\ \A k \in Jobs : Holds(k) /\ (job[k].at \in Closing => job[k].conv \in Convs)
        /\ \A c \in Convs : Confirmed(c)
        /\ \A j, k \in Jobs : Alone(j, k)
        /\ queued \cap failed = {}
    BY DEF ConfirmInv, StoreInv, HasConv, Closing
  <1>1. \A c \in Convs : status[c] = "CLOSED" => status'[c] = "CLOSED" /\ closedBy'[c] = closedBy[c]
    BY IncomingStep, ClosedStays
  <1>2. \A c \in Convs : notes[c] = 1 => notes'[c] = 1
    BY IncomingStep, NotesStay
  <1>3. ASSUME NEW k \in Jobs, UNCHANGED job[k],
               job[k].at \in Closing =>
                   UNCHANGED <<confirms[job[k].conv], job[k].conv \in queued \cup failed>>
        PROVE  Holds(k)'
    <2>1. job[k].at = "note" => <<job[k].conv, "client">> \in owed'
      BY <1>3, OwedStays
    <2> QED BY <1>0, <1>1, <1>2, <1>3, <2>1
  <1>4. ASSUME NEW c \in Convs, UNCHANGED <<confirms[c], c \in queued \cup failed>>
        PROVE  Confirmed(c)'
    BY <1>0, <1>1, <1>2, <1>4
  <1>5. ASSUME UNCHANGED <<confirms, queued, failed>>,
               \A k \in Jobs : job'[k].at \in Closing => UNCHANGED job[k]
        PROVE  ConfirmInv'
    <2>1. \A k \in Jobs : Holds(k)'
      <3> TAKE k \in Jobs
      <3>1. CASE job'[k].at \in Closing
        BY <1>3, <1>5, <3>1
      <3>2. CASE job'[k].at \notin Closing
        BY <3>2
      <3> QED BY <3>1, <3>2
    <2>2. \A c \in Convs : Confirmed(c)'
      BY <1>4, <1>5
    <2>3. \A j, k \in Jobs : Alone(j, k)'
      BY <1>0, <1>5
    <2> QED BY <1>0, <1>5, <2>1, <2>2, <2>3 DEF ConfirmInv
  <1>6. ASSUME NEW j \in Jobs, JobNext(j) PROVE ConfirmInv'
    <2>0. \A k \in Jobs : k # j => job'[k] = job[k]
      BY <1>6, OthersStay
    <2>1. CASE \/ Start(j) \/ Ignore(j) \/ FindOpen(j) \/ FindNone(j)
               \/ InsertConversation(j) \/ StoreMessage(j) \/ UpdateConversation(j)
               \/ Announce(j) \/ LateToClose(j) \/ RunFails(j)
      <3>1. job'[j].at \notin Closing
        BY <2>1 DEF Start, Ignore, FindOpen, FindNone, InsertConversation, StoreMessage,
           UpdateConversation, Announce, LateToClose, RunFails, GoTo, GoOn, GiveBack,
           IncomingTypes, Closing
      <3>2. UNCHANGED <<confirms, queued, failed>>
        BY <2>1 DEF Start, Ignore, FindOpen, FindNone, InsertConversation, StoreMessage,
           UpdateConversation, Announce, LateToClose, RunFails
      <3> QED BY <1>5, <2>0, <3>1, <3>2
    <2>2. CASE CloseByCommand(j)
      <3>1. PICK c \in Convs : c = job[j].conv
        BY <2>2 DEF CloseByCommand, GoTo, StoreInv, HasConv
      <3>2. /\ status[c] # "CLOSED" /\ status'[c] = "CLOSED" /\ closedBy'[c] = "client"
            /\ <<c, "client">> \in owed'
            /\ job'[j].at = "note" /\ job'[j].conv = c
            /\ UNCHANGED <<confirms, queued, failed>>
        BY <2>2, <3>1 DEF CloseByCommand, GoTo, ClientCloses, CloseOnMongo, CloseFrom,
           Transition, OpenStatus, IncomingTypes, ConvInv, ConvTypeOK
      <3>3. confirms[c] = 0
        <4>1. Confirmed(c) /\ confirms[c] \in Nat
          BY <1>0 DEF IncomingTypes
        <4> QED BY <3>2, <4>1
      <3>4. \A k \in Jobs : Holds(k)'
        BY <1>3, <2>0, <3>2, <3>3
      <3>5. \A k \in Jobs : job[k].at \in Closing => job[k].conv # c
        BY <1>0, <3>2
      <3>6. \A i, k \in Jobs : Alone(i, k)'
        BY <1>0, <2>0, <3>2, <3>5
      <3> QED BY <1>0, <1>4, <3>2, <3>4, <3>6 DEF ConfirmInv
    <2>3. CASE StoreClosingNote(j)
      <3>1. PICK c \in Convs : c = job[j].conv
        BY <2>3 DEF StoreClosingNote, GoTo, StoreInv, HasConv
      <3>2. /\ job[j].at = "note" /\ job'[j].at = "confirm" /\ job'[j].conv = c
            /\ notes'[c] = notes[c] + 1
            /\ UNCHANGED <<confirms, queued, failed, status, closedBy>>
        BY <2>3, <3>1 DEF StoreClosingNote, GoTo, WriteNote, IncomingTypes, ConvInv, ConvTypeOK
      <3>3. notes[c] = 0
        <4>1. <<c, "client">> \in owed
          BY <1>0, <3>1, <3>2 DEF Closing
        <4> QED
          BY <4>1 DEF ConvInv, NoteInv, Closers
      <3>4. \A k \in Jobs : Holds(k)'
        <4>1. Holds(j)'
          <5>1. Holds(j) /\ job[j].at \in Closing
            BY <1>0, <3>2 DEF Closing
          <5>2. notes'[c] = 1
            BY <3>2, <3>3
          <5> QED BY <3>1, <3>2, <5>1, <5>2
        <4> QED BY <1>3, <2>0, <3>2, <4>1
      <3>5. \A i, k \in Jobs : Alone(i, k)'
        <4>1. job'[j].conv = job[j].conv /\ job[j].at \in Closing
          BY <3>1, <3>2 DEF Closing
        <4> QED BY <1>0, <2>0, <4>1
      <3> QED BY <1>0, <1>4, <3>2, <3>4, <3>5 DEF ConfirmInv
    <2>4. CASE StoreConfirmation(j)
      <3>1. PICK c \in Convs : c = job[j].conv
        BY <2>4 DEF StoreConfirmation, GoTo, StoreInv, HasConv
      <3>2. /\ job[j].at = "confirm" /\ job'[j].at = "send" /\ job'[j].conv = c
            /\ confirms' = [confirms EXCEPT ![c] = @ + 1]
            /\ UNCHANGED <<queued, failed, status, closedBy, notes>>
        BY <2>4, <3>1 DEF StoreConfirmation, GoTo, IncomingTypes, convVars
      <3>3. /\ confirms[c] = 0 /\ notes[c] = 1
            /\ status[c] = "CLOSED" /\ closedBy[c] = "client"
            /\ c \notin queued \cup failed
        <4>1. Holds(j) /\ Confirmed(c) /\ job[j].at \in Closing
          BY <1>0, <3>2 DEF Closing
        <4> QED BY <3>1, <3>2, <4>1
      <3>4. confirms'[c] = 1 /\ \A d \in Convs : d # c => confirms'[d] = confirms[d]
        BY <3>2, <3>3 DEF IncomingTypes
      <3>5. \A k \in Jobs : k # j => (job[k].at \in Closing => job[k].conv # c)
        BY <1>0, <3>1, <3>2 DEF Closing
      <3>6. \A k \in Jobs : Holds(k)'
        <4>1. Holds(j)'
          BY <3>2, <3>3, <3>4
        <4>2. ASSUME NEW k \in Jobs, k # j PROVE Holds(k)'
          BY <1>0, <1>3, <2>0, <3>2, <3>4, <3>5, <4>2
        <4> QED BY <4>1, <4>2
      <3>7. \A d \in Convs : Confirmed(d)'
        <4>1. Confirmed(c)'
          BY <3>2, <3>3, <3>4
        <4> QED BY <1>4, <3>2, <3>4, <4>1
      <3>8. \A i, k \in Jobs : Alone(i, k)'
        BY <1>0, <2>0, <3>2, <3>5
      <3> QED BY <1>0, <3>2, <3>6, <3>7, <3>8 DEF ConfirmInv
    <2>5. CASE SendConfirmation(j) \/ SendRefused(j)
      <3>1. PICK c \in Convs : c = job[j].conv
        BY <2>5 DEF SendConfirmation, SendRefused, GoTo, StoreInv, HasConv
      <3>2. /\ job[j].at = "send" /\ job'[j].at \notin Closing
            /\ \/ queued' = queued \cup {c} /\ failed' = failed
               \/ failed' = failed \cup {c} /\ queued' = queued
            /\ UNCHANGED <<confirms, status, closedBy, notes, owed>>
        BY <2>5, <3>1 DEF SendConfirmation, SendRefused, GoTo, GiveBack, IncomingTypes,
           Closing, convVars
      <3>3. /\ confirms[c] = 1 /\ c \notin queued \cup failed
            /\ status[c] = "CLOSED" /\ closedBy[c] = "client" /\ notes[c] = 1
        <4>1. Holds(j) /\ Confirmed(c) /\ job[j].at \in Closing
          BY <1>0, <3>2 DEF Closing
        <4> QED BY <3>1, <3>2, <4>1
      <3>4. \A k \in Jobs : k # j => (job[k].at \in Closing => job[k].conv # c)
        BY <1>0, <3>1, <3>2 DEF Closing
      <3>5. \A k \in Jobs : Holds(k)'
        <4>1. ASSUME NEW k \in Jobs, k # j PROVE Holds(k)'
          BY <1>3, <2>0, <3>2, <3>4, <4>1
        <4> QED BY <3>2, <4>1
      <3>6. \A d \in Convs : Confirmed(d)'
        BY <1>0, <3>2, <3>3
      <3>7. \A i, k \in Jobs : Alone(i, k)'
        BY <1>0, <2>0, <3>2
      <3>8. (queued \cap failed = {})'
        BY <1>0, <3>2, <3>3
      <3> QED BY <3>5, <3>6, <3>7, <3>8 DEF ConfirmInv
    <2> QED BY <1>6, <2>1, <2>2, <2>3, <2>4, <2>5 DEF JobNext
  <1>7. CASE AgentNext \/ UNCHANGED vars
    <2>1. UNCHANGED <<job, confirms, queued, failed>>
      BY <1>7 DEF AgentNext, ownVars, vars
    <2> QED BY <1>5, <2>1
  <1> QED BY <1>6, <1>7 DEF Next

\* The workers that run, and the conversations they can have opened.
WorkersInv ==
    /\ Cardinality(Running) =< Workers
    /\ IsFiniteSet(OpenConvs)
    /\ OpenAtMostWorkers

\* Jobs are finitely many, so those at one await are.
LEMMA FewJobs ==
    /\ IsFiniteSet(Running) /\ Cardinality(Running) \in Nat
    /\ IsFiniteSet(At("insert")) /\ Cardinality(At("insert")) \in Nat
    /\ Cardinality(At("insert")) =< Cardinality(Running)
  <1>1. IsFiniteSet(Running) /\ At("insert") \in SUBSET Running
    BY FS_Subset DEF Running, At, Awaits
  <1> QED BY <1>1, FS_Subset, FS_CardinalityType

\* A step that starts no job and opens no conversation keeps the bound.
LEMMA WorkersFewer ==
    ASSUME WorkersInv, Running' \subseteq Running, At("insert")' \subseteq At("insert"),
           OpenConvs' \subseteq OpenConvs
    PROVE  WorkersInv'
  <1>1. /\ IsFiniteSet(OpenConvs') /\ Cardinality(OpenConvs') =< Cardinality(OpenConvs)
        /\ Cardinality(Running') =< Cardinality(Running)
        /\ Cardinality(At("insert")') =< Cardinality(At("insert"))
    BY FewJobs, FS_Subset DEF WorkersInv
  <1>2. /\ Cardinality(OpenConvs') \in Nat /\ Cardinality(OpenConvs) \in Nat
        /\ Cardinality(Running') \in Nat /\ Cardinality(At("insert")') \in Nat
    BY <1>1, FewJobs, FS_Subset, FS_CardinalityType DEF WorkersInv
  <1>3. Cardinality(Running') =< Workers
    BY <1>1, <1>2, FewJobs DEF WorkersInv
  <1>4. Cardinality(OpenConvs') + Cardinality(At("insert")') =< Workers
    BY <1>1, <1>2, FewJobs DEF WorkersInv, OpenAtMostWorkers
  <1> QED BY <1>1, <1>3, <1>4 DEF WorkersInv, OpenAtMostWorkers

\* Only an insertion opens a conversation.
LEMMA NoneOpened ==
    ASSUME ConvInv, NEW c \in Convs,
           \/ Touch(c) \/ ClientCloses(c) \/ (\E a \in Closers : WriteNote(c, a) \/ LoseNote(c, a))
           \/ (\E a \in Agents : Close(c, a)) \/ UNCHANGED convVars
    PROVE  OpenConvs' \subseteq OpenConvs
  BY DEF ConvInv, ConvTypeOK, Touch, ClientCloses, WriteNote, LoseNote, Close, CloseOnMongo,
     CloseFrom, Transition, convVars, OpenConvs, OpenStatus

\* Who finds no conversation is one of the workers; who inserts turns from a
\* worker that may open one into a conversation that is open.
LEMMA WorkersStep ==
    ASSUME IncomingTypes, StoreInv, ConvInv, WorkersInv, [Next]_vars
    PROVE  WorkersInv'
  <1>1. ASSUME NEW j \in Jobs, JobNext(j) PROVE WorkersInv'
    <2>0. \A k \in Jobs : k # j => job'[k] = job[k]
      BY <1>1, OthersStay
    <2>1. CASE Start(j)
      <3>1. /\ job'[j].at \in {"duplicate", "look"} /\ job[j].at = "queued"
            /\ Cardinality(Running) < Workers
            /\ UNCHANGED convVars
        BY <2>1 DEF Start, IncomingTypes
      <3>2. Running' \subseteq Running \cup {j}
        BY <2>0 DEF Running
      <3>3. /\ IsFiniteSet(Running \cup {j})
            /\ Cardinality(Running \cup {j}) = Cardinality(Running) + 1
        BY <3>1, FewJobs, FS_AddElement DEF Running, Awaits
      <3>4. Cardinality(Running') =< Cardinality(Running) + 1
        BY <3>2, <3>3, FS_Subset
      <3>5. Cardinality(Running') \in Nat
        BY <3>2, <3>3, FS_Subset, FS_CardinalityType
      <3>6. At("insert")' = At("insert") /\ OpenConvs' = OpenConvs
        BY <2>0, <3>1 DEF At, OpenConvs, convVars
      <3>7. Cardinality(Running') =< Workers
        BY <3>1, <3>4, <3>5, FewJobs
      <3> QED BY <3>6, <3>7 DEF WorkersInv, OpenAtMostWorkers
    <2>2. CASE FindNone(j)
      <3>1. Running' = Running /\ OpenConvs = {} /\ OpenConvs' = {}
        BY <2>0, <2>2 DEF FindNone, GoTo, IncomingTypes, Running, Awaits, OpenConvs, convVars
      <3>2. At("insert")' \in SUBSET Running
        BY <3>1 DEF At, Running, Awaits
      <3>3. Cardinality(At("insert")') =< Cardinality(Running) /\ Cardinality(At("insert")') \in Nat
        BY <3>2, FewJobs, FS_Subset, FS_CardinalityType
      <3>4. Cardinality(OpenConvs') = 0 /\ IsFiniteSet(OpenConvs')
        BY <3>1, FS_EmptySet
      <3>5. Cardinality(OpenConvs') + Cardinality(At("insert")') =< Workers
        BY <3>3, <3>4, FewJobs DEF WorkersInv
      <3> QED BY <3>1, <3>4, <3>5 DEF WorkersInv, OpenAtMostWorkers
    <2>3. CASE InsertConversation(j)
      <3>1. PICK c \in Convs : Open(c) /\ GoOn(j, "insert", "store", c)
        BY <2>3 DEF InsertConversation
      <3>2. Running' = Running /\ At("insert")' = At("insert") \ {j} /\ j \in At("insert")
        BY <2>0, <3>1 DEF GoOn, IncomingTypes, Running, At, Awaits
      <3>3. OpenConvs' = OpenConvs \cup {c} /\ c \notin OpenConvs
        BY <3>1 DEF Open, Transition, OpenConvs, OpenStatus, ConvInv, ConvTypeOK
      <3>4. Cardinality(At("insert")') = Cardinality(At("insert")) - 1
        BY <3>2, FewJobs, FS_RemoveElement
      <3>5. IsFiniteSet(OpenConvs') /\ Cardinality(OpenConvs') = Cardinality(OpenConvs) + 1
        BY <3>3, FS_AddElement DEF WorkersInv
      <3>6. Cardinality(OpenConvs) \in Nat
        BY FS_CardinalityType DEF WorkersInv
      <3>7. Cardinality(OpenConvs') + Cardinality(At("insert")') =< Workers
        BY <3>4, <3>5, <3>6, FewJobs DEF WorkersInv, OpenAtMostWorkers
      <3> QED BY <3>2, <3>5, <3>7 DEF WorkersInv, OpenAtMostWorkers
    <2>4. CASE \/ Ignore(j) \/ FindOpen(j) \/ StoreMessage(j) \/ UpdateConversation(j)
               \/ Announce(j) \/ CloseByCommand(j) \/ LateToClose(j) \/ StoreClosingNote(j)
               \/ StoreConfirmation(j) \/ SendConfirmation(j) \/ SendRefused(j) \/ RunFails(j)
      <3>1. job[j].at \in Awaits /\ job'[j].at # "insert"
        BY <2>4 DEF Ignore, FindOpen, StoreMessage, UpdateConversation, Announce,
           CloseByCommand, LateToClose, StoreClosingNote, StoreConfirmation, SendConfirmation,
           SendRefused, RunFails, GoTo, GoOn, GiveBack, Awaits, IncomingTypes
      <3>2. Running' \subseteq Running /\ At("insert")' \subseteq At("insert")
        BY <2>0, <3>1 DEF Running, At
      <3>3. OpenConvs' \subseteq OpenConvs
        <4>1. job[j].at \in HasConv => job[j].conv \in Convs
          BY DEF StoreInv
        <4> QED
          BY <2>4, <4>1, NoneOpened DEF Ignore, FindOpen, StoreMessage, UpdateConversation,
             Announce, CloseByCommand, LateToClose, StoreClosingNote, StoreConfirmation,
             SendConfirmation, SendRefused, RunFails, GoTo, HasConv, OpenConvs, convVars, Closers
      <3> QED BY <3>2, <3>3, WorkersFewer
    <2> QED BY <1>1, <2>1, <2>2, <2>3, <2>4 DEF JobNext
  <1>2. CASE AgentNext \/ UNCHANGED vars
    <2>1. UNCHANGED job
      BY <1>2 DEF AgentNext, vars, ownVars
    <2>2. OpenConvs' \subseteq OpenConvs
      BY <1>2, NoneOpened DEF AgentNext, vars, convVars, OpenConvs, Closers
    <2> QED BY <2>1, <2>2, WorkersFewer DEF Running, At
  <1> QED BY <1>1, <1>2 DEF Next

\* No worker runs and nothing is open at the start.
LEMMA WorkersInit == Init => WorkersInv
  <1> SUFFICES ASSUME Init PROVE WorkersInv
    OBVIOUS
  <1>1. Running = {} /\ At("insert") = {} /\ OpenConvs = {}
    BY DEF Init, ConvInit, Running, At, OpenConvs, OpenStatus, Awaits
  <1> QED BY <1>1, FS_EmptySet DEF WorkersInv, OpenAtMostWorkers

IncomingInv == ConvInv /\ IncomingTypes /\ StoreInv /\ ConfirmInv /\ WorkersInv

\* The invariants hold together, each step resting on the others.
LEMMA IncomingInvariant == Spec => []IncomingInv
  <1>1. Init => IncomingInv
    BY IncomingInit, ConvInitInv, WorkersInit DEF IncomingInv
  <1>2. IncomingInv /\ [Next]_vars => IncomingInv'
    BY IncomingStep, ConvNextInv, TypesStep, StoreStep, ConfirmStep, WorkersStep
       DEF IncomingInv
  <1> QED BY <1>1, <1>2, PTL DEF Spec

\* The conversations and the jobs keep their types.
THEOREM IncomingTypeCorrect == Spec => []TypeOK
  <1>1. IncomingInv => TypeOK
    BY DEF IncomingInv, ConvInv, IncomingTypes, TypeOK
  <1> QED BY <1>1, IncomingInvariant, PTL

\* The open conversations of a contact are at most as many as the workers.
THEOREM OpenBounded == Spec => []OpenAtMostWorkers
  <1>1. IncomingInv => OpenAtMostWorkers
    BY DEF IncomingInv, WorkersInv
  <1> QED BY <1>1, IncomingInvariant, PTL

\* Retries store nothing twice.
THEOREM StoresOnce == Spec => []RetryStoresOnce
  <1>1. IncomingInv => RetryStoresOnce
    BY DEF IncomingInv, StoreInv, RetryStoresOnce
  <1> QED BY <1>1, IncomingInvariant, PTL

\* A job that ended well has stored its message and obeyed the command.
THEOREM EndedWell == Spec => []EndedIsDone
  <1>1. IncomingInv => EndedIsDone
    BY DEF IncomingInv, StoreInv, EndedIsDone, HasConv, Stored
  <1> QED BY <1>1, IncomingInvariant, PTL

\* One confirmation per conversation, whoever raced for the closing.
THEOREM ConfirmsOnce == Spec => []OneConfirmation
  <1>1. IncomingInv => OneConfirmation
    BY DEF IncomingInv, ConfirmInv, OneConfirmation
  <1> QED BY <1>1, IncomingInvariant, PTL

-----------------------------------------------------------------------------
(* The conversations under the jobs are those of Conversation.              *)

\* Whatever the jobs do, the conversations go through steps of Conversation.
THEOREM IncomingImplementsConversation == Spec => ConvSpec
  <1>1. Init => ConvInit
    BY DEF Init
  <1>2. IncomingInv /\ [Next]_vars => [ConvNext]_convVars
    BY IncomingStep DEF IncomingInv
  <1> QED BY <1>1, <1>2, IncomingInvariant, PTL DEF Spec, ConvSpec

\* So what is proved of conversations holds while messages arrive: the agent
\* agrees with the status, one closing message is stored at most, and no message,
\* however late, reopens a conversation.
THEOREM IncomingKeepsConversations ==
    Spec => []AgentMatchesStatus /\ []ClosedOnce /\ ClosedIsFinal
  BY IncomingImplementsConversation, AgentAgrees, ClosesOnce, ClosedForGood

-----------------------------------------------------------------------------
(* Deliveries of one message.                                                *)

\* Jobs that have stored message m or still may, without another look at the
\* messages that are there.
Holding(m) ==
    {j \in Jobs : Msg[j] = m /\ (copies[j] > 0 \/ job[j].at \in {"look", "insert", "store"})}

HoldingInv == \A m \in Messages : Cardinality(Holding(m)) =< Workers

CopiesOf(m) == {j \in Jobs : Msg[j] = m /\ copies[j] > 0}

\* Deliveries are finitely many.
LEMMA FewHold ==
    ASSUME NEW S, S \subseteq Jobs
    PROVE  IsFiniteSet(S) /\ Cardinality(S) \in Nat
  BY FS_Subset, FS_CardinalityType

\* A delivery that is not holding and begins to finds none stored, and only
\* other workers' deliveries hold with it.
LEMMA HoldingStep ==
    ASSUME IncomingTypes, StoreInv, WorkersInv, HoldingInv, [Next]_vars
    PROVE  HoldingInv'
  <1> SUFFICES ASSUME NEW m \in Messages PROVE Cardinality(Holding(m)') =< Workers
    BY DEF HoldingInv
  <1>1. /\ Holding(m) \subseteq Jobs /\ Holding(m)' \subseteq Jobs /\ Running \subseteq Jobs
        /\ Cardinality(Holding(m)) =< Workers /\ Cardinality(Running) =< Workers
    BY DEF Holding, HoldingInv, Running, WorkersInv
  <1>2. ASSUME Holding(m)' \subseteq Holding(m) PROVE Cardinality(Holding(m)') =< Workers
    <2>1. Cardinality(Holding(m)') =< Cardinality(Holding(m))
      BY <1>1, <1>2, FewHold, FS_Subset
    <2> QED BY <1>1, <2>1, FewHold
  <1>3. ASSUME NEW j \in Jobs, JobNext(j) PROVE Cardinality(Holding(m)') =< Workers
    <2>0. \A k \in Jobs : k # j => job'[k] = job[k] /\ copies'[k] = copies[k]
      BY <1>3, OthersStay
    <2>1. CASE Start(j) /\ ~Stored(j) /\ Msg[j] = m
      <3>1. job[j].at = "queued" /\ Cardinality(Running) < Workers /\ copies' = copies
        BY <2>1 DEF Start
      <3>2. \A k \in Jobs : Msg[k] = m => ~(copies[k] > 0)
        BY <2>1 DEF Stored
      <3>3. Holding(m)' \subseteq Running \cup {j}
        BY <2>0, <3>1, <3>2 DEF Holding, Running, Awaits
      <3>4. j \notin Running
        BY <3>1 DEF Running, Awaits
      <3>5. Cardinality(Running \cup {j}) = Cardinality(Running) + 1
            /\ IsFiniteSet(Running \cup {j})
        BY <1>1, <3>4, FewHold, FS_AddElement
      <3>6. Cardinality(Holding(m)') =< Cardinality(Running \cup {j})
        BY <3>3, <3>5, FS_Subset
      <3> QED BY <1>1, <3>1, <3>5, <3>6, FewHold
    <2>2. CASE ~(Start(j) /\ ~Stored(j) /\ Msg[j] = m)
      <3>1. Msg[j] = m /\ (copies'[j] > 0 \/ job'[j].at \in {"look", "insert", "store"})
              => copies[j] > 0 \/ job[j].at \in {"look", "insert", "store"}
        <4>1. CASE Start(j)
          BY <2>2, <4>1 DEF Start, IncomingTypes
        <4>2. CASE ~Start(j)
          BY <1>3, <4>2 DEF JobNext, Ignore, FindOpen, FindNone, InsertConversation,
             StoreMessage, UpdateConversation, Announce, CloseByCommand, LateToClose,
             StoreClosingNote, StoreConfirmation, SendConfirmation, SendRefused, RunFails,
             GoTo, GoOn, GiveBack, IncomingTypes
        <4> QED BY <4>1, <4>2
      <3>2. Holding(m)' \subseteq Holding(m)
        BY <2>0, <3>1 DEF Holding
      <3> QED BY <1>2, <3>2
    <2> QED BY <2>1, <2>2
  <1>4. CASE AgentNext \/ UNCHANGED vars
    <2>1. Holding(m)' = Holding(m)
      BY <1>4 DEF AgentNext, vars, ownVars, Holding
    <2> QED BY <1>2, <2>1
  <1> QED BY <1>3, <1>4 DEF Next

\* No delivery holds a message at the start.
LEMMA HoldingInit == Init => HoldingInv
  <1> SUFFICES ASSUME Init, NEW m \in Messages PROVE Cardinality(Holding(m)) =< Workers
    BY DEF HoldingInv
  <1>1. Holding(m) = {}
    BY DEF Init, Holding
  <1> QED BY <1>1, FS_EmptySet

\* However often the provider delivers a message and however often each job is
\* run again, at most as many jobs store it as there are workers, each of them
\* once: only deliveries that are at work at the same time can both find nothing.
THEOREM CopiesBounded ==
    Spec => [](\A m \in Messages : Cardinality(CopiesOf(m)) =< Workers)
  <1>1. HoldingInv => \A m \in Messages : Cardinality(CopiesOf(m)) =< Workers
    <2> SUFFICES ASSUME HoldingInv, NEW m \in Messages
                 PROVE  Cardinality(CopiesOf(m)) =< Workers
      OBVIOUS
    <2>1. CopiesOf(m) \subseteq Holding(m) /\ Holding(m) \subseteq Jobs
      BY DEF CopiesOf, Holding
    <2>2. Cardinality(CopiesOf(m)) =< Cardinality(Holding(m))
      BY <2>1, FewHold, FS_Subset
    <2> QED BY <2>1, <2>2, FewHold DEF HoldingInv
  <1>2. IncomingInv /\ HoldingInv /\ [Next]_vars => HoldingInv'
    BY HoldingStep DEF IncomingInv
  <1> QED BY <1>1, <1>2, HoldingInit, IncomingInvariant, PTL DEF Spec
=============================================================================
