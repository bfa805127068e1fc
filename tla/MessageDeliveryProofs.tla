------------------------ MODULE MessageDeliveryProofs ------------------------
(***************************************************************************)
(* Proofs about MessageDelivery, for any number of messages and workers    *)
(* and any limits of attempts and stalls: its invariants, and that it is   *)
(* the abstract Outbox.                                                    *)
(***************************************************************************)
EXTENDS MessageDelivery, TLAPS

USE DeliveryAssumption

\* What the position of the job says about the message: before the provider is
\* asked again every earlier copy was paid by an attempt or a stall.
DeliveryInv ==
    \A m \in Messages :
        /\ at[m] = "none" => status[m] = "NONE"
        /\ at[m] = "add" => status[m] = "PENDING"
        /\ at[m] = "write" => accepted[m] > 0
        /\ at[m] \in {"publish", "completed"} => status[m] = "SENT"
        /\ status[m] = "SENT" => accepted[m] > 0
        /\ accepted[m] =< attempts[m] + stalls[m]
                          + (IF \/ at[m] \in {"write", "publish"}
                                \/ at[m] \in Ended /\ attempts[m] < Attempts
                             THEN 1 ELSE 0)
        /\ attempts[m] = Attempts => at[m] \in Ended
        /\ status[m] = "FAILED" /\ at[m] \in (Active \ {"rejected"}) \cup {"waiting"}
               => stalls[m] > 0

\* Nothing is stored at the start.
LEMMA DeliveryInit == Init => TypeOK /\ DeliveryInv
  BY DEF Init, TypeOK, DeliveryInv, Sessions, Active, Ended

\* Every variable keeps its type.
LEMMA DeliveryTypes ==
    ASSUME TypeOK, DeliveryInv, [Next]_vars
    PROVE  TypeOK'
  <1> USE DEF TypeOK, Active, Ended
  <1>1. ASSUME NEW m \in Messages,
               Store(m) \/ Enqueue(m) \/ NotEnqueued(m) \/ FindBroker(m) \/ NoBroker(m)
        PROVE  TypeOK'
    BY <1>1 DEF Store, Enqueue, NotEnqueued, FindBroker, NoBroker, GoTo
  <1>2. ASSUME NEW m \in Messages,
               ProviderAccepts(m) \/ ProviderRefuses(m) \/ RateLimited(m) \/ WriteSent(m)
        PROVE  TypeOK'
    BY <1>2 DEF ProviderAccepts, ProviderRefuses, RateLimited, WriteSent, GoTo
  <1>3. ASSUME NEW m \in Messages, Publish(m) \/ Reject(m) \/ Refused(m) PROVE TypeOK'
    BY <1>3 DEF Publish, Reject, Refused, GoTo
  <1>4. ASSUME NEW m \in Messages, AnswerLost(m) \/ AttemptFails(m) PROVE TypeOK'
    <2>0. at[m] \notin Ended /\ (attempts[m] = Attempts => at[m] \in Ended)
      BY <1>4 DEF AnswerLost, AttemptFails, DeliveryInv
    <2>1. attempts[m] + 1 \in 0 .. Attempts
      BY <2>0
    <2>2. attempts' \in [Messages -> 0 .. Attempts]
      BY <1>4, <2>1 DEF AnswerLost, AttemptFails, GiveBack
    <2> QED BY <1>4, <2>2 DEF AnswerLost, AttemptFails, GiveBack
  <1>5. ASSUME NEW m \in Messages, Stalled(m) PROVE TypeOK'
    BY <1>5 DEF Stalled
  <1>6. CASE SessionChanges
    BY <1>6 DEF SessionChanges, jobVars
  <1>7. CASE UNCHANGED vars
    BY <1>7 DEF vars, jobVars
  <1> QED
    BY <1>1, <1>2, <1>3, <1>4, <1>5, <1>6, <1>7 DEF Next, Run

\* Every step keeps the account of the copies.
LEMMA DeliveryStep ==
    ASSUME TypeOK, DeliveryInv, [Next]_vars
    PROVE  DeliveryInv'
  <1> DEFINE Good(m) ==
        /\ at[m] = "none" => status[m] = "NONE"
        /\ at[m] = "add" => status[m] = "PENDING"
        /\ at[m] = "write" => accepted[m] > 0
        /\ at[m] \in {"publish", "completed"} => status[m] = "SENT"
        /\ status[m] = "SENT" => accepted[m] > 0
        /\ accepted[m] =< attempts[m] + stalls[m]
                          + (IF \/ at[m] \in {"write", "publish"}
                                \/ at[m] \in Ended /\ attempts[m] < Attempts
                             THEN 1 ELSE 0)
        /\ attempts[m] = Attempts => at[m] \in Ended
        /\ status[m] = "FAILED" /\ at[m] \in (Active \ {"rejected"}) \cup {"waiting"}
               => stalls[m] > 0
  <1>1. ASSUME NEW m \in Messages,
               \/ Store(m) \/ Enqueue(m) \/ NotEnqueued(m) \/ Run(m) \/ Stalled(m)
        PROVE  DeliveryInv'
    <2>1. ASSUME NEW n \in Messages, n # m PROVE Good(n)'
      <3>1. UNCHANGED <<status[n], at[n], attempts[n], stalls[n], accepted[n]>>
        BY <1>1, <2>1 DEF TypeOK, Store, Enqueue, NotEnqueued, Run, Stalled, FindBroker,
           NoBroker, ProviderAccepts, AnswerLost, ProviderRefuses, RateLimited, WriteSent,
           Publish, Reject, Refused, AttemptFails, GiveBack, GoTo
      <3>2. Good(n)
        BY DEF DeliveryInv
      <3> QED BY <3>1, <3>2
    <2>2. Good(m)'
      <3> USE DEF TypeOK, Active, Ended
      <3>0. Good(m) /\ accepted[m] \in Nat /\ attempts[m] \in 0 .. Attempts
            /\ stalls[m] \in 0 .. Stalls
        BY DEF DeliveryInv
      <3>1. CASE Store(m) \/ Enqueue(m) \/ NotEnqueued(m) \/ FindBroker(m) \/ NoBroker(m)
        BY <3>0, <3>1 DEF Store, Enqueue, NotEnqueued, FindBroker, NoBroker, GoTo
      <3>2. CASE ProviderAccepts(m)
        BY <3>0, <3>2 DEF ProviderAccepts, GoTo
      <3>3. CASE ProviderRefuses(m) \/ RateLimited(m) \/ WriteSent(m) \/ Publish(m)
        BY <3>0, <3>3 DEF ProviderRefuses, RateLimited, WriteSent, Publish, GoTo
      <3>4. CASE Reject(m) \/ Refused(m)
        BY <3>0, <3>4 DEF Reject, Refused, GoTo
      <3>5. CASE AnswerLost(m)
        BY <3>0, <3>5 DEF AnswerLost, GiveBack
      <3>6. CASE AttemptFails(m)
        BY <3>0, <3>6 DEF AttemptFails, GiveBack
      <3>7. CASE Stalled(m)
        BY <3>0, <3>7 DEF Stalled
      <3> QED
        BY <1>1, <3>1, <3>2, <3>3, <3>4, <3>5, <3>6, <3>7 DEF Run
    <2> QED BY <2>1, <2>2 DEF DeliveryInv
  <1>2. CASE SessionChanges \/ UNCHANGED vars
    BY <1>2 DEF SessionChanges, vars, jobVars, DeliveryInv
  <1> QED BY <1>1, <1>2 DEF Next

\* The two invariants hold together.
LEMMA DeliveryInvariant == Spec => [](TypeOK /\ DeliveryInv)
  BY DeliveryInit, DeliveryTypes, DeliveryStep, PTL DEF Spec

\* Type correctness; an attempt is never counted beyond the limit.
THEOREM DeliveryTypeCorrect == Spec => []TypeOK
  BY DeliveryInvariant, PTL

\* FAILED comes last, stalls apart.
THEOREM FailedComesLast == Spec => []FailedIsLast
  <1>1. DeliveryInv => FailedIsLast
    BY DEF DeliveryInv, FailedIsLast
  <1> QED BY <1>1, DeliveryInvariant, PTL

\* A client never gets more copies than the limits allow together.
THEOREM CopiesLimited == Spec => [](\A m \in Messages : accepted[m] =< Attempts + Stalls)
  <1>1. TypeOK /\ DeliveryInv => \A m \in Messages : accepted[m] =< Attempts + Stalls
    BY DEF TypeOK, DeliveryInv, Active, Ended
  <1> QED BY <1>1, DeliveryInvariant, PTL

-----------------------------------------------------------------------------
(* The outbox *)

\* Only message m may move; the rest stands as it stood.
OnlyAt(m) ==
    /\ \A n \in Messages \ {m} : UNCHANGED <<at[n], attempts[n], stalls[n]>>
    /\ status' = [status EXCEPT ![m] = status'[m]]
    /\ accepted' = [accepted EXCEPT ![m] = accepted'[m]]

Places == [n \in Messages |-> Place(n)]
AllTries == [n \in Messages |-> Tries(n)]

\* Only the abstract message m moves then.
LEMMA OnlyPlaceAt ==
    ASSUME NEW m \in Messages, OnlyAt(m)
    PROVE  /\ Places[m] = Place(m) /\ Places' = [Places EXCEPT ![m] = Place(m)']
           /\ AllTries[m] = Tries(m) /\ AllTries' = [AllTries EXCEPT ![m] = Tries(m)']
           /\ Tries(m)' = Tries(m) => AllTries' = AllTries
           /\ Place(m)' = Place(m) => Places' = Places
  <1>1. \A n \in Messages \ {m} : Place(n)' = Place(n) /\ Tries(n)' = Tries(n)
    BY DEF OnlyAt, Place, Tries
  <1> QED BY <1>1 DEF Places, AllTries

\* Each step of the code is a step of the outbox or leaves it as it is.
LEMMA OutboxNext ==
    TypeOK /\ DeliveryInv /\ [Next]_vars => [Box!Next]_(Box!outboxState)
  <1> SUFFICES ASSUME TypeOK, DeliveryInv, [Next]_vars PROVE [Box!Next]_(Box!outboxState)
    OBVIOUS
  <1>1. ASSUME NEW m \in Messages,
               Store(m) \/ Enqueue(m) \/ NotEnqueued(m) \/ Run(m) \/ Stalled(m)
        PROVE  [Box!Next]_(Box!outboxState)
    <2>1. OnlyAt(m)
      BY <1>1 DEF TypeOK, OnlyAt, Store, Enqueue, NotEnqueued, Run, Stalled, FindBroker,
         NoBroker, ProviderAccepts, AnswerLost, ProviderRefuses, RateLimited, WriteSent,
         Publish, Reject, Refused, AttemptFails, GiveBack, GoTo
    <2>2. /\ Places[m] = Place(m) /\ Places' = [Places EXCEPT ![m] = Place(m)']
          /\ AllTries[m] = Tries(m) /\ AllTries' = [AllTries EXCEPT ![m] = Tries(m)']
          /\ Tries(m)' = Tries(m) => AllTries' = AllTries
          /\ Place(m)' = Place(m) => Places' = Places
      BY <2>1, OnlyPlaceAt
    <2>3. /\ attempts[m] \in 0 .. Attempts /\ stalls[m] \in 0 .. Stalls /\ accepted[m] \in Nat
          /\ attempts[m] = Attempts => at[m] \in Ended
          /\ at[m] = "write" => accepted[m] > 0
          /\ at[m] = "publish" => status[m] = "SENT"
          /\ at[m] = "send" => accepted[m] =< attempts[m] + stalls[m]
      BY DEF TypeOK, DeliveryInv, Ended
    <2> DEFINE Moves(from, to) == Place(m) = from /\ Place(m)' = to
               SameTries == Tries(m)' = Tries(m)
    <2>4. CASE Store(m)
      <3>1. Moves("new", "kept") /\ SameTries
        BY <2>4 DEF Store, GoTo, TypeOK, Place, Tries, Active, Ended
      <3>2. Box!Keep(m)
        BY <2>2, <2>4, <3>1 DEF Store, Box!Keep, Box!Move, Places, AllTries
      <3> QED BY <3>2 DEF Box!Next
    <2>5. CASE Enqueue(m)
      <3>1. Moves("kept", "queued") /\ SameTries
        BY <2>5 DEF Enqueue, GoTo, TypeOK, Place, Tries, Active, Ended
      <3>2. Box!Hand(m)
        BY <2>2, <2>5, <3>1 DEF Enqueue, Box!Hand, Box!Move, Places, AllTries
      <3> QED BY <3>2 DEF Box!Next
    <2>6. CASE NotEnqueued(m)
      <3>1. Moves("kept", "over") /\ SameTries
        BY <2>6 DEF NotEnqueued, GoTo, TypeOK, Place, Tries, Active, Ended
      <3>2. Box!Refuse(m)
        BY <2>2, <2>6, <3>1 DEF NotEnqueued, Box!Refuse, Box!Move, Places, AllTries
      <3> QED BY <3>2 DEF Box!Next
    <2>7. CASE FindBroker(m) \/ NoBroker(m)
      <3>1. /\ Moves("queued", "trying") \/ Moves("queued", "over")
            /\ Tries(m) < Attempts + Stalls /\ Tries(m)' = Tries(m) + 1
        BY <2>3, <2>7 DEF FindBroker, NoBroker, GoTo, TypeOK, Place, Tries, Active, Ended
      <3>2. Box!Try(m)
        BY <2>2, <2>7, <3>1 DEF FindBroker, NoBroker, Box!Try, Box!Move, Places, AllTries
      <3> QED BY <3>2 DEF Box!Next
    <2>8. CASE ProviderAccepts(m) \/ AnswerLost(m)
      <3>1. /\ \E p \in {"trying", "queued", "over"} : Moves("trying", p)
            /\ SameTries /\ accepted[m] < Tries(m)
        <4>1. CASE ProviderAccepts(m)
          BY <2>3, <4>1 DEF ProviderAccepts, GoTo, TypeOK, Place, Tries, Active, Ended
        <4>2. CASE AnswerLost(m)
          BY <2>3, <4>2 DEF AnswerLost, GiveBack, TypeOK, Place, Tries, Active, Ended
        <4> QED BY <2>8, <4>1, <4>2
      <3>2. Box!Transmit(m)
        BY <2>2, <2>8, <3>1
        DEF ProviderAccepts, AnswerLost, Box!Transmit, Box!Move, Places, AllTries
      <3> QED BY <3>2 DEF Box!Next
    <2>9. CASE WriteSent(m) \/ Reject(m)
      <3>1. Moves("trying", "trying") /\ SameTries
        BY <2>9 DEF WriteSent, Reject, GoTo, TypeOK, Place, Tries, Active, Ended
      <3>2. Box!Show(m)
        BY <2>2, <2>3, <2>9, <3>1 DEF WriteSent, Reject, GoTo, Box!Show, Places, AllTries
      <3> QED BY <3>2 DEF Box!Next
    <2>10. CASE AttemptFails(m) \/ Stalled(m) \/ Refused(m)
      <3>1. (\E p \in {"queued", "over"} : Moves("trying", p)) /\ SameTries
        <4>1. CASE AttemptFails(m)
          BY <2>3, <4>1 DEF AttemptFails, GiveBack, TypeOK, Place, Tries, Active, Ended
        <4>2. CASE Stalled(m)
          BY <2>3, <4>2 DEF Stalled, TypeOK, Place, Tries, Active, Ended
        <4>3. CASE Refused(m)
          BY <2>3, <4>3 DEF Refused, GoTo, TypeOK, Place, Tries, Active, Ended
        <4> QED BY <2>10, <4>1, <4>2, <4>3
      <3>2. Box!GiveUp(m)
        BY <2>2, <2>10, <3>1
        DEF AttemptFails, Stalled, Refused, Box!GiveUp, Box!Move, Places, AllTries
      <3> QED BY <3>2 DEF Box!Next
    <2>11. CASE Publish(m)
      <3>1. Moves("trying", "done") /\ SameTries
        BY <2>3, <2>11 DEF Publish, GoTo, TypeOK, Place, Tries, Active, Ended
      <3>2. Box!Finish(m)
        BY <2>2, <2>3, <2>11, <3>1 DEF Publish, GoTo, Box!Finish, Box!Move, Places, AllTries
      <3> QED BY <3>2 DEF Box!Next
    <2>12. CASE ProviderRefuses(m) \/ RateLimited(m)
      <3>1. Moves("trying", "trying") /\ SameTries
        BY <2>12 DEF ProviderRefuses, RateLimited, GoTo, TypeOK, Place, Tries, Active, Ended
      <3> QED
        BY <2>2, <2>12, <3>1
        DEF ProviderRefuses, RateLimited, Box!outboxState, Places, AllTries
    <2> QED
      BY ONLY <1>1, <2>4, <2>5, <2>6, <2>7, <2>8, <2>9, <2>10, <2>11, <2>12 DEF Run
  <1>2. CASE SessionChanges \/ UNCHANGED vars
    BY <1>2 DEF SessionChanges, vars, jobVars, Box!outboxState, Place, Tries
  <1> QED BY <1>1, <1>2 DEF Next

\* The stored message, the send queue and its worker implement the abstract
\* outbox, whatever the provider, the session and the worker do.
THEOREM OutboxRefinement == Spec => ImplementsOutbox
  <1>1. Init => Box!Init
    BY DEF Init, Box!Init, Place, Tries, Active, Ended
  <1> QED
    BY <1>1, OutboxNext, DeliveryInvariant, PTL DEF Spec, ImplementsOutbox, Box!Spec
=============================================================================
