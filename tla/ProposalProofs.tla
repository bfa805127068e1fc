---------------------------- MODULE ProposalProofs ----------------------------
(***************************************************************************)
(* Proofs about Proposal, for any number of requests and promotions, for   *)
(* both initial stages and for the full path of stages and the short one.  *)
(***************************************************************************)
EXTENDS Proposal, TLAPS

USE ProposalAssumption

Consistent(copy) ==
    /\ copy.stage = "LOST" <=> copy.lostReason
    /\ copy.stage \in {"PROTOCOL", "INSPECTION", "PAYMENT", "POLICY_ISSUED"} => copy.details

\* The items of a stage exist, are about to, or never will.
Covered(s) ==
    \/ s \in items \cup torn
    \/ \E q \in Requests : req[q].at = "items" /\ s = Apply(req[q].op, req[q].copy).stage

\* What may be written into the row, or was.
Sound(copy) ==
    /\ Consistent(copy)
    /\ copy.stage = "POLICY_ISSUED" => promoted
    /\ copy.stage \in Advancing => Covered(copy.stage)

Ready(q) ==
    \/ q.op = "create" /\ q.copy = NoRow
    \/ q.op # "create" /\ q.copy.stage # "NONE" /\ row # NoRow /\ Allows(q.op, q.copy)

Good(r) ==
    /\ Sound(req[r].copy)
    /\ req[r].at \in {"gate", "contact", "save"} => Ready(req[r])
    /\ req[r].at \in {"gate", "contact"} => req[r].op = "advance"
    /\ req[r].at = "contact" => req[r].copy.stage = "PAYMENT"
    /\ (req[r].at = "save" /\ req[r].op = "advance" /\ req[r].copy.stage = "PAYMENT") => promoted
    /\ (req[r].at \in {"contact", "save"} /\ req[r].op = "advance"
            /\ req[r].copy.stage \in Required) => req[r].copy.stage \in items \cup torn
    /\ req[r].at = "items" => /\ req[r].op \in {"create", "advance"} /\ row # NoRow
                              /\ Apply(req[r].op, req[r].copy).stage \in Advancing
    /\ req[r].at \in {"client", "tick"} => "CAPTURE" \in items

RowGood ==
    /\ Sound(row)
    /\ row # NoRow => row.stage # "NONE" /\ Covered(Initial)
    /\ row = NoRow => items = {}
    /\ \A p \in Promotions : promo[p] = "tick" => "CAPTURE" \in items

IInv == TypeOK /\ RowGood /\ \A r \in Requests : Good(r)

-----------------------------------------------------------------------------
(* The entity *)

\* An operation that is ready turns a consistent row into a consistent row, and
\* issues nothing but what was issued or stood at the payment.
LEMMA ApplyFacts ==
    ASSUME NEW op \in Ops, NEW copy \in Row, Consistent(copy), op # "none",
           \/ op = "create" /\ copy = NoRow
           \/ op # "create" /\ copy.stage # "NONE" /\ Allows(op, copy)
    PROVE  /\ Apply(op, copy) \in Row
           /\ Consistent(Apply(op, copy))
           /\ Apply(op, copy).stage # "NONE"
           /\ Apply(op, copy).stage = "POLICY_ISSUED" =>
                 copy.stage = "POLICY_ISSUED" \/ (op = "advance" /\ copy.stage = "PAYMENT")
           /\ op \notin {"create", "advance"} =>
                 Apply(op, copy).stage \in {copy.stage, Initial, "LOST"}
           /\ op = "create" => Apply(op, copy).stage = Initial
  <1> USE DEF Apply, Consistent, Row, Stages, Advancing
  <1>1. CASE op = "create"
    BY <1>1 DEF NoRow
  <1>2. CASE op = "advance"
    <2>1. copy.stage \in Advancing /\ NextStage(copy.stage) \in Stages
      BY <1>2 DEF Allows, NextStage, Inactive
    <2>2. NextStage(copy.stage) = "POLICY_ISSUED" => copy.stage = "PAYMENT"
      BY <2>1 DEF NextStage
    <2>3. NextStage(copy.stage) \in {"PROTOCOL", "INSPECTION", "PAYMENT", "POLICY_ISSUED"}
             => copy.details
      BY <1>2, <2>1 DEF NextStage, Allows
    <2> QED BY <1>2, <2>1, <2>2, <2>3
  <1>3. CASE op \in {"lose", "reopen", "details", "touch"}
    BY <1>3 DEF Allows, Inactive
  <1> QED BY <1>1, <1>2, <1>3 DEF Ops

-----------------------------------------------------------------------------
(* The invariant *)

\* Before the proposal exists there is nothing to keep.
LEMMA InvInit == Init => IInv
  <1> SUFFICES ASSUME Init PROVE IInv
    OBVIOUS
  <1>1. NoRow \in Row /\ Idle \in [op: Ops, copy: Row,
             at: {"idle", "gate", "contact", "save", "items", "detect", "client", "tick"}]
    BY DEF NoRow, Row, Idle, Ops
  <1>2. TypeOK
    BY <1>1 DEF Init, TypeOK
  <1>3. Sound(NoRow)
    BY DEF Sound, Consistent, NoRow, Advancing
  <1>4. RowGood
    BY <1>3 DEF Init, RowGood
  <1>5. \A r \in Requests : Good(r)
    BY <1>3 DEF Init, Good, Idle
  <1> QED BY <1>2, <1>4, <1>5 DEF IInv

\* A step of one request changes the entry of no other.
LEMMA OthersStay ==
    ASSUME TypeOK, NEW r \in Requests, RequestNext(r), NEW q \in Requests, q # r
    PROVE  req'[q] = req[q]
  BY DEF TypeOK, RequestNext, Create, Read, Gate, ContactIsPromoted, Save, CreateItems, Detect,
     IsClientDataMet, Tick, RequestFails, Step, Ends

\* Every step keeps the types.
LEMMA TypeStep ==
    ASSUME IInv, [Next]_vars
    PROVE  TypeOK'
  <1>1. TypeOK
    BY DEF IInv
  <1>2. NoRow \in Row /\ Idle \in [op: Ops, copy: Row,
             at: {"idle", "gate", "contact", "save", "items", "detect", "client", "tick"}]
    BY DEF NoRow, Row, Idle, Ops
  <1>3. ASSUME NEW r \in Requests, RequestNext(r) PROVE TypeOK'
    <2>1. Good(r)
      BY DEF IInv
    <2>2. CASE Create(r)
      BY <1>1, <1>2, <2>2 DEF Create, TypeOK, Ops
    <2>3. ASSUME NEW op \in Ops, Read(r, op) PROVE TypeOK'
      BY <1>1, <2>3 DEF Read, TypeOK
    <2>4. CASE Gate(r)
      <3>1. Ready(req[r]) /\ req[r].op = "advance"
        BY <2>1, <2>4 DEF Good, Gate, Step
      <3>2. req[r].copy.stage \in Stages
        BY <3>1, <1>1 DEF Ready, Allows, TypeOK, Row, Inactive
      <3> QED BY <1>1, <3>2, <2>4 DEF Gate, TypeOK, Step, Items
    <2>5. CASE ContactIsPromoted(r) \/ Detect(r) \/ IsClientDataMet(r)
      BY <1>1, <1>2, <2>5 DEF ContactIsPromoted, Detect, IsClientDataMet, TypeOK, Step, Ends
    <2>6. CASE Save(r)
      <3>1. Ready(req[r]) /\ Consistent(req[r].copy)
        BY <2>1, <2>6 DEF Good, Sound, Save, Step, Ends
      <3>2. req[r].op \in Ops /\ req[r].copy \in Row
        BY <1>1 DEF TypeOK
      <3>3. req[r].op # "none"
        BY <3>1 DEF Ready, Allows
      <3>4. Apply(req[r].op, req[r].copy) \in Row
        BY <3>1, <3>2, <3>3, ApplyFacts DEF Ready
      <3> QED BY <1>1, <1>2, <3>4, <2>6 DEF Save, Saved, TypeOK, Step, Ends
    <2>7. CASE CreateItems(r)
      <3>1. Apply(req[r].op, req[r].copy).stage \in Stages
        BY <2>1, <2>7 DEF Good, CreateItems, Step, Stages
      <3>2. ItemsOf(r) \subseteq Items
        BY <3>1 DEF ItemsOf, Items
      <3>3. [Idle EXCEPT !.at = "detect"] \in [op: Ops, copy: Row,
               at: {"idle", "gate", "contact", "save", "items", "detect", "client", "tick"}]
        BY <1>2 DEF Idle
      <3> QED BY <1>1, <3>2, <3>3, <2>7 DEF CreateItems, TypeOK
    <2>8. CASE Tick(r)
      BY <1>1, <1>2, <2>1, <2>8 DEF Tick, Ends, TypeOK, Good
    <2>9. CASE RequestFails(r)
      <3>1. req[r].at = "items" => Apply(req[r].op, req[r].copy).stage \in Stages
        BY <2>1 DEF Good, Stages
      <3>2. req[r].at = "items" => ItemsOf(r) \subseteq Items
        BY <3>1 DEF ItemsOf, Items
      <3> QED BY <1>1, <1>2, <3>2, <2>9 DEF RequestFails, TypeOK, Ends
    <2> QED BY <1>3, <2>2, <2>3, <2>4, <2>5, <2>6, <2>7, <2>8, <2>9 DEF RequestNext
  <1>4. ASSUME NEW p \in Promotions, PromotionNext(p) PROVE TypeOK'
    BY <1>1, <1>4 DEF PromotionNext, FindContact, Link, FindActive, LookForItem, TickForClient,
       PromotionFails, Promo, TypeOK, IInv, RowGood
  <1>5. ASSUME NEW s \in Items, Complete(s) \/ Uncomplete(s) PROVE TypeOK'
    BY <1>1, <1>5 DEF Complete, Uncomplete, TypeOK
  <1>6. CASE UNCHANGED vars
    BY <1>1, <1>6 DEF vars, TypeOK
  <1> QED BY <1>3, <1>4, <1>5, <1>6 DEF Next

\* What never goes back.
Grows ==
    /\ promoted => promoted'
    /\ items \subseteq items' /\ torn \subseteq torn'
    /\ row # NoRow => row' # NoRow
    /\ \A s \in Stages : Covered(s) => Covered(s)'

\* No step takes back a promotion, an item, a row or the cover of a stage: the
\* request that was to create items has created them, or is known to have died.
LEMMA GrowsStep ==
    ASSUME IInv, [Next]_vars
    PROVE  Grows
  <1>1. TypeOK
    BY DEF IInv
  <1>2. promoted => promoted'
    BY DEF Next, RequestNext, PromotionNext, Create, Read, Gate, ContactIsPromoted, Save,
       CreateItems, Detect, IsClientDataMet, Tick, RequestFails, FindContact, Link, FindActive,
       LookForItem, TickForClient, PromotionFails, Complete, Uncomplete, vars
  <1>3. items \subseteq items' /\ torn \subseteq torn'
    BY DEF Next, RequestNext, PromotionNext, Create, Read, Gate, ContactIsPromoted, Save,
       CreateItems, Detect, IsClientDataMet, Tick, RequestFails, FindContact, Link, FindActive,
       LookForItem, TickForClient, PromotionFails, Complete, Uncomplete, vars
  <1>4. row # NoRow => row' # NoRow
    <2>1. ASSUME NEW r \in Requests, Save(r) PROVE row' # NoRow
      <3>1. Good(r) /\ req[r].at = "save"
        BY <2>1 DEF IInv, Save, Step, Ends
      <3>2. Ready(req[r]) /\ Consistent(req[r].copy)
        BY <3>1 DEF Good, Sound
      <3>3. req[r].op \in Ops /\ req[r].copy \in Row /\ req[r].op # "none"
        BY <1>1, <3>2 DEF TypeOK, Ready, Allows
      <3>4. Apply(req[r].op, req[r].copy).stage # "NONE"
        BY <3>2, <3>3, ApplyFacts DEF Ready
      <3> QED BY <2>1, <3>4 DEF Save, Saved, NoRow
    <2>2. (\E r \in Requests : Save(r)) \/ UNCHANGED row
      BY DEF Next, RequestNext, PromotionNext, Create, Read, Gate, ContactIsPromoted,
         CreateItems, Detect, IsClientDataMet, Tick, RequestFails, FindContact, Link, FindActive,
         LookForItem, TickForClient, PromotionFails, Complete, Uncomplete, vars
    <2> QED BY <2>1, <2>2
  <1>5. ASSUME NEW s \in Stages, Covered(s) PROVE Covered(s)'
    <2>1. CASE s \in items \cup torn
      BY <1>3, <2>1 DEF Covered
    <2>2. ASSUME NEW q \in Requests, req[q].at = "items", s = Apply(req[q].op, req[q].copy).stage
          PROVE  Covered(s)'
      <3>1. CASE req'[q] = req[q]
        BY <3>1, <2>2 DEF Covered
      <3>2. CASE req'[q] # req[q]
        <4>1. RequestNext(q)
          BY <1>1, <3>2, OthersStay DEF Next, PromotionNext, FindContact, Link, FindActive,
             LookForItem, TickForClient, PromotionFails, Complete, Uncomplete, vars
        <4>2. CreateItems(q) \/ RequestFails(q)
          BY <4>1, <2>2 DEF RequestNext, Create, Read, Gate, ContactIsPromoted, Save, Detect,
             IsClientDataMet, Tick, Step, Ends
        <4>3. s \in items' \cup torn'
          BY <4>2, <2>2 DEF CreateItems, RequestFails, ItemsOf
        <4> QED BY <4>3 DEF Covered
      <3> QED BY <3>1, <3>2
    <2> QED BY <1>5, <2>1, <2>2 DEF Covered
  <1> QED BY <1>2, <1>3, <1>4, <1>5 DEF Grows

\* What was sound stays so.
LEMMA SoundStays ==
    ASSUME Grows, NEW copy \in Row, Sound(copy)
    PROVE  Sound(copy)'
  <1>1. Consistent(copy)' = Consistent(copy)
    BY DEF Consistent
  <1> QED BY <1>1 DEF Sound, Grows, Stages, Consistent

\* A request that another step leaves alone stays as good as it was.
LEMMA GoodStays ==
    ASSUME IInv, [Next]_vars, NEW q \in Requests, req'[q] = req[q]
    PROVE  Good(q)'
  <1>1. Grows /\ Good(q) /\ req[q].copy \in Row
    BY GrowsStep DEF IInv, TypeOK
  <1>2. Sound(req[q].copy)'
    <2> DEFINE c == req[q].copy
    <2>1. Sound(c) /\ c \in Row
      BY <1>1 DEF Good
    <2> HIDE DEF c
    <2>2. (\A x \in Row : Sound(x)' \/ ~Sound(x))
      BY <1>1, SoundStays
    <2>3. PICK x \in Row : x = c
      BY <2>1
    <2>4. Sound(x)'
      BY <2>1, <2>2, <2>3
    <2>5. x = req'[q].copy
      BY <2>3 DEF c
    <2> QED BY <2>4, <2>5 DEF Sound, Consistent, Covered
  <1>3. Ready(req[q]) => Ready(req[q])'
    BY <1>1 DEF Ready, Grows, Allows
  <1>4. (Apply(req[q].op, req[q].copy).stage)' = Apply(req[q].op, req[q].copy).stage
    BY DEF Apply, NextStage
  <1> QED BY <1>1, <1>2, <1>3, <1>4 DEF Good, Grows

\* A step of a request leaves the request itself good.
LEMMA GoodStep ==
    ASSUME IInv, NEW r \in Requests, RequestNext(r)
    PROVE  Good(r)'
  <1>1. TypeOK /\ Good(r) /\ RowGood /\ req[r].copy \in Row /\ req[r].op \in Ops
    BY DEF IInv, TypeOK
  <1>2. Grows /\ [Next]_vars
    BY GrowsStep DEF Next
  <1>3. \A x \in Row : Sound(x) => Sound(x)'
    BY <1>2, SoundStays
  <1>4. NoRow \in Row /\ Sound(NoRow)
    BY DEF NoRow, Row, Sound, Consistent, Advancing
  <1>5. ASSUME NEW x \in Row, Sound(x), req'[r].copy = x PROVE Sound(req[r].copy)'
    <2>1. Sound(x)'
      BY <1>3, <1>5
    <2> QED BY <1>5, <2>1 DEF Sound, Consistent, Covered
  <1>6. CASE req'[r] = Idle
    BY <1>4, <1>5, <1>6 DEF Good, Idle
  <1>7. CASE Create(r)
    <2>1. req'[r] = [op |-> "create", at |-> "save", copy |-> NoRow]
      BY <1>1, <1>7 DEF Create, TypeOK
    <2>2. Ready(req[r])'
      BY <2>1 DEF Ready
    <2> QED BY <1>4, <1>5, <2>1, <2>2 DEF Good
  <1>8. ASSUME NEW op \in Ops, Read(r, op) PROVE Good(r)'
    <2>1. req'[r] = [op |-> op, copy |-> row, at |-> IF op = "advance" THEN "gate" ELSE "save"]
      BY <1>1, <1>8 DEF Read, TypeOK
    <2>2. Sound(row) /\ row \in Row /\ row.stage # "NONE" /\ row' = row /\ row # NoRow
      BY <1>1, <1>8 DEF RowGood, TypeOK, Read
    <2>3. Allows(op, row) /\ op # "create"
      BY <1>8 DEF Read, Allows
    <2>4. Ready(req[r])'
      BY <2>1, <2>2, <2>3 DEF Ready, Allows
    <2> QED BY <1>5, <2>1, <2>2, <2>4 DEF Good
  <1>9. ASSUME NEW to, Step(r, req[r].at, to)
        PROVE  /\ req'[r] = [op |-> req[r].op, copy |-> req[r].copy, at |-> to]
               /\ Sound(req[r].copy)'
               /\ Ready(req[r]) => Ready(req[r])'
               /\ (Apply(req[r].op, req[r].copy).stage)' = Apply(req[r].op, req[r].copy).stage
    <2>1. req'[r] = [op |-> req[r].op, copy |-> req[r].copy, at |-> to]
      BY <1>1, <1>9 DEF Step, TypeOK
    <2>2. Sound(req[r].copy)'
      BY <1>1, <1>5, <2>1 DEF Good
    <2>3. Ready(req[r]) => Ready(req[r])'
      BY <1>2, <2>1 DEF Ready, Allows, Grows
    <2>4. (Apply(req[r].op, req[r].copy).stage)' = Apply(req[r].op, req[r].copy).stage
      BY <2>1 DEF Apply, NextStage
    <2> QED BY <2>1, <2>2, <2>3, <2>4
  <1>10. CASE Gate(r)
    <2>1. req[r].at = "gate"
      BY <1>10 DEF Gate, Step
    <2>2. PICK to \in {"contact", "save"} :
             /\ Step(r, "gate", to)
             /\ to = IF req[r].copy.stage = "PAYMENT" THEN "contact" ELSE "save"
      BY <1>10 DEF Gate
    <2>3. Ready(req[r]) /\ req[r].op = "advance"
      BY <1>1, <2>1 DEF Good
    <2>4. req[r].copy.stage \in Advancing
      BY <1>1, <2>3 DEF Ready, Allows, Inactive, Row, Stages
    <2>5. Covered(req[r].copy.stage)
      BY <1>1, <2>4 DEF Good, Sound
    <2>6. req[r].copy.stage \in items' \cup torn'
      BY <1>10, <2>1, <2>5 DEF Covered, Gate, Overtakes
    <2>7. Step(r, req[r].at, to)
      BY <2>1, <2>2
    <2>8. /\ req'[r] = [op |-> req[r].op, copy |-> req[r].copy, at |-> to]
          /\ Sound(req[r].copy)' /\ Ready(req[r])'
      BY <1>9, <2>3, <2>7
    <2>9. req'[r].at = to /\ req'[r].op = "advance" /\ req'[r].copy = req[r].copy
      BY <2>3, <2>8
    <2> QED BY <2>2, <2>6, <2>8, <2>9 DEF Good
  <1>11. CASE ContactIsPromoted(r)
    <2>1. Step(r, req[r].at, "save") /\ req[r].at = "contact" /\ promoted'
      BY <1>11 DEF ContactIsPromoted, Step
    <2>2. /\ req'[r] = [op |-> req[r].op, copy |-> req[r].copy, at |-> "save"]
          /\ Sound(req[r].copy)' /\ Ready(req[r])'
      BY <1>1, <1>9, <2>1 DEF Good
    <2>3. req'[r].at = "save" /\ req'[r].op = req[r].op /\ req'[r].copy = req[r].copy
      BY <2>2
    <2> QED BY <1>1, <1>2, <2>1, <2>2, <2>3 DEF Good, Grows
  <1>12. CASE Save(r)
    <2>1. CASE req'[r] # Idle
      <3>1. /\ Step(r, req[r].at, "items") /\ req[r].at = "save"
            /\ req[r].op = "create" \/ (req[r].op = "advance" /\ row'.stage # "POLICY_ISSUED")
            /\ row'.stage = Apply(req[r].op, req[r].copy).stage
        BY <1>1, <1>12, <2>1 DEF Save, Saved, Step, Ends, TypeOK
      <3>2. Ready(req[r]) /\ Consistent(req[r].copy)
        BY <1>1, <3>1 DEF Good, Sound
      <3>3. Apply(req[r].op, req[r].copy).stage \in Stages
        BY <1>1, <3>1, <3>2 DEF Ready, Apply, Allows, NextStage, Stages, Advancing
      <3>4. Apply(req[r].op, req[r].copy).stage \in Advancing
        BY <3>1, <3>3 DEF Stages, Apply, Advancing
      <3>5. row' # NoRow
        BY <3>1, <3>4 DEF NoRow, Advancing
      <3>6. /\ req'[r] = [op |-> req[r].op, copy |-> req[r].copy, at |-> "items"]
            /\ Sound(req[r].copy)'
            /\ (Apply(req[r].op, req[r].copy).stage)' = Apply(req[r].op, req[r].copy).stage
        BY <1>9, <3>1
      <3>7. req'[r].at = "items" /\ req'[r].op = req[r].op
        BY <3>6
      <3> QED BY <3>1, <3>4, <3>5, <3>6, <3>7 DEF Good
    <2> QED BY <1>6, <2>1
  <1>13. CASE CreateItems(r)
    <2>1. req'[r] = [Idle EXCEPT !.at = "detect"]
      BY <1>1, <1>13 DEF CreateItems, TypeOK
    <2>2. req'[r].copy = NoRow /\ req'[r].at = "detect"
      BY <2>1 DEF Idle
    <2>3. Sound(req[r].copy)'
      BY <1>4, <1>5, <2>2
    <2> QED BY <2>2, <2>3 DEF Good
  <1>14. CASE Detect(r)
    <2>1. CASE Step(r, req[r].at, "client") /\ "CAPTURE" \in items'
      <3>1. /\ req'[r] = [op |-> req[r].op, copy |-> req[r].copy, at |-> "client"]
            /\ Sound(req[r].copy)'
        BY <1>9, <2>1
      <3>2. req'[r].at = "client"
        BY <3>1
      <3> QED BY <2>1, <3>1, <3>2 DEF Good
    <2> QED BY <1>1, <1>2, <1>6, <1>14, <2>1 DEF Detect, OpenClientData, Step, Ends, TypeOK, Grows
  <1>15. CASE IsClientDataMet(r)
    <2>1. CASE Step(r, req[r].at, "tick") /\ "CAPTURE" \in items'
      <3>1. /\ req'[r] = [op |-> req[r].op, copy |-> req[r].copy, at |-> "tick"]
            /\ Sound(req[r].copy)'
        BY <1>9, <2>1
      <3>2. req'[r].at = "tick"
        BY <3>1
      <3> QED BY <2>1, <3>1, <3>2 DEF Good
    <2> QED BY <1>1, <1>2, <1>6, <1>15, <2>1 DEF IsClientDataMet, Step, Ends, TypeOK, Good, Grows
  <1>16. CASE Tick(r) \/ RequestFails(r)
    BY <1>1, <1>6, <1>16 DEF Tick, RequestFails, Ends, TypeOK
  <1> QED BY <1>7, <1>8, <1>10, <1>11, <1>12, <1>13, <1>14, <1>15, <1>16 DEF RequestNext

\* The row stays good: a save writes what was sound when it was read, or the
\* stage that the writer goes on to create the items of.
LEMMA RowStep ==
    ASSUME IInv, [Next]_vars
    PROVE  RowGood'
  <1>1. TypeOK /\ RowGood /\ Grows
    BY GrowsStep DEF IInv
  <1>2. \A x \in Row : Sound(x) => Sound(x)'
    BY <1>1, SoundStays
  <1>3. Initial \in Stages
    BY DEF Stages, Advancing
  <1>4. ASSUME NEW r \in Requests, Save(r)
        PROVE  Sound(row)' /\ row' # NoRow /\ row'.stage # "NONE" /\ Covered(Initial)'
    <2> DEFINE op == req[r].op
               copy == req[r].copy
    <2>1. Good(r) /\ req[r].at = "save" /\ row' = Apply(op, copy)
      BY <1>4 DEF IInv, Save, Saved, Step, Ends
    <2>2. /\ op \in Ops /\ op # "none" /\ copy \in Row /\ Consistent(copy) /\ Ready(req[r])
          /\ copy.stage = "POLICY_ISSUED" => promoted
          /\ copy.stage \in Advancing => Covered(copy.stage)
          /\ op = "advance" /\ copy.stage = "PAYMENT" => promoted
      BY <1>1, <2>1 DEF Good, Sound, TypeOK, Ready, Allows
    <2>3. /\ row' \in Row /\ Consistent(row') /\ row'.stage # "NONE"
          /\ row'.stage = "POLICY_ISSUED" => promoted
          /\ op \notin {"create", "advance"} => row'.stage \in {copy.stage, Initial, "LOST"}
          /\ op = "create" => row'.stage = Initial
      BY <2>1, <2>2, ApplyFacts DEF Ready
    <2>4. ASSUME row'.stage \in Advancing, op \in {"create", "advance"}
          PROVE  Covered(row.stage)'
      <3>1. req'[r] = [op |-> op, copy |-> copy, at |-> "items"]
        BY <1>1, <1>4, <2>4 DEF Save, Step, TypeOK, Advancing
      <3>2. (Apply(req[r].op, req[r].copy).stage)' = row'.stage
        BY <2>1, <3>1 DEF Apply, NextStage
      <3> QED BY <3>1, <3>2 DEF Covered
    <2>5. Covered(Initial)'
      <3>1. CASE op = "create"
        BY <2>3, <2>4, <3>1 DEF Advancing, Covered
      <3>2. CASE op # "create"
        BY <1>1, <1>3, <2>2, <3>2 DEF Ready, RowGood, Grows
      <3> QED BY <3>1, <3>2
    <2>6. ASSUME row'.stage \in Advancing, op \notin {"create", "advance"}
          PROVE  Covered(row.stage)'
      <3>1. CASE row'.stage = Initial
        BY <2>5, <3>1 DEF Covered
      <3>2. CASE row'.stage = copy.stage
        <4>1. PICK s \in Stages : s = row'.stage /\ Covered(s)
          BY <2>2, <2>6, <3>2 DEF Stages
        <4>2. Covered(s)'
          BY <1>1, <4>1 DEF Grows
        <4> QED BY <4>1, <4>2 DEF Covered
      <3> QED BY <2>3, <2>6, <3>1, <3>2 DEF Advancing
    <2>7. Sound(row)'
      <3>1. row'.stage \in Advancing => Covered(row.stage)'
        BY <2>4, <2>6
      <3>2. row'.stage = "POLICY_ISSUED" => promoted'
        BY <1>1, <2>3 DEF Grows
      <3> QED BY <2>3, <3>1, <3>2 DEF Sound, Consistent, Covered
    <2> QED BY <2>3, <2>5, <2>7 DEF NoRow
  <1>5. ASSUME UNCHANGED row
        PROVE  Sound(row)' /\ (row' # NoRow => row'.stage # "NONE" /\ Covered(Initial)')
    <2>1. PICK x \in Row : x = row /\ Sound(x)
      BY <1>1 DEF TypeOK, RowGood
    <2>2. Sound(x)'
      BY <1>2, <2>1
    <2>3. Sound(row)'
      BY <1>5, <2>1, <2>2 DEF Sound, Consistent, Covered
    <2> QED BY <1>1, <1>3, <1>5, <2>3 DEF RowGood, Grows
  <1>6. (\E r \in Requests : Save(r)) \/ UNCHANGED row
    BY DEF Next, RequestNext, PromotionNext, Create, Read, Gate, ContactIsPromoted,
       CreateItems, Detect, IsClientDataMet, Tick, RequestFails, FindContact, Link, FindActive,
       LookForItem, TickForClient, PromotionFails, Complete, Uncomplete, vars
  <1>7. row' = NoRow => items' = {}
    <2>1. ASSUME NEW r \in Requests, CreateItems(r) PROVE row' # NoRow
      BY <1>1, <2>1 DEF CreateItems, Step, IInv, Good, Grows
    <2>2. (\E r \in Requests : CreateItems(r)) \/ UNCHANGED items
      BY DEF Next, RequestNext, PromotionNext, Create, Read, Gate, ContactIsPromoted, Save,
         Detect, IsClientDataMet, Tick, RequestFails, FindContact, Link, FindActive,
         LookForItem, TickForClient, PromotionFails, Complete, Uncomplete, vars
    <2> QED BY <1>1, <2>1, <2>2 DEF RowGood, Grows
  <1>8. ASSUME NEW p \in Promotions, promo'[p] = "tick" PROVE "CAPTURE" \in items'
    <2>1. ASSUME NEW q \in Promotions, PromotionNext(q) PROVE "CAPTURE" \in items'
      BY <1>1, <1>8, <2>1 DEF PromotionNext, FindContact, Link, FindActive, LookForItem,
         TickForClient, PromotionFails, Promo, TypeOK, RowGood, OpenClientData
    <2>2. (\E q \in Promotions : PromotionNext(q)) \/ UNCHANGED promo
      BY DEF Next, RequestNext, Create, Read, Gate, ContactIsPromoted, Save, CreateItems,
         Detect, IsClientDataMet, Tick, RequestFails, Complete, Uncomplete, vars
    <2> QED BY <1>1, <1>8, <2>1, <2>2 DEF RowGood, Grows
  <1> QED BY <1>4, <1>5, <1>6, <1>7, <1>8 DEF RowGood

\* IInv is inductive.
LEMMA InvStep == IInv /\ [Next]_vars => IInv'
  <1> SUFFICES ASSUME IInv, [Next]_vars PROVE IInv'
    OBVIOUS
  <1>1. ASSUME NEW q \in Requests PROVE Good(q)'
    <2>1. CASE RequestNext(q)
      BY <2>1, GoodStep
    <2>2. CASE ~RequestNext(q)
      <3>1. req'[q] = req[q]
        BY <2>2, OthersStay DEF Next, PromotionNext, FindContact, Link, FindActive, LookForItem,
           TickForClient, PromotionFails, Complete, Uncomplete, vars, IInv
      <3> QED BY <3>1, GoodStays
    <2> QED BY <2>1, <2>2
  <1> QED BY <1>1, TypeStep, RowStep DEF IInv

-----------------------------------------------------------------------------
\* The invariant holds in every reachable state.
LEMMA Invariant == Spec => []IInv
  BY InvInit, InvStep, PTL DEF Spec

\* Row, requests, items and promotions keep their types, and only items that
\* exist are completed.
THEOREM ProposalTypeCorrect == Spec => []TypeOK
  <1>1. IInv => TypeOK
    BY DEF IInv
  <1> QED BY <1>1, Invariant, PTL

\* However the saves of whole rows overwrite each other, the row never holds a
\* reason without a loss, a stage past the quote without details or a policy of
\* somebody who is no client.
THEOREM RowStaysConsistent == Spec => []RowIsConsistent
  <1>1. IInv => RowIsConsistent
    BY DEF IInv, RowGood, Sound, Consistent, RowIsConsistent
  <1> QED BY <1>1, Invariant, PTL

\* A stage is left without items only if their creator died or was overtaken.
THEOREM ItemsComeFirst == Spec => []LeavesWithItems
  <1>1. IInv => LeavesWithItems
    BY DEF IInv, Good, LeavesWithItems
  <1> QED BY <1>1, Invariant, PTL

\* A step keeps a promoted contact's open item in somebody's sight.
LEMMA NoticedStep ==
    ASSUME IInv, ClientDataNoticed, [Next]_vars
    PROVE  ClientDataNoticed'
  <1>1. TypeOK /\ RowGood
    BY DEF IInv
  <1>2. ASSUME NEW r \in Requests, RequestNext(r) PROVE ClientDataNoticed'
    <2>1. CASE CreateItems(r)
      BY <1>1, <2>1 DEF CreateItems, Idle, ClientDataNoticed, TypeOK
    <2>2. CASE RequestFails(r)
      BY <1>1, <2>2 DEF RequestFails, Ends, ClientDataNoticed, OpenClientData, TypeOK, Idle
    <2>3. CASE Tick(r)
      BY <2>3 DEF Tick, ClientDataNoticed, OpenClientData
    <2>4. CASE Detect(r) \/ IsClientDataMet(r)
      <3>1. UNCHANGED <<row, items, done, promoted, promo, torn, excused>>
        BY <2>4 DEF Detect, IsClientDataMet
      <3>2. CASE ~(promoted /\ OpenClientData)
        BY <3>1, <3>2 DEF ClientDataNoticed, OpenClientData
      <3>3. CASE promoted /\ OpenClientData
        <4>1. req'[r].at \in {"client", "tick"}
          BY <1>1, <2>4, <3>3 DEF Detect, IsClientDataMet, Step, TypeOK
        <4> QED BY <4>1 DEF ClientDataNoticed
      <3> QED BY <3>2, <3>3
    <2>5. CASE Create(r) \/ Gate(r) \/ ContactIsPromoted(r) \/ Save(r) \/ \E op \in Ops : Read(r, op)
      BY <1>1, <2>5 DEF Create, Gate, ContactIsPromoted, Save, Read, Step, Ends,
         ClientDataNoticed, OpenClientData, TypeOK, Idle
    <2> QED BY <1>2, <2>1, <2>2, <2>3, <2>4, <2>5 DEF RequestNext
  <1>3. ASSUME NEW p \in Promotions, PromotionNext(p) PROVE ClientDataNoticed'
    <2>1. CASE Link(p)
      BY <1>1, <2>1 DEF Link, Promo, ClientDataNoticed, TypeOK
    <2>2. CASE FindActive(p)
      <3>1. row.stage = "NONE" => "CAPTURE" \notin items
        BY <1>1 DEF RowGood
      <3> QED BY <1>1, <2>2, <3>1 DEF FindActive, Promo, ClientDataNoticed, OpenClientData, TypeOK
    <2>3. CASE LookForItem(p) \/ PromotionFails(p)
      BY <1>1, <2>3 DEF LookForItem, PromotionFails, Promo, ClientDataNoticed, OpenClientData,
         TypeOK
    <2>4. CASE TickForClient(p)
      BY <2>4 DEF TickForClient, ClientDataNoticed, OpenClientData
    <2>5. CASE FindContact(p)
      BY <1>1, <2>5 DEF FindContact, Promo, ClientDataNoticed, OpenClientData, TypeOK
    <2> QED BY <1>3, <2>1, <2>2, <2>3, <2>4, <2>5 DEF PromotionNext
  <1>4. ASSUME NEW s \in Items, Complete(s) \/ Uncomplete(s) PROVE ClientDataNoticed'
    <2>1. UNCHANGED <<items, promoted, req, promo>>
      BY <1>4 DEF Complete, Uncomplete
    <2>2. excused' \/ ((OpenClientData)' => OpenClientData)
      BY <1>4 DEF Complete, Uncomplete, OpenClientData
    <2>3. excused => excused'
      BY <1>4 DEF Complete, Uncomplete
    <2> QED BY <2>1, <2>2, <2>3 DEF ClientDataNoticed
  <1>5. CASE UNCHANGED vars
    BY <1>5 DEF vars, ClientDataNoticed, OpenClientData
  <1> QED BY <1>2, <1>3, <1>4, <1>5 DEF Next

\* In whatever order a promotion and the creation of the item cross, an open
\* item of a promoted contact is still to be ticked by somebody.
THEOREM ClientDataIsNoticed == Spec => []ClientDataNoticed
  <1>1. Init => ClientDataNoticed
    BY DEF Init, ClientDataNoticed
  <1>2. IInv /\ ClientDataNoticed /\ [Next]_vars => ClientDataNoticed'
    BY NoticedStep
  <1> QED BY <1>1, <1>2, Invariant, PTL DEF Spec

-----------------------------------------------------------------------------
(* What one request does to what another has read.                           *)

\* The stage changes by an operation its stage allows, or by a copy of another.
LEMMA StagesStep == ASSUME IInv, [Next]_vars PROVE StageStep
  <1> SUFFICES ASSUME row'.stage # row.stage
               PROVE  \/ row.stage \in {"NONE", "LOST"} /\ row'.stage = Initial
                      \/ row.stage \in Advancing /\ row'.stage \in {NextStage(row.stage), "LOST"}
                      \/ \E r \in Requests : /\ req[r].at = "save" /\ req'[r].at # "save"
                                             /\ req[r].copy.stage # row.stage
    BY DEF StageStep
  <1>1. (\E r \in Requests : Save(r)) \/ UNCHANGED row
    BY DEF Next, RequestNext, PromotionNext, Create, Read, Gate, ContactIsPromoted,
       CreateItems, Detect, IsClientDataMet, Tick, RequestFails, FindContact, Link, FindActive,
       LookForItem, TickForClient, PromotionFails, Complete, Uncomplete, vars
  <1>2. PICK r \in Requests : Save(r)
    BY <1>1
  <1>3. /\ req[r].at = "save" /\ row' = Apply(req[r].op, req[r].copy)
        /\ req[r].op \in Ops /\ req[r].copy \in Row /\ Ready(req[r])
    BY <1>2 DEF Save, Saved, Step, Ends, IInv, TypeOK, Good
  <1>4. req'[r].at # "save"
    BY <1>2 DEF Save, Step, Ends, Idle, IInv, TypeOK
  <1>5. CASE req[r].copy.stage = row.stage
    <2>1. CASE req[r].op = "create"
      BY <1>3, <1>5, <2>1 DEF Ready, Apply, NoRow
    <2>2. CASE req[r].op = "advance"
      <3>1. req[r].copy.stage \in Advancing
        BY <1>3, <2>2 DEF Ready, Allows, Inactive, Row, Stages
      <3>2. row'.stage = NextStage(req[r].copy.stage)
        BY <1>3, <2>2 DEF Apply, Row
      <3> QED BY <1>5, <3>1, <3>2
    <2>3. CASE req[r].op = "lose"
      <3>1. req[r].copy.stage \in Advancing /\ row'.stage = "LOST"
        BY <1>3, <2>3 DEF Ready, Allows, Inactive, Row, Stages, Apply
      <3> QED BY <1>5, <3>1
    <2>4. CASE req[r].op = "reopen"
      <3>1. req[r].copy.stage = "LOST" /\ row'.stage = Initial
        BY <1>3, <2>4 DEF Ready, Allows, Row, Apply
      <3> QED BY <1>5, <3>1
    <2>5. CASE req[r].op \in {"details", "touch", "none"}
      <3>1. row'.stage = req[r].copy.stage
        BY <1>3, <2>5 DEF Apply, Row
      <3> QED BY <1>5, <3>1
    <2> QED BY <1>3, <2>1, <2>2, <2>3, <2>4, <2>5 DEF Ops
  <1> QED BY <1>3, <1>4, <1>5

\* However requests overwrite each other, the stages are passed in their order, and
\* an issued proposal stays so, except for the save of a request that read the row
\* in another stage.
THEOREM StagesGoInOrder == Spec => StagesInOrder
  <1>1. IInv /\ [Next]_vars => StageStep
    BY StagesStep
  <1> QED BY <1>1, Invariant, PTL DEF Spec, StagesInOrder

\* Between reading the row and saving it a request is busy.
Busy(r) == req[r].at \in {"gate", "contact", "save"}

\* The copy of a request that is busy after the step is the row, or was not before
\* it any more, or another request saves.
OvertakenStep ==
    \A r \in Requests :
        req'[r].at \in {"gate", "contact", "save"} =>
            \/ req'[r].copy = row'
            \/ req'[r].copy = req[r].copy /\ Busy(r) /\ req[r].copy # row
            \/ \E q \in Requests \ {r} : Busy(q) /\ Save(q)

\* Steps other than saves leave the row and the copies of others.
LEMMA Overtaken == ASSUME IInv, [Next]_vars PROVE OvertakenStep
  <1> SUFFICES ASSUME NEW r \in Requests, req'[r].at \in {"gate", "contact", "save"}
               PROVE  \/ req'[r].copy = row'
                      \/ req'[r].copy = req[r].copy /\ Busy(r) /\ req[r].copy # row
                      \/ \E q \in Requests \ {r} : Busy(q) /\ Save(q)
    BY DEF OvertakenStep
  <1>1. TypeOK
    BY DEF IInv
  <1>2. ASSUME NEW q \in Requests, Save(q)
        PROVE  q # r /\ Busy(q)
    BY <1>1, <1>2 DEF Save, Step, Ends, Idle, TypeOK, Busy
  <1>3. CASE ~\E q \in Requests : Save(q)
    <2>1. UNCHANGED row
      BY <1>3 DEF Next, RequestNext, PromotionNext, Create, Read, Gate, ContactIsPromoted,
         CreateItems, Detect, IsClientDataMet, Tick, RequestFails, FindContact, Link, FindActive,
         LookForItem, TickForClient, PromotionFails, Complete, Uncomplete, vars
    <2>2. CASE ~RequestNext(r)
      <3>1. req'[r] = req[r]
        BY <1>1, <2>2, OthersStay DEF Next, PromotionNext, FindContact, Link, FindActive,
           LookForItem, TickForClient, PromotionFails, Complete, Uncomplete, vars
      <3> QED BY <2>1, <3>1 DEF Busy
    <2>3. CASE Create(r) \/ \E op \in Ops : Read(r, op)
      BY <1>1, <2>1, <2>3 DEF Create, Read, TypeOK
    <2>4. CASE Gate(r) \/ ContactIsPromoted(r)
      BY <1>1, <2>1, <2>4 DEF Gate, ContactIsPromoted, Step, TypeOK, Busy
    <2>5. CASE CreateItems(r) \/ Detect(r) \/ IsClientDataMet(r) \/ Tick(r) \/ RequestFails(r)
      BY <1>1, <2>5 DEF CreateItems, Detect, IsClientDataMet, Tick, RequestFails, Step,
         Ends, TypeOK, Idle
    <2> QED BY <1>3, <2>2, <2>3, <2>4, <2>5 DEF RequestNext
  <1> QED BY <1>2, <1>3

\* The copy of a request is overtaken by the save of another request between its
\* reading and its saving, and by nothing else: no checklist, no promotion.
THEOREM OnlySavesOvertake == Spec => [][OvertakenStep]_vars
  <1>1. IInv /\ [Next]_vars => OvertakenStep
    BY Overtaken
  <1> QED BY <1>1, Invariant, PTL DEF Spec
=============================================================================
