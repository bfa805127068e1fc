------------------------------- MODULE Proposal -------------------------------
(***************************************************************************)
(* A proposal on its way from capture to policy: the requests that advance *)
(* it, lose it, reopen it or edit it, its checklist, and the promotion of  *)
(* its contact to a client, which ticks an item of that checklist.  Every  *)
(* request reads the row, changes its copy and saves the whole row, and    *)
(* nothing keeps another request from saving in between; the items of a    *)
(* new stage are created by a later statement than the stage, outside any  *)
(* transaction.  A request may end at any await.                           *)
(***************************************************************************)
CONSTANTS
    Requests,    \* HTTP requests in progress on the proposal
    Promotions,  \* promotions of its contact in progress
    Initial,     \* getInitialStage: QUOTE for an endorsement, CAPTURE otherwise
    AfterQuote,  \* PROTOCOL in the code; a small instance skips the middle
                 \* stages, which are all alike, and takes PAYMENT
    Extras       \* the required items the branch adds to CAPTURE (LIFE,
                 \* RESIDENTIAL, BUSINESS), as one, or none

ASSUME ProposalAssumption ==
    /\ Initial \in {"CAPTURE", "QUOTE"}
    /\ AfterQuote \in {"PROTOCOL", "PAYMENT"}
    /\ Extras \subseteq {"BRANCH"}

VARIABLES
    row,         \* the columns of the proposal that decide something
    items,       \* stages whose checklist items exist, and extras that do
    done,        \* those whose checklist items are completed
    promoted,    \* contact.clientId is set
    req,         \* per request: what it does, where it stands, its copy of the row
    promo,       \* where each promotion stands
    torn,        \* stages left without items: their creator died, or was overtaken
    excused      \* the item client_data may stay open: a failure that was only
                 \* logged, a user who unticked it, an inactive proposal

vars == <<row, items, done, promoted, req, promo, torn, excused>>

Advancing == {"CAPTURE", "QUOTE", "PROTOCOL", "INSPECTION", "PAYMENT"}
Stages == Advancing \cup {"POLICY_ISSUED"}
Items == Stages \cup Extras
Required == {"QUOTE", "PROTOCOL", "INSPECTION", "PAYMENT"} \cup Extras

Row == [stage: Stages \cup {"NONE", "LOST"}, details: BOOLEAN, lostReason: BOOLEAN]
NoRow == [stage |-> "NONE", details |-> FALSE, lostReason |-> FALSE]
Ops == {"none", "create", "advance", "lose", "reopen", "details", "touch"}
Idle == [op |-> "none", at |-> "idle", copy |-> NoRow]

TypeOK ==
    /\ row \in Row
    /\ items \subseteq Items /\ done \subseteq items
    /\ promoted \in BOOLEAN
    /\ req \in [Requests -> [op: Ops, copy: Row,
                             at: {"idle", "gate", "contact", "save", "items",
                                  "detect", "client", "tick"}]]
    /\ promo \in [Promotions -> {"idle", "link", "find", "look", "tick"}]
    /\ torn \subseteq Items
    /\ excused \in BOOLEAN

Init ==
    /\ row = NoRow
    /\ items = {} /\ done = {}
    /\ promoted = FALSE
    /\ req = [r \in Requests |-> Idle]
    /\ promo = [p \in Promotions |-> "idle"]
    /\ torn = {}
    /\ excused = FALSE

-----------------------------------------------------------------------------
(* The entity: what an operation does to its copy of the row. *)

NextStage(s) ==
    CASE s = "CAPTURE"    -> "QUOTE"
      [] s = "QUOTE"      -> AfterQuote
      [] s = "PROTOCOL"   -> "INSPECTION"
      [] s = "INSPECTION" -> "PAYMENT"
      [] OTHER            -> "POLICY_ISSUED"

Inactive == {"POLICY_ISSUED", "LOST"}

\* The guard, checked on the copy as soon as it is read.
Allows(op, copy) ==
    CASE op = "advance" -> /\ copy.stage \notin Inactive
                           /\ copy.stage = "QUOTE" => copy.details
      [] op = "lose"    -> copy.stage \notin Inactive
      [] op = "reopen"  -> copy.stage = "LOST"
      [] op = "details" -> copy.stage # "LOST"
      [] op = "touch"   -> TRUE
      [] OTHER          -> FALSE

Apply(op, copy) ==
    CASE op = "create"  -> [copy EXCEPT !.stage = Initial]
      [] op = "advance" -> [copy EXCEPT !.stage = NextStage(copy.stage)]
      [] op = "lose"    -> [copy EXCEPT !.stage = "LOST", !.lostReason = TRUE]
      [] op = "reopen"  -> [copy EXCEPT !.stage = Initial, !.lostReason = FALSE]
      [] op = "details" -> [copy EXCEPT !.details = TRUE]
      [] OTHER          -> copy

-----------------------------------------------------------------------------
(* The requests *)

Step(r, from, to) ==
    /\ req[r].at = from
    /\ req' = [req EXCEPT ![r].at = to]

Ends(r, from) ==
    /\ req[r].at = from
    /\ req' = [req EXCEPT ![r] = Idle]

Create(r) ==
    /\ row = NoRow
    /\ \A q \in Requests : req[q].op # "create"
    /\ req[r].at = "idle"
    /\ req' = [req EXCEPT ![r] = [op |-> "create", at |-> "save", copy |-> NoRow]]
    /\ UNCHANGED <<row, items, done, promoted, promo, torn, excused>>

\* Fault: the operation is not refused in any stage.
ReadUnguarded(r, op) ==
    /\ row # NoRow /\ req[r].at = "idle"
    /\ op \notin {"none", "create"}
    /\ req' = [req EXCEPT ![r] = [op |-> op, copy |-> row,
                                  at |-> IF op = "advance" THEN "gate" ELSE "save"]]
    /\ UNCHANGED <<row, items, done, promoted, promo, torn, excused>>

\* findById, and the guards of the entity
Read(r, op) ==
    /\ row # NoRow /\ req[r].at = "idle"
    /\ Allows(op, row)
    /\ req' = [req EXCEPT ![r] = [op |-> op, copy |-> row,
                                  at |-> IF op = "advance" THEN "gate" ELSE "save"]]
    /\ UNCHANGED <<row, items, done, promoted, promo, torn, excused>>

\* getSummary counts the required items that exist, of any stage.
CanAdvance == items \cap Required \subseteq done

\* Another request has saved this stage and not created its items yet.
Overtakes(r) ==
    \E q \in Requests \ {r} :
        /\ req[q].at = "items"
        /\ Apply(req[q].op, req[q].copy).stage = req[r].copy.stage

\* Nothing of the checklist is asked for in the first stage.
Gate(r) ==
    /\ req[r].copy.stage # "CAPTURE" => CanAdvance
    /\ Step(r, "gate", IF req[r].copy.stage = "PAYMENT" THEN "contact" ELSE "save")
    /\ torn' = IF Overtakes(r) THEN torn \cup {req[r].copy.stage} ELSE torn
    /\ UNCHANGED <<row, items, done, promoted, promo, excused>>

\* assertContactIsPromoted, for a proposal that is to be issued
ContactIsPromoted(r) ==
    /\ promoted
    /\ Step(r, "contact", "save")
    /\ UNCHANGED <<row, items, done, promoted, promo, torn, excused>>

\* Fault: a column that is null in the copy is not written.
SavedSkipsNull(op, copy) ==
    LET new == Apply(op, copy)
    IN  [stage |-> new.stage, details |-> new.details \/ row.details,
         lostReason |-> new.lostReason \/ row.lostReason]

\* The whole row, from the copy.
Saved(op, copy) == Apply(op, copy)

Save(r) ==
    /\ row' = Saved(req[r].op, req[r].copy)
    /\ IF req[r].op = "create" \/ (req[r].op = "advance" /\ row'.stage # "POLICY_ISSUED")
       THEN Step(r, "save", "items")
       ELSE Ends(r, "save")
    /\ UNCHANGED <<items, done, promoted, promo, torn, excused>>

\* Fault: the items of the stage that was left are created.
ItemsOfOldStage(r) == {req[r].copy.stage} \cap Stages

ItemsOf(r) ==
    LET stage == Apply(req[r].op, req[r].copy).stage
    IN  {stage} \cup {x \in Extras : stage = "CAPTURE"}

\* Fault: the promotion is trusted to tick the item.
ItemsWithoutDetection(r) ==
    /\ Ends(r, "items")
    /\ items' = items \cup ItemsOf(r)
    /\ UNCHANGED <<row, done, promoted, promo, torn, excused>>

\* createMany, which skips those that exist; the copy is not used any more.
CreateItems(r) ==
    /\ req[r].at = "items"
    /\ req' = [req EXCEPT ![r] = [Idle EXCEPT !.at = "detect"]]
    /\ items' = items \cup ItemsOf(r)
    /\ UNCHANGED <<row, done, promoted, promo, torn, excused>>

\* The item client_data, the one of its stage that is detected.
OpenClientData == "CAPTURE" \in items \ done

\* Auto-detection: the item is read first, then the contact.
Detect(r) ==
    /\ IF OpenClientData THEN Step(r, "detect", "client") ELSE Ends(r, "detect")
    /\ UNCHANGED <<row, items, done, promoted, promo, torn, excused>>

IsClientDataMet(r) ==
    /\ IF promoted THEN Step(r, "client", "tick") ELSE Ends(r, "client")
    /\ UNCHANGED <<row, items, done, promoted, promo, torn, excused>>

Tick(r) ==
    /\ Ends(r, "tick")
    /\ done' = done \cup {"CAPTURE"}
    /\ UNCHANGED <<row, items, promoted, promo, torn, excused>>

\* An await throws or the server dies; what was saved stays.
RequestFails(r) ==
    /\ req[r].at # "idle"
    /\ Ends(r, req[r].at)
    /\ torn' = IF req[r].at = "items" THEN torn \cup ItemsOf(r) ELSE torn
    /\ excused' = (excused \/ req[r].at \in {"detect", "client", "tick"})
    /\ UNCHANGED <<row, items, done, promoted, promo>>

\* A user ticks an item, or attaches its document; or unticks one.
Complete(s) ==
    /\ s \in items
    /\ done' = done \cup {s}
    /\ UNCHANGED <<row, items, promoted, req, promo, torn, excused>>

Uncomplete(s) ==
    /\ s \in items
    /\ done' = done \ {s}
    /\ excused' = (excused \/ s = "CAPTURE")
    /\ UNCHANGED <<row, items, promoted, req, promo, torn>>

-----------------------------------------------------------------------------
(* PromoteContact: the contact is linked first, then its proposals are sought. *)

Promo(p, from, to) ==
    /\ promo[p] = from
    /\ promo' = [promo EXCEPT ![p] = to]

\* A contact that is linked is left alone.
FindContact(p) ==
    /\ ~promoted
    /\ Promo(p, "idle", "link")
    /\ UNCHANGED <<row, items, done, promoted, req, torn, excused>>

Link(p) ==
    /\ Promo(p, "link", "find")
    /\ promoted' = TRUE
    /\ UNCHANGED <<row, items, done, req, torn, excused>>

\* findActiveByContact; a proposal that is not there yet is not missed.
FindActive(p) ==
    /\ IF row.stage \in Inactive \cup {"NONE"}
       THEN Promo(p, "find", "idle") ELSE Promo(p, "find", "look")
    /\ excused' = (excused \/ row.stage \in Inactive)
    /\ UNCHANGED <<row, items, done, promoted, req, torn>>

\* Fault: the item is completed whether it exists or not.
LookForNothing(p) ==
    /\ Promo(p, "look", "tick")
    /\ UNCHANGED <<row, items, done, promoted, req, torn, excused>>

\* The contact is read again too, and was linked before.
LookForItem(p) ==
    /\ IF OpenClientData THEN Promo(p, "look", "tick") ELSE Promo(p, "look", "idle")
    /\ UNCHANGED <<row, items, done, promoted, req, torn, excused>>

TickForClient(p) ==
    /\ Promo(p, "tick", "idle")
    /\ done' = done \cup {"CAPTURE"}
    /\ UNCHANGED <<row, items, promoted, req, torn, excused>>

\* The error is logged and the promotion stands.
PromotionFails(p) ==
    /\ promo[p] # "idle"
    /\ Promo(p, promo[p], "idle")
    /\ excused' = (excused \/ promo[p] # "link")
    /\ UNCHANGED <<row, items, done, promoted, req, torn>>

-----------------------------------------------------------------------------
RequestNext(r) ==
    \/ Create(r) \/ Gate(r) \/ ContactIsPromoted(r) \/ Save(r) \/ CreateItems(r)
    \/ Detect(r) \/ IsClientDataMet(r) \/ Tick(r) \/ RequestFails(r)
    \/ \E op \in Ops : Read(r, op)

PromotionNext(p) ==
    \/ FindContact(p) \/ Link(p) \/ FindActive(p) \/ LookForItem(p)
    \/ TickForClient(p) \/ PromotionFails(p)

Next ==
    \/ \E r \in Requests : RequestNext(r)
    \/ \E p \in Promotions : PromotionNext(p)
    \/ \E s \in Items : Complete(s) \/ Uncomplete(s)

Spec == Init /\ [][Next]_vars

-----------------------------------------------------------------------------
(* Properties *)

\* Requests overwrite each other's saves, but what one row says stays
\* consistent: a lost proposal and no other has a reason, past the quote there
\* are details, and the contact of an issued one is a client.
RowIsConsistent ==
    /\ row.stage = "LOST" <=> row.lostReason
    /\ row.stage \in {"PROTOCOL", "INSPECTION", "PAYMENT", "POLICY_ISSUED"} => row.details
    /\ row.stage = "POLICY_ISSUED" => promoted

StageStep ==
    row'.stage # row.stage =>
        \/ row.stage \in {"NONE", "LOST"} /\ row'.stage = Initial
        \/ row.stage \in Advancing /\ row'.stage \in {NextStage(row.stage), "LOST"}
        \/ \E r \in Requests : /\ req[r].at = "save" /\ req'[r].at # "save"
                               /\ req[r].copy.stage # row.stage

\* The stages are passed one by one, an issued proposal stays issued and a lost one
\* is only reopened; what goes otherwise is the save of a request that read the
\* row in another stage than it is in by now.
StagesInOrder == [][StageStep]_vars

\* A request leaves a stage whose items were never created only if their
\* creator died or was overtaken between the save and the creation.
LeavesWithItems ==
    \A r \in Requests :
        (req[r].op = "advance" /\ req[r].at = "save" /\ req[r].copy.stage \in Required)
            => req[r].copy.stage \in items \cup torn

\* Promotion and creation of the item may cross in any order: the item of a
\* promoted contact does not stay open unnoticed, somebody is still to tick it
\* or there is an excuse.
ClientDataNoticed ==
    (promoted /\ OpenClientData /\ ~excused) =>
        \/ \E r \in Requests : req[r].at \in {"detect", "client", "tick"}
        \/ \E p \in Promotions : promo[p] \in {"find", "look", "tick"}
=============================================================================
