--------------------------- MODULE WorkspaceProofs ---------------------------
(***************************************************************************)
(* Proofs about Workspace, for any finite set of users and any number of   *)
(* invitations, requests and readers.                                      *)
(***************************************************************************)
EXTENDS Workspace, FiniteSetTheorems, TLAPS

USE WorkspaceAssumption

\* What a request knows of the rows that it has read, by its operation.
Good(r) ==
    /\ req[r].at = "count" => req[r].op \in MemberOps
    /\ req[r].at = "forget" => req[r].op = "none"
    /\ req[r].op \in MemberOps => req[r].user \in Users
    /\ req[r].op = "updateRole" => req[r].new \in Roles
    /\ req[r].op \in MemberOps /\ req[r].at = "write" /\ req[r].seen = "OWNER"
           => Cardinality(req[r].owners) > 1
    /\ req[r].op = "invite" => req[r].user \in Users /\ req[r].new \in Roles
    /\ req[r].op = "invite" /\ req[r].at = "write" =>
           /\ req[r].used \subseteq Used
           /\ \A i \in req[r].used : ~(Open(i) /\ inv[i].user = req[r].user)
    /\ req[r].op \in {"cancel", "accept"} => req[r].i \in Used
    /\ req[r].op \in {"cancel", "accept"} => req[r].seen = "pending"
    /\ req[r].op = "accept" => req[r].user \in Users /\ req[r].new \in Roles

RequestInv == \A r \in Requests : Good(r)

\* A row in use names its user and role, and who was admitted came by a row
\* that is not pending any more.
RowInv ==
    /\ \A i \in Used : inv[i].user \in Users /\ inv[i].role \in Roles
    /\ \A i \in admitted : inv[i].status \in {"accepted", "canceled"}

IInv == TypeOK /\ RequestInv /\ RowInv

\* The organization starts with its founder and nothing else.
LEMMA WorkspaceInit == Init => IInv /\ ListIsFresh
  <1> SUFFICES ASSUME Init PROVE IInv /\ ListIsFresh
    OBVIOUS
  <1>1. Idle \in Request
    BY DEF Idle, Request, Ops, MemberOps, Points
  <1>2. TypeOK
    BY <1>1 DEF Init, TypeOK, Invitation, Unused, Statuses
  <1>3. RequestInv /\ RowInv
    BY DEF Init, RequestInv, RowInv, Good, Idle, Used, Unused, MemberOps
  <1>4. ListIsFresh
    BY DEF Init, ListIsFresh
  <1> QED BY <1>2, <1>3, <1>4 DEF IInv

\* A set of more than one member has another one.
LEMMA AnotherOwner ==
    ASSUME NEW S, IsFiniteSet(S), Cardinality(S) > 1, NEW u
    PROVE  S \ {u} # {}
  <1> SUFFICES ASSUME S \ {u} = {} PROVE FALSE
    OBVIOUS
  <1>1. IsFiniteSet({u}) /\ Cardinality({u}) = 1
    BY FS_Singleton
  <1>2. S \in SUBSET {u}
    OBVIOUS
  <1>3. Cardinality(S) =< Cardinality({u})
    BY <1>1, <1>2, FS_Subset
  <1>4. Cardinality(S) \in Nat
    BY FS_CardinalityType
  <1> QED BY <1>1, <1>3, <1>4

\* A step of a request is one of its actions.
StepOf(r) == MemberNext(r) \/ InvitationNext(r) \/ Forget(r) \/ RequestFails(r)

\* The invitations after any step: rows in use stay in use for the same user and
\* do not become pending again.
LEMMA RowsGoOn ==
    ASSUME IInv, [Next]_vars
    PROVE  /\ inv' \in [Invitations -> Invitation]
           /\ Used \subseteq Used'
           /\ \A i \in Used : inv'[i].user = inv[i].user /\ (Open(i)' => Open(i))
           /\ \A i \in Used' : inv'[i].user \in Users /\ inv'[i].role \in Roles
  <1> USE DEF IInv, TypeOK, RowInv, Used, Open, Invitation, Statuses
  <1>1. ASSUME NEW r \in Requests, CreateInvitation(r)
        PROVE  /\ inv' \in [Invitations -> Invitation]
               /\ Used \subseteq Used'
               /\ \A i \in Used : inv'[i].user = inv[i].user /\ (Open(i)' => Open(i))
               /\ \A i \in Used' : inv'[i].user \in Users /\ inv'[i].role \in Roles
    <2>1. req[r].user \in Users /\ req[r].new \in Roles
      BY <1>1 DEF CreateInvitation, At, RequestInv, Good
    <2>2. PICK i \in Invitations \ Used :
              inv' = [inv EXCEPT ![i] = [status |-> "pending", user |-> req[r].user,
                                         role |-> req[r].new]]
      BY <1>1 DEF CreateInvitation
    <2> QED BY <2>1, <2>2
  <1>2. ASSUME NEW i \in Used, NEW s \in {"expired", "canceled", "accepted"},
               inv' = [inv EXCEPT ![i].status = s]
        PROVE  /\ inv' \in [Invitations -> Invitation]
               /\ Used \subseteq Used'
               /\ \A k \in Used : inv'[k].user = inv[k].user /\ (Open(k)' => Open(k))
               /\ \A k \in Used' : inv'[k].user \in Users /\ inv'[k].role \in Roles
    BY <1>2
  <1>3. ASSUME NEW r \in Requests, CancelPending(r)
        PROVE  req[r].i \in Used /\ inv' = [inv EXCEPT ![req[r].i].status = "canceled"]
    BY <1>3 DEF CancelPending, At, RequestInv, Good
  <1>4. ASSUME NEW r \in Requests, AcceptAndCreateMember(r)
        PROVE  req[r].i \in Used /\ inv' = [inv EXCEPT ![req[r].i].status = "accepted"]
    BY <1>4 DEF AcceptAndCreateMember, Accepted, At, RequestInv, Good
  <1>5. ASSUME NEW i \in Invitations, Expire(i)
        PROVE  i \in Used /\ inv' = [inv EXCEPT ![i].status = "expired"]
    BY <1>5 DEF Expire
  <1>6. \/ \E r \in Requests : CreateInvitation(r) \/ CancelPending(r) \/ AcceptAndCreateMember(r)
        \/ \E i \in Invitations : Expire(i)
        \/ UNCHANGED inv
    BY DEF Next, vars, MemberNext, InvitationNext, ListNext, Begin, FindMember, CountOwners,
       Deactivate, UpdateRole, CheckMember, CheckDuplicate, FindPending, FindInvitation, Found,
       IsMember, Forget, RequestFails, ListActive, ListStore, ListExpires
  <1>7. CASE UNCHANGED inv
    BY <1>7
  <1> QED BY <1>1, <1>2, <1>3, <1>4, <1>5, <1>6, <1>7

\* A step of a request replaces its record by one of the right type that knows
\* what it says; the others keep theirs.
LEMMA RequestStep ==
    ASSUME IInv, NEW r \in Requests, StepOf(r), [Next]_vars
    PROVE  /\ req' \in [Requests -> Request]
           /\ \A k \in Requests \ {r} : req'[k] = req[k]
           /\ Good(r)'
  <1> DEFINE q == req[r]
  <1>0. /\ req \in [Requests -> Request] /\ q \in Request /\ Good(r)
        /\ role \in [Users -> Roles \cup {"NONE"}] /\ inv \in [Invitations -> Invitation]
        /\ \A i \in Used : inv[i].user \in Users /\ inv[i].role \in Roles
        /\ active \subseteq Users
    BY DEF IInv, TypeOK, RequestInv, RowInv
  <1>1. Used \subseteq Used'
    BY RowsGoOn
  <1>2. Idle \in Request
    BY DEF Idle, Request, Ops, MemberOps, Points
  <1>3. SUFFICES \E new \in Request : req' = [req EXCEPT ![r] = new] /\ Good(r)'
    BY <1>0
  <1>4. ASSUME NEW new \in Request, req' = [req EXCEPT ![r] = new],
               new.op = "none", new.at # "count"
        PROVE  Good(r)'
    BY <1>0, <1>4 DEF Good, MemberOps
  <1>5. CASE \E u \in Users : Begin(r, "deactivate", u, "NONE")
    <2>1. PICK u \in Users, c \in active :
              req' = [req EXCEPT ![r] = [Idle EXCEPT !.op = "deactivate", !.at = "find",
                                                     !.rank = role[c], !.user = u, !.new = "NONE"]]
      BY <1>5 DEF Begin
    <2>2. [Idle EXCEPT !.op = "deactivate", !.at = "find", !.rank = role[c], !.user = u,
                       !.new = "NONE"] \in Request
      BY <1>0 DEF Idle, Request, Ops, MemberOps, Points
    <2> QED BY <1>0, <2>1, <2>2 DEF Good, MemberOps, Idle
  <1>6. CASE \E u \in Users, new \in Roles : Begin(r, "updateRole", u, new)
    <2>1. PICK u \in Users, new \in Roles, c \in active :
              req' = [req EXCEPT ![r] = [Idle EXCEPT !.op = "updateRole", !.at = "find",
                                                     !.rank = role[c], !.user = u, !.new = new]]
      BY <1>6 DEF Begin
    <2>2. [Idle EXCEPT !.op = "updateRole", !.at = "find", !.rank = role[c], !.user = u,
                       !.new = new] \in Request
      BY <1>0 DEF Idle, Request, Ops, MemberOps, Points
    <2> QED BY <1>0, <2>1, <2>2 DEF Good, MemberOps, Idle
  <1>7. CASE FindMember(r)
    <2>1. q.op \in MemberOps /\ q.user \in active
      BY <1>7 DEF FindMember
    <2>2. PICK s \in Roles \cup {"NONE"}, p \in {"count", "write"} :
              /\ req' = [req EXCEPT ![r] = [q EXCEPT !.seen = s, !.at = p]]
              /\ p = "write" => s # "OWNER"
      BY <1>0, <1>7 DEF FindMember
    <2>3. [q EXCEPT !.seen = s, !.at = p] \in Request
      BY <1>0 DEF Request, Points
    <2> QED BY <1>0, <2>1, <2>2, <2>3 DEF Good, MemberOps, Request
  <1>8. CASE CountOwners(r)
    <2>1. q.at = "count" /\ Cardinality(Owners) > 1
          /\ req' = [req EXCEPT ![r] = [q EXCEPT !.at = "write", !.owners = Owners]]
      BY <1>0, <1>8 DEF CountOwners
    <2>2. [q EXCEPT !.at = "write", !.owners = Owners] \in Request
      BY <1>0 DEF Request, Points, Owners
    <2>3. q.op \in MemberOps
      BY <1>0, <2>1 DEF Good
    <2> HIDE DEF Owners
    <2> QED BY <1>0, <2>1, <2>2, <2>3 DEF Good, MemberOps, Request
  <1>9. CASE Deactivate(r) \/ UpdateRole(r) \/ CreateInvitation(r) \/ AcceptAndCreateMember(r)
    <2>1. req' = [req EXCEPT ![r] = [Idle EXCEPT !.at = "forget"]]
      BY <1>9 DEF Deactivate, UpdateRole, CreateInvitation, AcceptAndCreateMember, GoToForget
    <2>2. [Idle EXCEPT !.at = "forget"] \in Request
      BY <1>2 DEF Request, Points
    <2> QED BY <1>4, <2>1, <2>2 DEF Idle
  <1>10. CASE Forget(r) \/ RequestFails(r) \/ CancelPending(r)
    <2>1. req' = [req EXCEPT ![r] = Idle]
      BY <1>10 DEF Forget, RequestFails, CancelPending, Leave
    <2> QED BY <1>2, <1>4, <2>1 DEF Idle
  <1>11. CASE \E u \in Users, new \in Roles : CheckMember(r, u, new)
    <2>1. PICK u \in Users, new \in Roles :
              req' = [req EXCEPT ![r] = [Idle EXCEPT !.op = "invite", !.at = "check",
                                                     !.user = u, !.new = new]]
      BY <1>11 DEF CheckMember
    <2>2. [Idle EXCEPT !.op = "invite", !.at = "check", !.user = u, !.new = new] \in Request
      BY DEF Idle, Request, Ops, MemberOps, Points
    <2> QED BY <1>0, <2>1, <2>2 DEF Good, MemberOps, Idle
  <1>12. CASE CheckDuplicate(r)
    <2>1. /\ q.op = "invite" /\ inv' = inv
          /\ req' = [req EXCEPT ![r] = [q EXCEPT !.at = "write", !.used = Used]]
          /\ \A i \in Invitations : ~(Open(i) /\ inv[i].user = q.user)
      BY <1>0, <1>12 DEF CheckDuplicate, At
    <2>2. [q EXCEPT !.at = "write", !.used = Used] \in Request
      BY <1>0 DEF Request, Points, Used
    <2>3. /\ req'[r] = [q EXCEPT !.at = "write", !.used = Used]
          /\ \A i \in Used : ~(Open(i)' /\ inv'[i].user = q.user)
      BY <1>0, <2>1 DEF Open, Used
    <2> QED BY <1>0, <1>1, <2>1, <2>2, <2>3 DEF Good, MemberOps, Request
  <1>13. CASE \E i \in Invitations : FindPending(r, i)
    <2>1. PICK i \in Invitations : FindPending(r, i)
      BY <1>13
    <2>2. /\ i \in Used
          /\ req' = [req EXCEPT ![r] = [Idle EXCEPT !.op = "cancel", !.at = "write", !.i = i,
                                                    !.seen = "pending"]]
      BY <2>1 DEF FindPending, Found, Column, Used
    <2>3. [Idle EXCEPT !.op = "cancel", !.at = "write", !.i = i, !.seen = "pending"] \in Request
      BY DEF Idle, Request, Ops, MemberOps, Points, Statuses
    <2> QED BY <1>0, <1>1, <2>2, <2>3 DEF Good, MemberOps, Idle
  <1>14. CASE \E i \in Invitations : FindInvitation(r, i)
    <2>1. PICK i \in Invitations : FindInvitation(r, i)
      BY <1>14
    <2>2. i \in Used
      BY <2>1 DEF FindInvitation, Open, Used
    <2>3. inv[i].user \in Users /\ inv[i].role \in Roles
      BY <1>0, <2>2
    <2>4. PICK u \in Users, ro \in Roles :
              req' = [req EXCEPT ![r] = [Idle EXCEPT !.op = "accept", !.at = "check", !.i = i,
                                             !.user = u, !.new = ro, !.seen = "pending"]]
      BY <2>1, <2>3 DEF FindInvitation, Found, Column, Open
    <2>5. [Idle EXCEPT !.op = "accept", !.at = "check", !.i = i, !.user = u, !.new = ro,
                       !.seen = "pending"] \in Request
      BY DEF Idle, Request, Ops, MemberOps, Points, Statuses
    <2> QED BY <1>0, <1>1, <2>2, <2>4, <2>5 DEF Good, MemberOps, Idle
  <1>15. CASE IsMember(r)
    <2>1. q.op = "accept" /\ req' = [req EXCEPT ![r] = [q EXCEPT !.at = "write"]]
      BY <1>0, <1>15 DEF IsMember, At, GoTo
    <2>2. [q EXCEPT !.at = "write"] \in Request
      BY <1>0 DEF Request, Points
    <2> QED BY <1>0, <1>1, <2>1, <2>2 DEF Good, MemberOps, Request
  <1> QED
    BY <1>5, <1>6, <1>7, <1>8, <1>9, <1>10, <1>11, <1>12, <1>13, <1>14, <1>15
       DEF StepOf, MemberNext, InvitationNext

\* The knowledge of a request is not lost by what others do.
LEMMA KnowledgeStays ==
    ASSUME IInv, [Next]_vars, NEW k \in Requests, req'[k] = req[k]
    PROVE  Good(k)'
  <1>1. Good(k)
    BY DEF IInv, RequestInv
  <1>2. /\ Used \subseteq Used'
        /\ \A i \in Used : inv'[i].user = inv[i].user /\ (Open(i)' => Open(i))
    BY RowsGoOn
  <1> QED BY <1>1, <1>2 DEF Good

\* Whatever is not a step of a request leaves all requests alone.
LEMMA RequestsStay ==
    ASSUME [Next]_vars, ~ \E r \in Requests : StepOf(r)
    PROVE  req' = req
  BY DEF Next, vars, StepOf, ListNext, ListActive, ListStore, ListExpires, Expire

\* Members, lists and the records of the past keep their types.
LEMMA TablesStep ==
    ASSUME IInv, [Next]_vars
    PROVE  /\ role' \in [Users -> Roles \cup {"NONE"}]
           /\ active' \subseteq {u \in Users : role'[u] # "NONE"}
           /\ cached' \in {"none", "current", "stale", "missed"}
           /\ list' \in [Readers -> {"none", "current", "stale"}]
           /\ admitted' \subseteq Invitations
  <1> USE DEF IInv, TypeOK
  <1>1. ASSUME NEW r \in Requests, Deactivate(r) \/ UpdateRole(r) \/ AcceptAndCreateMember(r)
        PROVE  /\ role' \in [Users -> Roles \cup {"NONE"}]
               /\ active' \subseteq {u \in Users : role'[u] # "NONE"}
    <2>1. Good(r)
      BY DEF RequestInv
    <2>2. CASE Deactivate(r)
      BY <2>2 DEF Deactivate
    <2>3. ASSUME NEW u \in Users, NEW ro \in Roles, role' = [role EXCEPT ![u] = ro],
                 active' \subseteq active \cup {u}
          PROVE  /\ role' \in [Users -> Roles \cup {"NONE"}]
                 /\ active' \subseteq {v \in Users : role'[v] # "NONE"}
      BY <2>3
    <2>4. CASE UpdateRole(r)
      BY <2>1, <2>3, <2>4 DEF UpdateRole, At, Good, MemberOps
    <2>5. CASE AcceptAndCreateMember(r)
      BY <2>1, <2>3, <2>5 DEF AcceptAndCreateMember, Accepted, At, Good
    <2> QED BY <1>1, <2>2, <2>4, <2>5
  <1>2. ASSUME MembersChange
        PROVE  /\ cached' \in {"none", "current", "stale", "missed"}
               /\ list' \in [Readers -> {"none", "current", "stale"}]
    BY <1>2 DEF MembersChange, Age
  <1>3. ASSUME NEW r \in Requests, StepOf(r)
        PROVE  /\ role' \in [Users -> Roles \cup {"NONE"}]
               /\ active' \subseteq {u \in Users : role'[u] # "NONE"}
               /\ cached' \in {"none", "current", "stale", "missed"}
               /\ list' \in [Readers -> {"none", "current", "stale"}]
    BY <1>1, <1>2, <1>3 DEF StepOf, MemberNext, InvitationNext, Begin, FindMember, CountOwners,
       Deactivate, UpdateRole, CheckMember, CheckDuplicate, CreateInvitation, FindPending,
       FindInvitation, Found, CancelPending, IsMember, AcceptAndCreateMember, Accepted, Forget,
       RequestFails, Missed, members, caches
  <1>4. ASSUME NEW r \in Requests, StepOf(r)
        PROVE  admitted' \subseteq Invitations
    <2>1. Good(r)
      BY DEF RequestInv
    <2> QED BY <1>4, <2>1 DEF StepOf, MemberNext, InvitationNext, Begin, FindMember, CountOwners,
       Deactivate, UpdateRole, CheckMember, CheckDuplicate, CreateInvitation, FindPending,
       FindInvitation, Found, CancelPending, IsMember, AcceptAndCreateMember, Accepted, Forget,
       RequestFails, Good, At, Used
  <1>5. CASE ListNext
    BY <1>5 DEF ListNext, ListActive, ListStore, ListExpires, members, Missed
  <1>6. CASE UNCHANGED vars \/ \E i \in Invitations : Expire(i)
    BY <1>6 DEF vars, Expire, members, caches
  <1> QED BY <1>3, <1>4, <1>5, <1>6 DEF Next, StepOf

\* The rows by which somebody was admitted are accepted or canceled.
LEMMA AdmittedStep ==
    ASSUME IInv, [Next]_vars
    PROVE  \A i \in admitted' : inv'[i].status \in {"accepted", "canceled"}
  <1> USE DEF IInv, TypeOK, RowInv, Invitation
  <1>1. ASSUME NEW r \in Requests, StepOf(r)
        PROVE  \A i \in admitted' : inv'[i].status \in {"accepted", "canceled"}
    <2>1. Good(r)
      BY DEF RequestInv
    <2>2. CASE CreateInvitation(r)
      BY <2>2 DEF CreateInvitation, Used
    <2>3. CASE CancelPending(r)
      BY <2>1, <2>3 DEF CancelPending, At, Good, Used
    <2>4. CASE AcceptAndCreateMember(r)
      BY <2>1, <2>4 DEF AcceptAndCreateMember, Accepted, At, Good, Used
    <2> QED BY <1>1, <2>2, <2>3, <2>4 DEF StepOf, MemberNext, InvitationNext, Begin, FindMember,
       CountOwners, Deactivate, UpdateRole, CheckMember, CheckDuplicate, FindPending,
       FindInvitation, Found, IsMember, Forget, RequestFails
  <1>2. CASE ListNext \/ UNCHANGED vars
    BY <1>2 DEF ListNext, ListActive, ListStore, ListExpires, vars
  <1>3. ASSUME NEW i \in Invitations, Expire(i)
        PROVE  \A k \in admitted' : inv'[k].status \in {"accepted", "canceled"}
    BY <1>3 DEF Expire, Open
  <1> QED BY <1>1, <1>2, <1>3 DEF Next, StepOf

\* The invariant is kept by every step.
LEMMA IInvStep == ASSUME IInv, [Next]_vars PROVE IInv'
  <1>1. req' \in [Requests -> Request] /\ RequestInv'
    <2>1. CASE \E r \in Requests : StepOf(r)
      BY <2>1, RequestStep, KnowledgeStays DEF RequestInv
    <2>2. CASE ~ \E r \in Requests : StepOf(r)
      BY <2>2, RequestsStay, KnowledgeStays DEF RequestInv, IInv, TypeOK
    <2> QED BY <2>1, <2>2
  <1>2. RowInv'
    BY RowsGoOn, AdmittedStep DEF RowInv
  <1> QED BY <1>1, <1>2, RowsGoOn, TablesStep DEF IInv, TypeOK

\* Only members are taken away or changed by the writes of three operations.
LEMMA MembersStay ==
    ASSUME [Next]_vars,
           ~ \E r \in Requests : Deactivate(r) \/ UpdateRole(r) \/ AcceptAndCreateMember(r)
    PROVE  UNCHANGED members
  BY DEF Next, vars, members, MemberNext, InvitationNext, ListNext, Begin, FindMember,
     CountOwners, CheckMember, CheckDuplicate, CreateInvitation, FindPending, FindInvitation,
     Found, CancelPending, IsMember, Forget, RequestFails, ListActive, ListStore, ListExpires,
     Expire

\* A request that writes leaves its record: the record of a writer is never that
\* of a request on its way to delete the list.
LEMMA WriterMoves ==
    ASSUME IInv, NEW r \in Requests, req[r].at = "write",
           req' = [req EXCEPT ![r] = [Idle EXCEPT !.at = "forget"]] \/ req' = [req EXCEPT ![r] = Idle]
    PROVE  Writes(r)
  BY DEF Writes, IInv, TypeOK, Idle

\* Who takes the last owner away counted two, or found no owner.
LEMMA LastOwner == ASSUME IInv, [Next]_vars PROVE LastOwnerStep
  <1> SUFFICES ASSUME Owners # {}, Owners' = {}
               PROVE  \E r \in Requests :
                          /\ Writes(r)
                          /\ \/ req[r].owners \ Owners # {}
                             \/ req[r].seen # "OWNER" /\ req[r].user \in Owners
    BY DEF LastOwnerStep
  <1>1. Owners \subseteq Users /\ role \in [Users -> Roles \cup {"NONE"}]
    BY DEF IInv, TypeOK, Owners
  <1>2. PICK r \in Requests : Deactivate(r) \/ UpdateRole(r) \/ AcceptAndCreateMember(r)
    BY MembersStay DEF members, Owners
  <1>3. req[r].at = "write" /\ Good(r) /\ req[r] \in Request
    BY <1>2 DEF Deactivate, UpdateRole, AcceptAndCreateMember, Accepted, At, IInv, TypeOK, RequestInv
  <1>4. Writes(r)
    BY <1>2, <1>3, WriterMoves DEF Deactivate, UpdateRole, AcceptAndCreateMember, GoToForget
  <1>5. Owners \ {req[r].user} \subseteq Owners'
    BY <1>1, <1>2 DEF Deactivate, UpdateRole, AcceptAndCreateMember, Accepted, Owners
  <1>6. Owners = {req[r].user}
    BY <1>5
  <1>7. CASE req[r].seen # "OWNER"
    BY <1>4, <1>6, <1>7
  <1>8. CASE req[r].seen = "OWNER"
    <2>1. req[r].op \in MemberOps
      BY <1>2, <1>3, <1>8 DEF Deactivate, UpdateRole, AcceptAndCreateMember, Accepted, At,
         MemberOps, Good
    <2>2. Cardinality(req[r].owners) > 1 /\ req[r].owners \subseteq Users
      BY <1>3, <1>8, <2>1 DEF Good, Request
    <2>3. IsFiniteSet(req[r].owners)
      BY <2>2, FS_Subset
    <2>4. req[r].owners \ {req[r].user} # {}
      BY <2>2, <2>3, AnotherOwner
    <2> QED BY <1>4, <1>6, <2>4
  <1> QED BY <1>7, <1>8

\* Who cancels an invitation by which somebody came, or comes by one that was
\* canceled, took it for pending.
LEMMA KeepsOut == ASSUME IInv, [Next]_vars PROVE KeepsOutStep
  <1> SUFFICES ASSUME NEW i \in Invitations, ~AdmittedAndCanceled(i), AdmittedAndCanceled(i)'
               PROVE  \E r \in Requests :
                          /\ Writes(r)
                          /\ req[r].i = i
                          /\ Column(inv[i].status) # req[r].seen
    BY DEF KeepsOutStep
  <1> USE DEF IInv, TypeOK
  <1>1. /\ i \in admitted' /\ inv'[i].status = "canceled"
        /\ i \in admitted => inv[i].status = "accepted"
        /\ i \notin admitted \/ inv[i].status # "canceled"
    BY DEF AdmittedAndCanceled, RowInv
  <1>2. ASSUME NEW r \in Requests, AcceptAndCreateMember(r) PROVE FALSE
    <2>1. req[r].i \in Invitations
      BY <1>2 DEF AcceptAndCreateMember, Accepted, At, RequestInv, Good, Used
    <2> QED BY <1>1, <1>2, <2>1 DEF AcceptAndCreateMember, Accepted
  <1>3. ASSUME NEW r \in Requests, CreateInvitation(r) PROVE FALSE
    BY <1>1, <1>3 DEF CreateInvitation
  <1>4. ASSUME NEW k \in Invitations, Expire(k) PROVE FALSE
    BY <1>1, <1>4 DEF Expire
  <1>5. ASSUME UNCHANGED <<inv, admitted>> PROVE FALSE
    BY <1>1, <1>5
  <1>6. PICK r \in Requests : CancelPending(r)
    <2>1. \/ \E r \in Requests : CreateInvitation(r) \/ CancelPending(r) \/ AcceptAndCreateMember(r)
          \/ \E k \in Invitations : Expire(k)
          \/ UNCHANGED <<inv, admitted>>
      BY DEF Next, vars, MemberNext, InvitationNext, ListNext, Begin, FindMember, CountOwners,
         Deactivate, UpdateRole, CheckMember, CheckDuplicate, FindPending, FindInvitation,
         Found, IsMember, Forget, RequestFails, ListActive, ListStore, ListExpires
    <2> QED BY <2>1, <1>2, <1>3, <1>4, <1>5
  <1>7. req[r].at = "write" /\ req[r].seen = "pending" /\ req[r].i \in Invitations
    BY <1>6 DEF CancelPending, At, RequestInv, Good, Used
  <1>8. req[r].i = i /\ inv[i].status = "accepted"
    BY <1>1, <1>6, <1>7 DEF CancelPending
  <1>9. Writes(r)
    BY <1>6, <1>7, WriterMoves DEF CancelPending, Leave
  <1> QED BY <1>7, <1>8, <1>9 DEF Column

\* Only an insertion makes a row that was not in use open.
LEMMA NewRows ==
    ASSUME IInv, [Next]_vars, NEW k \in Invitations \ Used, Open(k)'
    PROVE  \E r \in Requests : CreateInvitation(r)
  <1>1. ASSUME NEW r \in Requests, CancelPending(r) PROVE req[r].i \in Used
    BY <1>1 DEF CancelPending, At, IInv, RequestInv, Good
  <1>2. ASSUME NEW r \in Requests, AcceptAndCreateMember(r) PROVE req[r].i \in Used
    BY <1>2 DEF AcceptAndCreateMember, Accepted, At, IInv, RequestInv, Good
  <1>3. ASSUME NEW u \in Used, NEW s \in {"expired", "canceled", "accepted"},
               inv' = [inv EXCEPT ![u].status = s]
        PROVE  inv'[k] = inv[k]
    BY <1>3 DEF IInv, TypeOK
  <1>4. ASSUME NEW r \in Requests, CancelPending(r) \/ AcceptAndCreateMember(r)
        PROVE  inv'[k] = inv[k]
    BY <1>1, <1>2, <1>3, <1>4 DEF CancelPending, AcceptAndCreateMember, Accepted
  <1>5. ASSUME NEW u \in Invitations, Expire(u) PROVE inv'[k] = inv[k]
    BY <1>3, <1>5 DEF Expire, Open, Used
  <1>6. \/ \E r \in Requests : CreateInvitation(r) \/ CancelPending(r) \/ AcceptAndCreateMember(r)
        \/ \E u \in Invitations : Expire(u)
        \/ UNCHANGED inv
    BY DEF Next, vars, MemberNext, InvitationNext, ListNext, Begin, FindMember, CountOwners,
       Deactivate, UpdateRole, CheckMember, CheckDuplicate, FindPending, FindInvitation,
       Found, IsMember, Forget, RequestFails, ListActive, ListStore, ListExpires
  <1> QED BY <1>4, <1>5, <1>6 DEF Open, Used

\* A second open row comes from an insertion after a search that is overtaken.
LEMMA OneOpen == ASSUME IInv, [Next]_vars PROVE OneOpenStep
  <1> SUFFICES ASSUME NEW i \in Invitations, NEW j \in Invitations, ~BothOpen(i, j), BothOpen(i, j)'
               PROVE  \E r \in Requests :
                          /\ Writes(r)
                          /\ {i, j} \cap Used \cap (Invitations \ req[r].used) # {}
    BY DEF OneOpenStep
  <1>1. \A k \in Used : inv'[k].user = inv[k].user /\ (Open(k)' => Open(k))
    BY RowsGoOn
  <1>2. i # j /\ Open(i)' /\ Open(j)' /\ inv'[i].user = inv'[j].user
    BY DEF BothOpen
  <1>3. ~(i \in Used /\ j \in Used)
    BY <1>1, <1>2 DEF BothOpen
  <1>4. PICK r \in Requests : CreateInvitation(r)
    BY <1>2, <1>3, NewRows
  <1>5. PICK new \in Invitations \ Used :
            inv' = [inv EXCEPT ![new] = [status |-> "pending", user |-> req[r].user,
                                         role |-> req[r].new]]
    BY <1>4 DEF CreateInvitation
  <1>6. /\ \A u \in Invitations \ {new} : inv'[u] = inv[u]
        /\ inv'[new].user = req[r].user
    BY <1>5 DEF IInv, TypeOK
  <1>7. PICK k \in {i, j} : k # new /\ k \in Used /\ new \in {i, j}
    BY <1>2, <1>3, <1>6 DEF Open, Used
  <1>8. Open(k) /\ inv[k].user = req[r].user
    BY <1>2, <1>6, <1>7 DEF Open
  <1>9. req[r].at = "write" /\ \A u \in req[r].used : ~(Open(u) /\ inv[u].user = req[r].user)
    BY <1>4 DEF CreateInvitation, At, IInv, RequestInv, Good
  <1>10. k \notin req[r].used
    BY <1>8, <1>9
  <1>11. Writes(r)
    BY <1>4, <1>9, WriterMoves DEF CreateInvitation, GoToForget
  <1> QED BY <1>7, <1>10, <1>11 DEF Used

\* Who writes a member is about to delete the list.
LEMMA FreshStep == ASSUME IInv, ListIsFresh, [Next]_vars PROVE ListIsFresh'
  <1> USE DEF ListIsFresh, IInv, TypeOK
  <1>1. ASSUME NEW r \in Requests, StepOf(r) PROVE ListIsFresh'
    <2>1. \A k \in Requests \ {r} : req'[k] = req[k]
      BY <1>1, RequestStep
    <2>2. CASE Deactivate(r) \/ UpdateRole(r) \/ AcceptAndCreateMember(r) \/ CreateInvitation(r)
      <3>1. req' = [req EXCEPT ![r] = [Idle EXCEPT !.at = "forget"]]
        BY <2>2 DEF Deactivate, UpdateRole, AcceptAndCreateMember, CreateInvitation, GoToForget
      <3>2. req'[r].at = "forget"
        BY <3>1 DEF Idle
      <3> QED BY <3>2
    <2>3. CASE Forget(r)
      BY <2>3 DEF Forget
    <2>4. CASE RequestFails(r)
      BY <2>1, <2>4 DEF RequestFails, Missed
    <2>5. CASE cached' = cached /\ req[r].at # "forget"
      BY <2>1, <2>5
    <2>6. req[r] = Idle => req[r].at # "forget"
      BY DEF Idle
    <2>7. CASE \/ \E u \in Users : Begin(r, "deactivate", u, "NONE")
               \/ \E u \in Users, new \in Roles : Begin(r, "updateRole", u, new)
               \/ \E u \in Users, new \in Roles : CheckMember(r, u, new)
               \/ \E i \in Invitations : FindPending(r, i) \/ FindInvitation(r, i)
      BY <2>5, <2>6, <2>7 DEF Begin, CheckMember, FindPending, FindInvitation, Found, caches
    <2>8. CASE FindMember(r) \/ CountOwners(r) \/ CheckDuplicate(r) \/ CancelPending(r) \/ IsMember(r)
      BY <2>5, <2>8 DEF FindMember, CountOwners, CheckDuplicate, CancelPending, IsMember, At, caches
    <2> QED BY <1>1, <2>2, <2>3, <2>4, <2>7, <2>8 DEF StepOf, MemberNext, InvitationNext
  <1>2. CASE ListNext
    BY <1>2 DEF ListNext, ListActive, ListStore, ListExpires, Missed
  <1>3. CASE UNCHANGED vars \/ \E i \in Invitations : Expire(i)
    BY <1>3 DEF vars, Expire, caches
  <1> QED BY <1>1, <1>2, <1>3 DEF Next, StepOf

\* The invariant holds in every reachable state.
LEMMA Invariance == Spec => []IInv
  BY WorkspaceInit, IInvStep, PTL DEF Spec

\* Every variable keeps its type; an active member has a role.
THEOREM WorkspaceTypeCorrect == Spec => []TypeOK
  BY Invariance, PTL DEF IInv

\* Whoever removes and demotes whom, the last owner goes only by a write of a
\* request that counted an owner who is gone, or that saw no owner in the member.
THEOREM LastOwnerLeavesByCrossing == Spec => LastOwnerLeaves
  BY LastOwner, Invariance, PTL DEF LastOwnerLeaves, Spec

\* Nobody came by an invitation that ends as canceled, unless it was accepted
\* after the request that cancels it had read it.
THEOREM CanceledInvitationsKeepOut == Spec => CanceledKeepsOut
  BY KeepsOut, Invariance, PTL DEF CanceledKeepsOut, Spec

\* A user has one open invitation, unless the second was inserted after a search
\* that the first overtook.
THEOREM InvitationsAreUnique == Spec => OneOpenInvitation
  BY OneOpen, Invariance, PTL DEF OneOpenInvitation, Spec

\* The request that outdated the cached list of members still deletes it.
THEOREM ListStaysFresh == Spec => []ListIsFresh
  BY WorkspaceInit, FreshStep, Invariance, PTL DEF Spec

-----------------------------------------------------------------------------
(* What one request does to what another has read *)

\* Between its first read and its last write a request is busy; the deletion of
\* the cached list comes after.
Busy(r) == req[r].at \notin {"idle", "forget"}

\* What a request has read is still so.
StillSo(r) ==
    /\ req[r].op \in MemberOps /\ req[r].at \in {"count", "write"} =>
           req[r].seen = role[req[r].user]
    /\ req[r].op \in MemberOps /\ req[r].at = "write" /\ req[r].seen = "OWNER" =>
           req[r].owners = Owners
    /\ req[r].op = "invite" /\ req[r].at = "write" => req[r].used = Used
    /\ req[r].op \in {"cancel", "accept"} => Column(inv[req[r].i].status) = req[r].seen
    /\ req[r].op = "accept" /\ req[r].at = "write" => req[r].user \notin active

\* What a busy request has read is still so after the step, or was not so before
\* it any more, or another busy request takes the step.
OvertakenStep ==
    \A r \in Requests :
        Busy(r)' => \/ StillSo(r)'
                    \/ Busy(r) /\ ~StillSo(r)
                    \/ \E s \in Requests \ {r} : Busy(s) /\ StepOf(s)

\* A step that writes a member or an invitation is one of a busy request; all
\* others leave what requests have read, seven days that pass included.
LEMMA OnlyBusyWrites ==
    ASSUME IInv, [Next]_vars
    PROVE  \/ \E r \in Requests : Busy(r) /\ StepOf(r)
           \/ /\ UNCHANGED members
              /\ Used' = Used
              /\ \A i \in Invitations : Column(inv'[i].status) = Column(inv[i].status)
  <1>1. CASE UNCHANGED <<members, inv>>
    BY <1>1 DEF Used
  <1>2. ASSUME NEW r \in Requests, StepOf(r), ~Busy(r)
        PROVE  UNCHANGED <<members, inv>>
    BY <1>2 DEF Busy, StepOf, MemberNext, InvitationNext, Begin, FindMember, CountOwners,
       Deactivate, UpdateRole, CheckMember, CheckDuplicate, CreateInvitation, FindPending,
       FindInvitation, Found, CancelPending, IsMember, AcceptAndCreateMember, Accepted, At,
       Forget, RequestFails, IInv, RequestInv, Good, members
  <1>3. ASSUME NEW i \in Invitations, Expire(i)
        PROVE  /\ UNCHANGED members
               /\ Used' = Used
               /\ \A k \in Invitations : Column(inv'[k].status) = Column(inv[k].status)
    BY <1>3 DEF Expire, Open, Used, Column, IInv, TypeOK
  <1>4. CASE ListNext \/ UNCHANGED vars
    BY <1>1, <1>4 DEF ListNext, ListActive, ListStore, ListExpires, vars, members
  <1> QED BY <1>1, <1>2, <1>3, <1>4 DEF Next, StepOf

\* The step of a busy request whose reads are so reads what is so.
LEMMA BusyStep ==
    ASSUME IInv, [Next]_vars, NEW r \in Requests, StepOf(r), Busy(r), StillSo(r), Busy(r)'
    PROVE  StillSo(r)'
  <1> USE DEF IInv, TypeOK
  <1>1. StillSo(r) /\ Good(r) /\ req[r] \in Request
    BY DEF RequestInv
  <1>2. req[r] # Idle
    BY DEF Busy, Idle
  <1>3. CASE FindMember(r)
    <2>1. UNCHANGED role /\ req[r].op \in MemberOps /\ req[r].user \in active
      BY <1>3 DEF FindMember, members
    <2>2. req' = [req EXCEPT ![r] = [req[r] EXCEPT !.seen = role[req[r].user],
                        !.at = IF role[req[r].user] = "OWNER" THEN "count" ELSE "write"]]
      BY <1>3 DEF FindMember
    <2> QED BY <1>1, <2>1, <2>2 DEF StillSo, MemberOps, Request
  <1>4. CASE CountOwners(r)
    <2>1. /\ UNCHANGED members /\ req[r].op \in MemberOps /\ req[r].at = "count"
          /\ req' = [req EXCEPT ![r] = [req[r] EXCEPT !.at = "write", !.owners = Owners]]
      BY <1>1, <1>4 DEF CountOwners, Good
    <2>2. Owners' = Owners
      BY <2>1 DEF members, Owners
    <2> HIDE DEF Owners
    <2> QED BY <1>1, <2>1, <2>2 DEF StillSo, MemberOps, Request, members
  <1>5. CASE Deactivate(r) \/ UpdateRole(r) \/ CreateInvitation(r) \/ AcceptAndCreateMember(r)
    <2>1. req' = [req EXCEPT ![r] = [Idle EXCEPT !.at = "forget"]]
      BY <1>5 DEF Deactivate, UpdateRole, CreateInvitation, AcceptAndCreateMember, GoToForget
    <2> QED BY <2>1 DEF Busy, Idle
  <1>8. CASE CancelPending(r) \/ Forget(r) \/ RequestFails(r)
    <2>1. req' = [req EXCEPT ![r] = Idle]
      BY <1>8 DEF CancelPending, Forget, RequestFails, Leave
    <2> QED BY <2>1 DEF Busy, Idle
  <1>9. CASE CheckDuplicate(r)
    <2>1. /\ UNCHANGED inv /\ req[r].op = "invite"
          /\ req' = [req EXCEPT ![r] = [req[r] EXCEPT !.at = "write", !.used = Used]]
      BY <1>9 DEF CheckDuplicate, At
    <2> QED BY <1>1, <2>1 DEF StillSo, MemberOps, Request, Used
  <1>10. CASE IsMember(r)
    <2>1. /\ UNCHANGED <<members, inv>> /\ req[r].op = "accept"
          /\ req[r].user \notin active
          /\ req' = [req EXCEPT ![r] = [req[r] EXCEPT !.at = "write"]]
      BY <1>10 DEF IsMember, At, GoTo
    <2> QED BY <1>1, <2>1 DEF StillSo, MemberOps, Request, members
  <1> QED BY <1>2, <1>3, <1>4, <1>5, <1>8, <1>9, <1>10 DEF StepOf, MemberNext,
     InvitationNext, Begin, CheckMember, FindPending, FindInvitation, Found

\* What an idle request reads first is so.
LEMMA FirstRead ==
    ASSUME IInv, [Next]_vars, NEW r \in Requests, StepOf(r), ~Busy(r), Busy(r)'
    PROVE  StillSo(r)'
  <1>1. req[r] \in Request /\ Good(r)
    BY DEF IInv, TypeOK, RequestInv
  <1>0. req \in [Requests -> Request]
    BY DEF IInv, TypeOK
  <1>2. CASE \E i \in Invitations : FindPending(r, i)
    <2>1. PICK i \in Invitations :
              /\ req' = [req EXCEPT ![r] = [Idle EXCEPT !.op = "cancel", !.at = "write", !.i = i,
                                                       !.seen = Column(inv[i].status)]]
              /\ inv' = inv
      BY <1>2 DEF FindPending, Found
    <2>2. req'[r].op = "cancel" /\ req'[r].i = i /\ req'[r].seen = Column(inv[i].status)
      BY <1>0, <2>1 DEF Idle
    <2> QED BY <2>1, <2>2 DEF StillSo, MemberOps
  <1>3. CASE \E i \in Invitations : FindInvitation(r, i)
    <2>1. PICK i \in Invitations :
              /\ req' = [req EXCEPT ![r] = [Idle EXCEPT !.op = "accept", !.at = "check", !.i = i,
                                                       !.user = inv[i].user, !.new = inv[i].role,
                                                       !.seen = Column(inv[i].status)]]
              /\ inv' = inv
      BY <1>3 DEF FindInvitation, Found
    <2>2. /\ req'[r].op = "accept" /\ req'[r].at = "check" /\ req'[r].i = i
          /\ req'[r].seen = Column(inv[i].status)
      BY <1>0, <2>1 DEF Idle
    <2> QED BY <2>1, <2>2 DEF StillSo, MemberOps
  <1>5. CASE \/ \E u \in Users : Begin(r, "deactivate", u, "NONE")
             \/ \E u \in Users, new \in Roles : Begin(r, "updateRole", u, new)
    <2>1. PICK op \in MemberOps, u \in Users, new \in Roles \cup {"NONE"}, c \in active :
              req' = [req EXCEPT ![r] = [Idle EXCEPT !.op = op, !.at = "find", !.rank = role[c],
                                                       !.user = u, !.new = new]]
      BY <1>5 DEF Begin, MemberOps
    <2>2. req'[r].op \in MemberOps /\ req'[r].at = "find"
      BY <1>0, <2>1 DEF Idle
    <2> QED BY <2>2 DEF StillSo, MemberOps
  <1>6. CASE \E u \in Users, new \in Roles : CheckMember(r, u, new)
    <2>1. PICK u \in Users, new \in Roles :
              req' = [req EXCEPT ![r] = [Idle EXCEPT !.op = "invite", !.at = "check",
                                                       !.user = u, !.new = new]]
      BY <1>6 DEF CheckMember
    <2>2. req'[r].op = "invite" /\ req'[r].at = "check"
      BY <1>0, <2>1 DEF Idle
    <2> QED BY <2>2 DEF StillSo, MemberOps
  <1>4. CASE Forget(r) \/ RequestFails(r)
    BY <1>4 DEF Forget, RequestFails, Leave, Idle, Busy, IInv, TypeOK
  <1> QED BY <1>1, <1>2, <1>3, <1>4, <1>5, <1>6 DEF StepOf, MemberNext, InvitationNext, FindMember,
     CountOwners, Deactivate, UpdateRole, CheckDuplicate, CreateInvitation, CancelPending,
     IsMember, AcceptAndCreateMember, Accepted, At, Busy, Good

\* Whose reads are so may find them overtaken only by a step of another.
LEMMA Overtaken == ASSUME IInv, [Next]_vars PROVE OvertakenStep
  <1> SUFFICES ASSUME NEW r \in Requests, Busy(r)', ~(Busy(r) /\ ~StillSo(r)),
                      \A s \in Requests \ {r} : ~(Busy(s) /\ StepOf(s))
               PROVE  StillSo(r)'
    BY DEF OvertakenStep
  <1>1. CASE StepOf(r)
    BY <1>1, BusyStep, FirstRead
  <1>2. CASE ~StepOf(r)
    <2>1. req'[r] = req[r]
      BY <1>2, RequestStep, RequestsStay
    <2>2. Busy(r) /\ StillSo(r) /\ Good(r)
      BY <2>1 DEF Busy, IInv, RequestInv
    <2>3. /\ UNCHANGED members
          /\ Used' = Used
          /\ \A i \in Invitations : Column(inv'[i].status) = Column(inv[i].status)
      BY <1>2, OnlyBusyWrites
    <2>4. req[r].op \in {"cancel", "accept"} => req[r].i \in Invitations
      BY <2>2 DEF Good, Used
    <2>5. Owners' = Owners
      BY <2>3 DEF members, Owners
    <2> QED BY <2>1, <2>2, <2>3, <2>4, <2>5 DEF StillSo, members
  <1> QED BY <1>1, <1>2

\* The reads of a request are overtaken by another request between its first read
\* and its last write and by nothing else: no deletion of the list, no reader of
\* it and no seven days that pass.  With the three theorems above, what breaks a
\* promise of the organization is always the crossing of two such requests.
THEOREM OnlyRequestsOvertake == Spec => [][OvertakenStep]_vars
  BY Overtaken, Invariance, PTL DEF Spec
=============================================================================
