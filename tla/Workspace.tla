------------------------------ MODULE Workspace ------------------------------
(***************************************************************************)
(* The members of an organization, its invitations and the cached list of  *)
(* its members.  A request checks the caller's role, reads the member or   *)
(* the invitation it is about, checks what it read, and writes by id with  *)
(* no condition left in the write; then it deletes the cached list.  Every *)
(* read and write is a statement of its own, and a request may die between *)
(* two of them.                                                            *)
(***************************************************************************)
EXTENDS Naturals, FiniteSets

CONSTANTS
    Users,       \* who is or may become a member
    Roles,       \* the roles in use: all five, or some of them in a small instance
    Founder,     \* the owner the organization was created with
    Invitations, \* rows of the invitation table, used or not
    Requests,    \* HTTP requests in progress
    Readers,     \* requests in progress for the list of members
    None

ASSUME WorkspaceAssumption ==
    /\ Founder \in Users
    /\ {"OWNER", "ADMIN"} \subseteq Roles
    /\ Roles \subseteq {"OWNER", "ADMIN", "MANAGER", "COMMERCIAL", "VIEWER"}
    /\ IsFiniteSet(Users)
    /\ None \notin Users \cup Invitations

VARIABLES
    role,        \* member.role, "NONE" without a row
    active,      \* users whose member row is active
    inv,         \* the invitation rows
    req,         \* per request: what it does and what it has read
    cached,      \* the list in Redis: none, the members of now, of some time ago,
                 \* or of some time ago and nobody is to delete it any more
    list,        \* the same of what a reader has from the database
    admitted     \* invitations that made somebody a member

members == <<role, active>>
caches == <<cached, list>>
vars == <<members, inv, req, caches, admitted>>

MEMBER_ROLE_HIERARCHY ==
    [OWNER |-> 5, ADMIN |-> 4, MANAGER |-> 3, COMMERCIAL |-> 2, VIEWER |-> 1]

Owners == {u \in active : role[u] = "OWNER"}

\* A row whose expiresAt has passed is still pending in the column.
Statuses == {"unused", "pending", "expired", "accepted", "canceled"}
Column(status) == IF status = "expired" THEN "pending" ELSE status

Invitation == [status: Statuses, user: Users \cup {None}, role: Roles \cup {"NONE"}]
Unused == [status |-> "unused", user |-> None, role |-> "NONE"]

MemberOps == {"deactivate", "updateRole"}
Ops == MemberOps \cup {"invite", "cancel", "accept"}
Points == {"idle", "find", "count", "check", "write", "forget"}
Request == [op: Ops \cup {"none"}, at: Points,
            rank: Roles \cup {"NONE"},     \* request.role, of the middleware
            user: Users \cup {None},      \* the member, or the invited user
            i: Invitations \cup {None},   \* the invitation
            new: Roles \cup {"NONE"},      \* the role to be given
            seen: Roles \cup Statuses \cup {"NONE"},   \* role or status that was read
            owners: SUBSET Users,         \* the owners that were counted
            used: SUBSET Invitations]     \* invitations there when duplicates were sought
Idle == [op |-> "none", at |-> "idle", rank |-> "NONE", user |-> None, i |-> None,
         new |-> "NONE", seen |-> "NONE", owners |-> {}, used |-> {}]

TypeOK ==
    /\ role \in [Users -> Roles \cup {"NONE"}]
    /\ active \subseteq {u \in Users : role[u] # "NONE"}
    /\ inv \in [Invitations -> Invitation]
    /\ req \in [Requests -> Request]
    /\ cached \in {"none", "current", "stale", "missed"}
    /\ list \in [Readers -> {"none", "current", "stale"}]
    /\ admitted \subseteq Invitations

Init ==
    /\ role = [u \in Users |-> IF u = Founder THEN "OWNER" ELSE "NONE"]
    /\ active = {Founder}
    /\ inv = [i \in Invitations |-> Unused]
    /\ req = [r \in Requests |-> Idle]
    /\ cached = "none"
    /\ list = [l \in Readers |-> "none"]
    /\ admitted = {}

-----------------------------------------------------------------------------
(* Steps of every request *)

At(r, op, at) == req[r].op = op /\ req[r].at = at
GoTo(r, at) == req' = [req EXCEPT ![r].at = at]
GoToForget(r) == req' = [req EXCEPT ![r] = [Idle EXCEPT !.at = "forget"]]
Leave(r) == req' = [req EXCEPT ![r] = Idle]

\* An answer of now becomes one of some time ago.
Age(answer) == IF answer = "current" THEN "stale" ELSE answer

MembersChange ==
    /\ cached' = Age(cached)
    /\ list' = [l \in Readers |-> Age(list[l])]

Missed(answer) == IF answer = "stale" THEN "missed" ELSE answer

\* An await throws or the server dies, or Redis does not delete the list, which
\* is only logged.
RequestFails(r) ==
    /\ req[r].at # "idle"
    /\ Leave(r)
    /\ cached' = IF req[r].at = "forget" THEN Missed(cached) ELSE cached
    /\ UNCHANGED <<members, inv, list, admitted>>

Forget(r) ==
    /\ req[r].at = "forget"
    /\ Leave(r)
    /\ cached' = "none"
    /\ UNCHANGED <<members, inv, list, admitted>>

-----------------------------------------------------------------------------
(* DeactivateMember and UpdateMemberRole *)

Level(r) == MEMBER_ROLE_HIERARCHY[r]

\* tenantMiddleware reads the caller's role and requireAbility checks it; what
\* is asked of the caller and the new role alone is checked here as well.
Begin(r, op, u, new) ==
    /\ req[r] = Idle
    /\ \E c \in active \ {u} :
          /\ role[c] \in {"OWNER", "ADMIN"}
          /\ op = "updateRole" => Level(role[c]) >= Level(new)
          /\ req' = [req EXCEPT ![r] = [Idle EXCEPT !.op = op, !.at = "find", !.rank = role[c],
                                                   !.user = u, !.new = new]]
    /\ UNCHANGED <<members, inv, caches, admitted>>

\* findById of an active member whom the caller equals or outranks
FindMember(r) ==
    LET u == req[r].user IN
    /\ req[r].op \in MemberOps /\ req[r].at = "find"
    /\ u \in active
    /\ Level(req[r].rank) >= Level(role[u])
    /\ req' = [req EXCEPT ![r].seen = role[u],
                          ![r].at = IF role[u] = "OWNER" THEN "count" ELSE "write"]
    /\ UNCHANGED <<members, inv, caches, admitted>>

\* Fault: the owner in question is forgotten in the count.
CountAnyOwner(r) ==
    /\ req[r].at = "count" /\ Cardinality(Owners) >= 1
    /\ req' = [req EXCEPT ![r].at = "write", ![r].owners = Owners]
    /\ UNCHANGED <<members, inv, caches, admitted>>

CountOwners(r) ==
    /\ req[r].at = "count" /\ Cardinality(Owners) > 1
    /\ req' = [req EXCEPT ![r].at = "write", ![r].owners = Owners]
    /\ UNCHANGED <<members, inv, caches, admitted>>

Deactivate(r) ==
    /\ At(r, "deactivate", "write")
    /\ active' = active \ {req[r].user}
    /\ GoToForget(r)
    /\ MembersChange
    /\ UNCHANGED <<role, inv, admitted>>

UpdateRole(r) ==
    /\ At(r, "updateRole", "write")
    /\ role' = [role EXCEPT ![req[r].user] = req[r].new]
    /\ GoToForget(r)
    /\ MembersChange
    /\ UNCHANGED <<active, inv, admitted>>

-----------------------------------------------------------------------------
(* CreateInvitation, CancelInvitation and AcceptInvitation *)

Used == {i \in Invitations : inv[i].status # "unused"}
Open(i) == inv[i].status = "pending"

\* Whoever asks had the rights when the middleware looked, which was before and
\* is not asked again: here and below any request may be such a one.  The role
\* offered is below the caller's, so never OWNER; no member has the address.
CheckMember(r, u, new) ==
    /\ req[r] = Idle
    /\ Level(new) < Level("OWNER")
    /\ u \notin active
    /\ req' = [req EXCEPT ![r] = [Idle EXCEPT !.op = "invite", !.at = "check",
                                                 !.user = u, !.new = new]]
    /\ UNCHANGED <<members, inv, caches, admitted>>

\* Fault: an invitation that is open does not count as a duplicate.
NoDuplicateCheck(r) ==
    /\ At(r, "invite", "check")
    /\ req' = [req EXCEPT ![r].at = "write", ![r].used = Used]
    /\ UNCHANGED <<members, inv, caches, admitted>>

CheckDuplicate(r) ==
    /\ At(r, "invite", "check")
    /\ \A i \in Invitations : ~(Open(i) /\ inv[i].user = req[r].user)
    /\ req' = [req EXCEPT ![r].at = "write", ![r].used = Used]
    /\ UNCHANGED <<members, inv, caches, admitted>>

\* The row, the mail, and the list is deleted although no member has changed.
CreateInvitation(r) ==
    /\ At(r, "invite", "write")
    /\ \E i \in Invitations \ Used :
          inv' = [inv EXCEPT ![i] = [status |-> "pending", user |-> req[r].user,
                                     role |-> req[r].new]]
    /\ GoToForget(r)
    /\ UNCHANGED <<members, caches, admitted>>

\* Seven days pass.
Expire(i) ==
    /\ Open(i)
    /\ inv' = [inv EXCEPT ![i].status = "expired"]
    /\ UNCHANGED <<members, req, caches, admitted>>

Found(r, new) ==
    /\ req[r] = Idle
    /\ req' = [req EXCEPT ![r] = new]
    /\ UNCHANGED <<members, inv, caches, admitted>>

\* Fault: any invitation of the organization is found.
FindAnyToCancel(r, i) ==
    /\ inv[i].status # "unused"
    /\ Found(r, [Idle EXCEPT !.op = "cancel", !.at = "write", !.i = i, !.seen = Column(inv[i].status)])

FindPending(r, i) ==
    /\ Column(inv[i].status) = "pending"
    /\ Found(r, [Idle EXCEPT !.op = "cancel", !.at = "write", !.i = i, !.seen = Column(inv[i].status)])

CancelPending(r) ==
    /\ At(r, "cancel", "write")
    /\ inv' = [inv EXCEPT ![req[r].i].status = "canceled"]
    /\ Leave(r)
    /\ UNCHANGED <<members, caches, admitted>>

\* The invited user signed in with the link.
FindInvitation(r, i) ==
    /\ Open(i)
    /\ Found(r, [Idle EXCEPT !.op = "accept", !.at = "check", !.i = i, !.user = inv[i].user,
                            !.new = inv[i].role, !.seen = Column(inv[i].status)])

IsMember(r) ==
    /\ At(r, "accept", "check")
    /\ req[r].user \notin active
    /\ GoTo(r, "write")
    /\ UNCHANGED <<members, inv, caches, admitted>>

\* What both rows become, whatever they are by now.
Accepted(r) ==
    /\ At(r, "accept", "write")
    /\ active' = active \cup {req[r].user}
    /\ inv' = [inv EXCEPT ![req[r].i].status = "accepted"]
    /\ admitted' = admitted \cup {req[r].i}
    /\ MembersChange

\* Fault: the cached list is left to expire.
AcceptKeepsList(r) ==
    /\ Accepted(r)
    /\ role' = [role EXCEPT ![req[r].user] = req[r].new]
    /\ Leave(r)

\* Fault: a row that is not there is not created.
AcceptUpdatesMember(r) ==
    /\ Accepted(r)
    /\ role' = role
    /\ GoToForget(r)

\* The transaction of the member's row, created or revived, and the invitation.
AcceptAndCreateMember(r) ==
    /\ Accepted(r)
    /\ role' = [role EXCEPT ![req[r].user] = req[r].new]
    /\ GoToForget(r)

-----------------------------------------------------------------------------
(* ListMembers: the list of Redis, or that of the database, which is stored. *)

\* Redis has no list, or does not answer.
ListActive(l) ==
    /\ list[l] = "none"
    /\ list' = [list EXCEPT ![l] = "current"]
    /\ UNCHANGED <<members, inv, req, cached, admitted>>

\* Redis may fail to store it.
ListStore(l) ==
    /\ list[l] # "none"
    /\ cached' \in {cached, Missed(list[l])}
    /\ list' = [list EXCEPT ![l] = "none"]
    /\ UNCHANGED <<members, inv, req, admitted>>

\* MEMBER_LIST_CACHE_TTL_SECONDS pass.
ListExpires ==
    /\ cached # "none"
    /\ cached' = "none"
    /\ UNCHANGED <<members, inv, req, list, admitted>>

-----------------------------------------------------------------------------
MemberNext(r) ==
    \/ \E u \in Users : Begin(r, "deactivate", u, "NONE")
    \/ \E u \in Users, new \in Roles : Begin(r, "updateRole", u, new)
    \/ FindMember(r) \/ CountOwners(r) \/ Deactivate(r) \/ UpdateRole(r)

InvitationNext(r) ==
    \/ \E u \in Users, new \in Roles : CheckMember(r, u, new)
    \/ \E i \in Invitations : FindPending(r, i) \/ FindInvitation(r, i)
    \/ CheckDuplicate(r) \/ CreateInvitation(r) \/ CancelPending(r)
    \/ IsMember(r) \/ AcceptAndCreateMember(r)

ListNext ==
    \/ \E l \in Readers : ListActive(l) \/ ListStore(l)
    \/ ListExpires

Next ==
    \/ \E r \in Requests : MemberNext(r) \/ InvitationNext(r) \/ Forget(r) \/ RequestFails(r)
    \/ \E i \in Invitations : Expire(i)
    \/ ListNext

Spec == Init /\ [][Next]_vars

-----------------------------------------------------------------------------
(* Properties *)

\* The write of request r: an update by id of what it read some steps ago.
Writes(r) == req[r].at = "write" /\ req'[r] # req[r]

LastOwnerStep ==
    Owners # {} /\ Owners' = {} =>
        \E r \in Requests :
            /\ Writes(r)
            /\ \/ req[r].owners \ Owners # {}
               \/ req[r].seen # "OWNER" /\ req[r].user \in Owners

\* The last owner goes only by the write of a request that counted another owner,
\* whom somebody else has removed or demoted since, or that took the member for
\* none.  Whenever and however often requests crossed before excuses nothing.
LastOwnerLeaves == [][LastOwnerStep]_vars

AdmittedAndCanceled(i) == i \in admitted /\ inv[i].status = "canceled"

KeepsOutStep ==
    \A i \in Invitations :
        ~AdmittedAndCanceled(i) /\ AdmittedAndCanceled(i)' =>
            \E r \in Requests :
                /\ Writes(r)
                /\ req[r].i = i
                /\ Column(inv[i].status) # req[r].seen

\* A canceled invitation lets nobody in, unless the very request that cancels or
\* accepts it read it before another one accepted or canceled it.
CanceledKeepsOut == [][KeepsOutStep]_vars

BothOpen(i, j) == i # j /\ Open(i) /\ Open(j) /\ inv[i].user = inv[j].user

OneOpenStep ==
    \A i, j \in Invitations :
        ~BothOpen(i, j) /\ BothOpen(i, j)' =>
            \E r \in Requests :
                /\ Writes(r)
                /\ {i, j} \cap Used \cap (Invitations \ req[r].used) # {}

\* A user gets a second open invitation only when the first one was inserted
\* after the request for the second had searched for duplicates.
OneOpenInvitation == [][OneOpenStep]_vars

\* A list in Redis that a write has outdated is still to be deleted by somebody,
\* unless the deletion failed or a reader stored what it had read before.
ListIsFresh == cached = "stale" => \E r \in Requests : req[r].at = "forget"

\* Not true of the code, which counts the owners and then writes by id.  The
\* documents say that nobody can remove the owner of an organization.
AlwaysOwned == Owners # {}
=============================================================================
