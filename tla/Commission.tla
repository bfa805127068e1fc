----------------------------- MODULE Commission -----------------------------
(***************************************************************************)
(* Policies and their commissions: a policy is issued from a proposal, its *)
(* commission is created with it, approved twice, paid and perhaps         *)
(* reversed.  Every operation reads a row, checks it in memory and writes  *)
(* it back with no condition on what the row has become meanwhile.         *)
(***************************************************************************)
EXTENDS FiniteSets

CONSTANTS
    Proposals,
    Terms,       \* premium and commission rate of a proposal
    Free,        \* the terms whose rate is zero
    Policies,    \* ids a request to issue gives its policy
    ProposalOf,  \* ProposalOf[k]: the proposal policy k is issued from
    Ids,         \* ids of commissions
    Requests,    \* requests on commissions that may be under way at once
    None

Status == {"PENDING_COMMERCIAL", "PENDING_ADMIN", "APPROVED", "PAID",
           "REVERSED", "REJECTED"}

\* approvedAt, paidAt and rejectedAt are set or null; reverses is
\* originalCommissionId, and negative the sign of the value.
Row == [policy : Policies, terms : Terms, negative : BOOLEAN,
        reverses : Ids \cup {None}, status : Status,
        approved : BOOLEAN, paid : BOOLEAN, rejected : BOOLEAN]

ASSUME CommissionAssumption ==
    /\ Free \subseteq Terms
    /\ ProposalOf \in [Policies -> Proposals]
    /\ None \notin Terms \cup Ids \cup Row

VARIABLES
    terms,       \* terms of a proposal
    seen,        \* the terms a request to issue has read
    issuing,     \* its next await, or how it ended once the policy was there
    policyTerms, \* terms the policy was issued with, None: there is no policy
    commission,  \* row of a commission, None: there is none
    work         \* operation, id and row as read, of a request under way

issueVars == <<terms, seen, issuing, policyTerms>>
vars == <<issueVars, commission, work>>

Ops == {"approveByCommercial", "approveByAdmin", "reject", "markAsPaid",
        "reverse"}

TypeOK ==
    /\ terms \in [Proposals -> Terms]
    /\ seen \in [Policies -> Terms \cup {None}]
    /\ issuing \in [Policies -> {"idle", "policy", "commission", "done", "failed"}]
    /\ policyTerms \in [Policies -> Terms \cup {None}]
    /\ commission \in [Ids -> Row \cup {None}]
    /\ work \in [Requests -> [op : Ops, id : Ids, row : Row] \cup {None}]

Exists(c) == commission[c] # None
Existing == {c \in Ids : Exists(c)}
Originals == {c \in Existing : commission[c].reverses = None}

Init ==
    /\ terms \in [Proposals -> Terms]
    /\ seen = [k \in Policies |-> None]
    /\ issuing = [k \in Policies |-> "idle"]
    /\ policyTerms = [k \in Policies |-> None]
    /\ commission = [c \in Ids |-> None]
    /\ work = [r \in Requests |-> None]

-----------------------------------------------------------------------------
(* IssuePolicy and CreateCommissionForPolicy.                               *)

\* The details of a proposal may be edited at any stage, before and after it
\* was issued.
UpdateDetails(p) ==
    /\ \E t \in Terms : terms' = [terms EXCEPT ![p] = t]
    /\ UNCHANGED <<seen, issuing, policyTerms, commission, work>>

\* Fault: the terms are not taken from what was read.
FindProposalBlind(k) ==
    /\ issuing[k] = "idle"
    /\ issuing' = [issuing EXCEPT ![k] = "policy"]
    /\ UNCHANGED <<terms, seen, policyTerms, commission, work>>

\* proposalRepo.findById, for a proposal in POLICY_ISSUED; randomUUID.
FindProposal(k) ==
    /\ issuing[k] = "idle"
    /\ seen' = [seen EXCEPT ![k] = terms[ProposalOf[k]]]
    /\ issuing' = [issuing EXCEPT ![k] = "policy"]
    /\ UNCHANGED <<terms, policyTerms, commission, work>>

\* Fault: the column proposalId is not unique.
AnyProposal(k) == TRUE

\* The unique key on Policy.proposalId.
Unissued(k) ==
    \A l \in Policies : ProposalOf[l] = ProposalOf[k] => policyTerms[l] = None

CreatePolicy(k) ==
    /\ issuing[k] = "policy"
    /\ Unissued(k)
    /\ policyTerms' = [policyTerms EXCEPT ![k] = seen[k]]
    /\ issuing' = [issuing EXCEPT ![k] = "commission"]
    /\ UNCHANGED <<terms, seen, commission, work>>

NewCommission(k) ==
    [policy |-> k, terms |-> seen[k], negative |-> FALSE, reverses |-> None,
     status |-> "PENDING_COMMERCIAL",
     approved |-> FALSE, paid |-> FALSE, rejected |-> FALSE]

\* The policy's id is known to this request alone: the search for an earlier
\* commission of it and the insert are one step.
CreateCommission(k) ==
    /\ issuing[k] = "commission"
    /\ issuing' = [issuing EXCEPT ![k] = "done"]
    /\ IF seen[k] \in Free \/ \E c \in Originals : commission[c].policy = k
           THEN UNCHANGED commission
           ELSE \E c \in Ids \ Existing :
                    commission' = [commission EXCEPT ![c] = NewCommission(k)]
    /\ UNCHANGED <<terms, seen, policyTerms, work>>

\* A guard refuses, the unique key does, an await throws or the server dies.
\* The policy stays without a commission if it was created.
IssueEnds(k) ==
    /\ \/ /\ issuing[k] = "policy"
          /\ issuing' = [issuing EXCEPT ![k] = "idle"]
       \/ /\ issuing[k] = "commission"
          /\ issuing' = [issuing EXCEPT ![k] = "failed"]
    /\ UNCHANGED <<terms, seen, policyTerms, commission, work>>

-----------------------------------------------------------------------------
(* The operations on one commission.                                        *)

From == [approveByCommercial |-> {"PENDING_COMMERCIAL"},
         approveByAdmin |-> {"PENDING_ADMIN"},
         reject |-> {"PENDING_COMMERCIAL", "PENDING_ADMIN"},
         markAsPaid |-> {"APPROVED"},
         reverse |-> {"PAID"}]

To == [approveByCommercial |-> "PENDING_ADMIN",
       approveByAdmin |-> "APPROVED",
       reject |-> "REJECTED",
       markAsPaid |-> "PAID",
       reverse |-> "REVERSED"]

\* Fault: the domain object does not ask for the status.
FindUnguarded(r, op, c) ==
    /\ work[r] = None
    /\ Exists(c)
    /\ work' = [work EXCEPT ![r] = [op |-> op, id |-> c, row |-> commission[c]]]
    /\ UNCHANGED <<issueVars, commission>>

\* findById and the guard of the domain object.
Find(r, op, c) ==
    /\ work[r] = None
    /\ Exists(c)
    /\ commission[c].status \in From[op]
    /\ work' = [work EXCEPT ![r] = [op |-> op, id |-> c, row |-> commission[c]]]
    /\ UNCHANGED <<issueVars, commission>>

\* Fault: only the columns that the operation changed are written.
WrittenInPart(w) ==
    [commission[w.id] EXCEPT
        !.status = To[w.op],
        !.approved = @ \/ w.op = "approveByAdmin",
        !.paid = @ \/ w.op = "markAsPaid",
        !.rejected = @ \/ w.op = "reject"]

\* The stored row after an update: its status and dates are those of the row
\* that was read, with the change of the operation; the rest is not written.
Written(w) ==
    [commission[w.id] EXCEPT
        !.status = To[w.op],
        !.approved = w.row.approved \/ w.op = "approveByAdmin",
        !.paid = w.row.paid \/ w.op = "markAsPaid",
        !.rejected = w.row.rejected \/ w.op = "reject"]

\* commissionRepo.update: by id, with no condition on the status.
Update(r) ==
    /\ work[r] # None
    /\ work[r].op # "reverse"
    /\ commission' = [commission EXCEPT ![work[r].id] = Written(work[r])]
    /\ work' = [work EXCEPT ![r] = None]
    /\ UNCHANGED issueVars

Reversal(w) ==
    [policy |-> w.row.policy, terms |-> w.row.terms,
     negative |-> ~w.row.negative, reverses |-> w.id,
     status |-> "PENDING_COMMERCIAL",
     approved |-> FALSE, paid |-> FALSE, rejected |-> FALSE]

\* Fault: two updates outside a transaction, and the second may fail.
ReverseInTwoSteps(r) ==
    /\ work[r] # None
    /\ work[r].op = "reverse"
    /\ \E d \in Ids \ Existing :
           \/ commission' = [commission EXCEPT ![work[r].id] = Written(work[r]),
                                               ![d] = Reversal(work[r])]
           \/ commission' = [commission EXCEPT ![work[r].id] = Written(work[r])]
    /\ work' = [work EXCEPT ![r] = None]
    /\ UNCHANGED issueVars

\* One transaction: the original is updated and its reversal created.
ReverseAtomic(r) ==
    /\ work[r] # None
    /\ work[r].op = "reverse"
    /\ \E d \in Ids \ Existing :
           commission' = [commission EXCEPT ![work[r].id] = Written(work[r]),
                                            ![d] = Reversal(work[r])]
    /\ work' = [work EXCEPT ![r] = None]
    /\ UNCHANGED issueVars

\* The write throws, or the server dies before it.
RequestEnds(r) ==
    /\ work[r] # None
    /\ work' = [work EXCEPT ![r] = None]
    /\ UNCHANGED <<issueVars, commission>>

-----------------------------------------------------------------------------
Next ==
    \/ \E p \in Proposals : UpdateDetails(p)
    \/ \E k \in Policies : \/ FindProposal(k) \/ CreatePolicy(k)
                           \/ CreateCommission(k) \/ IssueEnds(k)
    \/ \E r \in Requests : \/ \E op \in Ops, c \in Ids : Find(r, op, c)
                           \/ Update(r) \/ ReverseAtomic(r) \/ RequestEnds(r)

Spec == Init /\ [][Next]_vars

-----------------------------------------------------------------------------
(* Properties *)

\* Whatever requests overlap, the dates of a commission are those of its
\* status: paid only with an approval, rejected only without one.
DatesFitStatus ==
    \A c \in Existing :
        LET row == commission[c] IN
        /\ row.approved <=> row.status \in {"APPROVED", "PAID", "REVERSED"}
        /\ row.paid <=> row.status \in {"PAID", "REVERSED"}
        /\ row.rejected <=> row.status = "REJECTED"

HasCommission(k) == \E c \in Originals : commission[c].policy = k

\* Two requests to issue the same proposal leave one policy and one commission,
\* for the terms of the policy even if the proposal is edited meanwhile.  Terms
\* that are not free have the commission exactly if the request that created the
\* policy came to its end: if it failed after that there is none, and no other
\* request makes up for it.
OneCommission ==
    /\ \A c, d \in Originals :
           ProposalOf[commission[c].policy] = ProposalOf[commission[d].policy]
               => c = d
    /\ \A c \in Existing : commission[c].terms = policyTerms[commission[c].policy]
    /\ \A k \in Policies :
           HasCommission(k) <=> issuing[k] = "done" /\ policyTerms[k] \notin Free

Stale(r) == work[r].row # commission[work[r].id]

LifecycleStep ==
    \A c \in Existing :
        \/ commission'[c] = commission[c]
        \/ \E op \in Ops : commission[c].status \in From[op] /\ commission'[c].status = To[op]
        \/ \E r \in Requests : /\ work[r] # None /\ work'[r] = None
                               /\ work[r].id = c /\ Stale(r)

\* A commission is approved twice, paid once, reversed or rejected in the order of
\* its life; a step out of it, a second payment or a payment of what is reversed,
\* is the write of a request whose row another one has written since.
Lifecycle == [][LifecycleStep]_vars

\* A commission is REVERSED only together with a row that takes its value back,
\* and a row is a reversal only of the opposite value of the same policy.
ReversedIsBalanced ==
    /\ \A c \in Existing : commission[c].status = "REVERSED" =>
           \E d \in Existing : commission[d].reverses = c
    /\ \A d \in Existing \ Originals :
           LET c == commission[d].reverses IN
           /\ Exists(c)
           /\ commission[c].negative # commission[d].negative
           /\ commission[c].policy = commission[d].policy
=============================================================================
