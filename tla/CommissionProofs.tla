-------------------------- MODULE CommissionProofs --------------------------
(***************************************************************************)
(* The invariants of Commission for every number of proposals, policies,   *)
(* commissions and overlapping requests.                                    *)
(***************************************************************************)
EXTENDS Commission, TLAPS

\* The dates of one row.
Fits(row) ==
    /\ row.approved <=> row.status \in {"APPROVED", "PAID", "REVERSED"}
    /\ row.paid <=> row.status \in {"PAID", "REVERSED"}
    /\ row.rejected <=> row.status = "REJECTED"

\* What no operation writes.
SameRow(a, b) ==
    /\ a.policy = b.policy
    /\ a.terms = b.terms
    /\ a.negative = b.negative
    /\ a.reverses = b.reverses

\* A request under way holds a row as it once was: its status lets the
\* operation start, its dates fit, and all else is still so.
WorkInv ==
    \A r \in Requests : work[r] # None =>
        /\ Exists(work[r].id)
        /\ work[r].row.status \in From[work[r].op]
        /\ Fits(work[r].row)
        /\ SameRow(work[r].row, commission[work[r].id])

\* A request to issue holds the terms it read, and once it created the policy
\* the policy has them; a proposal has one policy; a commission has a policy, and
\* how far its request came is known.
IssueInv ==
    /\ \A k \in Policies : issuing[k] # "idle" => seen[k] \in Terms
    /\ \A k \in Policies : issuing[k] = "commission" => policyTerms[k] = seen[k]
    /\ \A k, l \in Policies :
           /\ ProposalOf[k] = ProposalOf[l]
           /\ policyTerms[k] # None
           /\ policyTerms[l] # None
           => k = l
    /\ \A c \in Existing : policyTerms[commission[c].policy] # None
    /\ \A k \in Policies :
           policyTerms[k] # None <=> issuing[k] \in {"commission", "done", "failed"}

IInv ==
    /\ TypeOK
    /\ DatesFitStatus
    /\ WorkInv
    /\ IssueInv
    /\ OneCommission
    /\ ReversedIsBalanced

-----------------------------------------------------------------------------
(* The rows that the operations write.                                      *)

\* An update gives the status and the dates that fit it and keeps the rest.
LEMMA WrittenRow ==
    ASSUME TypeOK, WorkInv, NEW r \in Requests, work[r] # None
    PROVE  LET row == Written(work[r]) IN
           /\ row \in Row
           /\ Fits(row)
           /\ row.status = To[work[r].op]
           /\ SameRow(row, commission[work[r].id])
<1> DEFINE w == work[r]
           old == commission[w.id]
<1>1. /\ w \in [op : Ops, id : Ids, row : Row]
      /\ old \in Row
      /\ w.row.status \in From[w.op]
      /\ Fits(w.row)
  BY DEF TypeOK, WorkInv, Exists
<1>2. PICK op \in Ops, was \in Row, now \in Row :
         op = w.op /\ was = w.row /\ now = old
  BY <1>1
<1> DEFINE new == [now EXCEPT !.status = To[op],
                              !.approved = was.approved \/ op = "approveByAdmin",
                              !.paid = was.paid \/ op = "markAsPaid",
                              !.rejected = was.rejected \/ op = "reject"]
<1>3. Written(w) = new
  BY <1>2 DEF Written
<1>4. was.status \in From[op] /\ Fits(was)
  BY <1>1, <1>2
<1>5. To[op] \in Status
  BY DEF To, Ops, Status
<1>6. new \in Row
  BY <1>5 DEF Row
<1>7. /\ new.status = To[op]
      /\ new.approved <=> (was.approved \/ op = "approveByAdmin")
      /\ new.paid <=> (was.paid \/ op = "markAsPaid")
      /\ new.rejected <=> (was.rejected \/ op = "reject")
      /\ SameRow(new, now)
  BY <1>5 DEF Row, SameRow
<1> HIDE DEF new
<1>8. Fits(new)
  <2>1. CASE op = "approveByCommercial"
    BY <1>4, <1>7, <2>1 DEF Fits, From, To
  <2>2. CASE op = "approveByAdmin"
    BY <1>4, <1>7, <2>2 DEF Fits, From, To
  <2>3. CASE op = "reject"
    BY <1>4, <1>7, <2>3 DEF Fits, From, To
  <2>4. CASE op = "markAsPaid"
    BY <1>4, <1>7, <2>4 DEF Fits, From, To
  <2>5. CASE op = "reverse"
    BY <1>4, <1>7, <2>5 DEF Fits, From, To
  <2> QED BY <2>1, <2>2, <2>3, <2>4, <2>5 DEF Ops
<1> QED BY <1>2, <1>3, <1>6, <1>7, <1>8

\* The reversal of a stored row has its policy and the opposite value.
LEMMA ReversalRow ==
    ASSUME TypeOK, WorkInv, NEW r \in Requests, work[r] # None
    PROVE  LET row == Reversal(work[r]) IN
           /\ row \in Row
           /\ Fits(row)
           /\ row.status = "PENDING_COMMERCIAL"
           /\ row.reverses = work[r].id
           /\ row.policy = commission[work[r].id].policy
           /\ row.terms = commission[work[r].id].terms
           /\ row.negative # commission[work[r].id].negative
<1>1. /\ work[r] \in [op : Ops, id : Ids, row : Row]
      /\ SameRow(work[r].row, commission[work[r].id])
  BY DEF TypeOK, WorkInv
<1>2. Reversal(work[r]) \in Row /\ Fits(Reversal(work[r]))
  BY <1>1 DEF Reversal, Row, Fits, Status
<1> QED BY <1>1, <1>2 DEF Reversal, SameRow, Row

-----------------------------------------------------------------------------
(* Initially, and step by step.                                              *)

\* With no policy and no commission the invariant holds.
LEMMA CommissionStart == ASSUME Init PROVE IInv
BY CommissionAssumption
DEF Init, IInv, TypeOK, DatesFitStatus, WorkInv, IssueInv, OneCommission, HasCommission,
    ReversedIsBalanced, Existing, Originals, Exists

\* A step that writes neither commissions nor policies' terms.
LEMMA Untouched ==
    ASSUME IInv, UNCHANGED commission
    PROVE  DatesFitStatus' /\ ReversedIsBalanced'
BY DEF IInv, DatesFitStatus, ReversedIsBalanced, Existing, Originals, Exists

\* Editing a proposal touches nothing that was issued.
LEMMA UpdateDetailsKeeps ==
    ASSUME IInv, NEW p \in Proposals, UpdateDetails(p)
    PROVE  IInv'
<1>1. DatesFitStatus' /\ ReversedIsBalanced'
  BY Untouched DEF UpdateDetails
<1>2. TypeOK'
  BY DEF IInv, UpdateDetails, TypeOK
<1>3. WorkInv' /\ IssueInv' /\ OneCommission'
  BY DEF IInv, UpdateDetails, WorkInv, IssueInv, OneCommission, HasCommission, Existing,
         Originals, Exists
<1> QED BY <1>1, <1>2, <1>3 DEF IInv

\* A request to issue reads terms, and its policy does not exist yet.
LEMMA FindProposalKeeps ==
    ASSUME IInv, NEW k \in Policies, FindProposal(k)
    PROVE  IInv'
<1>1. DatesFitStatus' /\ ReversedIsBalanced'
  BY Untouched DEF FindProposal
<1>2. terms[ProposalOf[k]] \in Terms
  BY CommissionAssumption DEF IInv, TypeOK
<1>3. TypeOK'
  BY <1>2 DEF IInv, FindProposal, TypeOK
<1>4. WorkInv' /\ OneCommission'
  BY DEF IInv, FindProposal, WorkInv, OneCommission, HasCommission, Existing, Originals, Exists
<1>5. IssueInv'
  BY <1>2 DEF IInv, TypeOK, FindProposal, IssueInv, Existing, Exists
<1> QED BY <1>1, <1>3, <1>4, <1>5 DEF IInv

\* The unique key gives a proposal one policy, with the terms that were read.
LEMMA CreatePolicyKeeps ==
    ASSUME IInv, NEW k \in Policies, CreatePolicy(k)
    PROVE  IInv'
<1>1. DatesFitStatus' /\ ReversedIsBalanced'
  BY Untouched DEF CreatePolicy
<1>2. seen[k] \in Terms /\ seen[k] # None /\ policyTerms[k] = None
  BY CommissionAssumption DEF IInv, IssueInv, CreatePolicy, Unissued
<1>3. TypeOK'
  BY <1>2 DEF IInv, CreatePolicy, TypeOK
<1>4. WorkInv'
  BY DEF IInv, CreatePolicy, WorkInv, Exists
<1>5. \A l \in Policies : l # k => policyTerms'[l] = policyTerms[l]
  BY DEF IInv, TypeOK, CreatePolicy
<1>6. policyTerms'[k] = seen[k]
  BY DEF IInv, TypeOK, CreatePolicy
<1>7. IssueInv'
  BY <1>2, <1>5, <1>6
  DEF IInv, TypeOK, CreatePolicy, Unissued, IssueInv, Existing, Exists
<1>8. OneCommission'
  <2>1. \A c \in Existing :
            /\ commission[c].policy \in Policies
            /\ commission[c].policy # k
    BY <1>2 DEF IInv, IssueInv, TypeOK, Existing, Exists, Row
  <2>2. Existing' = Existing /\ Originals' = Originals
    BY DEF CreatePolicy, Existing, Originals, Exists
  <2>3. ~HasCommission(k) /\ \A l \in Policies : HasCommission(l)' <=> HasCommission(l)
    BY <2>1, <2>2 DEF HasCommission, Originals, CreatePolicy
  <2>4. \A l \in Policies : issuing'[l] = IF l = k THEN "commission" ELSE issuing[l]
    BY DEF IInv, TypeOK, CreatePolicy
  <2>5. \A l \in Policies :
            HasCommission(l)' <=> issuing'[l] = "done" /\ policyTerms'[l] \notin Free
    BY <2>3, <2>4, <1>5 DEF IInv, OneCommission
  <2>6. /\ \A c, d \in Originals' :
              ProposalOf[commission'[c].policy] = ProposalOf[commission'[d].policy] => c = d
        /\ \A c \in Existing' : commission'[c].terms = policyTerms'[commission'[c].policy]
    BY <2>1, <2>2, <1>5 DEF IInv, OneCommission, CreatePolicy
  <2> QED BY <2>5, <2>6 DEF OneCommission
<1> QED BY <1>1, <1>3, <1>4, <1>7, <1>8 DEF IInv

\* A request that ends leaves what it wrote.
LEMMA IssueEndsKeeps ==
    ASSUME IInv, NEW k \in Policies, IssueEnds(k)
    PROVE  IInv'
<1>1. DatesFitStatus' /\ ReversedIsBalanced'
  BY Untouched DEF IssueEnds
<1>2. TypeOK'
  BY DEF IInv, IssueEnds, TypeOK
<1>3. WorkInv' /\ OneCommission'
  BY DEF IInv, TypeOK, IssueEnds, WorkInv, OneCommission, HasCommission, Existing,
         Originals, Exists
<1>4. IssueInv'
  BY DEF IInv, TypeOK, IssueEnds, IssueInv, Existing, Exists
<1> QED BY <1>1, <1>2, <1>3, <1>4 DEF IInv

\* The first commission of a policy, the only one of its proposal.
LEMMA CreateCommissionKeeps ==
    ASSUME IInv, NEW k \in Policies, CreateCommission(k)
    PROVE  IInv'
<1>1. CASE UNCHANGED commission
  <2>1. DatesFitStatus' /\ ReversedIsBalanced'
    BY <1>1, Untouched
  <2>2. TypeOK'
    BY <1>1 DEF IInv, CreateCommission, TypeOK
  <2>3. WorkInv'
    BY <1>1 DEF IInv, CreateCommission, WorkInv, Exists
  <2>5. policyTerms[k] \in Free
    <3>1. /\ issuing[k] = "commission" /\ policyTerms[k] = seen[k] /\ seen[k] \in Terms
          /\ ~\E c \in Originals : commission[c].policy = k
      BY DEF IInv, CreateCommission, IssueInv, OneCommission, HasCommission
    <3>2. ASSUME NEW d \in Ids \ Existing,
                 commission' = [commission EXCEPT ![d] = NewCommission(k)]
          PROVE  FALSE
      <4>1. NewCommission(k) \in Row
        BY <3>1 DEF NewCommission, Row, Status
      <4>2. commission[d] = None /\ NewCommission(k) # None
        BY <3>2, <4>1, CommissionAssumption DEF Existing, Exists
      <4> QED BY <1>1, <3>2, <4>2 DEF IInv, TypeOK
    <3> QED BY <3>1, <3>2 DEF CreateCommission
  <2>6. /\ issuing' = [issuing EXCEPT ![k] = "done"] /\ UNCHANGED <<policyTerms, commission>>
        /\ issuing[k] = "commission"
    BY <1>1 DEF CreateCommission
  <2>7. OneCommission'
    BY <2>5, <2>6 DEF IInv, TypeOK, OneCommission, HasCommission, Existing, Originals, Exists
  <2>4. IssueInv'
    BY <1>1 DEF IInv, TypeOK, CreateCommission, IssueInv, Existing, Exists
  <2> QED BY <2>1, <2>2, <2>3, <2>4, <2>7 DEF IInv
<1>2. CASE ~UNCHANGED commission
  <2>1. PICK d \in Ids \ Existing :
            commission' = [commission EXCEPT ![d] = NewCommission(k)]
    BY <1>2 DEF CreateCommission
  <2>2. /\ issuing[k] = "commission"
        /\ \A c \in Originals : commission[c].policy # k
        /\ UNCHANGED <<terms, seen, policyTerms, work>>
        /\ issuing' = [issuing EXCEPT ![k] = "done"] /\ seen[k] \notin Free
    BY <1>2 DEF CreateCommission
  <2>3. seen[k] \in Terms /\ seen[k] = policyTerms[k] /\ policyTerms[k] # None
    BY <2>2, CommissionAssumption DEF IInv, IssueInv
  <2> DEFINE new == NewCommission(k)
  <2>4. /\ new \in Row /\ Fits(new) /\ new.reverses = None /\ new.policy = k
        /\ new.terms = policyTerms[k] /\ new.status = "PENDING_COMMERCIAL"
    BY <2>3 DEF NewCommission, Row, Fits, Status
  <2>5. new # None
    BY <2>4, CommissionAssumption
  <2>6. /\ commission' = [commission EXCEPT ![d] = new]
        /\ \A c \in Existing : Exists(c)' /\ commission'[c] = commission[c]
        /\ commission'[d] = new
        /\ Existing' = Existing \cup {d}
        /\ Originals' = Originals \cup {d}
    BY <2>1, <2>4, <2>5 DEF IInv, TypeOK, Existing, Originals, Exists
  <2> HIDE DEF new
  <2>7. TypeOK'
    BY <2>2, <2>4, <2>6 DEF IInv, TypeOK
  <2>8. DatesFitStatus'
    BY <2>4, <2>6 DEF IInv, DatesFitStatus, Fits
  <2>9. WorkInv'
    BY <2>2, <2>6 DEF IInv, TypeOK, WorkInv, Existing
  <2>10. IssueInv'
    BY <2>2, <2>3, <2>4, <2>6 DEF IInv, TypeOK, IssueInv
  <2>11. OneCommission'
    <3>1. \A c \in Originals : ProposalOf[commission[c].policy] # ProposalOf[k]
      BY <2>2, <2>3 DEF IInv, IssueInv, TypeOK, Originals, Existing, Exists, Row
    <3>2. \A l \in Policies : HasCommission(l)' <=> HasCommission(l) \/ l = k
      BY <2>4, <2>6 DEF HasCommission, Originals
    <3>3. \A l \in Policies : issuing'[l] = IF l = k THEN "done" ELSE issuing[l]
      BY <2>2 DEF IInv, TypeOK
    <3>4. \A l \in Policies :
              HasCommission(l)' <=> issuing'[l] = "done" /\ policyTerms'[l] \notin Free
      BY <3>2, <3>3, <2>2, <2>3 DEF IInv, OneCommission
    <3>5. /\ \A c, e \in Originals' :
                ProposalOf[commission'[c].policy] = ProposalOf[commission'[e].policy] => c = e
          /\ \A c \in Existing' : commission'[c].terms = policyTerms'[commission'[c].policy]
      BY <3>1, <2>2, <2>4, <2>6 DEF IInv, OneCommission, Originals
    <3> QED BY <3>4, <3>5 DEF OneCommission
  <2>12. ReversedIsBalanced'
    <3>1. Existing' \ Originals' \subseteq Existing \ Originals
      BY <2>6
    <3>2. ASSUME NEW c \in Existing', commission'[c].status = "REVERSED"
          PROVE  \E e \in Existing' : commission'[e].reverses = c
      BY <2>4, <2>6, <3>2 DEF IInv, ReversedIsBalanced
    <3>3. ASSUME NEW e \in Existing' \ Originals'
          PROVE  /\ Exists(commission[e].reverses)'
                 /\ commission'[commission'[e].reverses].negative
                        # commission'[e].negative
                 /\ commission'[commission'[e].reverses].policy
                        = commission'[e].policy
      <4>1. /\ e \in Existing \ Originals
            /\ commission[e].reverses \in Existing
        BY <3>1, <3>3 DEF IInv, ReversedIsBalanced, TypeOK, Row, Existing,
                          Originals, Exists
      <4>2. PICK c \in Existing : c = commission[e].reverses
        BY <4>1
      <4>3. /\ Exists(c)'
            /\ commission'[c] = commission[c]
            /\ commission'[e] = commission[e]
        BY <4>1, <2>6
      <4> QED BY <4>1, <4>2, <4>3 DEF IInv, ReversedIsBalanced
    <3>4. \A e \in Existing' \ Originals' : commission'[e] = commission[e]
      BY <3>1, <2>6
    <3> QED BY <3>2, <3>3, <3>4 DEF ReversedIsBalanced, Exists
  <2> QED BY <2>7, <2>8, <2>9, <2>10, <2>11, <2>12 DEF IInv
<1> QED BY <1>1, <1>2

\* A request takes a row whose dates fit.
LEMMA FindKeeps ==
    ASSUME IInv, NEW r \in Requests, NEW op \in Ops, NEW c \in Ids, Find(r, op, c)
    PROVE  IInv'
<1>1. DatesFitStatus' /\ ReversedIsBalanced'
  BY Untouched DEF Find
<1>2. IssueInv' /\ OneCommission'
  BY DEF IInv, Find, issueVars, IssueInv, OneCommission, HasCommission, Existing, Originals, Exists
<1> DEFINE w == [op |-> op, id |-> c, row |-> commission[c]]
<1>3. /\ commission[c] \in Row /\ w.row.status \in From[w.op]
      /\ Fits(w.row) /\ Exists(w.id) /\ SameRow(w.row, commission[w.id])
  BY DEF IInv, TypeOK, DatesFitStatus, Existing, Exists, Find, Fits, SameRow
<1>4. work' = [work EXCEPT ![r] = w]
  BY DEF Find
<1>5. w \in [op : Ops, id : Ids, row : Row]
  BY <1>3
<1> HIDE DEF w
<1>6. TypeOK'
  BY <1>4, <1>5 DEF IInv, TypeOK, Find, issueVars
<1>7. \A q \in Requests : work'[q] = IF q = r THEN w ELSE work[q]
  BY <1>4 DEF IInv, TypeOK
<1>8. commission' = commission
  BY DEF Find
<1>9. WorkInv'
  BY <1>3, <1>7, <1>8 DEF IInv, WorkInv, Exists
<1> QED BY <1>1, <1>2, <1>6, <1>9 DEF IInv

\* A request that ends writes nothing.
LEMMA RequestEndsKeeps ==
    ASSUME IInv, NEW r \in Requests, RequestEnds(r)
    PROVE  IInv'
<1>1. DatesFitStatus' /\ ReversedIsBalanced'
  BY Untouched DEF RequestEnds
<1>2. TypeOK' /\ IssueInv' /\ OneCommission'
  BY DEF IInv, RequestEnds, issueVars, TypeOK, IssueInv, OneCommission, HasCommission, Existing,
         Originals, Exists
<1>3. WorkInv'
  BY DEF IInv, TypeOK, RequestEnds, WorkInv, Exists
<1> QED BY <1>1, <1>2, <1>3 DEF IInv

\* A stale row is written over a newer one, and its dates fit the status written.
LEMMA UpdateKeeps ==
    ASSUME IInv, NEW r \in Requests, Update(r)
    PROVE  IInv'
<1>1. /\ work[r] # None /\ work[r].op \in Ops \ {"reverse"} /\ work[r].id \in Ids
      /\ work[r].id \in Existing
  BY DEF IInv, TypeOK, Update, WorkInv, Existing
<1>2. PICK c \in Existing, new \in Row :
         /\ c = work[r].id /\ new = Written(work[r])
         /\ Fits(new) /\ SameRow(new, commission[c]) /\ new.status # "REVERSED"
  BY <1>1, WrittenRow DEF IInv, To, Ops
<1>3. /\ commission' = [commission EXCEPT ![c] = new]
      /\ UNCHANGED issueVars
      /\ work' = [work EXCEPT ![r] = None]
  BY <1>2 DEF Update
<1>4. /\ commission'[c] = new /\ new # None
      /\ \A e \in Ids : e # c => commission'[e] = commission[e]
  BY <1>3, CommissionAssumption DEF IInv, TypeOK, Existing
<1>5. /\ Existing' = Existing
      /\ \A e \in Existing : SameRow(commission'[e], commission[e])
  BY <1>2, <1>4 DEF Existing, Exists, SameRow
<1>6. Originals' = Originals
  BY <1>5 DEF Originals, SameRow
<1>7. TypeOK'
  BY <1>3 DEF IInv, TypeOK, issueVars
<1>8. DatesFitStatus'
  BY <1>2, <1>4, <1>5 DEF IInv, DatesFitStatus, Fits, Existing
<1>9. WorkInv'
  <2>1. ASSUME NEW q \in Requests, work'[q] # None
        PROVE  work'[q] = work[q] /\ work[q].id \in Existing
    BY <1>3, <2>1 DEF IInv, TypeOK, WorkInv, Existing
  <2> QED BY <2>1, <1>5 DEF IInv, WorkInv, SameRow, Existing
<1>10. IssueInv'
  BY <1>3, <1>5 DEF IInv, IssueInv, issueVars, SameRow
<1>11. OneCommission'
  BY <1>3, <1>5, <1>6 DEF IInv, OneCommission, HasCommission, issueVars, SameRow, Originals
<1>12. ReversedIsBalanced'
  <2>1. ASSUME NEW e \in Existing, commission'[e].status = "REVERSED"
        PROVE  \E d \in Existing : commission'[d].reverses = e
    <3>1. commission[e].status = "REVERSED"
      BY <2>1, <1>2, <1>4 DEF Existing
    <3> QED BY <3>1, <1>5 DEF IInv, ReversedIsBalanced, SameRow
  <2>2. ASSUME NEW d \in Existing \ Originals, NEW e, e = commission[d].reverses
        PROVE  /\ e \in Existing
               /\ commission'[e].negative # commission'[d].negative
               /\ commission'[e].policy = commission'[d].policy
    <3>1. e \in Existing
      BY <2>2 DEF IInv, ReversedIsBalanced, TypeOK, Row, Existing, Originals, Exists
    <3> QED BY <3>1, <2>2, <1>5 DEF IInv, ReversedIsBalanced, SameRow
  <2>3. \A d \in Existing : commission'[d].reverses = commission[d].reverses
    BY <1>5 DEF SameRow
  <2>4. \A e \in Existing : Exists(e)'
    BY <1>5 DEF Existing
  <2> QED BY <2>1, <2>2, <2>3, <2>4, <1>5, <1>6 DEF ReversedIsBalanced
<1> QED BY <1>7, <1>8, <1>9, <1>10, <1>11, <1>12 DEF IInv

\* The stale row becomes REVERSED together with its counterpart.
LEMMA ReverseAtomicKeeps ==
    ASSUME IInv, NEW r \in Requests, ReverseAtomic(r)
    PROVE  IInv'
<1>1. /\ work[r] # None /\ work[r].id \in Existing
  BY DEF IInv, TypeOK, ReverseAtomic, WorkInv, Existing
<1>2. PICK c \in Existing, new \in Row, back \in Row, d \in Ids \ Existing :
         /\ c = work[r].id
         /\ Fits(new) /\ SameRow(new, commission[c])
         /\ Fits(back) /\ back.reverses = c /\ back.status = "PENDING_COMMERCIAL"
         /\ back.policy = commission[c].policy
         /\ back.terms = commission[c].terms
         /\ back.negative # commission[c].negative
         /\ commission' = [commission EXCEPT ![c] = new, ![d] = back]
  <2>1. PICK d \in Ids \ Existing :
            commission' = [commission EXCEPT ![work[r].id] = Written(work[r]),
                                             ![d] = Reversal(work[r])]
    BY DEF ReverseAtomic
  <2> QED BY <2>1, <1>1, WrittenRow, ReversalRow DEF IInv
<1>3. UNCHANGED issueVars /\ work' = [work EXCEPT ![r] = None]
  BY DEF ReverseAtomic
<1>4. /\ commission'[c] = new /\ new # None /\ commission'[d] = back /\ back # None
      /\ \A e \in Ids \ {c, d} : commission'[e] = commission[e]
      /\ c # d /\ c \in Ids /\ d \in Ids /\ c # None
  BY <1>2, CommissionAssumption DEF IInv, TypeOK, Existing
<1>5. /\ Existing' = Existing \cup {d}
      /\ \A e \in Existing : SameRow(commission'[e], commission[e])
  BY <1>2, <1>4 DEF Existing, Exists, SameRow
<1>6. Originals' = Originals
  BY <1>2, <1>4, <1>5 DEF Originals, SameRow
<1>7. TypeOK'
  BY <1>2, <1>3 DEF IInv, TypeOK, issueVars
<1>8. DatesFitStatus'
  BY <1>2, <1>4, <1>5 DEF IInv, DatesFitStatus, Fits, Existing
<1>9. WorkInv'
  <2>1. ASSUME NEW q \in Requests, work'[q] # None
        PROVE  work'[q] = work[q] /\ work[q].id \in Existing
    BY <1>3, <2>1 DEF IInv, TypeOK, WorkInv, Existing
  <2> QED BY <2>1, <1>5 DEF IInv, WorkInv, SameRow, Existing
<1>10. \A e \in Existing' : \E b \in Existing :
            /\ commission'[e].policy = commission[b].policy
            /\ commission'[e].terms = commission[b].terms
  <2>1. ASSUME NEW e \in Existing
        PROVE  /\ commission'[e].policy = commission[e].policy
               /\ commission'[e].terms = commission[e].terms
    BY <1>5 DEF SameRow
  <2>2. /\ commission'[d].policy = commission[c].policy
        /\ commission'[d].terms = commission[c].terms
    BY <1>2, <1>4
  <2> QED BY <2>1, <2>2, <1>5
<1>11. IssueInv'
  <2>1. \A e \in Existing' : policyTerms[commission'[e].policy] # None
    BY <1>10 DEF IInv, IssueInv
  <2> QED BY <2>1, <1>3 DEF IInv, IssueInv, issueVars
<1>12. OneCommission'
  <2>1. \A e \in Existing' :
            commission'[e].terms = policyTerms[commission'[e].policy]
    BY <1>10 DEF IInv, OneCommission
  <2>2. \A e \in Originals : commission'[e].policy = commission[e].policy
    BY <1>5 DEF SameRow, Originals
  <2> QED BY <2>1, <2>2, <1>3, <1>6 DEF IInv, OneCommission, HasCommission, issueVars
<1>13. ReversedIsBalanced'
  <2>1. ASSUME NEW e \in Existing', commission'[e].status = "REVERSED"
        PROVE  \E b \in Existing' : commission'[b].reverses = e
    <3>1. CASE e = c
      BY <3>1, <1>2, <1>4, <1>5
    <3>2. CASE e \in Existing \ {c}
      BY <3>2, <2>1, <1>4, <1>5 DEF IInv, ReversedIsBalanced, SameRow, Existing
    <3>3. e # d
      BY <2>1, <1>2, <1>4
    <3> QED BY <3>1, <3>2, <3>3, <1>5
  <2>2. ASSUME NEW b \in Existing' \ Originals', NEW e, e = commission'[b].reverses
        PROVE  /\ Exists(e)'
               /\ commission'[e].negative # commission'[b].negative
               /\ commission'[e].policy = commission'[b].policy
    <3>1. CASE b = d
      BY <3>1, <2>2, <1>2, <1>4 DEF SameRow, Exists
    <3>2. CASE b \in Existing \ Originals
      <4>1. e = commission[b].reverses
        BY <3>2, <2>2, <1>5 DEF SameRow
      <4>2. e \in Existing
        BY <3>2, <4>1
        DEF IInv, ReversedIsBalanced, TypeOK, Row, Existing, Originals, Exists
      <4>3. Exists(e)'
        BY <4>2, <1>5 DEF Existing
      <4> QED BY <3>2, <4>1, <4>2, <4>3, <1>5 DEF IInv, ReversedIsBalanced, SameRow
    <3> QED BY <3>1, <3>2, <1>5, <1>6
  <2> QED BY <2>1, <2>2 DEF ReversedIsBalanced
<1> QED BY <1>7, <1>8, <1>9, <1>11, <1>12, <1>13 DEF IInv

\* Every step keeps the invariant.
LEMMA CommissionStep == ASSUME IInv, [Next]_vars PROVE IInv'
<1>1. CASE UNCHANGED vars
  BY <1>1 DEF vars, issueVars, IInv, TypeOK, DatesFitStatus, WorkInv, IssueInv,
              OneCommission, HasCommission, ReversedIsBalanced, Existing, Originals, Exists
<1>2. CASE Next
  BY <1>2, UpdateDetailsKeeps, FindProposalKeeps, CreatePolicyKeeps,
     CreateCommissionKeeps, IssueEndsKeeps, FindKeeps, UpdateKeeps,
     ReverseAtomicKeeps, RequestEndsKeeps
  DEF Next
<1> QED BY <1>1, <1>2

\* The invariant holds in every behaviour.
LEMMA CommissionInvariant == Spec => []IInv
BY CommissionStart, CommissionStep, PTL DEF Spec

\* Rows, policies and the requests on them keep their types.
THEOREM CommissionTypeCorrect == Spec => []TypeOK
<1>1. IInv => TypeOK
  BY DEF IInv
<1> QED BY <1>1, CommissionInvariant, PTL

\* Although every operation writes back a row it read earlier, the dates of a
\* commission are always those of its status.
THEOREM DatesAlwaysFit == Spec => []DatesFitStatus
<1>1. IInv => DatesFitStatus
  BY DEF IInv
<1> QED BY <1>1, CommissionInvariant, PTL

\* However many requests issue a proposal, it has at most one commission, for the
\* terms of its policy, and has it exactly if the request that created the policy
\* did not fail in between.
THEOREM OneCommissionPerProposal == Spec => []OneCommission
<1>1. IInv => OneCommission
  BY DEF IInv
<1> QED BY <1>1, CommissionInvariant, PTL

\* No commission is REVERSED without a row that takes its value back.
THEOREM ReversalsBalance == Spec => []ReversedIsBalanced
<1>1. IInv => ReversedIsBalanced
  BY DEF IInv
<1> QED BY <1>1, CommissionInvariant, PTL

-----------------------------------------------------------------------------
(* What no request changes, however many overlap.                           *)

\* What a step does to the rows of commissions: it writes none, inserts one,
\* updates one, or updates one and inserts its reversal.
LEMMA StepOnRows ==
    ASSUME IInv, [Next]_vars
    PROVE  \/ UNCHANGED commission
           \/ /\ UNCHANGED work
              /\ \E k \in Policies, d \in Ids \ Existing :
                    commission' = [commission EXCEPT ![d] = NewCommission(k)]
           \/ \E r \in Requests : Update(r) \/ ReverseAtomic(r)
BY DEF Next, vars, UpdateDetails, FindProposal, CreatePolicy, CreateCommission,
       IssueEnds, Find, RequestEnds

\* The rows of an update.
LEMMA UpdateRows ==
    ASSUME IInv, NEW r \in Requests, Update(r)
    PROVE  LET c == work[r].id IN
           /\ work[r] # None /\ c \in Existing
           /\ commission'[c] = Written(work[r])
           /\ Existing' = Existing /\ Originals' = Originals
           /\ \A e \in Ids \ {c} : commission'[e] = commission[e]
           /\ work' = [work EXCEPT ![r] = None]
<1> DEFINE c == work[r].id
<1>1. work[r] # None /\ c \in Existing /\ commission \in [Ids -> Row \cup {None}]
  BY DEF IInv, TypeOK, Update, WorkInv, Existing
<1>2. PICK new \in Row : new = Written(work[r]) /\ SameRow(new, commission[c])
  BY <1>1, WrittenRow DEF IInv
<1>3. commission' = [commission EXCEPT ![c] = new] /\ work' = [work EXCEPT ![r] = None]
  BY <1>2 DEF Update
<1>4. c \in Ids /\ new # None /\ commission[c] # None
  BY <1>1, CommissionAssumption DEF Existing, Exists
<1>5. /\ commission'[c] = new
      /\ \A e \in Ids \ {c} : commission'[e] = commission[e]
  BY <1>1, <1>3, <1>4
<1>6. Existing' = Existing
  BY <1>1, <1>4, <1>5 DEF Existing, Exists
<1>7. Originals' = Originals
  <2>1. \A e \in Existing : commission'[e].reverses = commission[e].reverses
    BY <1>2, <1>5 DEF SameRow, Existing
  <2> QED BY <1>6, <2>1 DEF Originals
<1> QED BY <1>1, <1>2, <1>3, <1>5, <1>6, <1>7

\* The rows of a reversal.
LEMMA ReverseRows ==
    ASSUME IInv, NEW r \in Requests, ReverseAtomic(r)
    PROVE  LET c == work[r].id IN
           /\ work[r] # None /\ work[r].op = "reverse" /\ c \in Existing
           /\ commission'[c] = Written(work[r])
           /\ work' = [work EXCEPT ![r] = None]
           /\ Originals' = Originals
           /\ \E d \in Ids \ Existing :
                  /\ Existing' = Existing \cup {d}
                  /\ commission'[d] = Reversal(work[r])
                  /\ \A e \in Ids \ {c, d} : commission'[e] = commission[e]
<1> DEFINE c == work[r].id
<1>1. /\ work[r] # None /\ work[r].op = "reverse" /\ c \in Existing
      /\ commission \in [Ids -> Row \cup {None}]
  BY DEF IInv, TypeOK, ReverseAtomic, WorkInv, Existing
<1>2. PICK new \in Row, back \in Row, d \in Ids \ Existing :
         /\ new = Written(work[r]) /\ SameRow(new, commission[c])
         /\ back = Reversal(work[r]) /\ back.reverses = c
         /\ commission' = [commission EXCEPT ![c] = new, ![d] = back]
  <2>1. PICK d \in Ids \ Existing :
            commission' = [commission EXCEPT ![c] = Written(work[r]),
                                             ![d] = Reversal(work[r])]
    BY DEF ReverseAtomic
  <2> QED BY <2>1, <1>1, WrittenRow, ReversalRow DEF IInv
<1>3. /\ c \in Ids /\ c # d /\ c # None /\ commission[c] # None
      /\ new # None /\ back # None
  BY <1>1, CommissionAssumption DEF Existing, Exists
<1>4. /\ commission'[c] = new /\ commission'[d] = back
      /\ \A e \in Ids \ {c, d} : commission'[e] = commission[e]
  BY <1>1, <1>2, <1>3
<1>5. Existing' = Existing \cup {d}
  BY <1>1, <1>3, <1>4 DEF Existing, Exists
<1>6. Originals' = Originals
  <2>1. commission'[c].reverses = commission[c].reverses
    BY <1>2, <1>4 DEF SameRow
  <2>2. commission'[d].reverses # None
    BY <1>2, <1>3, <1>4
  <2>3. \A e \in Existing : commission'[e].reverses = commission[e].reverses
    BY <1>4, <2>1, d \notin Existing DEF Existing
  <2> QED BY <1>5, <2>2, <2>3 DEF Originals
<1>7. work' = [work EXCEPT ![r] = None]
  BY DEF ReverseAtomic
<1> QED BY <1>1, <1>2, <1>4, <1>5, <1>6, <1>7

\* Every commission is still there, and is for what it was for, of the same terms
\* and sign, and reverses what it did.
RowsStay ==
    \A c \in Existing : Exists(c)' /\ SameRow(commission'[c], commission[c])

\* A row that is written over, however stale, keeps what no operation writes.
LEMMA RowsStayStep == ASSUME IInv, [Next]_vars PROVE RowsStay
<1> SUFFICES ASSUME NEW c \in Existing
             PROVE  Exists(c)' /\ SameRow(commission'[c], commission[c])
  BY DEF RowsStay
<1>1. CASE UNCHANGED commission
  BY <1>1 DEF Existing, Exists, SameRow
<1>2. CASE \E k \in Policies, d \in Ids \ Existing :
               commission' = [commission EXCEPT ![d] = NewCommission(k)]
  <2>1. commission'[c] = commission[c]
    BY <1>2 DEF IInv, TypeOK, Existing
  <2> QED BY <2>1 DEF Existing, Exists, SameRow
<1>3. ASSUME NEW r \in Requests, Update(r)
      PROVE  Exists(c)' /\ SameRow(commission'[c], commission[c])
  <2>1. SameRow(Written(work[r]), commission[work[r].id])
    BY <1>3, UpdateRows, WrittenRow DEF IInv
  <2>2. c \in Ids
    BY DEF Existing
  <2> QED BY <1>3, <2>1, <2>2, UpdateRows DEF SameRow, Existing
<1>4. ASSUME NEW r \in Requests, ReverseAtomic(r)
      PROVE  Exists(c)' /\ SameRow(commission'[c], commission[c])
  <2>1. SameRow(Written(work[r]), commission[work[r].id])
    BY <1>4, ReverseRows, WrittenRow DEF IInv
  <2>2. c \in Ids
    BY DEF Existing
  <2> QED BY <1>4, <2>1, <2>2, ReverseRows DEF SameRow, Existing
<1> QED BY <1>1, <1>2, <1>3, <1>4, StepOnRows

\* A commission is never deleted, and what it is for, its terms, its sign and what
\* it reverses stay as they were, whichever stale row is written over it.
THEOREM CommissionsStay == Spec => [][RowsStay]_vars
<1>1. IInv /\ [Next]_vars => RowsStay
  BY RowsStayStep
<1> QED BY <1>1, CommissionInvariant, PTL DEF Spec

-----------------------------------------------------------------------------
(* What one request does to what another has read.                          *)

\* A row changes by an operation its status allows, or by a request whose row is
\* stale.
LEMMA LifecycleHolds == ASSUME IInv, [Next]_vars PROVE LifecycleStep
<1>1. SUFFICES ASSUME NEW c \in Existing, commission'[c] # commission[c]
               PROVE  \/ \E op \in Ops : /\ commission[c].status \in From[op]
                                         /\ commission'[c].status = To[op]
                      \/ \E r \in Requests : /\ work[r] # None /\ work'[r] = None
                                             /\ work[r].id = c /\ Stale(r)
  BY DEF LifecycleStep
<1>2. c \in Ids
  BY DEF Existing
<1>3. PICK r \in Requests : Update(r) \/ ReverseAtomic(r)
  <2>1. ASSUME NEW k \in Policies, NEW d \in Ids \ Existing,
               commission' = [commission EXCEPT ![d] = NewCommission(k)]
        PROVE  FALSE
    BY <1>1, <1>2, <2>1 DEF IInv, TypeOK
  <2> QED BY <1>1, <2>1, StepOnRows
<1>4. /\ work[r] # None /\ work[r].id = c
      /\ commission'[c] = Written(work[r])
  BY <1>1, <1>2, <1>3, UpdateRows, ReverseRows
<1>5. work'[r] = None
  BY <1>3, UpdateRows, ReverseRows DEF IInv, TypeOK
<1>6. CASE work[r].row = commission[c]
  <2>1. /\ work[r].op \in Ops
        /\ commission[c].status \in From[work[r].op]
    BY <1>4, <1>6 DEF IInv, TypeOK, WorkInv
  <2>2. commission'[c].status = To[work[r].op]
    BY <1>4, WrittenRow DEF IInv
  <2> QED BY <2>1, <2>2
<1> QED BY <1>4, <1>5, <1>6 DEF Stale

\* Every change of a commission follows its life cycle, approved twice, paid once,
\* then perhaps reversed, except for the write of a request whose row another
\* request has written since it was read.
THEOREM CommissionsFollowLifecycle == Spec => Lifecycle
<1>1. IInv /\ [Next]_vars => LifecycleStep
  BY LifecycleHolds
<1> QED BY <1>1, CommissionInvariant, PTL DEF Spec, Lifecycle

\* The row of a request is that of the table after the step, or was not before it
\* any more, or another request writes the very commission.
OvertakenStep ==
    \A r \in Requests :
        work'[r] # None =>
            \/ work'[r].row = commission'[work'[r].id]
            \/ work'[r] = work[r] /\ Stale(r)
            \/ \E s \in Requests \ {r} : /\ work[s] # None /\ work[s].id = work'[r].id
                                         /\ Update(s) \/ ReverseAtomic(s)

\* A row is overtaken by a write of its own commission.
LEMMA Overtaken == ASSUME IInv, [Next]_vars PROVE OvertakenStep
<1> SUFFICES ASSUME NEW r \in Requests, work'[r] # None
             PROVE  \/ work'[r].row = commission'[work'[r].id]
                    \/ work'[r] = work[r] /\ Stale(r)
                    \/ \E s \in Requests \ {r} : /\ work[s] # None /\ work[s].id = work'[r].id
                                                 /\ Update(s) \/ ReverseAtomic(s)
  BY DEF OvertakenStep
<1>1. CASE UNCHANGED commission /\ ~\E s \in Requests : Update(s) \/ ReverseAtomic(s)
  <2>1. work'[r] = work[r] \/ work'[r].row = commission[work'[r].id]
    BY <1>1 DEF Next, vars, issueVars, UpdateDetails, FindProposal, CreatePolicy,
       CreateCommission, IssueEnds, Find, RequestEnds, IInv, TypeOK
  <2> QED BY <1>1, <2>1 DEF Stale
<1>2. ASSUME UNCHANGED work, NEW k \in Policies, NEW d \in Ids \ Existing,
             commission' = [commission EXCEPT ![d] = NewCommission(k)]
      PROVE  \/ work'[r].row = commission'[work'[r].id]
             \/ work'[r] = work[r] /\ Stale(r)
  <2>1. work[r].id \in Existing
    BY <1>2 DEF IInv, WorkInv, TypeOK, Existing
  <2>2. commission'[work[r].id] = commission[work[r].id]
    BY <1>2, <2>1 DEF IInv, TypeOK, Existing
  <2>3. work'[r] = work[r]
    BY <1>2
  <2> QED BY <2>2, <2>3 DEF Stale
<1>3. ASSUME NEW s \in Requests, Update(s) \/ ReverseAtomic(s)
      PROVE  \/ work'[r].row = commission'[work'[r].id]
             \/ work'[r] = work[r] /\ Stale(r)
             \/ r # s /\ work[s].id = work'[r].id
  <2>1. work[s] # None /\ work' = [work EXCEPT ![s] = None]
    BY <1>3, UpdateRows, ReverseRows
  <2>2. r # s /\ work'[r] = work[r] /\ work[r] # None
    BY <2>1 DEF IInv, TypeOK
  <2>3. work[r].id \in Existing /\ work[r].id \in Ids
    BY <2>2 DEF IInv, WorkInv, TypeOK, Existing
  <2>4. work[r].id # work[s].id => commission'[work[r].id] = commission[work[r].id]
    BY <1>3, <2>3, UpdateRows, ReverseRows
  <2> QED BY <2>2, <2>4 DEF Stale
<1>4. ASSUME NEW s \in Requests, Update(s) \/ ReverseAtomic(s)
      PROVE  work[s] # None
  BY <1>4, UpdateRows, ReverseRows
<1> QED BY <1>1, <1>2, <1>3, <1>4, StepOnRows

\* What a request has read of a commission is overtaken by another request that
\* writes this commission, and by nothing else.
THEOREM OnlyWritesOvertake == Spec => [][OvertakenStep]_vars
<1>1. IInv /\ [Next]_vars => OvertakenStep
  BY Overtaken
<1> QED BY <1>1, CommissionInvariant, PTL DEF Spec
=============================================================================
