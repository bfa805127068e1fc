---------------------------- MODULE BillingProofs ----------------------------
(***************************************************************************)
(* Billing for every set of subscriptions, events and payments: types, the *)
(* money invariants, and the implementation of WebhookInbox.               *)
(***************************************************************************)
EXTENDS Billing, FiniteSetTheorems, TLAPS

USE BillingAssumption DEF Executors

\* What the event handler writes and where it goes next stay in their types.
LEMMA StagesOfExecute ==
    ASSUME NEW e \in Events, NEW s \in Stages
    PROVE  /\ FirstStage(e) \in {"mark", "status", "invoice"}
           /\ NextStage(e, s) \in {"cache", "status", "mark"}
           /\ InvoiceStatusFor(e) \in InvoiceStatus \ {"none"}
           /\ StatusFor(e) \in {"ACTIVE", "PAST_DUE", "CANCELED"}
  BY DEF FirstStage, NextStage, InvoiceStatusFor, StatusFor, InvoiceStatus

\* The reconciliation worker has a row exactly while it is at work on it.
RowInv == stage[Recon] # "idle" <=> reconRow # None

\* What an executor may be about to do, given its event.
StageFits(x) ==
    LET e == EventAt(x) IN
    /\ stage[x] \in {"invoice", "status", "cache"} => ~Ignored(e)
    /\ stage[x] = "invoice" => Kind[e] # "SUBSCRIPTION_CANCELED_BY_PROVIDER"
    /\ stage[x] = "status" => Kind[e] # "PAYMENT_REFUNDED"

IInv1 == TypeOK /\ RowInv /\ \A x \in Executors : StageFits(x)

\* Whoever is at work has an event.
LEMMA EventAtType ==
    ASSUME TypeOK, RowInv, NEW x \in Executors, stage[x] # "idle"
    PROVE  EventAt(x) \in Events
  BY DEF TypeOK, RowInv, EventAt

\* No step of Next spoils a type or leaves a worker at work without its row.
LEMMA NextIInv1 == IInv1 /\ [Next]_vars => IInv1'
  <1> SUFFICES ASSUME IInv1, [Next]_vars PROVE IInv1'
    OBVIOUS
  <1> USE DEF IInv1, RowInv, StageFits, TypeOK, EventAt
  <1>1. ASSUME NEW s \in Subs, TimePasses(s) PROVE IInv1'
    BY <1>1 DEF TimePasses, invoiceVars, inboxVars, reconVars, expVars
  <1>2. ASSUME NEW s \in Subs, CancelRequested(s) \/ ProviderCancels(s) \/ CancelWrites(s) \/ CancelEnds(s) PROVE IInv1'
    BY <1>2 DEF CancelRequested, ProviderCancels, CancelWrites, CancelEnds, Status,
                subVars, invoiceVars, inboxVars, reconVars, expVars
  <1>3. CASE EventAges
    BY <1>3 DEF EventAges, subVars, invoiceVars, inboxVars, reconVars, expVars
  <1>4. ASSUME NEW x \in Executors, UpsertInvoice(x) PROVE IInv1'
    BY <1>4, StagesOfExecute, EventAtType DEF UpsertInvoice, subVars, inboxVars, reconVars, expVars, NextStage, Stages
  <1>5. ASSUME NEW x \in Executors, UpdateStatus(x) PROVE IInv1'
    BY <1>5, StagesOfExecute, EventAtType DEF UpdateStatus, subVars, invoiceVars, inboxVars, reconVars, expVars, NextStage, Stages, Status
  <1>6. ASSUME NEW x \in Executors, Invalidate(x) \/ Fail(x) PROVE IInv1'
    BY <1>6, EventAtType DEF Invalidate, Fail, subVars, invoiceVars, inboxVars, reconVars, expVars, NextStage, Stages
  <1>7. ASSUME NEW x \in Executors, MarkProcessed(x) \/ RecordError(x) PROVE IInv1'
    <2> DEFINE e == EventAt(x)
    <2>1. e \in Events
      BY <1>7, EventAtType DEF MarkProcessed, RecordError
    <2>2. processedAt' \in [Events -> BOOLEAN] /\ processingError' \in [Events -> BOOLEAN]
      <3> HIDE DEF e
      <3> QED BY <1>7, <2>1 DEF MarkProcessed, RecordError, e
    <2>3. /\ stage' = [stage EXCEPT ![x] = "idle"]
          /\ reconRow' = IF x = Recon THEN None ELSE reconRow
          /\ UNCHANGED <<subVars, invoiceVars, received, arrival, horizon, reconBatch,
                         expVars, cancelling>>
      BY <1>7 DEF MarkProcessed, RecordError, Release
    <2> QED
      BY <2>2, <2>3 DEF subVars, invoiceVars, expVars, Stages
  <1>8. ASSUME NEW e \in Events, Receive(e) PROVE IInv1'
    BY <1>8, StagesOfExecute DEF Receive, FirstStage, subVars, invoiceVars, inboxVars, reconVars, expVars, Stages
  <1>9. ASSUME NEW e \in Events, HandlerDies(e) PROVE IInv1'
    BY <1>9 DEF HandlerDies, subVars, invoiceVars, inboxVars, reconVars, expVars, Stages
  <1>10. ASSUME NEW e \in Events, TakeRow(e) PROVE IInv1'
    BY <1>10, StagesOfExecute DEF TakeRow, NextRow, FirstStage, subVars, invoiceVars, inboxVars, reconVars, expVars, Stages
  <1>15. ASSUME NEW e \in Events, SkipRow(e) PROVE IInv1'
    BY <1>15 DEF SkipRow, NextRow, subVars, invoiceVars, inboxVars, expVars
  <1>11. CASE FindFailedWebhookEvents \/ ReconDies
    BY <1>11 DEF FindFailedWebhookEvents, ReconDies, Oldest, FailedRows, subVars, invoiceVars, inboxVars, reconVars, expVars, Stages
  <1>12. ASSUME NEW w \in Expirers, FindDue(w) \/ InvalidateExpired(w) \/ ExpirerDies(w) PROVE IInv1'
    BY <1>12 DEF FindDue, Due, InvalidateExpired, ExpirerDies, subVars, invoiceVars, inboxVars, reconVars, expVars
  <1>13. ASSUME NEW w \in Expirers, NEW s \in Subs, ExpireRow(w, s) \/ ExpireRowFails(w, s) PROVE IInv1'
    BY <1>13 DEF ExpireRow, ExpireRowFails, Status, subVars, invoiceVars, inboxVars, reconVars, expVars
  <1>14. CASE UNCHANGED vars
    BY <1>14 DEF vars, subVars, invoiceVars, inboxVars, reconVars, expVars
  <1> QED
    BY <1>1, <1>2, <1>3, <1>4, <1>5, <1>6, <1>7, <1>8, <1>9, <1>10, <1>11, <1>12, <1>13, <1>14, <1>15
       DEF Next, ProcessStep

\* The empty tables satisfy the first invariant.
LEMMA InitIInv1 == Init => IInv1
  BY DEF Init, IInv1, TypeOK, RowInv, StageFits, Status, InvoiceStatus, Stages, Expirers

-----------------------------------------------------------------------------
(* Money *)

PaymentKind(e) == Kind[e] # "SUBSCRIPTION_CANCELED_BY_PROVIDER"

Recorded(e) ==
    /\ invoice[PaymentOf[e]] # "none"
    /\ Kind[e] = "PAYMENT_SUCCEEDED" => paidAt[PaymentOf[e]]

\* The invoice is written before the status and before processedAt.
InvoiceFirst(x) ==
    LET e == EventAt(x) IN
    stage[x] \in {"status", "cache", "mark"} /\ PaymentKind(e) /\ ~Ignored(e)
        => Recorded(e)

\* A payment of s was refused, and has an invoice.
Refused(s) ==
    \E e \in Events : /\ SubOf[e] = s
                      /\ Kind[e] = "PAYMENT_FAILED"
                      /\ invoice[PaymentOf[e]] # "none"

Backed(s) ==
    /\ status[s] # "BILLED_EXTERNALLY"
    /\ status[s] = "ACTIVE" => Paid(s)
    /\ status[s] = "PAST_DUE" => Refused(s)

MoneyInv ==
    /\ \A x \in Executors : InvoiceFirst(x)
    /\ \A e \in Events : processedAt[e] /\ PaymentKind(e) /\ ~Ignored(e) => Recorded(e)
    /\ \A s \in Subs \ External : Backed(s)
    /\ \A s \in External : status[s] = "BILLED_EXTERNALLY" /\ age[s] = 0
    /\ \A w \in Expirers : expBatch[w] \cap External = {}
    /\ \A s \in External : cancelling[s] = "idle"
    /\ \A p \in Payments : invoice[p] # "none" =>
           \E e \in Events : PaymentOf[e] = p /\ PaymentKind(e) /\ ~Ignored(e)

\* An invoice row is never deleted and its payment date never cleared.
LEMMA InvoicesStay ==
    ASSUME IInv1, [Next]_vars, NEW p \in Payments
    PROVE  /\ invoice[p] # "none" => invoice'[p] # "none"
           /\ paidAt[p] => paidAt'[p]
  <1> USE DEF IInv1, TypeOK
  <1>1. ASSUME NEW x \in Executors, UpsertInvoice(x)
        PROVE  (invoice[p] # "none" => invoice'[p] # "none") /\ (paidAt[p] => paidAt'[p])
    <2>1. EventAt(x) \in Events /\ InvoiceStatusFor(EventAt(x)) # "none"
      BY <1>1, EventAtType DEF UpsertInvoice, InvoiceStatusFor
    <2> QED
      BY <1>1, <2>1 DEF UpsertInvoice
  <1>2. CASE UNCHANGED invoiceVars
    BY <1>2 DEF invoiceVars
  <1> QED
    BY <1>1, <1>2 DEF Next, vars, ProcessStep, TimePasses, CancelRequested, ProviderCancels,
       CancelWrites, CancelEnds, EventAges, UpdateStatus, Invalidate, Fail, MarkProcessed,
       RecordError, Receive, HandlerDies, TakeRow, SkipRow, FindFailedWebhookEvents, ReconDies,
       FindDue, ExpireRow, ExpireRowFails, InvalidateExpired, ExpirerDies

\* What an event recorded stays recorded.
LEMMA RecordedStays ==
    ASSUME IInv1, [Next]_vars, NEW e \in Events, Recorded(e)
    PROVE  Recorded(e)'
  BY InvoicesStay DEF Recorded

\* A subscription that paid, or was invoiced, stays so.
LEMMA PaidStays ==
    ASSUME IInv1, [Next]_vars, NEW s \in Subs
    PROVE  /\ Paid(s) => Paid(s)'
           /\ Refused(s) => Refused(s)'
  <1>1. \A e \in Events : PaymentOf[e] \in Payments
    OBVIOUS
  <1> QED
    BY <1>1, InvoicesStay DEF Paid, Refused

\* Every step keeps the money invariant: the invoice is written before the
\* status, and the status before processedAt.
LEMMA NextMoney == IInv1 /\ MoneyInv /\ [Next]_vars => MoneyInv'
  <1> SUFFICES ASSUME IInv1, MoneyInv, [Next]_vars PROVE MoneyInv'
    OBVIOUS
  <1> DEFINE Written(p) == \E e \in Events : PaymentOf[e] = p /\ PaymentKind(e) /\ ~Ignored(e)
  <1>a. ASSUME UNCHANGED <<stage, reconRow>>, NEW x \in Executors
        PROVE  InvoiceFirst(x)'
    <2>1. EventAt(x)' = EventAt(x) /\ stage'[x] = stage[x]
      BY <1>a DEF EventAt
    <2>2. CASE stage[x] = "idle"
      BY <2>1, <2>2 DEF InvoiceFirst
    <2>3. CASE stage[x] # "idle"
      BY <2>1, <2>3, RecordedStays, EventAtType DEF InvoiceFirst, MoneyInv, IInv1, PaymentKind, Ignored
    <2> QED BY <2>2, <2>3
  <1>b. ASSUME UNCHANGED processedAt
        PROVE  \A e \in Events : processedAt'[e] /\ PaymentKind(e) /\ ~Ignored(e) => Recorded(e)'
    BY <1>b, RecordedStays DEF MoneyInv
  <1>c. ASSUME UNCHANGED status
        PROVE  \A s \in Subs \ External : Backed(s)'
    BY <1>c, PaidStays DEF MoneyInv, Backed
  <1>d. ASSUME NEW x \in Executors, NEW y \in Executors, y # x, stage[x] # "idle",
               stage' = [stage EXCEPT ![x] = stage'[x]],
               UNCHANGED reconRow \/ x = Recon
        PROVE  InvoiceFirst(y)'
    <2>1. EventAt(y)' = EventAt(y) /\ stage'[y] = stage[y]
      BY <1>d DEF EventAt, IInv1, TypeOK
    <2>2. CASE stage[y] = "idle"
      BY <2>1, <2>2 DEF InvoiceFirst
    <2>3. CASE stage[y] # "idle"
      BY <2>1, <2>3, RecordedStays, EventAtType DEF InvoiceFirst, MoneyInv, IInv1, PaymentKind, Ignored
    <2> QED BY <2>2, <2>3
  <1>1. ASSUME NEW s \in Subs, TimePasses(s) PROVE MoneyInv'
    BY <1>1, <1>a, <1>b, <1>c DEF TimePasses, MoneyInv, invoiceVars, inboxVars, reconVars, expVars, IInv1, TypeOK
  <1>2. ASSUME NEW s \in Subs, CancelRequested(s) \/ ProviderCancels(s) \/ CancelEnds(s) PROVE MoneyInv'
    BY <1>2, <1>a, <1>b, <1>c DEF CancelRequested, ProviderCancels, CancelEnds, MoneyInv, subVars,
       invoiceVars, inboxVars, reconVars, expVars, IInv1, TypeOK
  <1>3. ASSUME NEW s \in Subs, CancelWrites(s) PROVE MoneyInv'
    <2>1. \A t \in Subs \ External : Backed(t)'
      BY <1>3, PaidStays DEF CancelWrites, MoneyInv, Backed, IInv1, TypeOK
    <2>2. s \notin External
      BY <1>3 DEF CancelWrites, MoneyInv
    <2> QED
      BY <1>3, <2>1, <2>2, <1>a, <1>b DEF CancelWrites, MoneyInv, subVars,
         invoiceVars, inboxVars, reconVars, expVars, IInv1, TypeOK
  <1>4. CASE EventAges
    BY <1>4, <1>a, <1>b, <1>c DEF EventAges, MoneyInv, subVars, invoiceVars, reconVars, expVars
  <1>5. ASSUME NEW x \in Executors, UpsertInvoice(x) PROVE MoneyInv'
    <2> DEFINE e == EventAt(x)
    <2>1. /\ e \in Events /\ PaymentKind(e) /\ ~Ignored(e)
          /\ InvoiceStatusFor(e) # "none"
      BY <1>5, EventAtType DEF UpsertInvoice, IInv1, StageFits, PaymentKind, InvoiceStatusFor
    <2>3. e' = e
      BY <1>5 DEF UpsertInvoice, EventAt, reconVars
    <2>2. Recorded(e)'
      <3> HIDE DEF e
      <3> QED BY <1>5, <2>1, <2>3 DEF UpsertInvoice, Recorded, IInv1, TypeOK, e
    <2>4. InvoiceFirst(x)'
      BY <2>2, <2>3 DEF InvoiceFirst
    <2>5. stage[x] # "idle" /\ stage' = [stage EXCEPT ![x] = stage'[x]] /\ UNCHANGED reconRow
      BY <1>5 DEF UpsertInvoice, IInv1, TypeOK, reconVars
    <2>6. \A y \in Executors : InvoiceFirst(y)'
      BY <2>4, <2>5, <1>d
    <2>7. \A p \in Payments : invoice'[p] # "none" => Written(p)
      BY <1>5, <2>1 DEF UpsertInvoice, MoneyInv, IInv1, TypeOK
    <2> QED
      BY <1>5, <2>6, <2>7, <1>b, <1>c DEF UpsertInvoice, MoneyInv, subVars, inboxVars, expVars, PaymentKind, Ignored
  <1>6. ASSUME NEW x \in Executors, UpdateStatus(x) PROVE MoneyInv'
    <2> DEFINE e == EventAt(x)
    <2>1. /\ e \in Events /\ ~Ignored(e) /\ Kind[e] # "PAYMENT_REFUNDED"
          /\ PaymentKind(e) => Recorded(e)
          /\ SubOf[e] \in Subs \ External
      BY <1>6, EventAtType DEF UpdateStatus, IInv1, StageFits, MoneyInv, InvoiceFirst, Ignored
    <2>2. e' = e /\ UNCHANGED <<invoice, paidAt>>
      BY <1>6 DEF UpdateStatus, EventAt, reconVars, invoiceVars
    <2>3. PaymentKind(e) => Recorded(e)'
      BY <2>1, <2>2 DEF Recorded
    <2>4. InvoiceFirst(x)'
      BY <2>2, <2>3 DEF InvoiceFirst
    <2>5. stage[x] # "idle" /\ stage' = [stage EXCEPT ![x] = stage'[x]] /\ UNCHANGED reconRow
      BY <1>6 DEF UpdateStatus, IInv1, TypeOK, reconVars
    <2>6. \A y \in Executors : InvoiceFirst(y)'
      BY <2>4, <2>5, <1>d
    <2>7. status' = [status EXCEPT ![SubOf[e]] = StatusFor(e)]
      BY <1>6 DEF UpdateStatus
    <2>8. ASSUME NEW s \in Subs \ External PROVE Backed(s)'
      <3>1. CASE s = SubOf[e]
        <4>1. status'[s] = StatusFor(e)
          BY <2>7, <3>1 DEF IInv1, TypeOK
        <4>2. CASE Kind[e] = "PAYMENT_SUCCEEDED"
          <5>1. Paid(s)'
            BY <2>1, <2>2, <3>1, <4>2 DEF Paid, Recorded, PaymentKind
          <5> QED BY <5>1, <4>1, <4>2 DEF Backed, StatusFor
        <4>3. CASE Kind[e] = "PAYMENT_FAILED"
          <5>1. Refused(s)'
            BY <2>1, <2>2, <3>1, <4>3 DEF Refused, Recorded, PaymentKind
          <5> QED BY <5>1, <4>1, <4>3 DEF Backed, StatusFor
        <4>4. CASE Kind[e] \notin {"PAYMENT_SUCCEEDED", "PAYMENT_FAILED"}
          BY <4>1, <4>4 DEF Backed, StatusFor
        <4> QED BY <4>2, <4>3, <4>4
      <3>2. CASE s # SubOf[e]
        <4>1. status'[s] = status[s]
          BY <2>7, <3>2 DEF IInv1, TypeOK
        <4> QED BY <4>1, PaidStays DEF Backed, MoneyInv
      <3> QED BY <3>1, <3>2
    <2> QED
      BY <1>6, <2>1, <2>6, <2>8, <1>b DEF UpdateStatus, MoneyInv, invoiceVars, inboxVars, expVars, IInv1, TypeOK
  <1>7. ASSUME NEW x \in Executors, Invalidate(x) \/ Fail(x) PROVE MoneyInv'
    <2>1. EventAt(x)' = EventAt(x) /\ stage[x] # "idle" /\ stage' = [stage EXCEPT ![x] = stage'[x]]
          /\ UNCHANGED reconRow
      BY <1>7 DEF Invalidate, Fail, EventAt, reconVars, IInv1, TypeOK
    <2>2. stage'[x] = "fail" \/ (stage[x] = "cache" /\ stage'[x] = "mark")
      BY <1>7 DEF Invalidate, Fail, NextStage, IInv1, TypeOK
    <2>3. InvoiceFirst(x)'
      BY <2>1, <2>2, RecordedStays, EventAtType DEF InvoiceFirst, MoneyInv, IInv1, PaymentKind, Ignored
    <2>4. \A y \in Executors : InvoiceFirst(y)'
      BY <2>1, <2>3, <1>d
    <2> QED
      BY <1>7, <2>4, <1>b, <1>c DEF Invalidate, Fail, MoneyInv, subVars, invoiceVars, inboxVars, expVars
  <1>8. ASSUME NEW x \in Executors, MarkProcessed(x) \/ RecordError(x) PROVE MoneyInv'
    <2> DEFINE e == EventAt(x)
    <2>1. e \in Events /\ stage[x] \in {"mark", "fail"}
      BY <1>8, EventAtType DEF MarkProcessed, RecordError, IInv1
    <2>2. /\ stage' = [stage EXCEPT ![x] = stage'[x]] /\ stage'[x] = "idle"
          /\ UNCHANGED reconRow \/ x = Recon
      BY <1>8 DEF MarkProcessed, RecordError, Release, IInv1, TypeOK
    <2>3. \A y \in Executors : InvoiceFirst(y)'
      <3>1. InvoiceFirst(x)'
        BY <2>2 DEF InvoiceFirst
      <3> QED BY <3>1, <2>1, <2>2, <1>d
    <2>4. \A f \in Events : processedAt'[f] /\ PaymentKind(f) /\ ~Ignored(f) => Recorded(f)'
      <3>1. CASE MarkProcessed(x)
        <4>1. \A f \in Events : f # e => processedAt'[f] = processedAt[f]
          BY <3>1 DEF MarkProcessed, IInv1, TypeOK
        <4>2. PaymentKind(e) /\ ~Ignored(e) => Recorded(e)
          BY <3>1 DEF MarkProcessed, MoneyInv, InvoiceFirst
        <4> QED
          BY <4>1, <4>2, <2>1, RecordedStays DEF MoneyInv
      <3>2. CASE RecordError(x)
        BY <3>2, <1>b DEF RecordError
      <3> QED BY <1>8, <3>1, <3>2
    <2> QED
      BY <1>8, <2>3, <2>4, <1>c DEF MarkProcessed, RecordError, MoneyInv, subVars, invoiceVars, expVars
  <1>9. ASSUME NEW e \in Events, Receive(e) \/ HandlerDies(e) \/ TakeRow(e) PROVE MoneyInv'
    <2> DEFINE x == IF TakeRow(e) THEN Recon ELSE e
    <2>1. \A y \in Executors : InvoiceFirst(y)'
      <3> SUFFICES ASSUME NEW y \in Executors PROVE InvoiceFirst(y)'
        OBVIOUS
      <3>1. CASE stage'[y] = stage[y] /\ EventAt(y)' = EventAt(y) /\ stage[y] # "idle"
        BY <3>1, RecordedStays, EventAtType DEF InvoiceFirst, MoneyInv, IInv1, PaymentKind, Ignored
      <3>2. CASE stage'[y] \in {"idle", "fail", "invoice"}
        BY <3>2 DEF InvoiceFirst
      <3>3. CASE EventAt(y)' = e /\ stage'[y] = FirstStage(e)
        BY <3>3 DEF InvoiceFirst, FirstStage, PaymentKind
      <3> QED
        BY <1>9, <3>1, <3>2, <3>3 DEF Receive, HandlerDies, TakeRow, NextRow, EventAt, reconVars, IInv1, TypeOK, RowInv
    <2> QED
      BY <1>9, <2>1, <1>b, <1>c DEF Receive, HandlerDies, TakeRow, MoneyInv, subVars, invoiceVars, inboxVars, expVars
  <1>17. ASSUME NEW e \in Events, SkipRow(e) PROVE MoneyInv'
    BY <1>17, <1>a, <1>b, <1>c DEF SkipRow, MoneyInv, subVars, invoiceVars, expVars
  <1>10. CASE FindFailedWebhookEvents
    BY <1>10, <1>a, <1>b, <1>c DEF FindFailedWebhookEvents, MoneyInv, subVars, invoiceVars, inboxVars, expVars
  <1>11. CASE ReconDies
    <2>1. \A y \in Executors : InvoiceFirst(y)'
      <3> SUFFICES ASSUME NEW y \in Executors PROVE InvoiceFirst(y)'
        OBVIOUS
      <3>1. CASE y = Recon
        BY <1>11, <3>1 DEF ReconDies, InvoiceFirst, IInv1, TypeOK
      <3>2. CASE y # Recon
        <4>1. EventAt(y)' = EventAt(y) /\ stage'[y] = stage[y]
          BY <1>11, <3>2 DEF ReconDies, EventAt, IInv1, TypeOK
        <4>2. CASE stage[y] = "idle"
          BY <4>1, <4>2 DEF InvoiceFirst
        <4>3. CASE stage[y] # "idle"
          BY <4>1, <4>3, RecordedStays, EventAtType DEF InvoiceFirst, MoneyInv, IInv1, PaymentKind, Ignored
        <4> QED BY <4>2, <4>3
      <3> QED BY <3>1, <3>2
    <2> QED
      BY <1>11, <2>1, <1>b, <1>c DEF ReconDies, MoneyInv, subVars, invoiceVars, inboxVars, expVars
  <1>12. ASSUME NEW w \in Expirers, FindDue(w) PROVE MoneyInv'
    <2>1. Due(w) \cap External = {}
      BY DEF Due, MoneyInv
    <2> QED
      BY <1>12, <2>1, <1>a, <1>b, <1>c DEF FindDue, MoneyInv, subVars, invoiceVars, inboxVars, reconVars, IInv1, TypeOK
  <1>13. ASSUME NEW w \in Expirers, InvalidateExpired(w) \/ ExpirerDies(w) PROVE MoneyInv'
    BY <1>13, <1>a, <1>b, <1>c DEF InvalidateExpired, ExpirerDies, MoneyInv, subVars, invoiceVars, inboxVars, reconVars, IInv1, TypeOK
  <1>14. ASSUME NEW w \in Expirers, NEW s \in Subs, ExpireRow(w, s) PROVE MoneyInv'
    <2>1. s \notin External
      BY <1>14 DEF ExpireRow, MoneyInv
    <2>2. \A t \in Subs \ External : Backed(t)'
      BY <1>14, PaidStays DEF ExpireRow, MoneyInv, Backed, IInv1, TypeOK
    <2> QED
      BY <1>14, <2>1, <2>2, <1>a, <1>b DEF ExpireRow, MoneyInv, invoiceVars, inboxVars, reconVars, IInv1, TypeOK
  <1>15. ASSUME NEW w \in Expirers, NEW s \in Subs, ExpireRowFails(w, s) PROVE MoneyInv'
    BY <1>15, <1>a, <1>b, <1>c DEF ExpireRowFails, MoneyInv, subVars, invoiceVars, inboxVars, reconVars, IInv1, TypeOK
  <1>16. CASE UNCHANGED vars
    BY <1>16, <1>a, <1>b, <1>c DEF vars, MoneyInv, subVars, invoiceVars, inboxVars, reconVars, expVars
  <1> QED
    BY <1>1, <1>2, <1>3, <1>4, <1>5, <1>6, <1>7, <1>8, <1>9, <1>10, <1>11, <1>12, <1>13, <1>14, <1>15, <1>16, <1>17
       DEF Next, ProcessStep

\* No payment is needed at the start: nobody is past the period.
LEMMA InitMoney == Init => MoneyInv
  BY DEF Init, MoneyInv, InvoiceFirst, Backed, Stages, Expirers

\* The money invariant holds for ever.
LEMMA MoneyInvariant == Spec => [](IInv1 /\ MoneyInv)
  BY InitIInv1, NextIInv1, InitMoney, NextMoney, PTL DEF Spec

\* Every variable keeps its type, whatever the subscriptions and the events.
THEOREM TypeCorrect == Spec => []TypeOK
  BY InitIInv1, NextIInv1, PTL DEF Spec, IInv1

\* evaluateSubscriptionAccess lets no unpaid subscription through once its
\* period is over.
THEOREM AccessSafe == Spec => []AccessIsPaidFor
  <1>1. MoneyInv => AccessIsPaidFor
    BY DEF MoneyInv, AccessIsPaidFor, HasAccess, Backed
  <1> QED
    BY <1>1, MoneyInvariant, PTL

\* processedAt is written last, on the route and in a replay.
THEOREM ProcessedSafe == Spec => []ProcessedIsRecorded
  <1>1. MoneyInv => ProcessedIsRecorded
    BY DEF MoneyInv, ProcessedIsRecorded, Recorded, PaymentKind
  <1> QED
    BY <1>1, MoneyInvariant, PTL

\* The billingManagedExternally checks of the event handler, the cancel route
\* and the status filters of the workers leave external subscriptions alone.
THEOREM ExternalSafe == Spec => []ExternalUntouched
  <1>1. MoneyInv /\ IInv1 => ExternalUntouched
    <2> SUFFICES ASSUME MoneyInv, IInv1, NEW s \in External, NEW p \in PaymentsOf(s)
                 PROVE  invoice[p] = "none"
      BY DEF MoneyInv, ExternalUntouched
    <2>1. PICK e \in Events : SubOf[e] = s /\ PaymentKind(e) /\ PaymentOf[e] = p
      BY DEF PaymentsOf, PaymentKind
    <2>2. ASSUME NEW f \in Events, PaymentOf[f] = p, PaymentKind(f) PROVE SubOf[f] = s
      BY <2>1, <2>2, PaymentAssumption DEF PaymentKind
    <2> QED
      BY <2>1, <2>2 DEF MoneyInv, Ignored, IInv1, TypeOK
  <1> QED
    BY <1>1, MoneyInvariant, PTL

-----------------------------------------------------------------------------
(* The inbox *)

\* Who may hold an event: the route holds only events that have not failed yet,
\* the worker only events that have, and a batch only such events too.
InboxInv ==
    /\ \A e \in Events :
          /\ arrival[e] = 0 => stage[e] = "idle" /\ ~processedAt[e] /\ ~processingError[e]
          /\ stage[e] # "idle" => ~processedAt[e] /\ ~processingError[e]
          /\ e \in reconBatch \cup {reconRow} =>
                /\ arrival[e] # 0
                /\ processingError[e]
                /\ ~processedAt[e]
    /\ reconRow \notin reconBatch

\* No event is held or replayed at the start.
LEMMA InitInbox == Init => InboxInv
  BY DEF Init, InboxInv

\* A row that the reconciliation worker has read is failed and held by
\* nobody else: the route never takes an event a second time.
LEMMA NextInbox == IInv1 /\ InboxInv /\ [Next]_vars => InboxInv'
  <1> SUFFICES ASSUME IInv1, InboxInv, [Next]_vars PROVE InboxInv'
    OBVIOUS
  <1> USE DEF IInv1, TypeOK, InboxInv, RowInv
  <1>1. CASE UNCHANGED <<stage, reconVars, arrival, processedAt, processingError>>
    BY <1>1 DEF reconVars
  <1>2. ASSUME NEW x \in Executors, UpsertInvoice(x) \/ UpdateStatus(x) \/ Invalidate(x) \/ Fail(x)
        PROVE InboxInv'
    BY <1>2 DEF UpsertInvoice, UpdateStatus, Invalidate, Fail, inboxVars, reconVars
  <1>3. ASSUME NEW x \in Executors, MarkProcessed(x) \/ RecordError(x) PROVE InboxInv'
    <2>1. CASE x = Recon
      BY <1>3, <2>1 DEF MarkProcessed, RecordError, Release, EventAt
    <2>2. CASE x \in Events
      BY <1>3, <2>2 DEF MarkProcessed, RecordError, Release, EventAt
    <2> QED BY <2>1, <2>2
  <1>4. ASSUME NEW e \in Events, Receive(e) PROVE InboxInv'
    BY <1>4 DEF Receive, reconVars
  <1>5. ASSUME NEW e \in Events, HandlerDies(e) \/ TakeRow(e) PROVE InboxInv'
    BY <1>5 DEF HandlerDies, TakeRow, NextRow, inboxVars, reconVars
  <1>8. ASSUME NEW e \in Events, SkipRow(e) PROVE InboxInv'
    BY <1>8 DEF SkipRow, NextRow
  <1>6. CASE FindFailedWebhookEvents
    <2>1. /\ reconBatch' \subseteq Events
          /\ \A e \in reconBatch' : arrival[e] # 0 /\ processingError[e] /\ ~processedAt[e]
      BY <1>6 DEF FindFailedWebhookEvents, Oldest, FailedRows
    <2> QED
      BY <1>6, <2>1 DEF FindFailedWebhookEvents, inboxVars
  <1>7. CASE ReconDies
    BY <1>7 DEF ReconDies, inboxVars
  <1> QED
    BY <1>1, <1>2, <1>3, <1>4, <1>5, <1>6, <1>7, <1>8 DEF Next, ProcessStep, vars, inboxVars, TimePasses,
       CancelRequested, ProviderCancels, CancelWrites, CancelEnds, EventAges, FindDue, ExpireRow,
       ExpireRowFails, InvalidateExpired, ExpirerDies

\* A step changes what the inbox shows of at most one event.
OnlyAt(e) ==
    \A f \in Events : f # e => /\ InboxPhase(f)' = InboxPhase(f)
                               /\ InboxHolder(f)' = InboxHolder(f)

SameInbox ==
    \A f \in Events : /\ InboxPhase(f)' = InboxPhase(f)
                      /\ InboxHolder(f)' = InboxHolder(f)

\* A step that changes neither phase nor holder is a stutter of the inbox.
LEMMA InboxSame == SameInbox => UNCHANGED Inbox!inboxState
  BY DEF SameInbox, Inbox!inboxState

\* A change of one event in one of the four ways the inbox allows is a step
\* of the inbox.
LEMMA InboxStep ==
    ASSUME NEW e \in Events, OnlyAt(e),
           \/ /\ InboxPhase(e) = "unseen" /\ InboxPhase(e)' = "pending"
              /\ InboxHolder(e)' = {"route"}
           \/ /\ InboxPhase(e) = "failed" /\ InboxHolder(e) = {}
              /\ InboxPhase(e)' = "failed" /\ InboxHolder(e)' = {"recon"}
           \/ /\ InboxPhase(e) \in {"pending", "failed"} /\ InboxHolder(e) # {}
              /\ InboxPhase(e)' \in {"done", "failed"} /\ InboxHolder(e)' = {}
           \/ /\ InboxHolder(e) # {} /\ InboxHolder(e)' = {}
              /\ InboxPhase(e)' = InboxPhase(e)
    PROVE  Inbox!Next
  <1> DEFINE P == [f \in Events |-> InboxPhase(f)]
             H == [f \in Events |-> InboxHolder(f)]
  <1>1. P' = [P EXCEPT ![e] = InboxPhase(e)'] /\ H' = [H EXCEPT ![e] = InboxHolder(e)']
    BY DEF OnlyAt
  <1>2. InboxPhase(e)' = InboxPhase(e) => P' = P
    BY DEF OnlyAt
  <1>3. P[e] = InboxPhase(e) /\ H[e] = InboxHolder(e)
    OBVIOUS
  <1> HIDE DEF P, H
  <1>4. CASE InboxPhase(e) = "unseen" /\ InboxPhase(e)' = "pending" /\ InboxHolder(e)' = {"route"}
    <2>1. Inbox!Accept(e, "route")
      BY <1>1, <1>3, <1>4 DEF Inbox!Accept, P, H
    <2> QED BY <2>1 DEF Inbox!Next
  <1>5. CASE /\ InboxPhase(e) = "failed" /\ InboxHolder(e) = {}
             /\ InboxPhase(e)' = "failed" /\ InboxHolder(e)' = {"recon"}
    <2>1. Inbox!Retry(e, "recon")
      BY <1>1, <1>2, <1>3, <1>5 DEF Inbox!Retry, P, H
    <2> QED BY <2>1 DEF Inbox!Next
  <1>6. CASE /\ InboxPhase(e) \in {"pending", "failed"} /\ InboxHolder(e) # {}
             /\ InboxPhase(e)' \in {"done", "failed"} /\ InboxHolder(e)' = {}
    <2>1. Inbox!Complete(e) \/ Inbox!Reject(e)
      BY <1>1, <1>3, <1>6 DEF Inbox!Complete, Inbox!Reject, P, H
    <2> QED BY <2>1 DEF Inbox!Next
  <1>7. CASE InboxHolder(e) # {} /\ InboxHolder(e)' = {} /\ InboxPhase(e)' = InboxPhase(e)
    <2>1. Inbox!Drop(e)
      BY <1>1, <1>2, <1>3, <1>7 DEF Inbox!Drop, P, H
    <2> QED BY <2>1 DEF Inbox!Next
  <1> QED BY <1>4, <1>5, <1>6, <1>7

\* Each step of the code is a step of the inbox or leaves it as it is.
LEMMA InboxNext == IInv1 /\ InboxInv /\ [Next]_vars => [Inbox!Next]_(Inbox!inboxState)
  <1> SUFFICES ASSUME IInv1, InboxInv, [Next]_vars PROVE [Inbox!Next]_(Inbox!inboxState)
    OBVIOUS
  <1> USE DEF IInv1, TypeOK, InboxInv, RowInv
  <1>1. CASE UNCHANGED <<stage, reconRow, arrival, processedAt, processingError>>
    BY <1>1, InboxSame DEF SameInbox, InboxPhase, InboxHolder
  <1>2. ASSUME NEW x \in Executors, UpsertInvoice(x) \/ UpdateStatus(x) \/ Invalidate(x) \/ Fail(x)
        PROVE  [Inbox!Next]_(Inbox!inboxState)
    <2>1. stage[x] # "idle" /\ stage' = [stage EXCEPT ![x] = stage'[x]] /\ stage'[x] # "idle"
          /\ UNCHANGED <<reconRow, arrival, processedAt, processingError>>
      BY <1>2, StagesOfExecute DEF UpsertInvoice, UpdateStatus, Invalidate, Fail, NextStage, inboxVars, reconVars
    <2>2. SameInbox
      BY <2>1 DEF SameInbox, InboxPhase, InboxHolder
    <2> QED BY <2>2, InboxSame
  <1>3. ASSUME NEW x \in Executors, MarkProcessed(x) \/ RecordError(x)
        PROVE  [Inbox!Next]_(Inbox!inboxState)
    <2>1. PICK e \in Events : e = EventAt(x)
      BY <1>3, EventAtType DEF MarkProcessed, RecordError
    <2>2. CASE x = Recon
      <3>1. /\ e = reconRow /\ reconRow' = None /\ reconRow \notin Events \ {e}
            /\ stage' = [stage EXCEPT ![Recon] = "idle"] /\ UNCHANGED arrival
        BY <1>3, <2>1, <2>2 DEF MarkProcessed, RecordError, Release, EventAt
      <3>2. /\ \A f \in Events : f # e => /\ processedAt'[f] = processedAt[f]
                                          /\ processingError'[f] = processingError[f]
            /\ processedAt'[e] \/ processingError'[e]
        BY <1>3, <2>1, <2>2 DEF MarkProcessed, RecordError
      <3>3. OnlyAt(e)
        BY <3>1, <3>2 DEF OnlyAt, InboxPhase, InboxHolder
      <3>4. /\ InboxPhase(e) = "failed" /\ InboxHolder(e) # {}
            /\ InboxPhase(e)' \in {"done", "failed"} /\ InboxHolder(e)' = {}
        BY <3>1, <3>2 DEF InboxPhase, InboxHolder
      <3> QED BY <3>3, <3>4, InboxStep
    <2>3. CASE x \in Events
      <3>1. OnlyAt(x)
        BY <1>3, <2>3 DEF MarkProcessed, RecordError, Release, EventAt, OnlyAt, InboxPhase, InboxHolder
      <3>2. /\ InboxPhase(x) = "pending" /\ InboxHolder(x) # {}
            /\ InboxPhase(x)' \in {"done", "failed"} /\ InboxHolder(x)' = {}
        BY <1>3, <2>3 DEF MarkProcessed, RecordError, Release, EventAt, InboxPhase, InboxHolder
      <3> QED BY <2>3, <3>1, <3>2, InboxStep
    <2> QED BY <2>2, <2>3
  <1>4. ASSUME NEW e \in Events, Receive(e) PROVE [Inbox!Next]_(Inbox!inboxState)
    <2>1. OnlyAt(e)
      BY <1>4 DEF Receive, OnlyAt, reconVars, InboxPhase, InboxHolder
    <2>2. /\ InboxPhase(e) = "unseen" /\ InboxPhase(e)' = "pending"
          /\ InboxHolder(e)' = {"route"}
      BY <1>4, StagesOfExecute DEF Receive, reconVars, FirstStage, InboxPhase, InboxHolder
    <2> QED BY <2>1, <2>2, InboxStep
  <1>5. ASSUME NEW e \in Events, HandlerDies(e) PROVE [Inbox!Next]_(Inbox!inboxState)
    <2>1. OnlyAt(e)
      BY <1>5 DEF HandlerDies, OnlyAt, inboxVars, reconVars, InboxPhase, InboxHolder
    <2>2. /\ InboxHolder(e) # {} /\ InboxHolder(e)' = {}
          /\ InboxPhase(e)' = InboxPhase(e)
      BY <1>5 DEF HandlerDies, inboxVars, reconVars, InboxPhase, InboxHolder
    <2> QED BY <2>1, <2>2, InboxStep
  <1>6. ASSUME NEW e \in Events, TakeRow(e) PROVE [Inbox!Next]_(Inbox!inboxState)
    <2>1. OnlyAt(e)
      BY <1>6 DEF TakeRow, NextRow, OnlyAt, inboxVars, InboxPhase, InboxHolder
    <2>2. /\ InboxPhase(e) = "failed" /\ InboxHolder(e) = {}
          /\ InboxPhase(e)' = "failed" /\ InboxHolder(e)' = {"recon"}
      BY <1>6 DEF TakeRow, NextRow, inboxVars, InboxPhase, InboxHolder
    <2> QED BY <2>1, <2>2, InboxStep
  <1>8. ASSUME NEW e \in Events, SkipRow(e) PROVE [Inbox!Next]_(Inbox!inboxState)
    <2>1. processingError' = processingError
      BY <1>8 DEF SkipRow, NextRow
    <2>2. SameInbox
      BY <1>8, <2>1 DEF SkipRow, SameInbox, InboxPhase, InboxHolder
    <2> QED BY <2>2, InboxSame
  <1>7. CASE ReconDies
    <2>1. CASE reconRow = None
      <3>1. SameInbox
        BY <1>7, <2>1 DEF ReconDies, SameInbox, inboxVars, InboxPhase, InboxHolder
      <3> QED BY <3>1, InboxSame
    <2>2. CASE reconRow \in Events
      <3>1. OnlyAt(reconRow)
        BY <1>7, <2>2 DEF ReconDies, OnlyAt, inboxVars, InboxPhase, InboxHolder
      <3>2. /\ InboxHolder(reconRow) # {} /\ InboxPhase(reconRow) = "failed"
            /\ \A e \in Events : e = reconRow => InboxHolder(e)' = {} /\ InboxPhase(e)' = "failed"
        BY <1>7, <2>2 DEF ReconDies, inboxVars, InboxPhase, InboxHolder
      <3>3. PICK e \in Events : e = reconRow
        BY <2>2
      <3> QED BY <3>1, <3>2, <3>3, InboxStep
    <2> QED BY <2>1, <2>2
  <1> QED
    BY <1>1, <1>2, <1>3, <1>4, <1>5, <1>6, <1>7, <1>8 DEF Next, ProcessStep, vars, inboxVars, reconVars, TimePasses,
       CancelRequested, ProviderCancels, CancelWrites, CancelEnds, EventAges, FindDue, ExpireRow,
       ExpireRowFails, InvalidateExpired, ExpirerDies, FindFailedWebhookEvents

\* The webhook table, its route and its reconciliation worker implement the
\* abstract inbox.
THEOREM InboxRefinement == Spec => ImplementsInbox
  <1>1. Init => Inbox!Init
    BY DEF Init, Inbox!Init, InboxPhase, InboxHolder
  <1> QED
    BY <1>1, InboxNext, InitIInv1, NextIInv1, InitInbox, NextInbox, PTL DEF Spec, ImplementsInbox, Inbox!Spec

\* While the route or the worker is at work on an event the other is not, and
\* once the event is processed neither is ever again, so no invoice or status is
\* written for it a second time.
HeldOnce ==
    \A e \in Events : /\ stage[e] = "idle" \/ reconRow # e
                      /\ processedAt[e] => stage[e] = "idle" /\ reconRow # e
ProcessedStays == \A e \in Events : processedAt[e] => processedAt'[e]

\* However late, failed or replayed an event is, it is worked on by one of the
\* two and only until it is processed.
THEOREM EventsHeldOnce == Spec => []HeldOnce /\ [][ProcessedStays]_vars
  <1>1. InboxInv => HeldOnce
    BY DEF InboxInv, HeldOnce
  <1>2. IInv1 /\ [Next]_vars => ProcessedStays
    <2> SUFFICES ASSUME IInv1, [Next]_vars PROVE ProcessedStays
      OBVIOUS
    <2>1. ASSUME NEW x \in Executors, MarkProcessed(x) PROVE ProcessedStays
      BY <2>1, EventAtType DEF MarkProcessed, IInv1, TypeOK, ProcessedStays
    <2>2. CASE UNCHANGED processedAt
      BY <2>2 DEF ProcessedStays
    <2> QED
      BY <2>1, <2>2 DEF Next, ProcessStep, vars, inboxVars, TimePasses, CancelRequested,
         ProviderCancels, CancelWrites, CancelEnds, EventAges, UpsertInvoice, UpdateStatus,
         Invalidate, Fail, RecordError, Receive, HandlerDies, TakeRow, SkipRow,
         FindFailedWebhookEvents, ReconDies, FindDue, ExpireRow, ExpireRowFails,
         InvalidateExpired, ExpirerDies
  <1> QED
    BY <1>1, <1>2, InitIInv1, NextIInv1, InitInbox, NextInbox, PTL DEF Spec

-----------------------------------------------------------------------------
(* The invoice of a debt *)

\* An invoice says what the last stored event of its payment made of it.
InvoiceInv ==
    \A p \in Payments : invoice[p] # "none" =>
        \E e \in Events : /\ PaymentOf[e] = p
                          /\ PaymentKind(e)
                          /\ arrival[e] > 0
                          /\ invoice[p] = InvoiceStatusFor(e)

\* Only the event that an executor is at work on writes an invoice, and it is stored.
LEMMA InvoiceStep == IInv1 /\ InboxInv /\ InvoiceInv /\ [Next]_vars => InvoiceInv'
  <1> SUFFICES ASSUME IInv1, InboxInv, InvoiceInv, [Next]_vars PROVE InvoiceInv'
    OBVIOUS
  <1> USE DEF PaymentKind
  <1>1. ASSUME NEW x \in Executors, UpsertInvoice(x) PROVE InvoiceInv'
    <2>1. PICK e \in Events : e = EventAt(x)
      BY <1>1, EventAtType DEF UpsertInvoice, IInv1
    <2>2. PaymentKind(e) /\ arrival[e] > 0 /\ UNCHANGED arrival
      BY <1>1, <2>1 DEF UpsertInvoice, IInv1, TypeOK, StageFits, InboxInv, RowInv, EventAt, inboxVars
    <2>3. invoice' = [invoice EXCEPT ![PaymentOf[e]] = InvoiceStatusFor(e)]
      BY <1>1, <2>1 DEF UpsertInvoice
    <2> QED
      BY <2>2, <2>3 DEF InvoiceInv, InvoiceStatusFor, IInv1, TypeOK
  <1>2. ASSUME NEW e \in Events, Receive(e) PROVE InvoiceInv'
    BY <1>2 DEF Receive, InvoiceInv, InvoiceStatusFor, invoiceVars, IInv1, TypeOK
  <1>3. CASE UNCHANGED <<invoice, arrival>>
    BY <1>3 DEF InvoiceInv, InvoiceStatusFor
  <1> QED
    BY <1>1, <1>2, <1>3 DEF Next, ProcessStep, vars, invoiceVars, inboxVars, TimePasses, CancelRequested,
       ProviderCancels, CancelWrites, CancelEnds, EventAges, UpdateStatus, Invalidate,
       Fail, MarkProcessed, RecordError, HandlerDies, TakeRow, SkipRow,
       FindFailedWebhookEvents, ReconDies, FindDue, ExpireRow, ExpireRowFails,
       InvalidateExpired, ExpirerDies

\* handlePaymentFailed writes the OVERDUE invoice before it sets PAST_DUE; only
\* another event of the same payment makes it say something else.
THEOREM DebtSafe == Spec => []DebtIsFindable
  <1>1. IInv1 /\ MoneyInv /\ InvoiceInv => DebtIsFindable
    <2> SUFFICES ASSUME IInv1, MoneyInv, InvoiceInv, NEW s \in Subs, status[s] = "PAST_DUE"
                 PROVE  \E e \in Events :
                            /\ SubOf[e] = s
                            /\ Kind[e] = "PAYMENT_FAILED"
                            /\ invoice[PaymentOf[e]] = "OVERDUE" \/ Settled(PaymentOf[e])
      BY DEF DebtIsFindable
    <2>1. Refused(s)
      BY DEF MoneyInv, Backed
    <2>2. PICK e \in Events : /\ SubOf[e] = s
                              /\ Kind[e] = "PAYMENT_FAILED"
                              /\ invoice[PaymentOf[e]] # "none"
      BY <2>1 DEF Refused
    <2>3. PICK f \in Events : /\ PaymentOf[f] = PaymentOf[e]
                              /\ PaymentKind(f)
                              /\ arrival[f] > 0
                              /\ invoice[PaymentOf[e]] = InvoiceStatusFor(f)
      BY <2>2 DEF InvoiceInv
    <2>4. invoice[PaymentOf[e]] = "OVERDUE" \/ Settled(PaymentOf[e])
      BY <2>3 DEF Settled, InvoiceStatusFor, PaymentKind, Kinds
    <2> QED
      BY <2>2, <2>4
  <1>2. Init => InvoiceInv
    BY DEF Init, InvoiceInv
  <1> QED
    BY <1>1, <1>2, InvoiceStep, MoneyInvariant, InitIInv1, NextIInv1, InitInbox, NextInbox, PTL DEF Spec

InvoicesAreKept ==
    \A p \in Payments : /\ invoice[p] # "none" => invoice'[p] # "none"
                        /\ paidAt[p] => paidAt'[p]

\* No event out of order takes an invoice or the date of its payment away.
THEOREM InvoicesKept == Spec => [][InvoicesAreKept]_vars
  <1>1. IInv1 /\ [Next]_vars => InvoicesAreKept
    BY InvoicesStay DEF InvoicesAreKept
  <1> QED BY <1>1, InitIInv1, NextIInv1, PTL DEF Spec

-----------------------------------------------------------------------------
(* The period that was paid for *)

\* A batch of an expiry worker holds subscriptions whose period is over, however
\* old the batch is: only the status may have changed since.
PeriodInv ==
    /\ \A w \in Expirers : \A s \in expBatch[w] : age[s] > 0
    /\ \A s \in Subs : status[s] = "EXPIRED" => age[s] > 0

\* Only an expiry worker expires, and no period begins again.
LEMMA PeriodStep ==
    ASSUME IInv1, PeriodInv, [Next]_vars
    PROVE  PeriodInv'
  <1> USE DEF IInv1, TypeOK, PeriodInv
  <1>1. CASE UNCHANGED <<age, status, expBatch>>
    BY <1>1
  <1>2. ASSUME NEW s \in Subs, TimePasses(s) PROVE PeriodInv'
    BY <1>2 DEF TimePasses, expVars
  <1>3. ASSUME NEW x \in Executors, UpdateStatus(x) PROVE PeriodInv'
    BY <1>3, EventAtType, StagesOfExecute DEF UpdateStatus, expVars
  <1>4. ASSUME NEW s \in Subs, CancelWrites(s) PROVE PeriodInv'
    BY <1>4 DEF CancelWrites, expVars
  <1>5. ASSUME NEW w \in Expirers, FindDue(w) PROVE PeriodInv'
    <2>1. \A s \in Due(w) : age[s] > 0
      BY DEF Due
    <2>2. PICK B \in SUBSET Due(w) : expBatch' = [expBatch EXCEPT ![w] = B]
      BY <1>5 DEF FindDue
    <2> QED BY <1>5, <2>1, <2>2 DEF FindDue, subVars
  <1>6. ASSUME NEW w \in Expirers, NEW s \in Subs, ExpireRow(w, s) PROVE PeriodInv'
    BY <1>6 DEF ExpireRow
  <1>7. ASSUME NEW w \in Expirers,
               ExpirerDies(w) \/ \E s \in Subs : ExpireRowFails(w, s)
        PROVE  PeriodInv'
    BY <1>7 DEF ExpirerDies, ExpireRowFails, subVars
  <1> QED
    BY <1>1, <1>2, <1>3, <1>4, <1>5, <1>6, <1>7 DEF Next, ProcessStep, vars, subVars, expVars,
       CancelRequested, ProviderCancels, CancelEnds, EventAges, UpsertInvoice, Invalidate,
       Fail, MarkProcessed, RecordError, Receive, HandlerDies, TakeRow, SkipRow,
       FindFailedWebhookEvents, ReconDies, InvalidateExpired

\* Before its period is over, an organization is locked out by a refused payment
\* and by nothing else: no trial worker with an old batch, no cancellation and no
\* replayed event closes the gate early.
AccessWithinPeriod ==
    \A s \in Subs : age[s] = 0 /\ ~HasAccess(s) => status[s] = "PAST_DUE"

\* The workers expire what is over, whatever it became after they read it.
THEOREM NobodyLockedOutEarly == Spec => []AccessWithinPeriod
  <1>1. Init => PeriodInv
    BY DEF Init, PeriodInv
  <1>2. IInv1 /\ PeriodInv /\ [Next]_vars => PeriodInv'
    BY PeriodStep
  <1>3. IInv1 /\ PeriodInv => AccessWithinPeriod
    BY DEF IInv1, TypeOK, Status, PeriodInv, AccessWithinPeriod, HasAccess
  <1> QED BY <1>1, <1>2, <1>3, InitIInv1, NextIInv1, PTL DEF Spec
=============================================================================
