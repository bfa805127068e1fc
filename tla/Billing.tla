------------------------------- MODULE Billing -------------------------------
(***************************************************************************)
(* The subscription, invoice and webhook-event tables of the billing       *)
(* module and everything that writes them: the Asaas webhook route, the    *)
(* hourly reconciliation worker that replays failed events, the three      *)
(* hourly expiry workers and the cancel route.  Every await of the code is *)
(* a point where another actor may run, and where the step may fail or the *)
(* process may die.  The read cache is not state of this module; deleting  *)
(* the cached entry is a step because it can fail.                         *)
(***************************************************************************)
EXTENDS Naturals, FiniteSets

CONSTANTS
    Subs,        \* rows of Subscription, one per organization
    External,    \* the subscriptions with billingManagedExternally
    Events,      \* externalIds the provider may deliver, each any number of times
    Kind,        \* Kind[e]: the canonical type of event e
    SubOf,       \* SubOf[e]: the subscription of its providerCustomerId, or None
    PaymentOf,   \* PaymentOf[e]: its providerPaymentId
    Payments,
    Unreadable,  \* events whose stored payload the running worker's schema refuses:
                 \* the row was written by an earlier version of CanonicalEventSchema
    BatchLimit,  \* BATCH_LIMIT of the workers
    Recon,       \* the reconciliation worker
    None

Kinds == {"PAYMENT_SUCCEEDED", "PAYMENT_FAILED", "PAYMENT_REFUNDED",
          "SUBSCRIPTION_CANCELED_BY_PROVIDER"}

ASSUME BillingAssumption ==
    /\ External \subseteq Subs
    /\ Kind \in [Events -> Kinds]
    /\ SubOf \in [Events -> Subs \cup {None}]
    /\ PaymentOf \in [Events -> Payments]
    /\ Unreadable \subseteq Events
    /\ BatchLimit \in Nat \ {0}
    /\ None \notin Subs \cup Events
    /\ Recon \notin Events

\* A payment of the provider belongs to one customer.
ASSUME PaymentAssumption ==
    \A e, f \in Events :
        /\ PaymentOf[e] = PaymentOf[f]
        /\ "SUBSCRIPTION_CANCELED_BY_PROVIDER" \notin {Kind[e], Kind[f]}
        => SubOf[e] = SubOf[f]

VARIABLES
    status,           \* Subscription.status
    age,              \* 0: inside the period, 1: period over, 2: dunning cutoff passed
    invoice,          \* Invoice.status by billingProviderPaymentId, "none": no row
    paidAt,           \* Invoice.paidAt is set
    received,         \* number of WebhookEvent rows
    arrival,          \* receivedAt as an arrival number, 0: no row
    horizon,          \* rows with arrival =< horizon are older than MAX_AGE_DAYS
    processedAt,      \* WebhookEvent.processedAt is set
    processingError,  \* WebhookEvent.processingError is not null
    stage,            \* next await of the route handler of an event, or of Recon
    reconBatch,       \* rows the reconciliation run has read and not yet reached
    reconRow,         \* the row it is working on
    expBatch,         \* rows an expiry worker has read and not yet reached
    expRow,           \* the row it expired and must still invalidate
    cancelling        \* the cancel request of a subscription

subVars    == <<status, age>>
invoiceVars == <<invoice, paidAt>>
inboxVars  == <<received, arrival, horizon, processedAt, processingError>>
reconVars  == <<reconBatch, reconRow>>
expVars    == <<expBatch, expRow>>
vars == <<subVars, invoiceVars, inboxVars, stage, reconVars, expVars, cancelling>>

Status == {"TRIALING", "ACTIVE", "PAST_DUE", "CANCELED", "EXPIRED",
           "BILLED_EXTERNALLY"}
InvoiceStatus == {"none", "PAID", "OVERDUE", "REFUNDED"}
Stages == {"idle", "invoice", "status", "cache", "mark", "fail"}
Executors == Events \cup {Recon}
Expirers == {"trial", "canceled", "dunning"}

TypeOK ==
    /\ status \in [Subs -> Status]
    /\ age \in [Subs -> 0..2]
    /\ invoice \in [Payments -> InvoiceStatus]
    /\ paidAt \in [Payments -> BOOLEAN]
    /\ received \in Nat
    /\ arrival \in [Events -> Nat]
    /\ horizon \in Nat
    /\ processedAt \in [Events -> BOOLEAN]
    /\ processingError \in [Events -> BOOLEAN]
    /\ stage \in [Executors -> Stages]
    /\ reconBatch \subseteq Events
    /\ reconRow \in Events \cup {None}
    /\ expBatch \in [Expirers -> SUBSET Subs]
    /\ expRow \in [Expirers -> Subs \cup {None}]
    /\ cancelling \in [Subs -> {"idle", "provider", "write", "cache"}]

\* An organization starts its trial when it is created; the others are set up
\* by hand as billed outside the provider.
Init ==
    /\ status = [s \in Subs |-> IF s \in External THEN "BILLED_EXTERNALLY"
                                                  ELSE "TRIALING"]
    /\ age = [s \in Subs |-> 0]
    /\ invoice = [p \in Payments |-> "none"]
    /\ paidAt = [p \in Payments |-> FALSE]
    /\ received = 0
    /\ arrival = [e \in Events |-> 0]
    /\ horizon = 0
    /\ processedAt = [e \in Events |-> FALSE]
    /\ processingError = [e \in Events |-> FALSE]
    /\ stage = [x \in Executors |-> "idle"]
    /\ reconBatch = {}
    /\ reconRow = None
    /\ expBatch = [w \in Expirers |-> {}]
    /\ expRow = [w \in Expirers |-> None]
    /\ cancelling = [s \in Subs |-> "idle"]

-----------------------------------------------------------------------------
(* Time.  currentPeriodEnd is set once, with trialEndsAt equal to it, and   *)
(* never moved; the due date of an invoice is the period end.  The period   *)
(* of an external subscription is a hundred years long.                     *)

TimePasses(s) ==
    /\ s \notin External
    /\ age[s] < 2
    /\ age' = [age EXCEPT ![s] = @ + 1]
    /\ UNCHANGED <<status, invoiceVars, inboxVars, stage, reconVars, expVars,
                   cancelling>>

\* The oldest stored event becomes older than MAX_AGE_DAYS.
EventAges ==
    /\ horizon < received
    /\ horizon' = horizon + 1
    /\ UNCHANGED <<subVars, invoiceVars, received, arrival, processedAt,
                   processingError, stage, reconVars, expVars, cancelling>>

-----------------------------------------------------------------------------
(* ProcessBillingWebhookEvent.execute, run by the route handler of an event *)
(* and by the reconciliation worker for the row it is on.                   *)

EventAt(x) == IF x = Recon THEN reconRow ELSE x

\* Fault: the external subscription is not skipped.
IgnoredUnknownOnly(e) == SubOf[e] \notin Subs

\* subscription_not_found and billing_managed_externally: nothing is written.
Ignored(e) == SubOf[e] \notin Subs \ External

\* Fault: a refused payment only changes the status.
FirstStageNoDebt(e) ==
    IF Ignored(e) THEN "mark"
    ELSE IF Kind[e] \in {"SUBSCRIPTION_CANCELED_BY_PROVIDER", "PAYMENT_FAILED"}
         THEN "status" ELSE "invoice"

FirstStage(e) ==
    IF Ignored(e) THEN "mark"
    ELSE IF Kind[e] = "SUBSCRIPTION_CANCELED_BY_PROVIDER" THEN "status"
    ELSE "invoice"

NextStage(e, s) ==
    IF s = "invoice" /\ Kind[e] # "PAYMENT_REFUNDED" THEN "status"
    ELSE IF s = "cache" THEN "mark" ELSE "cache"

InvoiceStatusFor(e) ==
    IF Kind[e] = "PAYMENT_SUCCEEDED" THEN "PAID"
    ELSE IF Kind[e] = "PAYMENT_FAILED" THEN "OVERDUE" ELSE "REFUNDED"

StatusFor(e) ==
    IF Kind[e] = "PAYMENT_SUCCEEDED" THEN "ACTIVE"
    ELSE IF Kind[e] = "PAYMENT_FAILED" THEN "PAST_DUE" ELSE "CANCELED"

\* upsertInvoice: an undefined paidAt leaves the stored one as it is.
UpsertInvoice(x) ==
    LET e == EventAt(x) IN
    /\ stage[x] = "invoice"
    /\ invoice' = [invoice EXCEPT ![PaymentOf[e]] = InvoiceStatusFor(e)]
    /\ paidAt' = IF Kind[e] = "PAYMENT_SUCCEEDED"
                     THEN [paidAt EXCEPT ![PaymentOf[e]] = TRUE] ELSE paidAt
    /\ stage' = [stage EXCEPT ![x] = NextStage(e, "invoice")]
    /\ UNCHANGED <<subVars, inboxVars, reconVars, expVars, cancelling>>

\* updateStatus: no condition on the status it overwrites.
UpdateStatus(x) ==
    LET e == EventAt(x) IN
    /\ stage[x] = "status"
    /\ status' = [status EXCEPT ![SubOf[e]] = StatusFor(e)]
    /\ stage' = [stage EXCEPT ![x] = NextStage(e, "status")]
    /\ UNCHANGED <<age, invoiceVars, inboxVars, reconVars, expVars, cancelling>>

\* publishInvalidation
Invalidate(x) ==
    /\ stage[x] = "cache"
    /\ stage' = [stage EXCEPT ![x] = NextStage(EventAt(x), "cache")]
    /\ UNCHANGED <<subVars, invoiceVars, inboxVars, reconVars, expVars,
                   cancelling>>

\* Whichever await throws, the catch block is entered.
Fail(x) ==
    /\ stage[x] \notin {"idle", "fail"}
    /\ stage' = [stage EXCEPT ![x] = "fail"]
    /\ UNCHANGED <<subVars, invoiceVars, inboxVars, reconVars, expVars,
                   cancelling>>

\* Leaves the row: the handler replies, or the worker goes to its next row.
Release(x) ==
    /\ stage' = [stage EXCEPT ![x] = "idle"]
    /\ reconRow' = IF x = Recon THEN None ELSE reconRow

\* The route sets processedAt, also for an ignored event; the worker clears
\* processingError in the same update.
MarkProcessed(x) ==
    LET e == EventAt(x) IN
    /\ stage[x] = "mark"
    /\ processedAt' = [processedAt EXCEPT ![e] = TRUE]
    /\ processingError' = IF x = Recon
                              THEN [processingError EXCEPT ![e] = FALSE]
                              ELSE processingError
    /\ Release(x)
    /\ UNCHANGED <<subVars, invoiceVars, received, arrival, horizon, reconBatch,
                   expVars, cancelling>>

\* Fault: processedAt is set in a finally block.
RecordErrorAsProcessed(x) ==
    /\ stage[x] = "fail"
    /\ processingError' = [processingError EXCEPT ![EventAt(x)] = TRUE]
    /\ processedAt' = [processedAt EXCEPT ![EventAt(x)] = TRUE]
    /\ Release(x)
    /\ UNCHANGED <<subVars, invoiceVars, received, arrival, horizon, reconBatch,
                   expVars, cancelling>>

RecordError(x) ==
    /\ stage[x] = "fail"
    /\ processingError' = [processingError EXCEPT ![EventAt(x)] = TRUE]
    /\ Release(x)
    /\ UNCHANGED <<subVars, invoiceVars, received, arrival, horizon, processedAt,
                   reconBatch, expVars, cancelling>>

ProcessStep(x) ==
    \/ UpsertInvoice(x)
    \/ UpdateStatus(x)
    \/ Invalidate(x)
    \/ MarkProcessed(x)
    \/ RecordError(x)

-----------------------------------------------------------------------------
(* The webhook route: POST /api/webhooks/asaas.                             *)

\* A delivery whose row already exists is answered 200 and changes nothing:
\* the unique key on externalId is the guard.
Receive(e) ==
    /\ arrival[e] = 0
    /\ received' = received + 1
    /\ arrival' = [arrival EXCEPT ![e] = received + 1]
    /\ stage' = [stage EXCEPT ![e] = FirstStage(e)]
    /\ UNCHANGED <<subVars, invoiceVars, horizon, processedAt, processingError,
                   reconVars, expVars, cancelling>>

\* The server dies, or the update in the catch block throws and the request
\* ends in a 500: either way nothing more is written for this delivery.
HandlerDies(e) ==
    /\ stage[e] # "idle"
    /\ stage' = [stage EXCEPT ![e] = "idle"]
    /\ UNCHANGED <<subVars, invoiceVars, inboxVars, reconVars, expVars,
                   cancelling>>

-----------------------------------------------------------------------------
(* The reconciliation worker (hourly, one run at a time).                   *)

\* Fault: every unprocessed row is picked, so that none is ever lost.
UnprocessedRows ==
    {e \in Events : arrival[e] > horizon /\ ~processedAt[e]}

FailedRows ==
    {e \in Events : /\ arrival[e] > horizon
                    /\ processingError[e]
                    /\ ~processedAt[e]}

\* The BatchLimit rows of S that arrived first.
Oldest(S) ==
    {e \in S : Cardinality({f \in S : arrival[f] < arrival[e]}) < BatchLimit}

FindFailedWebhookEvents ==
    /\ reconBatch = {} /\ reconRow = None
    /\ FailedRows # {}
    /\ reconBatch' = Oldest(FailedRows)
    /\ UNCHANGED <<subVars, invoiceVars, inboxVars, stage, reconRow, expVars,
                   cancelling>>

\* The loop goes through the rows in the order of their arrival.
NextRow(e) ==
    /\ reconRow = None
    /\ e \in reconBatch
    /\ \A f \in reconBatch : arrival[e] =< arrival[f]

TakeRow(e) ==
    /\ NextRow(e)
    /\ e \notin Unreadable
    /\ reconRow' = e
    /\ reconBatch' = reconBatch \ {e}
    /\ stage' = [stage EXCEPT ![Recon] = FirstStage(e)]
    /\ UNCHANGED <<subVars, invoiceVars, inboxVars, expVars, cancelling>>

\* Fault: the loop ends at a row it cannot read.
SkipRowAndRest(e) ==
    /\ NextRow(e)
    /\ e \in Unreadable
    /\ reconBatch' = {}
    /\ processingError' = [processingError EXCEPT ![e] = TRUE]
    /\ UNCHANGED <<subVars, invoiceVars, received, arrival, horizon, processedAt,
                   stage, reconRow, expVars, cancelling>>

\* safeParse refuses the payload: the error is written anew and the row is skipped,
\* so that every later run finds it again.
SkipRow(e) ==
    /\ NextRow(e)
    /\ e \in Unreadable
    /\ reconBatch' = reconBatch \ {e}
    /\ processingError' = [processingError EXCEPT ![e] = TRUE]
    /\ UNCHANGED <<subVars, invoiceVars, received, arrival, horizon, processedAt,
                   stage, reconRow, expVars, cancelling>>

\* The worker dies, or the update in its catch block or for a skipped row throws
\* and the job fails: the rest of the batch waits for the next run.
ReconDies ==
    /\ reconBatch # {} \/ reconRow # None
    /\ reconBatch' = {}
    /\ reconRow' = None
    /\ stage' = [stage EXCEPT ![Recon] = "idle"]
    /\ UNCHANGED <<subVars, invoiceVars, inboxVars, expVars, cancelling>>

-----------------------------------------------------------------------------
(* The expiry workers: trial-expiry, expire-subscriptions and dunning.      *)

PaymentsOf(s) ==
    {PaymentOf[e] : e \in {f \in Events : /\ SubOf[f] = s
             /\ Kind[f] # "SUBSCRIPTION_CANCELED_BY_PROVIDER"}}

Due(w) ==
    {s \in Subs :
        \/ w = "trial" /\ status[s] = "TRIALING" /\ age[s] > 0
        \/ w = "canceled" /\ status[s] = "CANCELED" /\ age[s] > 0
        \/ /\ w = "dunning" /\ status[s] = "PAST_DUE" /\ age[s] = 2
           /\ \E p \in PaymentsOf(s) : invoice[p] = "OVERDUE"}

FindDue(w) ==
    /\ expBatch[w] = {} /\ expRow[w] = None
    /\ \E B \in SUBSET Due(w) :
          /\ B # {}
          /\ B = Due(w) \/ Cardinality(B) = BatchLimit
          /\ expBatch' = [expBatch EXCEPT ![w] = B]
    /\ UNCHANGED <<subVars, invoiceVars, inboxVars, stage, reconVars, expRow,
                   cancelling>>

\* Fault: only endedAt is written.
ExpireRowEndedAtOnly(w, s) ==
    /\ expRow[w] = None
    /\ s \in expBatch[w]
    /\ expBatch' = [expBatch EXCEPT ![w] = @ \ {s}]
    /\ expRow' = [expRow EXCEPT ![w] = s]
    /\ UNCHANGED <<subVars, invoiceVars, inboxVars, stage, reconVars, cancelling>>

\* The update is by id only: the status read with the batch is not checked again.
ExpireRow(w, s) ==
    /\ expRow[w] = None
    /\ s \in expBatch[w]
    /\ status' = [status EXCEPT ![s] = "EXPIRED"]
    /\ expBatch' = [expBatch EXCEPT ![w] = @ \ {s}]
    /\ expRow' = [expRow EXCEPT ![w] = s]
    /\ UNCHANGED <<age, invoiceVars, inboxVars, stage, reconVars, cancelling>>

\* The update throws: the row is skipped and counted as a failure.
ExpireRowFails(w, s) ==
    /\ expRow[w] = None
    /\ s \in expBatch[w]
    /\ expBatch' = [expBatch EXCEPT ![w] = @ \ {s}]
    /\ UNCHANGED <<subVars, invoiceVars, inboxVars, stage, reconVars, expRow,
                   cancelling>>

\* invalidateCache; when it throws the row counts as failed all the same.
InvalidateExpired(w) ==
    /\ expRow[w] # None
    /\ expRow' = [expRow EXCEPT ![w] = None]
    /\ UNCHANGED <<subVars, invoiceVars, inboxVars, stage, reconVars, expBatch,
                   cancelling>>

ExpirerDies(w) ==
    /\ expBatch[w] # {} \/ expRow[w] # None
    /\ expBatch' = [expBatch EXCEPT ![w] = {}]
    /\ expRow' = [expRow EXCEPT ![w] = None]
    /\ UNCHANGED <<subVars, invoiceVars, inboxVars, stage, reconVars, cancelling>>

-----------------------------------------------------------------------------
(* POST /api/v1/billing/cancel-subscription, one request at a time.         *)

CancelRequested(s) ==
    /\ cancelling[s] = "idle"
    /\ s \notin External
    /\ status[s] \notin {"CANCELED", "EXPIRED"}
    /\ cancelling' = [cancelling EXCEPT ![s] = "provider"]
    /\ UNCHANGED <<subVars, invoiceVars, inboxVars, stage, reconVars, expVars>>

\* provider.cancelSubscription, skipped when the row has no provider ids.
ProviderCancels(s) ==
    /\ cancelling[s] = "provider"
    /\ cancelling' = [cancelling EXCEPT ![s] = "write"]
    /\ UNCHANGED <<subVars, invoiceVars, inboxVars, stage, reconVars, expVars>>

CancelWrites(s) ==
    /\ cancelling[s] = "write"
    /\ status' = [status EXCEPT ![s] = "CANCELED"]
    /\ cancelling' = [cancelling EXCEPT ![s] = "cache"]
    /\ UNCHANGED <<age, invoiceVars, inboxVars, stage, reconVars, expVars>>

\* The reply: 200 after the invalidation, 502 when the provider refuses, 500
\* when an await throws, none when the server dies.
CancelEnds(s) ==
    /\ cancelling[s] # "idle"
    /\ cancelling' = [cancelling EXCEPT ![s] = "idle"]
    /\ UNCHANGED <<subVars, invoiceVars, inboxVars, stage, reconVars, expVars>>

-----------------------------------------------------------------------------
Next ==
    \/ \E s \in Subs : \/ TimePasses(s)
                       \/ CancelRequested(s)
                       \/ ProviderCancels(s)
                       \/ CancelWrites(s)
                       \/ CancelEnds(s)
    \/ EventAges
    \/ \E x \in Executors : ProcessStep(x) \/ Fail(x)
    \/ \E e \in Events : Receive(e) \/ HandlerDies(e) \/ TakeRow(e) \/ SkipRow(e)
    \/ FindFailedWebhookEvents
    \/ ReconDies
    \/ \E w \in Expirers :
          \/ FindDue(w)
          \/ \E s \in Subs : ExpireRow(w, s) \/ ExpireRowFails(w, s)
          \/ InvalidateExpired(w)
          \/ ExpirerDies(w)

Spec == Init /\ [][Next]_vars

\* The hourly jobs are scheduled for ever (upsertJobScheduler) and a handler
\* that is not interrupted goes on.  A step of a worker that may throw or die
\* is strongly fair: the database does not refuse the same row every hour.  Of a
\* row whose payload is refused nothing is asked but that it is skipped.
ReconFairness ==
    /\ WF_vars(FindFailedWebhookEvents)
    /\ WF_vars(RecordError(Recon))
    /\ \A e \in Unreadable : SF_vars(SkipRow(e))
    /\ \A e \in Events \ Unreadable :
          /\ SF_vars(TakeRow(e))
          /\ SF_vars(reconRow = e /\ UpsertInvoice(Recon))
          /\ SF_vars(reconRow = e /\ UpdateStatus(Recon))
          /\ SF_vars(reconRow = e /\ Invalidate(Recon))
          /\ SF_vars(reconRow = e /\ MarkProcessed(Recon))

ExpiryFairness ==
    \A w \in Expirers :
        /\ WF_vars(FindDue(w))
        /\ WF_vars(InvalidateExpired(w))
        /\ \A s \in Subs : SF_vars(ExpireRow(w, s))

FairSpec == Spec /\ ReconFairness /\ ExpiryFairness

RetrySpec == Spec /\ ReconFairness

-----------------------------------------------------------------------------
(* Properties *)

\* Fault: the gate waits for the worker to expire a cancelled subscription.
HasAccessUntilExpired(s) ==
    \/ status[s] \in {"ACTIVE", "BILLED_EXTERNALLY", "CANCELED"}
    \/ status[s] = "TRIALING" /\ age[s] = 0

\* evaluateSubscriptionAccess on the stored row.
HasAccess(s) ==
    \/ status[s] \in {"ACTIVE", "BILLED_EXTERNALLY"}
    \/ status[s] \in {"TRIALING", "CANCELED"} /\ age[s] = 0

Paid(s) ==
    \E e \in Events : /\ SubOf[e] = s
                      /\ Kind[e] = "PAYMENT_SUCCEEDED"
                      /\ paidAt[PaymentOf[e]]

\* Once its period is over, a subscription billed by the provider has access
\* only if one of its payments was recorded: no order of events, failures,
\* replays, expiries and cancellations opens the 402 gate without a payment.
AccessIsPaidFor ==
    \A s \in Subs \ External : age[s] > 0 /\ HasAccess(s) => Paid(s)

\* The payment or refund of p was delivered too, and has the invoice say so.
Settled(p) ==
    \E e \in Events :
        /\ PaymentOf[e] = p
        /\ Kind[e] \in {"PAYMENT_SUCCEEDED", "PAYMENT_REFUNDED"}
        /\ arrival[e] > 0
        /\ invoice[p] = InvoiceStatusFor(e)

\* A subscription is PAST_DUE only with a refused payment whose invoice is OVERDUE,
\* which is what the dunning worker looks for.  The one exception is what the code
\* does when the same payment is also settled: the other event overwrites the
\* invoice, but its own status is not written, or the refusal's lands after it.
DebtIsFindable ==
    \A s \in Subs : status[s] = "PAST_DUE" =>
        \E e \in Events :
            /\ SubOf[e] = s
            /\ Kind[e] = "PAYMENT_FAILED"
            /\ invoice[PaymentOf[e]] = "OVERDUE" \/ Settled(PaymentOf[e])

\* An event marked as processed, whether by the route or by a replay after any
\* number of failures and crashes, has its invoice recorded.
ProcessedIsRecorded ==
    \A e \in Events :
        /\ processedAt[e]
        /\ ~Ignored(e)
        /\ Kind[e] # "SUBSCRIPTION_CANCELED_BY_PROVIDER"
        => /\ invoice[PaymentOf[e]] # "none"
           /\ Kind[e] = "PAYMENT_SUCCEEDED" => paidAt[PaymentOf[e]]

\* No webhook, expiry worker or cancel request changes a subscription that is
\* managed externally, or opens an invoice for it.
ExternalUntouched ==
    \A s \in External :
        /\ status[s] = "BILLED_EXTERNALLY"
        /\ \A p \in PaymentsOf(s) : invoice[p] = "none"

InboxPhase(e) ==
    IF arrival[e] = 0 THEN "unseen"
    ELSE IF processedAt[e] THEN "done"
    ELSE IF processingError[e] THEN "failed" ELSE "pending"

InboxHolder(e) ==
    (IF stage[e] # "idle" THEN {"route"} ELSE {}) \cup
    (IF reconRow = e THEN {"recon"} ELSE {})

Inbox == INSTANCE WebhookInbox WITH
    Workers <- {"route", "recon"},
    phase <- [e \in Events |-> InboxPhase(e)],
    holder <- [e \in Events |-> InboxHolder(e)]

\* Seen event by event, the table, the route and the reconciliation worker
\* implement WebhookInbox: one worker at a time, and nothing after processedAt.
ImplementsInbox == Inbox!Spec

\* The batch is full of older rows that no run will ever process.
CrowdedOut(e) ==
    Cardinality({f \in FailedRows \cap Unreadable : arrival[f] < arrival[e]})
        >= BatchLimit

\* A failed event that can be read back is replayed until it is processed or too
\* old to be picked, whatever fails or is skipped before it in the batch, unless
\* older unreadable rows fill the batch.
FailedIsRetried ==
    \A e \in Events \ Unreadable :
        processingError[e] /\ ~processedAt[e]
            ~> (processedAt[e] \/ arrival[e] =< horizon \/ CrowdedOut(e))

\* A subscription that a worker has to expire does not stay as it is: ended
\* trials, ended cancelled periods, and debts past the dunning cutoff.
DueIsExpired == \A w \in Expirers, s \in Subs : s \in Due(w) ~> s \notin Due(w)

\* Not true of the code.  The log line of the route says a failed event is
\* stored and retried by the reconciliation worker; an event whose handler died
\* before it recorded an error is stored, never picked and never delivered again.
StoredIsRetriable ==
    \A e \in Events :
        arrival[e] > 0 /\ ~processedAt[e] /\ stage[e] = "idle"
            => processingError[e]
=============================================================================
