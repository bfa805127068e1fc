# Bens Seguros: specifications, model checks and proofs

Bens Seguros is a multi-tenant SaaS for insurance brokerages: a Fastify REST
server, a BullMQ worker, a chat server with its own worker (WhatsApp, Meta and a
web widget, with an AI agent), PostgreSQL through Prisma, MongoDB for chat, Redis
for queues and caches.  This directory holds TLA+ modules translated from that
code, the TLC configurations that check them, and proofs for TLAPS.

All source paths below are relative to `src/`.

## 1. Inventory

| component | state | operations | who else touches the state |
|---|---|---|---|
| billing, subscription (`packages/core/src/modules/billing`, `apps/server/src/routes/webhooks/asaas`, `apps/worker/src/processors`) | `Subscription`, `Invoice`, `WebhookEvent` | webhook route, hourly replay of failed events, three hourly expiry workers, cancel route | the 402 gate of every request reads the row through a Redis cache |
| billing, cache (`apps/server/src/lib/subscription-cache.ts`) | one Redis entry per organization, TTL 30 s | read-through, invalidation by pub/sub | the gate, every writer of the subscription |
| chat, conversation (`apps/chat-server`, `apps/chat-worker`) | `Conversation`, `Message` in MongoDB | assign, transfer, return to queue or bot, close, escalate, hourly auto-close | agents, the AI agent, the client, the auto-close job |
| chat, AI agent (`apps/chat-worker/src/processors/ai-bot-processor.ts`) | BullMQ jobs, bot messages | count, generate, save, send, escalate, retry | the conversation, agents who take it over |
| chat, incoming and outgoing messages | BullMQ jobs, `Message`, `Contact` | dedup, find or create the conversation, store, send with retries | provider deliveries, three concurrent workers |
| chat, presence, rate limit, Baileys sessions | Redis, sockets | connect, disconnect | not modelled |
| sales, proposals (`packages/core/src/modules/sales/proposals`) | `Proposal`, `ProposalChecklistItem` | advance stage, lose, reopen, checklist | documents complete checklist items; issuing a policy ends it |
| sales, policies | `Policy`, `Endorsement` | issue, cancel, daily expiry | creates the commission |
| commissions (`packages/core/src/modules/commission`) | `Commission` | approve, pay, reject, reverse | two approvers |
| workspace (`packages/core/src/modules/workspace`) | `Member`, `Invitation`, `Organization` | invite, accept, cancel, change role, deactivate | two owners acting at once |
| servicing (claims, assistance, occurrences) | `Claim`, `Assistance`, `Occurrence` | status transitions | alert workers |
| clients, insurers, documents, search, dashboard, goals | tables | create, update, list | plain CRUD |
| notifications, alerts | `Notification`, jobs | enqueue, deliver | every module |
| AI usage and entitlements | `AiUsageRecord`, plan | count, gate | AI agent, AI routes |
| web and widget (`apps/web`, `apps/widget`) | browser state | UI | the REST and socket APIs |

What is hard here: two kinds of writer (request handlers and workers) meet on one
row with no version column; each handler is a chain of awaits any of which may
throw; jobs are retried; providers deliver twice and out of order; and most
checks are made on a row read earlier than the update they guard.

### What must be true of each component

| component | what makes it correct | where it can go wrong |
|---|---|---|
| billing, subscription | no access after the period without a recorded payment; a debt has the overdue invoice that dunning looks for; a processed event is recorded; a failed event is retried; what is due expires; external contracts are left alone | `updateStatus` has no guard, a row that cannot be read back is found again every hour, workers update rows read earlier, any await throws, the process dies between two writes |
| billing, cache | the gate never decides on a row older than the TTL | a reader caches what it loaded before an invalidation |
| conversation | closed once and for good; agent and status agree; a silent one is closed | three parties close at once; batches are stale |
| AI agent | at most `MaxReplies` answers; never reopens or steals a conversation; answers or hands over | count, generate and save are three awaits; a job id swallows requests; retries repeat what was stored |
| incoming, outgoing messages | a retry stores a message once; each outgoing one sent once a run, or marked failed | duplicates in flight, retries after a partial success |
| proposals | a stage is left only with its checklist complete, and for the next one; LOST has a reason | whole-row upserts, checklist created after the stage is saved |
| policies and commissions | one policy and one commission per proposal, for its terms; dates fit the status; a reversed value is taken back; paid once | read, check in memory, write by id; policy and commission are two statements |
| workspace | an organization keeps an owner; a cancelled invitation is not accepted | counts and checks before unconditional updates |

## 2. Plan

The modules in order of importance, all of them written; each has a module of proofs
beside it (which holds the refinement of its abstract module too).

1. `Billing`, with the abstract `WebhookInbox` it implements.
2. `Conversation`, which the next two extend.
3. `ChatBot`, which implements `Conversation`.
4. `ChatIncoming`: duplicate deliveries, the upsert of a conversation, retries and the
   closing command, composed with `Conversation`.
5. `MessageDelivery`: the send job with its errors, retries and stalls, with the
   abstract `Outbox` it implements.
6. `Proposal`: stages, checklist, loss and reopening, the promotion of the contact.
7. `Commission`: from the issue of a policy to the reversal of its commission.
8. `Workspace`: members, invitations and the cached list of members.

What could follow: `SubscriptionCache` over the status of `Billing`; cancellation and
expiry of policies in `Commission`; and `ChatBot` joined with `ChatIncoming`, so that one run
goes from the delivery of a message to the answer.

## 3. The modules

A variable is a column or a place in a handler; an action is the code between two
awaits, with all it writes.  An await that may throw, and a process that may die,
are actions of their own (`Fail`, `HandlerDies`, `ReconDies`, `ExpirerDies`,
`LoseMessage`, `JobFails`, `AutoCloseFails`, `IssueEnds`, `RequestEnds`, `RunFails`,
`SendRefused`, `AttemptFails`, `Stalled`, `RequestFails`, `PromotionFails`).
Definitions that a comment marks "Fault" belong to no specification: they are
plausible mistakes that show that a property can fail.

**`WebhookInbox`** is abstract: an event is accepted once, held by one worker, handed
out again only after it failed, and never touched when it is done.

**`Billing`** has the tables `Subscription`, `Invoice` and `WebhookEvent`; `age` stands
for the dates (in the period, after it, past the dunning cutoff).  `ProcessStep` is
`ProcessBillingWebhookEvent.execute`, run by the route for its event (`Receive`,
`MarkProcessed`, `RecordError`) and by the reconciliation worker for a row of its
batch (`FindFailedWebhookEvents`, and for each row in turn `NextRow` with `TakeRow`, or
with `SkipRow` for one of `Unreadable`, whose stored payload its schema refuses).
`FindDue`, `ExpireRow`, `InvalidateExpired` are the three hourly workers (trial, cancelled, dunning), which
differ in their filter `Due`.  `CancelRequested` to `CancelEnds` is the cancel
route.  `HasAccess` is the 402 gate on the stored row.

**`Conversation`** has one action per update of a `Conversation` document; the filter
of the update is the guard.  `owed` and `notes` are the closing message, a second
await after the closing.  `AutoCloseScan` reads a batch, `AutoClose` closes one row
of it by id with the status in the filter but not the date.

**`ChatBot`** extends it with an incoming message per conversation (`asking`, which is
`lost` after its processing failed), the queue and the bot's job (`stage`), and the count
of stored answers.  Outside the widget the job has the conversation's id, and
`EnqueueAiBotJob` does nothing while such a job exists.  `ForgottenMessages` names the
steps that leave a stored message to nobody.

**`ChatIncoming`** extends it with the jobs of the incoming queue: `Start` is the search
for a duplicate, `FindOpen`, `FindNone` and `InsertConversation` the upsert, whose
search and insertion are two steps of the database, `StoreMessage` to `Announce` the
rest of the message, and `CloseByCommand` to `SendConfirmation` the closing command.
`GiveBack` ends a run that failed.  `AgentNext` lets an agent close the same
conversations meanwhile.

**`Outbox`** is abstract: what the send queue promises to who writes a message.  A
message is tried at most `MaxTries` times, a try puts one copy before the client at
most, SENT is shown only if there is a copy, and a message is done only when SENT is
shown.  It promises neither one copy nor that a message that is over says so.

**`MessageDelivery`** has the row of a message (`status`), its job (`at`, `attempts`,
`stalls`) and what the provider knows (`accepted`).  `FindBroker` and `NoBroker` are the
lookups of `send-message-processor`, the next actions the answers of the provider and
what is written of each; the actions `GiveBack`, `Refused` and `Stalled` are what BullMQ
makes of an error, an `UnrecoverableError` and an expired lock.  `Place` and `Tries` map
its job to the outbox: a run of the job is a try, and there are at most
`Attempts + Stalls`.

**`Proposal`** has the `row`, the checklist (`items`, `done`), one record per request with
its `copy` of the row, and the steps of the promotion.  `Read` is `findById` with the
guard of the entity (`Allows`), `Save` writes `Apply(op, copy)` over whatever is there,
`CreateItems`, `Detect`, `IsClientDataMet`, `Tick` are the checklist of the new stage;
`Extras` stands for the required items that some branches add to the first stage, which
nobody asks for there but every later gate counts.
`torn` and `excused` are no columns: they record a creator of items that died or was
overtaken, and a reason for which an item may stay open.

**`Commission`** has a proposal's terms, the request that issues it (`issuing`, which ends
`done` or `failed`), and requests under way on a commission (`work`) with the row as they
read it: `Find` checks the guard of the domain object, `Update` and `ReverseAtomic` write by id, with
no condition on the status; only status and dates are written.

**`Workspace`** has the members (`role`, `active`), the invitations, one record per
request with what it has `seen`, and the age of the list in Redis and in the hands of
its readers.  Each use case is `Begin`, `Find...` or `Check...`, then a write by id, then
`Forget` (the deletion of the cached list).  `admitted` is no column: it records who came
in by which invitation.  The code takes no lock, so its promises do break when two requests
cross; the properties are about the step that breaks one, and hold it against that step
if the request whose write it is has been overtaken in just what it read: an owner it
counted, the status of its invitation, the rows it searched.  A crossing that is over
excuses nothing later.

## 4. The runs

| run | instance | what it shows |
|---|---|---|
| `billing_money` | 2 events of 2 payments, 1 subscription | types; `AccessIsPaidFor`, `DebtIsFindable`, `ProcessedIsRecorded` in every order of route, replay, crash, expiry and cancel; `ImplementsInbox`: `Billing` implements `WebhookInbox` |
| `billing_batch` | an unreadable event of an external subscription and a cancellation by the provider, a batch of two, fair | `ExternalUntouched`; `FailedIsRetried`: the row that is skipped every hour does not keep the other from being replayed |
| `billing_progress` | 1 refused payment, fair | `DueIsExpired` for the three workers |
| `billing_lost` | 1 event | violated `StoredIsRetriable`, see section 7 |
| `chat_conversation` | 2 conversations, 2 agents, batch of 1, fair | `AgentMatchesStatus`, `ClosedOnce`, `ClosedIsFinal`, `SilentIsClosed` |
| `chat_bot` | 1 conversation with a job id, 2 slots, limit 2, 3 attempts | types, `BotWithinLimit`, `ForgottenMessages`; `ImplementsConversation`: `ChatBot` implements `Conversation` |
| `chat_incoming` | a message and a closing command, each delivered twice, 2 workers, 2 runs, 2 conversations, an agent | types; `OpenAtMostWorkers`, `RetryStoresOnce`, `EndedIsDone`, `OneConfirmation` |
| `chat_delivery` | 2 messages, 1 worker, 2 attempts, 2 stalls, fair | types; `FailedIsLast`; `ImplementsOutbox`: `MessageDelivery` implements `Outbox`; `EveryJobEnds` |
| `commission` | 1 proposal, 2 issues, 3 commissions, 2 requests, a rate of zero among the terms | types; `DatesFitStatus`, `OneCommission`, `ReversedIsBalanced`, `Lifecycle` |
| `proposal` | 2 requests, 1 promotion, from the first stage to the policy, a branch with an item of its own | types; `RowIsConsistent`, `StagesInOrder`, `LeavesWithItems`, `ClientDataNoticed` |
| `workspace` | 2 users, 2 roles, 2 invitations, 2 requests, 1 reader | types; `LastOwnerLeaves`, `CanceledKeepsOut`, `OneOpenInvitation`, `ListIsFresh` |
| `workspace_owner` | the same | violated `AlwaysOwned`, see section 7 |

**Bounds.**  Two events are the fewest for a late or replayed event to meet a newer
state.  In `billing_batch` they share a batch, one readable and one not; older unreadable
rows that fill a batch do starve it, which is the exception `CrowdedOut` of
`FailedIsRetried`, and with two events it never applies.  One
subscription is enough for safety because no statement reads two of them; the proofs
do not need the bound.  Refunds are in none of these instances: the theorems of
`BillingProofs` cover them, for every `Kind`.  Two conversations and a batch of one make the auto-close job
choose.  Two slots are one job more than a conversation may have outside the widget; of the widget
only the theorems speak, whose `Widget` is any set of conversations.
Three commissions allow a reversal of a reversal, and two reversals of one original.
Two workers are the fewest that can both see no open conversation, and two runs let a
job fail once and end for good the second time.  One worker with two messages makes a
job wait for another; two attempts and two stalls let either be used up before the
other.  `proposal` takes `AfterQuote = "PAYMENT"`: the two stages left out differ from
the payment in nothing but the check of the contact.  Of the five roles only the order
matters and whether one is OWNER; OWNER and ADMIN have it all.  Two users, two requests
and two invitations are the fewest for each race the properties name.  Requests,
interchangeable invitations and deliveries are symmetric, in runs without liveness.
`TimePasses` and `EventAges` stop at their last value, arrivals at the number of
events, answers at the limit.  `MaxReplies` is 20 in the code, `MaxAttempts` 3, and
the batch sizes are larger; the theorems hold for all of them.

**Deadlock** is not checked: an instance may stop for good (all conversations closed,
all events processed and the time used up, all commission ids spent), as the system
with no more input does.

**Fairness** is assumed only of what the code schedules for ever and only for liveness:
`ReconFairness`, `ExpiryFairness` and `AutoCloseFairness` come from the hourly
schedulers (`upsertJobScheduler`), weak for a step that nothing disables, strong for a
step on a row that may throw or whose worker may die, since the next hour's run finds
the row again; this excludes only a row that fails every hour for ever.  In `MessageDelivery` a
waiting job is taken (strong, since another may hold the worker) and an active one
does something or is found stalled (weak: BullMQ looks for stalled jobs every
`stalledInterval`); nothing says that the provider ever accepts.  Nothing is
assumed of people, of providers or of the route.  `billing_batch` takes `RetrySpec`, which
has the fairness of the replay alone; of an unreadable row it assumes only that it is
skipped.

## 5. Proofs

All hold for every value of the constants that satisfies the named assumptions.

*Billing* (`BillingAssumption`; a payment belongs to one customer:
`PaymentAssumption`).  `IInv1` is the types, `RowInv` (the worker has a row exactly
while it works) and `StageFits` (an executor before an await has an event of a kind
that needs it); it is needed because nothing in `TypeOK` says that the event a step
writes for exists.  `MoneyInv` adds what an executor has already written when it is
about to write the next: at "status" the invoice is there, so `PAST_DUE` comes after
its invoice and `ACTIVE` after a payment.  `InvoiceInv` follows the OVERDUE invoice of a debt
until another event of the same payment overwrites it (`DebtSafe`).  `InboxInv` says who
may hold an event: the route only one that has not failed, the worker only one that has.
With them every step is a step or stutter of `WebhookInbox` (`InboxRefinement`), and `EventsHeldOnce`: the two
are never at one event together, nor at one that is processed.  `PeriodInv` is about
the batches: what a worker has read is over, however old the reading, and no
period begins again; hence the other side of `AccessIsPaidFor`, `NobodyLockedOutEarly`:
within the period nothing but a recorded debt closes the gate.  `InvoicesKept`: no
order of events takes back an invoice or the date of a payment.

*Conversation* (`ConversationAssumption`).  `ConvInv` adds `NoteInv`: who owes the
closing message is the one who closed, and a stored message is owed by nobody.

*ChatBot* (`ChatBotAssumption`).  `BotInv` has `OneJob` (the job id) and `Counted` (a
job past the count leaves room for its answer); without `OneJob` the count of one job
says nothing about another, which is what happens in the widget.  The refinement of
`Conversation` is proved per action, and `ClosedForGoodWithBot` and
`ConversationsKeptWithBot` are inherited by it.  `ForgottenForAReason` goes through the
steps that end the attention of a job (`AttentionEnds`).  For the widget, where `OneJob`
does not hold, `RoomInv` counts the jobs that found room for their answer together with the
stored answers: `LimitAlmostHolds` says that the limit is exceeded by fewer than the
jobs a conversation may have, which are taken to be finitely many.

*Commission* (`CommissionAssumption`).  `IInv` has `WorkInv`: a request under way
holds a row that once fitted, with a status from which its operation starts, and all
that no operation writes is still as it read it.  So a stale write still writes dates
that fit (`WrittenRow`), though not the newest (a second request may pay again).
`IssueInv` follows the terms from the read to the policy, the unique key to one
policy per proposal, and a policy to its commission or to the failure that left it without
(`OneCommissionPerProposal`).  `CommissionsStay`: no overlap makes a row disappear or changes
what it is for.

*ChatIncoming* (`IncomingAssumption`).  It rests on `ConvInv`, whose steps its own are.
`StoreInv` follows a job from its conversation to the one document it may store, which
is needed because a second run must find the first one's document.  `ConfirmInv` says
that a conversation closed by the client is in the hands of one job until its
confirmation is sent.  `WorkersInv` counts: a job goes on to insert only while no
conversation is open, and those that do are among the at most `Workers` that run.
`HoldingInv` counts the jobs that stored a message or still may in the same way, so
there are at most `Workers` copies of it (`CopiesBounded`).  Every step is one
of `Conversation` or a stutter (`IncomingImplementsConversation`), so its three
properties hold here as well (`IncomingKeepsConversations`).

*MessageDelivery* (`DeliveryAssumption`).  `DeliveryInv` relates, per message, the place
of the job to the row and to the count of the provider; the bound of the copies needs the
stronger one that a job which waits has used up its allowance by failures alone.
With it every step is one of `Outbox` or a stutter (`OutboxRefinement`), and no client gets
more than `Attempts + Stalls` copies (`CopiesLimited`).

*Proposal* (`ProposalAssumption`).  `IInv` says of the row that it is consistent and of
every copy that it once was, with the guard of its operation met; so a stale copy
saved over a newer row is still a consistent row.  `ApplyFacts` is the entity.
`ItemsComeFirst` and `ClientDataIsNoticed` have invariants of their own over the
requests and promotions that are between two statements.

*Workspace* (`WorkspaceAssumption`).  `IInv` is the types, `RequestInv` (what a request
has read was once true and allows what it is about to do) and `RowInv` (who was
admitted came by a row that is not pending any more).

*Requests that overlap.*  The code takes no lock and has no version column, so what a
request has read may be overtaken before it writes.  The step properties of three modules
say that this, and only this, breaks a promise: `LastOwnerLeavesByCrossing`,
`CanceledInvitationsKeepOut` and `InvitationsAreUnique` for the organization,
`StagesGoInOrder` for a proposal, `CommissionsFollowLifecycle` for a commission.  Beside each
stands a theorem about the overtaking itself, `OnlyRequestsOvertake`, `OnlySavesOvertake` and
`OnlyWritesOvertake`: what a request has read stops being so only by the write of another
request that is under way, and not by a promotion, an edit of the checklist, a reader of
the cache or the time that passes.  None of them has a hypothesis on how requests overlap.

Only model-checked: everything under fairness (`FailedIsRetried`, `DueIsExpired`,
`SilentIsClosed`, `EveryJobEnds`); liveness is out of the prover's reach.

## 6. What is not modelled

Within the modelled parts: a job of the bot or of the incoming queue that BullMQ takes for
stalled and starts again beside the live one (`maxStalledCount`), and likewise a send that
lost its lock and goes on, which may send and write its status beside the next run; linking
a provider customer and extending a trial, which no code of the repository does; the pass-through
of Meta webhooks; the classes `ConversationEntity`, `SaveIncomingMessage` and
`CreateCommission`, which nothing calls; system messages other than the closing one; the
other columns of the rows; the prices and dates of a proposal, which are saved like its
`details`; policies from a CSV import, which have a proposal of their own and no
commission.  The multi-tenant filter is not modelled: every statement has it.

Of the parts that are modelled in part: cancelling a policy and the daily expiry are one
guarded update of one row each and touch neither the commission nor the proposal (a
cancelled policy leaves its commission as it is); an endorsement is a new proposal, from
where `Proposal` starts; capture, edits and deletion of contacts, and the profile and logo
of an organization, are plain writes.  The organization plugin of Better Auth
(`packages/auth/src/index.ts:121-133`, mounted at `/api/auth/*`) has routes of its own that
invite, accept, remove and change roles: they write the same rows with checks that are not
in this repository, so `Workspace` is about the routes of `apps/server` alone.

The components of section 1 that have no module are listed in `PROJECT.json` with the
reason; what can go wrong in them is a hazard there, at its line.  The largest is the cache
of the subscription: `Workspace` models the same race for the list of members.  Most of the
files of the repository are generated clients and schemas, forms and tables of the web
application, seeds, and use cases that read or write one row, about which there is little to say
that a unit test does not.

## 7. Where the code disagrees with what it says

- `billing_lost`: an event whose handler dies between the insert and the recorded
  error is stored, never picked by the worker and answered as a duplicate when
  delivered again, though the route logs that it will be retried.
- `workspace_owner`: `docs/ARCHITECTURE-DECISIONS.md:591-593` and
  `docs/ESPECIFICACAO-FINAL.md:195` have one owner per organization who cannot be removed.
  In the code an owner may make another member an owner, each may be removed or demoted
  while the count says there is one more, and two such requests leave none.
  `LastOwnerLeaves` says which step does it.

Others have no run of their own; the properties are stated around them, and name the
exception.

- A payment that is both refused and settled may leave a subscription `PAST_DUE` whose
  invoice is not `OVERDUE` any more: if the settling event fails between invoice and
  status, or the refusal writes its status last.  The dunning worker filters by the
  invoice and never finds it; `DebtIsFindable` excepts exactly this.
- A stored event whose payload the schema refuses is skipped every hour and found again
  until it is too old.  As many of them as a batch holds keep the younger ones from being
  replayed (`CrowdedOut`).
- The dunning worker updates by id and expires a subscription that a payment
  reactivated after its batch was read.  `AccessIsPaidFor` is the side that holds: it
  may take access away too late or from one who paid, and never gives it.
- Outside the widget, a message that arrives while the bot's job is past reading the
  history is not answered and not handed over, since the job id swallows its request.  On
  every channel a message is also left to the next one when its own processing fails after it
  was stored (in the widget: when adding the job fails, which is only logged), when its job
  fails for the last time, or when people had the conversation and give it back to the bot.
  `ForgottenMessages` lists these steps and says there are no others.
- `docs/CHAT-SPEC.md:237` gives the limit of answers for any conversation.  In the widget two
  jobs may both count the last answer but one, so `BotWithinLimit` is stated for the other
  channels and `LimitAlmostHolds` for all.
- A job of the bot that fails after it stored an answer stores a second one to the same
  message, and one that is late stores and sends its answer in a conversation that is
  closed or assigned.
- One contact may have as many open conversations as there are workers
  (`OpenAtMostWorkers`), and a message delivered at the same time as many copies
  (`CopiesBounded`); `docs/CHAT-SPEC.md:16-18` has one conversation.
- A command whose job fails after its message was stored is never carried out: the
  second run takes the message for a duplicate.  `EndedIsDone` asks of an end as
  `duplicate` only that the message is stored.
- `docs/CHAT-SPEC.md:414-416` promises `FAILED`, an event and a dead-letter queue after three
  transient failures.  A message whose job ends with a transient error, or without a
  session, stays `PENDING` for ever: only a permanent error writes `FAILED`.  `Outbox`
  therefore promises no status of a message that is over.
- A rate-limited send throws BullMQ's `DelayedError` without moving the job, so the delay
  it asks for (`docs/CHAT-SPEC.md:409,426`) is not used: the job goes on when it is found
  stalled, and fails for good when that happened too often.
- `docs/ESPECIFICACAO-FINAL.md:315` has a commission created when a policy is issued.  A
  request that fails after creating the policy leaves none, and a second one is refused by
  the unique key.  `OneCommission` says that these are exactly the policies without.
- Two requests that both read an approved commission pay it twice, or reverse it twice, and a
  stale write may put a paid or reversed one back.  `DatesFitStatus` shows what holds
  even then, since the code writes all the dates of the row it read; `Lifecycle` says
  that only such a write leaves the life cycle.
- Every operation on a proposal saves the whole row it read, so a stale edit puts back an
  old stage, an issued one included.  `StagesInOrder` says that only such a save does.
- A second advance between the save of a stage and the creation of its items skips that
  stage's checklist; `LeavesWithItems` excepts exactly this and a creator that died.
- An invitation may be accepted and canceled by two requests at once, a user may get two
  open ones, and a reader of the list of members may put an outdated one in Redis for an
  hour; `CanceledKeepsOut`, `OneOpenInvitation` and `ListIsFresh` say that nothing else
  leads there.
