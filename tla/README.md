# MUSIC OS 360: formal models of the API's core

MUSIC OS 360 is a multi-tenant back office for music companies: catalogue
(works, phonograms, releases), contracts, royalty shares, finance, marketing, and
the software-as-a-service billing of the tenants themselves. The server is a NestJS
application (`src/apps/api`) on PostgreSQL and Redis; the web client
(`src/apps/web`) holds no state of record.

This directory holds TLA+ modules that model the parts of the server where state
changes are decided concurrently, TLC configurations that check them on small
instances, and proofs, checked by TLAPS, for every value of the constants.
Paths below are relative to `src/apps/api/src` unless they start with `src/`.

## 1. Inventory

### 1.1 Components with state of their own

| component | state | operations | interacts with |
|---|---|---|---|
| **Concurrency limiter** `core/security/concurrency-limiter.ts` | `active`, `queue` of resolvers, `inFlightByKey` | `run(task, key)`: refuse, start or queue; hand-over or release in `finally` | its one user is the spreadsheet import (`modules/reports/import/xlsx-isolated-reader.ts`), which runs each task in a worker thread that a timer kills (`core/security/disposable-worker.ts`) |
| **Billing enforcement** `modules/billing/billing-enforcement.service.ts` | one `tenant_billing_state` row per tenant: status, grace deadline, manual override, `status_changed_at`; `billing_subscriptions` | `ensureState`, `startPaymentGrace`, `activateTenant`, `suspendTenant`, `cancelTenant`, `applyManualOverride`, `removeManualOverride`, `getStateWithEscalation`/`applyOverrideAndEscalation`, `auditStateChange` | called by the Stripe handlers and admin endpoints (`billing.service.ts`, `billing.controller.ts`) in a transaction, and by the guard (`core/guards/billing-enforcement.guard.ts`) before every request outside one |
| **Stripe handlers** `modules/billing/billing.service.ts` | `billing_subscriptions` (period, status) | `onCheckoutCompleted`, `onSubUpdated`, `onSubCanceled`, `onPaymentSucceeded`, `onPaymentFailed`, `onInvoiceUncollectible`, `updateAdminTenant` | events arrive at least once and in any order; every handler runs in `runInTenantContext` |
| **Webhook ledger** `handleWebhook`, `processWebhookEvent`, `recordWebhookFailure`, `recordWebhookProcessed`, `markWebhook*` | one `payment_events` row per Stripe event | claim, apply, mark processed; mark failed in a second transaction; answer 200 or 500 | Stripe retries whatever was not answered 200; the dispatch leads to the Stripe handlers |
| **Royalty shares** `modules/shares/shares.service.ts` | shares of works and phonograms, each with its `updated_at` | create, update, remove under an advisory lock, a 100 % budget and an optional optimistic version | registry submission checks the same sums; the tenant transaction commits or rolls back |
| **Circuit breaker** `core/resilience/circuit-breaker.ts` | state, failure and success counts, `openedAt` | `execute`, `transitionIfNeeded`, `onSuccess`, `onFailure` | `resilientFetch` puts one in front of each provider and aborts calls that take too long |
| **Tenant transaction** `database/database-context.service.ts` | the transaction bound to the request | `runInTenantContext`: BEGIN, settings, work, COMMIT or ROLLBACK | every handler above |
| **Dunning cycle** `modules/billing/dunning.service.ts` | `cycleInFlight`, an advisory lock per tenant, failure streaks, notification job ids | daily cycle over the tenants in dunning | reads billing enforcement; queues notifications (BullMQ) |
| **Idempotency keys** `core/interceptors/idempotency.{interceptor,store}.ts` | placeholder or response per key, in one Redis and, on each replica, a map in memory | look up, mark, execute, store or delete without awaiting it | in front of every endpoint, inside the transaction that `RequestTenantContextInterceptor` opens |
| **Status workflow** `core/workflow/*`, `common/persistence/optimistic-update.util.ts` | history rows; the status lives in the caller's entity | `transition`, `transitionInTx`, `casUpdate` | contracts, leads, projects, releases, support tickets, campaigns |
| **Lead conversion** `modules/leads` | a lead's status and `client_id`; clients and artists | `update`, `remove`; `onLeadConverted` under an advisory lock | the workflow; the event LEAD_CONVERTED, handled in the process, on another connection |
| **Contract signature** `modules/contracts`, `modules/integrations/{docusign,autentique,webhooks}` | a contract's status, signature-bound fields and metadata; `webhook_events` | `update`, `softDelete`, `sendForSignature`, `handleWebhook`, `applyProviderSignature`, the daily expiry scheduler | the workflow; the provider creates envelopes and delivers their completion until it is answered 200 |
| **Invoice overdue scheduler** `modules/invoices/schedulers` | invoice status, notification stamp in `metadata` | hourly scan, conditionless update | the invoice service and users |
| **External data exchange** `core/external-data` | submission status in a JSON document, webhook events | submit, poll, webhook | providers; entity rows |
| **Automation engine, queues, realtime, mail, RBAC, domain CRUD, reports, integrations** | see `PROJECT.json` | | output, rules and single-row CRUD |

### 1.2 What is hard here

* **Read, await, write.** Handlers read a row, await, then write; other handlers, the
  guard of another request or another replica commit in between. Some writes are
  conditional (`WHERE status = ...`, `ON CONFLICT ... WHERE status_changed_at <= ...`),
  some are not, and the difference is where correctness lives.
* **Order.** Stripe delivers events late, twice and out of order, and the database
  knows only when it processed them.
* **Failure between two steps.** A handler may throw after its first statement, the
  process may die between commit and answer.
* **Late results.** A call admitted by the breaker returns when the breaker has
  changed state since, maybe several times.
* **Hand-over.** A slot passes from a finished task to a waiting one with a turn of
  the event loop in between.
* **No timer.** Nothing moves a tenant through dunning but a request of that tenant.
* **One column, many writers.** A contract's metadata holds what people type, the link
  to the envelope and the scheduler's stamp; two of its writers replace it whole from a
  copy read earlier.
* **Several stores.** Replicas that lose Redis keep keys and responses of their own.

The hazards, each at its line and with the properties that cover it, are in
`PROJECT.json`.

### 1.3 What makes each component correct

* limiter: limits respected, nothing leaked, nobody lost or overtaken, every waiter runs;
* billing: the dunning sequence is entered only from good standing, keeps one deadline,
  ends, and is left only by a settlement, a closing or an override; overrides are capped
  and shield the tenant's status from failures; a subscription event older than what was
  stored changes nothing;
* webhooks: 200 means applied; nothing is stuck; every event ends applied; once;
* breaker: it trips on a streak and closes on proof, whatever returns late; it recovers;
* shares: the eligible shares of a work or a phonogram never exceed 100 %, a share belongs
  to one of the two, an update falls on the row its checks were made of;
* dunning: one notice per transition, no tenant skipped for ever;
* idempotency: one execution per key while the key protects, no response replayed that
  was never given or belongs to another tenant, no key blocked for ever;
* workflow: a move is an edge that the role may use from the status the row has then;
* leads: a lead becomes one client, which it names, and becomes it in the end;
* contracts: a contract is signed once per round, keeps the envelope it was sent in and
  the document that was signed, every announced removal is one that was kept or rolled
  back, and a completed envelope ends the wait.

## 2. Modules

| module | role |
|---|---|
| `BoundedAdmission` | abstract: a set of admitted calls and a line, no counters |
| `ConcurrencyLimiter` | the limiter; implements `BoundedAdmission` |
| `BillingState` | the row of `tenant_billing_state` and what each statement makes of it: pure operators shared by the modules on billing |
| `DunningTimeline` | abstract: the dunning sequence one tenant goes through |
| `BillingEnforcement` | handlers, administrators and the guard on one tenant; implements `DunningTimeline` |
| `BillingEnforcementProofs` | its invariants, refinement and action properties |
| `StripeWebhooks` | the life of one Stripe event around its `payment_events` row |
| `StripeWebhooksProofs` | its safety, for any deliveries and faults |
| `ShareSplits` | creates, updates and removals of shares |
| `ShareSplitsProofs` | what versions give: one structure per share, no lost update, the budget; sums over finite sets |
| `CircuitBreaker` | the breaker and the clock; the provider is external |
| `ResilienceProofs` | the limiter's invariants and refinement and the breaker's safety, for all constants |
| `Idempotency` | requests with one client key on several replicas, with Redis and their memories |
| `IdempotencyProofs` | one execution per key, genuine replays, no placeholder forgotten |
| `StatusWorkflow` | one row with a status: update and delete requests, the engine, the version, the row lock |
| `StatusWorkflowProofs` | what its actions keep; used by the next two proof modules |
| `LeadConversion` | extends it: the leads' table, LEAD_CONVERTED and its handler |
| `LeadConversionProofs` | one client per lead, moves along the workflow, no closed lead forgotten |
| `ContractSignature` | extends it: the contracts' table, the envelope, the webhook and its ledger, the scheduler |
| `ContractSignatureProofs` | one signature per round, announcements accounted for, the link, the signed document, no answer too early |
| `MC...` | small instances for TLC |

Operators marked `mutant` in a comment are wrong variants of the operator they precede.
Replacing the right one by them makes TLC refute a named property, which shows that the
property depends on that piece of the code.

### 2.1 `ConcurrencyLimiter`

JavaScript runs a turn of the event loop without interruption, so an action is a turn:
`RefuseKey`, `RefuseQueue`, `Start` and `Enqueue` are `run` up to its first await;
`Resume` is the turn after `await new Promise(...)`, when the slot handed over by another
call is put to use; `Finish` is the two `finally` blocks, with `HandOver` (shift the queue
and resolve, `active` untouched) or `GiveBack` (`active--`) and then `CountOut` of the key.
Calls are model values that may come again; each arrival picks a key or none.

### 2.2 `BillingEnforcement` and `BillingState`

Rows of different tenants never meet, so the model has one tenant.

*Granularity.* Every deployed environment sets `DATABASE_SESSION_CONTEXT_ENABLED`
(`src/apps/api/.env.production:35`, `.env.staging:38`, `.github/workflows/staging.yml:92`),
so a handler is one READ COMMITTED transaction: `Open*` is its read (two consecutive reads
of a handler are one step), `Commit*` its statements, each evaluated on the latest committed
row as READ COMMITTED does for `UPDATE` and `ON CONFLICT DO UPDATE`, and its commit; `Abort`
is a rollback for any reason. Between `Open` and `Commit` anyone may commit, and what the
handler carries over (`before`, its start time, the event's creation time) is in `txn`. The
guard runs outside a transaction: its read (`ReadState`) and each later statement
(`WriteSuspended`, `StampSuspended`, `WriteReadOnly`, `StampReadOnly`, `ExpireOverride`) is
a step. `getSubscription` and `getUsage` run the same escalation inside a transaction and so
show no behaviour the guard does not.

*Data.* Time is in days; the settings are constants. `row` keeps status, grace deadline,
override deadline and `status_changed_at`; `sub` keeps status and period, which is `Never`
(NULL) before the first event and after an event without one: `PeriodAccepted` has the three
disjuncts of the upsert's `WHERE`, and `StorePeriod` stores what came. `newest` and `forgotten`
are history: the newest period ever stored, and whether an event without a period has taken
it away since. Left out are
`suspended_at`, `resumed_at`, `last_payment_at`, the copy of the status in
`organizations`, audit rows, messages and row-level security. `normalizeSubscriptionStatus`
changes only the spelling of `cancelled`; of the subscription statuses those that act are
kept, the rest only write the subscription row. `manual_override_allowed` is taken to be
true (otherwise the override operation does nothing).

*Driver.* TypeORM `^0.3.31` returns `[rows, count]` for `UPDATE ... RETURNING`
(`modules/contracts/contract-provider-signature.ts:87-93` unpacks it) and rows for
`INSERT ... RETURNING`. The model follows the driver: the request that performs an
escalation to `read_only` finds no status in the result and is admitted (`StampReadOnly`), and
a processed event is claimed again (`webhook_reapplied`).

### 2.3 `StripeWebhooks`

One event, several deliveries. A delivery claims (`Claim`: `INSERT ... ON CONFLICT DO
NOTHING`, then the reclaiming `UPDATE`), applies, marks and commits (`Apply`); what it
wrote before is rolled back by `Throw` or `Crash`. `RecordFailure` is the second
transaction; it may fail too (`RecordingFails`). `holder` is the delivery whose uncommitted
claim makes other statements on the row wait. The legacy table written beside
`payment_events` is part of the same transactions and left out.

### 2.4 `ShareSplits`

An update is `Begin` (the read of the row and the single-structure test), `Check` (the
advisory lock of the scope and the sum of the other eligible shares), `Write` (`casUpdate`
and the commit that frees the lock) or `Fail`. A create is the same on a blank row, which is
what `Keep` (a field not sent) then means: the column default. The sum and the test use the
row as it was read (`seen`), the write patches the row as it is. `version` stands for
`updated_at`; each write gives a new one, where the code's are milliseconds apart.
`Percentages` are in parts of the budget; 0 also stands for NULL, and the budget includes
the tolerance of 0.01. `Versioned` says whether every update carries `expectedUpdatedAt`, as
the web client's do (`src/apps/web/src/modules/releases/pages/Shares.tsx:175`) and the API
leaves optional. A share with a `share_type` is `financial` and outside the budget. `Shares`
is finite, as a table is; nothing else bounds it.

### 2.5 `CircuitBreaker`

`Admit` and `Reject` are `execute` up to its await, `Succeed` and `Fail` the rest. A call
remembers only whether it was admitted while CLOSED. Every success and failure is
applied to the state the breaker has when it arrives, as in the code. `failureCount` and
the clock are capped where the code only compares with `>=`. The class header says that
HALF_OPEN lets one probe request through; the code lets every caller through, and so
does the model.

### 2.6 `Idempotency`

A request is `Lookup` (refuse, replay or go on), `SetInflight`, `HandlerReturns` or
`HandlerThrows`, and `Commit`, `CommitFails` or the roll-back. `store.set` and
`store.delete` are called with `void`: the request goes on, and the command takes place
later (`Land`), in any order with other requests. `client` is what `this.redis` is: once
the client has reported an error the replica uses its memory until it restarts. A single
command that fails is tried on memory (`Slipped`) and the next one on Redis again.
Redis drops what has a lifetime (`ExpireInRedis`), memory drops responses only. The
expiry of an entry may come at any time: a slow handler is one that an expiry overtakes.

`gaps` records the ways in which the key stopped protecting: two look-ups before a mark, an
entry that expired while its request could still take effect, a slipped command, Redis lost,
a restart. `ExecutesOnce` says that without them the effect takes place once. They are the
complete list: TLC finds no sixth way in its instance, and `KeyExecutesOnce` proves that
there is none in any. `by` in an entry and `source` of a replay are history, not stored by
the code.

### 2.7 `StatusWorkflow`

The update request that the registries with a workflow share. `Load` is the page
that shows the record and its version; `Submit` is the request's read, the engine's
validation and the payload made of what was read; `Write` is the history entry and
`casUpdate`, after which the row is locked; `Commit` is the read that makes the answer, and the
commit; `Refuse` and `RollBack` undo. `Submit` with `versioned` FALSE is a
request without `expectedUpdatedAt`, which the API accepts. The row's version is the
Boolean `fresh` of each request: every committed write takes it from all others
(`Outdated`). Other writers use `OtherWrite`, which waits for the row's lock as an `UPDATE`
does. A delete request reads (`StartRemoval`), writes `deleted_at` and holds the row
(`WriteRemoval`, `holder = Remover`), and commits or is rolled back; `SkipRemoval` is one
whose condition finds the row deleted. `LeadConversion` and
`ContractSignature` give the table (`Edges`), with the roles in the two classes that the
tables tell apart.

### 2.8 `LeadConversion`

`WriteLead` emits LEAD_CONVERTED as soon as the row is written, before the commit. The
handler's transaction is `BeginConversion` (the advisory lock, then the look at
`client_id`) and `FinishConversion` (client, link and status, artist, commit);
`LoseConversion` is a failing statement, which aborts the whole transaction, or the end of
the process. A client stands for the event that created it. `LeadsService.remove` asks
for no `deleted_at`, so `SkipRemoval` is none of its steps.

### 2.9 `ContractSignature`

`doc` stands for the fields a signature attests, `link` for `metadata.provider_doc_id`,
`platform` for `signing_platform`; an update may carry metadata, a document or a platform
(`Contents`; a field not sent is left alone), and what it writes of the link is what it read
(`payload`). `CreateEnvelope` is the call of the provider and `LinkEnvelope` the `UPDATE`
after it, which asks for no status. A webhook request is `Receive` (dedup), `Ingest`,
`Resolve` (the contract whose platform and metadata name the envelope, `Named`),
`ApplySignature` or `FindNotAwaiting` and `NoteStatus`, and `Finish`; it may fail with a 5xx
(`FailHook`) or die (`CrashHook`). `webhook_events` is `ledger`: a pending or failed row is
`open`. `blind` is history: a write went over changes that its author had not seen; so is
`renamed`: a person gave the contract another platform while it had an envelope. `signings`
counts the signatures since the contract last began to await one. `announced` counts the
CONTRACT_CANCELLED events of delete requests, which leave with the write (`RemoveContract`),
and `undone` those of them that were rolled back. The scheduler comes back (`ScanRead`): its
stamp keeps it away for some days only, and a client's metadata update drops it.

## 3. Runs

| run | question | instance |
|---|---|---|
| `limiter` | do hand-overs, refusals and failures keep the limits, the counters, the line and every waiter, and implement `BoundedAdmission`? | 4 calls, 2 keys, 1 slot, 2 places, 2 per key; about 30 000 states |
| `billing` | does every interleaving of handlers, administrators and guard keep to `DunningTimeline`, the override rules and the order of subscriptions? | 2 transactions of 8 kinds, 1 request, 3 opened, 4 days; about 1 620 000 states |
| `billing_dunning` | is a tenant in dunning always on a clock, and does dunning end? | payments and failures only, 2 transactions, 2 requests, 5 days; about 225 000 states |
| `webhooks` | do crashes, errors and concurrent deliveries leave every event applied before it is acknowledged, and applied in the end? | 3 deliveries, 4 faults, 1 extra delivery; about 12 000 states |
| `shares` | do concurrent edits keep every split within its budget, every share in one structure and every update on the row it was checked against, when updates carry versions? | 2 editors, 3 shares, 1 work, 1 phonogram, 12 requests, 4 edits; about 370 000 states |
| `breaker` | do late results keep the breaker honest, and does it recover? | 3 calls, both thresholds 2, timeout 2, 4 outages; about 3 300 states |
| `idempotency` | which gaps let a duplicate execute, and can any replay what was never answered, cross tenants or block a key? | 3 requests (2 of a tenant, 1 of another), 2 replicas, 1 fault; about 193 000 states |
| `leads` | do edits, deletions, lost events and two conversions leave one client, linked, and the status on the workflow's edges? | a manager and a sales person, 2 events, 1 loss, 1 removal at a time; about 1 180 000 states |
| `contracts` | do edits, removals, a send, the scheduler and repeated deliveries keep link, document, status and signature right, is every announced removal kept or rolled back, and does the signature arrive? | 1 manager with 1 edit, 2 removals, 1 envelope, 2 webhook requests, 1 fault; about 960 000 states |

Runs that TLC refutes, each of a statement a comment of the code makes:

| run | statement | what happens |
|---|---|---|
| `payment_refused` | "the write for the chronologically OLDER Stripe event is rejected" (`billing-enforcement.service.ts:338`) | A payment fails on day 0 and its event is processed on day 2. A payment made on day 1 arrives: it is newer than the failure but older than `status_changed_at`, the time of processing, and is refused. The tenant that has paid stays in grace. |
| `webhook_reapplied` | "a 'processed' row, is never reclaimed" (`billing-enforcement.service.ts:271`) | `reclaimed.length` is the length of `[rows, count]`, so a redelivered event is claimed again. |
| `linkage_erased` | "written only by sendForSignature, never by a client payload, and never erased by a client metadata update" (`contract-provider-signature.ts:19-21`) | A metadata update without a version reads the contract; `sendForSignature` stores the envelope; the update writes the metadata it has read. The contract awaits the signature of an envelope that it no longer names. |

### 3.1 Bounds

Every bound is a constant named in its module (`MaxOpened`, `LastBusy`, `MaxTime`,
`MaxPeriod`, `OverrideInputs`, `Requests` and `MaxEdits` of the shares,
`MaxFaults`, `MaxExtra`, `MaxOutages`, `MaxLost`, `MaxRemovals`, `Events`, `Envelopes` and
`Hooks`).

* `limiter`: with 4 calls, 1 slot and 2 places, both refusals, a line of two (so that
  order matters), hand-overs and re-arrivals all happen. More slots add nothing the proofs
  do not cover: they hold for any limits.
* `billing`: the hazards need two overlapping transactions, or one and the guard; three
  openings leave room for a first event that creates the situation. The grace ends the
  day it opens, so the tenant can be restricted on day 1, with transactions still open,
  and is suspended on day 2 at the earliest; an override lasts one day at most. Overrides
  give one of three statuses (`OverrideInputs`): the others reach the row otherwise.
  Transactions may be open until `LastBusy`, so that they span days without multiplying
  states. Workers are symmetric; there is no liveness in this run.
* `billing_dunning`: two requests, because escalations also race each other, and
  transactions up to the day of the suspension, because they race payments; the clock
  stops at day 4, when the last deadline that can be set falls (opening on day 2 at the
  latest, suspension two days later).
* `webhooks`: three deliveries make two wait behind one; four faults suffice to fail
  an attempt, its failure record and the retry.
* `shares`: four edits are two creates and two updates, enough for two stale updates of one
  share or a move that meets a growing share; half and whole budget make the sums that
  fit and those that do not. A request assigns a parent, moves a share, or changes its type
  or percentage (`SomeRequests`). Editors and shares are symmetric.
* `breaker`: three calls are one more than either threshold, so that a call admitted in
  one episode can come back in a later one.

* `idempotency`: two duplicates make every gap; the third request shows that tenants are
  kept apart. Each fault is a gap or none by itself, so one is enough for the claim that
  those named are all; `SomeArrivals` leaves out what only renames the replicas.
* `leads`: two conversions race each other, and the second may come from a second round
  through the archive; two people race each other and the handler.
* `contracts`: the contract is under review, before a send. One edit of one person is one
  stale writer, beside the send, the scheduler, a removal and the webhook; two webhook
  requests race each other. An update carries the metadata, or the document and the
  platform; the metadata go apart, because a signed contract refuses another document. Two
  delete requests race each other, and the one fault may roll one back after its
  announcement, so that it is repeated.

### 3.2 Fairness

* Limiter (`Fairness`): a task ends (the worker is killed by a timer,
  `disposable-worker.ts:35-65`) and a resolved promise is resumed. Arrivals are not fair.
* Billing (`TrafficSpec`): open transactions end, the guard goes on, the clock advances,
  and the tenant keeps making requests. The last one is an assumption about the tenant,
  not the code, and `DunningEnds` says so: nothing else drives the sequence.
* Webhooks (`StripeSpec`): a running handler gets on, and Stripe retries an event
  it has not seen answered 200. Faults are finite.
* Breaker (`FairSpec`): the clock advances, a call in flight comes back (time-out), and
  callers keep asking.

* Idempotency (`FairSpec`): a handler ends, a command is carried out, Redis expires what
  has a lifetime. No client retries for ever.
* Leads (`Fairness`): a locked row is let go, a handler takes the lock when it is free,
  and one that waits for the row gets it though people go on editing (strong fairness:
  PostgreSQL queues those who wait for a row). Nobody has to send a request.
* Contracts (`Fairness`): the provider delivers until it is answered 200, a webhook
  request runs on, a locked row is let go.

`CHECK_DEADLOCK FALSE` is set for billing, webhooks, shares, idempotency, leads and
contracts: the clock stops, an acknowledged event needs no further delivery, requests are
answered once, and editors may be done.

## 4. Proofs

The proof modules extend the module they are about. The assumptions are the named
`ASSUME`s on the constants, which TLC evaluates on every run.

* **`ResilienceProofs`**, the limiter: `TypeCorrect`, `LimitsHold`, `NothingLeaks`,
  `WaitersKept`, `LimiterImplementsAdmission`. The limits follow from the guards only if
  the counters mean what they say, and a hand-over keeps the counters right only if the
  queue holds waiting calls and nothing else; so the inductive invariant is the
  conjunction of all of them with the types. The argument is on cardinalities: one call
  enters or leaves each counted set per step (`CountInExact` and the lemmas beside it).
  The refinement maps phases and uses that somebody waits only when every slot is taken.
* **`BillingEnforcementProofs`**: `TypeCorrect`, `OverridesCapped`,
  `EnforcementImplementsTimeline`, `OverridesShield`, `DunningKeepsClock`,
  `SubscriptionsNeverRewind`. The invariant adds to the types what a transaction or a
  request carries from its read to its write: a handler's input has its kind's statuses,
  its `now()` is not in the future, and a request about to restrict a tenant saw
  it in `payment_grace` (this is what makes the conditional `UPDATE` a step of the
  timeline, whoever wrote in between). Each operator on the row has a lemma about what it
  changes; each handler a lemma that its commit is a timeline step; the induction only
  assembles them. `DunningKeepsClock` assumes that no operation is an override: an
  administrator may set `payment_grace` on a row without a deadline, and that tenant stays
  there until someone acts. `OverridesShield` is about the status only: the failure
  still moves `grace_until` and `billing_subscriptions.status`. `SubscriptionsNeverRewind`
  rests on `NewestStored`: unless an event without a period came in between, the period that
  the guard compares with is the newest ever stored.
* **`ShareSplitsProofs`**: `TypeCorrect` for any requests, and, under the hypothesis
  `Versioned`, without which TLC refutes them, `SharesHaveOneStructure`,
  `UpdatesAreNotLost` and `SplitsStayWithinBudget`. The invariant
  is that a version identifies the content of its row (`SeenWas`), that a create has its row
  to itself, and that an open update expects a version no newer than the one it read. So a
  version that matches at the write is the one that was read, the row is the one that
  was checked (`WritesWhatItSaw`), and a row of one parent stays one. The budget
  (`BudgetInv`) adds that a transaction between its check and its write has room for its
  row in the split that it is going to (`WritersFit`), and that two of them never go to the
  same split (`WritersApart`, the advisory lock): whatever the others write or remove
  meanwhile makes nothing bigger there. The sums are those of the model,
  `MapThenSumSet`, a recursive function that `Fold` names. Induction over the set is
  replaced by a smallest counterexample (`SmallestSubset`: the strict subsets of a finite set
  are well founded): so `FoldExists` and `TotalIsNat` (the sum exists and is a natural),
  `TotalOfSame` (it depends on its rows only), `TotalWithout` (one row leaves) and
  `TotalOfFewer` (a part is no larger).
* **`ResilienceProofs`**, the breaker: `BreakerTypeCorrect`, `ClosedIsBelow`,
  `TripsOnlyAfterStreak`, `ClosesOnlyWhenProven`. The invariant says that in CLOSED
  `failureCount` is the current streak, and in HALF_OPEN `successCount` is what the present
  trial has proven; in the other states the counters mean nothing, and nothing reads them.
* **`IdempotencyProofs`**: `TypeCorrect`, `KeyExecutesOnce`, `ReplaysAreGenuine`,
  `MemoryForgetsNone`. For replays the invariant follows a response from the handler that
  returned it through the write that is not awaited into either store and out again
  (`StoresGenuine`, `ReturnedInv`, `ReplayInv`); this needs nothing of the order in which
  the writes land. For the execution it says, as long as none of the five ways has opened,
  that only Redis is used (`RedisAlone`), that a request which runs, has committed or still
  has a write under way is the one that its key's entry names (`HolderNamed`), that whoever
  is about to mark a key is alone there and finds it free (`MarkerAlone`), and that only a
  request which failed erases (`EraserFailed`). Two that commit under one key are
  then both the one that the entry names. `MemoryForgetsNone` holds even when ways
  are open: a placeholder in memory, which has no lifetime there, belongs to a handler that
  still runs on that replica, unless a single command slipped.
* **`StripeWebhooksProofs`**: `TypeCorrect`, `AcknowledgedIsApplied`,
  `ProcessedIsApplied`. The invariant adds that a delivery on its way to a 200 has seen the
  effect committed. A claim is refused only for a row that says 'processed'
  (`RefusedIsProcessed`), and the invariant has that such a row's event took effect. The
  proof does not depend on how `reclaimed.length` is read (run `webhook_reapplied`).
* **`StatusWorkflowProofs`**: lemmas on the shared actions, for any table, roles and people. The
  invariant `WorkflowInv` says that a request which still has the row's version
  was validated against the status that the row has now (`ValidatedNow`), and that a
  versioned request holding the row's lock has its version (`WrittenIsFresh`): writes take
  the version from everyone else, and nobody writes while the row is locked, be it by a
  person or by a delete request.
  `VersionedMoveIsPermitted` follows.
* **`LeadConversionProofs`**: `TypeCorrect`, `ClientsLinked`, `LeadHasOneClient`,
  `MovesArePermitted`. The invariant adds that one handler converts at a time (the advisory
  lock) and that the one that does has found no client. `ClosedIsTracked`: from the
  write that closes a lead on, the lead has its client or an event that has not been handled
  to the end, unless a conversion was lost; its invariant (`TrackingInv`) covers the requests
  that have written and not yet committed, because the event leaves before the commit.
* **`ContractSignatureProofs`**: `TypeCorrect`, `SignedOnce`, `RemovalsAreAccounted`,
  `LinkKept`, `SignedIsFixed`. The invariant says what the copies of the row are worth that
  requests and the scheduler carry (`CopiesCurrent`): as long as a copy is fresh it holds
  the row's link, and no new document for a signed contract. Every write of the row takes
  that freshness away, so a write that is not blind carries what the row has. `SignedOnce`
  rests on the count being zero whenever the contract awaits a signature.
  `RemovalsAreAccounted` adds that the delete request holding the row found it not deleted.
  `NoEarlyAnswer`: the provider is told 200, and so stops delivering a completion, only once
  the contract that names the envelope waits no longer, or before the link was written, or
  after a person gave the contract another platform. Its invariant (`EnvelopesApplied`)
  rests on the platform being DocuSign as long as nobody did that, and on the table: no
  transition leads from a contract that was sent back to one that waits (`NoWayBack`), so
  what a webhook request found stays true until it answers.

`OverridesCapped`, `ClosedIsBelow`, `MemoryForgetsNone`, `ClosedIsTracked` and
`NoEarlyAnswer` are proved for every instance and not repeated by a run. The last three are
the part of a liveness property that holds at every moment: what has to end is under way
(for `QueuedRuns` and `EventuallyDone` that part is `WaitersKept` and
`AcknowledgedIsApplied`, for `DunningEnds` it is `DunningKeepsClock`).

Every invariant, action property and refinement that a passing run checks is the conclusion
of a theorem. Only model-checked: the liveness properties (`QueuedRuns`, `DunningEnds`,
`EventuallyDone`, `OpenIsTried`, `Recovers`, `KeyFreed`, `ClosedLeadBecomesClient`,
`SignatureArrives`), because they rest on fairness and so on ENABLED, which is out of
the prover's reach. The refuted statements have no proof.

## 5. Plan

In this order:

1. **`Dunning`**: the cycle on two replicas with the advisory lock, the time-out that
   does not cancel, the notification keyed on `status_changed_at`, failure streaks;
   composed with `BillingState`. Abstract specification: one notice per transition.
2. **`InvoiceOverdue`**: the scheduler's unconditional write against payments.
3. **Proofs**: what `BoundedAdmission` and `DunningTimeline` promise as theorems of their
   own, which the refinements then carry over to the limiter and to billing.

The order follows the damage a wrong interleaving does: money and rights first,
notices and caches later.

## 6. Not modelled

* Shares stored with both parents before that was refused, and two writes of one row
  within one millisecond, which the version cannot tell apart
  (`optimistic-update.util.ts:49`).
* Automation, RBAC, domain CRUD, reports, the other integrations, the web client and the
  migrations, for the reasons given in `PROJECT.json`.
* External data exchange (`core/external-data`): the registry holds only the providers
  that answer "not configured", so no submission and no webhook of it gets anywhere.
* The mode without session context (`DATABASE_SESSION_CONTEXT_ENABLED` unset, the
  default on a developer's machine), in which handlers are not one transaction.
* Deadlocks between handlers: `activateTenant` and `startPaymentGrace` lock the two
  billing tables in opposite orders. PostgreSQL aborts one; the model has the outcome
  (`Abort`) and not the cause.
* Messages and domain events sent before a commit, except LEAD_CONVERTED:
  `billing:plan_upgraded` and TENANT_CREATED (`billing.service.ts:816`), CONTRACT_SIGNED
  (`docusign.service.ts:507`), whose handler looks for the execution tasks and creates them
  without a lock (`contract-workflow.handler.ts:63`).
* Autentique apart from DocuSign, and an envelope linked to several contracts
  (`docusign.service.ts:437`).
* Time finer than a day in billing, and clocks that differ between replicas.

### 6.1 Modelled, and left to the code as it is

What the models show and no property forbids, because nothing in the code promises it:

* a payment refused as stale has set `billing_subscriptions` to active
  (`billing-enforcement.service.ts:412`); the request that escalates to `read_only` is
  admitted (`:610`); a guard that read an expired override removes a fresh one (`:574`);
  the stamp is decided by a snapshot (`:642`);
* an event without a period is accepted whatever is stored and erases the stored period,
  and NULL accepts whatever comes next (`billing.service.ts:979`, `:988`): after it, an
  event older than one already applied gets through, which the comment above the guard
  means to exclude (`:984-987`);
* CONTRACT_CANCELLED leaves before the commit (`contracts.service.ts:470`), so a removal
  that is rolled back and repeated is announced twice, where the comment wants no duplicate
  notification of one cancellation (`:454-461`);
* an update with the right version may give a sent contract another `signing_platform`
  (`contracts.service.ts:195`); the completion then finds no contract, although the link
  names the envelope, and is answered 200 (`docusign.service.ts:426`);
* a failure recorded late overwrites a processed row (`billing-enforcement.service.ts:324`);
* an override may put a tenant without a deadline into dunning
  (`billing-enforcement.service.ts:505`);
* a result that arrives late counts in the state it finds, and HALF_OPEN lets everybody
  through (`circuit-breaker.ts:57`, `:50`);
* a response is stored before the commit, so that one which failed is replayed
  (`idempotency.interceptor.ts:101`);
* a close that is rolled back converts the lead, the handler closes a lead that was
  marked lost meanwhile, and a lost conversion is not tried again
  (`leads.service.ts:459`, `lead-events.handler.ts:157`, `:146`);
* `sendForSignature` asks for no status, and an envelope whose row could not be written
  stays at the provider (`docusign.service.ts:324`, `:320`); the second `UPDATE` of
  `applyProviderSignature` leaves `updated_at` (`contract-provider-signature.ts:81`).

Of the modules not modelled, `dunning.service.ts` has a read-only `getState` where its
comment promises an escalation (`:245`), a time-out that does not cancel (`:272`), two
replicas (`:231`) and a job id that BullMQ refuses (`:348`); `releases.service.ts:286`
merges metadata over a stale copy as the contracts do.
