# A TLA+ model of ostone

ostone turns the customer-service conversations of a workspace into a *domain
pack* (intents, slots, policies, workflows) by a pipeline of machine-learning
stages, lets an operator review the draft, publishes it, and then answers
customers with it in a chat where a human counselor may take over.  The product
is sold by subscription through the payment provider Toss.

This directory models the parts of the backend in which several actors change
the same rows, and the parts of the frontend that keep a copy of the server's
state while requests, broadcasts and timers overtake each other: TLA+ modules,
TLC configurations, and TLAPS proofs.

1. [Inventory of the system](#1-inventory-of-the-system)
2. [Modules](#2-modules)
3. [How the models correspond to the code](#3-how-the-models-correspond-to-the-code)
4. [What the runs check](#4-what-the-runs-check)
5. [Fairness](#5-fairness)
6. [What is proved](#6-what-is-proved)
7. [What the models found](#7-what-the-models-found)
8. [What is abstracted, what is left out](#8-what-is-abstracted-what-is-left-out)
9. [Plan](#9-plan)

To run: `tlc -workers 2 -config BillingOneScheduler.cfg MCSubscriptionBilling.tla`
(the module of each configuration is in section 4) and `tlapm M_proof.tla` for
each of the modules `M_proof` of section 2 (up to some minutes each).

## 1. Inventory of the system

The backend is one Spring service (several instances may run) over one
PostgreSQL database at the default isolation, READ COMMITTED.  Airflow runs the
pipeline and reports by HTTP callbacks; Toss charges and refunds and reports by
webhooks.  The frontend is a React application that talks to the backend by
HTTP and, for chats, by STOMP over a WebSocket.  Components of the backend share
state through the database only, but for the map of the generation guard, which
belongs to one process.  Paths below are under
`src/backend/src/main/java/com/init/`, or `src/frontend/src/` for the frontend.

| Component | State | Operations | What makes it correct |
|---|---|---|---|
| Subscription lifecycle (`payment/application/SubscriptionService`) | `payment.subscription`, `billing_key` | create, cancel, claim for authorisation, issue the billing key, first charge, finalize or reset | one open subscription per workspace; two first charges of one subscription exclude each other |
| Widget payment (`payment/application/PaymentService.confirmPayment`) | `payment.payment`, the subscription it activates | check, charge at Toss, record and activate | an activated subscription was paid for; a canceled one stays canceled |
| Recurring billing (`payment/application/RecurringBillingService`, `RecurringBillingScheduler`) | the same tables, the unique key (subscription, period) | expire, charge, retry | a period is charged at most once; a due period is settled; failures are counted |
| Refunds (`PaymentService.cancelPayment`, `AdminBillingUseCase`) | `payment`, `payment_cancel` | partial and full cancel, administrator's full refund | the books are never ahead of what Toss paid back |
| Toss webhook (`PaymentWebhookService`) | `webhook_event`, `payment.status` | receive, ask Toss, reflect, mark processed | what Toss did shows in the end; redelivery is harmless |
| Workspace quota (`JdbcWorkspaceQuotaRepository`) | none of its own | read the plan's limits | quota is granted for a paid period only |
| Pipeline job (`pipelinejob/`) | `pipeline_job` (versioned), `webhook_receipt` | trigger, retry, callbacks for domain pack, intent and workflow drafts, failure callback | a callback takes effect once; a finished job stays finished; a job that cannot proceed is failed |
| Review checkpoints (`review/`) | checkpoint and decision rows | receive checkpoint, confirm domain, submit feedback, replay | a decision and its replay run agree; stale checkpoints do not move the job |
| Free onboarding (`workspace/application/WorkspaceFreeOnboardingService`) | columns of `workspace` (no version) | claim, attach to a job, consume, release | one free run per workspace |
| Workspaces (`workspace/`) | workspace, members | create, update, archive in single transactions | roles |
| Matching-profile builds (`workflowruntime/.../WorkflowMatchingProfileBuildWorker`) | the build queue table | enqueue, claim (`SKIP LOCKED`), succeed, fail, exhaust | a build is owned by one worker; every build ends |
| Chat session (`workflowruntime/`: `CounselorService`, `ConsultationService`, `ChatSessionService`, `ChatWebSocketService`) | `chat_session` (no version), `chat_message` | claim, release, close, switch the response mode, post | status, counselor and mode agree; messages are numbered in order |
| Assistant (`LlmResponseHandler`, `AiResponseGenerationGuard`) | a map of semaphores | answer a customer's message asynchronously | one answer at a time; silent once a human has the session |
| Demo chat (`chatdemo/`) | sessions of the demo | create, append and answer under the row's lock | the same |
| Simulation feedback (`SimulationImprovementCandidateService` and its review and decision services) | `simulation_feedback`, `simulation_improvement_candidate`, `review_task`, `review_decision` (no versions) | propose a candidate, submit it, approve, reject | a candidate is decided once |
| Workflow runtime, simulated chats (`workflowruntime/`) | `workflow_execution` | walk the graph, evaluate conditions | the walk follows the graph |
| Customer's page (`pages/user-chat`, `entities/chat`) | list of messages, request ids and timers, localStorage | begin, restore, send, receive | the customer sees every message once, in order, of one's own conversation |
| Counselor's page (`pages/consultation`, `features/consultation`) | the queue, the open conversation, the messages being sent, dialogs | read, follow events, claim, end, release, write | what is shown is what the server has; nothing stays blocked or "sending" |
| Signed-in browser (`shared/api`, `shared/lib/auth`, `PrivateRoute`) | tokens in localStorage and a cookie | request, refresh, log in, log out | a session lasts; no page stays blank |
| Domain pack versions (`domainpack/`) | pack, versions | draft, clone, discard, activate | one draft per pack; activation of the latest |
| Workflow graph validation (`domainpack/application/WorkflowGraphValidator`) | none | validate | accepts exactly the well-formed graphs |
| Corpus upload (`corpus/`) | datasets, object storage | presign, complete, start ingestion | a completed upload is processed |
| Authentication (`auth/`) | users, refresh tokens | sign up, log in, rotate | a token is used once |
| ML pipeline (`src/ml`), infrastructure | outside the backend | | environment of the models |
| Other pages, generated API functions | what one request returned | forms, filters, tables | |

How they interact.  The scheduler, the HTTP threads and the webhook threads meet
on `subscription` and `payment`; Toss is called between transactions
(`SubscriptionService`, `RecurringBillingService`, `confirmPayment`,
`refundFull`) or inside one that holds a row lock (`cancelPayment`).  The
pipeline job is moved by the user (trigger, retry, review), by Airflow
(callbacks) and by the review component, and its end consumes the free
onboarding of the workspace.  A published or edited domain pack enqueues
matching-profile builds, whose profiles the chat's workflow selection reads; so
does an approved improvement candidate.  A chat session's row is where
customers, counselors, the asynchronous assistant, the demo and the workflow
runtime meet; most changes are broadcast after their commit, and the pages put
together what they were answered and what was broadcast.

What is hard about them:

* Most transactions read a row **without a lock** and write all of its columns
  back (no `@Version` on `Subscription`, `Payment`, `Workspace`, `ChatSession`;
  no `@DynamicUpdate`): lost updates.
* Calls to Toss sit **between** transactions: a crash or a lost answer leaves
  the two sides different, and only idempotency keys and retries bring them
  together.
* **Lists go stale**: the scheduler works off a list of identifiers it read
  once.
* **Callbacks and webhooks** arrive twice, late, at once and out of order.
* **Pages** read lists while events about them come in; nothing in an answer or
  an event says which is the younger.  Answers arrive after the user has gone on
  to something else, and what was typed is shown before the server has it.
* **Workers** are taken for dead when they are slow.

`PROJECT.json` lists the hazards at their lines with the property that would
catch each.  Known ones that no property covers are at the end of section 8.

## 2. Modules

| Module | What it is |
|---|---|
| `SubscriptionRow` | a row of `subscription`; each method of the entity as an operator on rows; the scheduler's three queries as conditions |
| `SubscriptionBilling` | the billing of one workspace: create, cancel, authorise with a first charge, widget payment, recurring billing, over the database and Toss |
| `PeriodLedger` | abstract specification: a billing period is invoiced, then charged once, then booked |
| `MCSubscriptionBilling` | symmetry for TLC |
| `SubscriptionBilling_proof` | the theorems about `SubscriptionBilling` |
| `PaymentRefund` | the refund of one approved payment by customers, administrators and webhooks |
| `PaymentRefund_proof` | the theorems about `PaymentRefund` |
| `MCPaymentRefund` | two keys, one partial and one for all that remains |
| `PipelineJob` | the pipeline jobs of one dataset, the Airflow runs that work for them, the trigger, the reviews and the callbacks |
| `PipelineLifecycle` | abstract specification: a job goes through its stages in order, stores each post once, takes each decision once, ends once |
| `MCPipelineJob` | symmetry, and a constraint on the second job |
| `PipelineJob_proof` | the theorems about `PipelineJob` |
| `MessageLists` | `filter` and the stable `sort` of a list, by the places of its elements, for the two chat pages |
| `MessageLists_proof` | the lemmas about them |
| `UserChat` | the customer's page in its two modes, with the server's log of each session, requests, broadcasts and the browser's storage |
| `UserChat_proof` | the theorems about `UserChat` |
| `ConsultationChats` | the conversations both of the counselor's modules speak of |
| `ConsultationQueue` | the counselor's queue, the address, the claim and the dialogs, over the rows of the sessions |
| `ConsultationThread` | the messages of the open conversation and those being sent |
| `Consultation_proof` | the theorems about `ConsultationQueue` and `ConsultationThread` |
| `AuthSession` | the tabs of one browser and the refresh tokens of the server |
| `GenerationLease` | abstract specification: one thread at a time answers a session |
| `GenerationGate` | `AiResponseGenerationGuard`, every atomic step of its map, counts and semaphores |
| `ChatRuntime` | one session's row and messages on the server, with the assistant and the demo; it uses `GenerationLease` for the guard |
| `SimulationReview` | one feedback, its candidate, the review tasks and the reviewers |
| `ProfileBuildQueue` | the queue of matching-profile builds of one version and the workers of all servers |
| `SmallParts_proof` | the theorems about `AuthSession`, `GenerationGate`, `ChatRuntime`, `SimulationReview` and `ProfileBuildQueue` |
| `ServiceParts` | the eight modules from `UserChat` to `ProfileBuildQueue` side by side, for one run of TLC |
| `MCServiceParts` | symmetry and the constraints of that run |
| `ServiceParts_proof` | every theorem about a part, of the parts side by side |

The eight parts share no variable: at this level of detail what one of them
sees of another is in its own module (a page's module contains the log or the
rows it is a copy of).  `ServiceParts` therefore does not interleave them; a
behaviour picks one part.  Where one is used by another it is by its abstract
specification: `ChatRuntime` takes the guard as `GenerationLease`, which
`GenerationGate` is shown to implement.

## 3. How the models correspond to the code

`PROJECT.json` gives the lines of every definition.  The principles:

* **A transaction that locks its row is one action.**
  `ClaimBillingAuthorization`, `FinalizeFirstCharge` and
  `ResetBillingAuthorization` use `findByIdForUpdate`; nothing comes between
  their read and their commit.
* **A transaction that reads without a lock is two actions**: the first copies
  the row into the thread (the persistence context), the second writes the
  *whole* copy with its changes.  `CancelSubscription`/`CancelSubscriptionCommit`,
  `ConfirmRead`/`ConfirmCommit`, `CancelExpiring`/`CancelExpiringCommit`,
  `FinalizeRead`/`FinalizeCommit`, and `PrepareCharge` with
  `FindPeriodPayment`, `RenewFromPayment` and `CreatePeriodPayment`.
* **A call to Toss is an action.**  It may act and answer, refuse, or act (or
  not) and lose the answer; the order identifier (or the cancel's key) is the
  Idempotency-Key, so acting twice on one key changes nothing.
* **The database refuses what its indexes refuse**: the partial unique index on
  open subscriptions (`IndexAllows`), the unique key on (subscription, period)
  (`PeriodTaken`), the unique order identifier.  A refused write rolls the
  transaction back.
* **A row lock held during a call to Toss is a variable** (`lock` of
  `PaymentRefund`), because other transactions can be seen waiting for it.
* **A crash** loses a thread with what it holds: its transaction is rolled
  back, what Toss has done stays done.

`subscription[s]` is the row of `s` (`NONE` before its insert); `payment[o]` the
status of the payment whose order identifier is `o`; `order[o]` what the code
generated `o` for and, for a recurring order, the first day of its period (the
billing period key); `approved` the orders Toss has charged.  `thread[t]` has a
program counter named after the next method and the locals it needs; `run[w]`
is the scheduler's position in `RecurringBillingService.run`.

In `PaymentRefund`, `recorded` and `cancelKeys` are the sum and the keys of the
`payment_cancel` rows, `refunded` and `reply` the state of Toss, and `event[e]`
the `webhook_event` rows with their redelivery.

In `PipelineJob`, `job[j]` is the row with its `@Version`; a transaction that
reads it remembers the version in the thread's `seen`, and a save of a row whose
version has moved on fails (`Unchanged`).  Production runs with
`spring.jpa.open-in-view: false` (`application-prod.yml:35`), so each transaction
has a persistence context of its own and reads the row anew.  `receipt[j][e]` is
the `webhook_receipt` of an event, `applied[j][e]` counts how often the rows it
carries (artifact, review session, drafts) were stored, `session[j][k]` is the
review session of a checkpoint.  `run[j][r]` is what Airflow knows of a run: its
status, the post it is at, the attempt, the thread that serves its open call (or
`NoThread` once it has given the call up, though the thread goes on) and whether
its failure has been reported.

* A callback is three transactions in the code and in the model: the receipt
  (`Receive`), the processing (`BeginCallback` to `CommitCallback`), and, if
  that fails, the mark of failure (`MarkFailure`).  A checkpoint's callback is
  one transaction, since its use case is itself `@Transactional`; its failure
  mark is rolled back with it (`RollBackCheckpoint`).
* A review is one transaction around the call to Airflow; when the call fails
  `PipelineJobFailurePersistenceService` fails the job in another one.
* A second delivery that meets the rows of the first fails before it comes to
  the version (`FailCallback`), or after it (`LoseRace`).

The frontend's modules follow three principles.  **A handler, an effect or the
continuation of an awaited call is one action**, since a page has one thread: it
reads the component's state and refs and sets them, and what React runs as its
effect before anything else can come in belongs to it.  **Everything under way
is a member of a set** (requests, answers, frames, broadcasts), so that answers
overtake one another; a STOMP topic is ordered only as far as the code relies on
it.  **A guard against something late is modelled by what it compares**: the
request id, the session and the name at the time of the call against those of
now (`IsCurrentConversation` of `UserChat`, `IsStillOpen` of
`ConsultationThread`).

* `UserChat`: `log[s]` is the server's list of messages, `page.screen` the list
  shown; a local message has no number (`seq = 0`).  `sends` are the posts of the
  demo, which save, generate and answer, and the frames of the signed-in
  customer; `wire` the broadcasts; `sync` the one snapshot a conversation asks
  for; `page.held` with `page.timer` the answer held back while the indicator
  shows typing.  The mishaps are a failed request, a lost broadcast or link, a
  reload, another address.
* `ConsultationQueue`: every change of a row has a number the page does not see;
  `seen` remembers the latest one the page was told, which is how the model can
  say that a reading was older than an event.  `Change` is what every service
  does that publishes a `ConsultationQueueChangedEvent`; the event's type, not the
  row's status, decides what the page does with it.  Two changes publish none: the
  assistant's answer (`AssistantAnswers`; it touches only who spoke last and has no
  number of its own) and the new name of a customer who comes back.  That one,
  `updateSessionStatus` and a workflow's hand-over read the row without its lock and
  write all of it later (`ReadToSave`, `Save`; for this counselor's own request
  the two halves of `CloseServed`).  The excuses of `QueueMirrorsServer` are the
  ways in which the page does show something else (section 7).
* `ConsultationThread`: `pendings` is `pendingMessagesRef`, each with its timer of
  eight seconds (a timer may fire at any time); the error queue names no message,
  so the page fails the oldest; an echo is matched by role and text.  An opened
  conversation is empty or has two pages of messages and one more.
* `AuthSession`: an access token has the number of the refresh token issued with
  it.  `refreshes` holds a tab's `refreshPromise`; `requests` those that wait for
  it and are sent again once.  When the refresh fails, each of them clears the
  session once more after it has read the body of its refusal
  (`handleResponse`); the model takes that into `RefreshFails`.  `ServeRefresh`
  refuses only a token that is not valid any more: nothing at this commit makes a
  user inactive, demands a new password or revokes all tokens of a user.
* `GenerationGate`: `compute` and `computeIfPresent` are atomic per key, the
  permit and the count are changed outside them, so a call is up to five steps.
  A gate is a member of `Gates` and new when nothing refers to it.
* `ChatRuntime`: operations that hold the row's lock to their commit are single
  actions; the demo's append holds it while the answer is generated and is
  several.  `updateSessionStatus` and the hand-off read without the lock and
  write the whole row (`writer`).  The assistant's handler checks, takes the
  lease, generates, then locks the row and checks again.
* `SimulationReview`: the candidate's row is read before the lock of the feedback
  is waited for, and written back whole (`WriteBack`).  A review task another
  transaction has not committed is invisible (`INSERTED`), so several may be made.
* `ProfileBuildQueue`: `claimNext` is two statements and two actions; building
  reads the texts, embeds them without a transaction, then replaces the ACTIVE
  rows in one: those it stales are the ones it saw (`replaced`), the commit comes
  later.  A worker may be slow (`Expire`), crash, or lose the commit's answer, and
  then marks as failed what has succeeded.

History variables (`excuses`, `flaws`, `causes`, `silenced`, `overwritten`,
`reverted`, `overlapped`, a worker's `raced`) are read by properties only.  Each
excuse is named in the comment of the property and is set by one condition; in
its absence the property must hold.

## 4. What the runs check

| Run | Module | Shows |
|---|---|---|
| `BillingOneScheduler` | `MCSubscriptionBilling` | two requests of any kind against one scheduler and two subscriptions: `OneOpenSubscription`, `AuthorizationExclusive`, `PaidUp` |
| `BillingTwoSchedulers` | `MCSubscriptionBilling` | two instances of the service, a request and one crash: `NoDoubleChargePerPeriod`, `PaidUp` |
| `BillingLiveness` | `MCSubscriptionBilling` | one scheduler, a request and one crash, past the day of a retry: recurring billing implements `PeriodLedger` (`ImplementsPeriodLedger`), also where a retry or the run after a crash finds the payment its period has; a due subscription is settled (`DueIsSettled`) |
| `PaymentRefund` | `MCPaymentRefund` | two customer cancels, one administrator, two webhook deliveries, one crash: `BooksNotAheadOfToss`, `CanceledMeansRefunded`, `RefundIsReflected` |
| `PipelineJob` | `MCPipelineJob` | a job from its trigger to its end, served by two threads, with late and repeated callbacks, refused payloads, failing calls and tasks, and a restart: `OneActiveJob`, `AppliedOnce`, `AcknowledgedIsApplied`, `PublishedMeansSucceeded`, `DecisionHasReplay`, and that the jobs implement `PipelineLifecycle` (`ImplementsLifecycle`) |
| `ServiceParts` | `MCServiceParts` | the eight parts around the chat, the browser and the improvement of workflows, with the properties of the next table |
| `BillingRetryNotCounted`, `BillingChargedEarly`, `BillingCanceledRevived`, `PaymentRefundOverwritten`, `PipelineLoserFailsJob`, `PipelineFailedReplay` | | each exhibits one finding of section 7 |

The properties of `ServiceParts`, beside one type invariant:

| Part | Property | Says |
|---|---|---|
| `UserChat` | `ScreenInOrder`, `TypedShownOnce`, `SavedStaysOnScreen` | however broadcasts, answers and the snapshot come in: the list is in the server's order, nothing typed is shown twice, nothing saved vanishes |
| | `OwnConversationOnly` | nothing of a conversation that was left gets into the open one |
| | `TypingIndicatorEnds` | the indicator has an answer or a timer to wait for |
| `ConsultationQueue` | `QueueMirrorsServer` | a queue at rest agrees with the rows, but for five named reasons |
| | `RouteIsOpen`, `BlockedHasRequest` | the open conversation is the address's; nobody waits for an answer that will not come |
| `ConsultationThread` | `SendingIsWatched` | every message "sending" has its timer and every timer its message |
| | `ThreadIsOfActive`, `ThreadIsComplete` | the messages are the open conversation's, once each, in order, and without a gap but for named reasons |
| `AuthSession` | `SessionLasts`, `BlankAwaitsRefresh` | no order of refused requests and refreshes of one tab ends the session or leaves a blank page |
| `GenerationGate` | `GateImplementsLease`, `NoGateLeaks` | the refinement; a gate stays only while somebody will remove it |
| `ChatRuntime` | `RowConsistent`, `NumberedInOrder`, `AssistantYields` | the row agrees with itself under stale writes; numbers follow commits; the assistant yields to a human |
| `SimulationReview` | `DecidedOnce` | one decision, and the four tables agree about it |
| `ProfileBuildQueue` | `ActiveIsLatest` | with nothing left to build the chat uses the profiles of the current texts |

**Bounds.**  `Period = 2` days: the smallest at which a retry (one day later)
falls inside the period after the unpaid one, so that retries, renewals and new
periods overlap.  `MaxNow = 3` (days of the model) lets a subscription be paid
on day 1, fall due on day 3 and be charged; `BillingRetryNotCounted` and
`BillingChargedEarly` use day 4 to let a retry come due or a second renewal
happen.  `BillingLiveness` goes on to day 5 with a crash anywhere: one period is
refused, its retry comes due a day later and finds the ABORTED payment; a run
after a crash finds a payment IN_PROGRESS that Toss has charged, or one that is
DONE over a row that was not renewed.  Each of these was seen to be reached.
Two orders let a first payment and a recurring one, or two orders that
compete for a period, exist; `BillingTwoSchedulers` has three.  Two
requests suffice for every race between two transactions, and with the
scheduler three threads can hold stale copies at once.  Two subscriptions let
one be canceled and replaced.  `MaxAttempts = 4` is the code's
`MAX_RECURRING_ATTEMPTS`; the count never reaches it, in the model or in the
code, for the reason of the first finding.  One crash is enough to lose any one
step of a protocol between two durable effects.  `Amount = 2` makes a payment
refundable in part, twice or at once; the events are then at most three (the
approval and two refunds).

In `PipelineJob` two threads let a delivery that was given up meet its own
retry, a failure report, a review or the trigger that started it.  `MaxTries = 2`
is the DAG's one retry (`dag_defaults.py:9`); one restart again.  `Refused` holds all
three drafts: any of them may be turned down, at any delivery.  Jobs of one
dataset meet only where a job is created, so `SecondOnlyStarts` lets a second
one be created (whenever the code allows it, or a trigger is at work) and does
not follow it further; the first goes through its whole life.  The run has about
2.3 million states.

In `ServiceParts` two of everything that can compete suffice for the races named
above: two conversations or names (one to leave for the other), two tabs, two
counselors, two readings, loads or requests under way, two handlers beside the
demo, two servers; three threads and three gates for the guard (one that removes
a gate, one that has just obtained it, one that makes the next); three reviewers
for two tasks.  Two retries let a build fail, be taken up again and run out;
three tokens, two rotations.  Four constraints keep the page modules in
bounds.  `FirstSessionIsBusy`: the sessions a customer goes on to are opened and
left, nothing is written there.  `CalmQueue`, `OneBusyChat` and `OneSign` limit
how many things are under way or have gone wrong at the same time (three for a
page, two once a counselor has come into the customer's session, a second
conversation of the queue has begun or a row has changed a third time; four or
five in the browser).  Three changes of a row are what it takes for a stale row to undo
something: the conversation begins, is claimed, and is written back as it was.  The constraints cut behaviours off; they
never make a state look better than it is.  Conversations, names, tabs and
counselors are symmetric, and so are users, handlers and servers.  The run has
about 610 thousand states.

Deadlock is checked in the billing runs (the scheduler always has a next run)
and switched off in the refund runs, where a fully refunded payment whose
events are acknowledged is the end, in the pipeline runs, where all jobs may
be finished, and in `ServiceParts`, whose parts come to rest when their bounded
changes are used up.

## 5. Fairness

* `WF` on the steps of a request that has begun and of each scheduler: threads
  with work go on, and the cron trigger fires every half hour.  No fairness on
  arrival of requests, on the clock, on crashes, or on what Toss answers.
* `SF` on the steps of administrators and webhooks in `PaymentRefund`: they wait
  for a row lock that others take and release again and again, and PostgreSQL
  queues the waiters of a row lock, so a waiter is served.
* A webhook that has not been answered with success is sent again by Toss: the
  `SF` covers `ReceiveWebhook` of a pending event.
* In `PipelineJob`, `WF` on what a thread has begun (`Finishes`) and on the posts
  and failure reports of a run.  No fairness on operators, on failures or on
  timeouts.  Only `PipelineFailedReplay` uses it; there one thread and no restart
  suffice, and the counterexample ends in a state in which nothing is left to do.

## 6. What is proved

`SubscriptionBilling_proof` proves, for **every** set of subscriptions, orders,
requests and schedulers, every period length and every bound on crashes and days:

| Theorem | Statement | Inductive invariant |
|---|---|---|
| `TypeCorrect` | `Spec => []TypeOK` | `Typed`: `TypeOK` and `LocalsOK`, which says at which program counters a thread's `sub` and `order` are identifiers and not the null values |
| `OneOpen` | `Spec => []OneOpenSubscription` | itself: every write is under `IndexAllows` or leaves an open row open |
| `OneAuthorization` | `Spec => []AuthorizationExclusive` | `AuthorizationInv`, which ties a request at work on a first charge to the status it claimed |
| `NoDoubleCharge` | `Spec => []NoDoubleChargePerPeriod` | `OneOrderPerPeriod`: two recurring orders of one period are equal, charged or not, which is what the unique key gives and the charge only inherits |
| `QuotaIsPaid` | `Spec => []PaidUp` | `PaidInv` |

`PaidInv` is where the thought is.  `PaidUp` alone is not inductive: a commit
writes a row that was read long before, so the *copies* in threads must be
covered too, an order that is DONE must have been charged, and what covers a
row must stay what it was while orders are added.  `PaidInv` is the conjunction
of `OrdersPaid` (an order whose payment is DONE is charged), `Covered` for each
row in the table and each copy in a thread (a charged order of the same
subscription ends where the row's period ends), and `LocalPaid` (a thread that
will book a success holds a charged order).  The step lemma `OrdersKept` says
that no step forgets a charged order or changes what it was for, so coverage is
stable, and each action then has to be considered only for the row it writes.

`LedgerRefinement` (`ASSUME OneScheduler PROVE Spec => ImplementsPeriodLedger`)
is the refinement of `PeriodLedger`.  Its hypothesis is one running instance
of the backend, whose `@Scheduled` work runs on one thread, and it is needed: a
second scheduler that has read the order before the first one booked it
writes ABORTED over a payment that is DONE, a step the ledger does not have.  A
step that uses no order and puts no scheduler before a commit is a stutter
(`Quiet`), which covers every request (`RequestIsQuiet`); the scheduler's steps
are the ledger's three, by the order they are about (`OrderInvoices`,
`OrderCharges`, `OrderBooks`).  The mapping counts charged orders with
`Cardinality`; since a period has one order (`NoDoubleCharge`'s invariant),
`ChargesAfter` reduces the count to zero and one.  `LedgerInv` adds that the order
a scheduler has just made is neither paid nor charged, and that the payment it is
about to finish is still open.

Before it was proved, each strengthening was checked by TLC as an invariant.

`PipelineJob_proof` proves, for **every** set of jobs and request threads,
whichever drafts may be refused, any number of attempts and restarts:

| Theorem | Statement | Inductive invariant |
|---|---|---|
| `PipelineTypes` | `Spec => []TypeOK` | `Typed`: `TypeOK`, `LocalsOK`, and `RunsOK`, which ties a run's status to its place among its posts (without it `at` could leave `1..4`) |
| `OneActive` | `Spec => []OneActiveJob` | `JobInv` |
| `FinalStaysFinal` | `Spec => FinalIsFinal` | `JobInv` |
| `LifecycleRefinement` | `Spec => ImplementsLifecycle` | `LifecycleInv`: `Typed`, `JobInv`, `AppliedOnce` and `StagesInv`, see below |
| `PostsApplyOnce` | `Spec => []AppliedOnce` | itself: each way to store a post's rows is closed to the second delivery, by the receipt for a checkpoint, by the rows for a draft |
| `DecisionsHaveReplays` | `Spec => []DecisionHasReplay` | `ReplayInv`: also, a review that comes to its commit has its run, and runs are never taken away |

`JobInv` says what a thread between two steps may rely on (`Holds`): the version
it has read is never ahead of the row, and as long as the two are equal the job
is active, so that a commit that passes the version check never leaves a final
status; the holder of the advisory lock sees no active job, and there is one
holder (`OneLock`); a run belongs to a job that is there (`RunsHaveJobs`).
`OneActiveJob` alone is not inductive: the lock's holder creates a job from what
it saw one step before.  `JobMoves` says where a step of a thread can take a
job; `OthersHold` that such a move leaves what the other threads hold, and
`ThreadKeepsJobs` reduces each action to what the acting thread itself holds.

Its second part goes on from there, with the same generality:
`AcknowledgedPostsAreApplied` (`Spec => []AcknowledgedIsApplied`) and
`PublishedRunsSucceed` (`Spec => []PublishedMeansSucceeded`).  Its invariant adds
to `Typed`, `JobInv` and `AppliedOnce` what a run and the thread it waits for know
of each other (`CallsAreHandled`: the thread is busy with the very post the run
is at, for a thread that ends replies, and a run that has given up a call does not
listen), and that the receipt of the last draft is stored with the end of the job
(`LastPostEndsJob`).  Hence a run goes on only by a post that is processed
(`RunsGoOn`).

Its third part is the refinement of `PipelineLifecycle`, by the map that takes a
job's status, how often each post's rows were stored and the state of each review.
In the abstract specification a request reads and changes a job at once; in the
code it checks the job in one transaction and writes it in another.  The theorem
says that the version, the receipts and the rows make up for it: every committed
change is one the job allows when it is made, at its stage, after the posts before
it and not twice (`Goes`), and all other steps leave the three alone (`Rests`).
The code's own checks do not say so: a checkpoint is accepted at any unfinished
status (`PipelineReviewCheckpointCallbackProcessor`) and a workflow draft also
while the job is RUNNING (`PipelineJob:166`).  That the posts come in order
follows from the runs, so the invariant relates all three.  `StageOf` says what
is stored and decided at each status; `RunsBehind` that a replay exists only for a
checkpoint that is stored; `ReadIsCurrent` that what a thread has read of a job
holds as long as the row has the version it saw; `PostHasBasis` and
`ReviewHasBasis` that what a thread works for is there.  `FinalIsFinal` is what
this says of finished jobs.

`PaymentRefund_proof` proves, for **every** amount, any keys whatever they ask
for, any threads and any number of crashes, `RefundTypeCorrect`
(`Spec => []TypeOK`), `BooksFollowToss` (`Spec => []BooksNotAheadOfToss`) and
`CanceledIsRefunded` (`Spec => []CanceledMeansRefunded`).  That the books follow
Toss is a statement about sums over sets of keys, which would take an induction.
`UnitsHaveOwners` says it without one: while something is left to refund there is
a function that gives each unit paid back to one key, as many units to a key as it
asked for once Toss has answered it, and the units on record are those of the
keys on record; a refund extends the function, and a commit adds one key's units
to the recorded ones (`Paid`, `OneKeyMore`).  When nothing is left the amount
bounds the records (`RestIsAll`: a request for all that remains, the
administrator's among them, leaves nothing).  `CancelHasLock` is what the row
lock is for: the sum a request has read is the sum on record until it commits.

The proofs about the parts around the chat, for **every** value of their
constants (threads, sessions, gates, handlers, writers, reviewers, tasks,
servers, builds, retries, texts):

| Module | Theorem | Statement | What the invariant adds |
|---|---|---|---|
| `SmallParts_proof` | `GateType`, `GatesAreRemoved`, `GateRefinesLease` | `GateTypeOK`, `NoGateLeaks`, `GateSpec => GateImplementsLease` | the count of a gate is the number of threads that refer to it, its permit is out exactly while one holds it, and a gate somebody refers to is its chat's: hence two leases of a chat would be of one gate |
| `SmallParts_proof` | `RowStaysConsistent`, `MessagesNumbered`, `AssistantAlwaysYields` | `RowConsistent`, `NumberedInOrder`, `AssistantYields` | a row read without the lock was consistent and allowed its change; while the demo holds the row its number is the next and nobody silences the assistant |
| `SmallParts_proof` | `CandidateDecidedOnce` | `DecidedOnce` | what a thread has read (`RowsRead`): a submitter a draft, a reviewer a row with a task |
| `SmallParts_proof` | `ProfilesAreLatest` | `ActiveIsLatest` | `NewestIsCurrent`: whoever makes the newest build has read the current texts, and once it is stored so has every worker no commit has overtaken; `ReplacesAll`: such a worker still replaces all that is ACTIVE; `QueueInOrder` |

Each also proves the type invariant of its module.

`SmallParts_proof` proves of `AuthSession`, for **every** set of tabs and any bounds on tokens,
requests and outages, `AuthTypeCorrect` (`AuthSpec => []AuthTypeOK`),
`BlankPagesAwaitRefresh` (`AuthSpec => []BlankAwaitsRefresh`) and `SessionsLast`
(`AuthSpec => []SessionLasts`).  A session that lasts is a statement about what is
under way: the answer of a refresh holds a token nobody else has, neither the
cookie nor another answer or request (`FreshTokens`), so no answer can spend what
another one brings; and while nothing has ended the session (`GoodSession`) at
most one refresh is under way, it carries the cookie's token or its answer, which
is the user's, and nothing sent a second time is refused.  Without the first, two
answers could leave the cookie with a spent token; without the second, the
refresh could be another user's.

`Consultation_proof` proves of `ConsultationQueue`, for **every** set of
conversations and unlocked transactions and any bounds on changes, readings and
troubles:

| Theorem | Statement | What the invariant adds |
|---|---|---|
| `QueueTypeCorrect` | `QueueSpec => []QueueTypeOK` | the form of every request and answer by its kind and stage (`QueueTyped`) |
| `OpenFollowsRoute` | `QueueSpec => []RouteIsOpen` | nothing: every step leaves a desk that follows its address, or ends in the effect that makes it follow |
| `NothingStaysBlocked` | `QueueSpec => []BlockedHasRequest` | one claim at a time: its request, or the reading after its failure (`OneClaim`) |
| `QueueIsMirrored` | `QueueSpec => []QueueMirrorsServer` | below |

That a queue at rest agrees with the server is a statement about news.  What the
page was told of a row, by a reading, an event or an answer, is something the row
once was: of an older change, or of the same one, after which the assistant may
have answered (`Past`), and never of a change to come (`Informed`).  Unless
something older came after something younger, a row of which the page knows the
latest change is listed in agreement with it (`TruthListed`); what a sound reading
holds is current, or the change is in an event on its way or already told
(`SoundReadings`); and with the connection there and no excuse, a row the page
does not know as it is has an event on its way or a load that will read it or has
(`NewsComes`).  At rest there is no event and no load, so every row is known, and
known rows agree.

Every change of a row is one of three steps, and each part of the invariant is
kept by each of them: a change with its event (`RowMoved`), one that is lost on the
queue (`RowLost`: the readings under way are no longer sound and an excuse is
recorded) and the assistant's answer (`RowAnswered`).  The answer is why
`QueueMirrorsServer` speaks of agreement and not of equality: a queue that knows
the latest change may show the customer as the last to have spoken when the
assistant has answered, but never the other way round (section 7).

Its second half proves of `ConsultationThread`, for **every** set of texts, any
page size and any bounds on messages, requests and failures:

| Theorem | Statement | What the invariant says |
|---|---|---|
| `ThreadTypes` | `ThreadSpec => []ThreadTypeOK` | `ServerKeeps`, and what the list may hold at all (`ShownIn`): saved messages of the open conversation, and own ones without a number that are not "sent" |
| `SendingAlwaysWatched` | `ThreadSpec => []SendingIsWatched` | `PageWaits`: the timers' messages are those being sent, one timer each, and of messages the counselor has written |
| `ThreadAlwaysOfActive` | `ThreadSpec => []ThreadIsOfActive` | `PageShows`: the list is empty until something of the open conversation came, and repeats no message; `PageLoads`: a request that is not an earlier visit's is the open conversation's |
| `ThreadAlwaysComplete` | `ThreadSpec => []ThreadIsComplete` | `PageWhole`, below |

That a thread at rest has no gap is a statement about what is still on its way.
A message has been *brought* when it is in the list or in a broadcast that comes.
`Whole` says: the list is in the server's order; of the messages brought the first
has all later ones behind it; and each page that may come, the one the page
would ask for next and those under way, continues at or below the first message
brought (`Reaches`), counted from the end as it was when the server read it, or
as it is now when it has not yet.  A new message moves the pages by one and is
brought, or missed, which is a flaw; a page that arrives adds what lies before,
so that what was whole stays so.  The flaws are the ways out: a missed
broadcast, a dropped echo, a page asked for on an earlier visit, and one that is
put in front of messages whose broadcasts are still coming.  At rest, brought
means shown, and `ThreadIsComplete` follows.  An earlier version of the property
also excused a first page that failed to load; the proof did not need it, and it
is gone: such a thread shows the latest messages only, without a gap.

`UserChat_proof` proves, for **every** set of names and texts and any bounds on
sessions, messages and mishaps, in both modes of the page:

| Theorem | Statement | What the invariant says |
|---|---|---|
| `ChatTypeCorrect` | `UserChatSpec => []ChatTypeOK` | an answer's messages are the log's, and begin with the message it answers (`SendsSound`) |
| `NothingOfAnotherConversation` | `UserChatSpec => []OwnConversationOnly` | `ScreenOf`: each message shown is one of the session's log or one the customer sent into it; a request for a session that the page still waits for finds it without one (`StartsSound`); what is stored for a name is part of the log of a session of that name (`KeptSound`) |
| `OrderOnScreen` | `UserChatSpec => []ScreenInOrder` | the same `ScreenOf`, which is in order |
| `NeverShownTwice` | `UserChatSpec => []TypedShownOnce` | `TypedCovers`, below |
| `IndicatorHasAnEnd` | `UserChatSpec => []TypingIndicatorEnds` | itself, by what a step does to the indicator (`IndicatorStep`) |
| `SavedStayShown` | `UserChatSpec => SavedStaysOnScreen` | that no merge drops a saved message |

`MessageLists_proof` is about the lists themselves, for both pages.  `Filter` and
`SortedBy` are defined by ranks (how many elements come before one), and a finite
set with a strict total order has exactly the ranks 0, 1, ... (`RanksFill`); so a
sorted list has the elements of its list, each in its one place, in order
(`SortPlaces`), and a filtered one keeps the order of what it keeps
(`FilterPlaces`).  What a broadcast adds to a screen is
then a lemma about two cases, a copy replaced or a message added
(`MergeRealtimeMessage`), and a list of broadcasts is an induction over the list
that needs no operator as a parameter, since it looks for the first message after
which the screen would be wrong (`Upwards`).  For the snapshot
(`mergePersistedMessagesWithPending`) the local messages kept are those with at
least as many older copies as the snapshot has copies of their text; that these
and the snapshot's are together no more than the screen had, or than the snapshot
has (`PendingCount`), is the count behind `PersistedFacts`.

A screen that repeats no more than the customer typed is not an inductive claim:
the next echo might be one too many.  `TypedCovers` keeps the account on the
server's side: of each text, the messages saved and those on their way that may
still be saved are together no more than were typed.  Being saved, failing, a lost
answer or a reload only moves a message from one count to the other or drops it.

`ServiceParts_proof` carries all of this over to the run that checks the parts
side by side.  A step of `ServiceParts` is a step of each part or leaves it alone
(`PartsMove`), so a behaviour of the whole is, seen from a part, a behaviour of
that part.  That is how `PartsSpec` is written and says nothing of the code; it is
the lemma (`EachOnItsOwn`) by which the theorems are carried over.
`PartsTypes` (`PartsSpec => []TypeOK`), `PagesStaySafe` and `WorkersStaySafe` are
then the theorems above, of `PartsSpec`.

The assumptions are the named `ASSUME`s of the modules: positive period, page size
and attempts, null values that are no identifiers, at least one text, disjoint
thread sets, refusable drafts that are drafts, and a bound on messages that
leaves room for those a conversation begins with.  TLC evaluates them in the runs.

**Model-checked only**: liveness (`DueIsSettled`, `RefundIsReflected`), which
the prover's fragment of temporal logic does not reach.  Every invariant, action
property and refinement that a passing run checks is the statement of a theorem.

## 7. What the models found

1. **A retry is never counted** (`BillingRetryNotCounted`).  A failed renewal
   leaves the period's payment ABORTED; the retry finds that payment, charges
   again under its order, and `Payment.complete`/`markAborted` throw because it
   is not IN_PROGRESS.  The transaction rolls back: the subscription stays
   PAST_DUE with the same `nextRetryAt` and the same failure count, is charged
   again at the next run, and is never canceled for non-payment nor renewed.
2. **A period charged before it begins** (`BillingChargedEarly`).
   `prepareCharge` does not ask whether the row it reads again is still due.
3. **A canceled subscription revived** (`BillingCanceledRevived`).  The widget's
   `activateSubscription` reads without a lock and writes the whole row.
4. **A full refund shown as partial** (`PaymentRefundOverwritten`).  Two webhook
   deliveries ask Toss in one order and commit in the other.
5. **The loser of a race fails the job** (`PipelineLoserFailsJob`).  A callback
   that timed out and its retry both pass the checks.  The loser meets the rows
   of the winner before it comes to the versioned save; that is not a version
   conflict, so `markFailure` sets the job FAILED that has just moved on.  (When
   the winner has finished the job, `isFinalized` protects it: `FinalIsFinal`.)
6. **A failed replay never ends its job** (`PipelineFailedReplay`).  The failure
   report of a replay run is compared with the id of the initial run and
   refused; the job stays RUNNING, and every further trigger of the dataset is
   handed that job.

The lines and the texts each contradicts are in `PROJECT.json`.

What the excuses of section 3 stand for: behaviour of the code that a reader of
the pages should know of, although no comment or test promises otherwise.

* **A second checkpoint may be stored before the decision it follows is on
  record**: the replay is created inside the transaction of the decision, so its
  run may post while the job still waits for the confirmation.  The decision then
  loses by the version (409), its review stays OPEN, and the job goes on all the
  same (`PipelineLifecycle.TakenIn`).
* **The queue may show an older state** (`"overtaken"`): a reading of the queue
  that was answered before an event, but comes in after it, replaces the list
  the event had changed; nothing reads it again until the connection is lost.
  An event that settles a failed load (`"load failed"`) shows one row as if it
  were the queue, and a connection that comes back while the queue is being read
  (`"not read again"`) does not read it a second time.  The first connection is
  made while the queue is being read, and what changes between the two is not
  told (`"first connection"`).  A customer who comes back under another name has
  the row written back as it was read, without an event (`"written silently"`): a
  claim that was committed in between is undone and the queue still shows it.
* **The queue is not told of the assistant's answers**: `saveAssistantMessage`
  (`LlmResponseHandler:177`) makes the answer the session's last message, which the
  queue shows and is sorted by, and publishes no event; the queue goes on showing
  the customer's message as the last one.  Of the changes that need an event
  `.agent/specs/415.md:41` says all that affect what a row of the queue shows.  With
  equality in the place of `r.said => q.said`, `Agrees` is violated by a conversation
  that begins, a message and an answer.
* **A finished conversation may be listed**: a message or note saved by REST, or a
  hand-over, after the end of a conversation publishes an "upserted" event, and
  the page lists the conversation again, with its finished status, until the queue is
  read anew.
* **A counselor's note reaches the customer's page** when it is sent through the
  live chat: `sendCounselorMessage` broadcasts it to the session's topic as it does
  a message, and the page takes a sender it does not know for the assistant.
* **A thread may have a gap**: an echo whose text equals that of another message
  being sent is dropped for it, an earlier page asked for on a previous visit of
  the same conversation is accepted, pages move on with new messages.
* **Two tabs that refresh at once end the session** (`"two tabs"`): the second
  sends the token the first has just had rotated.  So does the lost answer of a
  refresh.
* **A blank page** (`"left blank"`): the path changes after another tab renewed
  the session, and the route waits for a refresh nobody runs.
* **A session's row may be overwritten** (`ChatRuntime.overwritten`): resolving
  or closing writes back the row as it was before a claim.  It stays consistent,
  but the claim is gone and the assistant may speak again.
* **A decided candidate may show as READY_FOR_REVIEW** (`reverted`): a submission
  that read the draft writes it back after the decision.  The candidate cannot be
  decided again, since its feedback is closed, nor can it leave that state.
* **An older build may win** (`overlapped`): two servers build at once, the one
  that has read the older texts commits last.  Its profiles, or those of both,
  stay ACTIVE until the next build.  A build whose row went FAILED after it had
  succeeded fails on its own rows at every retry, harmlessly.

## 8. What is abstracted, what is left out

* **Instants are days**, and a billing period is a constant number of them
  (`BillingInterval` adds a calendar month or year).  Two instants of one day
  coincide.  `PaymentIdentifiers.periodKey` formats the full instant: two first
  charges therefore never share the unique key, and the model does not make
  them.  A transaction does not span midnight (`Tick`).
* **Order identifiers are fresh values**; a widget's order identifier, which the
  client sends, is assumed not to be one the server generated for a recurring
  charge.
* **Money**: one price; amounts matter in `PaymentRefund` only, in units.
* **One workspace**: workspaces share no row.
* **Pipeline jobs**: the content of drafts and decisions; a job of several packs
  (the publishing posts the same three drafts for each); posts that would be
  refused as malformed or unauthorised; a job created by an upload instead of
  an operator, which goes through the same trigger.  CANCELLED is a status no
  code writes.  `markFailure` and the trigger's second transaction read and
  write within one action: their own loss of a version race leaves the job as
  it is, which the order of the two actions shows as well.
* **Pages**: wording, layout, rendering, scrolling, notices; React's batching
  beyond what section 3 says; development-mode double effects.  A message's text
  is one of few values.  The socket is linked or not; STOMP's own reconnection
  timing is not modelled.  The panels beside the counselor's queue are left out.
* **Browser**: one access token in localStorage for all tabs, an access token
  expires at any time; no wall clock.
* **Chat runtime**: one session; what the model answers, how a workflow is
  chosen, the session's name, last message and metadata.  (Who spoke last is in
  `ConsultationQueue`; the message's text and time are not.)
* **Profile builds**: one version of a pack; a profile stands for all of its
  workflows'; builds have different profile versions (the code makes them of the
  millisecond).  `MaxText` and `MaxBuilds` bound edits.
* **Review of candidates**: one feedback; the patch and the draft version it is
  applied to.
* A step that would have no effect (a request refused at once) is no step.
* Authorisation, plan lookup, encryption of billing keys, JSON and HTTP, logging.
* Components with status `not_modelled` in `PROJECT.json`, each with its reason.

How much of the code that is: of the TypeScript two thirds are request functions
generated from the API's description, one per endpoint, without state; most of
the rest is markup, tables and forms over what a single request returned.  The
map covers the parts of the frontend in which state outlives a request, and the
Java services in which several actors meet.  By lines that is a small share of
the repository and will stay one: there is no state machine in the remainder
that a model would be shorter than.

Hazards known and not covered by a property:

* a subscription stuck in AUTHORIZING after an exception that is neither a
  gateway's nor a rejection (`SubscriptionService:151`); a first charge that
  times out after Toss charged (`:186`); a finalization that throws after the
  charge (`:223`);
* `RecurringBillingService`: `cancelAtPeriodEnd` written back over a cancellation
  (`:228`), two finalizations of one payment (`:221`), the query after a failed
  insert in an aborted transaction (`:189`);
* calendar months that clip a subscription's day (`BillingInterval:11`), which
  days as integers cannot show;
* connections held during calls to Toss (`PaymentService:172`) and to the model
  (`AiConfig:43`, the executor's caller runs what its queue does not take):
  durations;
* a webhook that marks a payment CANCELED before an administrator's refund is
  recorded: `finalizeRefund` validates again, so the money is back, the
  administrator gets an error and no `payment_cancel` row is written
  (`AdminBillingUseCase:73`);
* two uploads that each find the free run unclaimed, on a row without a version
  (`WorkspaceFreeOnboardingService:49`);
* a crash between an upload's commit and the ingestion trigger it runs afterwards:
  the dataset stays in processing (`CompleteRawFileUploadService:181`);
* a crash between the job's row and the trigger's call
  (`TriggerDomainPackGenerationUseCase:76`), and the call of a replay inside the
  transaction (`PipelineReviewReplayOrchestrator:67`), as far as Airflow's own
  rows are concerned;
* two drafts cloned at once from one version (`DomainPackVersionCloneService:127`).

## 9. Plan

The order of the work, the most important behaviour first:

1. *Done*: `SubscriptionBilling` with its ledger and proofs; `PaymentRefund`
   with its proofs; `PipelineJob` with the trigger, the callbacks and the reviews, and its proofs.
2. *Done*: the chat from both ends (`UserChat`, `ConsultationQueue`,
   `ConsultationThread`), the browser's session (`AuthSession`), the guard and its
   refinement of a lease (`GenerationGate`), the session's row (`ChatRuntime`),
   the review of improvement candidates (`SimulationReview`) and the queue of
   profile builds (`ProfileBuildQueue`), with their proofs.
3. *Done*: the lists of both chat pages by ranks (`MessageLists`), the proofs of
   `ConsultationThread`, and the theorems of the parts side by side
   (`ServiceParts_proof`).
4. *Done*: `PipelineLifecycle` and the proof that `PipelineJob` refines it.
   Left: the decision's content, for "the decision on record is the one the run
   works with" (two operators who confirm different domains); the free onboarding
   its end consumes.
5. Domain pack versions (one draft per pack, activation of the latest), then the
   workflow graph validation against a reference definition on small graphs.
