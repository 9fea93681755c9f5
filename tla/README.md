# Formal model of modars-parent-back

TLA+ models of the backend of a parents' learning app (`src/` is the repository:
Express and TypeScript, Postgres through Prisma, Redis, BullMQ workers), the
TLC configurations that check them on small instances, and TLAPS proofs for
every value of the constants. Paths below are relative to the repository root.

## 1. The system

Two kinds of processes share one Postgres database: API servers
(`src/server.ts`) and workers (`src/worker.ts`), several of each. Handlers use
Prisma with Postgres' default isolation, READ COMMITTED, and almost always read
a row, `await`, and write it later by id; few take a lock or test what they read
when they write. That is where the hard behaviour is, and what the models keep.

| component | state | operations | talks to |
|---|---|---|---|
| **billing** `src/modules/billing` | Subscription, PaymentIntent, Invoice, PaymentMethod | initiate, overflowUpgrade, planChange, changePaymentMethod, cancel, reactivate; purgeDueCanceled and dispatchBillingNotifications as jobs | payment provider, notifications |
| **webhooks** `src/modules/webhooks` | WebhookEvent (the ledger), and billing's rows | processWebhook: verify, insert the ledger row, apply, commit | billing's rows |
| **payments, proration** `src/lib/payments`, `src/lib/proration.ts` | none | createCharge, parseEvent, prorate | Moyasar over HTTP |
| **onboarding** `src/modules/onboarding` | Subscription, consent | registerOnboarding, selectPlan, resolveNextStep | auth, billing's rows |
| **auth** `src/modules/auth`, `src/middleware` | AuthSession, OAuthAccount; lockout counters in Redis | register, login (parent, child), OAuth, rotateRefresh, logout, lineage revocation, credential update, lockout | settings (pending deletion) |
| **children** `src/modules/children` | Child | create, edit, pause, reactivate, soft delete, restore, purge | slots (billing), auth's sessions |
| **settings** `src/modules/settings` | Family.deletedAt/purgeAfter, CoParentInvitation, DataExport | account, password, invite/accept/revoke co-parent, request/cancel deletion, family purge, data export | auth, storage, all tables on purge |
| **notifications** `src/modules/notifications`, its worker | Notification, PushToken; a BullMQ queue | buildAndDispatch (cap, persist, enqueue), deliver, retry, dead-letter, mark read | mail and push services |
| **reminders** `src/modules/reminders` | ReminderConfig | runRemindersSweep every 15 minutes | notifications |
| **session events** `src/modules/sessionEvents`, its worker | ProcessedSessionEvent (a ledger) | processSessionEvent: dedup, derive, alert | progress, homework, rewards, notifications |
| **progress** `src/modules/progress` | the child's counters, SubjectProgress, TopicProgress, StruggleTracker | deriveFromSession, applyStruggle | notifications |
| **homework** `src/modules/homework` | Homework | create, applyHomeworkEvent, overdue sweep | session events |
| **rewards** `src/modules/rewards` | Reward | create, edit, fulfil, goal-met notices | notifications |
| **consent** `src/lib/consent.ts` | Consent | record, check, retain on purge | children, settings |
| dashboard, files, health, HTTP shell, storage, login cards, hashing, mail, push | none of their own, or pure, or I/O | | |

### What is hard, and what makes each component correct

- *billing and webhooks*: a parent's requests, several webhook deliveries and
  the purge write the same rows, each from what it read earlier; events come
  late, twice, out of order and before the row they name is complete; a crash
  can fall between any two statements. Correct means: each event takes effect
  exactly once; what is paid takes effect and is invoiced for the amount paid;
  what is not paid does not; the purge removes exactly what is canceled and due,
  with everything that hangs on it.
- *auth and settings*: refresh tokens are rotated while sessions are revoked and
  the account is being deleted. Correct means: what a revocation or a deletion
  request ends stays ended; a cancelled deletion loses nothing; a deletion that
  is not cancelled completes.
- *notifications and reminders*: a daily cap counted under concurrent producers,
  two delivery channels over one status column, retries and crashes. Correct
  means: the child is not sent more than the cap, no notice loses its place
  without need, a status says what happened to the jobs, the queue drains.
- *session events, progress, homework*: an idempotent receiver again, whose
  derived totals and state machines are written by several transactions at once.
  Correct means: an event takes effect once, XP and a finished item are earned,
  a struggle is alerted once and shown, what is overdue is said to be.
- *children and rewards*: the plan's limit under concurrent creation, a restore
  against the purge, fourteen tables to empty in an order foreign keys allow.
- *invitations, exports, retention*: a status written by id by whoever comes
  last; bytes and a row that cannot be written together; a purge that must keep
  what the law wants kept.

PROJECT.json lists each of these as a hazard, at its line, with the property
that covers it or the reason why none does.

## 2. The modules

| module | what it is |
|---|---|
| `BillingRules` | the pure part of billing: `Prorate`, the period helpers, the amount of a hosted invoice, the status table |
| `Inbox` | abstract: what an idempotent receiver of messages promises |
| `Billing` | one family's subscription: requests, webhook deliveries, purge, and the payment provider around them; EXTENDS `BillingRules`, implements `Inbox` |
| `MCBilling` + `Billing*.cfg` | its instances for TLC |
| `Billing_proofs`, `BillingSafety_proofs` | its theorems |
| `Accounts` | one family's sessions, from sign-in to the purge of the account |
| `MCAccounts` + `Accounts*.cfg` | its instances for TLC |
| `Accounts_proofs` | its theorems |
| `ReminderRules` | the pure part of reminders: the catalog, ranks, recipients, the civil day, a child's intents |
| `Notifications` | producers, dispatcher, delivery jobs and workers of one family; EXTENDS `ReminderRules` |
| `LearningRules` | the pure part of learning: the homework transitions, levels, mastery, trend |
| `Learning` | session events, progress, homework, struggle alerts; EXTENDS `LearningRules`, implements `Inbox` |
| `Children` | children, login cards, rewards, the purge of a child |
| `Settings` | signup, the parents' rows, invitations, payment methods, exports, retention |
| `Settings_proofs` | its theorems |
| `Notifications_proofs`, `Learning_proofs`, `Children_proofs` | the theorems of these three |
| `SetSums` | lemmas about sums over finite sets, for `Learning_proofs` and `Notifications_proofs` |
| `MCNotifications`, `MCLearning`, `MCChildren`, `MCSettings` and their `.cfg`s | their instances for TLC |

The detailed modules are written the same way. `proc[p]` (`reqs[r]`, `tx[c]`,
`disp[d]`, `work[w]`, `purge`, `sweep`) is one request, delivery or job in progress: `op` says what it does next and the other fields
are the local variables it holds across an `await`. A handler that reads and
later writes is two actions (`CancelRead`, `CancelWrite`), and every other
process may act in between. A sequence of statements that others cannot see
apart, because it commits as one transaction or follows a single read, is one
action. A missing row makes Prisma's update throw; the handler then ends without
its remaining writes, which is `Crash`, as is the death of the process.

### Billing and the code

| state | code |
|---|---|
| `sub` | the Subscription row (status, planId, currentPeriodEnd, canceledEffectiveAt, childSlotsUsed) |
| `intents`, `invoices` | PaymentIntent and Invoice rows |
| `ledger` | the committed WebhookEvent rows |
| `charges`, `sent` | external: what the provider holds and which events it has produced |
| `applied` | history: how often an event's processing committed |

| action | code |
|---|---|
| `SelectPlan` | `selectPlan` |
| `InitiateRead`, `OverflowRead`, `PlanChangeRead` | the reads and checks of `initiate`, `overflowUpgrade`, `planChange`, including the quote |
| `CreateIntent`, `CreateCharge`, `RecordRef` | what the three then do: insert the intent, call the adapter, store its reference |
| `CancelRead`/`CancelWrite`, `ReactivateRead`/`ReactivateWrite` | `cancel`, `reactivate` |
| `PurgeScan`, `PurgeRecheck`, `PurgeDelete` | `purgeDueCanceled`: scan, re-check in the transaction, deletes in foreign-key order |
| `Deliver` | `processWebhook` up to the effect: the insert of the ledger row, which another delivery of the event waits for, and the reads |
| `CommitUnmatched`, `CommitRecurring`, `CommitMismatch`, `CommitFailure`, `CommitSuccess`, `CommitActivation`, `CommitOverflow`, `CommitUpgrade` | one per path of `applyEvent` and `applyIntentEffect`, ending in the commit |
| `Crash` | any handler ends early; a transaction rolls back |
| `ChargePaid`, `ChargeFailed`, `ChargeRefunded`, `RecurringEvent`, `Tick` | external: the provider, the clock |

Abstractions of data: one billing cycle of `Period` days; the unit of time is a day;
`payment_failed` stands for `renewal_failed` and `disputed`, which have the same
row in the status table; RENEWAL intents are never created by the code, so the
branch for them is the one of ACTIVATION; whether the children fill the plan's
limit is an input of `overflowUpgrade`; the reads of a webhook are one step,
because the row they are about is written by id afterwards in any case; a
deleted intent keeps a row with status DELETED, and an event about it falls back to
metadata.subscriptionId, whose row is gone too, so it is unmatched.

### Accounts and the code

| state | code |
|---|---|
| `sessions` | the AuthSession rows: principal, expiry, rotatedAt and replacedById, revokedAt; `issued` says that a client was given the tokens |
| `exists`, `purgeAfter` | the Family row and its window; deletedAt is set and cleared with purgeAfter |
| `from`, `epoch` (row and variable) | history: which session this one replaces, how many deletion requests had been committed |

| action | code |
|---|---|
| `LoginRead`, `OAuthRead`, `Mint` | `loginParent` and `loginChild`; `findOrCreateByOAuth`, `completeOAuthDob` and `acceptCoParent`, which do not look at the deletion; `issueSessionPair` |
| `RefreshRead`, `RefreshCheck`, `RotateCreate`, `RotateMark` | `rotateRefresh`, one action for each of its awaits |
| `Walk`, `RevokeWalked` | `revokeLineage`: a read per session, then one update |
| `Logout`, `RevokeAllForChild` | `logout`; `updateChildCredentials` and `revokeAllForChild` |
| `Authenticate` | `requireAuth` before the deletion's handlers |
| `DeleteRead`/`DeleteWrite`, `CancelRead`/`CancelWrite` | `requestAccountDeletion`, `cancelAccountDeletion` |
| `PurgeScan`, `PurgeRecheck`, `PurgeRows`, `PurgeFamily` | `purgeDueDeletedFamilies` and `purgeFamilyGraph` |
| `Crash`, `Tick` | as above |

Abstractions of data: `Parent` stands for the owner and the co-parents;
credentials are right (lockout is not modelled); the purged graph is its sessions, the
only rows of it this module has, with the foreign keys that hold the family;
`PurgeRows` fixes the sessions one `deleteMany` removes and `PurgeFamily`
commits, and a session created in between makes the transaction fail; sign-out and
the revocation of a child's sessions are one step with their authentication,
since a revocation that comes later revokes no less.

### Notifications and the code

| state | code |
|---|---|
| `cfg` | the ReminderConfig rows |
| `notices` | the Notification rows; `via` is history: the channels on which something was sent |
| `jobs`, `doomed` | the BullMQ job of each row and channel with its attempts; the `markDeadLettered` calls nobody awaits |
| `tokens` | the PushToken rows |
| `disp`, `work` | what each sweep or session-event job, and each delivery worker, is doing |

| action | code |
|---|---|
| `SweepStart`, `Evaluate`, `BillingNotices` | `runRemindersSweep`, `evaluateChild`, `dispatchBillingNotifications` |
| `SessionEvent` | the dispatch of a session event's struggle alert and goal |
| `PersistUncapped`, `CountToday`, `PersistCapped`, `Suppress`, `SkipDuplicate`, `Enqueue` | `buildAndDispatch`, one action for each of its awaits |
| `StopDispatch` | a crash, or a row refused because the child is gone |
| `TakeMissing`, `TakeSent`, `Take`, `ReadTokens`, `Send`, `MarkSent` | `deliver` |
| `Fail`, `MarkDeadLettered`, `CrashWorkers` | BullMQ's attempts, the failed handler, stalled jobs |
| `RegisterToken`, `DeregisterToken`, `MarkNotificationRead`, `MarkAllNotificationsRead`, `UpdateReminder` | the requests of those names |
| `ChildChanges`, `PurgeChild` | what the children module does to the rows a sweep reads |

The intents a dispatcher has in hand are two sets, because no two of them are
equal. Those outside the cap are persisted in any order, of which the code has
one; of the capped ones the next is the first in rank (`FirstInRank`), as
`buildAndDispatch` sorts them. The id of a row that was purged is not given out again
(status `gone`, in `Learning` and `Children` too).

### Learning and the code

| state | code |
|---|---|
| `queue`, `ledger` | the session-events queue; the ProcessedSessionEvent rows |
| `totals`, `subjects`, `topics`, `trackers` | the child's counters, SubjectProgress, TopicProgress, StruggleTracker |
| `hw` | the Homework rows |
| `tx` | the transaction of each consumer: what it read, the row lock it holds |
| `effects`, `alerts` | history: how often an event took effect, how often a struggle was alerted |

| action | code |
|---|---|
| `EnqueueSessionEvent`, `Finish`, `Begin` | `enqueueSessionEvent`; `processSessionEvent` up to the ledger insert, which waits for another transaction that holds the event |
| `ReadHomework`, `UpdateHomework` | `applyHomeworkEvent`: read, then update by id, which takes the row's lock |
| `ReadChild`, `Commit` | `deriveFromSession`: the child's snapshot; all that follows the update of the child is done under its lock, and is one step with the commit |
| `Notify`, `Retry` | the dispatch after the commit; a crash or a throw, after which the job is run again |
| `SweepOverdue` | `sweepOverdueHomework`, which waits for locked rows |
| `CreateHomework`, `RecordConsent`, `PurgeChild` | the requests, and the purge of a child |

`Overview` is what `buildOverviews` of the dashboard shows of these rows.

### Children and the code

| state | code |
|---|---|
| `limit`, `kids`, `signedIn` | the plan's child limit, the Child rows, the children with a session |
| `rows` | which tables hold rows that refer to a child |
| `cards` | the stored images of the login cards |
| `prizes`, `earned` | the Reward rows; what their goals are measured against |
| `purge` | the run of the childPurge job: what it scanned, the child it is at, the tables emptied, the tables that got rows since |
| `peak`, `claims`, `touched` | history |

| action | code |
|---|---|
| `AskCreate`/`Create`, `AskRestore`/`CheckSlot`/`Restore` | `createChild`, `restoreChild`: the slot is counted, then the row is written |
| `AskAbout`/`SetStatus`, `UpdateCredentials`, `Reread` | `pauseChild`, `reactivateChild`, `softDeleteChild`, `updateCredentials` |
| `BackfillLoginCard`, `LoginChild`, `ChangePlan` | the image and its reference; `loginChild`; `selectPlan` and plan changes |
| `AskReward`/`WriteReward`, `AskEdit`/`EditReward`, `FulfillReward`, `Earn`, `GoalMetIntentsForChild` | rewards |
| `PurgeScan`, `PurgeRecheck`, `EmptyTable`, `PurgeChild` | `purgeDueSoftDeleted` and `hardDeleteChildDependents`, one action per `deleteMany` |

### Settings and the code

| state | code |
|---|---|
| `family`, `parents`, `token`, `elsewhere` | Family, Parent, EmailVerificationToken; other families' addresses |
| `consents`, `invoices` | rows the law makes the operator keep; `holder` says whose they are |
| `invitations`, `methods` | CoParentInvitation, PaymentMethod |
| `exports`, `jobs`, `objects` | DataExport rows, their jobs, the stored bundles |
| `sweep` | the familyPurge job's expiry of exports |

| action | code |
|---|---|
| `AskRegister`/`Register`, `RecordConsent`, `RecordConsentFails`, `VerifyEmail` | `registerOnboarding`, `registerParent`, `verifyEmail` |
| `AskEmail`/`AskPassword`/`UpdateParent` | `updateAccount`, `changePassword` |
| `AskInvite`/`InviteCoParent`, `AskAccept`/`AcceptCoParent`, `AskRevoke`/`CloseInvitation` | invitations |
| `AskMethod`/`DemoteMethods`/`PromoteMethod` | `changePaymentMethod` |
| `RequestDataExport`/`EnqueueExport`, `StartExport`, `StoreExport`, `ExportFails`, `MarkExport` | `requestDataExport`, `assembleDataExport` |
| `ScanExports`, `DeleteStoredObject`, `MarkExpired` | `expireDueExports`, on the local storage backend |
| `PurgeFamily` | `purgeFamilyGraph` with `purgeOrRetainInvoices` and `purgeOrRetainConsent`; its re-checks are in Accounts |

`Can` is the permission matrix, as far as these requests ask it; `Fetch` and
`Children!GetLoginCard` are what the files service answers.

## 3. Runs and bounds

| run | specification | what it shows |
|---|---|---|
| `billing_safety` | `Spec` | the safety properties of Billing and that it implements `Inbox` |
| `billing_sweep` | `FairSpec` | purge and liveness: no orphans, every event is processed, every due subscription goes |
| `billing_active_unpaid`, `billing_rounding` | `Spec` | two statements of the code's comments that the code does not keep (section 6) |
| `accounts_safety` | `Spec` | revocation and rotation |
| `accounts_purge` | `FairSpec` | the purge against sign-ins, refreshes and a cancellation |
| `accounts_no_cancel` | `Spec` | a third such statement |
| `notices` | `FairSpec` | the cap, what suppression and a status mean, that the queue drains |
| `notices_unsent` | `Spec` | a fourth such statement |
| `learning` | `FairSpec` | exactly-once effects (`Inbox`), counters, homework, struggle alerts; that the queue drains and overdue work is marked |
| `children` | `FairSpec` | the plan's limit, what the purge may delete and that it gets done, rewards fulfilled once |
| `settings` | `FairSpec` | bytes and rows of exports, retention, invitations; that exports settle |

*billing_safety* has two webhook workers for two events, so the same event
delivered twice at once and two events about one row both happen; two intents,
of which the second may be an overflow or an upgrade of the first one's
subscription; two plans; one request in progress, because requests meet each
other only through rows that webhooks write too. `MaxSuccess = 1` lets the
provider produce one success for a charge (with its failures and refunds besides);
`MaxTime = 1` with `Period = 2` puts a step before and after a boundary of the
period. *billing_sweep* uses one of each, so that liveness is affordable, and
all three ways an event names its charge, with and without an amount; `MaxTime =
2` reaches the deadline of a canceled row, `MaxSub = 2` a second subscription
after a purge.

*accounts_safety* has two requests in progress, four sessions and six requests: a
sign-in, a rotation, a fork and a replay of either fit, as do a deletion
between any two steps, its cancellation and what follows it. `BoundedFork`
needs a session and three replacements to fail, hence four. `Ttl = 0` makes
sessions expire within the run. *accounts_purge* has two sessions, one job and
a window of one day within a clock of two.

*notices* has one sweep and one session event at a time (`concurrency` of the
sweep's worker is 1, and there is one worker process), two reminders of the child switched on, a cap of one,
three rows, and a clock whose two ticks lie on two Riyadh days: with them a
second sweep of the same day, a duplicate, a suppression and an overrun by a
session event all happen. `Attempts = 2` and `MaxFault = 2` let a job be given up,
with a crash among its attempts or not.

*learning* has two consumers and three events of one child, of which two name one
item, one of them late, over two subjects with topics of one name; two of
them raise the struggle counter to its threshold. `MaxTime = 2` is past the
deadline, `MaxAsked = 2` gives a redelivery and a request, or a purge of the child.

*children* has two requests at once and three ids, one of a child there from the
start: with a limit of one and a change of plan, two creations pass one check
and a restored child meets a new one. `Window = 1` in a clock of two lets the
purge come due and be overtaken. `MaxAsked = 3` is a delete, a restore or
create, and one more.

*settings* starts with nobody or with an owner, has two requests at once, two
addresses, one invitation, one export, two cards, and one crash or failure;
`ExportTtl`, `Keep` and both retentions are one day in a clock of two, so an
export expires, the family is purged, and a record can be on either side of its
legal minimum.

`CHECK_DEADLOCK FALSE` everywhere: with the clock and the requests bounded, the
system stops when nothing is left to do, as it should.

TLC runs with symmetry only where no liveness property is checked, and over the ids alone.

### Fairness

`WorkersEnd` (Billing, Accounts): a handler or transaction goes on or ends; an HTTP
request and a Prisma transaction have timeouts, and a dead process ends both.
`Redelivery`: `processWebhook` returns an error when it did not commit and the
provider delivers again until it gets a 2xx; strong, because a crash or another
delivery of the event disables the step for a while, and every attempt being
cut short for ever is not a behaviour anything could survive. `HourlySweep`:
BullMQ repeats the purge jobs (`src/jobs/scheduler.ts`), concurrency 1; strong
for the same reason.

Notifications: a free delivery worker takes a waiting job, and a handler that
runs returns or throws. Nothing is assumed of a transport, nor of a dispatcher,
which may stop anywhere; so `JobsSettle` is about what was enqueued. Learning: the
workers take and go on with jobs; strong for their steps and for the overdue
sweep, because these wait for row locks that others take and release again.
Children: weak for the steps of the purge together: the job is repeated every hour
and, in a run, goes on. Settings: weak for each export's job and for the
sweep, on the same grounds. No fairness is assumed of a parent or child, of the
provider producing an event, or of the clock.

## 4. What is proved

Every invariant and every action property that a passing run checks, and both
refinements, as a theorem of the specification: for any number of requests,
workers, jobs, events, intents, sessions, children and rows, any prices, periods,
windows, caps and attempts.

The assumptions are the named ones of the modules. They say that the constants have
the types their comments give, that the null values are none of the ids, and:

- `AccountsAssumption`, `ChildrenAssumption`: there are finitely many requests at
  once (both theorems that count compare with their number), of `Children` at least one;
- `SettingsAssumption`: there is an address and a parent;
- `LearningAssumption`: an event names finitely many topics, at least one, and
  gives mastery only for those it names (`sessionEvents.schema.ts`); no item is
  finished at the start, since nothing in the history would have earned it;
- `ChildrenAssumption`: the children at the start are finitely many, with names of their own;
- `NotificationsAssumption`: finitely many sweeps may run at once, since the bound on a
  child's notices multiplies the cap with their number.

No module assumes that there is one sweep at a time. That is so in one worker process
(`reminders.worker.ts:22`, `concurrency: 1`, "a single sweep at a time is sufficient"), as
`README.md:117` describes the deployment; nothing enforces it for two
(`scheduler.ts:15` allows them), when a sweep outlasts its 15 minutes. So
`CapProtectsChild` and `CapOverrun` are stated and proved for any number of sweeps,
and `OneSweepKeepsTheCap` has one sweep as its hypothesis.

| theorem | property | why it holds |
|---|---|---|
| `Billing_proofs!TypeCorrect` | `TypeOK` | with `Typed`, below |
| `InvoiceOnce` | `OneInvoicePerEvent` | an invoice is written in the commit that adds its event to the ledger, and no other worker holds the event |
| `ReceiverRefined` | `ReceiverSpec` | a commit is `Process` of its event, an event produced by the provider is `Send`, all else stutters; needs `LedgerCounts` |
| `NoPaymentLost` | `LedgerRowMeansEffect` | a commit that adds a full-amount success writes its invoice, and invoices go only together with their intents |
| `InvoicesMatch` | `InvoiceMatchesCharge` | the amount was compared in the transaction that writes the invoice |
| `SlotsAreInvoiced` | `SlotsMatchInvoices` | an overflow commit adds one to both; the increment is the database's, not the snapshot's |
| `NeverOvercharged` | `ChargesAsQuoted` (*) | a quote is computed from what a request holds, whose period has not ended; its days are at most the period's, so a rounded share is at most the whole (`ProrateBound`), and an intent's amount is never rewritten (`QuoteInv`, `HostedAmountBound`) |
| `RoundChargesTakeEffect` | `SettledRoundChargeTakesEffect` (*) | the provider names the intent's amount or what its hosted invoice made of it (`QuoteInv`), which are the same for a multiple of 10; the rest is `NoPaymentLost` |
| `NoPeriodGivenAway` | `PeriodIsPaid` (*) | a webhook sets the end one period after what it read or after now, and adds an activation invoice; what it read was within what was paid for then, and that only grows (`PeriodInv`) |
| `CanceledIsPurgeable` | `CanceledHasDeadline` | only a cancellation writes CANCELED, and with its deadline; what clears the deadline writes another status |
| `VoidsAreRefunds` | `VoidedByRefund` | only the delivery of a refund holds an invoice to void; its commit adds one refund to the ledger and voids at most that one (`VoidInv`) |
| `PurgeLeavesNoOrphans` | `NoOrphans` | the purge deletes dependents in its transaction, and the foreign key refuses later inserts |
| `Accounts_proofs!TypeCorrect` | `TypeOK` | with `Typed`, below |
| `DeletionRevokes` | `RevokedByDeletion` | every step creates a session of the present epoch, revokes, or keeps `revoked`; the epoch grows only in the step that revokes all |
| `PurgedIsEmpty` | `NoSessionsAfterPurge` | the purge commits only if it deletes all sessions there are, and a session needs its family |
| `ChainsAreForward` | `LineageIsForward` | the session a refresh marks as successor is the one it created |
| `ForksAreBounded` | `BoundedFork` | the pairs handed out for a session and the requests that may still hand one out are together no more than all requests, since no request begins with a used session (`ForkOK`) |
| `LateMintsAreFew` | `LateMintsAreInFlight` (*) | a deletion leaves no session of the new epoch and its own request mints nothing; after it each session takes one request past its look at the family, and none gets there (`LateInv`, `NoNewMinter`) |
| `Settings_proofs!TypeCorrect` | `TypeOK` | an address is compared with all others in the step that writes it (the unique index) |
| `StoreFollowsRows` | `BytesFollowRows` | a job past its first read has an export that is PENDING or purged, the sweep one that is READY and past its lifetime: they never meet over an object (`ExportOK`) |
| `LegalMinimumKept` | `RetainedSurvives` | time only passes, and the purge compares with the bound the property states |
| `InvitationsAreSpent` | `UsedInvitationIsSpent` | PENDING is only written where there was no invitation, and a used one exists (`SpentInv`) |
| `Learning_proofs!TypeCorrect` | `TypeOK` | what a consumer writes is computed from typed rows and a typed event |
| `Learning_proofs!ReceiverRefined` | `ReceiverSpec` | a commit is `Process` of its event, a first enqueue is `Send`, all else stutters; no two transactions hold one event (`LedgerInv`) |
| `CompletedIsEarned` | `StatusIsEarned` | a transaction about to write a finished status holds an event that earns it, and its commit puts that event in the ledger; an item's deadline and topic never change (`ItemOK`) |
| `AlertedOnce` | `StruggleAlertedOnce` | tracker, alert and flag are written under the child's lock; whoever lowers the flag of a subject lowers the topic's counter with it (`AlertOK`) |
| `XpEarned` | `XpIsEarned` | a snapshot of the counters, however old, shows no more than its ledger earned, and a commit adds its own event's XP to both (`XpInv`, `SetSums`) |
| `Children_proofs!TypeCorrect` | `TypeOK` | a name is compared with all others in the step that writes it; a card is replaced with its reference |
| `OverrunBounded` | `LimitOverrun` | active children and the requests that have passed the check are together at most the highest limit and one less than all requests (`SlotInv`) |
| `RestoredSpared` | `PurgeSparesRestored` | the child under purge was due in its transaction, and every write of its deletion since is in `touched` (`PurgeInv`) |
| `FulfilledOnceOnly` | `FulfilledOnce` | only an ACTIVE reward is fulfilled, an edit writes neither column, and a purge takes the row |
| `Notifications_proofs!TypeCorrect` | `TypeOK` | with what each dispatcher and worker holds (`DispOK`, `WorkOK`) |
| `StatusSound` | `StatusFollowsJobs` | a row is enqueued by one dispatcher and once per channel (`QueueInv`), a job is run by one worker (`OwnJobInv`), and whoever is about to write a status has the job state that warrants it (`MarkInv`) |
| `ChildProtected` | `CapProtectsChild` | only sweeps address a child: what it was sent that day and what all sweeps still have a budget for fit the cap of each (`ChildCapInv`, a sum of `SetSums`) |
| `OneSweepKeepsTheCap` | `ChildSentAtMost(Cap)` (*) | the same, with one sweep as its hypothesis |
| `OverrunByOne` | `CapOverrun` | what is not for the child is a goal reached, one a day by the unique index (`UniqueInv`) |
| `SuppressedSoundly` | `SuppressedOnlyOverCap` | what a dispatcher has no budget for was persisted and is counted still: no row loses its day (`SpentInv`) |

(*) No run lists these. They are what is left of statements that fail (section 6) or of
events no document speaks about, and TLC finds them kept on the instances of
`billing_safety`, `billing_rounding`, `accounts_safety` (without OAuth, with a purge job
besides) and `notices`. The bounds of
`PeriodIsPaid` and `LateMintsAreInFlight` are reached there, and with two sweeps that of
`CapProtectsChild`.

In `Billing`, `TypeOK` is not inductive by itself: an intent is created from what its request
holds, so its amount is a number only if the request holds a plan that exists and
a period that has not ended. `Typed` adds what a worker holds in each state
(`WorkerInv`), that no two deliveries hold one event (`OneWorkerPerEvent`, the
unique index on providerEventId), and that the rows' plans exist (`RowInv`). It
carries every other proof there. In `Accounts`, `Typed` is `TypeOK /\ WorkerInv`:
a refresh in progress holds a session that was created, and after its first write one
that was created to replace it. Each proof first says what a step may do to the
state the property is about (`SessionSteps` in `Accounts_proofs`; `ExportSteps`,
`KeptSteps`, `AccountSteps` and `RowSteps` in `Settings_proofs`), so that the
actions are opened once. In `Settings`, what is said of the exports and of the
retained records is inductive with its own types (`ExportInv`, `KeptInv`), and
`Typed` is these two with the types of all else.

In `Notifications` the proofs are three layers. `TypeInv` has the shapes and
what each dispatcher holds; in particular that its capped intents are one child's, and
that only a sweep addresses a child. On it rests `DeliveryInv`, about
rows, jobs and workers, and on that `CapInv`, about counts. For a count the step
lemmas name the one row a step may add to the counted set (`UniqueInv` says of
which child, day and type it is the only one); all other steps keep the set or move a row
out of it together with its child.

`StatusIsEarned` and `XpIsEarned` are inductive only with what open transactions
hold, because a homework row and the counters are written from snapshots. The sum
of the XP is over a set that grows: `SetSums` proves, by induction over finite sets
(the property is given as the set of the subsets that have it, so that no operator
parameter is needed), that
`MapThenSumSet` of a set with one element more is what one expects, and that a
sum over fewer elements is no greater.

TLC agrees with the strengthenings on the instances of the runs
(`ForkInv`, `VoidInv`, `SlotInv`, `PurgeInv`, `LedgerInv`, `StatusInv`, `AlertInv`, `XpInv`, `CapInv`).
Four things turned out on the way. With ids given out again after a purge,
`StatusIsEarned` is not inductive: a transaction that waits for an item could write to
another one of the same id, which Postgres' ids exclude; hence the status
`gone`. Two sweeps at once exceed a cap of one sweep, hence the factor in
`CapProtectsChild`. And `CASE`
arms that overlap were rewritten as `IF` (`GetLoginCard`, `Fetch`, `Rehomed`), since
nothing says which of them is taken. And the request that deletes the account is
one of those in progress, so that one session fewer than requests is minted after it.

Left to TLC: the liveness properties (`EventuallyProcessed`,
`EventuallyPurged`, `WindowCloses`, `JobsSettle`, `OverdueEventually`, `QueueDrains`,
`DueChildrenGo`, `ExportsSettle`), which need ENABLED, and the violations.

## 5. The plan

Done: the models of billing and webhooks, accounts, notifications and
reminders, learning, children and rewards, settings, and the safety of all of them.
So are the weaker statements that three of the refuted comments leave:
`SettledRoundChargeTakesEffect`, `LateMintsAreInFlight` and the cap for any number of sweeps.
What is left to prove: what exactly makes a subscription ACTIVE without payment, and which
notices of a parent reach an e-mail address; and what the rules of `LearningRules` and
`ReminderRules` compute, beyond the types and bounds the theorems use.

## 6. Where the code departs from its comments

Four are runs that end in a counterexample; PROJECT.json quotes the lines.

- `ActiveWasPaid`: cancelling and reactivating a subscription nobody paid for makes it ACTIVE.
- `SettledChargeTakesEffect`: a prorated amount that is not a multiple of 10 is
  charged rounded up and then refused as a mismatch, for good. This is the only way to
  lose one: `RoundChargesTakeEffect`.
- `DeletionCanBeCancelled`: the request ends every session and login is refused
  until it is cancelled, so an owner who signs in with a password cannot cancel it.
- `EmailReachesParent`: the push job of a parent's notice marks the row SENT, with or
  without a device, and the e-mail job of the same row then sends nothing.

The modules state five more at their end, which no configuration lists; each can be
put in the place of the property of a violation run (a bigger instance may be needed).

- `CancelSurvivesFailures` (Billing): a late failure writes PAST_DUE over CANCELED.
- `PurgeSparesReactivated` (Billing): a reactivation between the purge's re-check
  and its delete is lost with the subscription.
- `WindowNeverReset` (Accounts): of two deletion requests at once the second moves the window.
- `NoMintWhilePending` (Accounts): OAuth sign-in, or a login or refresh that looked
  before the request, creates a session in the retain window. Without OAuth the latter are
  all there are: `LateMintsAreFew`.
- `FinishedStaysFinished` (Learning): a transaction that read PENDING writes
  IN_PROGRESS over a status that finished meanwhile (homework.service.ts:24).

Read off the code while modelling it, and kept in the models as they are:

- The slot an overflow payment buys is counted in `childSlotsUsed`, which the check
  of the plan's limit never reads (children.service.ts:45): it cannot be used.
- Neither storage backend has the `delete` that settings.service.ts:695 looks for,
  and its fallback unlinks a local file: on S3 expired bundles stay. `Settings`
  has the local backend; `DeleteNothing` is what S3 does.
- The family's purge deletes DataExport rows but not their objects, and an
  assembly that ends after it leaves one more. `BytesFollowRows` is about rows there are.
- The consents of a signup are not best-effort (onboarding.service.ts:28): one that
  throws fails a request whose account exists (`RecordConsentFails`).
- A reward fulfilled between the read and the write of an edit is edited
  (rewards.service.ts:168), against the comment at 152; its status and time stay.
- A child restored, or deleted again, while the purge's transaction is open is
  purged; the exception is spelled out in `PurgeSparesRestored`.
- Two default payment methods, or none, after two changes at once or a crash.
- Totals lose an update when two events of a child are processed at once, hence
  `<=` in `XpIsEarned`; a struggle alerted once is never alerted again, because
  `lastAlertedAt` is not cleared; alerts are lost if the process dies after the commit.
- Two sweeps at once, by two worker processes, count the day's notices together and
  exceed the cap of a child, each by no more than its own (`ChildProtected`); no lock
  keeps them apart.
- Two payments processed at once may buy one period for the price of two; the other
  way round never happens (`NoPeriodGivenAway`).
- A notice persisted but not enqueued when its process dies stays PENDING.

## 7. What is not modelled

The sums and lists of the dashboard, the billing history and the export bundle
(reads, of which only the children's overview matters to a property); lockout (a
counter in Redis that fails open; credentials are right in the models); the
re-authentication marker of a shared device and OAuth account links; the
preferences of a parent and the profile fields of a child, which are only
displayed; message attachments, which nothing in the repository writes; health (no
state), the HTTP shell (which requests are well formed is the handlers' input),
seed data, formatting of login cards, usernames and mails, hashing; and the
internals of Postgres, Redis, BullMQ and Moyasar, of which the models keep what the
code relies on: atomic commit, row locks, unique indexes and foreign keys,
at-least-once delivery, attempts and stalled jobs.

No module composes billing with children or settings with accounts: they share
few columns (the plan's limit; the family's deletion), and each module has the
other's writes as an action of its surroundings (`ChangePlan`,
`RequestDeletion`, `IssueInvoice`, `ChildChanges`).
