# Verification of the Nexa backend

This directory holds TLA+ specifications of the Nexa backend, the TLC
configurations that model-check them on small instances, and TLAPS proofs of
the results that matter most. It is kept beside the code: every definition
that models code is traced to its lines in `PROJECT.json` ("map").

The subjects are the **booking core** of the stays service (reserving nights,
paying for them, cancelling, refunding, expiring and completing), the
**messaging outbox** through which its events reach the event bus, the
**conversation of a booking** and its **attachments**, the **support desk** with
its signals, what surrounds a booking on the host's side (**listings and
applications, amounts, reviews, calendars**), and of the identity service the
**verification of identities** and the **accounts of a phone number**.

## 1. The system

The repository holds two NestJS services that share no database tables:

* `identity/` (port 3001): accounts, OTP and PIN login, refresh tokens, KYC,
  fraud rules, notifications. `identity/src/legacy` is code of an earlier
  product that is not booted.
* `stays/` (port 3002): listings, bookings, payments, messaging between guest
  and host, support tickets, SEO pages, administration. It verifies the
  tokens the identity service issues.

Both keep their state in PostgreSQL through TypeORM. Concurrency comes from
HTTP requests (every `await` is a point where another request may run),
several instances of a service, gateway callbacks and `@Cron` jobs. Protection
comes from `SELECT ... FOR UPDATE` row locks, conditional `UPDATE ... WHERE
status IN (...)`, unique indexes, and nothing at all where the code uses none.

### Inventory

| Component | State | Operations | Interacts with | Hard behaviour | What makes it correct |
|---|---|---|---|---|---|
| Availability (`stays-availability.service.ts`) | none; reads bookings and blocks | `isListingAvailable` | all writers of bookings | its answer is stale unless a lock protects it | half-open nights, own booking excluded |
| Booking creation (`stays.service.ts`) | `stays_bookings` | `createBooking` | availability, listing row lock | concurrent creates, retried requests | no two active bookings share a night; a key makes one booking |
| Host blocks (`stays.service.ts`) | `stays_availability_blocks` | `setHostAvailabilityBlock` | availability at payment time | takes no lock, looks at no booking | a blocked hold is expired, not paid |
| Payments (`stays-payments.service.ts`) | `stays_payment_intents`, `stays_ledger_entries` | `createOrGetIntent`, `confirmMockPayment`, `handleCmiCallback`, `confirmPaymentSuccess` | bookings, listing lock, CMI | repeated and late callbacks, unlocked intent creation | settled once, ledger = intents = status |
| CMI client (`cmi-payment.provider.ts`) | intent metadata; the PreAuth at CMI | capture, void, refund | after-commit work of confirm, cancel, expiry | lost answers, crashes between commit and call | charge only what is settled, refund only what is credited |
| Cancellation (`stays-cancellation.service.ts`) | booking, REFUND row, intents | `cancel` | payments, CMI | double cancel, cancel against confirm and jobs | one refund, only for a payment |
| Lifecycle jobs (`booking-lifecycle-scheduler.service.ts`) | booking, intents | expire holds, complete stays, reminders | payments, CMI, messaging | read first, write later, overlapping runs, crashes | holds released, stays completed, no paid hold expired |
| Amounts (`platform-settings.service.ts`, `calculateRefund`) | fee rates and their caches, money columns | set rates, create, confirm, refund | booking core | caches of several processes, separate rounding | fees of the rates in force, refunds within the payment |
| Reviews (`stays-reviews.service.ts`, `review-aggregate.service.ts`) | reviews, totals of the listing, review card, booking status | write, edit, moderate | bookings, messaging | aggregates computed side by side, stale edits | totals agree with the published reviews |
| Calendar sync (`calendar-sync.service.ts`) | external calendars, imported blocks | connect, sync, edit, delete, export | host blocks, availability | overlapping syncs, partial failure, lock that expires | imported nights mirror the feed |
| Host listings, onboarding, moderation (`host-listings`, `host-onboarding`, `admin-stays`) | listings, host profiles | draft, edit, submit, pause, resume, approve, reject, set live, freeze | bookings (LIVE only) | entities saved from stale images | what guests can see was submitted and approved |
| Messaging outbox (`outbox.worker.ts`) | `stays_messaging_outbox` | enqueue, claim, publish, retry, recover | event bus, all transactions | crash after claim, recovery of a row still in work | every event published, attempts bounded |
| Booking conversation (`messages.service.ts`, `messaging-state.service.ts`, ...) | `stays_conversations`, `stays_messages` | provision, send, read, list, hide, block, reopen, archive, repair | booking life cycle, outbox | rows read, then written awaits later; whole images saved back | dense numbers, unread counters that agree, archive only after the stay |
| Attachments (`attachment-session`, `attachment`, clean-up) | upload sessions, attachment rows | upload, complete, send, remove, clean up | messages, media storage | two sends of one session, clean-up against a late link | a file has one message, only ingested files are sent |
| Support desk (`support-tickets`, `support-assignment`) | tickets, their threads, reports, CSAT | open, route, patch, reply, close, reopen, escalate, rate | staff, conversations, reports | concurrent routing and escalation, repeated closing | ticket and thread agree, caps hold, one ticket per report |
| Operational signals (`operational-intelligence`) | signal rows | evaluate, acknowledge, resolve | tickets, SLA | evaluations that overlap | signals are what the last evaluation wanted |
| Identity compliance (`compliance.service.ts`, `admin-kyc`) | KYC case, user, identity, reusable verification | token, upload, form, webhook, dossier, sync, admin | provider, users | repeated and reordered webhooks, stale saves | verified only by a verdict; the newest verdict stands |
| Phone accounts (`unified-identity`, `users`, `auth`) | users, unified identities, their numbers | log in, sign up, set PIN, delete | every login | concurrent first logins, look-ups outside the transaction | one identity per number |
| Identity authentication | OTP, PIN counters, refresh tokens | send, verify, lock, rotate, log out | SMS, Redis | | see section 5 |
| Conversation merge (`conversation-repair`) | duplicate threads | merge | messages | | see section 5 |
| Money-movement idempotency | idempotency records | claim, complete, replay | none: no caller | | see section 5 |
| Dashboards, search, SEO, analytics, deployment | none or derived | reads | | | |

`PROJECT.json` lists every component with its status, and under "hazards" the
places where the code is hard to test.

## 2. Modules

```
StaysTables          shared rows: bookings, intents, ledger, blocks, clock
  BookingCreation    createBooking, setHostAvailabilityBlock
  CmiEffects         capture / void / refund after the commit, the CMI gateway
    Payments         createOrGetIntent, confirmPaymentSuccess
      Cancellation   cancel
        LifecycleScheduler   expirePendingPayments, the completion jobs
          BookingSystem      composition, properties, fairness
BookingContract      abstract life cycle, implemented by BookingSystem
MCBookingSystem      small instances for TLC
BookingSystemTypes   proof: TypeOK
BookingSystemProofs  proofs: NoDoubleBooking, ImplementsContract, what no step takes
                     back, causes of findings 1 and 2
BookingLedgerProofs  proofs: settlement and refund, intents and ledger, the card

MessagingOutbox        enqueue, and the worker that claims, publishes, retries
MCMessagingOutbox      small instances for TLC
MessagingOutboxProofs  proofs: DoneMeansDelivered, DeadLetterMeansExhausted,
                       cause of finding 3

BookingThread          the conversation of one booking and all who write it
MCBookingThread        small instances for TLC
BookingThreadProofs    proofs: numbers, unread counters, archive, ReadStaysRead

EntitySave             repository.save of TypeORM: what a stale entity overwrites
SupportDesk            tickets, routing, reports and escalation, CSAT
OperationalSignals     SLA and the signals of a ticket
Attachments            upload sessions, sends, removals, clean-up
PhoneAccounts          accounts and identity of a phone number
MCSupport              one instance of these four
IdentityProofs         proofs about PhoneAccounts
SupportProofs          proofs about the other three and about MCSupport as a whole

HostListings           host application, listing and moderation
KycCase                verification of a user's identity
BookingMoney           fee rates, fees, ledger check, refunds to the cent
Reviews                reviews and the totals of a listing
CalendarSync           imported calendars and blocked nights
MCHosting              one instance of these five
HostingProofs          proofs about the five and about MCHosting as a whole
```

The components of `MCSupport` share no state with each other, nor do those of
`MCHosting`. A behaviour therefore runs one of them, chosen in the initial state
by the variable `part`; the others stay in a single initial state. The states of
an instance are the sum, not the product, of those of its parts, and no
interleaving that matters is lost.

### State of the booking core

| Variable | Code |
|---|---|
| `status`, `stay` | `stays_bookings`: the status column and the columns that never change |
| `intentStatus`, `intentRow` | `stays_payment_intents`: status, booking and key |
| `metadata` | the `cmi_capture_status`, `cmi_void_status`, `cmi_refund_status` keys of an intent |
| `ledger` | counts of settled GUEST_PAYMENT rows and of PENDING and SETTLED REFUND rows |
| `blocks` | blocked nights of `stays_availability_blocks` |
| `now` | the clock in half-days; an odd value is after checkout time |
| `create`, `intentReq`, `confirm`, `cancel` | the local variables and program counter of each request in flight |
| `expireJob`, `completeJob` | the candidate list and program counter of each job run |
| `gw` | the gateway procedure each caller is awaiting, with the row image it holds |
| `auth` | external: the PreAuth of each intent at CMI |

### Grain of atomicity

One step is what one statement, or one transaction whose reads are protected
by locks until its commit, does. Transactions are split exactly where another
party can interfere or wait:

* `createBooking` into `CreateCheck` (listing locked, dates read) and
  `CreateInsert` (row inserted, commit). Between them only the listing lock
  protects the request.
* `createOrGetIntent` is not a transaction, so each await is a step:
  `IntentRead`, `IntentCheck`, `IntentLookup`, `IntentInsert`, and, when the
  dates are gone, `IntentExpireBooking` and `IntentCancelPending`.
* `confirmPaymentSuccess` reads the intent (`ConfirmBegin`), locks it
  (`ConfirmLockIntent`) and then, holding that lock, waits for the booking row
  and commits with one of its outcomes (`ConfirmNotPayable`,
  `ConfirmDatesUnavailable`, `ConfirmSucceeds`).
* `cancel` reads the booking (`CancelBegin`), locks it (`CancelLockBooking`)
  and, holding that lock, waits for the intent rows and commits
  (`CancelCommit`). The two lock orders are opposite, so the two can wait for
  each other; PostgreSQL then aborts one (`DeadlockDetected`).
* the jobs read their candidates in one step and write them one at a time.
* each gateway call and each metadata patch is a step of its own.

Every request and job can die at any of its steps (`CreateAbort`,
`IntentAbort`, `ConfirmAbort`, `CancelAbort`, `ExpireCrash`, `CompleteCrash`),
and a single statement of a job or of a gateway procedure can throw where the
code catches the error and goes on (`ExpireFails`, `CompleteFails`,
`CmiThrows`).

### Abstractions

* Amounts are counted and not valued; the refund of `calculateRefund` is
  either positive or not, chosen freely. Guests, occupants, fees, KYC,
  notifications and messaging do not touch the modelled state.
* `INITIATED` and `CHECKED_IN` are declared by the booking entity and appear
  in status lists, but no code stores them; the model leaves them out.
* The database constraint `ex_stays_bookings_active_overlap` and the unique
  index on settled guest payments are left out on purpose: the properties are
  shown to follow from the code's own locks, the constraints are a second
  line of defence. The unique indexes on idempotency keys and on PENDING
  intents are modelled, because the code relies on them.
* Bookings and intents are numbered in insertion order, which makes "latest"
  the largest number.
* A repeated callback of the gateway is a new confirmation request, which may
  start at any time after the guest authorized the payment.

### The messaging outbox

`outbox` holds the rows of `stays_messaging_outbox`; `worker` the position of
each instance's run of `processOutbox` with the rows it claimed and the image
of `attempts` the claim returned; `delivered` (external) the events the bus
accepted or the repairs that were made. A run is `recoverStaleProcessingRows`,
`claimPendingRows`, then for each row `HandleNext` (normalise and publish, or
handle internally) and `MarkDone` or `MarkFailed`, each one statement. The
`processing` flag is the fact that a worker is not "idle". Failures: the bus
refuses, or accepts and loses the answer (`publish`); the update to DONE
throws before or after it took effect (`MarkDoneThrows`); the instance dies or
the update in the catch block throws (`RunLost`).

Time is reduced to what the queries compare: `due` (`next_retry_at <= NOW()`)
and `old` (`created_at` more than a minute ago), which become true at any
moment; the length of the back-off is left out. A payload is valid for the
event schema or not. Rows without an id or event type, which the worker skips,
are not modelled: every caller passes a name of the event registry.

### The conversation of a booking

`thread` is the row of `stays_conversations`, `messages` the rows of
`stays_messages` in insertion order. `proc` is the position of each request
(`sendText`, `markRead`, `listMessages`, `updateVisibility`, `block`,
`reopenConversation`) and of each job (`syncFromBooking`, the hourly
`archiveDueConversations`, and `enterPostStay` called by the completion jobs)
with the part of the row image it will write from; `repair` is the whole row a
snapshot repair has read. `booking` and `graceOver` are what the booking core
and the clock decide.

A step is one statement or one transaction from the moment it holds the row
lock. `insertMessage` locks the row, so the send transaction is one step; the
permission check and the look-up of the client id before it are steps of their
own. `markRead` updates the row first, which takes its lock, so counter and
messages change together. The update at the end of `enterPostStay` and
`archiveConversation` does not look at the row again. `convRepo.save` of the
repair writes every column in which the entity differs from the stored row, so
it puts the whole image back; the short time between TypeORM's own read and its
update is not split.

Left out: previews, last-read pointers, notification levels, rate limits,
sending with attachments (the same check, look-up and transaction), updates of
the review card, `conversation_version`, SUPPORT threads, and `READ_ONLY`,
which no code stores. One card stands for the cards of a new thread. `MaxSent`
bounds the messages.
`Watched` leaves the changes of the booking out of instances in which nobody
reads it.

### Stale entities

`repository.save(entity)` of TypeORM reads the row again, compares, and updates
the columns in which the entity differs from that second reading, without a
lock. `EntitySave` states both halves (`Changed`, `Updated`). A request of
`HostListings`, `Reviews` and `PhoneAccounts` therefore has three steps: it
reads the row and decides, save reads the row, save updates it. What was written
between the first two is put back; what was written between the last two
survives in the columns save does not write. `KycCase`, `OperationalSignals` and
`CalendarSync` treat save as one step that stores what the entity changes.

### The support desk and its signals

`ticket` holds the rows of `stays_support_tickets` with the state of their
SUPPORT thread; every write takes the row lock, so a transaction is one step.
What is read elsewhere is a step of its own: the workload that `assignLocked`
reads through another connection while its transaction is open, the look-up of
a report's ticket before an escalation, the row a CSAT submission checks before
its insert. `held` remembers whom routing chose and whether the agent has had
the ticket since, so that tickets taken by hand do not count against the cap.
`broughtBack` remembers the closed tickets whose thread a participant has
reopened with `reopenConversation`, which asks for no more than being a
participant. `MaxWrites` bounds the writes of a behaviour. The choice among
eligible agents is open; notes, canned replies, viewers and lists are left out.

`OperationalSignals` is the evaluation of one ticket: the SLA computed as
`slaStateFor` and again as the SQL of the lists, the signals that should
stand, and their rows, read, changed and saved while others do the same. The
unique key makes one of two inserts fail, and the code retries once. `settled`
remembers what the last evaluation that nothing disturbed had wanted. Time is in
milliseconds, which is what the service reads from its clock, sends to the
database and stores as completions; only `created_at` is set by the database and
has microseconds, `case.micros`, which JavaScript truncates and SQL does not.

### Attachments

One session with its uploads, completion, sends (by session or by ids), removals
by the user and the daily clean-up. Only the insert of a message and the link of
its attachments share a transaction; the check before it and the closing of the
session are steps of their own. Every later listing of messages links the ids of
their metadata again (`loadForMessages`), which the condition `message_id IS
NULL` makes harmless. An upload that fails is one that never ends. The
objects in the media storage and their deduplication are left out.

### Accounts of a phone number

One number, its accounts, the identities created for it and its row in
`identity_phone_numbers`. `findOrCreateByPhone` takes an advisory lock, looks
the identity up on other connections, and then either links the accounts and
attaches the number or reads the accounts and inserts the identity. Four
requests call it: `verifyOtp`, `createUser`, `findOrCreateForKyc` and
`verifyPin`. A wrong code or PIN changes nothing that is modelled. The unique
indexes on consumers are external: the documentation of the repository names
them and the code handles their errors. The foreign key is the one the entity
declares.

### The host's side

`HostListings`: one host and one listing; `inventory` says whether photos, unit
types and a price are there, `granted` remembers what was submitted, approved
and set live; the guard of a submission on `archived_at` is left out, since
nothing in the repository ever sets that column but to null. `KycCase`: the four
places that say whether a user is verified; the provider's events in order of
their timestamps, each delivered until it is acknowledged, and again; webhooks
are serialised by an advisory lock that nobody else takes. The token of the SDK
reads user and case in steps of their own, before and after the provider's
answer. Two first requests that both insert the case, of which the unique
`user_id` lets one fail, are not told apart from one that saves over the other.
`BookingMoney`: cents and ten-thousandths; floating-point products are rounded,
so an exact half may go either way and `Rounded` gives both; a creation reads
the rates and inserts its booking in two steps. `Reviews`: transactions at READ
COMMITTED, which see their own writes and what others committed; two bookings of
one listing. `CalendarSync`: one step per statement of a sync, a claim that
expires after its two minutes however long the sync takes, feeds that change or
answer 304, and the host's own blocks of the same nights. Time has no unit
there: the 30 seconds that `syncNow` wants between two attempts may pass between
any two steps, and a request it refuses is one that was not made.

## 3. What TLC checks

| Run | Instance | Shows |
|---|---|---|
| `reserve` | 1 listing, 3 days, 2 bookings, 2 creates with and without a shared key, 1 cancel, 1 expiry job | `NoDoubleBooking` |
| `pay_mock` | 1 booking, 2 intents, 1 intent request, 2 confirmations, 2 cancels, expiry and completion job, clock to 3 | `SettledExactlyWhenConfirmed`, `RefundOnlyOnceAndPaid`, `IntentsMatchLedger`; every step is allowed by `BookingContract` |
| `pay_cmi` | CMI, 2 intents, 1 callback at a time (repeated at will), 1 cancel, expiry job, lost answers | `TypeOK`, `CapturedOnlyIfSettled`, `RefundSettledOnlyIfCredited`, `VoidedNeverSettled` |
| `liveness` | mock, 1 booking, clock to 4, one of each actor, fairness | `HoldsAreReleased`, `PastStaysComplete`, `ConfirmationsFinish` |
| `cancelled_is_final` | expected violation | a completion job overwrites a cancelled booking |
| `charged_twice` | expected violation | two PreAuths of one booking are both captured |
| `outbox` | 2 workers, 2 rows, batches of 1, 2 attempts, fairness | `DoneMeansDelivered`, `DeadLetterMeansExhausted`, `EveryEventSettles` |
| `outbox_claims` | expected violation | two workers hold the same row |
| `thread_inbox` | 2 requests that send, read, list, hide or block, 1 client id, 2 messages, no repair | `UnreadMatchesMessages`, `ReadStaysRead` |
| `thread_state` | 1 request that reopens, 1 repair, completion, sync and archive jobs, fairness | `SequencesDense`, `ArchivedOnlyAfterStay`, `ThreadsSettle` |
| `support` | desk, signals, attachments or accounts | see below |
| `hosting` | listings, KYC, amounts, reviews or calendars | see below |

The run `support`, by component:

* desk (2 tickets, 1 report, 1 agent with room for 1 ticket, 2 escalations or
  surveys at a time, 4 writes): `ClosedThreadMatches`, a ticket is closed exactly
  while it has a closing date, and its thread agrees, unless a participant has
  reopened the thread since; `AutoLoadBounded`, routing
  keeps to the cap; `ReportHasItsTicket`, a report has at most one ticket and an
  escalated one has it; `CsatRatesReviewAgent`, a survey rates the agent noted
  at the close;
* signals (2 evaluations, 1 change by hand; a ticket opened on a millisecond or
  half a millisecond later; the instants 0, 48 minutes, one millisecond later,
  and 60 minutes, of which 48 and 60 are 80% and 100% of the urgent target):
  `SlaViewsAgree`, the SLA that SQL selects by is the one the code shows or, for a
  ticket opened between two milliseconds, showed a millisecond before;
  `SignalsSettle`, an evaluation that nothing
  disturbed leaves exactly the signals it wanted;
* attachments (2 files, 2 sends, 1 removal): `SentWereIngested`, only files that
  were ingested go out; `AttachmentKeepsMessage`, a file is taken once;
* accounts (2 requests at a time, 2 accounts, 2 identities):
  `OneIdentityPerPhone`.

The run `hosting`, by component:

* listings (2 requests at a time, 8 in all): `PublishedWasGranted`, a listing
  that is live, or approved or paused, was submitted and approved;
  `VerdictsAgree`, application and verification of a host carry the same
  verdict;
* KYC (2 events, 1 other request): `VerifiedWasGranted`, nobody counts as
  verified, in any of four places, without a verdict; `NewestVerdictStands`, an
  action property: while only the provider writes, no acknowledged event is newer
  than the one both rows show, and the case never goes back to an older event;
* amounts (prices of 5 and 9995 cents, 1 or 3 nights, rates of 3.33% and 50%, 0,
  23, 24, 120 and 168 hours to check-in): `ChargedTheRatesInForce`, the fees are
  those of the rates in force when the creation read them, whatever changes
  before its insert;
  `RefundPolicyOrdered`, refunds are within the payment and ordered by time and
  policy;
* reviews (2 bookings, 2 transactions at a time, 3 in all): `TotalsHeal`, totals
  that a race left wrong are right after the next transaction that runs alone;
* calendars (2 calendars, 2 nights, 2 syncs or edits, 2 changes of a feed, 1
  block of the host): `ImportedNightsReported`, no night is imported that no feed
  ever reported; `ImportMatchesFeed`, an undisturbed import mirrors its feed.

**Why the bounds are enough.** The bookings of different listings do not
interact, and the payment part looks at one booking at a time, so one listing,
and one booking where dates do not matter, keep every interaction. Two requests
of a kind are needed for the races between equals (two creates, two callbacks,
two cancels, in `pay_mock`); two intents for what a second intent can do to the
first. The calendar of three days has ranges that are disjoint, adjacent, nested
and overlapping at either end. The clock reaches the TTL of a hold, the
afternoon of the checkout day and, in `liveness`, the day after. Requests of one
kind are interchangeable; runs of safety properties use that symmetry, runs with
liveness do not. Deadlock is checked in every run but `support` and `hosting`,
whose behaviours end when they have used up the bounds on writes, requests and
syncs (`MaxWrites`, `MaxRequests`, `MaxSyncs` and the like). Each of those
bounds is large enough for the races the component has: two writers of the same
row, and one more call that meets what they left. The boundaries of the numeric
rules are among the inputs, a price of 5 cents and one of 99.95 with rates of
3.33% give halves and remainders to round. In the outbox two workers are needed
for one to take a row from the other, two rows for one to stay behind while the
other is handled, and a batch limit below the number of rows for a row to be
passed over. In a conversation two requests give every order of a stale write
and what it overwrites; two messages let a send fall before and between the
steps of a read or a listing. One repair is enough for a stale image, since what
it writes back depends on its own read only. The runs divide the operations by
what they touch: unread counters, numbers and state. `UnreadMatchesMessages` is
checked without repairs, because a repair does put back unread counters that
changed while it ran.

**Fairness.** A request that was started runs on (weak fairness; strong where
it waits for a row lock, since PostgreSQL queues the waiters of a row). The
deadlock detector acts. Cron fires for ever, so each job is started again, and
`JobsStopCrashing` says that a job is not killed, and the database does not
fail, for ever at the same point. Nothing obliges a guest, host or gateway to
send anything: no fairness on the start of a request, on
`GuestAuthorizes` or on the clock. In the outbox each worker's cron fires for
ever and time passes, so a retry becomes due and a row becomes old; crashes
and database errors come to an end. The bus may refuse for ever. In a
conversation the cron jobs run for ever, are not lost for ever, and the grace
period ends; snapshot repairs come to an end, since each may take back what a
job did. Users and the booking core are free.

**The contract.** `BookingContract` states the life cycle of one booking
without requests, locks, intents or gateway: reserved on free nights, paid
once and only while held, released, cancelled, completed, refunded at most
once and only when paid. `ImplementsContract` shows that every step of the
composition is such a step or invisible. `LateComplete` is the one step of the
contract that nobody would design; it is what the first finding adds. The
contract implies that a released, refunded or expired booking never becomes
active again and that completed and expired are final, so these need no run of
their own; `NothingIsTakenBack` (section 4) proves them.

Every property has a mutant of the code that TLC must reject (`PROJECT.json`,
"mutants"); the mutants stand in the modules just before what they mutate.

### Findings

1. **A cancelled booking can become COMPLETED.** Both completion jobs read the
   CONFIRMED bookings and later update each by id only
   (`booking-lifecycle-scheduler.service.ts:190`, `:142`). A cancellation in
   between, with its refund, is overwritten. The expiry job of the same file
   has the status in its WHERE clause and does not have the problem. That
   clause is all that is missing (`GuardedCompletionSuffices`, section 4).
2. **A guest can be charged twice.** `createOrGetIntent` checks the status once
   and inserts several awaits later (`stays-payments.service.ts:187`), so a
   second intent can be inserted after the first was confirmed; its callback
   finds the payment settled, answers ALREADY_PROCESSED and the retry at
   `stays-payments.service.ts:569` captures the second PreAuth as well. The
   late insert is the only cause (`GuardedInsertSuffices`).
3. **Two instances can handle the same outbox row.** The claim uses SKIP
   LOCKED "for multi-instance safety" (`outbox.worker.ts:98`), but the recovery
   requeues every PROCESSING row that was *created* more than a minute ago
   (`:163`): any row that has waited for a retry that long is requeued as soon
   as another instance has claimed it, and is published twice. The claim itself
   is exclusive (`ClaimsAreExclusive`).

### Observations

What else the models show or reading them into the code brought up, without a
run of its own.

*Booking core.* The window of finding 2 also leaves a PENDING intent on a
cancelled booking, against the comment at `stays-cancellation.service.ts:193`;
`confirmPaymentSuccess` still answers BOOKING_NOT_PAYABLE, and the PreAuth of
such a booking is then neither captured nor voided
(`stays-payments.service.ts:393`). `patchIntentMetadata` writes the whole
metadata object from an image read before the gateway call
(`stays-payments.service.ts:758`). The review path marks a booking COMPLETED
without looking at its status in the update (`stays-reviews.service.ts:556`),
like the jobs of finding 1.

*Outbox.* A row whose update to DONE took effect and threw is retried with
`processed_at` set, and if that retry is lost to a crash the recovery
(`outbox.worker.ts:162`) skips it for ever; its event was delivered.

*Conversations and attachments.* A message can be stored in an archived thread:
`sendText` resolves the permission on a row it read without a lock and
`insertMessage` does not look at the state again (`messages.service.ts:172`,
`:194`; `PHASE5_BUSINESS_LOGIC.md:55` says "read-only should block").
`conversation_version` is computed from earlier images, so versions repeat or go
back (`messages.service.ts:408`). A session is finalized outside the
transaction of its message: when that fails, the session is COMPLETED with
unlinked rows that nothing cleans up. A removal that works from an earlier image
deletes rows that were linked meanwhile.

*Support.* `reopenConversation` has no check of the kind of a thread: a customer
can make the archived thread of a CLOSED ticket ACTIVE again, beside the
ticket's own reopening (`conversations.service.ts:460`); what the customer then
sends is still refused by the status of the ticket. In the millisecond in which
an open ticket reaches 80% or 100% of a target the lists may still select it by
its SLA of before, when its `created_at` has microseconds. An escalation that
works from an earlier image lowers URGENT to HIGH
(`support-tickets.service.ts:2771`). The ticket entity calls `review_agent_id`
"Assignee at first CLOSED. Immutable attribution"; a second close fills it when
it was null. A routing transaction needs a second connection of the pool while
it holds the first. An evaluation that works from earlier rows undoes an
acknowledgement.

*Listings and calendars.* A listing can become LIVE that no admin set live,
against "Never promotes APPROVED to LIVE" (`admin-stays.service.ts:1383`). An
approval saved from an earlier image puts APPROVED over PAUSED and leaves
`paused_from_status`; then a pause that wrote its status alone and an earlier
resumption that clears `paused_from_status` leave PAUSED without it, and the
next resumption falls back to LIVE (`host-listings.service.ts:703`). The attempt
to prove the stronger form of `PublishedWasGranted` found this: the induction
failed on a PAUSED listing without `paused_from_status`, and TLC then gave a
behaviour of ten requests that reaches one, more than `hosting` allows. The
property now states what does hold, and that is proved. "Live or approved
listings must keep at least one unit type" (`host-listings.service.ts:1119`) is
checked before the write, so an approval in between leaves such a listing
without one. A sync finds no block and inserts by upsert, which overwrites a
block the host set meanwhile; its removal of stale nights goes by ids it read; a
calendar deleted during a sync is inserted again by its save; a sync that dies
leaves SYNCING; an answer 304 leaves a night unblocked that the host freed.

*Reviews.* An edit saved from an earlier image publishes a review again that an
admin removed meanwhile (`UndoneVerdictsTakeOverlap`: nothing else does).

*Identity.* A completed review without an answer counts as approved
(`compliance.service.ts:152`). Everyone but the webhook saves the case whole, its
`last_provider_event_at` too, so a stale save takes the event time back and an
older event can then be applied again. Making an SDK token saves an earlier image of the
user and may take back a verification (`:853`). `changePhone` compares the
submitted code with the stored hash (`users.service.ts:1213`; `sendOtp` stores
an HMAC), so it always refuses. `linkUsersToIdentity` runs on another connection
than the transaction that has just inserted the identity, so with the declared
foreign key `findOrCreateByPhone` fails whenever it must create the identity of
accounts that exist: a sign-up through `createUser` before the first login
leaves an account whose number gets no identity, although
`docs/unified-identity-architecture.md` says it "creates from existing users if
needed". An anonymised account keeps its identity, so the next account of the
same number cannot be linked under `uniq_consumer_per_unified_identity`. A
`setPin` that started before a deletion puts the number and the name back, or
inserts the account again.

## 4. What is proved

Every theorem holds for all values of the constants that the named assumption of
its module admits: any number of rows, requests, workers and jobs, and every
bound. The assumptions say no more than that bounds are numbers, tables and
uploads are finite sets, operations, statuses and rates are among those the code
accepts, and kinds of actors or values are told apart. A property is seldom
inductive by itself; the invariant that makes it so stands in the component's
module, after its properties, and the proof has one lemma per action or group of
actions. TLC has checked each of these invariants on the instances of section 3.
Some theorems carry a condition on the behaviour next to the specification (no
overlap, a guard on one write): they tell what a finding or an observation comes
from, every behaviour that satisfies the condition is one of the system, and
their invariants stand in the proof modules.

### Booking core (`TablesAssumption`, `CallersAssumption`)

* `TypeCorrect: Spec => []TypeOK`. The types depend on program counters (a
  gateway call that patches metadata carries a booking only if it is a refund, a
  job that voids has a current booking), which makes `TypeOK` inductive by
  itself.
* `NeverDoubleBooked: Spec => []NoDoubleBooking`. An insert relies on a check
  made in an earlier step. `ReservationInv` adds `ListingLockInv`: a request that
  has checked is alone on its listing and its dates are free. Every action other
  than the three of `BookingCreation` only shrinks the set of occupied nights.
* `SettledOnce: Spec => []SettledExactlyWhenConfirmed` and `RefundedOnce: Spec =>
  []RefundOnlyOnceAndPaid`. `SettlementInv` joins the two and adds that every
  booking a completion job still holds is settled: its update does not look at
  the status, so only the fact that a payment is never taken back keeps a
  COMPLETED booking paid.
* `IntentsAgreeWithLedger`, `CapturesAreSettled`, `VoidsAreUnpaid` and
  `SettledRefundsAreCredited` (`IntentsMatchLedger`, `CapturedOnlyIfSettled`,
  `VoidedNeverSettled`, `RefundSettledOnlyIfCredited`), from `CardInv`. Gateway
  calls run after the commit and hold no lock, so what justifies a call must be
  a fact that no later step undoes. There are three: an intent keeps its booking,
  a settled booking stays settled (`PaidIntent`), and a booking that has left its
  hold unpaid is never settled (`NeverPaid`, `UnpaidIntent`). `CardInv` says that
  every PreAuth, every gateway call in flight and every void that a cancellation
  or expiry still has to make is justified by one of them. Neither finding
  contradicts it: a second capture is of a settled booking too.
* `CoreRefinesContract: Spec => ImplementsContract`, the refinement. `Init` maps
  to `Init` of `BookingContract`, and each action to a step of the contract or a
  stutter, under `ContractInv`: `ReservationInv` (an insert reserves free
  nights), `CardInv` (a confirmation settles what was not settled, a settled
  refund was owed) and `BookingLockInv` (the booking a cancellation found
  cancellable still is when it commits, and no other cancellation holds it). The
  update of the completion jobs maps to `Complete` or, over a cancelled booking,
  to `LateComplete`.
* `NothingIsTakenBack: Spec => [][LifeCycleOneWay /\ MoneyOneWay]_vars`, an
  action property read off the refinement: COMPLETED and EXPIRED are final, a
  booking that left its dates never occupies them again, a payment stays settled,
  and a refund becomes due only in the step that cancels a confirmed booking and
  from there only advances.
* `HoldsHaveOneIntent: Spec => []OneIntentPerHold`: while a booking awaits
  payment it has at most one intent, whatever requests race. `HoldIntentInv` adds
  that the intents of a hold are all PENDING (every step that moves an intent on
  ends the hold in the same commit, or comes after its end) and that a request
  about to cancel intents has seen the hold end (`ExpiryDecided`). A second insert
  would meet the unique index on PENDING intents.

Two theorems show that findings 1 and 2 have one cause each. They assume of each
step what a guard in the code would give, and derive the property the code
violates.

* `CancelledOnlyCompleted`: in the code as it is, a cancelled booking changes only
  by being COMPLETED, and only after it was paid. `GuardedCompletionSuffices`: if
  bookings are only completed while CONFIRMED (`CompletesOnlyConfirmed`, the
  `WHERE status = 'CONFIRMED'` that the update lacks), `CancelledIsFinal` holds.
* `GuardedInsertSuffices`: if intents are only inserted for bookings that still
  await payment (`IntentsForHoldsOnly`), a booking has one intent ever, and
  `ChargedAtMostOnce` holds, however often callbacks and captures are repeated.

TLC agrees: with its condition added to the next-state relation, each property
holds on the constants of the run that violates it without.

### Outbox (`OutboxAssumption`)

* `DeliveredBeforeDone: Spec => []DoneMeansDelivered`, `FailedOnlyExhausted: Spec
  => []DeadLetterMeansExhausted` and `OutboxTyped: Spec => []TypeOK`. `OutboxInv`
  joins them and adds that rows which may still be claimed, and the images
  workers hold of them, have attempts left, so that a stale image never counts
  past the limit, and that a worker about to write DONE holds a delivered row.
* `ClaimsAreExclusive: Spec /\ [][RequeuesOnlyAbandoned]_vars =>
  []OneWorkerPerRow`, the cause of finding 3: if the recovery requeued only rows
  that no worker holds, no two workers would ever hold the same row, for any
  number of instances. Under the same condition `AttemptsAreCounted`: a failure
  that a worker records raises the attempts of its row by exactly one, and nothing
  else changes the attempts of any row. Without it a worker may write back a count that
  another has raised since; TLC shows that too.

### Conversation (`ThreadAssumption`)

* `MessagesNumbered: Spec => []SequencesDense` and `ThreadTyped: Spec =>
  []TypeOK`, from `ThreadInv`. Dense numbers are inductive only with
  `CountersBehind`: no counter, in the row or in an image a repair may still
  write back, is ahead of the messages. Then the larger of counter and MAX is
  the number of messages (`NextSequence`). The types need this in turn: the next
  number is a number only because the messages are numbered.
* `ArchivedAfterStay: Spec => []ArchivedOnlyAfterStay`, from
  `GraceMeansCompleted`: while the stay is not completed, neither the row, nor an
  image that may be written back, has a grace period or is archived, and no job
  is on its way to the archive.
* `ReadIsFinal: Spec => ReadStaysRead`, an action property, from `ThreadInv`.
* `UnreadCountsAgree`: `Spec => []UnreadMatchesMessages` if there are no
  repairers, which is what the run `thread_inbox` assumes, and must: a repair does
  put back counters that changed while it ran. `OnlyRepairsMiscount` says that
  nothing else does: with any number of repairers, every step but the save of
  a repair keeps counters and messages together.

### Support (`DeskAssumption`, `SignalsAssumption`, `AttachmentsAssumption`)

* `ClosedTicketsMatchThreads`, `RoutedLoadIsBounded`, `ReportsHaveTheirTicket`,
  `SurveysRateNotedAgent` and `DeskIsTyped`, from `DeskInv`. `RoutingSound`: one
  routing transaction runs at a time (the advisory lock), and the workload
  it read still bounds what each agent holds, since in between tickets only
  leave the agents. `ReportsSound`: what an escalation found before its lock is
  still the ticket of its report. `SurveysSound`: the agent of a ticket is noted
  once, so a submission that read the ticket earlier read that agent or none.
* `SlaShownIsSlaFiltered`, an arithmetic argument over the thresholds of the four
  urgencies, for every millisecond and every microsecond of creation: all
  thresholds are whole milliseconds, so the microseconds of `created_at` delay a
  leg by at most one.
* `SignalsStandAsWanted`, from `SignalsInv`: what an undisturbed evaluation has
  read is what the rows are.
* `SentAttachmentsWereIngested` and `AttachmentsStayWithMessage` (an action
  property), from `AttachmentsInv`: a row is READY, chosen or linked only once
  its ingestion is over, and then it is never inserted again.
* `SupportComposes`: a behaviour of `MCSupport` is a behaviour of each of its four
  components, which carries their theorems over to the run; `SupportTyped: Spec =>
  []SupportTypeOK` follows from the components' invariants.

### The host's side (`ListingsAssumption`, `CalendarAssumption`, `MoneyAssumption`, `ReviewsAssumption`, `KycAssumption`)

* `PublishedListingsWereGranted` and `HostVerdictsAgree`, from `ListingsInv`:
  the image of each request on the listing carries a status that was granted, or
  that its own grant completes; each request on the profile writes both columns
  of the verdict or neither, so no mixture of stale saves separates them.
* `LiveUnaskedTakesOverlap: ListingsSpec /\ []OneInFlight => []LiveWasSetLive`:
  while requests on a listing do not overlap, a LIVE listing was submitted,
  approved and set live by an admin, however often it was paused, edited and
  resumed. `PauseRemembers` is the invariant: a paused listing knows what it was
  paused from. With overlapping requests it fails (see the observation in section
  3; TLC needs three requests at a time and eleven in all), so the stale images
  are the cause, not the operations.
* `ImportsWereReported` and `ImportsMatchTheirFeed`, from `CalendarInv`: a sync
  holds only nights that its feed has reported; undisturbed, it has found all the
  blocks it must remove, and of its nights only those it has not yet looked at
  may be free.
* `FeesAreOfTheRatesInForce` and `RefundsFollowPolicies`, from `MoneyInv`, for
  every price, rate and time to check-in: rounding either way keeps a fee within
  its amount and is monotone, which the lemmas about `Rounded` state. `MoneyInv`
  also says that the confirmation never refuses the amounts: total and payout are
  computed from the rounded fees, so the ledger check compares equal sums.
* `ReviewTotalsHeal`, from `ReviewsInv`: a transaction that started alone is
  alone until another begins, and has counted the rows its commit leaves.
* `WrongTotalsTakeOverlap` and `UndoneVerdictsTakeOverlap`: if transactions on the
  reviews of a listing run one at a time (`OneReviewTx`), its totals are exact at
  all times and only moderation changes the status of a stored review. The
  invariant is `SerialReviews`: an edit holds the status its row has, and a create
  that went past its insert has found no row. Without the condition TLC violates
  both.
* `VerifiedUsersWereGranted` and `NewestVerdictIsShown`, from `KycInv`: the
  webhook under way carries the verdict of its event in both rows, an event newer
  than the last one while no other request has come, and what a
  stale request still has to save was granted or is its admin's own grant.
* `HostingComposes` and `HostingTyped`, as for support.

### Accounts of a phone number (`PhoneAssumption`)

* `NumbersHaveOneIdentity`, from `PhoneInv`: the advisory lock has one holder,
  and between its look-up and its insert nobody else creates an identity, so the
  identity of the number is the first ever made and nobody carries another.

### What is only model-checked

* The liveness properties (`HoldsAreReleased`, `PastStaysComplete`,
  `ConfirmationsFinish`, `EveryEventSettles`, `ThreadsSettle`): they rest on
  fairness, which this prover does not handle.
* That the counterexamples of section 3 exist: TLC shows them.

## 5. Not modelled

* *Read-only parts*: dashboards, analytics and performance reports, explore and
  search, presentation of conversations, export of calendars. They keep no
  state; what they compute is what their queries say.
* *SEO*: generated content and catalogues, rewritten as a whole; nothing else
  depends on them.
* *Conversation merge*: it joins duplicate threads of a booking and removes
  orphans. The unique `booking_id` and the cascading foreign key exclude both,
  so no state the program can be in reaches its branches.
* *Money-movement idempotency*: the service has no caller in this build; a
  protocol with clients would have to be invented.
* *Authentication*: attempts and lockouts of OTP and PIN, rotation of refresh
  tokens, device trust, risk rules. Their strength is the subject of a security
  review, not of this project. Cryptography (tokens, signatures of callbacks) is
  left out for the same reason.
* *Identity legacy* (about 28 000 lines: wallets, taxi, delivery, rewards) is not
  booted; its README says so.
* *Glue*: controllers, DTOs, entity declarations beyond the columns used, seed
  scripts, migrations, notifications, logging, metrics, caching of responses,
  deployment.

This list is why the map covers about a tenth of the repository's lines and
little more than a seventh of those that are booted: what is left is for the
most part code that keeps no state, delegates, declares or reads. Components
marked `partly` leave out the views and text columns named in `PROJECT.json`.

## 6. Plan

1. *Done*: the booking core, its contract, the outbox, conversations and their
   attachments, support and signals, listings, KYC, amounts, reviews, calendars
   and phone accounts, with the runs, findings and proofs above.
2. *Done*: a proof of every safety property the passing runs check, and of what
   would repair each of the three findings.
3. Room for more: liveness of calendar syncs and of the attachment clean-up,
   both cron jobs, under the fairness the other jobs have; the same question of
   cause for the observations on calendars and KYC that section 3 lists.

## 7. Running the checks

```
tlc -config MCReserve.cfg MCBookingSystem        # the booking core
tlc -config MCOutbox.cfg MCMessagingOutbox       # the outbox
tlc -config MCThreadInbox.cfg  MCBookingThread   # a conversation
tlc -config MCSupport.cfg MCSupport              # support, attachments, accounts
tlc -config MCHosting.cfg MCHosting              # listings, KYC, money, reviews, calendars
tlapm BookingSystemTypes.tla                     # and the other proof modules
```
