# Verification of the VALLÉ booking back end

TLA+ models of the NestJS service in `src/` (called *the code* below), the TLC
instances that check them and the TLAPS proofs about them. Paths in the tables
are relative to the service's own source directory.

## 1. The system

A single Node process with PostgreSQL behind TypeORM. Requests run as
interleaved promises: between two `await`s anything else may run. Shared state
is the database; inside one process there are a few timers, caches and sockets.

| Part | State | Operations | What must hold |
|---|---|---|---|
| capacity, holds, bookings (`bookings/`) | `slot_holds`, `bookings`, `booking_lines`, advisory lock per (date, slot), idempotency key, reference | `create`, `hold`, `releaseHold`, expiry, `reservePlaces` | no slot, experience or session beyond its limit; one booking per key; a hold is honoured; every request is answered |
| availability page (`bookings/availability.ts`) | none of its own; six reads | `availability` | what it offers would be granted |
| desk and guest edits (`staff/bookings/`) | the same rows, row lock of the booking, `updated_at`, the trail | `update`, `postpone`, `recordPayment`, `refund`, `createForGuest`, `guestChange`, `guestCancel`, lists | the limits again; nothing lost between two editors; an edit prices what it changed and nothing else; pages make up the list |
| coupons (`coupons/`) | `coupons` with its `uses` | `resolve`, `consume`, `create`, `setActive` | uses = bookings with the code, never beyond `max_uses` |
| online payments (`payments/`) | `payments`, `bookings.paid_amount`, the gateway's orders | `startCheckout`, `settle` (webhook, return page, sweep), `refund` | an outcome applied once; paid amount = money received; every checkout ends; the guest gets a ticket |
| waivers and gate (`waivers/`) | `waivers`, booking status | `sign`, `gateView`, `arrivalCheck`, `checkIn` | counts match signatures; nobody rides against a rule unseen |
| tickets, guest messages (`tickets/`, `notifications/`) | `ticket_sent_at`, `reminder_sent_at` ..., the secret of the links | `sendTicket`, `afterGuestChange`, reminders | sent when due, not twice, true when sent, links that open |
| chat (`chat/`) | conversations, messages, unread counters, socket rooms | REST and socket.io handlers | one open thread per visitor, counters, replies arrive, revoked staff leave, the list catches up |
| staff sign-in (`staff/auth/`) | `staff_users`, password resets, JWT with `token_version` | `login`, `completeTwoFactor`, resets, role changes | a code counts once; a revoked session dies |
| careers and HR (`hr/`, `careers/`) | vacancies with their slug, applications | `createVacancy`, `updateVacancy`, `deleteVacancy`, `apply`, lists | an address stays, no application is lost |
| retention (`ops/`) | drafts, holds, old bookings, the policy row, the run log | `run` every hour per replica | nothing erased before its period, every run whole |
| backups (`scripts/`) | dump files, month copies, log, bucket | `db-backup`, `copyOffsite`, `backupStatus` | a restorable dump is kept, the verdict is honest |
| release (`scripts/db-init.js`, `main.ts`) | schema, content, migrations, staff passwords | `--reset`, `--reseed`, migrations, serving | nothing of the guests is lost, a release serves a whole database |
| reports (`staff/reports/`) | none; reads bookings and trail | `summary`, `reconciliation`, `forecast`, exports | they tell one story, and that of the money |
| caches (`fx/`, `weather/`, `catalog/`) | last good value, expiry | fetch on demand | stale value rather than error, never older than shown before |
| catalog and seed (`catalog/`, `database/scripts/`) | content tables | `generate-seed`, `loadRows`, the mappers | the page shows what the tables were given, quoted price = charged price |
| photos, tables (`photos/`, `reservations/`) | `booking_photos`, `table_reservations` | upload, mark ready; ask, confirm, cancel | limit, and what the guest was told |
| pure rules | | pricing, party rules, waiver rules | |
| the rest | | quotes, SEO pages, waiver terms, e-mail and PDF layout | |

How they interact: a booking is created (capacity + coupon) and, if paid online,
a checkout is opened; a settlement credits the booking and asks for the ticket;
desk and guest edits go through the same capacity check and ask for a new
ticket; the gate writes the booking's status; the calendar is read by all of
them; the reports read the rows and the trail all of them leave; the release
script prepares the tables they use, the nightly scripts copy them away.

What is hard: READ COMMITTED transactions that count and then write; three kinds
of locks taken in different orders; rows read without a lock and saved whole
(TypeORM's `save` writes every column that differs from a row re-read just
before); a payment gateway that speaks late, twice or never; tasks started
before the commit they should read, or not waited for; retries by guests; lists
read page by page and pushes that cross them; scripts killed between two steps.

## 2. Modules

| Module | Models | Checked by | Proved in |
|---|---|---|---|
| `Places` | capacity, holds, bookings, edits, postponement, the gate's check-in, coupons inside a booking | `MCPlaces` | `PlacesProofs` |
| `PlaceLedger` | what the capacity check promises: a ledger of grants changing in single steps | as `Places!ImplementsLedger` | `PlacesProofs` |
| `PaymentAccounts` | what online payments promise: accounts of bookings, checkouts and gateway moving in single steps | as `Payments!ImplementsAccounts` | `PaymentsProofs` |
| `Payments` | checkouts, settlement, sweep, refunds, the desk's takings, tickets of online bookings | `MCPayments` | `PaymentsProofs` |
| `Chat` | conversations with their messages and the operators' unread badge, socket rooms, the sweep of revoked operators | `MCChat` | `ChatProofs` |
| `StaffAccounts`, `Hiring`, `Retention`, `Backups` | the back office | `MCOffice` | `OfficeProofs` |
| `Visits`, `Prices`, `Reminders`, `GateRules` | a sold booking until its visit | `MCVisitDay` | `VisitProofs` |
| `Rates`, `Forecast`, `LiveBoard` | what guests are shown meanwhile | `MCVisitDay` | `VisitProofs` |
| `Sums` | the sum `reduce` and SQL's `SUM` add up | where it is used | `SumsProofs` (lemmas) |
| `Till`, `Offers`, `Coupons`, `Messages`, `Photos`, `Tables`, `Threads`, `Lists`, `Catalog`, `Bootstrap`, `Offsite` | what the park is told and tells | `MCTold` | `PartsProofs` (invariants), `ToldProofs` |

`MCOffice`, `MCVisitDay` and `MCTold` put modules side by side that share no
state: each behaviour moves one of them, named by `part`, and each invariant
of the run is the conjunction of those of its modules.

### Places

One element of `Tx` is one request; it runs once. `pc[t]` is the place where it
waits: `row` (row lock of the booking it edits or the hold it deletes),
`coupon`, `slot` (advisory lock), `check` (holding the slot lock), `insert`,
`commit`, `save` (the gate's unlocked save). `req[t]` is what it carries; `row`
the committed rows, named by the request that inserted them. Uncommitted writes
are not in `row`: they appear in `Commit`. Every lock is released in `Commit`
or `Rollback`.

| Action | Code |
|---|---|
| `Create`, `HoldPlaces` | the part of `create` / `hold` before the transaction: key lookup, coupon, calendar |
| `LockSlot`, `Reserve`, `Full` | `reservePlaces` |
| `DeleteHold`, `Insert`, `TwinFirst`, `RefCollision`, `Commit` | `write` and the retry loop of `create` |
| `Edit`, `LockBooking` (with `Patch`), `AfterMoney` | `StaffBookingsService.update`: fitting of lines, audited changes, re-pricing, `ensureRoom` |
| `LockCoupon`, `CouponRefused` | `CouponsService.consume` / `resolve` |
| `ReleaseHold`, `Expire`, `Postpone`, `SaveCalendar` | one statement or one short transaction each |
| `CheckIn`, `SaveArrival` | the read and the later save of `WaiversService.checkIn` |
| `DeadlockVictim` | PostgreSQL's deadlock detection (external) |

Abstractions: heads are counted, not ages; one capped experience with several
variants and session times, standing for each of them; prices and texts are left
out; a coupon code is one coupon. `reserved` is a history variable: which part
of a row (`party`, `lines`) the capacity check has granted.

Assumed of the outside: an idempotency key belongs to one attempt of the booking
page, so a resend carries the same booking (`FromPage`).

### Payments

Workers (`Requests`, `Sweeper`) serve one handler after another; `call[w]` is
what a worker works on, with the booking's paid amount it read under the lock
(`from`). `order` is the gateway's side (external): it survives restarts.

| Action | Code |
|---|---|
| `CreateOnline`, `PayNow`, `SavePending`, `OpenSession`, `SessionFails` | `openCheckoutOrSendTicket`, `startCheckout` |
| `Notice`, `Sweep`, `LockPayment`, `LockBooking`, `Settle` | webhook or return page, `releaseAbandoned`, `settle`, `creditBooking` |
| `Mail`, `TicketOnArrival` | `sendTicketAfterCommit`, the end of `releaseAbandoned` |
| `RecordPayment`, `Cancel`, `Refund` ... `CommitRefund` | the desk |
| `CheckIn`, `SaveArrival` | the gate |
| `AnswerLost`, `Crash` | the 20 s limit of a gateway call; a restart |

A notice may come any number of times and at any moment after the gateway knows
the outcome; nothing obliges it to come. The grace period is a nondeterministic
moment, except that it is longer than opening a checkout takes.

### Chat

Handlers of socket events and of the REST fallback, interleaved wherever one
awaits the database; `call[h]` is what a handler carries, `room`, `staffRoom`
the sockets in a conversation's and in the operators' room, `until` the memo
`staffCheckedUntil`.

| Action | Code |
|---|---|
| `visitorHello`, `CreateConversation`, `listMessages`, `Join` | `startSession` and the rest of `visitor:hello` |
| `visitorMessage`, `staffMessage`, `Save`, `Count`, `Join` | `addVisitorMessage`, `addStaffMessage`, `addAttachment`, over a socket or REST |
| `staffOpen`, `markStaffRead`, `ClearBadge`, `Join`, `listMessages`, `SendThread` | `staff:open` |
| `staffHello`, `staffRefused`, `staffClose`, `announceToStaff` | the other events |
| `Fetch`, `enforceStaff`, `LookupFails`, `Emit` | `evictRevokedStaff` and the emit after it, once or twice per request |
| `visitorGone`, `Revoke`, `Tick` | external: a lost connection, an account's end, time |

`got`, `given`, `heard`, `counted`, `handed`, `announced`, `crossed` are history
variables. `given[v]` are the conversations handed to a visitor's socket at
hello; a message puts its sender's socket in a room as well, but comes with no
list, so `ReplyReachesVisitor` is about the conversations in `given`. `crossed`
names the replies that fall in the one gap of the code (see section 5), which
the property leaves out. `chat_room` explores one conversation; the theorems of
section 4 are about any number. A look-up of an account and
the memo it writes are one step, and no tick falls between an operator's check
and its entry in the room: both are one or two queries against a window of five
seconds. A dropped operator's socket does not come back (its next connection is
another socket, which the sweep treats alike). An operator's client says hello
before it answers. Left out: `unread_visitor`, which is only ever incremented,
typing notices between peers, and an operator reading a thread over REST.

### The back office (`MCOffice`)

| Module | State | Actions and code |
|---|---|---|
| `StaffAccounts` | one `staff_users` row, its reset link, tokens, the second factor's last step; `req[r]` the row a request read | `login` and `completeTwoFactor` (`staff-auth.service`), resets and enrolment (`staff-security.service`), a manager's edit that saves the row it read (`staff-users.service`), the guard |
| `Hiring` | vacancies with their address, applications; `task[d]` a desk's request | `createVacancy`, `freeSlug` and `InsertVacancy` with its retries, the edit with its save, the count and delete of `deleteVacancy`, `apply` |
| `Retention` | drafts, bookings by year, the policy row, the log of runs, rows locked by others | `runIfDue` and the `run` that may overlap, `doomDrafts` with `clearDrafts` and `anonymiseBatch` with `commitBatch`, batches with SKIP LOCKED repeated by `inBatches`, `recordRun`, `savePolicy` |
| `Backups` | files by night, the log, the month's copies | `backup`, `writeManifest`, `copyMonthly`, `copyManifest`, `retain` with `prune`, `copyOffsite`, `record`, `restoreTest` with `compareRestore`, each of which may fail, and `killed` between any two; `backupStatus` |

### The visit (`MCVisitDay`)

| Module | State | Actions and code |
|---|---|---|
| `Visits` | one booking with its stamp, waivers, the trail; `stage[r]` a request | `openDrawer` and `saveDrawer`: `update` under the row lock with the stamp its screen showed; `guestChange`, `postpone`; `sign`, `Supersede`, `InsertWaiver` (two writes, no transaction); `gateView`, then `checkIn` as `Compare`, `WriteStamp`, `WriteArrived`, `AuditArrived` |
| `Prices` | one order with its lines, rate and adjustment, the price list | `computeBooking` (`bookings/pricing`, `booking-records`), `create`; `reprice`, `saveEdit`, `guestEdit`: `fitLinesToParty`, `touchesMoney`, the coupon and the manual adjustment |
| `Reminders` | tomorrow's bookings with their marks; sweeps with the list they read | `sendDueReminders` row by row: message, mark, waiver mail, mark |
| `GateRules` | a party and its lines, built step by step | `Signers` with `waiverRequiredCount`, `gateChecks`, `activitiesOf`, `flagsFor` (`waiver-rules`) |
| `Rates`, `Forecast` | the value kept, the fetch in progress, who waits | the bank's table, partly posted or not at all; the weather, shared by those who ask; the catalog built by each |
| `LiveBoard` | two settings rows | read whole, written whole |

### What is told (`MCTold`)

| Module | State | Actions and code |
|---|---|---|
| `Till` | bookings with what they were paid, the trail's entries, a desk call in several statements | `createForGuest` (repeated or cut short), takings, settlements, refunds, edits; the gate's check-in as view, reading and save (`gateView`, `gateReads`, `checkIn`); then the reports as operators: `totals`, `breakdown`, `nationalities`, `experiences`, `reconciliation`, `forecast`, `exportCsv`, `monthRevenue` |
| `Offers` | the calendar's rows, what parties hold and booked, a page being built | `availability` as its six reads; `hold`, `book`, `releaseHold`, `cancelBooking`, `saveCalendar` |
| `Coupons` | the code's row; operators' saves with the row they read | `resolve`, `consume`; `create` as look, look again, insert; `setActive` as read, compare columns, update |
| `Messages` | one booking, the secret of the links, messages being sent | `sendTicket` on booking, payment, change and request, waiver links and copies, photos; channels that fail, restarts, `rotate` |
| `Photos` | a booking's photos; requests between their statements | `add` (count, then save), `remove`, `markReady`, the count read again for the message |
| `Tables` | reservations, e-mails on their way | `create`, `setStatus` (read, save, mail), the list of the soonest |
| `Threads` | conversations, messages, handlers, the list a tab of the back office shows | `startSession`, messages and files by either side, `markStaffRead`, `close`, the list by fetch and by push |
| `Lists` | bookings by age, a walk through pages | `list`, `listQuotes`, `listApplications`, the file of applications: filters, order, `OFFSET`, total |
| `Catalog` | the content tables and the catalog built from them | `generate-seed`, `loadRows` table after table, each in any order ties allow, `catalog.mappers`; a new seed, and migrations that set prices, a menu's note and allergens, a gallery's film |
| `Bootstrap` | two databases, the script's remaining files, the release that serves | `db-init` with `--reset` and `--reseed`, killed between files; `main`; `staff-password` |
| `Offsite` | keys in the bucket, tonight's copy | `copyOffsite`: dump, manifest, listing, deletions; kills |

## 3. Runs

| Run | Instance | Shows |
|---|---|---|
| `places_book` | 3 requests, single guests, 2 places per slot, 2 slots, lines with one timed session, one key, one retry of the reference, calendar changes | `TypeOK`, `SlotWithinCapacity`, `HoldHonoured`, `CapsKept` (experiences and sessions), `OneBookingPerKey`, and that the protocol implements `PlaceLedger` |
| `places_ends` | 3 requests with a coupon of one use | every request ends under weak fairness of its own steps; `CouponWithinMax` |
| `places_session` | 2 requests, one session with one place | **violated**: `NoSessionOverbooked` |
| `pay_money` | 1 booking of 2 units, 2 payments, 2 workers and the sweep, 1 restart or lost answer | `TypeOK`, `PaidIsLedger`, `CreditBacked`, and that the handlers implement `PaymentAccounts` |
| `pay_settles` | 2 payments, 1 worker and the sweep, with the gate | `PendingSettles`, `TicketArrives` |
| `pay_late` | 1 payment | **violated**: `CaptureCredited`, even if notices come |
| `chat_room` | 1 visitor's socket, 1 operator, 1 conversation, 2 messages, 2 handlers, a window of 1 tick | `TypeOK`, `RevokedHearNothing`, `BadgeKeepsWaiting`, `NothingMissed` |
| `staff_office` | 2 requests on one account, 2 attempts, 2 eras of its password; 2 desks, 2 vacancies; 2 replicas; 4 nights in months of 2 | `OfficeTypeOK`, `SignInEnds`, `PostsSucceed`, `AddressStays`, `PeriodsKept`, `BackupsSound` |
| `visit_day` | 3 requests on one booking of at most 2, 2 days; 6 options, 2 edits, 2 price lists; 2 sweeps; 2 lines, 5 parties; clocks of 4 to 6 ticks | `DayTypeOK`, `WritesAccounted`, `WaiversCount`, `PricesSound`, `OneOfEach`, `GateTold`, `ShownIsTrue`, `ShownNeverBack` |
| `visit_infants` | as `visit_day` | **violated**: `NobodyGone` |
| `visit_coupon` | as `visit_day` | **violated**: `CouponWins` |
| `told_all` | see below | `ToldTypeOK`, `ReportsBalance`, `OffersHonest`, `GuestsTold`, `BoardTold`, `PagesWhole`, `CatalogFaithful`, `ScriptsSafe` |

What the conjunctions say:

| Property | Parts |
|---|---|
| `CapsKept` | `ActivityWithinCap`, `SessionWithinCapPerSlot`: the granted lines of an experience, and of one of its sessions within one arrival slot, stay within their limit |
| `NothingMissed` | `SavedIsAnnounced`: what is saved is fanned out even when a look-up fails; `ReplyReachesVisitor` |
| `SignInEnds` | `SingleUse`: a code, a recovery code or a link counts once for requests that begin afterwards; `SessionsEnd`: no token outlives the password, the account or the factor it was made under |
| `PeriodsKept` | `NeverTooEarly`: nothing is erased that is not past the period the run read; `RunsAreWhole`: a recorded run left no draft and no booking that was due and not locked elsewhere |
| `BackupsSound` | `BackupsKept`: once there is a dump there is one that restores, and a month's copy stays; `StatusHonest` |
| `WritesAccounted` | `StampHonoured`: an edit that carries a stamp lands on the row its screen showed (edits without one, and the guest's, check nothing); `TrailTellsRow`, but for an overtaken check-in |
| `WaiversCount` | `ArrivalChecked`: an arrival without an override had what it needs; `LatestCounts`: one current waiver per participant, the latest, but for signatures that overlapped or failed half-way |
| `PricesSound` | `PricedAsNew`: an edited order costs what a new one would; `NobodyInvented`: no line has more adults than the party, nor more children than its children and the most under-6s any party brings |
| `ShownIsTrue`, `ShownNeverBack` | an open park pauses nothing, no rate is newer than the date beside the table and older ones are asked for again after the retry period, the catalog is fresh enough; no rate or weather shown is replaced by an older one, a note only by one sent for its activity or by an overtaken save |
| `ReportsBalance` | `LedgerTellsPaid`: the till's columns add up to what the bookings were paid, but for bookings whose paid amount was written without its entry (a stale save of the desk's call or of the gate, a repeated transfer, a call cut short); `ReportsAgree`: ranges, days, breakdowns, files, forecast and reconciliation count the same guests and rupees |
| `OffersHonest` | the date picker: `ShownIsGranted`, `NoPhantomOffer`; the codes: `UsesAreBookings` |
| `GuestsTold` | messages: marked only if told, links open, the balance asked is the balance, the last message is caught up with the row; photos: `AlbumNearLimit`, `ReadyMeansPhotos`; tables: `GuestKnowsTable`, `ListIsSoonest` |
| `BoardTold` | `OneLiveThread`; `BoardCatchesUp`: when all handlers have ended the list shows the row |
| `PagesWhole` | `NoneSkipped`: whoever stays in the list and does not move up is seen; `PagesAreList` |
| `CatalogFaithful` | `RoundTrip`: the page's catalog is what the tables were given, whatever order ties come in: the document as the generator writes it (`Seedable`), with what migrations set since; `QuotedIsCharged` |
| `ScriptsSafe` | `NothingLost`, `ReleaseWhole`: only `--reset` and `--reseed` take bookings away, and what serves is whole; `CopiesStay` |

Where a comment in a module says that a case is left out (two overlapping
signatures, a retried desk call, a hold turned booking while a page is built
...), the code does misbehave there: those cases are listed in section 5, and a
history variable marks them, so that the property covers every other behaviour.

Bounds. Three requests are enough for each hazard of `Places`: one row already
there, two racing; parties of two against two places are covered for every
number by the theorem `SlotSafe`. `MaxTakings`, `MaxFaults`, the number of
`Payments` and `RefMaxTries` cap counters. `pay_money` has no cancellations, which
move no money; `pay_settles` has them. Two handlers and two messages in
`chat_room` cross every pair of requests on one conversation; a clock of two
values puts the end of the window between any two steps. In `staff_office` four
nights with months of two reach the pruning, two month's copies and a test that
is too old; two requests on one account cross every pair of handlers. In
`visit_day` three requests let one read, a second overtake and a third follow.

`told_all`: `Till` has one booking of the website and one of the desk, two
entries in the trail, two days and one edit, check-in, repeat or cut; `Offers` two parties
(a couple in the morning, one person in the afternoon) and two calendars;
`Coupons` two operators, two bookings, three calls, a code for one use today or
for ever; `Photos` a limit of two, two requests, four photos; `Tables` two
tables and two decisions; `Messages` two senders, two messages, three writes or
rotations, a contact with both channels and one with a phone alone, one for each
carrier; `Threads` one visitor, two conversations, two handlers at once of four,
two messages; `Lists` three rows, two changes, pages of one or two rows, three
queries; `Catalog` a document with every section and one with most of them
empty, one write (a new seed, a price, a menu's note, a film); `Bootstrap` three runs of the script, two migrations,
five settings; `Offsite` four nights and copies kept for two days. Each bound is
the least at which the hazard beside it in `PROJECT.json` happens; every
property has a mutated definition that violates it within them.

Symmetry is used over requests, payments, workers, handlers, messages, senders,
parties and operators, never with a liveness property. Deadlock is not checked
(`CHECK_DEADLOCK FALSE`): histories are bounded and when every request has run
the system stops; that none of them waits for ever is `EveryRequestEnds`.

Fairness. `Places!FairSpec`: weak fairness of each request's own next steps. A
lock is granted in the order it was asked for and each request runs once, so a
waiting request meets a free lock that stays free or is taken by one of finitely
many others. `Payments!FairSpec`: strong fairness of a worker's steps (other
workers may come back for the same row lock, PostgreSQL queues are first come
first served), weak fairness of the sweep's timer and of the ticket task. No
fairness on guests, the gateway or its notices; `NoticeFairSpec` adds it for
`pay_late`, to show that even punctual notices do not help. The other runs check
safety alone: their handlers end by themselves and wait for nobody.

## 4. Proofs

`PlacesProofs` proves, for every number of requests, slot, party size and set of
lines:

* `TypeCorrect`: `Spec => []TypeOK`;
* `SlotSafe`: `Spec => []SlotWithinCapacity`.

`SlotWithinCapacity` is not inductive: it says nothing of a request that has
counted and not yet committed. `PlaceInv` adds: the locks a request holds at each
step (`Locked`), that the row an edit works on is unmoved while it is locked
(`Unmoved`), that granted rows are live (`GrantsLive`), and, the heart of it,
`RoomKept`: between the check and the commit the guests of the others plus the
request's party still fit in the slot. `RoomKept` is kept because whoever grants
places in a slot holds its lock, and every other step only removes guests; the
counting lemmas compare finite sets of heads (`FiniteSetTheorems`).

It also proves, for the same instances:

* `HoldSafe`: `Spec => []HoldHonoured`, from `PlaceInv`: the party of a living
  hold is among the heads counted, so taking it over cannot fail for want of room;
* `KeyBooksOnce`: `Spec => []OneBookingPerKey`. Attempts with one key carry one
  booking (`Asked`) and so queue for one slot lock: from a request's look at the
  unique index to its commit no row has its key (`KeyFree`), and what an edit or the
  gate writes back is the key its booking has (`KeyCarried`);
* `CouponSafe`: `Spec => []CouponWithinMax`. Whoever will count a use holds the
  row lock of the code and found one left (`CouponHeld`); an edit's code is counted
  or was there before (`CouponCarried`); the bookings with the code, those the gate
  is about to save with it included (`Coded`), are no more than its uses;
* `KeepsLedger`: `Spec => ImplementsLedger`. Each action maps to one step of
  `PlaceLedger` or to none; `FreedAlone` and `PlacedAllots` turn a commit, a
  release, an expiry or a postponement into the ledger's steps.

and `CapsSafe`: `Spec => []CapsKept`. `LineInv(F, C)` is the
argument of `RoomKept` for any set of lines `F` with limit `C`; it is proved
once and used for the experience with its limit, and for each session time within
an arrival slot.

`PaymentsProofs` proves, for every number of bookings, payments, workers and
restarts, with the gate's stale saves included but for the last two:

* `PaymentsTypeCorrect`: `Spec => []TypeOK`;
* `MoneyBacked`: `Spec => []CreditBacked`;
* `OutcomeOnce`: `Spec => SettledOnce`;
* `LedgerHolds`: `Spec /\ "gate" \notin Ops => []PaidIsLedger`;
* `KeepsAccounts`: `Spec /\ "gate" \notin Ops => ImplementsAccounts`.

The invariant `PaymentsInv` ties what a worker carries to the rows and to the
gateway's orders. `Told`: what a notice said of a captured order is still true
when it is applied. `Settling` and `Refunding`: a worker past its lock holds the
payment's row lock and the payment is still pending, or paid with enough left;
after the gateway gave money back, what it returned covers what will be
recorded. `Opening`: a checkout not yet opened has its payment for itself.
`Backed(p)`: the payment against the order. `CreditBacked` alone is not
inductive, because it says nothing of an amount read before the commit. The
argument is one of frames: `Undisturbed` says that a worker keeps its part when
another one writes a payment not in its hands (`Holds`), and `OneRow`, `Ends`,
`Begins` and `Walks` reduce every action to it. `LedgerInv` adds that a settlement
or a refund is of a payment of the booking it locked, and that whoever is about to
credit or debit a booking has it locked and knows what it shows as paid. The gate
saves a paid amount it read without that lock (section 5, item 2): with it the
ledger does not hold, so the last two theorems and `pay_money` leave it out.

`KeepsAccounts` maps each commit to one step of `PaymentAccounts` and everything
else to none: a pending row to `Open`, what the guest pays to `Capture`, a
settlement to `Credit` or `GiveUp`, the gateway's refund to `GiveBack`, its commit to
`Debit`, cash to `TakeCash`. `LedgerInv` makes `Credit` and `Debit` exact: the amount
read under the booking's lock is still the one shown, and what is left of a payment
is part of it (`LeftIsShown`), so the code's floor at zero is never reached.
`Priced` adds that a checkout and a refund ask for at least one and no more than
the booking costs. `SettledOnce` and the order of capture, credit and refund are
what the accounts allow; a transaction that rolls back after the gateway gave money
back leaves a `GiveBack` that no `Debit` follows (section 5, item 12).

`ChatProofs` proves, for every number of conversations, messages, sockets and
handlers and every recheck interval:

* `ChatTypeCorrect`: `Spec => []TypeOK`, with the shape of what a handler carries
  at each step;
* `RevokedAreDeaf`: `Spec => []RevokedHearNothing`. `ListenInv` adds that a memo
  never outlives the loss of access by more than the interval (`Memos`), that
  whoever is in a conversation's room is in the operators' room, the only one the
  sweep looks at (`Rooms`), that an operator on its way into it had access at this
  very moment (`Entering`), and that everyone the sweep is done with may hear
  (`Swept`).

and, in the same generality:

* `MissesNothing`: `Spec => []NothingMissed`. `MessageInv` gives each message one
  handler until it is fanned out (`Own`, `Filed`, `SavedFirst`); `VisitorInv` says
  that a conversation handed over is a room the visitor is in, and that a list
  on its way to a visitor lacks only what crossed it (`InRoom`, `Received`,
  `ListsComplete`);
* `BadgeSafe`: `Spec => []BadgeKeepsWaiting`. The property alone is not inductive:
  the badge is cleared before the thread is read. `BadgeInv` counts only what no
  operator's list under way holds (`Listed`) and lets the badge lag only while an
  operator has yet to read its list (`Coming`).

`OfficeProofs` proves, for every number of requests, links, eras and steps of a
code, of desks, vacancies and attempts, of replicas, records and edits of the
policy, of nights and of dumps kept:

* `AccountsSafe`: `AccountsSpec => []SignInEnds`. What makes it inductive is what
  a request that has read the row and not yet written still relies on: a link
  claimed is its own (`LinkHeld`, `ClaimsApart`), a code checked is later than the
  last one noted (`CodeHeld`, `RowSound`), and the version it will put in a token
  belongs to the era it began in (`SignInHeld`, `TokensSound`);
* `PostsSafe`: `HireSpec => []PostsSucceed` and `AddressesSafe`:
  `HireSpec => AddressStays`. A post is no more attempts on than rows have come
  in before it (`PostSound`), and an edit carries the address its role has
  (`EditSound`); `RolesStay` says what no step undoes;
* `PeriodsSafe`: `RetentionSpec => []PeriodsKept`. What a run may erase is
  older than the cut-off it computed when it read the policy (`CutOffOld`), the
  steps before it left nothing due (`DraftsGone`), and a batch shorter than its
  limit was the last, of the drafts (`LastDrafts`) as of the bookings (`LastBatch`,
  `NothingLeft`); rows another replica is deleting are its own (`DoomKept`);
* `BackupsSafe`: `BackupsSpec => []BackupsSound`. `Nightlies` ties the newest good
  line of the log to a whole dump for as many nights as dumps are kept,
  `Monthlies` gives each month kept its one copy, `Tonight` says what of it is on
  the disk at each step a kill may follow;
* `OfficeTypeCorrect`: `OfficeSpec => []OfficeTypeOK`.

`VisitProofs` proves, for every number of requests, participants and days, any
menu of options with its prices, any rides with their limits, any number of
sweeps, currencies and readers:

* `WritesFollowed`: `VisitSpec => []WritesAccounted`, and `WaiversHold`:
  `VisitSpec => []WaiversCount`: edits that carry a stamp, and participants whose
  signatures neither overlapped nor failed half-way. In `VisitInv` a drawer's stamp, if it is still
  that of the booking, belongs to the row the drawer shows (`DrawerSound`; the
  stamp only grows, and with every write); a gate nobody overtook still sees
  the booking as it is (`GateSound`); the trail adds up to the row but for the one
  entry a check-in owes (`TrailSound`, `AuditsApart`); and each participant's
  signatures are one current row, the latest, with at most one more on its way
  (`LatestSound`);
* `PricesAreRight`: `PriceSpec => []PricesSound`. `PriceInv` adds that no
  line is above its party with the most under-6s any party brings (`Within`;
  `visit_infants` shows why no less), which every writing path keeps and every
  amount below zero would need; the lemmas on `explorerPass`, `entryCoverage`
  and `adjustmentAmount` show that a discount never exceeds what it is taken off;
* `GateKnows`: `GateSpec => []GateTold`. The invariant is what the request's
  checks let into a booking; the rest is about the rules themselves, for any
  limits and any lines;
* `RemindedOnce`: `RemindersSpec => []OneOfEach`. A message without its mark is in
  the hands of the one sweep that is about to write it (`GuestSound`);
* `ShownTrue`: `DaySpec => []ShownIsTrue`, and the action property `ShownForward`:
  `DaySpec => ShownNeverBack`. `RatesInv`: no next fetch is due before the retry
  period after the last, the bank's page is never behind the table, and a table of
  several dates is asked for again after the retry period.
  `ForecastInv`: at most one fetch of the weather is under way, and none is
  older than the view kept. `BoardInv`: what a save that nothing crossed will write
  is the board but for the activities sent;
* `DayTypeCorrect`: `DaySpec => []DayTypeOK`, from all of them.

`PartsProofs` and `ToldProofs` are about what `MCTold` puts side by side, for any number of bookings,
parties, operators, messages, tables, conversations, rows and nights. A step moves
one part and leaves the variables of the others alone (`OneMoves`), so each module
has an invariant of its own, with three facts: the initial states satisfy it
(`...Initially`), every step keeps it (`...Step`), and it says what the module
promises (`...Safe`). `PartsProofs` has those of eight modules and the lemmas on the
mappers' picking, sorting and grouping, `ToldProofs` those of `Till`, `Lists` and
`Catalog`, and the theorems:

* `ReportsBalanced`: `ToldSpec => []ReportsBalance`. `TillInv`: what a booking was
  paid is what its entries of the trail moved, and what a transfer still owes the
  trail, for every booking no stale save spoiled (section 5, items 2 and 5). That the reports agree follows from the types by grouping one sum in
  different ways (`SumGroups`, `SumTable`);
* `OffersHonestly`: `ToldSpec => []OffersHonest`. `OffersInv`: of a place that was
  never free since the page began, what the page has counted is at least what is
  booked now, and the whole capacity after the kind's second read, because guests
  move only from a hold to a booking. `CouponsInv`: no row in an operator's hands
  has more uses than there are bookings, and what an operator alone is about to
  write is the switch and nothing else (a use counted between its two readings, and
  a code created twice, are left out: section 5, item 8);
* `GuestsHold`: `ToldSpec => []GuestsTold`. `MessagesInv`: a change not yet told is in
  the hands of a sender who read it or has yet to read. `PhotosInv`: uploads past
  their count and photos kept stay within the limit and one per request.
  `TablesInv`: a status the guest does not know is in an e-mail on its way or in the
  hands of the one request that will send it;
* `BoardHolds`: `ToldSpec => []BoardTold`. `ThreadInv`: a conversation no two handlers
  crossed is on the tab as it is, or one handler owes the tab that (`Owed`); two
  handlers never answer the same visitor's start (`OneFor`), except where both began
  at one moment;
* `PagesHold`: `ToldSpec => []PagesWhole`. `ListsInv`: a row that stays was seen, or
  more rows are ahead of it than the pages have taken. Ranks are shown to be the
  numbers from 0 on, each once, so that a page is a piece of the order;
* `ScriptsHold`: `ToldSpec => []ScriptsSafe`. `BootInv` says of each file the script
  has still to apply what the database has by then; `OffsiteInv`: tonight's copy is
  complete before anything is deleted, and what will be deleted is past its days;
* `PagesFaithful`: `ToldSpec => []CatalogFaithful`, for any document of the types of
  `catalog.types.ts` (`Sections`), any products and prices. `CatalogInv`: but for the
  rates of experiences, the tables are those of what they were given
  (`TablesOf(content)`, `Seeded`): the document without what the generator drops
  (`Seedable`), with the base prices, menu notes and films written since
  (`Repriced`, `MenuSeeded`, `FilmSeeded`); keys stay distinct, and what a build nothing fell into has read is each
  table's rows, all of them, in an order its query allows (`Reading`). The
  argument is about places: in a sequence where no row comes before one it must
  follow, the rows of one list are picked in the list's order (`Grouped`,
  `WholeTable`), because the number of rows ahead of each is fixed (`RanksFill`,
  `PickedAt`); the mappers' filters and sorts are written by counting for that
  reason, as nothing could be proved of recursive ones. Sections are put together
  from that, one lemma each (`ActivitiesKept`, `RestaurantsKept`, `PacksKept`,
  `PriceListKept`, ..., `PageKept`); the galleries, in the order of their first
  photos, are the document's up to a renaming of those without any
  (`GalleriesAre`);
* `ToldTyped`: `ToldSpec => []ToldTypeOK`, from all of them.

`SumsProofs` holds the lemmas on sums over finite sets those proofs need: a sum
does not depend on the order (`SumTake`), loses or gains one term (`SumAdd`), is
at least any part of itself (`SumPart`), is the sum of its groups' sums
(`SumGroups`) and the same by rows and by columns (`SumTable`). No induction
theorem of the library can be used for them (they take an operator as a parameter,
which the installed provers cannot instantiate); each is an argument
about a smallest set on which it fails (`SmallestSet`).

The assumptions are those of the modules (`PlacesAssumption`, `TillAssumption`
...), which TLC evaluates on every run: finite sets where something is
counted, bounds in `Nat`, markers that are not members, keys that the database
makes unique, and the shape of the tables that are constants here, as the
validated requests and the entities give it: prices and limits are numbers from
0, a party has an adult (`@Min(1)`), a line asks for somebody.

Model-checked only:

* liveness (`EveryRequestEnds`, `PendingSettles`, `TicketArrives`): TLAPS does not
  do fairness or `ENABLED`;
* what the runs that expect a violation show.

## 5. Where the code does less than its comments say

Found while modelling. Four are runs, with a finding each in `PROJECT.json`:

* a session is counted per date and locked per arrival slot (`places_session`);
* a payment that the sweep or a declined attempt settled is not credited when
  its money arrives (`pay_late`);
* a line that counted the under-6 stays, and is charged, when the number of
  infants alone goes down (`visit_infants`, `staff-bookings.service.ts:356`
  against line 371);
* a manual adjustment sent with a coupon code overrules the coupon's offer while
  its use is consumed (`visit_coupon`, line 468 against 485).

Bookings, prices, desk:

1. An edit that only changes lines is saved without the capacity check
   (`touchesPlaces` is false), and two variants of one experience in a request
   are each checked alone. `ActivityWithinCap` is therefore stated for granted
   rows with at most one line. A hold of a per-unit line sent without units is
   checked as 1 (`capacity.ts:196`) and then counted as 0
   (`bookings.service.ts:242`).
2. A postponed booking checked in at the gate takes its place back without the
   check; the same save writes back columns changed since it was read (a move, a
   cancellation, a payment). A payment put back parts what the booking shows as paid
   from the trail, and the day's ledger from the balance: `LedgerTellsPaid` leaves
   such bookings out. `SlotWithinCapacity` speaks of granted rows,
   `pay_money` runs without the gate.
3. A resend that queued behind its first attempt can be refused as full: its own
   booking already counts. A booking that read the calendar before a closure may
   commit after it.
4. A guest's change is allowed on a status read before the lock: a booking
   cancelled or arrived meanwhile is changed all the same. `guestCancel` writes
   back the staff note it read.
5. `createForGuest` repeated with its key records the payment a second time, and
   saves the booking it read whole: a payment in between goes back, and a transfer
   is recorded for a booking already paid (`LedgerTellsPaid` leaves both out). An edit leaves `depositAmount` and passes no
   visit date to the price.
6. Two overlapping signatures of one participant leave two current waivers:
   superseding and inserting are no transaction. An arrival patch that grows the
   party is not checked for the new guests' waivers.
7. The page of places misses those of a hold that became a booking between its
   two counts.
8. `setActive` writes back a use counted between its two readings. Of two
   creations of one code the later overwrites the earlier; a code sent again
   with an edit consumes a second use.
9. Reports call postponed bookings expected, while the comment says "confirmed
   (not yet arrived)".

Payments, messages:

10. Two checkouts opened for one booking may both capture the balance; a deposit
    may exceed what is left.
11. The ticket sent on settlement is read after one `setImmediate`, perhaps before
    the commit, and then shows the booking as unpaid.
12. The gateway's refund happens inside the database transaction: a lost answer or
    a restart rolls the record back.
13. After a declined card nobody sends the ticket (`TicketArrives` excepts it).
14. A slower message of an earlier change may arrive last with the older ticket.
    A reminder goes out for a booking cancelled or moved since the list was read,
    and none follows a move. The number of photos in the message is counted after
    the set was marked.
15. Overlapping uploads exceed the photos' limit, by less than one per request.
16. The desk's list of tables takes the 300 soonest of all time: rows are never
    deleted, so once 300 are past the upcoming ones are not listed.

Chat, staff, HR:

17. `visitor:hello` reads the thread before it enters the room: a reply fanned out
    in between reaches the visitor only with its next hello. Two hellos of one key
    at once open two conversations; a message sent to a conversation closed
    meanwhile is counted but no open list shows it.
18. `conversation:updated` carries a snapshot and may overtake a newer one. A read
    over REST clears the badge without telling other tabs; a new conversation is
    not listed before its first message; a file without a caption is pushed
    without a preview.
19. Two overlapping uses of one code are both let in. A manager's whole-row save
    undoes a password or a second factor changed meanwhile.
20. `deleteVacancy` counts, then deletes: an application saved in between goes
    too. An edit re-inserts the role deleted meanwhile.
21. A paged walk skips a row that an edit moved to an earlier page.

Scripts, settings, caches:

22. `savePolicy` and the live board write whole rows read before. A failed
    retention run counts as the last one. `retention.service.ts:43` says there is
    no password-reset table yet; there is one, and it is not cleaned.
23. A month's copy cut short is never repaired; partial dumps of failed nights
    count among those kept.
24. A currency whose row the bank has not posted is shown under the new table's
    date with its older rate, or with the bundled one if it never had another
    (`fx.service.ts:156`), until the bank is asked again a retry period later. A slower build of the catalog overwrites a newer one.
25. `db-init --reset` "drops every table" (`db-init.js:24`): those the migrations
    made stay and lose their foreign keys. `DEPLOYMENT.md` says only quote requests
    survive a new seed; coupons, holds, drafts and products do too. Migration 002
    runs on every deploy, so an aborted one leaves the serving release without the
    rows of 026. Two scripts at once have no lock between them.
26. The seed generator drops one restaurant, galleries' films, and the menus' group
    notes and allergens (`generate-seed.js:127`, `:173`), all of which `data.json`
    holds. Migrations 027 and 029, which every run of `db-init` applies, write the
    notes, allergens and films back for the rows they name.

## 6. Not modelled

* Quotes and site pages: single inserts and text. Waiver terms, e-mail and PDF
  layout, languages: wording.
* Migrations that insert, delete or reword content rows: `Catalog` has those that set
  prices, menu notes and allergens, and films.
* Validation of requests beyond what the models branch on; roles' rights and the
  throttling of routes; hashing, signatures and encryption; bytes of files.
* The carriers, the payment gateway, the bucket, the scratch server of restore
  tests: external, they answer either way.
* Statistics of HR, the triage of quotes, the visitor's own unread counter.

## 7. Plan

Done: every component that keeps state is modelled and checked, and every safety
property that a passing run checks is proved. Next, in this order:

1. group deposits and products' validity dates in `Prices`, with `PricesAreRight`
   carried over to them;
2. the abstract board of `Threads` (a tab shows the table) as a specification that
   `Threads` implements.
