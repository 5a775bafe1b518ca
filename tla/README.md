# OpenFly: TLA+ specifications

OpenFly sells flights: users search fares at the Muadi gateway, hold seats, pay by
bank transfer through a SePay QR code, and let *hunts* scan for a fare and hold it for
them. These specifications model the API (`src/apps/api`) and the parts of the web client
(`src/apps/web`) that decide something: who writes which row, key, job or copy, in which
order, and what is left when one of them fails. TLC checks each on small instances; TLAPS
proves the safety of payment, the session pool, the hold endpoint, the hunts, the sign-in,
the search, the way of a fare to its booking, the notifier, the small services and the
client's copies for every value of their constants, as far as "The proofs" says.

`PROJECT.json` says, definition by definition, which lines of the source a module models,
and lists the runs, the mutations each property is known to catch, the findings, the
hazards and the theorems.

## The system

Three kinds of processes share one PostgreSQL database and one Redis: API processes
(HTTP), worker processes (BullMQ jobs) and, inside both, the NestJS crons. Browsers keep
copies of what the API answers, in several tabs at once. There are no locks in memory that
span any of them; what keeps them apart is transactions, conditional updates, unique keys,
`SET NX` and the job queue.

| Part | State | Operations | Interacts through |
|---|---|---|---|
| Booking payment (`payment/`, `scheduler/`, `admin/admin-booking`) | `Booking.status`, `BookingPnr.ticketNumber`, `PaymentIntent`, `BankTransaction`, `Payment` | create a QR code, webhook of the bank, expire intents, expire bookings, mark ticketed / issue failed | transactions on the same rows; the bank repeats webhooks |
| Payment screen (`screens/payment`, `data/usePayment`) | the QR and the status a tab shows, the answer Redis replays | open, poll, leave, reload | the two endpoints of payment |
| Muadi session pool (`integrations/muadi/*pool*`, `*maintenance*`) | `MuadiSession.isActive, isBusy, failureCount, lastUsedAt, updatedAt` | acquire for real-time / hunter, release, reactivate stale | called by every search, hold and scan, in API and workers |
| Muadi client (`muadi-client.service`) | tokens in the row, a copy of them per process | login, refresh, request with retries | writes rows of the pool while a request holds one |
| Booking hold (`booking/`, hold of `real-muadi.provider`) | idempotency key in Redis, booking with passengers and PNRs | hold | gateway creates PNRs; the pool lends the session |
| Flight search (`flights/`) | cache in Redis, in-flight promises, offer snapshots | search | pool; offers are read by hold |
| Mark-up (`pricing/`) | rules, a 60 s copy per process | load, quote | search and hold |
| Way to a booking (`data/useResults`, `screens/booking`, the two stores) | results, the flight and the passengers picked, the mutation of a screen | search, pick, go back, turn, pay | search and hold |
| Hunts (`hunt/hunt.service`) | `HuntRequest.status, failureStreak, autoHold*` | create, pause, resume, cancel, run now | enqueues `hunt.run` |
| Hunter, auto-hold (`hunter-run`, `hunter-diff`, `hunter.processor`, `auto-hold`) | jobs in BullMQ, a snapshot per run, `HuntRun` rows | scan, compare, announce, count a failure, hold seats, reschedule | search, hold, notifier |
| Hunt pages, inbox (`data/useHunts`, `data/useInbox`) | copies of the server's rows | show, create, pause, resume, delete; mark read | hunts API, notification API |
| Notifier (`notifier/`) | notification rows, `channelsSucceeded`, dispatch jobs | notify, dispatch with retries | called by hunter and auto-hold |
| Authentication (`auth/`, `lib/api/client`, `stores/auth`), admin users | refresh tokens, OTP challenges, `User.blocked`, localStorage | sign in, rotate, revoke, block; request / verify OTP | tabs of a browser share its store |
| Vouchers, profile | claims; saved passengers and VAT profiles | claim; edit | each other's rows only by id |
| Adapters, guards, admin client | none of their own | | |

What is hard in it, and hardly reached by its tests: transactions that decide on a row
they read and write it later; sequences of statements that are no transaction at all;
two cron processes; deliveries and jobs that come twice; gateway answers that come late;
keys that expire under their holder; processes that die between two statements; answers
that reach a browser after it has asked for something newer, or a screen that is gone.
The `hazards` of `PROJECT.json` list each one at its line with the properties about it.

What makes each part correct: money is credited once, to a booking that got exactly its
price, and a booking that expired has no live QR code; an agent session serves one request
at a time, and a cut-off session comes back; one hold per key, and an answer always names a
real booking; the flight that is booked is the one that was picked, at the price shown; a
hunt that says HUNTING is scanned again, its automatic holds are counted and what it
announces is true; a notification reaches its channel, once if it can be; a refresh token
rotates once and a browser is not signed out by its own tabs; a challenge is verified at
most once within its attempts; vouchers do not exceed their quantity; a page shows what the
server has once nothing is under way.

## The modules

| Module | What it is |
|---|---|
| `BookingPayment` | the payment transactions under READ COMMITTED |
| `PaymentLedger` | abstract: a transfer is decided once and credited to one booking |
| `BookingLifecycle` | abstract: the statuses of a booking and their order |
| `PaymentScreen` | QR codes on several screens, the replayed answer, polling |
| `MuadiSessionPool` | the pool, statement by statement, with what the client writes to its rows |
| `SessionLease` | abstract: a session passes from nobody to one holder and back |
| `MuadiTokens` | the token pair of a session: row, copies of two processes, gateway |
| `BookingHold` | the hold endpoint: key in Redis, gateway with retries, persistence |
| `FareOffer` | operators: raw flights to offers, and back to the flight and fare to book |
| `MarkupEngine` | operators: which rule applies, and the price it makes |
| `HeldSeats` | operators: the price and the deadline of what the gateway booked |
| `MockMuadi` | operators: the gateway's stand-in |
| `FareJourney` | one price from the gateway's answer to the booking (uses the four above) |
| `FlightSearch` | cache, shared fetch, snapshots and rule copies, with their ages |
| `BookingFlow` | one tab from the results to the payment, with history, reload and turning |
| `HuntLifecycle` | hunts, their requests, jobs and runs, auto-hold |
| `HunterScan` | what one run sees, compares, stores and announces |
| `HunterDesk` | the pages of the hunts: list, details, commands, copies |
| `NotifierDispatch` | notification rows and dispatch jobs, quiet hours, Telegram |
| `WebInbox` | the inbox with optimistic marks |
| `AuthSessions` | refresh tokens, their requests, tabs and stores |
| `SessionChain` | abstract: the tokens of a sign-in have one live end, and end once |
| `OtpChallenge`, `VoucherClaim`, `ProfilePrimary` | one-time passwords; claims; the primary record |
| `BookingPaymentProofs`, `MuadiSessionPoolProofs`, `BookingHoldProofs`, `HuntLifecycleProofs`, `AuthSessionsProofs`, `FareJourneyProofs` | theorems about the module of that name |
| `ServicesProofs` | theorems about OtpChallenge, VoucherClaim, ProfilePrimary, MuadiTokens, WebInbox, HunterDesk, HunterScan and BookingFlow |
| `TimedServicesProofs` | theorems about FlightSearch, PaymentScreen and NotifierDispatch |
| `MC*` | the instances TLC checks: model values, functions on them, symmetry |

The parts meet in their environments. BookingPayment starts from the bookings BookingHold
persists, and PaymentScreen sees of it whether the booking is open, paid or expired. A run
of HuntLifecycle takes a session as a client of MuadiSessionPool does, its Hold is a
request of BookingHold without a key, and what it finds is HunterScan. FareJourney composes
search, snapshot, mark-up, hold and pricing, since a price goes through all of them. Beyond
that the parts share no state, so each is checked by itself and what the other side may do
is a choice of the environment (no headroom, a hold that is rejected, an exception).

`MCServices`, `MCServicesLive` and `MCBookingHold` put such parts into one run: the variable
`focus` says which of them a behaviour is about, the others keep one initial state. This is
a union of their state graphs, not a composition, and shows what separate runs would.

### Payment

*BookingPayment.* A handler is one interactive Prisma transaction. It is cut where another
one can get in between: at the statement that reads the booking (`CreateIntentRead`,
`WebhookRead`, `AdminRead`), at a bulk update whose statement snapshot matters
(`CreateIntentSweep`), at an update that locks a row before the handler counts
(`ExpireIntentLock`), and at the commit, which makes all writes visible. `txn[s]` is what
the open transaction of connection `s` has read. `Abort` is a rollback of any kind: the
unique `dedupeKey`, a deadlock victim, Prisma's timeout, a dying process.

- Rows that `expireIntents` has updated and not committed are `Locked`; other row locks
  only delay a commit, and PostgreSQL re-evaluates the conditional updates then, which
  the commit actions do (`StillPending`).
- `expireBookings` is one action: its first statement locks the booking, and nothing that
  could create an intent commits before it does. `expireIntents` is two, because
  its count reads rows that another process may be committing.
- The crons' `findMany` only picks candidates, each of which the conditional update checks
  again; it is not a step. The deduplicating read of the webhook and the read of the
  intent are one step, since a row that appears in between makes the insert abort.
- The idempotency cache in front of the controller is in PaymentScreen. `cancelIntent` has
  no caller. Fresh order codes are partitioned among bookings beforehand (`BookingOf`), which
  loses nothing as they are interchangeable; `NoRef` stands for text without a code and for
  an unknown code; the ticket numbers of a booking are one Boolean.

*PaymentScreen.* Tabs open the payment of one booking, are answered a new QR or the replayed
one, and poll. The booking's life is three actions (`TransferArrives`, `AdminIssues`, to
ticketed or to issue failed, and `DeadlinePasses`) and the crons (`FiveMinutes`); a tick is
five minutes, the time an answer is replayed. Polls pause in a hidden tab, so any of these
may come before the next answer. A read or write that Redis fails counts as a miss.

### Gateway

*MuadiSessionPool.* No operation of the pool is a transaction. `CountFree`, `FindFree` and
`Lock`/`LoseRace` are the three statements of an acquire, `ReleaseFailure` and `Trip` the
two of a failed release; `TokenFresh`, `Answered`, `RefreshFails` and `Login` are what the
Muadi client writes to rows in between, `Lose` a death or a database that is gone before
release. `updatedAt` is kept as the age of a row since its last update, up to the cooldown;
failures saturate at the breaker's limit; `lastUsedAt` is the order `notLater`, with
the rows never used last, as PostgreSQL sorts NULL in ascending order.

*MuadiTokens.* A pair of tokens is a number, and the gateway accepts the pair it issued
last (an assumption about the gateway). `Ensure`, `Refresh`, `Login`, `StoreTokens`,
`SendAccepted` and `SendRefused` are the awaits of a call; calls overlap within a process
and between two. `overtaken` is history: whose copy another renewal has outdated.

*BookingHold.* A request of the endpoint reserves its key (`Reserve`), or finds it taken
(`FindTaken`, `ReadCached`), or loses Redis (`ReserveFails`, with or without
the effect). The provider's hold is `CreateBooking` ... `Reconcile`: a timed-out
create-booking is sent again while attempts are left and stays `stray`, so that the gateway
may still execute it (`GatewayBooksLate`); an HTTP error that can be read is not retried
(`HttpError`); an answer that cannot be read, as the page of a proxy, or cannot be processed, as
when the row of the session is not written, is sent again like a timeout (`Unread`: the body is
parsed before the status is looked at); a refused token or a demanded verification sends it once
more. `Persist` is the insert, `Record`/`RecordFails`
the answer under the key, `Clear`/`ClearFails` the DEL of the error path, which does not
look at the owner. `Tick` is the expiry of keys. `mishap[r]` records what went wrong around
a request, only for the properties to speak of it. A create-booking makes one PNR;
what is booked and at which price is FareJourney.

### Fares

*FareOffer* translates the normalizer with its fallbacks (which of several optional fields
names the airline, the number, the class, the time, the fee) and the provider's search for
the flight and the fare of a hold, which reads the same raw record by other rules.
*MarkupEngine* is the engine in full, *HeldSeats* the price and the limits made of the
gateway's booking, *MockMuadi* the stand-in with its four flights. *FareJourney* strings
them together: `Search` (one or both airlines answer, the rules load or not, the airports of
the route can be read or not, the snapshots are written or not), `Pick` by a customer or the
hunter, the hold's fresh search, the booking, the questions about its price, the row, whose
flight number `buildFlightNumber` makes by a rule of its own (`FiledNumber`). Meanwhile the
gateway's answer or the rules change, the snapshots lapse or are replaced by a search for
other passengers. A search is one step: nothing it awaits writes what it has read. The
gateway is taken to list the reservations of one booking together.

*FlightSearch* is about time and sharing instead: prices are the version of the rules they
were marked up by. Ages count ticks of 60 s and saturate at a horizon. A process keeps a Map
of promises; a search that finds one awaits it, or has its result at once when it is settled, and
a fetch that is over takes its promise out.

*BookingFlow* has the routes, the history of the browser, the two stores, the mutation of
each press of the button and the server, which works on a call whatever became of its
screen. Phones ask for passengers on a page of their own, desktops on the review.

### Hunts

*HuntLifecycle.* A user whose requests (`call`) and runs (`run`) read a hunt once and write
to it by id later: what a run knows is its snapshot. Every awaited step of
`HunterRunService` is an action, `Throw` is an exception of any statement, `JobFails` one
inside the error handling (the job has one attempt), `WorkerDies` a stalled job that BullMQ
gives back or fails. `stranded`, `overlap` and `uncounted` are history, kept for the
properties. A deleted hunt keeps its name with status "deleted". The 30 s lock of run-now
only makes calls rarer, so a call may always get through.

*HunterScan* is the content of a run: which days it searches, the fare it keeps of each
offer and the flight it keeps of all, the diff with the run before, the historical low, the
kind of notification and the new status. One run at a time; its copy of the hunt is from
its start, and the owner may edit or resume meanwhile. The list of items is a set, each item
with the place that orders it.

*HunterDesk* has the query library by what the code asks of it: a copy and a request per
query, invalidation (on screen it drops the request and sends another, unless it is the
first one, with no copy yet, which goes on; off screen it marks the copy), and commands that
the server executes in steps of their own. `drifted` are the copies that may be behind for a
reason the code leaves open.

### Notifications

*NotifierDispatch.* The row, then its job; a job is retried when it throws and taken again
when its worker dies. `Sending` and `Writing` are separate, so the message may be out and
the row not say so. Quiet hours are computed over a day of `Day` ticks, as
`quietHoursDeferMs` does over minutes. E-mail, push and Zalo are stubs that dispatch skips.
*WebInbox* is the page, its optimistic marks and their roll-back. A tap on a notification marks it
and leaves the page (`LeaveInbox`), so a mark may end off screen, where invalidating only marks the
copy and the answer of a request already on its way takes the mark off; opening the page fetches a
`stale` copy. `behind` says that the copy may be old for such a reason.

### Sign-in

*AuthSessions.* Requests (`handler`) create, rotate and revoke tokens in the statements of
`refresh-token.service`; tabs share a store; a call that got a 401 joins the refresh under
way in its tab or starts one. `mishap` records what went wrong around a store (an expiry, a
block, a lost answer, two requests at once). *OtpChallenge* has the four awaits of a
verification; the service is complete but no controller calls it. *VoucherClaim* and
*ProfilePrimary* are the claim and the transaction that makes a record primary.

## The runs

Every instance is the smallest in which the interesting cases happen: two parties wherever
two can race, and one unit more of time, amount or attempts than the case needs.

| Run | Instance | States | Shows |
|---|---|---|---|
| `payment_concurrent` | 1 booking, 2 codes, 1 transfer of 1..3 at price 2, 2 sessions, time to 3, fairness | 54,753 | money is safe whatever overlaps: settled means paid for, no live code after expiry, PaymentLedger refined; every booking closes, every code dies |
| `payment_serial` | 2 bookings, 3 codes, 2 transfers, 1 session | 489,167 | what holds when transactions do not overlap: one live code, PAYMENT_PENDING means a live code, review only if closed, no double charge, BookingLifecycle refined |
| `payment_reopened` | 1 booking, 2 codes, 2 transfers, 2 sessions | violation | a PAID booking goes back to PAYMENT_PENDING |
| `pool` | 2 rows, 2 clients, 1 reserved, limit 2, cooldown 1, 1 death, fairness | 198,778 | exact account of "busy", SessionLease refined, rows come back, the breaker opens |
| `pool_lazy_login` | a seeded row labelled other than its login row | violation | the acquired row never gets a token |
| `hold` | 2 requests, 1 key, lifetime 1, 2 attempts, 1 death; then the hunts: 1 hunt, 2 workers, 1 request at a time, 1 hold allowed, 1 crash | 1,502,864 | when holds of a key overlap or book twice, which PNRs a booking misses;  a HUNTING hunt is scheduled, holds are counted, when the limit is exceeded |
| `hunt_live` | the hunts of `hold` without crashes, fairness | 174,128 | a HUNTING hunt keeps being scanned, and failures add up to a stop |
| `auth_tabs` | 2 tabs of one browser, 2 tokens, 2 calls, 2 auth requests, 1 trouble | 231,840 | one live end, SessionChain refined, a browser keeps what it has unless something went wrong |
| `fares_shown` | 6 answers of two airlines and the mock, 2 sets of rules, 2 searches, 2 pairs of limits | 751,290 | the price shown is charged, what is on sale can be held, the right flight is booked and asked for by the right leg, reservations are covered |
| `fares_reviewed` | the instance of `fares_shown` | violation | the price on the review is not the one charged |
| `services` | nine parts one by one, below | 1,525,146 | see below |
| `services_live` | four parts one by one, below, fairness | 199,135 | see below |

Why these are enough. A race takes two: a handler's read against another one's write; for
payment, pool, hold, hunts and sign-in the theorems cover any number. Two codes and two
transfers give the double payment, amounts 1..3 an under-, exact and overpayment, times to 3
a code and a booking that expire before and after one another. The limit 2 of the breaker
separates one failure from the tripping one. Two attempts are one abandoned create-booking
and one that is answered; three give 17.7 million states and the same answers. The hunts
with two requests at a time (5.2 million) did, too. The answers of `fares_shown`
(`MCFareJourney`) are chosen for what the code tells apart: a fare known by its class, its
details or its basis only, a sold-out fare in two ways, no cabin, prices as totals, no
route, a day without a moment, two flights of one number, a date nobody can read; every read
of the airports may fail; the rules for what the engine does: scope, tier, priority, age,
minimum, maximum.

`services` explores, each alone:
- HunterScan (3 runs, days cut at 2): `RunTellsTheTruth` — a hunt says FOUND for a fare
  that meets the target and is on sale, and what it stores as its difference adds up.
- OtpChallenge (2 overlapping requests of 3, 2 challenges, 2 attempts): `OtpLimitsHold` —
  n overlapping verifications gain at most n - 1 comparisons, and n acceptances.
- VoucherClaim (3 users, 2 requests, 1 voucher): `OverIssueMeansOverlap`.
- ProfilePrimary (3 records, 2 transactions): `LoneWriteHeals` — two overlapping writes
  leave two primaries, and the next one that is alone leaves one.
- MuadiTokens (2 processes, 2 calls): `StaleMeansOvertaken` — a process keeps a dead pair
  only if another renewal crossed its own or a pair was lost.
- WebInbox (2 notifications on a page, 2 marks, 2 failures) and HunterDesk (1 hunt, 2
  commands, 2 visits, 1 upset): `PagesAreTrue` — once nothing is under way, what is on screen
  is what the server has, but for the cases `behind` and `drifted` name.
- PaymentScreen (2 screens, 2 codes, 1 flaw of Redis): `OfferedQrIsLive`.
- BookingFlow (1 flight, 2 passengers, 2 presses, 5 pages of history, 1 turn or reload):
  `UnseenMeansLeft` — a booking whose payment never opened has an explanation.

`services_live` explores AuthSessions with one tab (`EveryCallEnds`), NotifierDispatch with
1 note, 2 jobs, 2 attempts, 2 mishaps and quiet hours across midnight
(`MessagesAreAccountedFor`, `EveryNoteIsServed`), FlightSearch with 2 searches of one
process (`AnswersAreRecent`; `ErrorsEnd`: once fetches stop failing, no search is told an old
failure) and PaymentScreen with one screen (`PaidIsShown`, unless the booking is marked as not
issued first). A second note or process doubles what does not interact: notes share only
the preferences, processes only what Redis and the rules hold, which change freely here.

### What the code does less than it says

The three violation runs:
- A request for a QR code checks the booking in its snapshot and then updates it
  unconditionally, so a payment that commits in between is overwritten
  (`sepay.service.ts:159`).
- `login` writes the tokens to the row labelled after the account, whichever row the caller
  holds (`muadi-client.service.ts:84`), so a pool row with another label never gets one.
- `ReviewedPriceIsCharged` (FareJourney): the review shows the offer's cheapest price, the
  hold is for its first fare (`adapters.ts:40`, against its own comment at line 36).

These statements are kept beside the properties of their modules; no run checks them, as the
code refutes them:
- `ExpiredIsNotPaid` (BookingPayment): a webhook that read an open booking pays one that the
  cron has expired meanwhile (`sepay.service.ts:378`).
- `HuntersLeaveHeadroom` (MuadiSessionPool): counting free sessions and locking one are
  separate statements (`muadi-session-pool.service.ts:49`).
- `MoneyTurnsTheScreen` (PaymentScreen): the screen promises to change when the money arrives
  (`PaymentSePay.tsx:218`); a PAID booking marked ISSUE_FAILED before the next answered poll
  counts as not paid (`usePayment.ts:24`).
- `AutoHoldAtSeenPrice` (FareJourney): a changed price is stored, not rejected.
- `ProgressMeansFalling` (HunterScan): "the price is falling" is also said when it is not.
- `ReviewHasPassengers` (BookingFlow): a review reached by turning a desktop into a phone, or
  by going back after a reload, offers to pay for nobody.
- `DeletedStaysDeleted` (HunterDesk): a pause or a run that read the hunt before it was
  deleted writes over the deletion.

Met while modelling:
- *Payment.* Two admin decisions that both read PAID are both accepted, the later one wins
  (`admin-booking.controller.ts:82`). An answer with a QR is replayed for 300 s, although a
  comment of `usePayment.ts` has a re-mount reuse its intent; it is replayed although the
  booking has expired or was paid meanwhile, or another request has swept the code. The
  countdown of a QR goes on after the hold's own deadline.
- *Pool.* A real-time request that loses the race for a row fails although others are free;
  a row never used sorts last and stays idle; one failed request can count several failures.
- *Hold.* An error page of a proxy (`muadi-client.service.ts:393`) makes a second
  create-booking, before the first is known to have failed. The row's flight number has its
  carrier twice when the answer's number has it once (VJ137 is stored as VJVJ137,
  `booking.service.ts:306`). PNRs made for a hold that fails afterwards are cancelled by
  nobody. A window that is too short is refused only after the seats were taken.
  `mapHoldError` (`booking.controller.ts:237`) tells a missing price as a changed one, and
  several refusals end on the screen that offers to repeat them. A fare without a class of
  its own is requested without one. A phone lets a child alone be sent, which the API
  refuses.
- *Search.* A failed read of the airports (`markup.service.ts:97`) switches the rules for
  domestic or international flights off, so the hold may charge another price than the
  search showed. The review shows one price for any number of passengers, while the step
  before multiplies (`BookingPassengerMobile.tsx:97`, `BookingReviewMobile.tsx:17`). Web
  searches ask for one adult whatever the form says. A search that times out is only told
  after the query library has repeated it.
- *Hunts.* Creations that count before either inserts exceed the tier's quota, resume does
  not count and does not reset the failure streak; a run overwrites the status a user wrote
  since it began; pause and resume, or run-now, leave a second chain of jobs. A closed fare
  that reports seats counts as on sale when nothing else is. Nothing writes EXPIRED, and an
  expired or cancelled hunt is shown as paused, with a resume that does nothing
  (`adapters.ts:97`).
- *Web client.* An inbox that is left while an answer to its list is on its way stays old for a
  minute; a first list request that was read before a change is kept as it is; an inbox whose first
  load fails shows its skeleton for good, since `InboxRoute.tsx` asks for data before it asks for
  the error. Deleting a hunt does not invalidate its own page. Invalidating a hunt's copy
  off screen while its request is under way leaves the older answer for a minute. A failing
  pause or deletion shows nothing. The unread count of the inbox is of the loaded page
  after a mark. What a screen does on success is not done once it is left, so a booking may
  exist that nobody is shown.
- *Notifier.* A message Telegram refuses, or does not confirm within five seconds, is never
  sent again, as its job counts as complete; two jobs of one note overwrite each other's
  `channelsSucceeded`.

### Fairness, and why deadlock is sometimes allowed

- `payment_concurrent`: the clock (WF); an open transaction ends (WF), by Prisma's timeout at
  the latest; the cron steps are strongly fair, because every process runs the cron each
  minute and swallows its errors, and PostgreSQL grants a waiting update its row lock.
  Requests, payments and admins are not fair: nobody must pay.
- `pool`: a request that holds a row ends (WF on `End`, each gateway call has a timeout), a
  hunter that has counted goes on, the maintenance cron and the clock run. Acquires are not
  fair; the properties say "handed out again and again" where they need it.
- `hunt_live`: no process dies, delays run out and workers take jobs, runs and requests go on (WF each).
- `services_live`: awaits of the auth requests and of the calls return or throw, an API
  process goes on adding a job, workers take due jobs and time passes, a fetch ends by its
  timeout, an open screen polls (WF each). Users are not fair, and a connection may be lost.

Payment, hold, hunts, sign-in, fares and services stop when the bounded clock, codes,
requests or jobs are used up, so their configurations allow deadlock. The pool never
stops, and its runs check that.

## The proofs

Each proof module EXTENDS its components and TLAPS and argues by one inductive invariant per
component. All assumptions are the named ones on the constants (`ConstantsAssumption`,
`PoolConstants`, `HoldConstants`, `HuntConstants`, `AuthConstants`, and the `...Assumption`
of the smaller modules), which say that bounds are naturals, that workers are finite, that
functions have their domains and that null values are not elements of the sets they stand
beside. Four kinds of theorems have a hypothesis of their own, named below: one transaction
at a time, a replay that ends no later than its QR, snapshots that outlive cached answers, and
airlines that answer for themselves.

**BookingPaymentProofs** (`TypeCorrect`, `NoDoubleCredit`, `SettledMeansPaid`,
`ExpiredIsDark`, `SnapshotsAreSafe`, `IntentsAdvance`, `LedgerRefined`). The invariants of
the rows are not inductive alone: a commit is safe because of what its transaction read
earlier. `SnapshotsHold` states what every open transaction may still rely on, for one that
a webhook with verdict PAID has the exact transfer of an existing code; together with it
the row invariants carry each other through every action. The refinement of the ledger
follows action by action: `WebhookPay` is a credit, `WebhookRecord` files, everything else
stutters.

`NobodyPaysTwice`, `CustomersAreToldTheTruth` and `BookingsFollowLifecycle` are about
transactions that do not overlap (hypothesis `Alone`: there is one session, any number of
bookings, codes and transfers). They hold because what the transaction has read is then
still so at its commit (`StillTrue`), which overlapping ones break, as `payment_reopened`
shows. `SerialInv` adds what the rows owe to it: PAYMENT_PENDING exactly with a live code,
a payment only of a settled booking. `StatusMoves` lists the five ways a status changes,
and each is a step of the lifecycle.

**MuadiSessionPoolProofs** (`PoolTypeCorrect`, `SessionsAreExclusive`, `BusyMeansUsed`,
`LeaseRefined`). Exclusive use alone is not inductive: a client may lock a row
that another holds unless "busy" tells. `BusyIsAccounted` makes it the exact account of
holders and vanished holders; `Lock` concludes from a free row that it has no holder,
release that the row it frees has no other. The mapping to the lease picks the only holder.

**BookingHoldProofs** (`HoldTypeCorrect`, `HoldsDoNotOverlap`, `BookedTwiceOnlyByMishap`,
`AnswersNameBookings`, `ReservationsAreHonest`, `MissingPnrsAreLostAnswers`). An entry in
Redis has one owner. A request that runs still owns the entry of its key unless a
reservation of the key ran out under its request (`RunningOwns`), and one with a booking
still owns it unless an entry of the key ran out or an answer could not be stored
(`BookedOwns`); two owners are therefore a mishap. The DEL and the SET that do not look at
the owner are the delicate steps: they take an entry away from another request only if the
one that runs them had lost it, which is a mishap by itself. Most steps are `Quiet` (they
touch neither keys nor bookings) and share one lemma. That a missing PNR means a lost answer
(late, unreadable or unprocessed) needs `OnePnr`: what a request learned and what it left at
the gateway together are all the PNRs made for it, at most one unless an answer to a
create-booking of it was lost.

**HuntLifecycleProofs** (`HuntTypeCorrect`, `NoHuntIsForgotten`, `BookingsAreCounted`,
`HoldsAreLimited`). A request may still be deleting a hunt that nothing else attends to, so
`HuntingIsScheduled` is strengthened to `Attended`: a job, a run, a request that will
enqueue, or a lost job. The limit of holds needs `Solo`: unless its runs overlapped, a hunt
has one run, whose snapshot still says how many bookings are counted, so the guard read
from the snapshot is the guard on the row. `RunFits`, `CallFits` and `Untouched` say that
nothing works on a hunt before it is inserted. Each kind of step has a lemma of what it
writes; `Finish` puts their common consequences together.

**AuthSessionsProofs** (`AuthTypeCorrect`, `RefreshTokensAreSingleUse`, `ChainRefined`,
`BrowsersAreHonest`).
`OneLiveEnd` is nearly inductive. What it lacks: a request that rotates holds a token that
was issued, revoked once it is about to make the next (`HandlerFits`); and every token
belongs to a chain named by its first token (`TokenFits`), so that a new sign-in never joins
an old chain. The refinement follows a chain: a rotation
that revokes moves it from live to rotating, the insert back, and a block, an expiry or a
lost request ends it; `Serve`, the tabs and the stores stutter. `BrowsersAreHonest` needs
that a token is in one place, an answer or one store (`TokensHaveOnePlace`): then only the
rotation of its own browser can revoke the token of a store without mishap, and that
rotation is alone and ends with an answer that is stored (`Honest`).

**FareJourneyProofs** (`ThePickedFlightIsBooked`, `EveryReservationIsCovered`,
`WhatIsShownIsHeld`, `TheShownPriceIsCharged`). An offer's id
holds its airline, number and departure (`OffersAreNamed`), and whatever searches add or
replace, the snapshot under an id is of that flight (`SnapshotsAreNamed`). A hold looks for
the snapshot's number and departure and for a fare that answers to the class, so what it
finds is what was picked (`Picked`), whatever the airlines answer by then. The mock looks by
the airline instead; its four flights have four airlines (`MockIsShown`). For the second
theorem, both later questions about the price, ticket-info and list-booking, either tell
nothing or give back exactly the rows the gateway made (`TicketInfoGivesAll`,
`ListBookingGivesAll`), although rows may miss their price and the list names a stranger's
booking; the deadline is the earliest readable limit less the buffer (`HoldEndsWithFirst`).
The assumptions are `OfferAssumption` and `JourneyAssumption`: null values are no integers
and no records, the answers are records of `GatewayAnswer`, the mock's flights have an
airline, a number, an end and named classes.

`WhatIsShownIsHeld` and `TheShownPriceIsCharged` need what a customer has seen (`SeenInv`):
the offers are those of an answer of the market that was seen, marked up by the rules that
were read (`SeenFits`), and what is held is a flight of the answer the hold got, with the
fare its class resolves to, filed in rows that cost what the gateway counts (`HeldFits`).
Then the two readings of a raw flight are compared: `ShownAsHeld` (normalizer and hold give
the same number and departure), `FoundLegIsAskedFor` (normalizer and request builder the
same first leg), `SameScope` (both computations of the mark-up see the same input),
`SameNet` (one passenger's fare and the sum of the reservations agree). `SameFlight` and
`SameFare` conclude from number, date and class that what was found is what was shown.
Hypotheses, which `MCFareJourney` states of its answers as `MCAnswers`:
- `OwnFlights`: the answer of an airline names no other airline as seller or carrier. The
  API asks each airline of the session apart (`real-muadi.provider.ts:97`). Without it the
  normalizer, which prefers the carrier for a flight without a route, and the hold, which
  prefers the airline, give it two numbers; `ThePickedFlightIsBooked` needs it too, for the
  number the row is filed under (`NumberIsFiled`).
- `LegsAreNamed`: the first leg of a route has its number, if the flight has one, and its end.
  The request builder (`booking/book-request.builder.ts`) reads only the leg's.
- `NumbersAreKept`: a number and a time of departure stand for the same leg in every answer of
  the airline; the hold looks for nothing else.

**ServicesProofs**. None of the first four services guards its write by what it has read, so
the invariants count; two results are about the web client's copies and screens, the last is
about the content of a hunt's runs.
- `OverIssueIsBounded`: vouchers issued and claims that have counted together exceed the
  quantity by those that counted together, less one.
- `OtpLimits`: per challenge, comparisons made and due fit the attempts, attempts and
  increments due exceed the limit by the overlap, less one (`LimitKept`).
- `StaleCopiesWereOvertaken`: a process that nothing overtook has the pair the gateway
  accepts, or one of its calls is about to store it (`UpToDate`).
- `LoneWritesHeal`: a transaction alone since it began has cleared, or is about to write,
  every record that is primary (`Covered`).
- `PagesTellTheTruth`: a mark of the inbox that is under way may be in the rows and not in
  the copy, or the reverse; on screen it ends by asking again, off screen it leaves the copy
  stale, or behind when an answer was on its way. So copy and rows must agree only without
  marks, and a stale copy off screen need not (`CopyAgrees`), as it is fetched when the page
  opens (`InboxPages`). A copy of the hunts' pages that is neither true nor drifted is one a
  command still has to invalidate (`Owed`), or is being fetched, or will be before it is
  looked at (`CopiesAreFresh`).
- `UnseenIsExplained`: the screen of a request that was answered still waits for it, was
  left, broke, or showed the booking (`Heard`).
- `RunsTellTheTruth`, for any answers, windows and edits: of finitely many fares or items one
  is the cheapest and one the first (`FirstIsThere`), so the fare kept of an offer
  (`CheapestFareIs`), the item kept of a run (`CheapestBookableIs`) and hence what a run hits
  and announces are right (`OnSaleIsKept`); items without twins are as many as their keys, so
  the stored comparison adds up (`CountsAddUp`, `CountedOnce`). The invariant `ScanInv` says
  that runs and rows are well formed. The average percentages are not part of the claim.

**TimedServicesProofs**.
- `AnswersStayRecent`, where SnapshotTtl > CacheTtl: the age of a cache entry bounds the
  time since its rules were replaced (`RulesAreRecent`), and an entry is filled from another
  whose age is below its life; a cached answer has its snapshots since the tick that wrote
  them (`SnapshotsLive`), and the Map of a process never keeps a settled promise
  (`PromisesRun`). The two lives are settings of their own, 900 s and 60 s by default, so
  this is a condition on the configuration.
- `HandedQrIsLive`, where ReplayLife <= QrLife: unless excused, one request is under
  way and what Redis replays is the live QR, which outlives the replay (`ReplaySound`). The
  code replays for 300 s; a QR lives for `SEPAY_INTENT_TTL_MINUTES`, which the code does not
  bound below, so this is a condition on the configuration.
- `EveryMessageIsAccountedFor`: each message, each job that may send one and each caller
  about to enqueue is paid for by the note or by one of its mishaps (`MailPaid`), and a note
  for Telegram keeps such a job until a message arrives or something fails (`MailOwed`).

Only model-checked: everything temporal (TLAPS proves neither liveness under fairness nor
ENABLED); and the violations, which are counterexamples. Every invariant and every action
property that a passing run checks is stated by a theorem.

## What is not modelled

Not modelled, and why:
- The formats of requests and answers, cryptography, SMS, Google's and SePay's payloads:
  conversions without state whose outcomes are choices of the models (accepted, refused,
  malformed).
- Pages of the web client that only show what they read (home, deals, trips, profile), themes
  and layout; the admin client, which is one page without state.
- The admin's lists and the audit log, `me`, health: they read only.
- Guards, filters, decorators and bootstrap: no state of their own; what callers see of them
  is a 401, a 403 or an error answer.
- Redis and Prisma adapters: what is relied on of them (SET NX, expiry, failing commands,
  transactions) is modelled where it is used.
- The smoke scripts, the test data of the web client and the reference data of the seeds.
- Round trips: the search form has the choice, the API has no such request.
