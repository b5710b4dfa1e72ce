# A verification project for Halls Hub (EventForYou)

Halls Hub is a marketplace for event venues and suppliers: a Next.js
application whose API routes run as serverless functions over one Postgres
database (Prisma), with Stripe for payments and refunds. This directory holds
TLA+ modules of its core, TLC configurations that check them on small
instances, and TLAPS proofs for every size.

Paths below are relative to the repository's own root (`src/lib/...` is
`src/src/lib/...` in `PROJECT.json`).

## 1. The system

All state is in Postgres rows and at Stripe. A route handler awaits one query
or one Stripe call after another; between two awaits any other invocation may
take any step (READ COMMITTED, no row locks held), and the instance may be
stopped. Only `prisma.$transaction` is atomic. That is the main source of
everything that is hard here: a handler checks a status and writes another one
several queries later.

| Component | State | Operations | Interacts through |
|---|---|---|---|
| Venue inquiries (`api/inquiries`, `api/venue-owner/inquiries`, `lib/inquiryStatus.ts`, `lib/inquiryCancellation.ts`) | `Inquiry.status` | create, set status, approve, reject, cancel an approval, seeker's cancel | calendar, supplier requests, payments, negotiation |
| Venue calendar (`lib/inquiryBookDate.ts`, availability route) | `VenueAvailability` rows, one per venue and date | book, release, the owner's edits | approval, settlement, refund |
| Supplier requests (`api/service-requests`, `api/freelancer/requests`) | `ServiceRequest.status` | create, set status, decline, repair | cancelled with their inquiry; paid for on their own |
| Booking payments (`lib/bookingCheckout.ts`, `api/webhooks/stripe`, `lib/bookingPaymentFulfillment.ts`) | `Payment` rows; sessions, events and charges at Stripe | checkout, webhook delivery, settlement | status, calendar, the agreed price |
| Refunds (`lib/bookingRefund.ts`) | `BookingCancellation` rows, Stripe refunds | provider cancels a paid booking | payment, status, calendar |
| Negotiation (`lib/negotiation*.ts`) | threads, offers | open threads, quote, accept, reject, ask for a new quote | inquiries, requests, price at checkout |
| Prices (`lib/catalogPricingMode.ts`, `lib/bookingAmount.ts`, the catalogue routes) | prices of venues, event profiles, services | save, order, quote | checkout, negotiation, the estimate on the order form |
| Job queue (`lib/jobQueue.ts`, cron route) | `BackgroundJob` rows | publish, claim, execute, retry, fail | registration, moderation |
| Accounts, e-mail verification, password reset (`lib/emailVerification.ts`, `lib/passwordReset.ts`, `api/auth`) | user, codes, tokens | register, issue, try, use, change, delete | job queue (welcome) |
| Listings: moderation and boosts (`lib/listingModerationService.ts`, `lib/listingBoost.ts`) | `moderationStatus`, `contentRevision`, `boostExpiresAt` | create, edit, decide, buy a boost, extend it | Stripe webhook, search |
| Conversations and live updates (`api/conversations`, `api/realtime/stream`, `app/messages`, badge) | messages, read marks; the open page and its event streams | send, load, mark read, count, stream, reconnect | browser and server |
| Stripe Connect, search and maps, packages and bundles, favourites, reviews, reports, rate limits, the rest of the UI | rows of their own | reads and single-row writes | |

What makes each of them correct:

* **bookings and money** - a booking is shown paid only with a recorded, real
  payment; a refund is shown only when it was made; no payment made at Stripe
  is lost; refunds are made once; a paid booking is not paid again; money goes
  back when the provider cancels;
* **calendar** - one approved booking per venue and date, and an approved or
  paid booking keeps its date;
* **negotiation** - one quote in play, one accepted offer per thread, and what
  is charged is what was agreed; **prices** - whatever is saved leads to a
  payment, and nothing is charged without a quote unless it is exact;
* **job queue** - one batch per job, bounded attempts, final outcomes, order,
  and no job left behind;
* **accounts** - a code or link works once and has its effect, only old ones
  are retired, a reset ends the others;
* **listings** - only complete listings are published, the record tells what
  happened, and a boost lasts as long as was paid for;
* **conversations** - what counts as read was found, the page shows the
  conversation that is selected, and news arrives.

`PROJECT.json` lists the hazards line by line under "hazards".

## 2. Modules

| Module | What it is |
|---|---|
| `Booking` | inquiries, supplier requests, calendar, payments and Stripe: one action per awaited step |
| `Escrow` | abstract specification: what the system promises about the money of a booking |
| `BookingEscrow` | the refinement mapping of `Booking` to `Escrow` |
| `BookingInv` | the inductive invariant of `Booking`, and what keeps apart what overlap breaks |
| `Negotiation` | threads, offers, decisions, and the price a checkout charges |
| `Bargain` | abstract specification: what one thread promises the two who bargain on it |
| `Prices` | from the price list of a venue or service to the amount of the checkout |
| `JobQueue` | the background job queue |
| `JobPromise` | abstract specification: what the queue promises who publishes a job |
| `Accounts` | registration, codes, links, passwords of one account |
| `Listings` | publication, edits, decisions and boosts of one listing |
| `Conversations` | messages, read marks, event streams and the pages of one user |
| `<Module>Proofs`, `BookingEscrowProofs` | TLAPS proofs |
| `MC<Module>` | instances for TLC |

In all modules of the server, `call[hd]` is the invocation in flight in slot
`hd`: the step it will take next (`pc`) and what it has read so far. An action
is one awaited query together with the code up to the next one; consecutive
reads without a write in between are one step where only the last read matters.
`Crash` ends an invocation between two steps. `PROJECT.json` "map" names the
lines of every action. A name ending in `_Something` below a comment "Mutant"
is the same step with a plausible mistake, kept to show that a property would
notice it. History variables are named as such at their declaration; no step reads
them.

### Booking

The other variables are rows (`status`, `booked`, `payment`, `payFor`,
`cancellations`) and Stripe (`session`, `refunded`, `acked`).

* **approval**: `Approve` (status check), `ApproveFind` (calendar look-up),
  `ApproveUpsert` (BOOKED), `ApproveUpdate` (APPROVED, whatever the status has
  become);
* **end of an inquiry**: `OwnerReject`, `OwnerCancelApproved` or
  `SeekerCancel`, then `EndUpdate`, `EndFinalize` (all its requests to
  CANCELLED), `Release`;
* **supplier**: `CreateRequest`, `ProviderDecline`, `SyncRead`/`SyncUpdate`
  (the repair made when the supplier's list is read);
* **payment**: `Checkout` (status and price), `CheckoutInsert` (PENDING row),
  `CheckoutSession` (session at Stripe), `CustomerPays`/`SessionExpires`,
  `Deliver` or `DeliverSettled` (the webhook's reads of the payment),
  `SettleTransaction` (COMPLETED and PAID), `SettleFind`/`SettleUpsert` (the
  date), answered 200 with the last write;
* **refund**: `CancelPaid`, `RefundStripe`, `RefundTransaction` (or
  `RefundConflict`, the unique key of the cancellation), `Release`;
* **deletion**: `DeleteVenue`, `DeleteService`; `RowGone` is the 500 of an
  invocation whose row disappeared.

Modelling decisions:

* A handler whose writes do not depend on what it read is one action:
  `ProviderSetStatus` stands for the status PATCH of the owner and of the
  freelancer, the removal of the owner's note (writes READ) and the acceptance
  of a supplier's offer (writes REPLIED).
* A price is abstracted to whether one can be resolved (`Priced`) and, for a
  venue, whether it may be 0 (`MayBeFree`; the checkout wants more of a
  service); which one is the subject of `Negotiation` and `Prices`. An inquiry is created with a valid
  date; each request is for a service of its own.
* `completedAt` is the clock of whichever instance settled, so any completed
  payment may be the "latest" one of a cancellation.
* Stripe (external): a session is paid or expires once, an unanswered event is
  delivered again, possibly twice at a time, and a second refund of a charge is
  refused. A session of 0 ends "free": it completes without a payment intent,
  so the payment has no `stripePaymentId`. Every provider is connected.
* A cancellation asks Stripe only with a client and a payment intent
  (`bookingRefund.ts:68`, :171) and writes its records in any case. Both ways
  around Stripe are in `RefundStripe`: a free session in every run, an instance
  without Stripe's key when `Keyless`. The runs have `Keyless = FALSE`; the
  theorems are about both.

### Escrow

A payment's money moves from the customer to the provider and back; the record
and what the booking shows follow it: PAID only by recording a charge that took
place, CANCELLED_BY_PROVIDER only by recording a return that took place, or of a
payment of nothing (`Waive`). With `Keyless` a return may be recorded that is
not made, because that is what such an instance does.
`EscrowSpec` deliberately does not promise that a record is final: a slow
delivery of the webhook may record a charge again after its return.
`FinalEscrowSpec` does promise it, and it takes that no two deliveries of one
event overlap (`DeliveriesApart`; `ApartSpec` are the behaviours in which they
do not, everything else overlapping as before).

### Negotiation

One inquiry: `thread`, `offer` (with `about`, its thread, and `amount`), the
requests per service, `listPrice` (a fixed catalogue price), `agreed`
(agreedAmountNis) and the charges made from them. `life` is the status of what
a thread is about, reduced to what the negotiation tells apart.

* `Post`, `PostRequest`, `Hub`, `ThreadFind`, `ThreadCreate`, `ThreadSeed`,
  `HubRead`, `HubNext`: threads and requests are added by the posting of the
  inquiry and, when missing, by every visit of the hub; the unique key of a
  thread stops the slower of two;
* `Quote`/`QuoteCreate`, `Accept`/`AcceptTransaction`, `Reject`/`RejectUpdate`,
  `Requote`/`RequoteFind`/`RequoteTransaction`: every decision is a check and,
  later, an unconditional write;
* `End`, `EndUpdate`, `EndThreads`, `EndRequests`; `SetStatus` and `Settle`
  stand for what `Booking` does to the statuses;
* `EditPrice`, `Checkout`/`CheckoutInsert`: `PriceAndSource` is the order in
  which the checkout looks for an amount.

`Table(t)` maps the rows of thread t to `Bargain`: its thread, the amounts of
its offers, the offer that is pending or accepted, whether a new quote was asked
for. `OrderlyBargain` says that every step of every thread is one of `Bargain`
until decisions overlap on it; other threads, requests, prices and payments are
not mentioned in `Bargain` and so may do nothing to it.

`raced` records the threads on which two decisions overlapped, `hubRaced` that
two invocations which add threads did; `terms` are the amounts ever listed or
accepted. A charge remembers whether its checkout began after the deal
(`after`): from then on it is the deal's amount (`AtTheDeal`), with the one
exception the code makes - a booking once paid is charged that amount again,
because `bookingAmount.ts:76` looks at `agreedAmountNis` before :84 looks at the
accepted offer. An amount of 0 counts as none there, so `Amounts` are positive.
The composition with `Booking` is by these shared statuses and not by
a common state: `Booking` allows any status the negotiation may write
(`ProviderSetStatus`), `Negotiation` any settlement of an existing charge.

### Prices

The rows `profiles`, `price`, `rental` and `extra` of one venue (or `price` of a
service), one order, one quote. `SaveVenue` and `SaveService` store what a form
says after the derivations and validations of the routes - a venue's price is
the span of its event profiles' prices and validated afterwards, a service's is
taken from its menu after validation. `VenueCatalog` and `ServiceCatalog` are
`resolve...CatalogPricing`, `CanQuote` is `assertCanCreateExactQuote`,
`Payable` the amount of the checkout, `Estimate` the order form's estimate. A
missing price is `None`; `Or(a, b)` is `a ?? b`. The provider may save at any
time, also between order, quote and payment. How many meals, extras and menus
there are is reduced to one extra and one meal price per event type.

### JobQueue

`worker[w]` is a batch of `processPendingJobs`: `Find` and `Claim` are the two
queries of `claimNextJob` (the conditional update decides the race, losing it
ends the batch), `Execute` is `executeJob` returning or throwing, `Finish` the
DONE update (inside the `try`, so its failure counts as one of the job) and
`Fail` the `catch` block. `Crash` is the end of the instance: the cron route
has 60 seconds, the un-awaited batch after a registration ends with its
response. Jobs are numbered in the order of `createdAt`.

`JobPromise` has neither rows nor batches. The mapping reads the stage of a job
off its status, except that a PROCESSING job which no batch holds is "lost";
`tries` are the attempts counted, `ran` the executions. So the promise tells
what the status alone hides: `Claim` counts before it executes, the loser of a
race changes nothing, and only `Stop` can lose a job.

### Accounts

A row of PasswordResetToken ("token") or EmailVerificationToken ("code") is the
number in which it was created, and rows expire in that order. Both kinds share
the steps of sending (list what is live, retire what is over the limit, create,
mail); they are claimed by a conditional update and take effect in a later
query (`claims` and `done` are the history of the two). A log-in of an
unverified account sends a code like `Resend`. The session is a signed cookie
and no state of the server: that the address is verified stands for the
possibility to hold one.

### Listings

A venue or a service: `content` are the parts filled in, of which all in
`Parts` are needed for publication (a venue is the listing with `Parts = {}`).
Creation, edit and decision are a read, a write of the row and the event or
notice that follows; the boost is bought at Stripe, and a delivery of its event
reads the expiry (`status` check and `getTime`) before the transaction that
writes the new one. `edits`, `by`, `bought`, `raced` and `boostRaced` are
history.

### Conversations

One user with the messages page open. The server side: `send` takes the clock,
then inserts; a load marks the conversation read, then finds its messages; the
list and the badge count. A stream polls (`BadgeEvent`, `ChatEvent`), ends
after its 8 seconds (`End`) and is opened again (`Open`). The page side:
`selected`, `shown`, `badge`, `seen` change when a response or an event
arrives. Message n is the n-th by `createdAt`; a time is the number of messages
created by then. An event reaches the page in the step that computes it. The
page answers an event that differs with two requests at once
(`MessagesClient.tsx:282`), whatever else is in flight; `Slots` bounds the
requests, so in the model `ChatEvent` waits for two idle ones, and with the two
slots of the run its requests overlap each other, later selections and sends
but no earlier ones.

## 3. Runs

| Run | Instance | Shows |
|---|---|---|
| `money` | 1 inquiry with a price that may be 0, 1 request without one under it, 2 payments, 2 invocations, 1 crash | paid is backed, refunds are made and recorded once, records follow the money |
| `deliveries_apart` | 1 inquiry that may be free and 1 request under it, both payable and deletable, 1 payment, 2 invocations, 1 crash, `ApartSpec` | `Booking` implements the final escrow promise: a charge is recorded once, a recorded return is final, also with a redelivery after it; every refund of a booking still there is on record unless an instance died |
| `promise` | 1 inquiry that may be free, 1 payment, 2 invocations (overlapping deliveries too), 2 crashes, calendar edits, deletions | `Booking` implements `Escrow`; no answer outruns the record (deleted bookings excepted, `AckedIsRecorded`); a payment is eventually settled and answered |
| `queue` | 3 jobs, 2 batches of 2, 3 attempts, 2 stopped batches | exclusive claims, order of first attempts; `JobQueue` implements `JobPromise`; a stopped batch loses at most the job it held, every other job is processed |
| `deal` | the venue's thread, 3 offers, 2 amounts, a fixed price, 2 charges, 2 invocations, no visits of the hub | one quote in play, quotes within their limit, a checkout after the deal charges the deal, and the thread keeps to `Bargain` until decisions overlap |
| `hub` | the venue's thread and a supplier's, 1 offer, 2 invocations, 1 crash | threads are opened completely, a supplier gets one request, the end of the inquiry undoes no deal |
| `accounts` | 1 live code and token, 2 of each in all, 1 expiry, 2 passwords, 2 invocations, 1 crash | one welcome per account, single use with effect, only old ones are retired, a reset ends the others |
| `listings` | 2 required parts, 2 boosts of 2 days, 2 days, 3 edits or decisions, 2 invocations, 1 crash | only complete listings are published, record and boost are true |
| `chat` | 2 conversations, 1 message, 2 requests in flight, 2 actions of the user, 1 loss | what is read was found, the selected conversation is shown, news and the badge arrive |
| `prices` | prices 0..2, 2 event types, every valid and some invalid forms, with and without a hall rental | no price list is a dead end, only exact sums are charged without a quote, the estimate is a lower bound |
| `second_payment` | 1 inquiry with a price, 2 payments, 1 invocation at a time, no crash | a violation: two open sessions of one booking are both paid (see "findings") |
| `date_kept` | 2 inquiries with a price for one date, 2 payments, 1 invocation at a time, no crash | a violation: one inquiry is approved, the other paid, and both are told that the date is theirs (see "findings") |

**Bounds.** Two invocations are what a race takes, and every hazard listed is a
race of two; only the two violations, which need no overlap, have one. Two
payments give a second checkout and a refund of one of two; `deliveries_apart`
and `promise` have one, which its redeliveries settle again. Three offers are
one more than a thread may have, two charges let a booking be paid before its
deal and charged again after it. `deal` leaves out the visits of the hub
(`WithoutHub`), which only add threads and requests, so that it has room for
that; they are the subject of `hub`, and the theorems are about both at once. Two codes with a limit
of one make the second retire the first. `Payments` bounds the checkouts of a
behaviour (`HasRowLeft` keeps a checkout from starting without a row to use, as
`HasOfferLeft` and `HasChargeLeft` do in `Negotiation`), `MaxCrashes` the
crashes, `NJobs` the published jobs, `MaxIssued`/`MaxRows`/`MaxExpired` the
codes and links, `MaxTime` and `MaxChanges` the days, edits and decisions of a
listing, `MaxMessages`, `MaxActions`, `MaxFailures` what happens to a page;
statuses need no bound. BATCH_PER_RUN is 2 instead of 15: a batch then ends
both by its limit and by an empty queue. MAX_ATTEMPTS of a code is 1 instead
of 5 and the limits of live rows 1: only reaching them matters. Prices up to 2
contain the zero price, a range, an exact price and an inverted pair; two
guests make a sum go beyond the largest price. Deadlock is checked except where
the system may really stop: every venue and service deleted
(`deliveries_apart`, `promise`), the account deleted or every row used (`accounts`), the listing
deleted or every day over (`listings`).

**Fairness.** `Booking!FairSpec`: Stripe redelivers an unanswered event (strong
fairness of `Deliver`, because the slots bound the model and not the platform)
and an invocation that is not stopped goes on (weak fairness of `Proceed`). No
person is ever obliged to act. `JobQueue!FairSpec`: the daily cron starts a
batch (weak fairness of some `StartBatch`) and a batch goes on (`Work`).
`Conversations!Spec`: a request goes on; the server ends a stream after
STREAM_MS and EventSource opens it again (`End`, `Open`); a stream polls every
POLL_MS (`BadgeEvent`, `ChatEvent`). All are timers of the code or of the
browser. The other modules state safety only.

**Symmetry** is used only in runs without liveness (their refinements are
safety), over payments, offers, parts, passwords and invocation slots.

## 4. Proofs

Every module of the model has its invariant proved for all values of its
constants, from the ASSUME of its module alone; the proofs have one lemma per
action (or per group of actions that leave the same parts alone).

* `BookingProofs`: `Spec => []IInv` and from it the invariants of the run
  `money` and `AckedIsRecorded`. The properties relate rows (status, payment,
  cancellation, Stripe's state); they are not inductive, because a step writes
  from what an invocation read earlier. `IInv` adds what such an invocation
  still knows (`CallsKnowTheRows`): at `settle.transaction` that the session is
  paid, at `refund.transaction` that the money is back (`HasMoneyBack`) and, if Stripe
  was asked, that no cancellation is recorded and no other invocation is at
  that point for the same payment (`CallsApart`; nothing keeps two
  cancellations of a free session apart but the unique key), and that its
  payment is for its target unless the target was deleted. `Rows` adds what the rows agree on.
* `BookingProofs`, second part: what overlap breaks, stated as theorems with
  the overlap they exclude as a hypothesis on the behaviour. Unless two
  deliveries of one event overlap (`DeliveriesApart`), what a delivery settles
  is still PENDING (`SettlesPending`), so a recorded refund is final
  (`RefundsAreFinal`) and every refund issued is on record, about to be, or of a
  booking that was deleted, unless an instance died (`RefundsAreTraced`); so
  none of a booking still there is missing once the handlers are done
  (`NoRefundIsMissing`). Everything else may overlap, crash or be deleted. The
  hypothesis is needed: without it a slow delivery turns a REFUNDED payment
  COMPLETED (section 5).
* `BookingEscrowProofs`: `Spec => EscrowSpec`, and
  `Spec /\ []DeliveriesApart => FinalEscrowSpec`; the initial states map to
  initial states and, with `IInv`, every action to an escrow step or a stutter.
* `JobQueueProofs`: exclusive claims, earned and final outcomes, order of first
  attempts. `IInv` says which number of executions each row stands for, that a
  held row is PROCESSING, and that the job a batch found stays one whose elders
  were all attempted. With it `JobQueue` implements `JobPromise`
  (`QueueKeepsPromise`), and no more jobs are ever lost than batches were
  stopped (`FewJobsAreLost`, by the cardinality of `Lost`).
* `NegotiationProofs`: all properties of `deal` and `hub`, and the refinement:
  `ThreadsBargain` for behaviours with races elsewhere or later,
  `UnracedImplementsBargain` for a thread that never has one. The strengthening
  says what a decision under way still knows of a thread that was not raced:
  a quote about to be created finds nothing pending and the limit not reached,
  an offer about to be accepted is still the pending one, no other decision is
  under way; that every charge in an invocation's hands is one of `terms`; and
  that what a checkout begun after the deal holds is at the deal, also when it
  took the list price or `agreedAmountNis` (`AgreedIsCharged`: that column holds
  the amount of some charge, so a charge from it is at the deal or repeats one
  made before).
* `AccountsProofs`: single use, effect, only old rows retired, dead links after
  a reset, and that a registration publishes one welcome. The strengthening
  says that a claimed row is used up, that the rows an invocation is about to
  retire have enough younger ones, and that a row too many is still in the
  hands of an invocation that will retire it.
* `ListingsProofs`: publication, record and boost. Without overlap, what an
  edit or a settlement has read is still what the row says.
* `ConversationsProofs`: what is read was found, the shown conversation is the
  selected one unless a selection crossed a load.
* `PricesProofs`: no dead end, only exact sums, the estimate. The lemmas are
  about the operators: a line is an interval, meals keep the order of their
  bounds, and a catalogue is an interval whose mode is "fixed" just when its
  bounds are equal.

Only model-checked: the liveness properties (`PaidIsEventuallyRecorded`,
`OnlyHeldJobsAreLost`, `NewsIsShown`, `BadgeSettles`), because fairness and
ENABLED are out of the prover's reach. Every invariant, action property and
refinement of the passing runs is a theorem; the two of `deliveries_apart`
under `[]DeliveriesApart`, which every behaviour of `ApartSpec` satisfies. What
the runs of `Booking` check with `Keyless = FALSE` is proved for both values.

## 5. Known disagreements

Two have a run. `second_payment`: `bookingCheckout.ts:72` opens a new session
whenever the booking is not PAID yet, and `inquiryStatus.ts:94` says of PAID
that there is no further payment. `date_kept`: a settlement ignores that the
date is taken (`bookingPaymentFulfillment.ts:53`) and the checkout asks for no
approval, while the seeker of the approved inquiry was told that the date is
kept (`InquiryDetailSeekerClient.tsx:247`) and the owner reads the same of the
paid one (`InquiryDetailClient.tsx:428`).

The following were met while modelling. The models contain them - the
properties name them as exceptions (`raced`, `hubRaced`, `boostRaced`,
`crossed`, `late`, `crashes = 0`, overlapping deliveries, deleted bookings, an
amount of 0) instead of hiding them, or promise nothing about them - and they
have no run of their own.

Bookings:

* an instance without Stripe's key cancels a paid booking without asking
  Stripe: REFUNDED, CANCELLED_BY_PROVIDER and the cancellation are written and
  the customer is told that the money comes back (`bookingRefund.ts:68`, :108),
  as the provider was (`InquiryDetailClient.tsx:439`,
  `FreelancerRequestsClient.tsx:415`: a full refund); a payment without a
  payment intent takes the same way, with nothing to return. What
  `ProviderCancelWasRefunded` says of the money is therefore conditional on the
  key (`HasMoneyBack`);
* two approvals that both look before either books are both granted
  (`inquiryBookDate.ts:14`, whose error at :21 tells the second one to release
  the date first), and a date is released by venue and date, whoever booked it
  (:42);
* a crash between the settlement's transaction and its booking of the date
  leaves a paid booking without its date: the redelivery finds the payment
  COMPLETED and does nothing (`webhooks/stripe/route.ts:61`);
* a seeker's cancellation (`cancel/route.ts:52`) and an approval
  (`venue-owner/inquiries/route.ts:196`) are written over a status that has
  become PAID; the end of an inquiry cancels its paid requests
  (`inquiryCancellation.ts:132`) and a supplier's decline a paid request
  (`api/freelancer/requests/route.ts:129`), all without a refund, against the
  full refund that `bookingSafetyNet.ts:8` promises;
* the generic status PATCH leads out of PAID and CANCELLED_BY_PROVIDER
  (`ProviderSetStatus`); a booking taken out of PAID, by it or by such an
  approval, is open to a second payment;
* a slow delivery that overlaps another one settles after the refund: the
  payment turns COMPLETED and the booking PAID again
  (`bookingPaymentFulfillment.ts:25`);
* a refund made at Stripe is never recorded when the instance dies, or the
  booking is deleted, before the transaction (`bookingRefund.ts:75`); the next
  attempt is refused by Stripe;
* the payment of a booking deleted under an open checkout is answered and
  never recorded (`AckedIsRecorded` names it).

Job queue: a job whose batch is stopped between claim and outcome stays
PROCESSING (`jobQueue.ts:43`); a handler that fails at its last step repeats the
earlier ones on the next attempt (`jobHandlers.ts:53`).

Negotiation:

* a rejection that overlaps the acceptance of its offer undoes the deal
  (`negotiationOfferActions.ts:224`), though `negotiationAuth.ts:162` says that
  an accepted offer can no longer be changed; two offers can be accepted, and
  two quotes be created, when their checks overlap;
* a booking that was paid, reopened and negotiated again is charged what it was
  paid at, not the offer accepted since (`bookingAmount.ts:76` before :84);
* a visit of the hub that overlaps the end of the inquiry leaves an open thread
  of an inquiry that has ended (`negotiationThreads.ts:192`).

Prices:

* a venue whose form has no price of its own stores the span of its meal prices
  as its price (`venue-owner/venues/route.ts:383-391`, :552), which the
  catalogue then adds as hall rental to the meals (`catalogPricingMode.ts:79`);
  the estimate leaves it out, and the upper price of extras too;
* an order whose only price is 0 cannot be settled for a service: checkout
  wants more than 0, a quote is refused because the price is fixed;
* a quote of 0 that was accepted is ignored at checkout, and a fixed price
  listed later is charged;
* the checkout page calls the hall's line final when only that line is exact
  (`checkoutDisplay.ts:107-131`).

Accounts and listings:

* a reset link, or a code, is used up before it has its effect: an instance that
  stops in between leaves the user with neither
  (`reset-password/route.ts:64`);
* a moderator's decision is written whatever has been edited since it was shown
  (`listingModerationService.ts:282`);
* two overlapping settlements of boosts extend from the same end, so that the
  days of one are lost (`webhooks/stripe/route.ts:85`, against
  `listingBoost.test.ts:11` "extends from current expiry when still active"); a
  boost paid for a listing deleted meanwhile is neither given nor refunded;
* a rejected listing that is edited while incomplete becomes PENDING
  (`listingModerationService.ts:108-122`; the comment at :92 says it stays
  REJECTED), and the submission log (:388-400) says APPROVED for it;
* `codeHash` of e-mail codes is unique over the whole table
  (`schema.prisma:91`), so that two users cannot hold the same six digits.

Conversations: a load that was overtaken by a selection shows the other
conversation's messages (`MessagesClient.tsx:100`), and the first event of a
stream is taken as the baseline (`MessagesClient.tsx:274`), so that a message
between the first load and it is shown only with the next one. A message whose
insert becomes visible after the mark that covers its `createdAt` counts as read
without having been shown (`late`), and so does one whose response is lost.

## 6. Not modelled, and why

Most of the repository's lines are React pages, forms and their parsing, and
search: each is a function of one response or one request, and has no state
that several actors share. What shares state is in the modules above; the
mapped share of all lines is small for this reason, and it is small of the
application's own logic too where that logic is text, layout or data.

* **User interface** except the pages that react to events.
* **Search, geocoding, maps**: read-only over the catalogue; the order of
  results and the Hebrew text matching have no other reference than themselves.
  A search reads the calendar through a cache of 60 seconds and may show a date
  that was just taken; booking looks at the calendar again.
* **Packages and bundles** (`buildAutoEventBundle.ts`,
  `buildSuggestedPackages.ts`, `eventPackagePrice.ts`, menus' totals per
  guest): sums and choices shown to the user; no payment is computed from them.
* **Stripe Connect**: its flags are copied from Stripe's answers. Two
  overlapping onboardings create two accounts (`stripeConnect.ts:44-61`) and
  the later one stays; nothing else reads the lost one.
* **Favourites, reviews, reports, analytics**: single-row upserts and inserts.
* **Rate limits, middleware, developer sessions**: filters around external
  services; the limit is per instance without Redis.
* In modelled parts: notifications, e-mails and their texts; the account
  deletion's removal of bookings; `runAfter` and `maxAttempts` of jobs, which no
  caller sets; the cooldown of resent codes; roles, blocking, phone numbers;
  external moderation hooks; messages inside negotiation threads; the linking
  of a standalone request to an inquiry by the hub; creation of conversations.

## 7. State of the plan

Done, in this order: `Booking`, its runs, `Escrow` and the refinement;
`JobQueue`; `Negotiation`; `Accounts`; `Listings`; `Conversations`; `Prices`;
the proofs of each; `JobPromise` and `Bargain` with their refinements; the
finality of refunds, from the one overlap it excludes; charges at the deal. What would
come next: account deletion in `Booking`, a common state of `Booking` and
`Negotiation`, abstract specifications for the links of `Accounts` and for the
record of `Listings`, and the packages checked against a reference definition.
