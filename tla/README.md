# TLA+ verification of the Event & Experience platform

The platform sells tickets: organizers publish events with priced tiers,
customers hold seats, pay through an external provider, receive QR tickets and
are scanned at the gate; after the event the organizer is paid. The backend is a
Django application on PostgreSQL (`src/backend`), with a task queue, a scheduler
and a transactional outbox; the frontend (`src/frontend`) is Next.js. This project
models the parts where seats, money or somebody's work can be lost: inventory,
bookings, payments, the gate and settlements in the backend, and the three
screens of the frontend that keep state of their own between requests: the
event wizard, the checkout and the scan desk. Bounded instances are
model-checked with TLC; all invariants, action properties and refinements that
the runs check are also proved, for every value of the constants, with TLAPS.

## 1. Inventory

State lives in PostgreSQL rows; a transaction that has a row's lock (`SELECT ...
FOR UPDATE`) is atomic with respect to others that take it. What is hard is what
happens *between* transactions: vendor calls, hooks that run after a commit,
tasks that are delivered again, and reads that take no lock. In the browser it is
what happens between a request and its answer: the person goes on typing or
leaves the screen, effects run on what they closed over, the answer is lost, the
tab is closed.

| Part | State | Operations | Hard behaviour | What makes it correct |
| --- | --- | --- | --- | --- |
| booking | `Booking` rows, tickets, idempotency keys | create, cancel, donation, gateway, coupon, expire, confirm | the order call runs between two transactions and ends in an unlocked save of the whole row; two creates with one key; sweeper against payer | seats conserved, tickets exactly for paid bookings, one live hold per key, final states final, the invoice adds up |
| ticketing inventory | `quantity`, `sold`, `reserved` per tier | reserve, release, confirm | the last seat | never more than `quantity`, never below zero |
| coupons | redemption ledger | redeem, release | cap under a lock; all ways a hold can end | the ledger matches the bookings that carry the discount |
| payments | payments, refunds, webhook ledger | capture (webhook, verify, reconcile), failure, refund task | lost, repeated and late deliveries; amount checked before the lock; crash around the vendor's refund | tickets or money back; one refund; tickets of refunded payments dead |
| check-in | ticket status, scan log, cached attendance | scan, admit, void, attendance | two gates and a refund around one row lock; a cache that drops keys | one admission per ticket, the trail agrees, the display heals |
| settlements | one row per event, payout attempts | apply confirmed/refund, release, retry | two workers, crash around the payout, refund during it, moved event | paid once, for what the records say; ends |
| outbox, event bus | unpublished events | `publish_pending` | rollback after a handler ran, order of two drains | every event handled once in a committed transaction |
| notifications | one log per dedupe key | notify, dispatch, sweep | crash between claim, send and record | not modelled yet, see the plan |
| task queue, worker, schedule | queued tasks, interval table | enqueue, run due jobs | at-least-once | appears as fairness and redelivery |
| event wizard (browser) | draft, undo history, last confirmed values, timers; a copy in localStorage | type, undo, autosave in stages, retry, restore, clone, publish | typing during a save, failed stages, lost answers, a dead tab, another editor | no edit stranded, eaten or reverted unseen; an honest badge |
| checkout (browser) | booking in context, `?booking=` in the URL, attempt numbers in sessionStorage | pick, reserve, check and release a hold, change totals, pay, retry, leave | effects and answers of screens that were left, reloads, Back, expiry, retries under a key | no hold taken twice and forgotten; the screen shows what was chosen; Pay opens the current order; the loader ends |
| scan desk (browser) | list of scans with a queue, event picked, online state | scan, answer, queue, replay, reload | lost answers, two ideas of being online, several desks on one ticket | green at one scan per ticket; nothing recorded twice; the queue is sent |
| session client (browser) | access token, one refresh shared by requests | request, refresh, retry | concurrent 401s | not modelled |
| events, organizations | events with a version, linked payout account | edit, publish, cancel; verification | optimistic versions | only the two steps settlements depend on |

Interactions: `booking` calls `ticketing` (reserve, release, confirm) and
`coupons` (redeem, release) inside its transactions and the payment provider
outside them. `payments` calls `booking.confirm_booking` and
`refundable_amount_minor`, and its refund voids tickets through `booking`;
automatic refunds reach the queue by an `on_commit` hook. `payments` publishes
`PaymentConfirmed` and `PaymentRefunded` to the outbox, whose drain calls the
handlers of `settlements` (and `notifications`) in its own transaction.
`checkin` locks and marks `booking`'s tickets. The scan desk calls `checkin`; the
checkout calls `booking` and the provider's own screen; the wizard calls the
event and ticket-type API, which answers with versions. `settlements` recomputes from
`payments`' records. The scheduled jobs are in `core/scheduling.py`:
`booking.release_expired` every 60 s, `payments.reconcile_pending` 120 s,
`settlements.release_due` 3600 s, `notifications.sweep_stuck` 300 s,
`events.waitlist_notify` 120 s, `core.purge_ephemeral_tokens` 900 s.

`PROJECT.json` lists every part, and the hazards at the lines where they bite.

## 2. Modules

```
Tier <-EXTENDS- Booking <-EXTENDS- Payments     Door <-INSTANCE- CheckIn <-EXTENDS- ScanDesk
                   |                  |                             |                  |
               MCBooking          MCPayments                    MCCheckIn          MCScanDesk

Payout <-INSTANCE- Settlements         Wizard         Checkout
                        |                 |               |
                   MCSettlements      MCWizard        MCCheckout
```

The proofs are in modules of their own, each of which extends the ones it uses:

```
SumLemmas <- BookingProofs <- PaymentsProofs      CheckInProofs <- ScanDeskProofs
    ^                                             WizardProofs
    +------ SettlementProofs                      CheckoutProofs
```

**`Tier`** is the counter arithmetic of one ticket tier (`ticketing/services.py`,
`strategies.py`): what may be reserved, the clamp of `release`, and the
database's CheckConstraint.

**`Booking`** has one action per command. A command that works under the
booking's row lock is one step (`CancelBooking`, `SetDonation`,
`SetPaymentGateway`, `SetCoupon`, `ClearCoupon`, `ReleaseOneExpired`,
`ConfirmBooking`). What is not under it is split: `CreateLookup` (idempotent
replay), `DetachKey` (free the key of a dead booking), `Insert` / `InsertRefused`
/ `InsertLost` (reserve all tiers and insert, or lose the race for the unique
key), and the order call: the worker carries in `mem` the row as it was read,
and `OrderCreated` saves it whole, `OrderFailed` releases the hold under the
lock, `WorkerCrash` does neither. `pc`, `req` and `mem` are the web workers;
everything else is the database and `orders` the provider. `minted` is an
auxiliary variable that remembers the key a booking was created with.

**`Payments`** extends it with the provider (captures, failed attempts, refunds
by idempotency key: external), the delivery handlers (`handle_webhook`,
`verify_and_confirm`, `simulate_capture` and `reconcile_pending` share the ledger
key `payment.captured:<payment>` and are modelled by `Webhook` and `Reconcile`)
and the refund task. A handler first reads the booking without a lock (`Begin`'s
copy in `hand`), later checks the amount against that copy and lets
`confirm_booking` lock; the refund reads, calls the vendor and records in three
steps, each of which a crash can follow. `issuedBy` and `voided` are auxiliary.

**`Door`** is the abstract specification of a gate: a ticket admits one person or
is withdrawn, and after either nobody. **`CheckIn`** is the gate of the code: a
scanner climbs the ladder of lock-free checks (`FirstLook`), then decides again
under the ticket's lock (`AdmitUnderLock`), and bumps a cached counter after the
commit (`BumpAttendance`); a refund voids tickets at any time; the cache loses
keys and `get_attendance` corrects it in two steps (count, then set). The
refinement maps `admitted` to the trail's ALLOWED rows and `open` to the status.

**`Payout`** is the abstract specification of a settlement, seen from outside:
money leaves at most once (`Send`) and only while the account is open, and the
account is closed once (`Close`), with one line on the books, which is for
nothing or for money that was sent. **`Settlements`** implements it, with `sent` the amount
the vendor paid, `lines` the SUCCESS rows and `closed` the status `paid`. It
has the money path in one step each (`Capture`,
`RefundRecorded`; their detail is in `Payments`), the outbox drain of the two
events (`ApplyConfirmed`; for refunds `DrainTakes`, which reads the status
without the lock, and `ApplyRefund`), the jobs that queue a release, and
`release_payout` step by step: fast look, lock, recompute from the records,
vendor call under the lock, record; a worker can die at every step. The row lock
is held from `CallVendor` to `ReleasePaid` or `ReleaseFailed`, and whoever needs
it waits (`LockFree`). A retry is enqueued (`Reenqueue`) after the failed attempt
has committed and freed the row: a death in between loses it, unless the queue
delivers the old task again.

**`ScanDesk`** puts the stewards' screens and the network on top of `CheckIn`: a
gate there is a worker serving requests for its event here. A scan's id is its
place in `token`; `wire` and `answers` are what is on its way, `serving` the scan
a worker's request is for, and each server step (`Arrive`, `Decide`, `Admitted`,
`RequestFails`) is a step of `CheckIn` together with its request and answer. The
browser's `navigator.onLine` (`net`) and the screen's copy of it (`online`) are
two variables because the code asks one in `submit` (line 230) and the other in
the replay (292); `slipped` marks the scans queued while they differ.
`admittedBy` is auxiliary.

**`Wizard`** is `use-wizard.ts`: `w` is the mounted hook (draft, history, timers,
last confirmed values, and the running `save` with its snapshot and stage),
`stored` is localStorage, `events` and `tierRows` the server. A save goes through
five stages, one request a step (`CreateEvent` or `UpdateEvent`, `UploadPoster`,
`AddRow`, `SetEventCrew`, `WriteTier`); `Request` gives each of them all its
outcomes (accepted, accepted with the answer lost, refused, not reached);
`Succeed` merges into the draft as it is by then, `Fail` sets badge and retry.
The persist effect runs with every change of the draft (`Show`). `OtherEdit` and
`OtherPublish` are another editor. The properties compare what is shown with the
server's event and rows (`OnServer`, `TierOnServer`), not with `savedEvent`, which
is only what the code *takes* for the server's fields; `told`, a history field,
remembers of which event and version the server was sent, or returned, just those
fields, and so tells when the code is `Misled`.

**`Checkout`** is the booking funnel in one tab: `c` holds the screen, its flags
and refs, the booking in context and the requests in flight; `attempts` is
sessionStorage; `holds` are the server's bookings. `Settle` runs the effects after
a step (check the hold in the URL, clear a stale booking, reserve), in the order
in which the component declares them; an answer (`CreateAnswer`, `CheckAnswer`,
`CancelAnswer`, `WriteAnswer`) goes to the closure that asked, whatever screen is
open by then (`Mine`, `Alive`, `Stray`). A donation or a code whose payment order
failed sends a second request, the re-read of `resyncBooking`, which is answered
(`ReadAnswer`) or fails and is ignored (`Lost`); another gateway (`changeTotal`
with `"gateway"`) has no such repair and does not keep anybody from pressing Pay.
`BrowserBack` also leads from the confirmation to the review screen, with the
booking that was polled in context. The booking API is external in this module;
`Booking` models it.

Operators named `X_Something` directly before `X` are mutated forms of `X`, the
bugs that `PROJECT.json` pairs with properties to show that each property can be
broken by a plausible mistake; no specification uses them.

### Abstractions

- Keys, vendors, people and codes are model values; amounts are small integers
  in paise; QR signatures and `lookup_ticket` write nothing and are left out.
- Time is a counter; a hold, a replay window, a scan window and the refund window
  are small numbers of ticks. `MaxTime`, `MaxOrders`, `MaxScans`, `MaxMoves`,
  `MaxReleases` and `Refundable` are bounds of the model; the first two appear in
  guards of `Tick` and of the order call, the others in guards of `Scan`, `Submit`,
  `MoveEvent`, `ReleaseBegin` and `RefundRecorded`. No proof rests on a bound.
- Tasks are a set, or a flag for the one settlement: repeated tasks collapse, and
  redelivery is modelled by keeping the task until its worker is done; a death, or
  a release that found the event not over, leaves it to the queue to deliver the
  task again or to have given up.
- The settlement's drain handles one event per transaction. The code's batch of
  100 holds several events of *one* transaction; every interleaving of status
  reads and updates of two events of one batch with a payout is one of two
  separate drains here, except that a batch commits together.
- `release_payout` keeps the lock from `lock_for_update` to the commit. What it
  does before the vendor call reads and writes under that lock, so it is one
  step with the lock's acquisition (`CallVendor`, `SettleZero`,
  `NoPayoutAccount`).
- The payment and payout vendors honour idempotency keys (the adapters rely on
  it and say so): a repeated call returns the first result.
- `Wizard`: an event's fields are two groups, `text` (what a create sends) and
  `rest` (what only a patch sends); sessions, running order, FAQs and questions
  are `rows`, each typed once; `gen` stands for the fresh keys a clone or reset
  gives rows and tiers. A clone's own tiers and rows are left out, closing the tab
  drops the running save and its timers, and a poster that was not uploaded is
  not restored. Of `publishBlockers` the model keeps that the event exists and has
  its fields, and that there are tiers, all saved. `on`, `touched` and `pressed`
  are history. The undo limit is a constant.
- `Checkout`: the buyer is signed in, has one tab and looks at one event; demo
  payments are left out; a server that refuses or fails is a fault counted by
  `MaxFaults`; no request takes as long as a hold lasts; a check or a cancel is
  processed and answered in one step; the failure screen's own repair of an
  order is left out; the provider's modal covers the page, and Back or a reload
  closes it.
- `ScanDesk`: a replayed entry keeps its id (the code makes a new one, nothing
  refers to the old); the screen's update and the replay are one step, so the
  browser is online while it replays; flash, sound, camera and the order of the
  list are left out; a reload returns to the link's event; the attendance cache
  does not move in `DeskNext` (no ticket and no answer depends on it).
- One coupon code with a fixed discount and a cap; percentages, windows and
  per-user caps are left to a later module.

## 3. Checks

| Run | Asks | Result |
| --- | --- | --- |
| `booking_quiet` | two bookings, two workers, cap of one redemption, with the assumption that nobody writes a row while its order call is open (`Overlap = FALSE`): `SeatsConserved`, `CouponLedgerMatchesRows`, `FinalStatusStays` | hold |
| `booking_overlap` | the same without that assumption, with two gateways, donations and a coupon, each booking either edited in every way or left plain: `TypeOK`, `CountersWithinCapacity`, `OneLiveHoldPerKey`, `OrderMatchesTotal`, `TotalAddsUp` | hold |
| `payments_race` | two orders of one booking, captured for its amount or another, delivered by webhook or reconciliation, two refund workers, lost hooks, crashes: `PayTypeOK`, `SeatsConserved`, `TicketsIffPaid`, `RefundedOnce`, `RefundKillsTickets`, `ConfirmedForItsTotal` | hold |
| `payments_live` | one order, time, lost webhooks, overlap: `MoneyOrTicket`, `LapsedHoldEnds` | hold |
| `checkin` | two gates, two tickets of one booking with different windows and a stray one, refunds, crashes: `LedgerAgrees`, `ImplementsDoor`, `AttendanceHeals` | hold |
| `scandesk` | two desks, two scans of one ticket, two workers at its event and one at another, a network that comes and goes, lost requests and answers, refunds, a window that closes: `DeskTypeOK` (with `CheckTypeOK`), `GreenOnce`, `OneRowPerScan`, `NoEndlessCheck`, `NothingLeftBehind` | hold |
| `settlements` | two payments (one refundable, with a donation), two release workers, a moved event, crashes: `SettleTypeOK`, `ImplementsPayout`, `PaysTheRecords`, `RunningTotalsAgree`, `SettlementEnds` | hold |
| `wizard` | one draft at a time, another editor, one failed or unanswered request, an outage, a closed tab: `WizTypeOK`, `NoStrandedEdit`, `BadgeSettles`, `SaveKeepsTyping`, `NoSilentRevert` | hold |
| `checkout` | two selections, six steps of the person, one fault, two holds: `CheckoutTypeOK`, `NoForgottenHold`, `ShowsWhatWasChosen`, `LoaderEnds`, `PaysTheCurrentTotal`, `NoZombieReserve` | hold |
| `booking_lost_update` | `TicketsWithinCapacity` with overlap | violated |
| `payments_abandoned_order` | `MoneyOrTicket` when a donation drops an order that a checkout still has open | violated |
| `wizard_publish` | `PublishKeepsWork` with nobody else and no failures | violated |

### What the violated runs show

1. **Lost update (booking/services.py:682).** `_ensure_payment_order` saves a row
   it read before the provider call. A cancel or an expiry that committed
   meanwhile is undone while its seats are already back in the pool: they are
   sold again, and the revived booking can be confirmed too. `booking_quiet`
   shows that this save is the only thing that breaks conservation: with the
   rows undisturbed during the call, everything holds. `booking_overlap`
   and the proofs show what survives it.
2. **Abandoned order (payments/services.py:561).** A repriced booking forgets its
   order; a customer who pays the forgotten order in a checkout that is still
   open gets neither tickets nor a refund.
3. **Publishing discards work (use-wizard.ts:740).** `publish` awaits `flush`,
   which returns at once when a save is running and does not throw when a save
   fails; the event goes live with what the server has, and `clearStored` removes
   the only copy of the rest.

### What goes wrong without a run

These were met while modelling. A property that one of them would break leaves it
out by a stated precondition, a constant or a history flag, and `PROJECT.json`
says so under the hazard; the others break no property that is stated here.

- Payments: the total compared with the captured amount is read before the
  booking is locked, and a donation in between is confirmed unpaid
  (payments/services.py:577; `payments_race` edits no total there). The refund of
  a mismatch is the booking's total, not what was captured (679). A process that
  dies between the commit that schedules a refund and the hook that enqueues it
  loses the refund, because the ledger row makes every later delivery a duplicate
  (644): under `HookLoss = TRUE` `MoneyOrTicket` fails, so `payments_live` has it
  `FALSE`, while `payments_race` loses hooks and its safety properties hold.
- Settlements: a refund's handler reads the status without the row's lock; if a
  payout is in progress it adds to a row that is paid by then, and no ADJUSTMENT
  row is written (settlements/services.py:88). The totals stay right.
- Wizard: the badge reads `saved`, "the server has it" (use-wizard.ts:57), and
  nothing is scheduled, over fields the server does not have, in five ways. A
  create sends `toCreateInput` only and then takes *all* fields for saved
  (505-507), so what was typed of the rest before the event existed is never sent
  until one of those fields changes again; a created draft that is restored is
  taken for saved whole (320-324); somebody else saves the event later; a save
  lands and its answer is lost, and the fields are changed back; undo or redo
  brings back another event's fields. `NoStrandedEdit` and `BadgeSettles` leave out
  exactly these (`Misled`), and, for a tier, a save of it whose answer was lost
  (`TierOnServer`).
- Wizard: when a tier fails after the event was created, the merge is skipped and
  the next save creates a second event (use-wizard.ts:505, against 538); a lineup picked during a
  save is cleared (690); a clone begun while a save runs takes over the other
  event's id (256); an undo across a save brings back the old version with
  the old fields, so the next save is refused, or, when there was no event yet,
  creates a second one (450-460).
- Checkout: a reserve answered with a hold that has ended leaves the loader for
  good (step-review.tsx:382-391; `retried`). Try again always starts a new attempt
  (562), against attempt.ts:31, and takes second seats when the first answer was
  lost; an expiry or an ended booking that moves a number on does so under a
  reserve of a screen that was left, too; and `bumpAllAttemptsForEvent`, on leaving
  (funnel-shell.tsx:233), once paid, or when an old paid booking is opened
  (step-confirmation.tsx:173), moves on the numbers of bookings that are still
  held, and nothing will find those again (all three `blind`). A hold in the URL
  is taken over under the signature of whatever tickets are on the screen (231;
  `foreign`). The screen that says the hold ran out may reserve by itself
  (546-548), and an answer to a screen that was left still changes the booking, the
  URL, the page or an attempt, or opens the provider's modal (401, 243-250,
  payment-section.tsx:175; all `stray`). Pay can open an order that the booking
  does not have any more, against step-review.tsx:579-593 and
  payment-section.tsx:95-105: when a donation's or a code's answer is lost or
  overtaken (619, against 524; `crossed`); when its order failed and the re-read
  failed too, which is ignored (588-593; `old`), because Pay repairs only an order
  that is *missing* on the screen (payment-section.tsx:182); and while another
  gateway is under way, which does not disable Pay (step-review.tsx:1105-1111), or
  got no order, after which the screen keeps an order that `set_payment_gateway`
  has cleared (`old`; payment-section.tsx:609-611 and 651-656 say that it is still
  payable). Back from the confirmation shows the review screen, with Pay, over the
  booking that was polled, even paid, which only the reserve asks about (308-315),
  and the re-read shows a booking whatever its status (`returned`). A check of the
  hold in the URL that fails lets the screen reserve, as its comment wants
  (247-251), for somebody who may have given that hold up (`opened`). "Back
  to your booking" (step-failed.tsx:130) and "Finish payment"
  (step-confirmation.tsx:267) open the review screen without a selection, which
  gives the live hold back, against payment-section.tsx:298-300.
  `bumpAllAttemptsForEvent` only bumps attempts that were stored (attempt.ts:103).
- Scan desk: "The scan was not recorded" (scan-desk.tsx:262) is shown for a call
  that failed, recorded or not. A scan made while the browser is offline and the
  screen does not know yet waits until the next outage if the connection comes
  back before the screen is told (`slipped`). The queue is sent for the event
  picked at the replay, newest scan first. A green flash belongs to the answer
  that came, not to the scan made last (247).

### Bounds

Two seats in one tier, with requests for one and for both, are enough for the
last seat to be contested, for a hold to be partly confirmed-and-resold and for a
refusal. Two bookings and two workers are enough for a key held by a dead, a live
and a racing booking. `MaxTime = 2` with holds of one tick lets a hold be live,
lapsed and swept, and sales close. One booking with two orders covers every
reprice between capture and delivery; two refund workers cover redelivery. Three
scans at two gates cover a double scan and a re-scan. Two payments cover a net
from a kept and a refunded payment, `MaxReleases = 2` with `MaxAttempts = 2`
covers first attempt, retry, dead letter and (after `NoPayoutAccount`) a manual
second trigger. In `settlements` the window has closed when time begins
(`WindowEnds = 0`) and `MaxMoves = 1` lets the organizer move it to tick 1: before
the first sale, between the stamp and the release, or under a queued release,
which then finds the event not over (`ReleaseSkips`) and is tried again or left to
the hourly job. Symmetry is
declared only in runs without liveness properties, over values the
configuration uses interchangeably.

`booking_overlap` explores two kinds of history under a `CONSTRAINT`
(`OneEditedOrTwoPlain`, in `MCBooking`): one booking edited in every way before
time passes, or two bookings that stay as they were created, through all times.
The invariants on amounts are about one booking at a time and those on seats and
keys do not depend on edits; both together, unconstrained, do not fit in a run.
The proofs of all five need no such bound.

`scandesk`: two desks and two workers race for the one ticket, the third worker
serves a request for the wrong event; two scans are a double scan, a re-scan
after a lost answer, or a queue of two. `wizard`: two edits are enough for one
before and one during a save (of `rest`, too, before the event exists), two
openings for a crash and a restore, one other editor's change for a version
conflict; `wizard_publish` has a third edit and no disturbance at all. `checkout`:
six steps reach a reserve, a way back, another choice, and a reserve again with
one lost or refused request anywhere, or a donation and a gateway with a payment;
two holds are the one kept and the one forgotten. A re-read that is lost is part
of the outage that failed its write and is not counted as a second fault, so one
fault is enough for an order and its re-read to fail. The proofs of all six
properties need none of these bounds.

Deadlock is checked in every run but four: `settlements` comes to rest when the
event is over, its events are drained and the settlement is paid; `wizard`,
`wizard_publish` and `checkout` stop when the person has used up the steps the
bounds allow.

### Fairness

- `PayFairSpec`: time passes; the sweeper and the reconciliation are scheduled
  jobs that run again and again; a request waiting for the provider gets an
  answer or an error (the client has a timeout); the queue redelivers a refund
  task until it succeeds, so a step that is possible again and again is taken
  (strong fairness, because crashes and vendor failures can disable it).
  No fairness is assumed of webhooks except in `PayWebhookSpec`, used only by
  `payments_abandoned_order`, where even their arrival does not help.
- `CheckFairSpec`: a request that reached a gate's worker ends, somehow; the
  freshness marker has a TTL of 5 s; a dashboard polls the events in `Watched`.
- The browser modules state no fairness: their properties are safety properties.
  `NoStrandedEdit`, `BadgeSettles`, `LoaderEnds` and `NoEndlessCheck` say what a
  liveness property would need of the code (something that is still to come), and
  leave it to the browser that timers fire and requests end.
- `SettleFairSpec`: time passes, the hourly job runs, and *some* worker takes
  each step of a release that is possible again and again. No fairness for the
  outbox drain, for the organizer or for an administrator.

## 4. Proofs

| Theorem | States | Rests on |
| --- | --- | --- |
| `BookingProofs!TypeCorrect` | `Spec => []TypeOK` | `TypeOK` is inductive; `SubtotalType`: a basket's subtotal is a natural number |
| `BookingProofs!NoOversell` | `Spec => []CountersWithinCapacity` | every reserve is guarded by availability, and release and confirm are clamped to `reserved` |
| `BookingProofs!OrderForTotal` | `Spec => []OrderMatchesTotal` | the same must be said of the row a worker carries across the call: its order, if any, fits its own total |
| `BookingProofs!InvoiceAddsUp` | `Spec => []TotalAddsUp` | `InvoicesAddUp`: rows *and* carried copies add up, so that the unlocked save restores an invoice that adds up |
| `BookingProofs!OneHoldPerKey` | `Spec => []OneLiveHoldPerKey` | `RowsKeepKeys`, `CopiesKeepKeys`: keys are unique among rows, and a row that is still a live hold, stored or carried by a worker, has the key it was created with |
| `BookingProofs!FinalIsFinal` | no overlap: `Spec => FinalStatusStays` | `CopyIsCurrent`: the row a worker carries is the row that is stored, so the unlocked save changes its order and nothing else |
| `BookingProofs!SeatsAreConserved`, `PaidHasTickets`, `NoOverIssue` | no overlap: `[]SeatsConserved`, `[]TicketsIffPaid`, `[]TicketsWithinCapacity` | one invariant of the three; sums over all bookings change by one booking's seats (`SumChange`), and a tier's `reserved` is at least what any one hold gives back, so no clamp bites |
| `BookingProofs!CouponLedgerAgrees` | no overlap, a code that takes something off every basket: `[]CouponLedgerMatchesRows` | the ledger has a booking exactly while it is held or paid at a discount |
| `PaymentsProofs!PaymentsAreBookings` | `PaySpec => Spec` | a handler's or a refund's step is a `ConfirmBooking` of a booking whose order it has, or leaves `Booking`'s rows alone |
| `PaymentsProofs!PaymentsTypeCorrect` | `PaySpec => []PayTypeOK` | every amount and order a handler, a task or a record mentions is known to the provider |
| `PaymentsProofs!OneRefundRow` | `PaySpec => []RefundRowIff` | one Refund row when a payment is refunded, none before, with any re-pricing |
| `PaymentsProofs!PaymentsConserveSeats`, `PaymentsIssueOnce` | no overlap: the same as for `Spec` | `PaymentsAreBookings` |
| `PaymentsProofs!RefundedTicketsAreVoid` | no overlap: `PaySpec => []RefundKillsTickets` | `IssuedArePaid`: a payment that issued tickets was captured and its booking stays paid with the tickets it has |
| `PaymentsProofs!PaidInFull` | no re-pricing: `PaySpec => []ConfirmedForItsTotal` | `PricesFixed`, `HandsCharge`, `IssuedCharge`: rows, carried copies and what a handler has checked agree on one price per booking; `PaidByOrder` |
| `PaymentsProofs!RefundsAreRecorded` | no re-pricing: `PaySpec => []RefundedOnce` | what a worker carries to the vendor, what the vendor returned under the key, and what is recorded are one amount |
| `CheckInProofs!CheckInCorrect` | `CheckSpec => []CheckInv` | `CheckInv` = types, `RightGate` (a waiting or admitting request is for a ticket of its gate's event), `LedgerAgrees` |
| `CheckInProofs!TrailAgrees` | `CheckSpec => []LedgerAgrees` | corollary of it |
| `CheckInProofs!GateIsADoor` | `CheckSpec => ImplementsDoor` | `CheckInv` and `DoorStep`: admission is `Admit`, a void is `Withdraw`, everything else stutters |
| `ScanDeskProofs!DesksKeepTheGate` | `DeskSpec => CheckSpec` | every desk step leaves the gate's variables alone, every server step is a `GateStep` (a request's token is a ticket, from `DeskTypeOK`) |
| `ScanDeskProofs!DesksTypeCorrect` | `DeskSpec => []DeskTypeOK` | part of `DesksAndGate`, the invariants of desk and gate together |
| `ScanDeskProofs!GreenStandsOnce` | `DeskSpec => []GreenOnce` | `DeskInv` = types, `RequestsKnown` (a busy worker's request is for the ticket its scan read), `AdmissionsKnown` (who admitted a ticket is the scan whose worker did, and its answer says so), `GreenKnown` |
| `ScanDeskProofs!DesksAreADoor` | `DeskSpec => ImplementsDoor` | `DesksKeepTheGate` and `GateIsADoor` |
| `ScanDeskProofs!QueueIsReplayed` | `DeskSpec => []NothingLeftBehind` | `DeskTypeOK`; a queued entry of a desk shown online was queued under that state, or sent by the update that set it |
| `ScanDeskProofs!ChecksAreAlive` | `DeskSpec => []NoEndlessCheck` | a scan is in one place at a time: on the wire, with a worker, answered or settled; a worker that serves a scan is busy |
| `ScanDeskProofs!TrailCountsScans` | `DeskSpec => []OneRowPerScan` | the rows of a ticket are at most the scans of it that a worker has decided, and a scan is decided once |
| `SettlementProofs!PaysExactlyOnce` | `SettleSpec => []PaidOnce` | `OnceInv`: the shape of the row, `LockInv` (at most one worker between lock and commit; it carries an unpaid copy, and the row is unpaid while it does), `RowsInv` (no SUCCESS row or exactly one) |
| `SettlementProofs!SettlesAsPayout` | `SettleSpec => ImplementsPayout` | `PayoutInv` = types, `OnceInv`, `SentInv` (a worker that has the vendor's answer has money behind it): a vendor call is `Send` or repeats what was sent, `SettleZero` and `ReleasePaid` are `Close`, everything else stutters |
| `SettlementProofs!SettleTypeCorrect` | `SettleSpec => []SettleTypeOK` | `OnceInv`; sums of natural numbers are natural numbers |
| `SettlementProofs!PaysTheRightAmount` | `SettleSpec => []PaysTheRecords` | `AmountsInv`: a worker between lock and commit carries the net of the records it read, and so does the payout; captures and refunds made since do not change that net |
| `SettlementProofs!TotalsAreExact` | `SettleSpec => []RunningTotalsAgree` | `EventsInv` (an event is about something on record, and one drain handles it), `StartedInv` (no release before the first event); publishing an event adds one payment to the sum (`SumAdd`) |
| `WizardProofs!WizardTypeCorrect` | `Spec => []WizTypeOK` | `ShapeInv`: hook, draft, history, running save, localStorage and server fit each other (what a draft names exists; a save at a stage has what that stage needs) |
| `WizardProofs!OthersAreNotReverted` | `Spec => NoSilentRevert` | `ShapeInv`, which says that every draft, in memory, in the history or stored, carries the version its fields were read at or saved as |
| `WizardProofs!TheBadgeSettles`, `NoEditIsStranded` | `Spec => []BadgeSettles`, `Spec => []NoStrandedEdit`, both of the fields and rows the *server* has, but for the five ways in which the code is `Misled` | `Marked` (what the badge says, and a queued save, has a save or a timer behind it), `Settling` (with nothing queued, what is shown is what the running save works on, or what it got confirmed, or a draft that cannot be saved), `Heard` (what was confirmed is what the server has at the event and version `told`, and of each tier at the version kept with its values) |
| `WizardProofs!TypingIsKept` | `Spec => SaveKeepsTyping` | `LandedInv`: rows that landed during a save are on that save's event, so the merge takes away only what the server has |
| `CheckoutProofs!CheckoutTypes`, `HoldsAccountedFor`, `ShowsTheChoiceUnlessForeign`, `LoaderWaitsUnlessRetried` | `Spec => []CheckoutTypeOK`; but for the histories the properties name (`blind` and `stray`; `foreign`; `retried` and `stray`), `[]NoForgottenHold`, `[]ShowsWhatWasChosen`, `[]LoaderEnds` | `Invariance`: `Spec => []CheckoutInv`, see below |
| `CheckoutProofs!OpensTheCurrentOrder`, `NoZombie` | `Spec => PaysTheCurrentTotal`, but for `crossed`, `stray`, `old`, a gateway under way and `returned`; `Spec => NoZombieReserve`, but for `opened` and `stray` | `NextKept` (every step from an invariant state opens the payment right) and the invariant after the step: who quit has no reserve of his own in flight (`Quit`) |

All of it holds with free overlap (`Overlap` is a constant of either value) unless
the table says otherwise.

**The two hypotheses.** "No overlap" is `~Overlap`: nobody writes a row while its
order call is open. Without it the code's lost update makes the conservation of
seats, `TicketsIffPaid` and the coupon ledger false (`booking_lost_update`
shows it), so the hypothesis says precisely that the unlocked save is the only
cause. "No re-pricing" is `NoRepricing`: no donations and no coupon, so that a
booking keeps its total. Without it `ConfirmedForItsTotal` is false (a donation
between the amount check and the lock, payments/services.py:577), and so is
`RefundedOnce`: when the donation changes between two deliveries of one refund, the
second execution records its own amount (709), while the provider, under the same
key, returned the first. `OneRefundRow` says what is left of `RefundedOnce` then.
`payments_race` has the same two hypotheses in its configuration.

**The checkout's invariant.** A step of `Checkout` is a handler or an answer, and
then the screen's effects (`Settle`: check the hold of the URL, clear a stale
booking, reserve) run on what it left. The invariant is therefore a predicate of
*a tab*, the attempt numbers and the bookings, `Good(c, attempts, holds)`, beside a
weaker one, `Ready`, of a tab whose effects have still to run. One lemma
(`Finish`) says that `Settle` makes a ready tab good; one lemma per action
(`ReviewOpens`, `PayKept`, `RetryHoldKept`, ...) says that the action makes a good
tab ready. The parts, each of which the others need:

- `Facts`: requests speak of bookings that exist, under numbers that were given
  out, and a number never has two live bookings (`OneLive`);
- `Places`: which screen has which booking in context, in its URL and behind Back;
- `Screen`, `ScreenReady` / `ScreenSettled`: what the flags of the review screen
  (checked, asked, attempted, timer, err, over, seen) say of the requests it has
  in flight, before and after the effects;
- `Quit`: who gave up a live hold has no reserve under way;
- `Numbers`: every reserve in flight and every live hold that nobody gave up is
  under the current attempt number of its tickets, so a retry finds it;
- `Tags` and `Clears`: what a booking in context was reserved for;
- `Totals`: one write of a kind at a time, and the order in context is the
  booking's unless a write that changed it has still to be answered or re-read, or
  the copy is `old`.

`stray`, `foreign`, `loose`, `blind`, `crossed`, `old`, `opened` and `returned` are
the history flags of `Checkout` that say when an answer, or a number that moved on
under a reserve, has taken a guarantee away; each part says which of them it
depends on, and the theorems name the same ones as the properties do. The
theorems are therefore about the histories that remain: each flag stands for a
way listed in section 3 in which the code does not keep the promise.

**Sums.** The library's induction theorems take operators as parameters, which the
installed provers cannot instantiate, so `SumLemmas` does the one induction that
the seats, the money and the trail need without them: the fold the community
modules define `SumFunctionOnSet` by is a recursive function on finite subsets,
and a counterexample would have a smallest one. From that come
what a sum is over the empty set, with one element more or less (`SumStep`,
`SumAdd`, `SumRemove`), after one value changed (`SumChange`), and its bounds; no
other module reasons about folds.

**Assumptions.** `ConstantsAssumption` (types of the constants of `Booking`; finite
sets of tiers and bookings; a discount, a fee and prices that are natural numbers),
`FreshTiers` (the tiers start with no seat sold or reserved), `SettlementConstants`
(finitely many payments; a fee and a donation that fit in the amount),
`CheckInConstants` (finitely many tickets and events), `DeskConstants`,
`WizardConstants` and `CheckoutConstants` (types; there is a text to type; no
selection is the value for none). TLC evaluates each of them in
every run of its module. That a subtotal is a natural number is a lemma. No proof
rests on a bound: `MaxTime`, `MaxScans`, `MaxEdits` and the like are arbitrary
natural numbers there.

**Refinements.** Four are proved. `PaySpec` implements `Spec` of
`Booking`, so that what is proved of bookings holds of payments; `DeskSpec`
implements `CheckSpec`, which implements `Door`; and `SettleSpec` implements
`Payout`. The last is what `settlements` checks instead of `PaidOnce`, which says
less: that the status and the SUCCESS row come together, not that neither is
undone later or that no money leaves after them.

**Only model-checked.** `MoneyOrTicket`, `LapsedHoldEnds`, `AttendanceHeals` and
`SettlementEnds` are liveness under fairness, and stay with TLC. So does every
counterexample: that a property fails is shown by a run.

## 5. Not modelled

Deployment, read models (console, organizer dashboards), content and profile CRUD
(cms, performers, reviews, support, maps, integrations), accounts and
organization verification: they share no state with seats and money beyond
foreign keys. Attendee names, sharing of tickets, refund requests by customers
and the cancellation of a whole event end in operations that are modelled
(refund task, cancel), and are candidates below. Notifications, the worker loop
and the batches of the outbox are planned as `Delivery`.

Of the frontend, most files are presentation: pages, forms, charts, styles and
read-only lists without state that outlives a request, and a development mock of
the API. They have no behaviour a model could say more about than their source,
so the share of all frontend lines that is modelled stays small; what is
modelled are the state machines. Of those, the token refresh of the session
client (lib/api/client.ts), sign-in inside the checkout, a second tab on one
event, the wizard's field validation and the poster's upload progress are left out.

Known limits of the code that a property would not help: a settlement's second
try after a crash may record a net different from what the vendor paid the first
time (settlements/services.py:158), and the scan window is checked before the
wait for the row lock (checkin/services.py:168).

## 6. Plan

Done: `Tier`, `Booking`, `Payments`, `Door`, `CheckIn`, `ScanDesk`, `Payout`,
`Settlements`, `Wizard`, `Checkout`, with their runs and the proofs above. Next, in
this order:

1. **`Delivery`**: `publish_pending` in batches with failing handlers, notify /
   dispatch / `sweep_stuck`, the worker loop; composed with an abstract
   `Mailbox` (one message per dedupe key, sent at least once, and once when no
   worker dies between send and commit). Liveness: a claimed message ends sent or
   failed, and every recorded event is published.
2. **`RefundRequests`**: the customer's request, its decision and the refund task
   (`payments/services.py` 761-958), with the invariant that an approved request
   and a recorded refund meet.
3. **`TierEdit`**: the organizer's edit of a tier against reservations, and the
   event's denormalised price (`ticketing/services.py` 211-223, 308-419).
4. **`Coupons`**: caps per code and per user under the coupon's lock
   (`coupons/services.py` 399-620).
5. **`Pricing`**: the price rules as functions against a reference definition.
6. Lock order: reserve over several tiers against `cancel_event`, as a deadlock
   question.
7. **`Session`**: concurrent requests that share one token refresh
   (`lib/api/client.ts`), and a second tab in `Checkout`.
