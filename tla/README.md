# BookingOS: a verification development

This directory models the core of BookingOS, a multi-tenant booking platform:
what happens to the money and to the slot of a booking when customers, partners,
tenants, payment providers, background workers and an at-least-once event relay
act on it at the same time. TLC checks the models on small instances, TLAPS
proves the most important facts for every instance.

Paths below are relative to `src/apps/api/src/` unless they start with `src/`.

## 1. Inventory

BookingOS is a NestJS modular monolith over one PostgreSQL database with Redis
for holds. Eighteen bounded contexts live under `modules/`; two React front ends
and a few shared packages use its API. The contexts that carry the program's
own logic are three, and they interact only through transactional outbox events:

| component | state | operations | hard behaviour | what makes it correct |
|---|---|---|---|---|
| booking | `bookings` (status, paid_amount, refund_due_amount, hold, fulfilment), Redis holds, status history | create, approve, reject, confirm, record balance payment, cancel, no-show, completed, returned, finalize refunded; sweeps: expire, auto-complete, auto-return | slot exclusion among concurrent creators and late payers; scans whose rows are stale when written; payments after the hold expired | a slot is confirmed for one booking at a time; `refunded` is final; a paid customer has a booking or a refund |
| finance: custody | `booking_settlements` (status, held, refunded, retained, deadline, refund_id), ledger journals | record held, open windows, freeze for a refund, finalize refund, release, claw back | release and clawback read and write in separate statements; events repeat and arrive in any order | revenue stands exactly while custody is released, and for exactly what was not given back |
| finance: disputes | `settlement_disputes` (one per settlement) | open, respond, resolve for release, resolve with refund | races with the release sweep and with refunds in flight | nothing is paid out while a dispute is open |
| finance: tax | `tax_withholding_events` | assess, reverse | cumulative amounts recomputed by repeated events | never reverses more than was withheld; ends up reversing exactly the refunded part |
| finance: payouts | `payouts`, `payout_allocations` | compute, create, mark paid, fail | concurrent creations for one payee, whose reads other statements slip between; first-in-first-out allocation over settlements that are refunded and released again | no settlement is claimed beyond its worth, and what is payable can be allocated but for balances captured late |
| finance: amounts | the split of a price, `accounts` of the ledger | split, withhold, release, reverse in part | the same figures are computed at the end of the service, after refunds, and by the affiliate module | the accounts say what the rows say |
| payments: payments | `payments` | checkout, webhook, poll, reconcile | webhook, poll and sweep settle the same payment | one decision per payment |
| payments: refunds | `refund_batches`, `refunds`, `manual_refund_operations` | plan a batch, execute automatically, confirm by hand, run the manual workflow, recover | per-reason uniqueness under a lock; provider calls outside transactions; lost and late answers; people and gateways that pay the same refund | refunds never exceed captures; a batch is announced once, when paid; every refund owed is eventually planned |
| outbox | `outbox_events` (processed_at, attempts, available_at, dead_lettered_at) | emit, claim with a lease, dispatch to handlers in order, mark processed, retry with back-off, dead-letter | leases lapse while a handler runs; a crash between handlers; poison events | at least once, in registration order per delivery; nothing is dropped silently |
| promotions | `promotions.redeemed_count`, `promo_redemptions` | reserve with the booking, apply, release, end | events in any order and repeatedly; a restored booking reserves again | the counter is the number of live uses |
| affiliate | `affiliate_commissions` | record pending, confirm, reverse, claw back, mark paid | follows the same events | the amount shown is the amount booked |
| notification, partner | deliveries, revenue totals | handlers of the same events | as above | |
| all others | single-row records and queries | see `PROJECT.json` | | |

How they interact. A use case changes its own rows and emits events in one
`forTenant` transaction (READ COMMITTED). The relay claims due rows and calls
the handlers of an event one after another, each in a transaction of its own, in
the order the modules register them: finance, then booking, then payments. A
handler that throws makes the relay try the whole event again later. Two sweeps
(release, reconciliation) act without an event.

```
booking.cancelled   finance freezes custody        payments plans the refund batch
booking.no_show     finance opens a window         payments plans the deposit refund
booking.completed   finance opens a window
booking.returned                                   payments plans the deposit refund
refund.completed    finance finalizes, claws back; booking becomes refunded
booking.refunded    finance claws back
settlement.release_requested    finance releases
settlement.refund_requested                        payments plans the dispute refund
refund.recovery_requested                          payments plans the missing batch
payment.succeeded   finance recomputes custody     booking confirms or records the balance
```

`PROJECT.json` lists every component with its status and every hazard at its line.

## 2. Plan

The order follows the money, then what guards the slot, then the machinery both
rest on.

| | modules | what | abstract specification | status |
|---|---|---|---|---|
| 1 | `Custody`, `Escrow`, `CustodyProofs` | end of a booking, custody, dispute, refund batches, journals, tax, events | `Escrow`: repaid only grows, the rest is earned once | done |
| 2 | `BookingSlots`, `BookingSlotsProofs` | bookings of one resource from request to refund, scheduler, late payments | exclusive slot (stated as the invariant `NeverOversold`) | done |
| 3 | `Outbox`, `Delivery`, `OutboxProofs` | lease, attempts, back-off, dead letter, overlapping relays | `Delivery`: at least once, in order per event | done |
| 4 | `Refunds`, `Reimbursement`, `RefundsProofs` | the refunds of a batch over several captures, gateway calls outside transactions, lost answers, confirmation by hand, the manual workflow | `Reimbursement`: each promise once, never above a capture, announced when paid | done |
| 5 | `Payout`, `PayoutProofs`, `SumTheorems` | payee lock, first-in-first-out allocation of released settlements, paid, failed, clawed back afterwards | stated as invariants | done |
| 6 | `Promotions`, `PromotionsProofs` | `BookingSlots` composed with the counted uses of a promotion | counter = live uses | done |
| 7 | `Earnings`, `EarningsProofs` | split, VAT, withholding, journals by account and the affiliate commission, to the dong | the accounts say what the rows say | done |

Every safety property that a run checks is also a theorem (section 5). Open: the
theorems of `Custody` for days with retries and online balances, with what then
holds instead; the races of the affiliate handlers; the price of a booking (quote, tiers, surcharges, which promotion
applies); the workflow of tax filings.

## 3. Modules and code

Composition. `Custody`, `BookingSlots` and `Promotions` each contain the outbox
as their handlers see it. That view is not assumed: `Custody` is proved to
behave as `Delivery`, and `Outbox`, the relay itself, is proved to implement
`Delivery`. `Custody` starts where `BookingSlots` confirms. What `Custody` takes
for one step, a batch that is announced once and when paid, is what `Refunds`
proves. `Promotions` extends `BookingSlots` and composes its actions; that the
composition changes no booking in a new way is a lemma. `Payout` abstracts the
settlement of `Custody` to what its payee's account sees, and the tax a release
subtracts there is any amount that `Earnings` shows possible.

### Custody (one booking, `Deposit`, `Final`, `Security` as parameters)

| variable | code |
|---|---|
| `booking`, `paid`, `refundDue` | `bookings.status`, `paid_amount`, `refund_due_amount` |
| `balance` | the balance payment: none, link open, succeeded |
| `report`, `returned` | figures carried in the payloads of `booking.completed` and `booking.returned` |
| `settlement` | `booking_settlements`: status, release kind, held, refunded, retained, on-site cash, `due` (the deadline has passed), `refund_id` |
| `dispute` | `settlement_disputes` |
| `batches` | `refund_batches` by reason; `affects` is `settlement_amount > 0` and the reason's rule |
| `ledger` | revenue and clawback journals in order, with their cash |
| `tax` | `tax_withholding_events`, in terms of the revenue they were computed from |
| `outbox` | per event: state and the longest prefix of handlers that has committed |
| `txs` | a release or clawback between two of its statements |

Actions are the use cases by name (`MarkCompleted`, `CancelBooking`,
`StartSettlementWindow`, `FinalizeSettlementRefund`, `ResolveWithRefund`, ...).
A use case that writes with one guarded UPDATE is one action. `ReleaseSettlement`
and `RecordClawbackJournal` read rows, compute and write later, so they are
`BeginRelease`/`CommitRelease`/`AbortRelease` and
`BeginClawback`/`ReadClawbackEntries`/`CommitClawback`, executed by a worker.
`Outdated` marks release transactions whose plan another writer has invalidated.
A dispute is compared with the deadline as of the start of its transaction, so it
can still land while a release that found the deadline passed is under way
(`OpenSettlementDispute`); the guarded UPDATE of the release then matches nothing.
`StartSettlementWindow`, `FinalizeSettlementRefund` and `ResolveWithRefund` read,
compute and write in one step, because their UPDATEs are guarded by the status they
have read. `ReleasePlan` is that of a partner's booking; the legs of a house
partner's journal are in `Earnings`.
Finance's handler of `refund.completed` is two transactions and counts as two.

### BookingSlots (`Bookings` of one listing, `Overlaps` between their periods)

`bookings` has status, `overdue` (expires_at passed), `refundDue`, `paid`;
`payments` one attempt per booking and method; `events` the `payment.succeeded`
of each; `rows` what the scheduler's queries returned and it has not acted on;
`txs` confirmations and late refunds between their statements. `Admits` is the
exclusion constraint of the migration (calendar) or the count under the advisory
lock (inventory). `ConfirmBookingUseCase` is `BeginConfirm` (the read), then
`Confirm`, `FindSlotTaken` or `LoseConfirmationRace` (the guarded UPDATE and what
its failure leads to), then `AutoRefund` in a transaction of its own.

### Promotions (extends BookingSlots; one promotion with `Limit` uses)

`offer` is the promotion's status, `redeemed` its `redeemed_count`, `redemptions`
the row of each booking in `promo_redemptions` (`booking_id` is unique),
`announced` the events of a booking that promotions handle. A use is claimed in
the transaction that creates the booking (`BookWithPromotion`), so it is one
action with it, and the actions that end in an event are composed with the event
(`RejectAndTell`, `SweepAndTell`, `CancelAndTell`, `ConfirmAndTell`,
`AutoRefundAndTell`). `ApplyUse` and `ReturnUse` are the handlers: they may run at
any time after the event, in any order and again and again, which is at least
what the relay does. A confirmation that restores an expired booking reserves the
use again (`ReservesAgain`); since the returned redemption keeps its row, the
insert fails and the confirmation is rolled back: `RestoreFails`.

### Refunds (one booking; a batch per reason, a refund per capture)

| variable | code |
|---|---|
| `batches` | `refund_batches`, with the number of `refund.completed` emitted |
| `refunds` | `refunds`: amount, status, mode, whether evidence was given |
| `planning` | `ExecuteRefund` between its read of the workflow flag and its commit |
| `operations` | `manual_refund_operations`: status, claimed by somebody |
| `workflow` | the tenant's flags `manual_refund_v2` enabled and paused |
| `confirming` | confirmations by hand that read the flag and have not written |
| `tasks` | `ExecuteAutomaticRefund` of each worker: prepared, answered |
| `provider` | what the gateway really did |
| `transfers` | bank transfers of the payout gateway, sent and not yet recorded |

`ExecuteRefund` plans under the lock of the booking: `NewestFirst` is the
allocation over the captures. The gateway is called between two transactions
(`PrepareExecution`, `CallGateway`, `RecordAnswer`), and an answer can be lost
(`LoseAnswer`): the sweep asks again. `RefreshStatus` classifies the batch after
every change and announces it once. The use cases of the workflow carry their
names. What is abstracted: who the maker and the checker are (a claim is a
flag); the expected version, since a compare-and-swap that fails changes nothing;
the break-glass approval, which is `Approve`; providers are idempotent per refund
id, which is what the gateways promise (a request id that contains the date and
the mock gateway excepted); all captures have succeeded before a refund is
planned; a transfer by hand counts where it is recorded.

`Reimbursement` is what the rest of the system relies on: `promised`, `returned`
and `announced` per reason.

### Payout (one payee, its settlements and runs)

`settlements` is what the account sees of a settlement: the credit of its active
revenue journal, the tax withheld and not reversed, the payable that its release
froze, whether it is held, in its window, released or refunded, and as a history
field `worth`, the most a release has made it payable for. `payouts` has the
runs with their allocations, `clock` orders the releases. A balance captured after
the window (`RecordHeldSettlement`, `late`) is in the journal that the release
books and not in its payable: the journal subtracts what was not captured online by
then, the payable the cash on site that the window has frozen. Creating a run is
split at its statements: `BeginCreate` takes the lock of the payee and reads the
mature balance, `PlanCreation` the outstanding runs, then
`AllocateReleasedSettlements` and `CommitCreate`; everything but another creation
can commit in between. `FifoAllocation` is the loop over the released
settlements, as a sum over the earlier ones. Abstractions: journals mature at
once (the window has passed when they are written); `processing` is never visible;
the statuses a settlement passes while its window is open are one; cash
collected on site is the debit the partner's leg carries; rounding of taxes
is the choice of `ReleaseTax`.

### Earnings (one booking, to the dong)

`booking` is the frozen row with its commission snapshot, `told` its events,
`settlement` and `tax` the rows of finance with their amounts, `accounts` the
balances of the ledger accounts the booking touches, `commission` the affiliate's
row. `CommissionSplit` translates `computeCommissionSplit` with both VAT methods,
fixed and percentage rates, house partners, discounts borne by the tenant or the
partner, and the taxes a share cannot bear. The split is computed when the
service ends (`StartSettlementWindow`, `StartNoShowWindow`), again on what the
refunds have left (`ReleasedSplit`), and by the affiliate module
(`AffiliateCommission`); the tax is assessed once and reversed in parts. Handlers
run once and in one step: repetition, reordering and clawbacks are in `Custody`.
`RecordHeldSettlement` captures the balance at any time, whatever has become of the
booking and of its settlement; `seen` is a history of what was held when the
window, the fee and the journal were made.
The settlement holds no security deposit here, a deposit is at most the
discounted price, and a cancellation fee goes to the tenant, as in the code.

### Outbox (`Events` in order of creation, `Relays`)

`rows` are `outbox_events`: emitted, available, processed, dead, redacted,
attempts. `claims` are the copies a relay read with `claimBatch`; `step` is the
handler it has reached. `Claim` leases, `BecomesAvailable` ends a lease or a
back-off at any later time, whether or not somebody still holds the row. `Handle`,
`Finish` and `Fail` are `dispatch`; they write back by id with the counts read at
the claim, as the code does. `Crash` is a relay that dies with a batch; an
error in the update of the catch branch, which ends `drainDueEvents`, looks the
same. `done` and `failures` are history variables.

## 4. Runs

| run | instance | what it shows |
|---|---|---|
| `serial` | every handler once, one worker, a policy of 50%, a deposit of 4 of 6 and a security deposit of 2 | journals, refunds, tax and custody agree at every quiet moment; `Custody` implements `Escrow`; the money gets settled unless a tenant or the provider is waited for |
| `redelivery` | handlers repeat, two workers overlap, balance link open | revenue is never booked again before a clawback, tax is never over-reversed, `refunded` is final; the outbox behaves as `Delivery` |
| `faults` | one lost event, refunds may fail, recovery on | nothing claims a refund that was not made; cancellations and no-shows get theirs |
| `slots` | two bookings of one calendar period, two relay workers, one lost event, handlers repeat | one buyer per period; a decided refund stands; stale scheduler rows do no harm; captured deposits end in a booking or a refund; waiting ends |
| `promotions` | two bookings of one period, one with a balance, and one use of a promotion | uses are counted once and not returned while consumed |
| `refunds` | a deposit by card, which its gateway can only void, and a wallet balance; two reasons; two executors; one confirmation under way, one transfer; the workflow enabled and paused at any point | no capture is refunded beyond its amount; a batch is announced once and in full; rows agree with the provider; a closed operation is a paid batch; `Refunds` implements `Reimbursement`; no automatic refund stays pending |
| `payouts` | a partner with two settlements, two administrators, two runs, one refund per settlement, earnings -1, 2 or 3, late balances and a tax of 1 | runs are backed by allocations; nothing is claimed beyond its worth; what is payable can be allocated but for what late balances have added |
| `earnings` | prices 333 and 1009 with charges 0 and 47, deposits 100 and 273, discounts by nobody, tenant or partner, four rate sets (percentages by deduction, a household with withholding, fixed fees, a house partner), ten refund amounts | the ledger agrees with the rows to the dong, the commission when nothing was refunded; payables never fall short of the account by more than a late balance |
| `outbox` | two events (one secret, two handlers each), two relays, two attempts, one crash | nothing is parked early, delivered blank or left lying; the relay implements `Delivery` |

Three runs show disagreements between the code and what the repository says of it;
each has its trace in TLC and its text in `PROJECT.json` under `findings`:

| run | what happens |
|---|---|
| `inventory_oversold` | a late payment restores an expired booking of a stock listing without counting |
| `payout_double_claim` | a run is marked paid between the two reads of the next creation, which claims the same earnings again |
| `restore_stranded` | a discounted booking that expired and is paid late can be neither restored nor refunded: its redemption row is in the way |

### What the passing runs keep away from

They do so by their instance, or because the property says so. Each of these is a
behaviour of the models, reproduced as described:

- A delayed clawback reads the settlement before a release commits and the
  journals after it (`record-clawback-journal.use-case.ts:38-39`), and reverses the new
  revenue, which nothing books again. The comment at `:36-37` says: "A delayed or
  duplicate old event must never reverse that newly-released journal."
  `LedgerMatchesCustody` is therefore checked with one worker, and fails in
  `custody_serial.cfg` with `Workers = {w1, w2}`. `ReleaseStands` fails, in 11 states,
  in `custody_redelivery.cfg` with `Deposit = 2`, `RefundPercents = {50}`,
  `HoldingDays = 0`, `BalanceLinks = FALSE` and `Redeliver = FALSE`.
- Two deliveries of that clawback (a lapsed lease, or `refund.completed` and
  `booking.refunded`) both read the journals before either writes, and both reverse
  the same revenue: no lock and no unique key is in the way, although the comment at
  `:20-21` says: "Idempotent — the outbox delivers at least once, so we guard on an
  existing clawback before writing." `ClawedBackOnce` fails, in 14 states, in the
  same instance with `Redeliver = TRUE` and a third worker for the release. Two
  clawbacks in a row do not contradict `RevenueNotBookedTwice`, which is about revenue.
  Both traces have no holding period only to be short.
- `booking.cancelled` handled again after its partial refund freezes the
  settlement for a refund that will not come: `RefundPendingIsBacked` added to
  `custody_redelivery.cfg`.
- Without a holding period, a release that has begun before a partial refund of the
  released settlement can still meet the deadline that the refund writes, and
  revenue is recognised twice: `now()` is the start of a transaction
  (`prisma-settlement.repository.ts:275`, `:327`), and the refund's may be the older
  one. `RevenueNotBookedTwice` fails in `custody_redelivery.cfg` with `HoldingDays = 0`,
  `Security = 1`, `RefundPercents = {0}` and `BalanceLinks = FALSE`.
- A cancellation that gives back only the security deposit leaves a fee that can be
  disputed; when its batch completes after the dispute's, the cumulative refunded
  amount becomes 0: `RefundsMatchCustody` in `custody_serial.cfg` with
  `RefundPercents = {0}`.
- A balance captured around a cancellation with a full refund is not refunded: with
  `BalanceLinks = TRUE` and `RefundPercents = {100}` a refunded booking has
  `refundDue < Captured`.
- The event of a deposit, handled again on the booking it has confirmed, is recorded
  as the balance that nobody has paid (`record-balance-payment.use-case.ts:31-38`),
  although the comment at `:20-22` calls redelivery "harmless twice over"; and so is a
  second capture of the deposit by another method. `PaidWasCaptured` fails in
  `promotions.cfg` with `Redeliver = TRUE` (in 7 states, and so it does with one booking and
  `MCBookingSlots`), and with two `Methods`.
- A balance whose link was opened in time and paid after the completion is in the
  journal of the release (`settlement.entity.ts:283`), while the settlement keeps it
  as cash that the partner took on site (`:111-118`, `:263-268`): `OnsiteIsBooked`
  fails in `earnings.cfg`. `TONG-QUAN.md:755` says that completion "Freezes on-site
  collection", `:1090` that what was paid on site is what the partner owes. The
  account then offers more than can be allocated, and a run over all of it is refused
  (`payout.entity.ts:54-58`). `LedgerMatchesRows` and `PayableIsBacked` count it apart
  (`LateBalance`), `PayableIsAllocatable` allows for it (`LateCredit`): with
  `Balances = {}` nothing at all is left over, and with late balances no more than
  they have added. A late balance of a no-show raises the price that its release
  computes the tax of, and this tax is never withheld: `PayableIsBacked` excepts it.
- A balance paid while the release is under way raises `held` after the release has
  read it, and the journal is of the old amount: `LedgerMatchesCustody` in
  `custody_serial.cfg` with `BalanceLinks = TRUE`.
- The recovery plans the refund of a cancellation between the two handlers of
  `booking.cancelled`; its batch can complete before the second handler, which
  then freezes the settlement: `RefundPendingIsBacked` in `custody_serial.cfg` with
  `Recover = TRUE`.
- A refund that the provider declines for good leaves custody without the amount
  and without the reversal: `RefundsMatchCustody` and `TaxFollowsRefunds` in
  `custody_serial.cfg` with `RefundsMayFail = TRUE`; people have to resolve it.
- A batch can be left to people with the workflow enabled and without an
  operation: the workflow is enabled between planning's read of the flag and its
  commit, or the gateway turns out not to support the refund afterwards
  (`execute-automatic-refund.use-case.ts:120`), while
  `confirm-manual-refund.use-case.ts:44-46` refuses the confirmation of single refunds.
  The invariant `workflow.enabled /\ batches[r].status = "manual_required" =>
  operations[r] # NoOperation` fails in `refunds.cfg`.
- `affiliate-commission-amount.ts:8-10` says the tracked commission equals the
  ledger leg exactly. It is not computed again when a partial refund or a no-show
  has lowered the leg: `LedgerMatchesRows` without `settlement.refunded = 0` fails
  in `earnings.cfg`. A no-show leaves the commission pending.
- The tax of a booking with a tenant-funded discount is assessed on the price
  before the discount, and refunds only reach what was paid: after a refund in
  full a part of the tax stays. `LedgerMatchesRows` without
  `settlement.refunded >= tax.revenue` fails in `earnings.cfg`.
- Where a fixed fee leaves a share that is just less than its taxes, a refund of
  one or two dong can make bearable a tax that was dropped, and the payable then
  falls short by what was never withheld: `PayableIsBacked` needs rates for which
  `TaxesStayDropped` holds.

### Bounds, and why they are enough

- `Deposit`, `Final`, `Security`: a few units. What the code distinguishes is
  zero, part and all of an amount, and rounding down of a percentage. The
  theorems cover every value.
- `MaxJournals` 3 in `redelivery`: a revenue, its clawback
  and a second revenue or clawback. In `serial`, where every handler runs once, the ledger
  never has more than one journal, and in `faults` 2 stop the recovery from reopening
  a settlement for ever; its properties do not look at the ledger.
- `MaxDead` 1: one lost event per behaviour; which one is open. In `promotions`
  0, because lost payment events are the subject of `slots`.
- `Redeliver` repeats any handler of the committed prefix at any time until the
  event is settled, which is more than the relay does (it starts again at the
  first handler). An event with an open transaction is not yet settled; a worker
  whose lease lapsed can run on after the row was marked, and counting the event
  as pending until then is the mapping under which `Outbox` refines `Delivery`.
- Two workers: the races are between one reader and one writer. Only the doubled
  clawback above takes three.
- `Bookings` two: exclusion, and the last use of a promotion, are matters of two.
  `Methods` one: see the hazard about two methods. In `promotions` the booking
  with the balance has a deposit of 1 and a price of 3.
- `refunds`: two captures and two reasons are the smallest instance in which one
  plan sees what another has reserved, and a batch mixes a refund by gateway with
  one by hand. `MaxConfirming` and `MaxTransfers` are 1; a second one under way
  repeats the first.
- `payouts`: two settlements, so that one settlement's debt meets another's
  surplus; `MaxPayouts` 2 has a failed or a paid run and a new one; `MaxRefunds` 1,
  since a second refund repeats what the first one did to the account. Administrators
  are interchangeable, and so are settlements, which only the order of their releases
  tells apart; the run has no liveness property, so symmetry is sound.
- `earnings`: amounts that do not divide evenly, one above and one below the fixed
  fee with tax; refunds around every deposit and price. The exploration was widened
  once to prices 330..370 and all refunds 0..100 (about 900000 states) without a
  violation.
- `outbox`: `BatchSize` 2 lets one claim take both rows, so that a lapse hits a
  row that waits behind another one. `MaxAttempts` 2 has a retry and a last
  attempt; `MaxCrashes` 1 keeps a relay from dying for ever.
- Elsewhere no symmetry is used, because liveness is checked or the sets are small.

`CHECK_DEADLOCK FALSE` everywhere: a settled booking and a drained outbox have
nothing left to do.

### Fairness

- `Custody`: weak fairness of handlers, workers and recovery (pollers that run
  every few seconds), of the deadline (time passes), and of completion (the
  scheduler completes a booking after its end). No fairness for people: opening
  or resolving a dispute, cancelling; none for the provider.
- `BookingSlots`: weak fairness of deadlines, scheduler, transactions and
  recovery; strong fairness of the handler of each event, because each poll of
  the relay takes all due events and one event that is re-delivered for ever does
  not keep the relay from another. `Promotions` composes the same and adds weak
  fairness of its handlers.
- `Refunds`: the sweep looks for pending automatic refunds every 30 seconds, so a
  refund that can be executed again and again is executed (strong fairness of
  `PrepareExecution`); an answer that is not lost every time is recorded (strong
  fairness of `RecordAnswer`); a gateway decides what it took for processing. No
  fairness for people: nothing is claimed of refunds by hand.
- `Outbox`: weak fairness of each relay's loop and of the end of each lease.
  Nothing is assumed about handlers: they may fail each time.

## 5. Proofs

TLAPS checks the eight proof modules from nothing but the named assumptions on
the constants (`MoneyAssumption`, `SwitchAssumption`, `SlotAssumption`,
`PromotionAssumption`, `OutboxAssumption`, `PaymentAssumption`,
`ReasonAssumption`, `PayeeAssumption`, `SettlementAssumption`,
`AmountAssumption`, `EarningsAssumption`); they hold for any prices, policies,
bookings, periods, captures, settlements, rates, events, handlers, relays and bounds.

Some theorems have a hypothesis on the constants in their statement. Each names
a circumstance without which the code does not keep the property; section 4 has
what happens then. The runs that check the properties satisfy the hypotheses.

| hypothesis | means | needed because |
|---|---|---|
| `Once` | `~Redeliver /\ ~Recover`: each handler runs once, no recovery | a cancellation handled again, or recovered early, freezes a settlement for a refund that was made |
| `FeesAreWhole` | a cancellation that refunds anything refunds some of the service (or there is no security deposit) | a fee left by a refund of the security deposit alone can be disputed, and the two refunds overwrite each other |
| `~RefundsMayFail` | no refund is declined for good | custody and tax then wait for people |
| one worker (`Alone` in `SerialDay`) | | a clawback reads on both sides of a release |
| no online balance (`NoBalance` in `SerialDay`) | no balance link, or nothing left to pay | the amount held grows under a release that has read it |
| `PriceIsCovered` | the deposit is the price; or handlers run once and there is one method or the deposit is at least half of the price | a second or repeated deposit counts as the balance |
| `TaxesStayDropped` | a refund never makes a tax bearable that was not | a fixed fee that leaves just less than the taxes; `MCEarnings` has TLC evaluate the hypothesis |
| `HoldingDays # 0` | | two transactions share a deadline |

`SerialDay` is `Once /\ FeesAreWhole`, one worker and no online balance. Events may
be handled in any order and given up at any time on such a day, and the dispute,
the batches, the sweeps and the deadline interleave freely.

| theorem | argument |
|---|---|
| `CustodyProofs!TypeCorrect` | `TypeInv` adds that the on-site figure `Final - paid` is not negative and that a clawback about to write names an existing journal |
| `CustodyProofs!RefundsAreTrue` | `RefundInv` adds that a pending `refund.completed` comes from a completed batch: without it the finalizing handler could not vouch for `refund_id` |
| `CustodyProofs!RefundedIsFinal` | from the types alone: every write of a status is guarded by the status it expects to find, through every split transaction |
| `CustodyProofs!TaxIsBounded` | a reversal only fills up to the smaller of the refunded amount and the assessment, counting what other refunds have reversed; nothing else lowers or raises either side |
| `CustodyProofs!RevenueIsRecognisedOnce` | `CycleInv` adds that while revenue stands the settlement is released or every open release is older than the deadline that replaced the one it read, so that no second guarded UPDATE matches. It assumes `HoldingDays # 0` (section 4 shows why) |
| `CustodyProofs!HandlersSeeDelivery` | refinement of `Delivery`, no hypothesis. `RelayInv`: the committed handlers of an event are within those it has (`RanInv`), an event has the cause that emits it (`CauseInv`), and the event of an open transaction is pending and the transaction's handler is the next one or an earlier one (`OpenTxInv`). `RelaySteps`: every action moves each event by at most one step of `Delivery` |
| `CustodyProofs!RefundedTaxIsReversed` | with `~RefundsMayFail`, under redelivery and recovery. `CaseInv` tells the ways a booking ends apart (`EndingInv`): without a cancellation only the dispute refunds after an assessment (`DisputeInv`, `UncancelledInv`), and what is reversed is the smaller of the refunded amount and the assessment once its batch is finalized |
| `CustodyProofs!RefundsInWaitAreBacked` | with `Once`. `OnceInv`: a batch of a cancellation is planned by its second handler and nothing else, and a settlement waits only between the handler that freezes it and the one that finalizes it (`CancellationDue`, `DisputeDue`) |
| `CustodyProofs!DisputesFreeze`, `RefundedIsPaidBack` | with `Once /\ FeesAreWhole` (and `~RefundsMayFail` for the second). `FreezeInv`: a due refund and an open dispute keep the settlement where they put it, and `refunded_amount` is what has been promised by the cancellation and the dispute together |
| `CustodyProofs!LedgerAgreesWithCustody` | with `SerialDay`. `ReleaseInv`: revenue stands exactly while the settlement is released, and an open transaction that can still commit plans for a settlement that is as it was read; one that a dispute or a refund has overtaken cannot |
| `CustodyProofs!CustodyKeepsEscrow` | refinement of `Escrow` with `SerialDay`, from the same invariants: a freeze that promises anything is `Repay`, the commit of a release is `Earn`, everything else a stutter |
| `BookingSlotsProofs!TypeCorrect` | inductive as it stands |
| `BookingSlotsProofs!CalendarNeverOversold` | `Exclusive`: no booking in the calendar has a rival; it implies the cardinality bound of `NeverOversold` because such bookings overlap pairwise |
| `BookingSlotsProofs!RefundDecisionFinal` | the guarded UPDATE looks at the intent again, so a read that is out of date does not confirm |
| `BookingSlotsProofs!SweepsFresh` | `RowsStayTrue`: a queued expiry names a booking that is still overdue or no longer waits for payment |
| `BookingSlotsProofs!PaidIsCaptured` | with `PriceIsCovered`. `PaymentInv`: only captures have events, a balance is paid of what was confirmed (`CaptureInv`), an open or committed confirmation serves the capture of a deposit and uses up its event (`ConfirmInv`), and the price is recorded only after a second capture unless events are handled again (`PaidInv`) |
| `PromotionsProofs!PromotionTypeCorrect`, `UsesCounted`, `HeldDiscountCounted` | `PromotionInv` adds that an announced event is true of its booking (`ToldTruly`) and that only told bookings have returned uses (`ReturnsAreTold`): otherwise a late return could hit a booking that is being served |
| `PromotionsProofs!CompositionKeepsBookings` | every composed step is a step of `BookingSlots` or a lost restore, which changes no booking; so the theorems of `BookingSlots` carry over, `PaidIsCaptured` with its hypothesis |
| `RefundsProofs!NeverMoreThanCaptured`, `AnnouncedOnce`, `RecordsMatchProvider`, `ClosedMeansPaid`, `TypeCorrect` | one invariant `IInv` in three parts. `Money`: at most one plan is open, and it fits into what its reads left (`OnePlan`, `PlansFit`, `RowsAddUp`). `People`: a confirmation under way meets a refund, an operation has a batch. `Gateway`: a worker's answer agrees with what the provider did, however old it is (`TasksAgree`) |
| `RefundsProofs!RefundsKeepPromises` | refinement of `Reimbursement`: planning is its `Promise`, each success or closing its `Return`, everything else a stutter |
| `PayoutProofs!RunsAreBacked`, `NothingPaidTwice`, `TypeCorrect` | creations are serialised by the lock, so a plan's figures can only become too small or be made void, never be claimed by another (`Serialised`, `Reserved`, `Claimed`) |
| `PayoutProofs!StuckOnlyByLateBalances` | the account is at most the sum of what the settlements have left and of what late balances have added (`ClaimsAddUp`, `Unallocated`); releases are ordered, so the first-in first-out shares add up to the smaller of the amount and that sum (`ClaimsFit`) |
| `EarningsProofs!LedgerAgreesWithRows`, `EarningsTypeCorrect` | percentages are opaque but for `0 <= part <= whole` where the code relies on it. A balance captured after the window is told apart by the history in `seen`. `SplitConserves`: share, tenant, platform and affiliate are what the customer pays, whichever cap or floor bites; so the residual leg of the tenant is the net that the split computed |
| `EarningsProofs!PayablesAreBacked` | with `TaxesStayDropped`. `Withheld`: what was assessed is the tax of the first split, and what is reversed its part for the one refund a dispute can grant. `ReversalRounding`: a tax rounded half up, less its part rounded down, is the tax of what is left, rounded half up, or one dong more |
| `OutboxProofs!DeadIsEarned` | `AttemptsAreFailures`: counts in rows and in copies are never above the failures |
| `OutboxProofs!SecretsReachHandlers` | `RedactedIsSettled`: a blank row is processed or dead, so no claim copies it |
| `OutboxProofs!RelayKeepsDelivery` | refinement with `DeliveryInv`: the committed handlers of an event are a prefix, the relay that holds it has run a prefix of that, and a processed row has them all |

`SumTheorems` has the lemmas on finite sums that `PayoutProofs` rests on. Induction
over data is not available, so `SumChange` takes a counterexample on a smallest set
and removes an element.

Model-checked only: liveness (`SettlesUnlessWaiting`, `RefundsAreCarriedThrough`,
`CapturedMoneyIsServed`, `WaitingIsBounded`, `EveryEventSettles`,
`EveryRefundSettles`), because ENABLED and fairness are beyond the prover. Every
other property of a passing run is a theorem, under the hypotheses above.

## 6. Not modelled

- Redis holds and idempotency keys: they refuse a request earlier than the
  constraint or the advisory lock would, and decide nothing.
- How a price comes about: the quote, tiers, surcharges, cancellation tiers, which
  promotion applies and what it takes off, the cap of uses per customer, pausing
  and editing a promotion (its limit can be lowered below what is used). The
  deposit computed on the price before the discount is a hazard in `PROJECT.json`;
  `SlotAssumption` and `EarningsAssumption` take it to be at most the final price.
- The races of the affiliate handlers, which read and then write without a lock: a
  refund handled before the completion is forgotten, a no-show leaves the row
  pending, and a payout marks every confirmed commission paid. `Earnings` runs each in one step.
- In refunds: who makes and who checks, deadlines, evidence files, the SLA worker,
  the purge of bank details, the concurrent editing of the tenant's feature flags.
- In payouts: the period a run names, previews, bank details. A pending run of a
  settlement that is refunded later can still be paid, as in the code.
- A doubled clawback in `Payout`, and in `Earnings` overlapping handlers at all: both
  take a clawback to be written once (section 4 has when it is not).
- Two captures of one balance. A balance captured after a cancellation or after a
  refund in full stays in custody and is booked nowhere: `Custody` and `Earnings`
  have the behaviour and no property about it.
- Provider calls at checkout, polling of payments and amount mismatches.
- The settlement row that is created lazily for a booking without a payment, and
  the security deposit in `BookingSlots` and `Earnings` (`Custody` has it).
- Clock values: a deadline is a flag that a step of its own sets; leases and
  back-offs end at any later time; whether a booking may be completed yet is left open.
- LIMIT clauses of the sweeps (a hazard names the one that matters).
- Tax filings and certificates, notifications, search, onboarding and all other
  contexts: see the components in `PROJECT.json`, each with its reason.
