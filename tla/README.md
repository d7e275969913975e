# A verification project for the ride-sharing backend

The repository is a ride-sharing platform: a NestJS backend over Postgres and Bull
(`rideshare-backend/`), a Flutter app (`rideshare/`) and a dashboard
(`rideshare-dashboard/`).  All protocols live in the backend, in its modules and its
delayed jobs.  This directory models the parts in which several actors write the same
rows: TLC checks the models on small instances, and TLAPS proves the most important
theorems for every instance.

Paths below are relative to `rideshare-backend/src/`.

## 1. Inventory

| Part | State | Operations | What is hard | What makes it correct | Module |
|---|---|---|---|---|---|
| Instant requests and offers: `modules/instant-rides/instant-rides.service.ts`, `instant-dispatch.service.ts` | rows of `instant_ride_requests` and `instant_ride_offers`; the trip and booking of an accepted offer | create, withdraw, retry, cancel, accept, decline, arrive, start, cancel by either side, search again; dispatch waves | every handler awaits between reading and writing; several updates are by id only | one ride per request, one search per passenger, every search and offer ends, no booking survives its ride | `InstantDispatch` |
| Offer timeout and request expiry: `instant-rides/processors/` | delayed jobs | timeout, wave, expiry | they race with every answer; a failed enqueue is swallowed | every offer and every search timed | `InstantDispatch` |
| Driver availability: `driver-availability.service.ts` | `driver_availability`: online, `currentRequestId` (the lock) | go online and offline, status, `tryLockDriver`, `freeDriver` | the row is saved whole from an old read | a driver holds one live offer, and no lock leaks | `InstantDispatch` |
| Completion: `modules/trip-time/trip-time.service.ts` | trip, booking | `completeTrip` | two saves, failure in between | trip and booking end together | `InstantDispatch` (instant ride), `TripLifecycle` (shared trip) |
| Ride fares: `modules/ride-payments/` | booking's payment columns, `payments` rows, poll jobs | open, request to pay, poll, recover, retry, switch to cash, confirm cash | the bank answers late; whole-row saves; two openings | credited once, against money, never lost | `RideFare` |
| Payments desk and top-ups: `modules/payments/` | `payments`, poll jobs | create, receipt, poll, refresh, approve, reject | one payment, three writers, two idempotency keys | what is approved is credited, what is credited was paid | `WalletTopup`; `RideFare` for the desk's part in fares |
| Wallet: `modules/wallet/wallet.service.ts` | accounts, ledger with unique idempotency keys, payouts | commission, fare, top-up, welcome credit and its move, payout, adjustment | early returns decide what callers believe; reserved money is spent | every balance has its causes, each once | `WalletLedger`; `RideFare` for what callers see |
| Driver trip fee, pending charges: `modules/driver-trip-fee/`, `modules/pending-charges/`, `modules/admin/admin-fines.service.ts` | stamp of the trip, `pending_charges` | reconcile, fine, collect, waive | a stamp after the deduction, by several | a completed trip is charged; applied means deducted | `WalletLedger` |
| Shared-trip bookings and seats: `modules/bookings/`, `modules/trips/` | seats and their count inside the trip row, bookings, seat rows, expiry jobs | book, accept, reject, cancel, expire; lock a seat, edit, hide, show, start, cancel the trip | one transaction with a lock beside whole-row saves without one | no seat sold twice or lost | `SeatPromise`, `SeatBooking` |
| Trip lifecycle: `trip-time/trip-start.service.ts`, `bookings/processors/`, `jobs/` | trip status, delayed jobs | departure, start, completion, automatic completion, sweep | lost and failed jobs, two completions, a start beside them | every trip starts and ends, with its bookings | `TripLifecycle` |
| Presence: `trip-time/presence.service.ts` | boarding and absence marks, billable override, disputes | declare, vouch, mark absent, the older confirmations, settle | both sides answer at once, a stale save of the trip | contradictions stay billable and are seen | `TripLifecycle` |
| Refunds, settlement, masked calls, pickup watch and meter | one row each | administration, arithmetic | little concurrency | – | not modelled |
| Authentication, users, vehicles, places, uploads, ratings, promotions, notifications, chat, tracking, admin | – | row editing, lookups, output | no protocol between actors | – | not modelled |

How the parts interact: an HTTP handler or a Bull processor reads rows, awaits, and writes
rows; there is no other shared state.  The dispatch calls the availability table
(lock, unlock), the queues (one delayed job per offer, per request and per wave) and,
in `finalizeMatch`, creates the trip and booking.  A shared trip gets its bookings from
`createMultiSeat` and starts by its job, its driver or its first rider on board.
`completeTrip` ends either kind and calls `openForTrip`, which charges the commission and
opens the fares; both end in the wallet's ledger, beside top-ups, fines and payouts.  The payments
screen and the desk can touch a fare's payment from outside.

`PROJECT.json` lists every part with its status, and, under `hazards`, every place that is
hard to test, with the properties that watch it or the reason why none does yet.

## 2. Plan

1. `RideMatch`, `InstantDispatch`: the dispatch, which everything else starts from. **Done.**
2. `InstantDispatchProofs`, `InstantSearchProofs`: type correctness, every safety invariant, refinement. **Done.**
3. `RideFare`, `RideFareProofs`: collecting the fare of a completed ride. **Done.**
4. `WalletTopup`, `WalletTopupProofs`: charging a wallet, through polls, screen and desk. **Done.**
5. `WalletLedger`, `WalletLedgerProofs`, `WalletBalanceProofs`: what becomes of a balance. **Done.**
6. `SeatPromise`, `SeatBooking`, `SeatBookingProofs`: selling the seats of a shared trip. **Done.**
7. `TripLifecycle`, `TripLifecycleProofs`: start, presence, completion, sweep. **Done.**
8. Every invariant a run checks is now a theorem.  Left: a composition of `RideFare` with the
   accounts of `WalletLedger`, which today share the wallet's code and not its state; masked calls.

## 3. How the code is modelled

**Handlers.**  A handler is a record in `h`: its program counter and what it has read.
One step is one statement that reads or writes the database; a transaction is one step.
Two awaits are one step only where no other step can tell.  There are
`Handler` of them in flight at once (a bound of the model: Node has none).

**Whole-row saves.**  TypeORM's `save(entity)` selects the row again and updates the
columns in which the entity, read earlier, differs; there are no version columns.  In
`InstantDispatch` (`SaveTrip`, `SavePresence`) this is one step that may or may not
undo what happened since the first read; in `RideFare`, where the columns matter,
it is two steps (`SaveBooking`, `WriteBooking`).  In `WalletTopup` and `WalletLedger` a save writes the
status the handler holds; in `SeatBooking` and `TripLifecycle` it writes back the row that was read.

**Mishaps.**  In `SeatBooking` and `TripLifecycle` a stale save really breaks what the code
promises, so nothing could be said of all behaviours.  `mishap` records the first
step that wrote a row over a newer one (and the few other steps named at `Note`), the
properties speak of the time before it, and the step is still taken: the runs end there.
The properties therefore show that nothing *else* breaks them: not the order of
the handlers, the job's retries, a failure, or two handlers at work on different
rows.  With `AfterMishap` the lifecycle goes on, which is what
`trip_cancelled_underway` needs.

**Time.**  Delays are lower bounds, so a job may run at any time after it was queued,
and handlers may be arbitrarily slow.  Of the clock only `late[r]` is kept: less than
`MIN_OFFER_SECONDS` are left of the request's window.

**Failures.**  `Abort(w)` is any await that throws: the rest of the handler never runs.
`Enqueue` may fail and is swallowed, as in the code.  Both take from `faults`.

### InstantDispatch

| Variables | Code |
|---|---|
| `status`, `owner`, `late`, `parent`, `ride` | `InstantRideRequestEntity`; `ride[r]` is the offer whose acceptance created the trip in `tripId` |
| `ostat`, `oreq`, `odrv` | `InstantRideOfferEntity`; DECLINED and TIMED_OUT are one value, nothing tells them apart |
| `trip`, `booking` | the trip and the one booking of an accepted offer; "assigned", "arrived" and "riding" are IN_PROGRESS with the pickup and start stamps |
| `online`, `lock` | `DriverAvailabilityEntity.isOnline`, `currentRequestId` |
| `jobs` | offer timeouts, request expiries and waves in the Bull queues |

| Actions | Code |
|---|---|
| `CreateRequest`, `InsertRequest` | `createRequest`: the check, the insert against the unique index on searching requests, the expiry job |
| `CancelRequest`, `FindOutstanding`, `RetractOffer`, `FreeDriver`, `CloseRequest` | `cancelRequest` and `withdrawSearch` |
| `RetryRequest` | `retryRequest` and `assertRetryable`, one transaction |
| `Dispatch`, `LockDriver`, `EmptySweep`, `MakeOffer`, `AnnounceOffer` | `dispatchNext`, `tryLockDriver`, `handleEmptySweep`, `makeOffer` |
| `WaveFires`, `ExpiryFires`, `FinalizeSearch`, `TimeoutFires` | the two processors |
| `DeclineOffer`, `CloseOffer`, `ReopenSearch`, `AcceptOffer` | the driver's answers; `AcceptOffer` is `finalizeMatch`'s transaction, which rechecks what `acceptOffer` read |
| `CancelByDriver`, `CancelByPassenger`, `SearchAgain` | cancellation before the ride starts |
| `MarkArrived`, `StartRide`, `SaveTrip` | the pickup stages |
| `CompleteTrip`, `SaveCompleted`, `FindRidden`, `SettleBooking` | `completeTrip`: read and meter, save the trip, find the booking, save it |
| `GoOnline`, `SavePresence`, `GoOffline`, `RunDry` | availability; `RunDry` is the empty wallet that `getStatus` notices |

Abstracted: which driver a sweep finds (any that was not asked; reach, wallet and
freshness are left out, and `EmptySweep` may happen whenever a sweep does); fares,
terminal reasons, pushes; the 12 hours after which a lock lapses; no-show marks in
`completeTrip`, which are for the seats of shared trips.  `NO_DRIVERS`, `COUNTERED` and
`REJECTED` are never written by the code.

A wave job has a fixed id per request.  While the job runs Bull keeps it locked, so `scheduleWave`, called
from the very wave whose sweep was empty, can neither remove it nor add another under its id
(`WaveRuns`, `ScheduleWave`): it queues nothing, and the job goes when its handler returns.

`RideMatch` is what the service promises: a request is searched for, matched with one
driver, and ended; there is no way back and the winner stays.

### RideFare

| Variables | Code |
|---|---|
| `row` | `BookingEntity`: `paymentMethod`, `paymentStatus`, `passengerPaymentId` |
| `amount` | `totalAmount`, zero or not |
| `pstat`, `pbook` | the fare's `PaymentEntity` rows |
| `bank` | the request to pay at the bank (external) |
| `fare`, `debit`, `topup` | how often a posting was made under the idempotency keys of the ledger |
| `cash` | the driver said that cash was received |
| `polls` | delayed poll jobs |

Every method of `ride-payments.service.ts` that changes state is a chain of actions
(`OpenForTrip`, `RequestCliq` to `RecordPurchase`, `PollFires` to `FailBooking`,
`Settle` to `StampBooking`, `RetryCliq`, `SwitchToCash` to `GiveUp`, `ConfirmCash`,
`Recover`), with `PayFromWallet` of the wallet and `RefreshStatus`, `AdminRejects` of the payments service.
The initial states are completed bookings whose fare is pending, with any method and with
or without an amount.  Which alias is valid, and what the bank says and when, is
left open.  The complaint that a refusal files is left out, as is the commission, which is in `WalletLedger`.

### WalletTopup

| Variables | Code |
|---|---|
| `status`, `method` | `PaymentEntity` of type `wallet_topup` |
| `bank` | the request to pay at the user's bank (external) |
| `credits` | entries of the ledger by payment and idempotency key: "cliq-topup:id" or "payment-topup:id" |
| `polls` | delayed poll jobs, with their attempt |

| Actions | Code |
|---|---|
| `CreateManual`; `CreateCliq`, `Purchase`, `PurchaseAnswers`, `SaveReference`, `PollCliqTopup`, `Refuse` | `createManualTopup`, `createCliqTopup`, `pollCliqTopup` |
| `PollFires`, `Inquire`, `ScheduleNextOrFail`, `Credit`, `CreditFails`, `SaveNote`, `Approve` | the processor `cliq-poll.processor.ts` |
| `Refresh`, `Reject` | `refreshCliqPaymentStatus`, which shares the inquiry and the credit |
| `AdminDecides`, `UpdateManual`, `SaveReceipt` | `approve`, `reject`, `updateManualPayment` |
| `Redeliver`, `Abort` | a stalled worker, whose job Bull hands out again; an await that throws |

Amounts are left out: a credit has that of its payment.  Only "0" and "000" of the bank's
codes mean that the money came (`BankConfirms`).

### WalletLedger

| Variables | Code |
|---|---|
| `bal`, `reserved`, `entries`, `recharge` | `wallet_accounts` of a driver (in two currencies), a rider and the platform, and how many entries each has |
| `welcome`, `moved` | the entries under `driver-welcome:id` and of its move |
| `trip`, `charged`; `method`, `discount`, `paid` | trips and `driverWalletChargeApplied`; their bookings |
| `payout`; `charge`, `taken` | `payout_requests`; `pending_charges` and the entries that refer to them |
| `extra` | what was posted by hand, for `Explained` |

| Actions | Code |
|---|---|
| `GrantDriverWelcome`, `RelocateDriverWelcome`, `MoveWelcome` | the welcome credit and its move to another currency: read, then one transaction |
| `CompleteTrip`, `SettleFare`, `Reconcile`, `ChargeCommission`, `SettleCollectedFare` | whoever charges or settles a trip, and the two transactions they call |
| `CreditPostedTopup`, `AdjustBalanceByAdmin` | postings by hand |
| `CreatePayoutRequest`, `ProcessPayout` | payouts, one transaction each |
| `RecordFine`, `CollectOutstanding`, `Waive`, `DeductFromWallet`, `SaveCharge` | fines: insert, transaction, and saves of what the handler has in memory |

Left out: trips before the commission's cutover and those charged by the older code, which
return without a stamp; the choice of a primary currency; the legacy columns that mirror the
balance.  Settling an instant or a shared trip is the same here: one booking each.

### SeatPromise and SeatBooking

| Variables | Code |
|---|---|
| `seat`, `left`, `status` | the trip's row: the JSON `seats`, `availableSeats`, `status` |
| `st`, `seats` | bookings and their `booking_seats` |
| `timer` | jobs of the queue `bookings-timeout`: "lost" if the enqueue failed, "failed" if Bull gave the job up |
| `thrown`, `died` | how often a job threw (`Attempts`, 3 in the code) and how often its worker died (`MaxStalled`, Bull's default is 1) |
| `stuck` | bookings of which some seat could not be released, for `TakenIsHeld` |

| Actions | Code |
|---|---|
| `CreateMultiSeat`, `Book`, `EnqueueExpiry` | `createMultiSeat`: the check, the transaction under the row's lock, the job |
| `Accept`, `Reject`, `Cancel`, `HandleExpire`, then `Decide` | the answers and the expiry, each reads the booking and saves it |
| `ReadTrip`, `ReleaseSeat`, `ReleaseFails`, `Settle` | `releaseSeat` for one seat after the other, its failures swallowed; the job is removed |
| `OpenTrip`, then `SetSeatLock`, `Update`, `Hide`, `Show`, `CancelTrip` | the driver's trip, read and saved whole |
| `CancelAllForTrip`, `CancelEach`; `Start`, `ReadRoster`, `Board` | bookings follow the trip |
| `Abort`, with `JobThrows` or `WorkerDies` | an await that throws, or the process; Bull runs the job again while it may |

`SeatPromise` is what the bookings of a trip promise: a seat is taken, with the others of its
booking, while it is free; only who holds it gives it up; the driver closes free seats only.
`KeepsPromise` says that every step that is not a mishap is one of `SeatPromise`.  Left out:
`create` and `bookSeat`, which nothing calls any more; auto-pick, which chooses seats and calls
`createMultiSeat`; seats that a vehicle's layout marks closed; prices and adjacency.

### TripLifecycle

| Variables | Code |
|---|---|
| `time` | before departure, or past it |
| `trip` | status, `presenceReviewFlagged`, `presenceSettledAt`, `driverWalletChargeApplied` |
| `bk`; `seat` | bookings and `passengerPresenceConfirmedAt`; what passenger and driver said of a seat, its `billableOverride` and whether it is disputed |
| `billed` | the bookings in the commission |
| `startJob`, `endJob` | `trip-auto-start`, `trip-auto-complete`: waiting, active, failed or none |

| Actions | Code |
|---|---|
| `OnDeparture`, `StartByDriver`, `OnPassengerBoarded`, then `Claim`, `ReadRoster`, `Board`, `ScheduleAutoComplete` | `trip-start.service.ts`: three callers of `start`, of which one wins |
| `CancelEmpty`, `FindPending`, `ClosePending` | a departure without a confirmed passenger |
| `PassengerDeclare`, `DriverConfirm`, `ConfirmBooking`, then `SaveTheSeat`, `Sync`, `SaveTheBooking`, `FlagForReview` | `presence.service.ts`, and the older confirmations of `trip-time.service.ts` |
| `CompleteTrip`, `HandleAutoComplete`, then `SaveCompleted`, `NoShow`, `FindActive`, `CompleteEach`, `OpenForTrip`, `ReadToSettle`, `SettlePresence`, `RemoveJobs`; `LeaveOpen` | the two completions, which do the same in the same order |
| `Accept`, `SaveAccepted` | a request that is answered at the last minute |
| `Tick`, `Sweep`, `LoseJob`, `Abort`, `ChargeFails`, `Reconcile` | the clock, the sweep, what fails, and the commission's second chance |

A booking has one seat and one passenger.  Left out: "on my way"; `askToBoard`, which stamps that it
asked and notifies; the check of positions; the no-show detector, whose queue nobody
fills; `chargeAtTripStart` at the start, which charges nothing before completion.
Making and cancelling bookings belongs to `SeatBooking`; here they are there when the hour
before departure begins.  The windows in which presence may be declared are left open to
the whole run.

## 4. What is checked

| Run | Instance | Shows |
|---|---|---|
| `dispatch_two_drivers` | 1 request, 2 drivers, 3 offers, 1 availability call, 1 fault | `TypeOK`, `OneRidePerRequest`, `NoOrphanBooking`, and `RideMatch` is implemented (`MatchSpec`) |
| `dispatch_two_passengers` | 2 passengers, 1 driver, 2 requests, 2 offers | `OneSearchPerPassenger`, `RetryFollowsEnd`, `EverySearchTimed`, `OneLiveOfferPerDriver`, `NoLeakedLock`, `EveryOfferTimed` |
| `dispatch_liveness` | 1 request, 2 drivers, 3 offers | `SearchEnds`, `OffersClose`, `DriverNotBenched` |
| `fares` | 1 booking, 1 payment, 2 polls, 1 opening, 1 desk call, 1 fault | `TypeOK`, `LedgerBalanced`, `CreditIsBacked`, `PaidIsCollected`, `ApprovedIsConfirmed`, `ApprovedIsCollected`, `PendingIsWatched`, `RequestedIsOpen`, `PaymentEnds` |
| `topups` | 1 payment, 3 handlers, 2 polls, 1 look, 2 desk calls, 1 stalled worker, 1 fault | `ApprovedIsCredited`, `CreditIsConfirmed`, `PendingIsWatched`, `TopupSettles` |
| `wallet_ledger` | 1 trip, 2 payouts, 1 fine, 1 posting, 1 collection or waiver, 1 fault | `Explained`, `ReservedIsOpen`, `AppliedIsDeducted`, `CompletedIsCharged` |
| `seats` | 2 seats, 2 bookings, 1 edit of the trip, 2 runs of the job, 1 fault | `SeatHasOneHolder`, `CountAgrees`, `TakenIsHeld`, `PendingIsTimed`, and `SeatPromise` is implemented (`KeepsPromise`) |
| `lifecycle` | 2 bookings, 1 answer of the driver | `WordAgainstWord`, `DisputeIsFlagged`, `BookingsFollowTrip` |
| `lifecycle_ends` | 1 booking, 1 fault | `TripEnds`, `RiderSetsOut` |
| `dispatch_asked_twice`, `topup_credited_twice`, `trip_cancelled_underway` | 2 passengers, 2 drivers, 3 handlers; 1 payment; 1 booking | violations, see below |

Two handlers are in flight unless the table says otherwise: every hazard listed is a race of two, and actions such as
`AcceptOffer`, `GoOffline`, `Tick`, `BankAnswers`, `ProcessPayout` and `Reconcile` of the lifecycle need no handler, so that a third
actor can step between.  Top-ups have three, so that two polls can cross with the screen
or with an admin.  Offers are
sized so that every driver can be asked about every request in the runs with one
request; in those with two the last offer is the one that is made beside another request's.  With one request
`createRequest` cannot replace a search, hence a run with two.  `MaxToggles` and
`MaxFaults` are zero where a property is about normal operation: an availability call
really can break `NoLeakedLock` (a stale save), and a lost enqueue `EverySearchTimed`.
`fares` has one payment, which two handlers, polls, retries and the switch to cash fight
over; the invariants hold for any number of payments, bookings and openings by proof (section 5),
`PaymentEnds` is checked with one payment and one opening only.
In `seats` the expiry job may run twice and no stalled worker is made up for, where the code has
three and one: the single fault then reaches both a job that comes back (it threw) and one that is
used up (its worker died); `PendingTimed` is proved for all numbers.
Two seats and two bookings are enough for a booking of several seats, for two that fight
over one, and for a release beside a sale; two payouts decide over one reservation.  In
`wallet_ledger` an amount equals the fare and leaves, after minimum, fee and fine, balances on
both sides of every test.  `lifecycle` has two bookings since one must stay behind for a
completion to forget it; what ends a trip does not depend on how many ride in it.
Deadlock is not checked: nobody has to ask for a ride or pay, so the system may stop.
The interchangeable sets are symmetric in the runs without liveness.

**Invariants under faults.**  `NoOrphanBooking` allows one thing besides a live ride:
`completeTrip` has saved the trip and still owes the booking its save, or some await has thrown.
So the run and the theorem also say what is *not* promised: a failure between the two
saves leaves a confirmed booking on a completed trip, which the code cannot repair
(`completeTrip` refuses a trip that is not in progress, and no fare is opened).

**Fairness.**  Handlers run on (`WF` of each handler's steps): Node resumes an await
that settles.  Time passes, and Bull delivers the jobs that are due (`WF` per
job, over all handlers).  Polls of fares need `SF` because a free handler, which a poll needs in
the model, may come and go; in the code a poll never waits for one.  The same holds for
the start and end jobs of `TripLifecycle` and for the reconciliation of `WalletLedger`, a cron
that runs every half hour and whose window sees a trip again after a failure.  `SF` of
`Deadline` also says that the end job is not turned away for ever: `stillDriving` leaves a trip
alone until its last call only.  The sweep is a cron (`WF`).  No user, no driver, no admin
and no bank is ever assumed to act.  `PaymentEnds` and `TopupSettles` assume that nothing fails;
`TripEnds`, `RiderSetsOut` and `CompletedIsCharged` hold with the failures of their runs, the first two up to a
mishap.

### Where code and comments disagree

`dispatch_asked_twice`: the docs promise that the lock keeps a driver from holding two offers.
A decline, or a decline and the timeout, handled twice at once both go on to dispatch the request,
and both dispatches may choose the same driver, one after the other: `freeDriver` lets the lock go by
the *request's* id, so that an answer to the first of these offers frees the driver while the
second is open, and another passenger's request is offered to him.  `DeclinesSpec` keeps the
run short: in it passengers only ask and drivers only decline.  `OneLiveOfferPerDriver` is what
is left of the promise, and what is proved: the lock holds as long as nobody was asked twice for one
request (`AskedOnce`).

`topup_credited_twice`: an admin approves a CliQ top-up while a poll of it has already found it
pending.  The desk credits under `payment-topup:id`, the poll under `cliq-topup:id`, and the
wallet is credited twice; the processor's comment says that a decided payment is left alone.

`trip_cancelled_underway`: a rider whom the driver marked absent declares to be in the car.
The declaration starts the trip, and then the trip is saved as it was read, flagged and
*published* again.  The start job finds no confirmed booking any more and calls the
trip off with its rider aboard.

Other behaviours of the models that a maintainer may want to see; the last five are
mishaps, or follow from a failure:

- a withdrawal cancels, by id, a request that was accepted since it looked;
- an offer's timeout frees the driver of an offer accepted since it looked;
- a wave whose sweep finds nobody queues no further wave (above): unless a driver has an offer the
  search is not swept again, nor ended after `NO_DRIVER_SEARCH_SECONDS`, but waits for its expiry;
- two creations both find nothing, and the second inserts after the first was accepted;
- arrival or start of an instant ride, saved whole, undoes a cancellation;
- a confirmation that comes when the driver has received cash settles nothing and approves the fare's
  payment all the same: the money came twice;
- acceptance of a shared-trip booking, saved whole, undoes a cancellation whose seats are sold again;
- `show` puts a trip that is under way or cancelled back on sale;
- `cancel` of a rejected booking releases seats that another booking has bought since;
- a start that the completion overtakes leaves bookings in progress on a completed trip;
- a fine whose stamp fails is collected again, or waived after it was collected.

## 5. What is proved

For every number of passengers, drivers, handlers, rows, seats and faults, from the named
assumption of each module only (bounds and amounts are natural numbers, sets that are counted
are finite, "nobody" is nobody):

| Theorem | States |
|---|---|
| `Typed` | `Spec => []TypeOK` |
| `OneSearch` | `Spec => []OneSearchPerPassenger` |
| `RetryLast` | `Spec => []RetryFollowsEnd` |
| `OneRide` | `Spec => []OneRidePerRequest` |
| `NoOrphan` | `Spec => []NoOrphanBooking` |
| `Implements` | `Spec => MatchSpec` |
| `SearchTimed`, `OffersTimed`, `LocksNotLeaked`, `OfferExclusive` | `EverySearchTimed`, `EveryOfferTimed`, `NoLeakedLock`, `OneLiveOfferPerDriver` |
| `FareTyped` | `Spec => []TypeOK` of `RideFare` |
| `Balanced`, `Backed`, `PaidCollected`, `Confirmed`, `ApprovedCollected` | `LedgerBalanced`, `CreditIsBacked`, `PaidIsCollected`, `ApprovedIsConfirmed`, `ApprovedIsCollected` |
| `PendingWatched`, `RequestedStillOpen` | `PendingIsWatched`, `RequestedIsOpen` of `RideFare` |
| `TopupTyped`, `TopupCredited`, `TopupConfirmed`, `TopupWatched` | `TypeOK`, `ApprovedIsCredited`, `CreditIsConfirmed`, `PendingIsWatched` of `WalletTopup` |
| `LedgerTyped`, `SettledCharged`, `AppliedDeducted`, `RiderCovered` | `TypeOK`, `SettledIsCharged`, `AppliedIsDeducted`, `RiderNeverOwes` of `WalletLedger` |
| `BalancesExplained`, `ReservedForOpen` | `Explained`, `ReservedIsOpen` of `WalletLedger` |
| `SeatsTyped`, `PendingTimed`, `OneHolder`, `CountRight`, `TakenHeld`, `PromiseKept` | `TypeOK`, `PendingIsTimed`, `SeatHasOneHolder`, `CountAgrees`, `TakenIsHeld`, `KeepsPromise` of `SeatBooking` |
| `LifecycleTyped`, `WordStands`, `DisputeSeen`, `BookingsFollow` | `TypeOK`, `WordAgainstWord`, `DisputeIsFlagged`, `BookingsFollowTrip` of `TripLifecycle` |

**InstantDispatch.**  `TypeOK` is not inductive: a handler's next step is well typed only
because of what it read.  `TypeInv` adds `HandlerKnows`, what a handler relies on at each
program counter (its request exists, its offer was inserted, the request it retries has ended), and
`OffersKnown`, that an inserted offer names a request and a driver.  Rows are never
deleted (`RowsStay`), so knowledge survives the steps of others
(`KnowledgeStays`).  `StepKind` then sorts every step by what it does to requests and
rides (`Search`, `Turn`, `Finish`, `Rest`, an acceptance, a cancellation, a save), and each
safety theorem has one step per kind.  `OneRide` needs `RideInv`: the ride a request names
exists, even when the request is over.  `NoOrphan` needs two facts more: `OwedStays`, that a
booking's save stays owed until it is made or an await throws, and `FaultsFall`.
`Implements` maps a request's status to its phase and the driver of its ride to the winner.

**InstantSearch.**  The properties of quiet states say nothing while a handler is in flight, so none
is inductive.  `SearchInv` says who answers for what at every step: an outstanding offer has
its timeout queued or a handler that is about to queue it or to close the offer (`OfferTimed`); a
search has its expiry queued or a handler on its way to end it (`EverySearchTimed`); a lock belongs to an open offer, a
ride, a handler about to offer or to free, or a request that is over (`NoLeak`); the driver of an
offer is locked for its request (`Exclusive`).  Each is promised while nothing failed and, for the
locks, nobody touched their availability; `Bounded` and `NoPresence` make these conditions ones that,
once lost, stay lost.  `Exclusive` needs `AskedOnce`: without it a step of `freeDriver`
breaks it, and `dispatch_asked_twice` shows that such a step is really reached.

**RideFare.**  `FareInv` is `RowsOK /\ HandlersOK /\ Distinct`.  `RowsOK` holds the tables'
types, the five safety invariants and what a payment's row says of its booking and its bank;
none of them is inductive alone.  `HandlersOK` says what a handler at each program
counter may rely on (a handler that approves has been told by the bank; an entity that
carries "paid" belongs to a fare that was collected, a handler that approves has seen the fare
collected or has credited the rider, and what is collected stays collected); `Distinct` keeps two handlers from sending the same request to pay.  Each
action preserves it; the first six theorems follow from its first two parts.

`WatchInv` adds what is not given up.  `PaymentsWatched`: a pending payment is confirmed, polled for,
or in the hands of a handler that is about to send it, to record it or to end it, or is its poll.
`RequestsOpen`: a booking that shows requested has a pending payment or a handler that is about to
write something else.  Its difficult case is the save that makes the booking requested, which
comes two steps after the insert: the payment must still be pending then.  `AllFresh` says why it
is: between the two the payment is polled for by nobody, named by no booking and read by no handler but
the cron's, which finds nothing at a bank that was not asked (`Distinct`).  That fails as soon as
the payments service looks at the payment, hence `desk = MaxDesk` in the property.

**WalletTopup.**  `TopupInv` is `RowsOK`, `HandlersOK`, `OneRequest`, the two ledger
properties and `PendingIsWatched`.  `Knows` says what each program counter has learnt: who is about
to credit and is not the desk saw the payment paid at the bank, who is about to approve has credited it, a
handler that notes a failed credit is past a fault.  None of that is ever taken back (`Stays`), so stale saves do it no
harm.  `OneRequest` is needed because a second request to the bank would overwrite a paid one.

**WalletLedger.**  `LedgerInv` adds to the types that a handler about to settle has
charged its trip, and that one holding a charge as applied in memory has deducted it.  Stamps
and deductions are never taken back.  Rider balances
fall only in the two transactions that look at them first.

`BalanceInv` adds the two properties of sums, and `MovesAway` (the welcome credit moves to another
account, once).  A sum is a cardinality: `SumOf(S, f)` counts the pairs `<<x, n>>` with `n` up to
`f[x]` (`Units`), so that a term that comes, goes or changes is a fact about finite sets
(`SumAdds`, `SumLoses`, `SumChanges`) and no induction is needed.  Each step then changes at
most one term, by what it posts.  The assumption that trips, payouts and charges are finite sets is
what a table is.

**SeatBooking.**  `SeatTypes` is the shape of rows and handlers, with what each program counter
carries, and `PendingIsTimed`, which stale saves do not touch: a job that fails counts the run
(`thrown`, `died`), so that one which does not come back has used its runs up.  `Sound` holds until a mishap:
the seats of a live booking are its own (`HeldOK`); a seat that is taken was asked for by its
booking (`OwnedOK`); seats are released for a booking that is over, while they are still under its name (`ReleaseOK`), by one
handler (`AloneOK`); all bookings are cancelled only behind the trip (`CalledOK`); the count is right (`CountOK`);
a seat kept for nobody is about to be released, or a release of its booking failed (`KeptOK`).  A save that is no mishap saves the row of now, so that a
release, a lock or an edit changes one seat at most and cardinality lemmas of the library
settle the count; `Book` takes exactly the free seats it asked for.  `PromiseKept` reads the
action of `SeatPromise` off each step.

**TripLifecycle.**  `LifecycleInv` is the types and, before a mishap, four facts: `WordOK`
(on every seat the two words agree, or the dispute is on record), `FlagOK` (whoever raised a dispute carries it until
the trip is flagged), `BehindOK`
(a completed trip has nobody under way whom no handler has still to complete) and `AloneOK`
(nobody is under way in a trip that did not set out).  Lemma `Carried` moves them past the
steps that change none of their rows.

Only model-checked: liveness (`SearchEnds`, `OffersClose`, `DriverNotBenched`,
`PaymentEnds`, `TopupSettles`, `CompletedIsCharged`, `TripEnds`, `RiderSetsOut`), because fairness
and ENABLED are out of the prover's reach.  `SettledIsCharged`, `RiderNeverOwes` and the type invariants of the four
later modules are proved and need no run.  Induction over data and RECURSIVE operators are out of
the prover's reach too; no module needs them.

## 6. Running it

    tlc -config dispatch_two_drivers.cfg MCInstantDispatch
    tlc -config fares.cfg MCRideFare
    tlc -config topups.cfg MCWalletTopup
    tlc -config wallet_ledger.cfg MCWalletLedger
    tlc -config seats.cfg MCSeatBooking
    tlc -config lifecycle.cfg MCTripLifecycle
    tlapm SeatBookingProofs.tla

and so on for the other configurations and `*Proofs` modules.  The longest runs take one
to two minutes each (`dispatch_two_passengers`, `fares`, `lifecycle`), a proof module a few.

Operators marked *Slip* in the modules are the plausible mistakes that `PROJECT.json`
lists as mutants: put in the place of the action they vary, each breaks the property
it is listed with.

## 7. Not modelled

The parts marked so in section 1, and the reasons are in `PROJECT.json`.  Most of the
repository is the app, the dashboard, and services that edit or list rows: there is no
protocol to state there.  Beyond them:
the app and the dashboard can make any call in any order, which is what the
actions of users are; several backend processes (a handler does not care which process
it runs in); Postgres isolation anomalies inside one transaction (the transactions
modelled claim rows with conditional updates or locks); and the redelivery of Bull jobs after a
stalled worker, except for polls and the jobs of shared trips.  The generic booking cancellation can also cancel the booking
of an instant ride: `SeatBooking` has trips with seats only, and `InstantDispatch` the service's own
cancellations only.
