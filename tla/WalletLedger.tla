----------------------------- MODULE WalletLedger -----------------------------
(***************************************************************************)
(* The wallets of a driver, a rider and the platform.  Every posting is a  *)
(* transaction that locks the account (post, creditPostedTopup): one step. *)
(* What surrounds it is not: a charge is collected and then stamped, a     *)
(* completed trip is charged by whoever comes first (the end of the ride,  *)
(* a payment, the reconciliation job), a payout reserves money that other  *)
(* postings go on spending, and the welcome credit may move once.          *)
(*                                                                         *)
(* Amounts are small numbers in one currency; the driver's account in a    *)
(* second currency only matters to the welcome credit.  Availability       *)
(* (isOnline) is a matter of InstantDispatch.                              *)
(***************************************************************************)
EXTENDS Integers, FiniteSets

CONSTANTS Trip,        \* shared or instant trips of the driver, one booking each
          Payout,      \* rows of payout_requests
          Charge,      \* rows of pending_charges of the driver (fines)
          Handler,     \* the handlers that may be in flight at once
          Fare, Fee,   \* what a ride costs, and its commission
          Minimum,     \* DriverWalletPolicyService.minimum
          Fine,        \* the amount of a charge
          Amounts,     \* what a payout or a posting by hand may move
          MaxPostings, \* top-ups and admin adjustments
          MaxDesk,     \* attempts at collecting or waiving a charge
          MaxFaults,   \* awaits that throw
          Nothing

ASSUME LedgerAssumption ==
  /\ Fare \in Nat /\ Fee \in Nat /\ Minimum \in Nat \ {0} /\ Fine \in Nat \ {0}
  /\ Amounts \subseteq Nat \ {0}
  /\ MaxPostings \in Nat /\ MaxDesk \in Nat /\ MaxFaults \in Nat
  /\ Nothing \notin Trip \cup Payout \cup Charge
  /\ IsFiniteSet(Trip) /\ IsFiniteSet(Payout) /\ IsFiniteSet(Charge)

VARIABLES
  bal, reserved,       \* wallet_accounts: balance, reservedBalance
  entries,             \* how many wallet_transactions an account has
  recharge,            \* rechargeRequired of the driver's account
  welcome, moved,      \* accounts of driver-welcome:<id> and of its move
  trip, charged,       \* trips: status, driverWalletChargeApplied
  method, discount, paid,  \* bookings: paymentMethod, discountAmount, paymentStatus
  payout,              \* payout_requests: status and amount
  charge, taken,       \* pending_charges: status; entries that refer to it
  extra,               \* what top-ups and admins posted, per account
  h,                   \* handlers in flight
  postings, desk, faults  \* what is left of the bounds

accounts == <<bal, reserved, entries, recharge>>
bookings == <<method, discount>>
budget == <<postings, desk, faults>>
vars == <<accounts, welcome, moved, trip, charged, bookings, paid, payout,
          charge, taken, extra, h, budget>>

DriverAccount == {"driver", "abroad"}
Account == DriverAccount \cup {"rider", "system"}
Open == {"pending", "approved"}
PayoutStatus == Open \cup {"none", "paid", "rejected"}
ChargeStatus == {"none", "pending", "applied", "waived"}

Idle == [pc |-> "idle", x |-> Nothing, to |-> "idle", st |-> "none"]

Init ==
  /\ bal = [a \in Account |-> 0] /\ reserved = 0
  /\ entries = [a \in Account |-> 0] /\ recharge = FALSE
  /\ welcome = "none" /\ moved = "none"
  /\ trip = [t \in Trip |-> "riding"] /\ charged = [t \in Trip |-> FALSE]
  /\ method \in [Trip -> {"wallet", "cliq"}]
  /\ discount \in [Trip -> {0, 1}]
  /\ paid = [t \in Trip |-> FALSE]
  /\ payout = [x \in Payout |-> [st |-> "none", amt |-> 0]]
  /\ charge = [c \in Charge |-> "none"] /\ taken = [c \in Charge |-> 0]
  /\ extra = [a \in Account |-> 0]
  /\ h = [w \in Handler |-> Idle]
  /\ postings = MaxPostings /\ desk = MaxDesk /\ faults = MaxFaults

-----------------------------------------------------------------------------
(* Handlers and postings *)

Begin(w, pc, x, to) ==
  h[w] = Idle /\ h' = [h EXCEPT ![w] = [Idle EXCEPT !.pc = pc, !.x = x, !.to = to]]
Goto(w, pc) == h' = [h EXCEPT ![w].pc = pc]
Done(w) == h' = [h EXCEPT ![w] = Idle]

\* post: one entry, with the balance it leaves.
Post(a, amt) == /\ bal' = [bal EXCEPT ![a] = @ + amt]
                /\ entries' = [entries EXCEPT ![a] = @ + 1]

\* Two entries of one transaction.
PostBoth(a, x, b, y) ==
  /\ bal' = [bal EXCEPT ![a] = @ + x, ![b] = @ + y]
  /\ entries' = [entries EXCEPT ![a] = @ + 1, ![b] = @ + 1]

Available == bal["driver"] - reserved

-----------------------------------------------------------------------------
(* Welcome credit *)

\* grantDriverWelcome, in the transaction of every approval of the driver.
GrantDriverWelcome(a) ==
  /\ welcome = "none"
  /\ welcome' = a
  /\ Post(a, Minimum)
  /\ UNCHANGED <<reserved, recharge, moved, trip, charged, bookings, paid, payout,
                 charge, taken, extra, h, budget>>

\* relocateDriverWelcome reads the credit before its transaction ...
RelocateDriverWelcome(w, a) ==
  /\ welcome \notin {"none", a} /\ moved = "none"
  /\ Begin(w, "move", Nothing, a)
  /\ UNCHANGED <<accounts, welcome, moved, trip, charged, bookings, paid, payout,
                 charge, taken, extra, budget>>

\* Slip: what was read before the transaction is taken for granted.
MayMoveAsRead == TRUE

\* ... and moves it once, if nothing else was ever posted beside it.
MayMove ==
  /\ moved = "none"
  /\ entries[welcome] = 1 /\ bal[welcome] = Minimum
  /\ welcome = "driver" => reserved = 0

MoveWelcome(w) ==
  /\ h[w].pc = "move"
  /\ Done(w)
  /\ \/ /\ MayMove
        /\ PostBoth(welcome, -Minimum, h[w].to, Minimum)
        /\ moved' = h[w].to
     \/ ~MayMove /\ UNCHANGED <<bal, entries, moved>>
  /\ UNCHANGED <<reserved, recharge, welcome, trip, charged, bookings, paid, payout,
                 charge, taken, extra, budget>>

-----------------------------------------------------------------------------
(* Commission and fare *)

\* completeTrip ends the ride and its booking; openForTrip then charges the
\* commission and, for a wallet booking, settles the fare.
CompleteTrip(w, t) ==
  /\ trip[t] = "riding"
  /\ trip' = [trip EXCEPT ![t] = "completed"]
  /\ Begin(w, "charge", t, IF method[t] = "wallet" THEN "recharge" ELSE "idle")
  /\ UNCHANGED <<accounts, welcome, moved, charged, bookings, paid, payout,
                 charge, taken, extra, budget>>

\* settleCollectedFare of a payment that the bank confirmed, or of the rider's
\* call of payTripFromRiderWallet: the commission first.
SettleFare(w, t) ==
  /\ trip[t] = "completed"
  /\ Begin(w, "charge", t, "settle")
  /\ UNCHANGED <<accounts, welcome, moved, trip, charged, bookings, paid, payout,
                 charge, taken, extra, budget>>

\* Slip: only trips whose fare has come in are gone over.
ReconcilePaid(w, t) ==
  /\ trip[t] = "completed" /\ ~charged[t] /\ paid[t]
  /\ Begin(w, "charge", t, "idle")
  /\ UNCHANGED <<accounts, welcome, moved, trip, charged, bookings, paid, payout,
                 charge, taken, extra, budget>>

\* reconcileUnchargedTrips finds a completed trip without its stamp.
Reconcile(w, t) ==
  /\ trip[t] = "completed" /\ ~charged[t]
  /\ Begin(w, "charge", t, "idle")
  /\ UNCHANGED <<accounts, welcome, moved, trip, charged, bookings, paid, payout,
                 charge, taken, extra, budget>>

MayCharge(t) == trip[t] = "completed" /\ ~charged[t]

\* chargeCompletedTripCommission: debit, income, promotion and stamp together.
\* openForTrip goes on to a settlement, which charges again.
ChargeCommission(w) ==
  LET t == h[w].x
      promo == IF discount[t] > 0 THEN 1 ELSE 0
  IN  /\ h[w].pc = "charge"
      /\ \/ h[w].to = "recharge" /\ h' = [h EXCEPT ![w].to = "settle"]
         \/ h[w].to = "settle" /\ Goto(w, "settle")
         \/ h[w].to = "idle" /\ Done(w)
      /\ \/ /\ MayCharge(t)
            /\ bal' = [bal EXCEPT !["driver"] = @ - Fee + discount[t],
                                  !["system"] = @ + Fee - discount[t]]
            /\ entries' = [entries EXCEPT !["driver"] = @ + 1 + promo,
                                          !["system"] = @ + 1 + promo]
            /\ charged' = [charged EXCEPT ![t] = TRUE]
            /\ recharge' = (recharge \/ bal'["driver"] - reserved <= 0)
         \/ ~MayCharge(t) /\ UNCHANGED <<bal, entries, charged, recharge>>
      /\ UNCHANGED <<reserved, welcome, moved, trip, bookings, paid, payout,
                     charge, taken, extra, budget>>

Covers(t) == method[t] = "wallet" => bal["rider"] >= Fare

MaySettle(t) == ~paid[t] /\ Covers(t)

\* The fare reaches the driver gross: the commission was charged before.
SettleCollectedFare(w) ==
  LET t == h[w].x
      cost == IF method[t] = "wallet" THEN Fare ELSE 0
      one == IF method[t] = "wallet" THEN 1 ELSE 0
  IN  /\ h[w].pc = "settle"
      /\ Done(w)
      /\ \/ /\ MaySettle(t)
            /\ bal' = [bal EXCEPT !["driver"] = @ + Fare, !["rider"] = @ - cost]
            /\ entries' = [entries EXCEPT !["driver"] = @ + 1, !["rider"] = @ + one]
            /\ recharge' = (recharge /\ bal'["driver"] - reserved < Minimum)
            /\ paid' = [paid EXCEPT ![t] = TRUE]
         \/ ~MaySettle(t) /\ UNCHANGED <<bal, entries, recharge, paid>>
      /\ UNCHANGED <<reserved, welcome, moved, trip, charged, bookings, payout,
                     charge, taken, extra, budget>>

-----------------------------------------------------------------------------
(* Postings by hand, and payouts *)

\* creditPostedTopup; only a top-up of the minimum lets a driver work again.
CreditPostedTopup(a, amt) ==
  /\ postings > 0 /\ postings' = postings - 1
  /\ Post(a, amt)
  /\ extra' = [extra EXCEPT ![a] = @ + amt]
  /\ recharge' = (recharge /\ ~(a = "driver" /\ amt >= Minimum /\ bal'[a] > 0))
  /\ UNCHANGED <<reserved, welcome, moved, trip, charged, bookings, paid, payout,
                 charge, taken, h, desk, faults>>

\* adjustBalanceByAdmin: of the whole balance, what is reserved included.
AdjustBalanceByAdmin(a, amt) ==
  /\ postings > 0 /\ postings' = postings - 1
  /\ bal[a] - amt >= 0
  /\ Post(a, -amt)
  /\ extra' = [extra EXCEPT ![a] = @ - amt]
  /\ UNCHANGED <<reserved, recharge, welcome, moved, trip, charged, bookings, paid,
                 payout, charge, taken, h, desk, faults>>

CreatePayoutRequest(x, amt) ==
  /\ payout[x].st = "none"
  /\ Available - amt >= Minimum
  /\ reserved' = reserved + amt
  /\ payout' = [payout EXCEPT ![x] = [st |-> "pending", amt |-> amt]]
  /\ UNCHANGED <<bal, entries, recharge, welcome, moved, trip, charged, bookings, paid,
                 charge, taken, extra, h, budget>>

\* PAID looks at what is left now, whatever was left at the request.
MayPay == Available >= Minimum

\* Slip: a rejected request keeps its reservation.
ReleaseOfPaid(x, st) == IF st = "paid" THEN payout[x].amt ELSE 0

\* What processPayout gives back: the rest is never negative.
Release(x, st) ==
  IF st = "approved" THEN 0
  ELSE IF reserved < payout[x].amt THEN reserved ELSE payout[x].amt

ProcessPayout(x, st) ==
  /\ payout[x].st \in Open \ {st}
  /\ st = "paid" => MayPay
  /\ payout' = [payout EXCEPT ![x].st = st]
  /\ reserved' = reserved - Release(x, st)
  /\ IF st = "paid" THEN Post("driver", -payout[x].amt) ELSE UNCHANGED <<bal, entries>>
  /\ UNCHANGED <<recharge, welcome, moved, trip, charged, bookings, paid, charge,
                 taken, extra, h, budget>>

-----------------------------------------------------------------------------
(* Pending charges *)

\* An admin's fine: record inserts it and tries the wallet at once; create
\* then saves the same entity with its reason.
RecordFine(w, c) ==
  /\ charge[c] = "none"
  /\ charge' = [charge EXCEPT ![c] = "pending"]
  /\ h[w] = Idle
  /\ h' = [h EXCEPT ![w] = [pc |-> "deduct", x |-> c, to |-> "reason", st |-> "pending"]]
  /\ UNCHANGED <<accounts, welcome, moved, trip, charged, bookings, paid, payout,
                 taken, extra, budget>>

\* collectOutstanding read this charge among the pending ones.
CollectOutstanding(w, c) ==
  /\ charge[c] = "pending" /\ desk > 0 /\ desk' = desk - 1
  /\ h[w] = Idle
  /\ h' = [h EXCEPT ![w] = [pc |-> "deduct", x |-> c, to |-> "idle", st |-> "pending"]]
  /\ UNCHANGED <<accounts, welcome, moved, trip, charged, bookings, paid, payout,
                 charge, taken, extra, postings, faults>>

\* waive read it too.
Waive(w, c) ==
  /\ charge[c] = "pending" /\ desk > 0 /\ desk' = desk - 1
  /\ h[w] = Idle
  /\ h' = [h EXCEPT ![w] = [pc |-> "stamp", x |-> c, to |-> "idle", st |-> "waived"]]
  /\ UNCHANGED <<accounts, welcome, moved, trip, charged, bookings, paid, payout,
                 charge, taken, extra, postings, faults>>

\* Slip: a charge the wallet does not cover is stamped as well.
AfterDeductAlways(w) == [h[w] EXCEPT !.pc = "stamp", !.st = "applied"]

\* The transaction's answer: an entry, or null when the balance is too small.
AfterDeduct(w) == IF bal["driver"] >= Fine
                  THEN [h[w] EXCEPT !.pc = "stamp", !.st = "applied"]
                  ELSE IF h[w].to = "idle" THEN Idle
                  ELSE [h[w] EXCEPT !.pc = h[w].to]

\* deductFromWallet: of the whole balance, what is reserved included.
DeductFromWallet(w) ==
  /\ h[w].pc = "deduct"
  /\ h' = [h EXCEPT ![w] = AfterDeduct(w)]
  /\ \/ /\ bal["driver"] >= Fine
        /\ Post("driver", -Fine)
        /\ taken' = [taken EXCEPT ![h[w].x] = @ + 1]
     \/ bal["driver"] < Fine /\ UNCHANGED <<bal, entries, taken>>
  /\ UNCHANGED <<reserved, recharge, welcome, moved, trip, charged, bookings, paid,
                 payout, charge, extra, budget>>

\* save(charge): the status the handler holds, over whatever the row has.
SaveCharge(w) ==
  /\ \/ h[w].pc = "reason" /\ Done(w)
     \/ h[w].pc = "stamp" /\ h[w].to = "idle" /\ Done(w)
     \/ h[w].pc = "stamp" /\ h[w].to = "reason" /\ Goto(w, "reason")
  /\ charge' = [charge EXCEPT ![h[w].x] = h[w].st]
  /\ UNCHANGED <<accounts, welcome, moved, trip, charged, bookings, paid, payout,
                 taken, extra, budget>>

-----------------------------------------------------------------------------
(* Failures *)

\* An await of this handler throws.  record swallows it, and create goes on
\* to save the entity as it is in memory.
Abort(w) ==
  /\ h[w].pc # "idle" /\ faults > 0 /\ faults' = faults - 1
  /\ IF h[w].to = "reason" /\ h[w].pc # "reason" THEN Goto(w, "reason") ELSE Done(w)
  /\ UNCHANGED <<accounts, welcome, moved, trip, charged, bookings, paid, payout,
                 charge, taken, extra, postings, desk>>

-----------------------------------------------------------------------------
HandlerStep(w) ==
  \/ MoveWelcome(w) \/ ChargeCommission(w) \/ SettleCollectedFare(w)
  \/ DeductFromWallet(w) \/ SaveCharge(w)

Trips(w) == \E t \in Trip : CompleteTrip(w, t) \/ SettleFare(w, t) \/ Reconcile(w, t)
Welcome(w) == \E a \in DriverAccount : GrantDriverWelcome(a) \/ RelocateDriverWelcome(w, a)
Charges(w) ==
  \E c \in Charge : RecordFine(w, c) \/ CollectOutstanding(w, c) \/ Waive(w, c)
ByHand ==
  \/ \E a \in {"driver", "rider"}, amt \in Amounts :
       CreditPostedTopup(a, amt) \/ AdjustBalanceByAdmin(a, amt)
  \/ \E x \in Payout : \/ \E amt \in Amounts : CreatePayoutRequest(x, amt)
                        \/ \E st \in {"approved", "paid", "rejected"} : ProcessPayout(x, st)

Next ==
  \/ \E w \in Handler :
       Trips(w) \/ Welcome(w) \/ Charges(w) \/ HandlerStep(w) \/ Abort(w)
  \/ ByHand

Spec == Init /\ [][Next]_vars

\* Handlers go on until they end, and the cron of the reconciliation runs
\* every half hour; it scans the trips in a window wide enough for each to be
\* met once more after a failure.
Fairness == /\ \A w \in Handler : WF_vars(HandlerStep(w))
            /\ \A t \in Trip : SF_vars(\E w \in Handler : Reconcile(w, t))
FairSpec == Spec /\ Fairness

-----------------------------------------------------------------------------
(* Properties *)

\* Every value stays in its type.
TypeOK ==
  /\ bal \in [Account -> Int] /\ reserved \in Nat
  /\ entries \in [Account -> Nat] /\ recharge \in BOOLEAN
  /\ welcome \in DriverAccount \cup {"none"} /\ moved \in DriverAccount \cup {"none"}
  /\ trip \in [Trip -> {"riding", "completed"}] /\ charged \in [Trip -> BOOLEAN]
  /\ method \in [Trip -> {"wallet", "cliq"}] /\ discount \in [Trip -> {0, 1}]
  /\ paid \in [Trip -> BOOLEAN]
  /\ payout \in [Payout -> [st : PayoutStatus, amt : Nat]]
  /\ charge \in [Charge -> ChargeStatus] /\ taken \in [Charge -> Nat]
  /\ extra \in [Account -> Int]
  /\ h \in [Handler -> [pc : {"idle", "move", "charge", "settle", "deduct", "stamp", "reason"},
                        x : {Nothing} \cup Trip \cup Charge,
                        to : {"idle", "recharge", "settle", "reason"} \cup DriverAccount,
                        st : ChargeStatus]]
  /\ postings \in 0..MaxPostings /\ desk \in 0..MaxDesk /\ faults \in 0..MaxFaults

\* A sum of natural numbers counts their units: x has the units <<x, 1>> up to
\* <<x, f[x]>>.
Units(S, f) == UNION {{x} \X (1..f[x]) : x \in S}
SumOf(S, f) == Cardinality(Units(S, f))

ChargedTrips == {t \in Trip : charged[t]}
PaidTrips == {t \in Trip : paid[t]}
PaidByWallet == {t \in PaidTrips : method[t] = "wallet"}
OpenPayouts == {x \in Payout : payout[x].st \in Open}
PaidPayouts == {x \in Payout : payout[x].st = "paid"}
Amount == [x \in Payout |-> payout[x].amt]
Promotions == SumOf(ChargedTrips, discount)
PaidOut == SumOf(PaidPayouts, Amount)
Granted(a) == IF moved = a \/ (welcome = a /\ moved = "none") THEN Minimum ELSE 0

\* A balance is what its causes add up to, each counted once: the welcome
\* credit, wherever it was moved to; one commission and promotion of every
\* stamped trip, which the platform's account mirrors; one fare of every paid
\* booking, which the rider paid if it was by wallet; payouts, fines and what
\* was posted by hand.
Explained ==
  /\ bal["driver"] = Granted("driver") + extra["driver"]
                       - Fee * Cardinality(ChargedTrips) + Promotions
                       + Fare * Cardinality(PaidTrips) - PaidOut
                       - Fine * SumOf(Charge, taken)
  /\ bal["abroad"] = Granted("abroad")
  /\ bal["system"] = Fee * Cardinality(ChargedTrips) - Promotions
  /\ bal["rider"] = extra["rider"] - Fare * Cardinality(PaidByWallet)

\* The money reserved on the account is that of the requests still open,
\* whatever was decided about the others, in whatever order.
ReservedIsOpen == reserved = SumOf(OpenPayouts, Amount)

\* A fare reaches the driver only once the commission of its trip was taken:
\* whoever settles it, and whatever failed before.
SettledIsCharged == \A t \in Trip : paid[t] => charged[t]

\* A charge is recorded as applied only if the wallet paid for it.
AppliedIsDeducted == \A c \in Charge : charge[c] = "applied" => taken[c] > 0

\* No rider's wallet is overdrawn: only fares and admins debit it, each after
\* a look at the balance under the account's lock.
RiderNeverOwes == bal["rider"] >= 0

\* The commission of a completed trip is taken, even if the end of the ride
\* failed to: the reconciliation finds the trip without its stamp.
CompletedIsCharged == \A t \in Trip : trip[t] = "completed" ~> charged[t]
=============================================================================
