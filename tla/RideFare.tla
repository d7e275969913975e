------------------------------- MODULE RideFare -------------------------------
(***************************************************************************)
(* Collecting the fare of a completed ride: in cash, from the rider's      *)
(* wallet, or by a CliQ request-to-pay that the passenger approves in the  *)
(* app of their bank, which is polled.  The passenger may retry a failed   *)
(* request or switch to cash; the driver says whether cash was received.   *)
(*                                                                         *)
(* As in InstantDispatch a handler is a record in h and one step is one    *)
(* statement.  bookingRepo.save(booking) is two: it selects the row again  *)
(* and updates the columns in which the entity, read long before, differs. *)
(* A payment's row has one column here and is saved in one step.           *)
(***************************************************************************)
EXTENDS Naturals

CONSTANTS Booking, Handler,
          MaxPayments,    \* rows of payments of type ride_fare
          Attempts,       \* RIDE_FARE_POLL_ATTEMPTS
          MaxOpens,       \* calls of openForTrip
          MaxDesk,        \* calls of the payments service on a fare's payment
          MaxFaults,      \* awaits that throw, enqueues and inquiries that fail
          NoBooking

ASSUME FareAssumption == /\ MaxPayments \in Nat /\ Attempts \in Nat \ {0}
                         /\ MaxOpens \in Nat /\ MaxDesk \in Nat /\ MaxFaults \in Nat
                         /\ NoBooking \notin Booking

Payment == 1..MaxPayments

VARIABLES
  row,             \* bookings: the columns the payment depends on
  amount,          \* totalAmount; 0 when a promotion covers the fare
  pstat, pbook,    \* payments: status and bookingId
  bank,            \* what became of a request-to-pay at the bank
  fare, debit,     \* wallet postings ride-fare:<booking>, rider-fare:<booking>
  topup,           \* the rider's wallet posting cliq-topup:<payment>
  cash,            \* the driver has said that cash was received
  polls,           \* delayed poll jobs: payment and attempt
  h,               \* handlers in flight
  opens, desk, faults    \* what is left of the bounds

payments == <<pstat, pbook>>
ledger == <<fare, debit, topup>>
budget == <<opens, desk, faults>>
vars == <<row, amount, payments, bank, ledger, cash, polls, h, budget>>

Method == {"cash", "cliq", "wallet"}
PaymentStatus == {"pending", "requested", "paid", "failed", "disputed"}
Row == [method : Method, pay : PaymentStatus, cur : Payment \cup {0}]
NoRow == [method |-> "cash", pay |-> "pending", cur |-> 0]

Pc == {"idle", "request", "save", "write", "purchase", "record", "refused",
       "inquire", "expire", "fail", "look", "giveup", "settle", "approve", "stamp",
       "credit", "reject"}

Idle == [pc |-> "idle", b |-> NoBooking, i |-> 0, k |-> 0, m |-> "cliq",
         by |-> "none", to |-> "idle", e |-> NoRow, dirty |-> {}]

Init ==
  /\ row \in [Booking -> {[NoRow EXCEPT !.method = m] : m \in Method}]
  /\ amount \in [Booking -> {0, 1}]
  /\ pstat = [i \in Payment |-> "unused"]
  /\ pbook = [i \in Payment |-> NoBooking]
  /\ bank = [i \in Payment |-> "none"]
  /\ fare = [b \in Booking |-> 0]
  /\ debit = [b \in Booking |-> 0]
  /\ topup = [i \in Payment |-> 0]
  /\ cash = [b \in Booking |-> FALSE]
  /\ polls = {}
  /\ h = [w \in Handler |-> Idle]
  /\ opens = MaxOpens
  /\ desk = MaxDesk
  /\ faults = MaxFaults

-----------------------------------------------------------------------------
(* Handlers *)

Begin(w, rec) == h[w] = Idle /\ h' = [h EXCEPT ![w] = rec]
Goto(w, rec) == h' = [h EXCEPT ![w] = rec]

Fault == faults > 0 /\ faults' = faults - 1

\* Handler w saves entity e and then goes on at pc.
SaveThen(w, e, pc) == Goto(w, [h[w] EXCEPT !.pc = "save", !.e = e, !.to = pc])

\* The save is done: the handler goes on, or has no more to do.
Saved(w) == Goto(w, IF h[w].to = "idle" THEN Idle
                    ELSE [h[w] EXCEPT !.pc = h[w].to, !.dirty = {}])

\* save() selects the row ...
SaveBooking(w) ==
  LET differs == {f \in {"method", "pay", "cur"} : h[w].e[f] # row[h[w].b][f]}
  IN  /\ h[w].pc = "save"
      /\ \/ differs = {} /\ Saved(w)
         \/ differs # {} /\ Goto(w, [h[w] EXCEPT !.pc = "write", !.dirty = differs])
      /\ UNCHANGED <<row, amount, payments, bank, ledger, cash, polls, budget>>

\* ... and updates the columns that differed.
WriteBooking(w) ==
  LET Written(f) == IF f \in h[w].dirty THEN h[w].e[f] ELSE row[h[w].b][f]
  IN  /\ h[w].pc = "write"
      /\ row' = [row EXCEPT ![h[w].b] = [method |-> Written("method"),
                                         pay |-> Written("pay"),
                                         cur |-> Written("cur")]]
      /\ Saved(w)
      /\ UNCHANGED <<amount, payments, bank, ledger, cash, polls, budget>>

\* schedulePoll: a failure to enqueue is logged and swallowed.
SchedulePoll(i, k) ==
  \/ polls' = polls \cup {<<i, k>>} /\ UNCHANGED faults
  \/ polls' = polls /\ Fault

\* Slip: the poll is scheduled with the attempt it had.
SameAttempt(k) == k
NextAttempt(k) == k + 1

\* Slip: 300 and 310, the request is with the passenger, count as paid.
BankSaysPaidEarly(i) == bank[i] \in {"asked", "paid"}

\* paymentInquiry: only "0" is final.
BankSaysPaid(i) == bank[i] = "paid"

-----------------------------------------------------------------------------
(* The ride ends *)

\* openForTrip, once per booking: completeTrip calls it, and so may a second
\* completeTrip or the auto-complete job that ran into it.
OpenForTrip(w, b) ==
  /\ opens > 0 /\ opens' = opens - 1
  /\ row[b].pay = "pending"
  /\ LET rec == [Idle EXCEPT !.b = b, !.by = "open", !.m = row[b].method, !.e = row[b]]
     IN  \/ /\ amount[b] = 0 \/ row[b].method = "wallet"
            /\ Begin(w, [rec EXCEPT !.pc = "settle"])
         \/ /\ amount[b] # 0 /\ row[b].method = "cliq"
            /\ Begin(w, [rec EXCEPT !.pc = "request"])
  /\ UNCHANGED <<row, amount, payments, bank, ledger, cash, polls, desk, faults>>

NextPayment == {i \in Payment : /\ pstat[i] = "unused"
                                /\ \A j \in Payment : j < i => pstat[j] # "unused"}

\* requestCliq: a payment and the booking that waits for it.  Without a valid
\* alias of the payer the booking fails at once.
RequestCliq(w) ==
  /\ h[w].pc = "request"
  /\ \/ \E i \in NextPayment :
          /\ pstat' = [pstat EXCEPT ![i] = "pending"]
          /\ pbook' = [pbook EXCEPT ![i] = h[w].b]
          /\ Goto(w, [h[w] EXCEPT !.pc = "save", !.to = "purchase", !.i = i,
                                  !.e.pay = "requested", !.e.cur = i])
     \/ /\ SaveThen(w, [h[w].e EXCEPT !.pay = "failed"], "idle")
        /\ UNCHANGED payments
  /\ UNCHANGED <<row, amount, bank, ledger, cash, polls, budget>>

\* The bank takes the request, refuses it (3010), or the call fails before or
\* after the request was delivered.
Purchase(w) ==
  /\ h[w].pc = "purchase"
  /\ \/ /\ bank' = [bank EXCEPT ![h[w].i] = "asked"]
        /\ Goto(w, [h[w] EXCEPT !.pc = "record"])
     \/ /\ UNCHANGED bank
        /\ Goto(w, [h[w] EXCEPT !.pc = "record"])
     \/ /\ bank' = [bank EXCEPT ![h[w].i] = "refused"]
        /\ Goto(w, [h[w] EXCEPT !.pc = "refused"])
  /\ UNCHANGED <<row, amount, payments, ledger, cash, polls, budget>>

\* Slip: nothing watches the request.
RecordPurchaseUnwatched(w) ==
  /\ h[w].pc = "record"
  /\ Goto(w, Idle)
  /\ UNCHANGED <<row, amount, payments, bank, ledger, cash, polls, budget>>

\* The reference is saved with the status the entity has had since the insert,
\* and the request is watched.  Without a reference nothing is saved.
RecordPurchase(w) ==
  /\ h[w].pc = "record"
  /\ \E st \in {"pending", pstat[h[w].i]} : pstat' = [pstat EXCEPT ![h[w].i] = st]
  /\ SchedulePoll(h[w].i, 1)
  /\ Goto(w, Idle)
  /\ UNCHANGED <<row, amount, pbook, bank, ledger, cash, opens, desk>>

RefusePurchase(w) ==
  /\ h[w].pc = "refused"
  /\ pstat' = [pstat EXCEPT ![h[w].i] = "rejected"]
  /\ SaveThen(w, [h[w].e EXCEPT !.pay = "failed"], "idle")
  /\ UNCHANGED <<row, amount, pbook, bank, ledger, cash, polls, budget>>

-----------------------------------------------------------------------------
(* Watching the bank *)

\* The passenger answers a request in the bank's app, however late.
BankAnswers(i) ==
  /\ bank[i] = "asked"
  /\ \E answer \in {"paid", "refused"} : bank' = [bank EXCEPT ![i] = answer]
  /\ UNCHANGED <<row, amount, payments, ledger, cash, polls, h, budget>>

PollFires(w, i, k) ==
  /\ <<i, k>> \in polls
  /\ polls' = polls \ {<<i, k>>}
  /\ Begin(w, IF pstat[i] # "pending" THEN Idle
              ELSE [Idle EXCEPT !.pc = "inquire", !.by = "poll",
                                !.i = i, !.k = k, !.b = pbook[i]])
  /\ UNCHANGED <<row, amount, payments, bank, ledger, cash, budget>>

\* recoverPendingReceipts, every five minutes.
Recover(w, i) ==
  /\ pstat[i] = "pending"
  /\ Begin(w, [Idle EXCEPT !.pc = "inquire", !.by = "cron", !.i = i, !.b = pbook[i]])
  /\ UNCHANGED <<row, amount, payments, bank, ledger, cash, polls, budget>>

\* The bank confirms the payment ...
InquiryPaid(w) ==
  /\ h[w].pc = "inquire"
  /\ BankSaysPaid(h[w].i)
  /\ Goto(w, [h[w] EXCEPT !.pc = IF h[w].by = "refresh" THEN "credit" ELSE "settle",
                          !.m = "cliq"])
  /\ UNCHANGED <<row, amount, payments, bank, ledger, cash, polls, budget>>

\* ... or says anything else, or the inquiry throws: the poll comes again until
\* its attempts are used up, switchToCash gives the request up.
InquiryOpen(w) ==
  LET i == h[w].i
      again == h[w].by = "poll" /\ h[w].k < Attempts
      next == NextAttempt(h[w].k)
  IN  /\ h[w].pc = "inquire"
      /\ Goto(w, CASE again -> Idle
                   [] ~again /\ h[w].by = "poll" -> [h[w] EXCEPT !.pc = "expire"]
                   [] h[w].by = "switch" -> [h[w] EXCEPT !.pc = "giveup"]
                   [] h[w].by = "refresh" /\ bank[i] = "refused" ->
                        [h[w] EXCEPT !.pc = "reject"]
                   [] OTHER -> Idle)
      /\ \/ again /\ ~BankSaysPaid(i) /\ SchedulePoll(i, next)
         \/ again /\ BankSaysPaid(i) /\ Fault /\ polls' = polls \cup {<<i, next>>}
         \/ ~again /\ ~BankSaysPaid(i) /\ UNCHANGED <<polls, faults>>
         \/ ~again /\ BankSaysPaid(i) /\ Fault /\ UNCHANGED polls
      /\ UNCHANGED <<row, amount, payments, bank, ledger, cash, opens, desk>>

\* Slips: the booking is not told; the booking's status is written to the
\* payment.
ExpirePaymentOnly(w) ==
  /\ h[w].pc = "expire"
  /\ pstat' = [pstat EXCEPT ![h[w].i] = "rejected"]
  /\ Goto(w, Idle)
  /\ UNCHANGED <<row, amount, pbook, bank, ledger, cash, polls, budget>>
ExpirePaymentMixed(w) ==
  /\ h[w].pc = "expire"
  /\ pstat' = [pstat EXCEPT ![h[w].i] = "failed"]
  /\ Goto(w, [h[w] EXCEPT !.pc = "fail"])
  /\ UNCHANGED <<row, amount, pbook, bank, ledger, cash, polls, budget>>

\* The last attempt: the payment is rejected ...
ExpirePayment(w) ==
  /\ h[w].pc = "expire"
  /\ pstat' = [pstat EXCEPT ![h[w].i] = "rejected"]
  /\ Goto(w, [h[w] EXCEPT !.pc = "fail"])
  /\ UNCHANGED <<row, amount, pbook, bank, ledger, cash, polls, budget>>

\* ... and its booking failed, if it still waits.
FailBooking(w) ==
  /\ h[w].pc = "fail"
  /\ IF row[h[w].b].pay = "requested"
     THEN SaveThen(w, [row[h[w].b] EXCEPT !.pay = "failed"], "idle")
     ELSE Goto(w, Idle)
  /\ UNCHANGED <<row, amount, payments, bank, ledger, cash, polls, budget>>

-----------------------------------------------------------------------------
(* settleCollectedFare: one transaction with the booking locked *)

\* What follows the transaction: onCliqPaid approves the payment.
Settled(w) == Goto(w, IF h[w].by \in {"poll", "cron", "switch"}
                      THEN [h[w] EXCEPT !.pc = "approve"] ELSE Idle)

\* Slip: the exception is swallowed.
SettleFailsSilently(w) == Settled(w) /\ UNCHANGED <<row, ledger, polls>>

\* It throws.  Bull runs a poll job again, up to ten times.
SettleFails(w) ==
  /\ Goto(w, Idle)
  /\ \E again \in SUBSET {<<h[w].i, h[w].k>>} :
       /\ h[w].by # "poll" => again = {}
       /\ polls' = polls \cup again
  /\ UNCHANGED <<row, ledger>>

\* Slip: the posting is keyed by the payment.
PostFareAgain(b) == fare' = [fare EXCEPT ![b] = @ + 1]

\* The driver's credit is posted under the key ride-fare:<booking>, once.
PostFare(b) == fare' = [fare EXCEPT ![b] = IF @ = 0 THEN 1 ELSE @]

Settle(w) ==
  LET b == h[w].b
      open == row[b].method = h[w].m /\ row[b].pay # "disputed"
      debits == h[w].m = "wallet" /\ amount[b] > 0
  IN  /\ h[w].pc = "settle"
      /\ \/ /\ row[b].pay = "paid"
            /\ Settled(w)
            /\ UNCHANGED <<row, ledger, polls>>
         \/ /\ row[b].pay # "paid" /\ open
            /\ debits => debit[b] = 0
            /\ debit' = [debit EXCEPT ![b] = IF debits THEN @ + 1 ELSE @]
            /\ PostFare(b)
            /\ row' = [row EXCEPT ![b].pay = "paid"]
            /\ Settled(w)
            /\ UNCHANGED <<topup, polls>>
         \/ /\ row[b].pay # "paid"
            /\ ~open \/ debits   \* a wallet may be short of the fare
            /\ SettleFails(w)
      /\ UNCHANGED <<amount, payments, bank, cash, budget>>

ApprovePayment(w) ==
  /\ h[w].pc = "approve"
  /\ pstat' = [pstat EXCEPT ![h[w].i] = "approved"]
  /\ Goto(w, IF h[w].by = "refresh" THEN Idle ELSE [h[w] EXCEPT !.pc = "stamp"])
  /\ UNCHANGED <<row, amount, pbook, bank, ledger, cash, polls, budget>>

StampBooking(w) ==
  /\ h[w].pc = "stamp"
  /\ IF row[h[w].b].pay # "paid"
     THEN SaveThen(w, [row[h[w].b] EXCEPT !.pay = "paid"], "idle")
     ELSE Goto(w, Idle)
  /\ UNCHANGED <<row, amount, payments, bank, ledger, cash, polls, budget>>

-----------------------------------------------------------------------------
(* PaymentsService, which does not look at what a payment is for *)

Desk == desk > 0 /\ desk' = desk - 1

\* refreshCliqPaymentStatus inquires and, if paid, tops up the payer's wallet.
RefreshStatus(w, i) ==
  /\ Desk /\ pstat[i] = "pending"
  /\ Begin(w, [Idle EXCEPT !.pc = "inquire", !.by = "refresh", !.i = i, !.b = pbook[i]])
  /\ UNCHANGED <<row, amount, payments, bank, ledger, cash, polls, opens, faults>>

CreditTopup(w) ==
  /\ h[w].pc = "credit"
  /\ topup' = [topup EXCEPT ![h[w].i] = IF @ = 0 THEN 1 ELSE @]
  /\ Goto(w, [h[w] EXCEPT !.pc = "approve"])
  /\ UNCHANGED <<row, amount, payments, bank, fare, debit, cash, polls, budget>>

\* An admin rejects a pending payment.
AdminRejects(w, i) ==
  /\ Desk /\ pstat[i] = "pending"
  /\ Begin(w, [Idle EXCEPT !.pc = "reject", !.by = "admin", !.i = i, !.b = pbook[i]])
  /\ UNCHANGED <<row, amount, payments, bank, ledger, cash, polls, opens, faults>>

RejectPayment(w) ==
  /\ h[w].pc = "reject"
  /\ pstat' = [pstat EXCEPT ![h[w].i] = "rejected"]
  /\ Goto(w, Idle)
  /\ UNCHANGED <<row, amount, pbook, bank, ledger, cash, polls, budget>>

-----------------------------------------------------------------------------
(* The passenger and the driver *)

\* payTripFromRiderWallet
PayFromWallet(w, b) ==
  /\ row[b].method = "wallet"
  /\ Begin(w, [Idle EXCEPT !.pc = "settle", !.b = b, !.by = "rider", !.m = "wallet"])
  /\ UNCHANGED <<row, amount, payments, bank, ledger, cash, polls, budget>>

RetryCliq(w, b) ==
  /\ row[b].method = "cliq" /\ row[b].pay = "failed"
  /\ Begin(w, [Idle EXCEPT !.pc = "request", !.b = b, !.by = "rider", !.e = row[b]])
  /\ UNCHANGED <<row, amount, payments, bank, ledger, cash, polls, budget>>

SwitchToCash(w, b) ==
  /\ row[b].method = "cliq" /\ row[b].pay \in {"failed", "requested"}
  /\ Begin(w, [Idle EXCEPT !.pc = "look", !.b = b, !.by = "switch", !.e = row[b]])
  /\ UNCHANGED <<row, amount, payments, bank, ledger, cash, polls, budget>>

InCash(e) == [e EXCEPT !.method = "cash", !.pay = "pending"]

\* "One last look first" at the outstanding payment, if it is still pending.
Look(w) ==
  LET i == h[w].e.cur
  IN  /\ h[w].pc = "look"
      /\ IF i # 0 /\ pstat[i] = "pending"
         THEN Goto(w, [h[w] EXCEPT !.pc = "inquire", !.i = i])
         ELSE SaveThen(w, InCash(h[w].e), "idle")
      /\ UNCHANGED <<row, amount, payments, bank, ledger, cash, polls, budget>>

GiveUp(w) ==
  /\ h[w].pc = "giveup"
  /\ pstat' = [pstat EXCEPT ![h[w].i] = "rejected"]
  /\ SaveThen(w, InCash(h[w].e), "idle")
  /\ UNCHANGED <<row, amount, pbook, bank, ledger, cash, polls, budget>>

ConfirmCash(w, b, received) ==
  /\ row[b].method = "cash" /\ row[b].pay \notin {"paid", "disputed"}
  /\ cash' = [cash EXCEPT ![b] = @ \/ received]
  /\ Begin(w, [Idle EXCEPT !.pc = "save", !.b = b, !.by = "driver",
                           !.e = [row[b] EXCEPT !.pay = IF received THEN "paid"
                                                        ELSE "disputed"]])
  /\ UNCHANGED <<row, amount, payments, bank, ledger, polls, budget>>

\* An await throws or the process dies: the rest of the handler never runs.
\* Bull may run a poll job again.
Abort(w) ==
  /\ h[w] # Idle /\ Fault
  /\ Goto(w, Idle)
  /\ \E again \in SUBSET {<<h[w].i, h[w].k>>} :
       /\ h[w].by # "poll" => again = {}
       /\ polls' = polls \cup again
  /\ UNCHANGED <<row, amount, payments, bank, ledger, cash, opens, desk>>

-----------------------------------------------------------------------------
HandlerStep(w) ==
  \/ SaveBooking(w) \/ WriteBooking(w)
  \/ RequestCliq(w) \/ Purchase(w) \/ RecordPurchase(w) \/ RefusePurchase(w)
  \/ InquiryPaid(w) \/ InquiryOpen(w) \/ ExpirePayment(w) \/ FailBooking(w)
  \/ Settle(w) \/ ApprovePayment(w) \/ StampBooking(w)
  \/ CreditTopup(w) \/ RejectPayment(w)
  \/ Look(w) \/ GiveUp(w)

Poll(i) == \E w \in Handler, k \in 1..Attempts : PollFires(w, i, k)

UserCall(w) ==
  \E b \in Booking : \/ OpenForTrip(w, b) \/ PayFromWallet(w, b)
                     \/ RetryCliq(w, b) \/ SwitchToCash(w, b)
                     \/ \E received \in BOOLEAN : ConfirmCash(w, b, received)

Next ==
  \/ \E w \in Handler : \/ HandlerStep(w) \/ UserCall(w) \/ Abort(w)
                        \/ \E i \in Payment : \/ Recover(w, i) \/ RefreshStatus(w, i)
                                             \/ AdminRejects(w, i)
  \/ \E i \in Payment : Poll(i) \/ BankAnswers(i)

Spec == Init /\ [][Next]_vars

(* Handlers run on, and Bull delivers the polls; strong fairness because in the
   code a poll does not wait for a free handler, a bound of the model.  Neither
   the bank nor any person has to do anything. *)
Fairness == /\ \A w \in Handler : WF_vars(HandlerStep(w))
            /\ \A i \in Payment : SF_vars(Poll(i))

FairSpec == Spec /\ Fairness

-----------------------------------------------------------------------------
(* What holds *)

HandlerRecord ==
  [pc : Pc, b : Booking \cup {NoBooking}, i : Payment \cup {0}, k : 0..Attempts,
   m : Method, by : {"none", "open", "poll", "cron", "switch", "rider", "driver",
               "refresh", "admin"},
   to : {"idle", "purchase"}, e : Row, dirty : SUBSET {"method", "pay", "cur"}]

TablesTypeOK ==
  /\ row \in [Booking -> Row]
  /\ amount \in [Booking -> {0, 1}]
  /\ pstat \in [Payment -> {"unused", "pending", "approved", "rejected"}]
  /\ pbook \in [Payment -> Booking \cup {NoBooking}]
  /\ bank \in [Payment -> {"none", "asked", "paid", "refused"}]
  /\ fare \in [Booking -> Nat]
  /\ debit \in [Booking -> Nat]
  /\ topup \in [Payment -> Nat]
  /\ cash \in [Booking -> BOOLEAN]
  /\ polls \subseteq Payment \X (1..Attempts)
  /\ opens \in Nat /\ desk \in Nat /\ faults \in Nat

\* The state has the shape of the tables, the queue and the handlers.
TypeOK == TablesTypeOK /\ h \in [Handler -> HandlerRecord]

Quiet == \A w \in Handler : h[w] = Idle
Flawless == faults = MaxFaults

\* However often a fare is settled, by polls, the cron, a switch to cash and
\* two openings of the trip, and although a stale save can unpay the booking in
\* between: the driver is credited at most once, the rider debited at most
\* once, and never without the driver's credit.
LedgerBalanced == \A b \in Booking : debit[b] <= fare[b] /\ fare[b] <= 1

BankPaid(b) == \E i \in Payment : pbook[i] = b /\ bank[i] = "paid"

\* The driver's wallet is credited only against money: a debit of the rider or
\* a transfer the bank confirmed (or a fare of nothing).
CreditIsBacked ==
  \A b \in Booking : fare[b] > 0 => amount[b] = 0 \/ debit[b] = 1 \/ BankPaid(b)

\* A booking is paid only if the driver has the fare, in the wallet or in hand.
PaidIsCollected ==
  \A b \in Booking : row[b].pay = "paid" => fare[b] = 1 \/ cash[b]

\* A payment is approved only if the bank confirmed it.
ApprovedIsConfirmed == \A i \in Payment : pstat[i] = "approved" => bank[i] = "paid"

\* Nobody's transfer ends up nowhere: a payment is approved only when the driver has
\* the fare (a confirmation that comes after a switch to cash settles nothing), or
\* when the payments service has put the money into the rider's wallet.
ApprovedIsCollected ==
  \A i \in Payment : pstat[i] = "approved" =>
    fare[pbook[i]] = 1 \/ cash[pbook[i]] \/ topup[i] > 0

\* When nothing is in flight a pending payment is polled for, unless the bank has
\* confirmed it (the cron goes on to settle those).
PendingIsWatched ==
  Quiet /\ Flawless =>
    \A i \in Payment :
      pstat[i] = "pending" => bank[i] = "paid" \/ \E k \in 1..Attempts : <<i, k>> \in polls

\* When nothing is in flight a booking that waits for the bank has a payment that is
\* still watched: the passenger's screen never waits in vain (unless the payments
\* service took a hand).
RequestedIsOpen ==
  Quiet /\ Flawless /\ desk = MaxDesk =>
    \A b \in Booking : row[b].pay = "requested" =>
      \E i \in Payment : pbook[i] = b /\ pstat[i] = "pending"

\* Unless an enqueue or a handler fails, every request to pay ends: the bank
\* confirms it or it is given up.
PaymentEnds ==
  []Flawless =>
    \A i \in Payment : pstat[i] = "pending" ~> pstat[i] # "pending" \/ bank[i] = "paid"
=============================================================================
