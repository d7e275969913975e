----------------------------- MODULE WalletTopup -----------------------------
(***************************************************************************)
(* Charging a wallet.  A manual top-up is a receipt that an admin decides  *)
(* on; a CliQ top-up is a request to the user's bank that is watched by a  *)
(* chain of polls and by the app's own screen.  Each of them credits the   *)
(* wallet first and marks the payment approved afterwards; a credit is     *)
(* posted at most once per idempotency key.                                *)
(*                                                                         *)
(* A handler is a record in h: its program counter, its payment and, for a *)
(* poll, its attempt.  One step is one call of the database, the queue or  *)
(* the bank; creditPostedTopup is one transaction.  save() writes the      *)
(* status the handler holds in memory over whatever the row has by then.   *)
(***************************************************************************)
EXTENDS Naturals

CONSTANTS Payment,      \* rows of payments with paymentType wallet_topup
          Handler,      \* the handlers that may be in flight at once
          Attempts,     \* polls of one payment (144 in the code)
          MaxLooks,     \* calls of the app's payment screen
          MaxDesk,      \* approvals and rejections by admins, edits of receipts
          MaxStalls,    \* workers that die with a poll in hand
          MaxFaults,    \* awaits that throw
          NoPayment

ASSUME TopupAssumption == /\ Attempts \in Nat \ {0}
                          /\ MaxLooks \in Nat /\ MaxDesk \in Nat
                          /\ MaxStalls \in Nat /\ MaxFaults \in Nat
                          /\ NoPayment \notin Payment

VARIABLES
  status, method,      \* payments
  bank,                \* what the user's bank knows of the request
  credits,             \* wallet_transactions: entries by payment and key
  polls,               \* delayed Bull jobs: payment, attempt
  h,                   \* handlers in flight
  looks, desk, stalls, faults   \* what is left of the bounds

rows == <<status, method>>
budget == <<looks, desk, stalls, faults>>
vars == <<rows, bank, credits, polls, h, budget>>

Key == {"cliq-topup", "payment-topup"}
Status == {"none", "pending", "approved", "rejected"}
Poll == Payment \X (1..Attempts)

Idle == [pc |-> "idle", p |-> NoPayment, k |-> 0, by |-> "nobody"]

Init ==
  /\ status = [p \in Payment |-> "none"]
  /\ method = [p \in Payment |-> "none"]
  /\ bank = [p \in Payment |-> "none"]
  /\ credits = [p \in Payment |-> [k \in Key |-> 0]]
  /\ polls = {}
  /\ h = [w \in Handler |-> Idle]
  /\ looks = MaxLooks /\ desk = MaxDesk
  /\ stalls = MaxStalls /\ faults = MaxFaults

-----------------------------------------------------------------------------
(* Steps of a handler *)

Begin(w, p, pc, by, k) ==
  h[w] = Idle /\ h' = [h EXCEPT ![w] = [pc |-> pc, p |-> p, k |-> k, by |-> by]]
Goto(w, pc) == h' = [h EXCEPT ![w].pc = pc]
Done(w) == h' = [h EXCEPT ![w] = Idle]

\* The handler saves its payment with the status it holds.
Save(w, st) == status' = [status EXCEPT ![h[w].p] = st]

\* Slip: an inquiry that 300 or 310 answered counts as paid.
BankConfirmsEarly(p) == bank[p] \in {"asked", "paid"}

\* paymentInquiry: only "0" and "000" say that the money came.
BankConfirms(p) == bank[p] = "paid"

\* An entry for this key, unless there is one: checked again under the lock.
CreditPostedTopup(p, key) ==
  credits' = IF credits[p][key] = 0 THEN [credits EXCEPT ![p][key] = @ + 1]
             ELSE credits

\* The desk credits under a key of its own.
KeyOf(by) == IF by = "desk" THEN "payment-topup" ELSE "cliq-topup"

-----------------------------------------------------------------------------
(* A top-up is asked for *)

CreateManual(p) ==
  /\ status[p] = "none"
  /\ status' = [status EXCEPT ![p] = "pending"]
  /\ method' = [method EXCEPT ![p] = "manual"]
  /\ UNCHANGED <<bank, credits, polls, h, budget>>

CreateCliq(w, p) ==
  /\ status[p] = "none"
  /\ status' = [status EXCEPT ![p] = "pending"]
  /\ method' = [method EXCEPT ![p] = "cliq_a2a"]
  /\ Begin(w, p, "purchase", "create", 0)
  /\ UNCHANGED <<bank, credits, polls, budget>>

\* The request reaches the bank, or does not; the answer is another matter.
Purchase(w) ==
  /\ h[w].pc = "purchase"
  /\ \E seen \in {"asked", "none"} : bank' = [bank EXCEPT ![h[w].p] = seen]
  /\ Goto(w, "answer")
  /\ UNCHANGED <<rows, credits, polls, budget>>

\* The answer has a reference to save or not, or the call has failed; 3010 is a
\* refusal for good, with or without a reference.
PurchaseAnswers(w) ==
  /\ h[w].pc = "answer"
  /\ \/ Goto(w, "reference")
     \/ Goto(w, "enqueue")
     \/ bank[h[w].p] = "none" /\ Goto(w, "refuse")
  /\ UNCHANGED <<rows, bank, credits, polls, budget>>

\* The entity has been pending since its insert: so it is saved.
SaveReference(w) ==
  /\ h[w].pc = "reference"
  /\ Save(w, "pending")
  /\ \/ Goto(w, "enqueue")
     \/ bank[h[w].p] = "none" /\ Goto(w, "refuse")
  /\ UNCHANGED <<method, bank, credits, polls, budget>>

\* Slip: no poll is handed over.
PollCliqTopupLater(w) ==
  /\ h[w].pc = "enqueue"
  /\ Done(w)
  /\ UNCHANGED <<rows, bank, credits, polls, budget>>

\* pollCliqTopup: the first poll.
PollCliqTopup(w) ==
  /\ h[w].pc = "enqueue"
  /\ polls' = polls \cup {<<h[w].p, 1>>}
  /\ Done(w)
  /\ UNCHANGED <<rows, bank, credits, budget>>

Refuse(w) ==
  /\ h[w].pc = "refuse"
  /\ Save(w, "rejected")
  /\ Done(w)
  /\ UNCHANGED <<method, bank, credits, polls, budget>>

\* The user answers in the bank's app, however late.
BankDecides(p) ==
  /\ bank[p] = "asked"
  /\ \E answer \in {"paid", "failed"} : bank' = [bank EXCEPT ![p] = answer]
  /\ UNCHANGED <<rows, credits, polls, h, budget>>

-----------------------------------------------------------------------------
(* The bank is asked: by the polls, and by the app's screen *)

\* handlePoll: a payment that has been decided ends the chain.
PollFires(w, p, k) ==
  /\ <<p, k>> \in polls
  /\ polls' = polls \ {<<p, k>>}
  /\ \/ status[p] = "pending" /\ Begin(w, p, "inquire", "poll", k)
     \/ status[p] # "pending" /\ h[w] = Idle /\ UNCHANGED h
  /\ UNCHANGED <<rows, bank, credits, budget>>

\* refreshCliqPaymentStatus returns a payment that has been decided as it is.
Refresh(w, p) ==
  /\ looks > 0 /\ looks' = looks - 1
  /\ status[p] = "pending" /\ method[p] = "cliq_a2a"
  /\ Begin(w, p, "inquire", "screen", 0)
  /\ UNCHANGED <<rows, bank, credits, polls, desk, stalls, faults>>

\* The inquiry answers, or fails.  Only the screen believes a final FAILED.
Inquire(w) ==
  LET p == h[w].p
  IN  /\ h[w].pc = "inquire"
      /\ \/ BankConfirms(p) /\ Goto(w, "credit")
         \/ h[w].by = "poll" /\ Goto(w, "again")
         \/ h[w].by = "screen" /\ bank[p] = "failed" /\ Goto(w, "reject")
         \/ h[w].by = "screen" /\ Done(w)
      /\ UNCHANGED <<rows, bank, credits, polls, budget>>

LastAttempt(w) == h[w].k >= Attempts

\* Slip: the next poll carries the attempt of this one.
AgainUncounted(w) ==
  /\ h[w].pc = "again"
  /\ Done(w)
  /\ \/ /\ LastAttempt(w) /\ Save(w, "rejected") /\ UNCHANGED polls
     \/ /\ ~LastAttempt(w) /\ UNCHANGED status
        /\ polls' = polls \cup {<<h[w].p, h[w].k>>}
  /\ UNCHANGED <<method, bank, credits, budget>>

\* scheduleNextOrFail: the last attempt gives the payment up.
ScheduleNextOrFail(w) ==
  /\ h[w].pc = "again"
  /\ Done(w)
  /\ \/ /\ LastAttempt(w) /\ Save(w, "rejected") /\ UNCHANGED polls
     \/ /\ ~LastAttempt(w) /\ UNCHANGED status
        /\ polls' = polls \cup {<<h[w].p, h[w].k + 1>>}
  /\ UNCHANGED <<method, bank, credits, budget>>

\* Slip: the payment is marked before its wallet is credited.
ApproveFirst(w) ==
  /\ h[w].pc = "credit"
  /\ Save(w, "approved")
  /\ Goto(w, "approve")
  /\ UNCHANGED <<method, bank, credits, polls, budget>>

Credit(w) ==
  /\ h[w].pc = "credit"
  /\ CreditPostedTopup(h[w].p, KeyOf(h[w].by))
  /\ Goto(w, "approve")
  /\ UNCHANGED <<rows, bank, polls, budget>>

\* A poll whose credit fails notes it and leaves the payment to an admin.
CreditFails(w) ==
  /\ h[w].pc = "credit" /\ h[w].by = "poll" /\ faults > 0
  /\ faults' = faults - 1
  /\ Goto(w, "note")
  /\ UNCHANGED <<rows, bank, credits, polls, looks, desk, stalls>>

SaveNote(w) ==
  /\ h[w].pc = "note"
  /\ Save(w, "pending")
  /\ Done(w)
  /\ UNCHANGED <<method, bank, credits, polls, budget>>

Approve(w) ==
  /\ h[w].pc = "approve"
  /\ Save(w, "approved")
  /\ Done(w)
  /\ UNCHANGED <<method, bank, credits, polls, budget>>

Reject(w) ==
  /\ h[w].pc = "reject"
  /\ Save(w, "rejected")
  /\ Done(w)
  /\ UNCHANGED <<method, bank, credits, polls, budget>>

-----------------------------------------------------------------------------
(* The desk *)

\* An admin approves or rejects what was pending when it was read.
AdminDecides(w, p) ==
  /\ desk > 0 /\ desk' = desk - 1
  /\ status[p] = "pending"
  /\ \E pc \in {"credit", "reject"} : Begin(w, p, pc, "desk", 0)
  /\ UNCHANGED <<rows, bank, credits, polls, looks, stalls, faults>>

\* updateManualPayment: the user adds a receipt to a payment read as pending.
UpdateManual(w, p) ==
  /\ desk > 0 /\ desk' = desk - 1
  /\ status[p] = "pending" /\ method[p] = "manual"
  /\ Begin(w, p, "edit", "user", 0)
  /\ UNCHANGED <<rows, bank, credits, polls, looks, stalls, faults>>

SaveReceipt(w) ==
  /\ h[w].pc = "edit"
  /\ Save(w, "pending")
  /\ Done(w)
  /\ UNCHANGED <<method, bank, credits, polls, budget>>

-----------------------------------------------------------------------------
(* Failures *)

\* A worker dies with a poll in hand: Bull hands the stalled job out again.
Redeliver(w) ==
  /\ h[w].by = "poll" /\ stalls > 0
  /\ stalls' = stalls - 1
  /\ polls' = polls \cup {<<h[w].p, h[w].k>>}
  /\ Done(w)
  /\ UNCHANGED <<rows, bank, credits, looks, desk, faults>>

\* An await throws: the rest of the handler never runs, a failed job is not
\* tried again, and the failed enqueue of a first poll is swallowed.
Abort(w) ==
  /\ h[w] # Idle /\ faults > 0
  /\ faults' = faults - 1
  /\ Done(w)
  /\ UNCHANGED <<rows, bank, credits, polls, looks, desk, stalls>>

HandlerStep(w) ==
  \/ Purchase(w) \/ PurchaseAnswers(w) \/ SaveReference(w) \/ PollCliqTopup(w)
  \/ Refuse(w) \/ Inquire(w) \/ ScheduleNextOrFail(w)
  \/ Credit(w) \/ SaveNote(w) \/ Approve(w) \/ Reject(w) \/ SaveReceipt(w)

Next ==
  \/ \E w \in Handler : HandlerStep(w) \/ CreditFails(w) \/ Redeliver(w) \/ Abort(w)
  \/ \E w \in Handler, p \in Payment :
       \/ CreateCliq(w, p) \/ Refresh(w, p) \/ AdminDecides(w, p) \/ UpdateManual(w, p)
       \/ \E k \in 1..Attempts : PollFires(w, p, k)
  \/ \E p \in Payment : CreateManual(p) \/ BankDecides(p)

Spec == Init /\ [][Next]_vars

(* The server runs what it has begun and Bull delivers what is due; neither the
   user, the bank nor an admin has to do anything. *)
Fairness ==
  /\ \A w \in Handler : WF_vars(HandlerStep(w))
  /\ \A p \in Payment, k \in 1..Attempts :
       WF_vars(\E w \in Handler : PollFires(w, p, k))

FairSpec == Spec /\ Fairness

-----------------------------------------------------------------------------
(* What holds *)

Pc == {"idle", "purchase", "answer", "reference", "enqueue", "refuse", "inquire",
       "again", "credit", "note", "approve", "reject", "edit"}

\* The state has the shape of the tables, the queue and the handlers.
TypeOK ==
  /\ status \in [Payment -> Status]
  /\ method \in [Payment -> {"none", "manual", "cliq_a2a"}]
  /\ bank \in [Payment -> {"none", "asked", "paid", "failed"}]
  /\ credits \in [Payment -> [Key -> Nat]]
  /\ polls \subseteq Poll
  /\ h \in [Handler -> [pc : Pc, p : Payment \cup {NoPayment}, k : 0..Attempts,
                        by : {"nobody", "create", "poll", "screen", "desk", "user"}]]
  /\ looks \in Nat /\ desk \in Nat /\ stalls \in Nat /\ faults \in Nat

Flawless == faults = MaxFaults

\* A payment shown as approved has been credited: no interleaving of polls, the
\* screen and the desk marks one whose money never reached the wallet.
ApprovedIsCredited ==
  \A p \in Payment : status[p] = "approved" => \E k \in Key : credits[p][k] > 0

\* What is credited on the bank's word has been paid at the bank, whatever was
\* answered before ("0" only).
CreditIsConfirmed ==
  \A p \in Payment : credits[p]["cliq-topup"] > 0 => bank[p] = "paid"

\* Without a failed await, a CliQ top-up that waits is in the hands of the handler
\* that made it, of a poll, or of the queue: a worker's death loses none.
PendingIsWatched ==
  Flawless =>
    \A p \in Payment :
      status[p] = "pending" /\ method[p] = "cliq_a2a" =>
        \/ \E k \in 1..Attempts : <<p, k>> \in polls
        \/ \E w \in Handler : h[w].p = p /\ h[w].by \in {"create", "poll"}

\* A CliQ top-up does not wait for ever: it is approved or given up, even when a
\* late reference has put it back to pending.
TopupSettles ==
  \A p \in Payment :
    status[p] = "pending" /\ method[p] = "cliq_a2a"
      ~> status[p] \in {"approved", "rejected"} \/ ~Flawless

-----------------------------------------------------------------------------
(* What the code says, and the desk breaks *)

\* An approved payment is not credited again: a poll that finds it decided "by an
\* admin, a callback or an earlier attempt" does nothing.
CreditedOnce ==
  \A p \in Payment : credits[p]["cliq-topup"] + credits[p]["payment-topup"] <= 1
=============================================================================
