---------------------------- MODULE RideFareProofs ----------------------------
(***************************************************************************)
(* Theorems of RideFare, for any number of bookings, handlers, payments,   *)
(* poll attempts, openings of the trip, desk calls and faults.             *)
(*                                                                         *)
(* FareInv, the inductive invariant, joins the types and the properties to *)
(* what a handler knows at each program counter.  What it knows stays true *)
(* because of Stays: a payment keeps its booking, a bank does not take a   *)
(* confirmation back, and a fare once collected remains so.  The one fact  *)
(* that another handler could break is that nobody has sent the request    *)
(* which a handler is about to send; Distinct says why nobody does.        *)
(*                                                                         *)
(* WatchInv, inductive too, is about what is not given up: who will see to *)
(* a pending payment, and who will tell its booking.  A payment just       *)
(* inserted is its handler's alone until the request is sent (Fresh): that *)
(* is why the booking cannot become requested for a payment already ended. *)
(***************************************************************************)
EXTENDS RideFare, TLAPS

Used(i) == i \in Payment /\ pstat[i] # "unused"

\* The driver has the fare, in the wallet or in hand.
Collected(b) == fare[b] = 1 \/ cash[b]

OnCliqPaid == {"poll", "cron", "switch"}

\* Handlers in these states act on payment i.
ActsOnPayment == {"purchase", "record", "refused", "inquire", "expire", "fail", "giveup",
                  "credit", "reject"}

\* The request-to-pay of handler state x is still to be sent.
Unsent(x) == x.pc = "purchase" \/ (x.pc \in {"save", "write"} /\ x.to = "purchase")

\* What a handler in state x has read and relies on.
Knows(x) ==
  /\ x.pc # "idle" => x.b \in Booking
  /\ x.by = "poll" => x.i \in Payment /\ x.k \in 1..Attempts
  /\ x.pc \in ActsOnPayment \/ Unsent(x) => Used(x.i) /\ pbook[x.i] = x.b
  /\ x.e.cur # 0 => Used(x.e.cur) /\ pbook[x.e.cur] = x.b
  /\ x.pc = "look" => x.by = "switch"
  /\ x.pc = "inquire" => x.by \in OnCliqPaid \cup {"refresh"}
  /\ x.pc = "credit" => x.by = "refresh"
  /\ x.pc = "settle" /\ x.by \notin OnCliqPaid => x.m = "wallet" \/ amount[x.b] = 0
  /\ \/ x.pc = "settle" /\ x.by \in OnCliqPaid
     \/ x.pc \in {"approve", "credit"}
     => Used(x.i) /\ pbook[x.i] = x.b /\ bank[x.i] = "paid"
  /\ \/ x.pc = "approve" /\ x.by # "refresh"
     \/ x.pc = "stamp"
     \/ x.e.pay = "paid"
     => x.b \in Booking /\ Collected(x.b)
  /\ x.pc = "approve" /\ x.by = "refresh" => topup[x.i] > 0

\* A payment in use has its booking, one that is not has not reached the bank,
\* and the payment a booking names is the booking's.
PaymentsOK ==
  /\ \A i \in Payment : /\ pstat[i] = "unused" => bank[i] = "none"
                        /\ pstat[i] # "unused" => pbook[i] \in Booking
  /\ \A b \in Booking : row[b].cur # 0 => Used(row[b].cur) /\ pbook[row[b].cur] = b

RowsOK ==
  /\ TablesTypeOK
  /\ PaymentsOK
  /\ LedgerBalanced
  /\ CreditIsBacked
  /\ PaidIsCollected
  /\ ApprovedIsConfirmed
  /\ ApprovedIsCollected

HandlersOK ==
  /\ h \in [Handler -> HandlerRecord]
  /\ \A w \in Handler : Knows(h[w])

\* No two handlers are about to send the same request, and nobody has sent it.
Distinct ==
  /\ \A w \in Handler : Unsent(h[w]) => bank[h[w].i] = "none"
  /\ \A v, w \in Handler : v # w /\ Unsent(h[v]) /\ Unsent(h[w]) => h[v].i # h[w].i

FareInv == RowsOK /\ HandlersOK /\ Distinct

-----------------------------------------------------------------------------
(* Steps *)

\* What a step may never take back.
Stays ==
  /\ amount' = amount
  /\ \A i \in Payment : pstat[i] # "unused" => pstat'[i] # "unused" /\ pbook'[i] = pbook[i]
  /\ \A i \in Payment : bank[i] = "paid" => bank'[i] = "paid"
  /\ \A b \in Booking : Collected(b) => Collected(b)'
  /\ \A i \in Payment : topup[i] > 0 => topup'[i] > 0

\* Only handler w moves, and it knows what its next step relies on.
Moves(w) ==
  /\ h' = [h EXCEPT ![w] = h'[w]]
  /\ h'[w] \in HandlerRecord
  /\ Knows(h[w])'

\* Handler w has no request to send that it did not have before.
SendsNoMore(w) == Unsent(h'[w]) => Unsent(h[w]) /\ h'[w].i = h[w].i

USE FareAssumption DEF FareAssumption

\* What any handler knows survives the steps of the others.
LEMMA KnowledgeStays ==
  ASSUME FareInv, Stays, NEW v \in Handler, h'[v] = h[v]
  PROVE  Knows(h[v])'
<1>1. h[v] \in HandlerRecord /\ Knows(h[v])
  BY DEF FareInv, HandlersOK
<1>2. \A i : Used(i) => Used(i)' /\ pbook'[i] = pbook[i]
  BY DEF Stays, Used
<1>3. QED
  BY <1>1, <1>2 DEF Knows, Stays, Used, Unsent, HandlerRecord, ActsOnPayment, OnCliqPaid

LEMMA KnowersMove ==
  ASSUME FareInv, Stays, NEW w \in Handler, Moves(w)
  PROVE  HandlersOK'
<1>1. h' \in [Handler -> HandlerRecord]
  BY DEF FareInv, HandlersOK, Moves
<1>2. ASSUME NEW v \in Handler PROVE Knows(h[v])'
  <2>1. CASE v = w
    BY <2>1 DEF Moves
  <2>2. CASE v # w
    BY <2>2, KnowledgeStays DEF FareInv, HandlersOK, Moves
  <2>3. QED
    BY <2>1, <2>2
<1>3. QED
  BY <1>1, <1>2 DEF HandlersOK

LEMMA HandlerMoves ==
  ASSUME FareInv, RowsOK', Stays, NEW w \in Handler, Moves(w), SendsNoMore(w), bank' = bank
  PROVE  FareInv'
<1>1. Distinct'
  <2>1. \A v \in Handler : Unsent(h'[v]) => Unsent(h[v]) /\ h'[v].i = h[v].i
    BY DEF Moves, SendsNoMore, FareInv, HandlersOK
  <2>2. QED
    BY <2>1 DEF FareInv, Distinct, Unsent
<1>2. QED
  BY <1>1, KnowersMove DEF FareInv

LEMMA HandlerFacts ==
  ASSUME FareInv, NEW w \in Handler
  PROVE  h \in [Handler -> HandlerRecord] /\ h[w] \in HandlerRecord /\ Knows(h[w])
BY DEF FareInv, HandlersOK

\* Steps that leave the tables alone.
LEMMA RowsRest ==
  ASSUME FareInv, UNCHANGED <<row, amount, payments, bank, ledger, cash>>,
         polls' \subseteq Payment \X (1..Attempts),
         opens' \in Nat, desk' \in Nat, faults' \in Nat
  PROVE  RowsOK' /\ Stays
BY DEF FareInv, RowsOK, Stays, TablesTypeOK, PaymentsOK, LedgerBalanced, CreditIsBacked,
       BankPaid, PaidIsCollected, ApprovedIsConfirmed, ApprovedIsCollected, Collected, Used,
         payments, ledger

\* Unless a payment gets approved: what the approved ones brought stays collected.
LEMMA CollectedStays ==
  ASSUME FareInv, Stays, \A i \in Payment : pstat'[i] = "approved" => pstat[i] = "approved"
  PROVE  ApprovedIsCollected'
BY DEF FareInv, RowsOK, PaymentsOK, Stays, ApprovedIsCollected, Collected

LEMMA NoRowType == NoRow \in Row
BY DEF NoRow, Row, Method, PaymentStatus

LEMMA IdleType == Idle \in HandlerRecord /\ ~Unsent(Idle)
BY NoRowType DEF Idle, HandlerRecord, Pc, Method, Unsent

Caller == {"none", "open", "poll", "cron", "switch", "rider", "driver", "refresh", "admin"}

\* A handler that starts.
Starting(pc, by, b, i, k, m, e) ==
  [pc |-> pc, b |-> b, i |-> i, k |-> k, m |-> m, by |-> by, to |-> "idle", e |-> e,
   dirty |-> {}]

LEMMA StartingType ==
  ASSUME NEW pc \in Pc, NEW by \in Caller, NEW b \in Booking, NEW i \in Payment \cup {0},
         NEW k \in 0..Attempts, NEW m \in Method, NEW e \in Row
  PROVE  Starting(pc, by, b, i, k, m, e) \in HandlerRecord
BY DEF Starting, HandlerRecord, Caller

LEMMA StartingParts ==
  /\ "settle" \in Pc /\ "request" \in Pc /\ "look" \in Pc /\ "save" \in Pc
  /\ "inquire" \in Pc /\ "reject" \in Pc
  /\ "open" \in Caller /\ "rider" \in Caller /\ "switch" \in Caller /\ "driver" \in Caller
  /\ "cron" \in Caller /\ "refresh" \in Caller /\ "admin" \in Caller /\ "poll" \in Caller
  /\ "cliq" \in Method /\ "wallet" \in Method /\ NoRow \in Row
  /\ 0 \in Payment \cup {0} /\ 0 \in 0..Attempts
  /\ \A i \in Payment : i \in Payment \cup {0}
BY NoRowType DEF Pc, Caller, Method

LEMMA IdleKnows ==
  ASSUME FareInv, NEW w \in Handler, h'[w] = Idle
  PROVE  Knows(h[w])'
BY DEF Idle, NoRow, Knows, Unsent, ActsOnPayment, OnCliqPaid

LEMMA IdleMoves ==
  ASSUME FareInv, NEW w \in Handler, Goto(w, Idle)
  PROVE  Moves(w) /\ SendsNoMore(w)
<1>1. h' = [h EXCEPT ![w] = h'[w]] /\ h'[w] = Idle
  BY HandlerFacts DEF Goto
<1>2. QED
  BY <1>1, IdleType, IdleKnows DEF Moves, SendsNoMore

LEMMA BookingFacts ==
  ASSUME FareInv, NEW b \in Booking
  PROVE  /\ row[b] \in Row
         /\ row[b].pay = "paid" => Collected(b)
         /\ row[b].cur # 0 => Used(row[b].cur) /\ pbook[row[b].cur] = b
BY DEF FareInv, RowsOK, TablesTypeOK, PaidIsCollected, PaymentsOK, Collected

LEMMA PaymentFacts ==
  ASSUME FareInv, NEW i \in Payment, pstat[i] # "unused"
  PROVE  Used(i) /\ pbook[i] \in Booking
BY DEF FareInv, RowsOK, PaymentsOK, Used

\* A payment in use gets another status.
LEMMA StatusMoves ==
  ASSUME FareInv, NEW i \in Payment, pstat[i] # "unused",
         NEW s \in {"pending", "approved", "rejected"},
         s = "approved" => bank[i] = "paid" /\ (Collected(pbook[i]) \/ topup[i] > 0),
         pstat' = [pstat EXCEPT ![i] = s],
         UNCHANGED <<row, amount, pbook, bank, ledger, cash>>,
         polls' \subseteq Payment \X (1..Attempts),
         opens' \in Nat, desk' \in Nat, faults' \in Nat
  PROVE  RowsOK' /\ Stays
BY DEF FareInv, RowsOK, Stays, TablesTypeOK, PaymentsOK, LedgerBalanced, CreditIsBacked,
       BankPaid, PaidIsCollected, ApprovedIsConfirmed, ApprovedIsCollected, Collected, Used, ledger

\* Handler w has no request to send and knows all but what it goes on with.
LEMMA PcMoves ==
  ASSUME FareInv, RowsOK', Stays, bank' = bank, NEW w \in Handler,
         NEW pc \in {"expire", "fail", "giveup", "reject", "stamp"},
         Goto(w, [h[w] EXCEPT !.pc = pc]), h[w].b \in Booking,
         pc # "stamp" => Used(h[w].i) /\ pbook[h[w].i] = h[w].b,
         pc = "stamp" => Collected(h[w].b)
  PROVE  FareInv'
<1>1. h[w] \in HandlerRecord /\ Knows(h[w]) /\ h \in [Handler -> HandlerRecord]
  BY HandlerFacts
<1>2. h' = [h EXCEPT ![w] = h'[w]] /\ h'[w] = [h[w] EXCEPT !.pc = pc]
  BY <1>1 DEF Goto
<1>3. h'[w] \in HandlerRecord
  BY <1>1, <1>2 DEF HandlerRecord, Pc
<1>4. Knows(h[w])' /\ SendsNoMore(w)
  BY <1>1, <1>2 DEF Knows, Unsent, Used, Stays, SendsNoMore, HandlerRecord, ActsOnPayment,
     OnCliqPaid
<1>5. QED
  BY <1>2, <1>3, <1>4, HandlerMoves DEF Moves

\* Handler w saves its booking and is then done.
LEMMA SaveMoves ==
  ASSUME FareInv, RowsOK', Stays, bank' = bank, NEW w \in Handler, NEW e \in Row,
         Goto(w, [h[w] EXCEPT !.pc = "save", !.e = e, !.to = "idle"]), h[w].b \in Booking,
         e.pay = "paid" => Collected(h[w].b),
         e.cur # 0 => Used(e.cur) /\ pbook[e.cur] = h[w].b
  PROVE  FareInv'
<1>1. h[w] \in HandlerRecord /\ Knows(h[w]) /\ h \in [Handler -> HandlerRecord]
  BY HandlerFacts
<1>2. /\ h' = [h EXCEPT ![w] = h'[w]]
      /\ h'[w] = [h[w] EXCEPT !.pc = "save", !.e = e, !.to = "idle"]
  BY <1>1 DEF Goto
<1>3. h'[w] \in HandlerRecord
  BY <1>1, <1>2 DEF HandlerRecord, Pc
<1>4. Knows(h[w])' /\ SendsNoMore(w)
  BY <1>1, <1>2 DEF Knows, Unsent, Used, Stays, SendsNoMore, HandlerRecord, ActsOnPayment,
     OnCliqPaid
<1>5. QED
  BY <1>2, <1>3, <1>4, HandlerMoves DEF Moves

LEMMA CashEntity ==
  ASSUME NEW e \in Row
  PROVE  InCash(e) \in Row /\ InCash(e).pay = "pending" /\ InCash(e).cur = e.cur
BY DEF InCash, Row, Method, PaymentStatus

\* settleCollectedFare has returned to handler w.
LEMMA SettledMoves ==
  ASSUME FareInv, RowsOK', Stays, bank' = bank, NEW w \in Handler,
         h[w].pc = "settle", fare'[h[w].b] = 1 \/ cash'[h[w].b], Settled(w)
  PROVE  FareInv'
<1>1. h[w] \in HandlerRecord /\ Knows(h[w]) /\ h \in [Handler -> HandlerRecord]
  BY HandlerFacts
<1>2. CASE Goto(w, Idle)
  BY <1>2, IdleMoves, HandlerMoves
<1>3. CASE h[w].by \in OnCliqPaid /\ Goto(w, [h[w] EXCEPT !.pc = "approve"])
  <2>1. h' = [h EXCEPT ![w] = h'[w]] /\ h'[w] = [h[w] EXCEPT !.pc = "approve"]
    BY <1>1, <1>3 DEF Goto
  <2>2. h'[w] \in HandlerRecord
    BY <1>1, <2>1 DEF HandlerRecord, Pc
  <2>3. /\ h'[w].pc = "approve" /\ h'[w].b = h[w].b /\ h'[w].i = h[w].i
        /\ h'[w].by = h[w].by /\ h'[w].k = h[w].k /\ h'[w].e = h[w].e
    BY <1>1, <2>1 DEF HandlerRecord
  <2>4. Knows(h[w])' /\ SendsNoMore(w)
    BY <1>1, <1>3, <2>3 DEF Knows, Unsent, Used, Stays, SendsNoMore, ActsOnPayment, OnCliqPaid,
       Collected
  <2>5. QED
    BY <2>1, <2>2, <2>4, HandlerMoves DEF Moves
<1>4. QED
  BY <1>1, <1>2, <1>3 DEF Settled, OnCliqPaid

\* A save is over.
LEMMA SavedMoves ==
  ASSUME FareInv, RowsOK', Stays, bank' = bank, NEW w \in Handler,
         h[w].pc \in {"save", "write"}, Saved(w)
  PROVE  FareInv'
<1>1. h[w] \in HandlerRecord /\ Knows(h[w]) /\ h \in [Handler -> HandlerRecord]
  BY HandlerFacts
<1>2. CASE Goto(w, Idle)
  BY <1>2, IdleMoves, HandlerMoves
<1>3. CASE h[w].to = "purchase" /\ Goto(w, [h[w] EXCEPT !.pc = "purchase", !.dirty = {}])
  <2>1. /\ h' = [h EXCEPT ![w] = h'[w]]
        /\ h'[w] = [h[w] EXCEPT !.pc = "purchase", !.dirty = {}]
    BY <1>1, <1>3 DEF Goto
  <2>2. h'[w] \in HandlerRecord
    BY <1>1, <2>1 DEF HandlerRecord, Pc
  <2>3. Knows(h[w])' /\ SendsNoMore(w)
    BY <1>1, <1>3, <2>1 DEF Knows, Unsent, Used, Stays, SendsNoMore, HandlerRecord,
       ActsOnPayment, OnCliqPaid
  <2>4. QED
    BY <2>1, <2>2, <2>3, HandlerMoves DEF Moves
<1>4. QED
  BY <1>1, <1>2, <1>3 DEF Saved, HandlerRecord

-----------------------------------------------------------------------------
(* The invariant is inductive *)

LEMMA FareInit == Init => FareInv
BY DEF Init, FareInv, RowsOK, HandlersOK, Distinct, TablesTypeOK, PaymentsOK, LedgerBalanced,
       CreditIsBacked, PaidIsCollected, ApprovedIsConfirmed, ApprovedIsCollected, HandlerRecord,
         Knows, Unsent,
       Idle, NoRow, Row, Method, PaymentStatus, Pc, ActsOnPayment, OnCliqPaid

LEMMA FareStep == FareInv /\ [Next]_vars => FareInv'
<1> SUFFICES ASSUME FareInv, [Next]_vars PROVE FareInv'
  OBVIOUS
<1>1. ASSUME NEW w \in Handler, SaveBooking(w) PROVE FareInv'
  <2>1. h[w] \in HandlerRecord /\ Knows(h[w]) /\ h \in [Handler -> HandlerRecord]
    BY HandlerFacts
  <2>2. RowsOK' /\ Stays
    BY <1>1, RowsRest DEF SaveBooking, FareInv, RowsOK, TablesTypeOK, budget
  <2>3. ASSUME NEW differs \in SUBSET {"method", "pay", "cur"}, h[w].pc = "save",
               Goto(w, [h[w] EXCEPT !.pc = "write", !.dirty = differs])
        PROVE  FareInv'
    <3>1. /\ h' = [h EXCEPT ![w] = h'[w]]
          /\ h'[w] = [h[w] EXCEPT !.pc = "write", !.dirty = differs]
      BY <2>1, <2>3 DEF Goto
    <3>2. h'[w] \in HandlerRecord
      BY <2>1, <3>1 DEF HandlerRecord, Pc
    <3>3. Knows(h[w])' /\ SendsNoMore(w)
      BY <2>1, <2>2, <2>3, <3>1 DEF Knows, Unsent, Used, Stays, SendsNoMore, HandlerRecord,
         ActsOnPayment, OnCliqPaid
    <3>4. QED
      BY <1>1, <2>2, <3>1, <3>2, <3>3, HandlerMoves DEF SaveBooking, Moves
  <2>4. h[w].pc = "save" /\ bank' = bank
    BY <1>1 DEF SaveBooking
  <2>5. Saved(w) \/ \E differs \in SUBSET {"method", "pay", "cur"} :
                      Goto(w, [h[w] EXCEPT !.pc = "write", !.dirty = differs])
    BY <1>1 DEF SaveBooking
  <2>6. QED
    BY <2>2, <2>3, <2>4, <2>5, SavedMoves
<1>2. ASSUME NEW w \in Handler, WriteBooking(w) PROVE FareInv'
  <2>1. h[w] \in HandlerRecord /\ Knows(h[w]) /\ h \in [Handler -> HandlerRecord]
    BY HandlerFacts
  <2>2. h[w].b \in Booking /\ h[w].e \in Row /\ row[h[w].b] \in Row
    BY <1>2, <2>1, BookingFacts DEF WriteBooking, Knows, HandlerRecord
  <2>3. /\ row' = [row EXCEPT ![h[w].b] = row'[h[w].b]]
        /\ row'[h[w].b] \in Row
        /\ row'[h[w].b].pay \in {h[w].e.pay, row[h[w].b].pay}
        /\ row'[h[w].b].cur \in {h[w].e.cur, row[h[w].b].cur}
    BY <1>2, <2>2 DEF WriteBooking, Row, FareInv, RowsOK, TablesTypeOK
  <2>4. /\ row'[h[w].b].pay = "paid" => Collected(h[w].b)
        /\ row'[h[w].b].cur # 0 =>
             Used(row'[h[w].b].cur) /\ pbook[row'[h[w].b].cur] = h[w].b
    BY <2>1, <2>2, <2>3, BookingFacts DEF Knows
  <2>5. \A b \in Booking : b # h[w].b => row'[b] = row[b]
    BY <2>3 DEF FareInv, RowsOK, TablesTypeOK
  <2>6. RowsOK' /\ Stays
    <3>1. TablesTypeOK'
      BY <1>2, <2>2, <2>3 DEF WriteBooking, FareInv, RowsOK, TablesTypeOK, payments, ledger,
         budget
    <3>2. PaymentsOK' /\ PaidIsCollected'
      BY <1>2, <2>4, <2>5 DEF WriteBooking, FareInv, RowsOK, PaymentsOK, PaidIsCollected,
         Collected, Used, payments, ledger
    <3>3. LedgerBalanced' /\ CreditIsBacked' /\ ApprovedIsConfirmed' /\ Stays
      BY <1>2 DEF WriteBooking, FareInv, RowsOK, LedgerBalanced, CreditIsBacked, BankPaid,
         ApprovedIsConfirmed, Stays, Collected, payments, ledger
    <3>4. ApprovedIsCollected'
      BY <1>2, <3>3, CollectedStays DEF WriteBooking, payments
    <3>5. QED
      BY <3>1, <3>2, <3>3, <3>4 DEF RowsOK
  <2>7. QED
    BY <1>2, <2>6, SavedMoves DEF WriteBooking
<1>3. ASSUME NEW w \in Handler, RequestCliq(w) PROVE FareInv'
  <2>1. h[w] \in HandlerRecord /\ Knows(h[w]) /\ h \in [Handler -> HandlerRecord]
    BY HandlerFacts
  <2>2. h[w].b \in Booking /\ h[w].e \in Row /\ h[w].pc = "request"
    BY <1>3, <2>1 DEF RequestCliq, Knows, HandlerRecord
  <2>3. ASSUME NEW i \in NextPayment,
               pstat' = [pstat EXCEPT ![i] = "pending"],
               pbook' = [pbook EXCEPT ![i] = h[w].b],
               Goto(w, [h[w] EXCEPT !.pc = "save", !.to = "purchase", !.i = i,
                                    !.e.pay = "requested", !.e.cur = i]),
               UNCHANGED <<row, amount, bank, ledger, cash, polls, budget>>
        PROVE  FareInv'
    <3>1. i \in Payment /\ pstat[i] = "unused" /\ bank[i] = "none"
      BY DEF NextPayment, FareInv, RowsOK, PaymentsOK
    <3>2. RowsOK' /\ Stays
      BY <2>2, <2>3, <3>1 DEF FareInv, RowsOK, Stays, TablesTypeOK, PaymentsOK, LedgerBalanced,
         CreditIsBacked, BankPaid, PaidIsCollected, ApprovedIsConfirmed, ApprovedIsCollected,
         Collected, Used, ledger, budget
    <3>3. /\ h' = [h EXCEPT ![w] = h'[w]]
          /\ h'[w] = [h[w] EXCEPT !.pc = "save", !.to = "purchase", !.i = i,
                                   !.e = [h[w].e EXCEPT !.pay = "requested", !.cur = i]]
      BY <2>1, <2>3 DEF Goto, HandlerRecord
    <3>4. /\ [h[w].e EXCEPT !.pay = "requested", !.cur = i] \in Row
          /\ [h[w].e EXCEPT !.pay = "requested", !.cur = i].pay = "requested"
          /\ [h[w].e EXCEPT !.pay = "requested", !.cur = i].cur = i
      BY <2>2, <3>1 DEF Row, PaymentStatus
    <3>5. h'[w] \in HandlerRecord
      BY <2>1, <3>1, <3>3, <3>4 DEF HandlerRecord, Pc
    <3>6. Knows(h[w])'
      <4>1. /\ h'[w].pc = "save" /\ h'[w].to = "purchase" /\ h'[w].i = i /\ h'[w].b = h[w].b
            /\ h'[w].by = h[w].by /\ h'[w].k = h[w].k
            /\ h'[w].e.pay = "requested" /\ h'[w].e.cur = i
        BY <2>1, <3>3, <3>4 DEF HandlerRecord
      <4>2. Used(i)' /\ pbook'[i] = h[w].b
        BY <2>2, <2>3, <3>1 DEF Used, FareInv, RowsOK, TablesTypeOK
      <4>3. QED
        BY <2>1, <2>2, <3>1, <4>1, <4>2 DEF Knows, Unsent, ActsOnPayment
    <3>7. HandlersOK'
      BY <3>2, <3>3, <3>5, <3>6, KnowersMove DEF Moves
    <3>8. Distinct'
      <4>1. \A v \in Handler : Unsent(h[v]) => h[v].i # i
        BY <3>1 DEF FareInv, HandlersOK, Knows, Used
      <4>2. h'[w].i = i /\ \A v \in Handler : v # w => h'[v] = h[v]
        BY <2>1, <3>3 DEF HandlerRecord
      <4>3. QED
        BY <2>3, <3>1, <4>1, <4>2 DEF FareInv, Distinct, Unsent
    <3>9. QED
      BY <3>2, <3>7, <3>8 DEF FareInv
  <2>4. CASE SaveThen(w, [h[w].e EXCEPT !.pay = "failed"], "idle") /\ UNCHANGED payments
    <3>1. RowsOK' /\ Stays
      BY <1>3, <2>4, RowsRest DEF RequestCliq, FareInv, RowsOK, TablesTypeOK, budget
    <3>2. /\ [h[w].e EXCEPT !.pay = "failed"] \in Row
          /\ [h[w].e EXCEPT !.pay = "failed"].pay = "failed"
          /\ [h[w].e EXCEPT !.pay = "failed"].cur = h[w].e.cur
      BY <2>2 DEF Row, PaymentStatus
    <3>3. QED
      BY <1>3, <2>1, <2>2, <2>4, <3>1, <3>2, SaveMoves DEF RequestCliq, SaveThen, Knows
  <2>5. QED
    BY <1>3, <2>3, <2>4 DEF RequestCliq
<1>4. ASSUME NEW w \in Handler, Purchase(w) PROVE FareInv'
  <2>1. h[w] \in HandlerRecord /\ Knows(h[w]) /\ h \in [Handler -> HandlerRecord]
    BY HandlerFacts
  <2>2. h[w].pc = "purchase" /\ Used(h[w].i) /\ bank[h[w].i] = "none"
    BY <1>4, <2>1 DEF Purchase, Knows, Unsent, FareInv, Distinct
  <2>3. PICK pc \in {"record", "refused"}, s \in {"none", "asked", "refused"} :
          Goto(w, [h[w] EXCEPT !.pc = pc]) /\ bank' = [bank EXCEPT ![h[w].i] = s]
    BY <1>4, <2>2 DEF Purchase, FareInv, RowsOK, TablesTypeOK
  <2>4. RowsOK' /\ Stays
    BY <1>4, <2>2, <2>3 DEF Purchase, FareInv, RowsOK, Stays, TablesTypeOK, PaymentsOK,
       LedgerBalanced, CreditIsBacked, BankPaid, PaidIsCollected, ApprovedIsConfirmed,
       ApprovedIsCollected, Collected, Used, payments, ledger, budget
  <2>5. h' = [h EXCEPT ![w] = h'[w]] /\ h'[w] = [h[w] EXCEPT !.pc = pc]
    BY <2>1, <2>3 DEF Goto
  <2>6. h'[w] \in HandlerRecord
    BY <2>1, <2>5 DEF HandlerRecord, Pc
  <2>7. Knows(h[w])' /\ ~Unsent(h'[w])
    BY <2>1, <2>2, <2>4, <2>5 DEF Knows, Unsent, Used, Stays, HandlerRecord, ActsOnPayment,
       OnCliqPaid
  <2>8. Distinct'
    <3>1. \A v \in Handler : v # w => h'[v] = h[v]
      BY <2>1, <2>5
    <3>2. \A v \in Handler : v # w /\ Unsent(h[v]) => h[v].i # h[w].i
      BY <2>2 DEF FareInv, Distinct, Unsent
    <3>3. QED
      BY <2>2, <2>3, <2>7, <3>1, <3>2 DEF FareInv, Distinct, Unsent
  <2>9. QED
    BY <2>4, <2>5, <2>6, <2>7, <2>8, KnowersMove DEF FareInv, Moves
<1>5. ASSUME NEW w \in Handler, RecordPurchase(w) PROVE FareInv'
  <2>1. h[w] \in HandlerRecord /\ Knows(h[w]) /\ h \in [Handler -> HandlerRecord]
    BY HandlerFacts
  <2>2. h[w].i \in Payment /\ pstat[h[w].i] # "unused"
    BY <1>5, <2>1 DEF RecordPurchase, Knows, Used, ActsOnPayment
  <2>3. \/ pstat' = [pstat EXCEPT ![h[w].i] = "pending"]
        \/ pstat' = pstat
    <3>1. PICK st \in {"pending", pstat[h[w].i]} : pstat' = [pstat EXCEPT ![h[w].i] = st]
      BY <1>5 DEF RecordPurchase
    <3>2. CASE st = "pending"
      BY <3>1, <3>2, Zenon
    <3>3. CASE st = pstat[h[w].i]
      BY <2>2, <3>1, <3>3 DEF FareInv, RowsOK, TablesTypeOK
    <3>4. QED
      BY <3>1, <3>2, <3>3
  <2>4. /\ UNCHANGED <<row, amount, pbook, bank, ledger, cash>>
        /\ opens' \in Nat /\ desk' \in Nat
    BY <1>5 DEF RecordPurchase, FareInv, RowsOK, TablesTypeOK
  <2>5. polls' \subseteq Payment \X (1..Attempts) /\ faults' \in Nat
    BY <1>5, <2>2 DEF RecordPurchase, SchedulePoll, Fault, FareInv, RowsOK, TablesTypeOK
  <2>6. RowsOK' /\ Stays
    <3>1. CASE pstat' = [pstat EXCEPT ![h[w].i] = "pending"]
      BY <2>2, <2>4, <2>5, <3>1, StatusMoves
    <3>2. CASE pstat' = pstat
      BY <2>4, <2>5, <3>2, RowsRest DEF payments
    <3>3. QED
      BY <2>3, <3>1, <3>2
  <2>7. QED
    BY <1>5, <2>6, IdleMoves, HandlerMoves DEF RecordPurchase
<1>6. ASSUME NEW w \in Handler, RefusePurchase(w) PROVE FareInv'
  <2>1. h[w] \in HandlerRecord /\ Knows(h[w]) /\ h \in [Handler -> HandlerRecord]
    BY HandlerFacts
  <2>2. h[w].b \in Booking /\ Used(h[w].i) /\ pbook[h[w].i] = h[w].b
    BY <1>6, <2>1 DEF RefusePurchase, Knows, ActsOnPayment
  <2>3. RowsOK' /\ Stays
    BY <1>6, <2>2, StatusMoves DEF RefusePurchase, Used, FareInv, RowsOK, TablesTypeOK, budget
  <2>4. /\ [h[w].e EXCEPT !.pay = "failed"] \in Row
        /\ [h[w].e EXCEPT !.pay = "failed"].pay = "failed"
        /\ [h[w].e EXCEPT !.pay = "failed"].cur = h[w].e.cur
    BY <2>1 DEF HandlerRecord, Row, PaymentStatus
  <2>5. QED
    BY <1>6, <2>1, <2>2, <2>3, <2>4, SaveMoves DEF RefusePurchase, SaveThen, Knows
<1>7. ASSUME NEW w \in Handler, InquiryPaid(w) PROVE FareInv'
  <2>1. h[w] \in HandlerRecord /\ Knows(h[w]) /\ h \in [Handler -> HandlerRecord]
    BY HandlerFacts
  <2>2. RowsOK' /\ Stays
    BY <1>7, RowsRest DEF InquiryPaid, FareInv, RowsOK, TablesTypeOK, budget
  <2>3. PICK pc \in {"credit", "settle"} :
          /\ pc = IF h[w].by = "refresh" THEN "credit" ELSE "settle"
          /\ h' = [h EXCEPT ![w] = h'[w]]
          /\ h'[w] = [h[w] EXCEPT !.pc = pc, !.m = "cliq"]
    BY <1>7, <2>1 DEF InquiryPaid, Goto
  <2>4. h'[w] \in HandlerRecord
    BY <2>1, <2>3 DEF HandlerRecord, Pc, Method
  <2>5. Knows(h[w])' /\ SendsNoMore(w)
    BY <1>7, <2>1, <2>2, <2>3 DEF InquiryPaid, BankSaysPaid, Knows, Unsent, Used, Stays,
       SendsNoMore, HandlerRecord, ActsOnPayment, OnCliqPaid
  <2>6. QED
    BY <1>7, <2>2, <2>3, <2>4, <2>5, HandlerMoves DEF InquiryPaid, Moves
<1>8. ASSUME NEW w \in Handler, InquiryOpen(w) PROVE FareInv'
  <2>1. h[w] \in HandlerRecord /\ Knows(h[w]) /\ h \in [Handler -> HandlerRecord]
    BY HandlerFacts
  <2>2. polls' \subseteq Payment \X (1..Attempts) /\ faults' \in Nat
    BY <1>8, <2>1 DEF InquiryOpen, SchedulePoll, Fault, NextAttempt, Knows, FareInv, RowsOK,
       TablesTypeOK
  <2>3. RowsOK' /\ Stays /\ bank' = bank
    BY <1>8, <2>2, RowsRest DEF InquiryOpen, FareInv, RowsOK, TablesTypeOK
  <2>4. h[w].b \in Booking /\ Used(h[w].i) /\ pbook[h[w].i] = h[w].b
    BY <1>8, <2>1 DEF InquiryOpen, Knows, ActsOnPayment
  <2>5. \/ Goto(w, Idle)
        \/ \E pc \in {"expire", "giveup", "reject"} : Goto(w, [h[w] EXCEPT !.pc = pc])
    BY <1>8 DEF InquiryOpen
  <2>6. CASE Goto(w, Idle)
    BY <2>3, <2>6, IdleMoves, HandlerMoves
  <2>7. QED
    BY <2>3, <2>4, <2>5, <2>6, PcMoves
<1>9. ASSUME NEW w \in Handler, ExpirePayment(w) PROVE FareInv'
  <2>1. h[w] \in HandlerRecord /\ Knows(h[w]) /\ h \in [Handler -> HandlerRecord]
    BY HandlerFacts
  <2>2. h[w].b \in Booking /\ Used(h[w].i) /\ pbook[h[w].i] = h[w].b
    BY <1>9, <2>1 DEF ExpirePayment, Knows, ActsOnPayment
  <2>3. RowsOK' /\ Stays
    BY <1>9, <2>2, StatusMoves DEF ExpirePayment, Used, FareInv, RowsOK, TablesTypeOK, budget
  <2>4. QED
    BY <1>9, <2>2, <2>3, PcMoves DEF ExpirePayment
<1>10. ASSUME NEW w \in Handler, FailBooking(w) PROVE FareInv'
  <2>1. h[w] \in HandlerRecord /\ Knows(h[w]) /\ h \in [Handler -> HandlerRecord]
    BY HandlerFacts
  <2>2. RowsOK' /\ Stays
    BY <1>10, RowsRest DEF FailBooking, FareInv, RowsOK, TablesTypeOK, budget
  <2>3. h[w].b \in Booking
    BY <1>10, <2>1 DEF FailBooking, Knows
  <2>4. CASE Goto(w, Idle)
    BY <1>10, <2>2, <2>4, IdleMoves, HandlerMoves DEF FailBooking
  <2>5. CASE SaveThen(w, [row[h[w].b] EXCEPT !.pay = "failed"], "idle")
    <3>1. /\ [row[h[w].b] EXCEPT !.pay = "failed"] \in Row
          /\ [row[h[w].b] EXCEPT !.pay = "failed"].pay = "failed"
          /\ [row[h[w].b] EXCEPT !.pay = "failed"].cur = row[h[w].b].cur
      BY <2>3, BookingFacts DEF Row, PaymentStatus
    <3>2. row[h[w].b].cur # 0 =>
            Used(row[h[w].b].cur) /\ pbook[row[h[w].b].cur] = h[w].b
      BY <2>3, BookingFacts
    <3>3. QED
      BY <1>10, <2>2, <2>3, <2>5, <3>1, <3>2, SaveMoves DEF FailBooking, SaveThen
  <2>6. QED
    BY <1>10, <2>4, <2>5 DEF FailBooking
<1>11. ASSUME NEW w \in Handler, Settle(w) PROVE FareInv'
  <2>1. h[w] \in HandlerRecord /\ Knows(h[w]) /\ h[w].pc = "settle" /\ h[w].b \in Booking
    BY <1>11, HandlerFacts DEF Settle, Knows
  <2>2. CASE row[h[w].b].pay = "paid" /\ Settled(w) /\ UNCHANGED <<row, ledger, polls>>
    <3>1. RowsOK' /\ Stays
      BY <1>11, <2>2, RowsRest DEF Settle, FareInv, RowsOK, TablesTypeOK, budget
    <3>2. fare'[h[w].b] = 1 \/ cash'[h[w].b]
      BY <1>11, <2>1, <2>2, BookingFacts DEF Settle, ledger, Collected
    <3>3. QED
      BY <1>11, <2>1, <2>2, <3>1, <3>2, SettledMoves DEF Settle
  <2>3. CASE /\ row[h[w].b].pay # "paid"
             /\ h[w].m = "wallet" /\ amount[h[w].b] > 0 => debit[h[w].b] = 0
             /\ debit' = [debit EXCEPT ![h[w].b] =
                           IF h[w].m = "wallet" /\ amount[h[w].b] > 0 THEN @ + 1 ELSE @]
             /\ PostFare(h[w].b)
             /\ row' = [row EXCEPT ![h[w].b].pay = "paid"]
             /\ Settled(w)
             /\ UNCHANGED <<topup, polls>>
    <3>0. fare[h[w].b] \in {0, 1} /\ debit[h[w].b] \in {0, 1}
      <4>1. fare[h[w].b] \in Nat /\ debit[h[w].b] \in Nat
        BY <2>1 DEF FareInv, RowsOK, TablesTypeOK
      <4>2. debit[h[w].b] <= fare[h[w].b] /\ fare[h[w].b] <= 1
        BY <2>1 DEF FareInv, RowsOK, LedgerBalanced
      <4>3. QED
        BY <4>1, <4>2
    <3>1. fare' = [fare EXCEPT ![h[w].b] = 1]
      BY <2>3, <3>0 DEF PostFare
    <3>2. row' \in [Booking -> Row] /\ \A b \in Booking : row'[b].cur = row[b].cur
      <4>1. /\ [row[h[w].b] EXCEPT !.pay = "paid"] \in Row
            /\ [row[h[w].b] EXCEPT !.pay = "paid"].cur = row[h[w].b].cur
        BY <2>1, BookingFacts DEF Row, PaymentStatus
      <4>2. row' = [row EXCEPT ![h[w].b] = [row[h[w].b] EXCEPT !.pay = "paid"]]
        BY <2>3
      <4>3. QED
        BY <2>1, <4>1, <4>2 DEF FareInv, RowsOK, TablesTypeOK
    <3>3. \A b \in Booking : b # h[w].b => row'[b] = row[b] /\ debit'[b] = debit[b]
      BY <2>1, <2>3 DEF FareInv, RowsOK, TablesTypeOK
    <3>4. debit' \in [Booking -> Nat] /\ debit'[h[w].b] \in {debit[h[w].b], 1}
      BY <2>1, <2>3, <3>0 DEF FareInv, RowsOK, TablesTypeOK
    <3>5. amount[h[w].b] = 0 \/ debit'[h[w].b] = 1 \/ BankPaid(h[w].b)
      <4>1. CASE h[w].by \in OnCliqPaid
        BY <2>1, <4>1 DEF Knows, Used, BankPaid
      <4>2. CASE h[w].m = "wallet" /\ amount[h[w].b] > 0
        BY <2>1, <2>3, <4>2 DEF FareInv, RowsOK, TablesTypeOK
      <4>3. QED
        BY <2>1, <4>1, <4>2 DEF Knows, FareInv, RowsOK, TablesTypeOK
    <3>6. RowsOK' /\ Stays
      <4>1. TablesTypeOK'
        BY <1>11, <2>1, <2>3, <3>1, <3>2, <3>4 DEF Settle, FareInv, RowsOK, TablesTypeOK,
           payments, budget
      <4>2. \A b \in Booking : /\ fare'[b] = IF b = h[w].b THEN 1 ELSE fare[b]
                               /\ amount'[b] = amount[b] /\ BankPaid(b)' = BankPaid(b)
        BY <1>11, <2>1, <3>1 DEF Settle, BankPaid, payments, FareInv, RowsOK, TablesTypeOK
      <4>3. LedgerBalanced'
        BY <2>1, <3>0, <3>3, <3>4, <4>2 DEF FareInv, RowsOK, LedgerBalanced
      <4>4. CreditIsBacked'
        BY <2>1, <3>3, <3>5, <4>2 DEF FareInv, RowsOK, CreditIsBacked
      <4>5. PaidIsCollected'
        BY <1>11, <3>3, <4>2 DEF Settle, FareInv, RowsOK, PaidIsCollected
      <4>6. PaymentsOK' /\ ApprovedIsConfirmed'
        BY <1>11, <3>2 DEF Settle, FareInv, RowsOK, PaymentsOK, ApprovedIsConfirmed, Used,
           payments
      <4>7. Stays
        BY <1>11, <2>3, <4>2 DEF Settle, Stays, Collected, payments
      <4>8. ApprovedIsCollected'
        BY <1>11, <4>7, CollectedStays DEF Settle, payments
      <4>9. QED
        BY <4>1, <4>3, <4>4, <4>5, <4>6, <4>7, <4>8 DEF RowsOK
    <3>7. fare'[h[w].b] = 1
      BY <2>1, <3>1 DEF FareInv, RowsOK, TablesTypeOK
    <3>8. QED
      BY <1>11, <2>1, <2>3, <3>6, <3>7, SettledMoves DEF Settle
  <2>4. CASE SettleFails(w)
    <3>1. polls' \subseteq Payment \X (1..Attempts)
      BY <2>1, <2>4 DEF SettleFails, Knows, FareInv, RowsOK, TablesTypeOK
    <3>2. RowsOK' /\ Stays
      BY <1>11, <2>4, <3>1, RowsRest DEF Settle, SettleFails, FareInv, RowsOK, TablesTypeOK,
         budget
    <3>3. QED
      BY <1>11, <2>4, <3>2, IdleMoves, HandlerMoves DEF Settle, SettleFails
  <2>5. QED
    BY <1>11, <2>2, <2>3, <2>4 DEF Settle
<1>12. ASSUME NEW w \in Handler, ApprovePayment(w) PROVE FareInv'
  <2>1. h[w] \in HandlerRecord /\ Knows(h[w]) /\ h \in [Handler -> HandlerRecord]
    BY HandlerFacts
  <2>2. /\ h[w].b \in Booking /\ Used(h[w].i) /\ bank[h[w].i] = "paid"
        /\ h[w].by # "refresh" => Collected(h[w].b)
        /\ Collected(pbook[h[w].i]) \/ topup[h[w].i] > 0
    BY <1>12, <2>1 DEF ApprovePayment, Knows
  <2>3. RowsOK' /\ Stays
    BY <1>12, <2>2, StatusMoves DEF ApprovePayment, Used, FareInv, RowsOK, TablesTypeOK, budget
  <2>4. CASE Goto(w, Idle)
    BY <1>12, <2>3, <2>4, IdleMoves, HandlerMoves DEF ApprovePayment
  <2>5. CASE h[w].by # "refresh" /\ Goto(w, [h[w] EXCEPT !.pc = "stamp"])
    BY <1>12, <2>2, <2>3, <2>5, PcMoves DEF ApprovePayment
  <2>6. QED
    BY <1>12, <2>4, <2>5 DEF ApprovePayment
<1>13. ASSUME NEW w \in Handler, StampBooking(w) PROVE FareInv'
  <2>1. h[w] \in HandlerRecord /\ Knows(h[w]) /\ h \in [Handler -> HandlerRecord]
    BY HandlerFacts
  <2>2. RowsOK' /\ Stays
    BY <1>13, RowsRest DEF StampBooking, FareInv, RowsOK, TablesTypeOK, budget
  <2>3. h[w].b \in Booking /\ Collected(h[w].b)
    BY <1>13, <2>1 DEF StampBooking, Knows
  <2>4. CASE Goto(w, Idle)
    BY <1>13, <2>2, <2>4, IdleMoves, HandlerMoves DEF StampBooking
  <2>5. CASE SaveThen(w, [row[h[w].b] EXCEPT !.pay = "paid"], "idle")
    <3>1. /\ [row[h[w].b] EXCEPT !.pay = "paid"] \in Row
          /\ [row[h[w].b] EXCEPT !.pay = "paid"].pay = "paid"
          /\ [row[h[w].b] EXCEPT !.pay = "paid"].cur = row[h[w].b].cur
      BY <2>3, BookingFacts DEF Row, PaymentStatus
    <3>2. row[h[w].b].cur # 0 =>
            Used(row[h[w].b].cur) /\ pbook[row[h[w].b].cur] = h[w].b
      BY <2>3, BookingFacts
    <3>3. QED
      BY <1>13, <2>2, <2>3, <2>5, <3>1, <3>2, SaveMoves DEF StampBooking, SaveThen
  <2>6. QED
    BY <1>13, <2>4, <2>5 DEF StampBooking
<1>14. ASSUME NEW w \in Handler, CreditTopup(w) PROVE FareInv'
  <2>1. h[w] \in HandlerRecord /\ Knows(h[w]) /\ h \in [Handler -> HandlerRecord]
    BY HandlerFacts
  <2>2. topup' \in [Payment -> Nat]
    BY <1>14 DEF CreditTopup, FareInv, RowsOK, TablesTypeOK
  <2>3. RowsOK' /\ Stays
    <3>1. Stays
      BY <1>14 DEF CreditTopup, FareInv, RowsOK, Stays, TablesTypeOK, Collected, payments
    <3>2. ApprovedIsCollected'
      BY <1>14, <3>1, CollectedStays DEF CreditTopup, payments
    <3>3. QED
      BY <1>14, <2>2, <3>1, <3>2 DEF CreditTopup, FareInv, RowsOK, TablesTypeOK, PaymentsOK,
         LedgerBalanced, CreditIsBacked, BankPaid, PaidIsCollected, ApprovedIsConfirmed, Used,
         payments, budget
  <2>4. h' = [h EXCEPT ![w] = h'[w]] /\ h'[w] = [h[w] EXCEPT !.pc = "approve"]
    BY <1>14, <2>1 DEF CreditTopup, Goto
  <2>5. h'[w] \in HandlerRecord
    BY <2>1, <2>4 DEF HandlerRecord, Pc
  <2>6. Knows(h[w])' /\ SendsNoMore(w)
    <3>1. topup'[h[w].i] > 0
      BY <1>14, <2>1 DEF CreditTopup, Knows, Used, FareInv, RowsOK, TablesTypeOK
    <3>2. QED
      BY <1>14, <2>1, <2>3, <2>4, <3>1 DEF CreditTopup, Knows, Unsent, Used, Stays, SendsNoMore,
         HandlerRecord, ActsOnPayment, OnCliqPaid
  <2>7. QED
    BY <1>14, <2>3, <2>4, <2>5, <2>6, HandlerMoves DEF CreditTopup, Moves
<1>15. ASSUME NEW w \in Handler, RejectPayment(w) PROVE FareInv'
  <2>1. h[w] \in HandlerRecord /\ Knows(h[w]) /\ h \in [Handler -> HandlerRecord]
    BY HandlerFacts
  <2>2. h[w].b \in Booking /\ Used(h[w].i) /\ pbook[h[w].i] = h[w].b
    BY <1>15, <2>1 DEF RejectPayment, Knows, ActsOnPayment
  <2>3. RowsOK' /\ Stays
    BY <1>15, <2>2, StatusMoves DEF RejectPayment, Used, FareInv, RowsOK, TablesTypeOK, budget
  <2>4. QED
    BY <1>15, <2>3, IdleMoves, HandlerMoves DEF RejectPayment
<1>16. ASSUME NEW w \in Handler, Look(w) PROVE FareInv'
  <2>1. h[w] \in HandlerRecord /\ Knows(h[w]) /\ h \in [Handler -> HandlerRecord]
    BY HandlerFacts
  <2>2. RowsOK' /\ Stays
    BY <1>16, RowsRest DEF Look, FareInv, RowsOK, TablesTypeOK, budget
  <2>3. /\ h[w].b \in Booking /\ h[w].e \in Row
        /\ h[w].e.cur # 0 => Used(h[w].e.cur) /\ pbook[h[w].e.cur] = h[w].b
    BY <1>16, <2>1 DEF Look, Knows, HandlerRecord
  <2>4. CASE SaveThen(w, InCash(h[w].e), "idle")
    BY <1>16, <2>2, <2>3, <2>4, CashEntity, SaveMoves DEF Look, SaveThen
  <2>5. CASE h[w].e.cur # 0 /\ Goto(w, [h[w] EXCEPT !.pc = "inquire", !.i = h[w].e.cur])
    <3>1. /\ h' = [h EXCEPT ![w] = h'[w]]
          /\ h'[w] = [h[w] EXCEPT !.pc = "inquire", !.i = h[w].e.cur]
      BY <2>1, <2>5 DEF Goto
    <3>2. h'[w] \in HandlerRecord
      BY <2>1, <2>3, <2>5, <3>1 DEF HandlerRecord, Pc, Used
    <3>3. Knows(h[w])' /\ SendsNoMore(w)
      BY <1>16, <2>1, <2>2, <2>3, <2>5, <3>1 DEF Look, Knows, Unsent, Used, Stays, SendsNoMore,
         HandlerRecord, ActsOnPayment, OnCliqPaid
    <3>4. QED
      BY <1>16, <2>2, <3>1, <3>2, <3>3, HandlerMoves DEF Look, Moves
  <2>6. QED
    BY <1>16, <2>4, <2>5 DEF Look
<1>17. ASSUME NEW w \in Handler, GiveUp(w) PROVE FareInv'
  <2>1. h[w] \in HandlerRecord /\ Knows(h[w]) /\ h \in [Handler -> HandlerRecord]
    BY HandlerFacts
  <2>2. h[w].b \in Booking /\ Used(h[w].i) /\ pbook[h[w].i] = h[w].b
    BY <1>17, <2>1 DEF GiveUp, Knows, ActsOnPayment
  <2>3. RowsOK' /\ Stays
    BY <1>17, <2>2, StatusMoves DEF GiveUp, Used, FareInv, RowsOK, TablesTypeOK, budget
  <2>4. /\ h[w].e \in Row
        /\ h[w].e.cur # 0 => Used(h[w].e.cur) /\ pbook[h[w].e.cur] = h[w].b
    BY <2>1 DEF HandlerRecord, Knows
  <2>5. QED
    BY <1>17, <2>2, <2>3, <2>4, CashEntity, SaveMoves DEF GiveUp, SaveThen
<1>18. ASSUME NEW w \in Handler, NEW b \in Booking, OpenForTrip(w, b) PROVE FareInv'
  <2>1. /\ row[b] \in Row
        /\ row[b].pay = "paid" => Collected(b)
        /\ row[b].cur # 0 => Used(row[b].cur) /\ pbook[row[b].cur] = b
    BY BookingFacts
  <2>2. RowsOK' /\ Stays
    BY <1>18, RowsRest DEF OpenForTrip, FareInv, RowsOK, TablesTypeOK, budget
  <2>3. PICK pc \in {"settle", "request"}, m \in Method :
          /\ h' = [h EXCEPT ![w] = h'[w]]
          /\ h'[w] = [[Idle EXCEPT !.b = b, !.by = "open", !.m = m, !.e = row[b]]
                       EXCEPT !.pc = pc]
          /\ pc = "settle" => m = "wallet" \/ amount[b] = 0
    BY <1>18, <2>1, HandlerFacts DEF OpenForTrip, Begin, Row
  <2>4. h'[w] \in HandlerRecord
    <3>1. h'[w] = Starting(pc, "open", b, 0, 0, m, row[b])
      BY <2>3 DEF Starting, Idle
    <3>2. QED
      BY <2>1, <3>1, StartingType, StartingParts
  <2>5. Knows(h[w])' /\ SendsNoMore(w)
    BY <1>18, <2>1, <2>2, <2>3 DEF OpenForTrip, Idle, Knows, Unsent, Used, Stays, SendsNoMore,
       ActsOnPayment, OnCliqPaid
  <2>6. QED
    BY <1>18, <2>2, <2>3, <2>4, <2>5, HandlerMoves DEF OpenForTrip, Moves
<1>19. ASSUME NEW w \in Handler, NEW b \in Booking, PayFromWallet(w, b) PROVE FareInv'
  <2>2. RowsOK' /\ Stays
    BY <1>19, RowsRest DEF PayFromWallet, FareInv, RowsOK, TablesTypeOK, budget
  <2>3. /\ h' = [h EXCEPT ![w] = h'[w]]
        /\ h'[w] = [Idle EXCEPT !.pc = "settle", !.b = b, !.by = "rider", !.m = "wallet"]
    BY <1>19, HandlerFacts DEF PayFromWallet, Begin
  <2>4. h'[w] \in HandlerRecord
    <3>1. h'[w] = Starting("settle", "rider", b, 0, 0, "wallet", NoRow)
      BY <2>3 DEF Starting, Idle
    <3>2. QED
      BY <2>2, <3>1, StartingType, StartingParts
  <2>5. Knows(h[w])' /\ SendsNoMore(w)
    BY <1>19, <2>2, <2>3 DEF PayFromWallet, Idle, NoRow, Knows, Unsent, Used, Stays,
       SendsNoMore,
       ActsOnPayment, OnCliqPaid
  <2>6. QED
    BY <1>19, <2>2, <2>3, <2>4, <2>5, HandlerMoves DEF PayFromWallet, Moves
<1>20. ASSUME NEW w \in Handler, NEW b \in Booking, RetryCliq(w, b) PROVE FareInv'
  <2>1. /\ row[b] \in Row
        /\ row[b].pay = "paid" => Collected(b)
        /\ row[b].cur # 0 => Used(row[b].cur) /\ pbook[row[b].cur] = b
    BY BookingFacts
  <2>2. RowsOK' /\ Stays
    BY <1>20, RowsRest DEF RetryCliq, FareInv, RowsOK, TablesTypeOK, budget
  <2>3. /\ h' = [h EXCEPT ![w] = h'[w]]
        /\ h'[w] = [Idle EXCEPT !.pc = "request", !.b = b, !.by = "rider", !.e = row[b]]
    BY <1>20, HandlerFacts DEF RetryCliq, Begin
  <2>4. h'[w] \in HandlerRecord
    <3>1. h'[w] = Starting("request", "rider", b, 0, 0, "cliq", row[b])
      BY <2>3 DEF Starting, Idle
    <3>2. QED
      BY <2>1, <3>1, StartingType, StartingParts
  <2>5. Knows(h[w])' /\ SendsNoMore(w)
    BY <1>20, <2>2, <2>3, <2>1 DEF RetryCliq, Idle, NoRow, Knows, Unsent, Used, Stays,
       SendsNoMore,
       ActsOnPayment, OnCliqPaid
  <2>6. QED
    BY <1>20, <2>2, <2>3, <2>4, <2>5, HandlerMoves DEF RetryCliq, Moves
<1>21. ASSUME NEW w \in Handler, NEW b \in Booking, SwitchToCash(w, b) PROVE FareInv'
  <2>1. /\ row[b] \in Row
        /\ row[b].pay = "paid" => Collected(b)
        /\ row[b].cur # 0 => Used(row[b].cur) /\ pbook[row[b].cur] = b
    BY BookingFacts
  <2>2. RowsOK' /\ Stays
    BY <1>21, RowsRest DEF SwitchToCash, FareInv, RowsOK, TablesTypeOK, budget
  <2>3. /\ h' = [h EXCEPT ![w] = h'[w]]
        /\ h'[w] = [Idle EXCEPT !.pc = "look", !.b = b, !.by = "switch", !.e = row[b]]
    BY <1>21, HandlerFacts DEF SwitchToCash, Begin
  <2>4. h'[w] \in HandlerRecord
    <3>1. h'[w] = Starting("look", "switch", b, 0, 0, "cliq", row[b])
      BY <2>3 DEF Starting, Idle
    <3>2. QED
      BY <2>1, <3>1, StartingType, StartingParts
  <2>5. Knows(h[w])' /\ SendsNoMore(w)
    BY <1>21, <2>2, <2>3, <2>1 DEF SwitchToCash, Idle, NoRow, Knows, Unsent, Used, Stays,
       SendsNoMore,
       ActsOnPayment, OnCliqPaid
  <2>6. QED
    BY <1>21, <2>2, <2>3, <2>4, <2>5, HandlerMoves DEF SwitchToCash, Moves
<1>22. ASSUME NEW w \in Handler, NEW b \in Booking, NEW received \in BOOLEAN,
              ConfirmCash(w, b, received) PROVE FareInv'
  <2> DEFINE st == IF received THEN "paid" ELSE "disputed"
  <2>1. /\ row[b] \in Row
        /\ row[b].pay = "paid" => Collected(b)
        /\ row[b].cur # 0 => Used(row[b].cur) /\ pbook[row[b].cur] = b
    BY BookingFacts
  <2>2. RowsOK' /\ Stays /\ (received => Collected(b)')
    BY <1>22 DEF ConfirmCash, FareInv, RowsOK, Stays, TablesTypeOK, PaymentsOK, LedgerBalanced,
         CreditIsBacked, BankPaid, PaidIsCollected, ApprovedIsConfirmed, ApprovedIsCollected,
         Collected, Used, payments, ledger, budget
  <2>3. /\ [row[b] EXCEPT !.pay = st] \in Row
        /\ [row[b] EXCEPT !.pay = st].pay = st
        /\ [row[b] EXCEPT !.pay = st].cur = row[b].cur
    BY <2>1 DEF Row, PaymentStatus
  <2>4. PICK e \in Row :
          /\ e.pay = st /\ e.cur = row[b].cur
          /\ h' = [h EXCEPT ![w] = h'[w]]
          /\ h'[w] = [Idle EXCEPT !.pc = "save", !.b = b, !.by = "driver", !.e = e]
    BY <1>22, <2>3, HandlerFacts DEF ConfirmCash, Begin
  <2>5. h'[w] \in HandlerRecord
    <3>1. h'[w] = Starting("save", "driver", b, 0, 0, "cliq", e)
      BY <2>4 DEF Starting, Idle
    <3>2. QED
      BY <2>4, <3>1, StartingType, StartingParts
  <2>6. Knows(h[w])' /\ SendsNoMore(w)
    <3>1. st = "paid" => received
      OBVIOUS
    <3> HIDE DEF st
    <3>2. /\ h'[w].pc = "save" /\ h'[w].b = b /\ h'[w].by = "driver" /\ h'[w].to = "idle"
          /\ h'[w].e.pay = st /\ h'[w].e.cur = row[b].cur
      BY <2>4 DEF Idle
    <3>3. QED
      BY <2>1, <2>2, <3>1, <3>2 DEF Knows, Unsent, Used, Stays, SendsNoMore, ActsOnPayment,
         OnCliqPaid, Collected
  <2>7. QED
    BY <1>22, <2>2, <2>4, <2>5, <2>6, HandlerMoves DEF ConfirmCash, Moves
<1>23. ASSUME NEW w \in Handler, NEW i \in Payment, Recover(w, i) PROVE FareInv'
  <2>1. Used(i) /\ pbook[i] \in Booking
    BY <1>23, PaymentFacts DEF Recover
  <2>2. RowsOK' /\ Stays
    BY <1>23, RowsRest DEF Recover, FareInv, RowsOK, TablesTypeOK, budget
  <2>3. /\ h' = [h EXCEPT ![w] = h'[w]]
        /\ h'[w] = [Idle EXCEPT !.pc = "inquire", !.by = "cron", !.i = i, !.b = pbook[i]]
    BY <1>23, HandlerFacts DEF Recover, Begin
  <2>4. h'[w] \in HandlerRecord
    <3>1. h'[w] = Starting("inquire", "cron", pbook[i], i, 0, "cliq", NoRow)
      BY <2>3 DEF Starting, Idle
    <3>2. QED
      BY <2>1, <3>1, StartingType, StartingParts DEF Used
  <2>5. Knows(h[w])' /\ SendsNoMore(w)
    BY <1>23, <2>2, <2>3, <2>1 DEF Recover, Idle, NoRow, Knows, Unsent, Used, Stays,
       SendsNoMore,
       ActsOnPayment, OnCliqPaid
  <2>6. QED
    BY <1>23, <2>2, <2>3, <2>4, <2>5, HandlerMoves DEF Recover, Moves
<1>24. ASSUME NEW w \in Handler, NEW i \in Payment, RefreshStatus(w, i) PROVE FareInv'
  <2>1. Used(i) /\ pbook[i] \in Booking
    BY <1>24, PaymentFacts DEF RefreshStatus
  <2>2. RowsOK' /\ Stays
    BY <1>24, RowsRest DEF RefreshStatus, FareInv, RowsOK, TablesTypeOK, budget, Desk
  <2>3. /\ h' = [h EXCEPT ![w] = h'[w]]
        /\ h'[w] = [Idle EXCEPT !.pc = "inquire", !.by = "refresh", !.i = i, !.b = pbook[i]]
    BY <1>24, HandlerFacts DEF RefreshStatus, Begin
  <2>4. h'[w] \in HandlerRecord
    <3>1. h'[w] = Starting("inquire", "refresh", pbook[i], i, 0, "cliq", NoRow)
      BY <2>3 DEF Starting, Idle
    <3>2. QED
      BY <2>1, <3>1, StartingType, StartingParts DEF Used
  <2>5. Knows(h[w])' /\ SendsNoMore(w)
    BY <1>24, <2>2, <2>3, <2>1 DEF RefreshStatus, Idle, NoRow, Knows, Unsent, Used, Stays,
       SendsNoMore,
       ActsOnPayment, OnCliqPaid
  <2>6. QED
    BY <1>24, <2>2, <2>3, <2>4, <2>5, HandlerMoves DEF RefreshStatus, Moves
<1>25. ASSUME NEW w \in Handler, NEW i \in Payment, AdminRejects(w, i) PROVE FareInv'
  <2>1. Used(i) /\ pbook[i] \in Booking
    BY <1>25, PaymentFacts DEF AdminRejects
  <2>2. RowsOK' /\ Stays
    BY <1>25, RowsRest DEF AdminRejects, FareInv, RowsOK, TablesTypeOK, budget, Desk
  <2>3. /\ h' = [h EXCEPT ![w] = h'[w]]
        /\ h'[w] = [Idle EXCEPT !.pc = "reject", !.by = "admin", !.i = i, !.b = pbook[i]]
    BY <1>25, HandlerFacts DEF AdminRejects, Begin
  <2>4. h'[w] \in HandlerRecord
    <3>1. h'[w] = Starting("reject", "admin", pbook[i], i, 0, "cliq", NoRow)
      BY <2>3 DEF Starting, Idle
    <3>2. QED
      BY <2>1, <3>1, StartingType, StartingParts DEF Used
  <2>5. Knows(h[w])' /\ SendsNoMore(w)
    BY <1>25, <2>2, <2>3, <2>1 DEF AdminRejects, Idle, NoRow, Knows, Unsent, Used, Stays,
       SendsNoMore,
       ActsOnPayment, OnCliqPaid
  <2>6. QED
    BY <1>25, <2>2, <2>3, <2>4, <2>5, HandlerMoves DEF AdminRejects, Moves
<1>26. ASSUME NEW w \in Handler, NEW i \in Payment, NEW k \in 1..Attempts, PollFires(w, i, k)
       PROVE  FareInv'
  <2>1. RowsOK' /\ Stays
    BY <1>26, RowsRest DEF PollFires, FareInv, RowsOK, TablesTypeOK, budget
  <2>2. CASE Begin(w, Idle)
    BY <1>26, <2>1, <2>2, IdleMoves, HandlerMoves DEF PollFires, Begin, Goto
  <2>3. CASE /\ pstat[i] = "pending"
             /\ Begin(w, [Idle EXCEPT !.pc = "inquire", !.by = "poll", !.i = i, !.k = k,
                                      !.b = pbook[i]])
    <3>1. /\ h' = [h EXCEPT ![w] = h'[w]]
          /\ h'[w] = [Idle EXCEPT !.pc = "inquire", !.by = "poll", !.i = i, !.k = k,
                                 !.b = pbook[i]]
      BY <2>3, HandlerFacts DEF Begin
    <3>2. Used(i) /\ pbook[i] \in Booking
      BY <2>3, PaymentFacts
    <3>3. h'[w] \in HandlerRecord
      <4>1. h'[w] = Starting("inquire", "poll", pbook[i], i, k, "cliq", NoRow)
        BY <3>1 DEF Starting, Idle
      <4>2. i \in Payment \cup {0} /\ k \in 0..Attempts
        OBVIOUS
      <4>3. QED
        BY <3>2, <4>1, <4>2, StartingType, StartingParts
    <3>4. Knows(h[w])' /\ SendsNoMore(w)
      BY <2>1, <3>1, <3>2 DEF Idle, NoRow, Knows, Unsent, Used, Stays, SendsNoMore,
         ActsOnPayment, OnCliqPaid
    <3>5. QED
      BY <1>26, <2>1, <3>1, <3>3, <3>4, HandlerMoves DEF PollFires, Moves
  <2>4. QED
    BY <1>26, <2>2, <2>3 DEF PollFires
<1>27. ASSUME NEW w \in Handler, Abort(w) PROVE FareInv'
  <2>1. h[w] \in HandlerRecord /\ Knows(h[w]) /\ h \in [Handler -> HandlerRecord]
    BY HandlerFacts
  <2>2. polls' \subseteq Payment \X (1..Attempts) /\ faults' \in Nat
    BY <1>27, <2>1 DEF Abort, Fault, Knows, FareInv, RowsOK, TablesTypeOK
  <2>3. RowsOK' /\ Stays
    BY <1>27, <2>2, RowsRest DEF Abort, FareInv, RowsOK, TablesTypeOK
  <2>4. QED
    BY <1>27, <2>3, IdleMoves, HandlerMoves DEF Abort
<1>28. ASSUME NEW i \in Payment, BankAnswers(i) PROVE FareInv'
  <2>1. PICK answer \in {"paid", "refused"} : bank' = [bank EXCEPT ![i] = answer]
    BY <1>28 DEF BankAnswers
  <2>2. RowsOK' /\ Stays
    BY <1>28, <2>1 DEF BankAnswers, FareInv, RowsOK, Stays, TablesTypeOK, PaymentsOK,
       LedgerBalanced, CreditIsBacked, BankPaid, PaidIsCollected, ApprovedIsConfirmed,
       ApprovedIsCollected, Collected, Used, payments, ledger, budget
  <2>3. \A w \in Handler : Knows(h[w])'
    BY <1>28, <2>2, KnowledgeStays DEF BankAnswers
  <2>4. Distinct'
    <3>1. \A w \in Handler : Unsent(h[w]) => h[w].i # i
      BY <1>28 DEF BankAnswers, FareInv, Distinct
    <3>2. QED
      BY <1>28, <2>1, <3>1 DEF BankAnswers, FareInv, Distinct, Unsent
  <2>5. QED
    BY <1>28, <2>2, <2>3, <2>4 DEF BankAnswers, FareInv, HandlersOK
<1>29. CASE UNCHANGED vars
  <2>1. RowsOK' /\ Stays
    BY <1>29, RowsRest DEF vars, FareInv, RowsOK, TablesTypeOK, budget
  <2>2. \A w \in Handler : Knows(h[w])'
    BY <1>29, <2>1, KnowledgeStays DEF vars
  <2>3. QED
    BY <1>29, <2>1, <2>2 DEF vars, FareInv, HandlersOK, Distinct, Unsent
<1>30. QED
  BY <1>1, <1>2, <1>3, <1>4, <1>5, <1>6, <1>7, <1>8, <1>9, <1>10, <1>11, <1>12, <1>13,
     <1>14, <1>15, <1>16, <1>17, <1>18, <1>19, <1>20, <1>21, <1>22, <1>23, <1>24, <1>25,
     <1>26, <1>27, <1>28, <1>29
     DEF Next, HandlerStep, UserCall, Poll

-----------------------------------------------------------------------------
(* Theorems *)

\* Whatever polls, cron runs, answers, switches and faults cross in
\* RidePaymentsService, FareInv holds: it is inductive.
THEOREM Invariance == Spec => []FareInv
<1>1. Init => FareInv
  BY FareInit
<1>2. FareInv /\ [Next]_vars => FareInv'
  BY FareStep
<1>3. QED
  BY <1>1, <1>2, PTL DEF Spec

\* Bookings, payments, ledger, poll queue and handlers keep their shape in every
\* reachable state: pollCliq, switchToCash and confirmCash write only the statuses
\* their columns have.
THEOREM FareTyped == Spec => []TypeOK
<1>1. FareInv => TypeOK
  BY DEF FareInv, RowsOK, HandlersOK, TypeOK
<1>2. QED
  BY <1>1, Invariance, PTL

\* settleCollectedFare credits the driver of a booking at most once and debits the
\* rider at most once, never without that credit, however often it is called.
THEOREM Balanced == Spec => []LedgerBalanced
<1>1. FareInv => LedgerBalanced
  BY DEF FareInv, RowsOK
<1>2. QED
  BY <1>1, Invariance, PTL

\* settleCollectedFare credits a driver only for a fare of nothing, against a debit
\* of the rider's wallet, or for a payment of that booking which the bank confirmed.
THEOREM Backed == Spec => []CreditIsBacked
<1>1. FareInv => CreditIsBacked
  BY DEF FareInv, RowsOK
<1>2. QED
  BY <1>1, Invariance, PTL

\* A booking that any of settleCollectedFare, onCliqPaid and confirmCash marks paid is
\* one whose driver has the fare, in the wallet or in hand, stale saves included.
THEOREM PaidCollected == Spec => []PaidIsCollected
<1>1. FareInv => PaidIsCollected
  BY DEF FareInv, RowsOK
<1>2. QED
  BY <1>1, Invariance, PTL

\* onCliqPaid and refreshCliqPaymentStatus approve a payment only after the bank
\* confirmed it, although the approval is saved long after the inquiry.
THEOREM Confirmed == Spec => []ApprovedIsConfirmed
<1>1. FareInv => ApprovedIsConfirmed
  BY DEF FareInv, RowsOK
<1>2. QED
  BY <1>1, Invariance, PTL

\* An approved payment brought the driver the fare, or its money is in the rider's
\* wallet: what settleCollectedFare refuses is not approved.
THEOREM ApprovedCollected == Spec => []ApprovedIsCollected
<1>1. FareInv => ApprovedIsCollected
  BY DEF FareInv, RowsOK
<1>2. QED
  BY <1>1, Invariance, PTL

-----------------------------------------------------------------------------
(* Who did it *)

\* What gives an idle handler something to do.
Starts(w) ==
  \/ UserCall(w)
  \/ \E i \in Payment : \/ Recover(w, i) \/ RefreshStatus(w, i) \/ AdminRejects(w, i)
                       \/ \E k \in 1..Attempts : PollFires(w, i, k)

\* A handler in flight moves by its own next statement or by a failure.
LEMMA HandlerMoved ==
  ASSUME FareInv, [Next]_vars, NEW v \in Handler
  PROVE  \/ h'[v] = h[v]
         \/ HandlerStep(v)
         \/ h[v] = Idle /\ Starts(v)
         \/ h'[v] = Idle /\ faults' < faults
<1>0. h \in [Handler -> HandlerRecord] /\ faults \in Nat
  BY DEF FareInv, HandlersOK, RowsOK, TablesTypeOK
<1>1. ASSUME NEW w \in Handler, NEW rec, Begin(w, rec)
      PROVE  IF w = v THEN h[v] = Idle ELSE h'[v] = h[v]
  BY <1>0, <1>1 DEF Begin
<1>2. ASSUME NEW w \in Handler, NEW rec, Goto(w, rec), w # v PROVE h'[v] = h[v]
  BY <1>0, <1>2 DEF Goto
<1>3. ASSUME NEW w \in Handler, HandlerStep(w) PROVE h'[v] = h[v] \/ HandlerStep(v)
  <2>1. CASE w = v
    BY <1>3, <2>1
  <2>2. CASE w # v
    BY <1>2, <1>3, <2>2 DEF HandlerStep, SaveThen, Saved, Settled, SettleFails, SaveBooking,
      WriteBooking, RequestCliq, Purchase, RecordPurchase, RefusePurchase, InquiryPaid,
      InquiryOpen, ExpirePayment, FailBooking, Settle, ApprovePayment, StampBooking,
      CreditTopup, RejectPayment, Look, GiveUp
  <2>3. QED
    BY <2>1, <2>2
<1>4. ASSUME NEW w \in Handler, Starts(w) PROVE h'[v] = h[v] \/ (h[v] = Idle /\ Starts(v))
  <2>1. IF w = v THEN h[v] = Idle ELSE h'[v] = h[v]
    BY <1>1, <1>4 DEF Starts, UserCall, OpenForTrip, PayFromWallet, RetryCliq, SwitchToCash,
      ConfirmCash, Recover, RefreshStatus, AdminRejects, PollFires
  <2>2. QED
    BY <1>4, <2>1
<1>5. ASSUME NEW w \in Handler, Abort(w)
      PROVE  h'[v] = h[v] \/ (h'[v] = Idle /\ faults' < faults)
  BY <1>0, <1>5 DEF Abort, Goto, Fault
<1>6. ASSUME (\E i \in Payment : BankAnswers(i)) \/ UNCHANGED vars PROVE h'[v] = h[v]
  BY <1>6 DEF BankAnswers, vars
<1>7. QED
  BY <1>3, <1>4, <1>5, <1>6 DEF Next, Poll, Starts

\* The statement a handler runs next.
LEMMA NextStatement ==
  ASSUME NEW w \in Handler, HandlerStep(w)
  PROVE  /\ h[w].pc # "idle"
         /\ h[w].pc = "save" => SaveBooking(w)
         /\ h[w].pc = "write" => WriteBooking(w)
         /\ h[w].pc = "purchase" => Purchase(w)
         /\ h[w].pc = "record" => RecordPurchase(w)
         /\ h[w].pc = "refused" => RefusePurchase(w)
         /\ h[w].pc = "inquire" => InquiryPaid(w) \/ InquiryOpen(w)
         /\ h[w].pc = "expire" => ExpirePayment(w)
         /\ h[w].pc = "fail" => FailBooking(w)
         /\ h[w].pc = "stamp" => StampBooking(w)
BY DEF HandlerStep, SaveBooking, WriteBooking, RequestCliq, Purchase, RecordPurchase,
  RefusePurchase, InquiryPaid, InquiryOpen, ExpirePayment, FailBooking, Settle,
  ApprovePayment, StampBooking, CreditTopup, RejectPayment, Look, GiveUp

\* The kinds of steps that do not start or continue a handler.
LEMMA OtherSteps ==
  ASSUME [Next]_vars
  PROVE  \/ \E w \in Handler : HandlerStep(w) \/ Starts(w) \/ Abort(w)
         \/ \E i \in Payment : BankAnswers(i)
         \/ UNCHANGED vars
BY DEF Next, Poll, Starts

\* Who writes a payment's status.
LEMMA StatusWritten ==
  ASSUME [Next]_vars
  PROVE  \/ UNCHANGED payments
         \/ \E w \in Handler : \/ RequestCliq(w) \/ RecordPurchase(w) \/ RefusePurchase(w)
                               \/ ExpirePayment(w) \/ ApprovePayment(w) \/ RejectPayment(w)
                               \/ GiveUp(w)
<1>1. ASSUME NEW w \in Handler, HandlerStep(w)
      PROVE  \/ UNCHANGED payments
             \/ RequestCliq(w) \/ RecordPurchase(w) \/ RefusePurchase(w)
             \/ ExpirePayment(w) \/ ApprovePayment(w) \/ RejectPayment(w)
             \/ GiveUp(w)
  BY <1>1 DEF HandlerStep, SaveBooking, WriteBooking, Purchase, InquiryPaid, InquiryOpen,
    FailBooking, Settle, StampBooking, CreditTopup, Look
<1>2. ASSUME NEW w \in Handler, Starts(w) \/ Abort(w) PROVE UNCHANGED payments
  BY <1>2 DEF Starts, UserCall, OpenForTrip, PayFromWallet, RetryCliq, SwitchToCash,
    ConfirmCash, Recover, RefreshStatus, AdminRejects, PollFires, Abort
<1>3. ASSUME (\E i \in Payment : BankAnswers(i)) \/ UNCHANGED vars PROVE UNCHANGED payments
  BY <1>3 DEF BankAnswers, vars
<1>4. QED
  BY <1>1, <1>2, <1>3, OtherSteps

\* Who writes a booking's row.
LEMMA RowWritten ==
  ASSUME [Next]_vars
  PROVE  row' = row \/ \E w \in Handler : WriteBooking(w) \/ Settle(w)
<1>1. ASSUME NEW w \in Handler, HandlerStep(w)
      PROVE  row' = row \/ WriteBooking(w) \/ Settle(w)
  BY <1>1 DEF HandlerStep, SaveBooking, RequestCliq, Purchase, RecordPurchase, RefusePurchase,
    InquiryPaid, InquiryOpen, ExpirePayment, FailBooking, ApprovePayment, StampBooking,
    CreditTopup, RejectPayment, Look, GiveUp
<1>2. ASSUME NEW w \in Handler, Starts(w) \/ Abort(w) PROVE row' = row
  BY <1>2 DEF Starts, UserCall, OpenForTrip, PayFromWallet, RetryCliq, SwitchToCash,
    ConfirmCash, Recover, RefreshStatus, AdminRejects, PollFires, Abort
<1>3. ASSUME (\E i \in Payment : BankAnswers(i)) \/ UNCHANGED vars PROVE row' = row
  BY <1>3 DEF BankAnswers, vars
<1>4. QED
  BY <1>1, <1>2, <1>3, OtherSteps

\* Who writes what became of a request at the bank.
LEMMA BankWritten ==
  ASSUME [Next]_vars
  PROVE  \/ bank' = bank
         \/ \E w \in Handler : Purchase(w)
         \/ \E i \in Payment : BankAnswers(i)
<1>1. ASSUME NEW w \in Handler, HandlerStep(w) PROVE bank' = bank \/ Purchase(w)
  BY <1>1 DEF HandlerStep, SaveBooking, WriteBooking, RequestCliq, RecordPurchase,
    RefusePurchase, InquiryPaid, InquiryOpen, ExpirePayment, FailBooking, Settle,
    ApprovePayment, StampBooking, CreditTopup, RejectPayment, Look, GiveUp
<1>2. ASSUME NEW w \in Handler, Starts(w) \/ Abort(w) PROVE bank' = bank
  BY <1>2 DEF Starts, UserCall, OpenForTrip, PayFromWallet, RetryCliq, SwitchToCash,
    ConfirmCash, Recover, RefreshStatus, AdminRejects, PollFires, Abort
<1>3. QED
  BY <1>1, <1>2, OtherSteps DEF vars

\* Who takes a poll from the queue, and who adds one.
LEMMA PollsMoved ==
  ASSUME [Next]_vars
  PROVE  \/ polls \subseteq polls'
         \/ \E w \in Handler, i \in Payment, k \in 1..Attempts : PollFires(w, i, k)
<1>1. ASSUME NEW w \in Handler, HandlerStep(w) PROVE polls \subseteq polls'
  BY <1>1 DEF HandlerStep, SchedulePoll, SettleFails, SaveBooking, WriteBooking, RequestCliq,
    Purchase, RecordPurchase, RefusePurchase, InquiryPaid, InquiryOpen, ExpirePayment,
    FailBooking, Settle, ApprovePayment, StampBooking, CreditTopup, RejectPayment, Look,
    GiveUp
<1>2. ASSUME NEW w \in Handler, UserCall(w) \/ Abort(w) PROVE polls \subseteq polls'
  BY <1>2 DEF UserCall, OpenForTrip, PayFromWallet, RetryCliq, SwitchToCash,
    ConfirmCash, Abort
<1>3. ASSUME NEW w \in Handler, NEW i \in Payment,
             Recover(w, i) \/ RefreshStatus(w, i) \/ AdminRejects(w, i)
      PROVE  polls \subseteq polls'
  BY <1>3 DEF Recover, RefreshStatus, AdminRejects
<1>4. ASSUME (\E i \in Payment : BankAnswers(i)) \/ UNCHANGED vars
      PROVE  polls \subseteq polls'
  BY <1>4 DEF BankAnswers, vars
<1>5. QED
  BY <1>1, <1>2, <1>3, <1>4 DEF Next, Poll

LEMMA PollAdded ==
  ASSUME [Next]_vars, NEW q \in polls', q \notin polls
  PROVE  \E w \in Handler : /\ q[1] = h[w].i
                            /\ h[w].pc = "record" \/ h[w].by = "poll"
                            /\ HandlerStep(w) \/ Abort(w)
                            /\ h[w].pc \in {"record", "inquire", "settle"} \/ Abort(w)
<1> DEFINE Adds(w) == /\ q[1] = h[w].i
                      /\ h[w].pc = "record" \/ h[w].by = "poll"
                      /\ h[w].pc \in {"record", "inquire", "settle"} \/ Abort(w)
<1>1. ASSUME NEW w \in Handler, HandlerStep(w) PROVE Adds(w)
  <2>1. CASE RecordPurchase(w)
    BY <2>1 DEF RecordPurchase, SchedulePoll
  <2>2. CASE InquiryOpen(w)
    BY <2>2 DEF InquiryOpen, SchedulePoll
  <2>3. CASE Settle(w)
    BY <2>3 DEF Settle, SettleFails
  <2>4. CASE ~RecordPurchase(w) /\ ~InquiryOpen(w) /\ ~Settle(w)
    BY <1>1, <2>4 DEF HandlerStep, SaveBooking, WriteBooking, RequestCliq, Purchase,
      RefusePurchase, InquiryPaid, ExpirePayment, FailBooking, ApprovePayment, StampBooking,
      CreditTopup, RejectPayment, Look, GiveUp
  <2>5. QED
    BY <2>1, <2>2, <2>3, <2>4
<1>2. ASSUME NEW w \in Handler, Abort(w) PROVE Adds(w)
  BY <1>2 DEF Abort
<1>3. ASSUME NEW w \in Handler PROVE ~Starts(w)
  BY DEF Starts, UserCall, OpenForTrip, PayFromWallet, RetryCliq, SwitchToCash,
    ConfirmCash, Recover, RefreshStatus, AdminRejects, PollFires
<1>4. ~UNCHANGED vars /\ \A i \in Payment : ~BankAnswers(i)
  BY DEF BankAnswers, vars
<1>5. QED
  BY <1>1, <1>2, <1>3, <1>4, OtherSteps

\* The bounds on faults and on the desk are only ever used up.
LEMMA BoundsFall ==
  ASSUME FareInv, [Next]_vars
  PROVE  /\ faults' \in Nat /\ faults' <= faults
         /\ desk' \in Nat /\ desk' <= desk
<1>0. faults \in Nat /\ desk \in Nat
  BY DEF FareInv, RowsOK, TablesTypeOK
<1> USE DEF budget
<1>1. ASSUME NEW w \in Handler, HandlerStep(w) PROVE desk' = desk /\ (faults' = faults \/ Fault)
  BY <1>1 DEF HandlerStep, SchedulePoll, SaveBooking, WriteBooking, RequestCliq, Purchase,
    RecordPurchase, RefusePurchase, InquiryPaid, InquiryOpen, ExpirePayment, FailBooking,
    Settle, ApprovePayment, StampBooking, CreditTopup, RejectPayment, Look, GiveUp
<1>2. ASSUME NEW w \in Handler, Starts(w) PROVE faults' = faults /\ (desk' = desk \/ Desk)
  BY <1>2 DEF Starts, UserCall, OpenForTrip, PayFromWallet, RetryCliq, SwitchToCash,
    ConfirmCash, Recover, RefreshStatus, AdminRejects, PollFires
<1>3. ASSUME NEW w \in Handler, Abort(w) PROVE desk' = desk /\ Fault
  BY <1>3 DEF Abort
<1>4. ASSUME (\E i \in Payment : BankAnswers(i)) \/ UNCHANGED vars
      PROVE  desk' = desk /\ faults' = faults
  BY <1>4 DEF BankAnswers, vars
<1>5. (faults' = faults \/ Fault) /\ (desk' = desk \/ Desk)
  BY <1>1, <1>2, <1>3, <1>4, OtherSteps
<1>6. QED
  BY <1>0, <1>5 DEF Fault, Desk

-----------------------------------------------------------------------------
(* What a statement leaves its handler with *)

LEMMA GoesTo ==
  ASSUME FareInv, NEW w \in Handler, NEW rec, Goto(w, rec)
  PROVE  h'[w] = rec
BY HandlerFacts DEF Goto

\* Handler state y goes on with the booking, the caller and the payment of x.
SameJob(x, y) == y.b = x.b /\ y.by = x.by /\ y.i = x.i

\* Handler state y saves its booking as anything but requested.
Saves(x, y) == /\ SameJob(x, y) /\ y.pc = "save" /\ y.to = "idle" /\ y.e.pay # "requested"
               /\ y.e.cur = x.e.cur \/ y.e.cur = row[x.b].cur

LEMMA AfterSaveThen ==
  ASSUME FareInv, NEW w \in Handler, NEW e, SaveThen(w, e, "idle"), e.pay # "requested",
         e.cur = h[w].e.cur \/ e.cur = row[h[w].b].cur
  PROVE  Saves(h[w], h'[w])
<1>1. h'[w] = [h[w] EXCEPT !.pc = "save", !.e = e, !.to = "idle"]
  BY GoesTo DEF SaveThen
<1>2. QED
  BY <1>1, HandlerFacts DEF HandlerRecord, Saves, SameJob

LEMMA AfterPc ==
  ASSUME FareInv, NEW w \in Handler, NEW pc, Goto(w, [h[w] EXCEPT !.pc = pc])
  PROVE  SameJob(h[w], h'[w]) /\ h'[w].pc = pc /\ h'[w].to = h[w].to /\ h'[w].e = h[w].e
<1>1. h'[w] = [h[w] EXCEPT !.pc = pc]
  BY GoesTo
<1>2. QED
  BY <1>1, HandlerFacts DEF HandlerRecord, SameJob

LEMMA AfterSaved ==
  ASSUME FareInv, NEW w \in Handler, Saved(w)
  PROVE  \/ h'[w] = Idle /\ h[w].to = "idle"
         \/ /\ SameJob(h[w], h'[w]) /\ h[w].to = "purchase" /\ h'[w].pc = "purchase"
            /\ h'[w].e = h[w].e
<1>1. h[w] \in HandlerRecord
  BY HandlerFacts
<1>2. CASE h[w].to = "idle"
  BY <1>2, GoesTo DEF Saved
<1>3. CASE h[w].to = "purchase"
  <2>1. Goto(w, [h[w] EXCEPT !.pc = "purchase", !.dirty = {}])
    BY <1>3 DEF Saved
  <2>2. h'[w] = [h[w] EXCEPT !.pc = "purchase", !.dirty = {}]
    BY <2>1, GoesTo
  <2>3. QED
    BY <1>1, <1>3, <2>2 DEF HandlerRecord, SameJob
<1>4. QED
  BY <1>1, <1>2, <1>3 DEF HandlerRecord

\* bookingRepo.save: the select decides which columns are written.
LEMMA AfterSelect ==
  ASSUME FareInv, NEW w \in Handler, SaveBooking(w)
  PROVE  \/ h'[w] = Idle /\ h[w].to = "idle" /\ h[w].e.pay = row[h[w].b].pay
         \/ /\ SameJob(h[w], h'[w]) /\ h[w].to = "purchase" /\ h'[w].pc = "purchase"
            /\ h'[w].e = h[w].e /\ h[w].e.pay = row[h[w].b].pay
         \/ /\ SameJob(h[w], h'[w]) /\ h'[w].pc = "write" /\ h'[w].to = h[w].to
            /\ h'[w].e = h[w].e
            /\ h[w].e.pay # row[h[w].b].pay => "pay" \in h'[w].dirty
<1> DEFINE differs == {f \in {"method", "pay", "cur"} : h[w].e[f] # row[h[w].b][f]}
<1>1. h[w] \in HandlerRecord
  BY HandlerFacts
<1>2. \/ differs = {} /\ Saved(w)
      \/ Goto(w, [h[w] EXCEPT !.pc = "write", !.dirty = differs])
  BY DEF SaveBooking
<1>3. CASE differs = {} /\ Saved(w)
  <2>1. h[w].e["pay"] = row[h[w].b]["pay"]
    BY <1>3
  <2>2. QED
    BY <1>3, <2>1, AfterSaved
<1>4. CASE Goto(w, [h[w] EXCEPT !.pc = "write", !.dirty = differs])
  <2>1. h'[w] = [h[w] EXCEPT !.pc = "write", !.dirty = differs]
    BY <1>4, GoesTo
  <2>2. /\ SameJob(h[w], h'[w]) /\ h'[w].pc = "write" /\ h'[w].to = h[w].to
        /\ h'[w].e = h[w].e /\ h'[w].dirty = differs
    BY <1>1, <2>1 DEF HandlerRecord, SameJob
  <2>3. h[w].e["pay"] # row[h[w].b]["pay"] => "pay" \in differs
    OBVIOUS
  <2>4. QED
    BY <2>2, <2>3
<1>5. QED
  BY <1>2, <1>3, <1>4

\* requestCliq inserts the payment it goes on with.
Requests(w) ==
  LET y == h'[w]
  IN  /\ y.b = h[w].b /\ y.by = h[w].by
      /\ y.pc = "save" /\ y.to = "purchase" /\ y.e.pay = "requested" /\ y.e.cur = y.i
      /\ y.i \in NextPayment /\ pstat' = [pstat EXCEPT ![y.i] = "pending"]

LEMMA AfterRequest ==
  ASSUME FareInv, NEW w \in Handler, RequestCliq(w)
  PROVE  Requests(w) \/ (Saves(h[w], h'[w]) /\ UNCHANGED payments)
<1>1. h[w] \in HandlerRecord /\ h[w].e \in Row /\ h \in [Handler -> HandlerRecord]
  BY HandlerFacts DEF HandlerRecord
<1>2. ASSUME NEW i \in NextPayment, pstat' = [pstat EXCEPT ![i] = "pending"],
             Goto(w, [h[w] EXCEPT !.pc = "save", !.to = "purchase", !.i = i,
                                  !.e.pay = "requested", !.e.cur = i])
      PROVE  Requests(w)
  <2>1. h'[w] = [h[w] EXCEPT !.pc = "save", !.to = "purchase", !.i = i,
                             !.e = [h[w].e EXCEPT !.pay = "requested", !.cur = i]]
    BY <1>1, <1>2 DEF Goto, HandlerRecord
  <2>2. /\ h'[w].b = h[w].b /\ h'[w].by = h[w].by
        /\ h'[w].pc = "save" /\ h'[w].to = "purchase" /\ h'[w].i = i
        /\ h'[w].e = [h[w].e EXCEPT !.pay = "requested", !.cur = i]
    BY <1>1, <2>1 DEF HandlerRecord
  <2>3. h'[w].e.pay = "requested" /\ h'[w].e.cur = i
    BY <1>1, <2>2 DEF Row
  <2>4. QED
    BY <1>2, <2>2, <2>3 DEF Requests
<1>3. CASE SaveThen(w, [h[w].e EXCEPT !.pay = "failed"], "idle") /\ UNCHANGED payments
  <2>1. /\ [h[w].e EXCEPT !.pay = "failed"].pay = "failed"
        /\ [h[w].e EXCEPT !.pay = "failed"].cur = h[w].e.cur
    BY <1>1 DEF Row
  <2>2. QED
    BY <1>3, <2>1, AfterSaveThen
<1>4. QED
  BY <1>2, <1>3 DEF RequestCliq

\* The statements that give a payment up, and those that tell its booking.
LEMMA AfterSaves ==
  ASSUME FareInv, NEW w \in Handler
  PROVE  /\ RefusePurchase(w) => Saves(h[w], h'[w])
         /\ GiveUp(w) => Saves(h[w], h'[w])
         /\ FailBooking(w) => \/ Saves(h[w], h'[w])
                              \/ h'[w] = Idle /\ row[h[w].b].pay # "requested"
         /\ StampBooking(w) => \/ Saves(h[w], h'[w])
                               \/ h'[w] = Idle /\ row[h[w].b].pay = "paid"
<1>1. h[w] \in HandlerRecord /\ Knows(h[w]) /\ h[w].e \in Row
  BY HandlerFacts DEF HandlerRecord
<1>2. ASSUME RefusePurchase(w) PROVE Saves(h[w], h'[w])
  <2>1. /\ [h[w].e EXCEPT !.pay = "failed"].pay = "failed"
        /\ [h[w].e EXCEPT !.pay = "failed"].cur = h[w].e.cur
    BY <1>1 DEF Row
  <2>2. QED
    BY <1>2, <2>1, AfterSaveThen DEF RefusePurchase
<1>3. ASSUME GiveUp(w) PROVE Saves(h[w], h'[w])
  BY <1>1, <1>3, CashEntity, AfterSaveThen DEF GiveUp
<1>4. ASSUME FailBooking(w)
      PROVE  Saves(h[w], h'[w]) \/ (h'[w] = Idle /\ row[h[w].b].pay # "requested")
  <2>1. row[h[w].b] \in Row
    BY <1>1, <1>4, BookingFacts DEF FailBooking, Knows
  <2>2. /\ [row[h[w].b] EXCEPT !.pay = "failed"].pay = "failed"
        /\ [row[h[w].b] EXCEPT !.pay = "failed"].cur = row[h[w].b].cur
    BY <2>1 DEF Row
  <2>3. QED
    BY <1>4, <2>2, AfterSaveThen, GoesTo DEF FailBooking
<1>5. ASSUME StampBooking(w)
      PROVE  Saves(h[w], h'[w]) \/ (h'[w] = Idle /\ row[h[w].b].pay = "paid")
  <2>1. row[h[w].b] \in Row
    BY <1>1, <1>5, BookingFacts DEF StampBooking, Knows
  <2>2. /\ [row[h[w].b] EXCEPT !.pay = "paid"].pay = "paid"
        /\ [row[h[w].b] EXCEPT !.pay = "paid"].cur = row[h[w].b].cur
    BY <2>1 DEF Row
  <2>3. QED
    BY <1>5, <2>2, AfterSaveThen, GoesTo DEF StampBooking
<1>6. QED
  BY <1>2, <1>3, <1>4, <1>5

\* Handler state y goes on from x, at a program counter that inserts nothing.
Proceeds(x, y) ==
  /\ SameJob(x, y) /\ y.e = x.e
  /\ y.pc \in {"record", "refused", "settle", "credit", "expire", "giveup", "reject", "fail",
               "approve", "stamp"}
  /\ x.pc = "inquire" /\ x.by = "cron" => bank[x.i] = "paid"
  /\ y.pc = "reject" => y.by = "refresh"

\* The last look found the outstanding payment still pending.
Looks(x, y) ==
  /\ x.pc = "look" /\ y.pc = "inquire" /\ y.b = x.b /\ y.by = x.by /\ y.e = x.e
  /\ y.i = x.e.cur /\ y.i # 0

\* The booking is saved, and the payment can be requested.
Inserted(x, y) ==
  /\ x.pc \in {"save", "write"} /\ x.to = "purchase"
  /\ SameJob(x, y) /\ y.pc = "purchase" /\ y.e = x.e

\* The select found columns to write.
Differs(x, y) ==
  /\ x.pc = "save" /\ y.pc = "write"
  /\ SameJob(x, y) /\ y.to = x.to /\ y.e = x.e

LEMMA AfterInquiry ==
  ASSUME FareInv, NEW w \in Handler
  PROVE  /\ InquiryPaid(w) => Proceeds(h[w], h'[w])
         /\ InquiryOpen(w) => \/ h'[w] = Idle
                              \/ h[w].by # "cron" /\ Proceeds(h[w], h'[w])
<1>1. h[w] \in HandlerRecord
  BY HandlerFacts
<1>2. ASSUME InquiryPaid(w) PROVE Proceeds(h[w], h'[w])
  <2>1. bank[h[w].i] = "paid"
    BY <1>2 DEF InquiryPaid, BankSaysPaid
  <2>2. PICK pc \in {"credit", "settle"} : h'[w] = [h[w] EXCEPT !.pc = pc, !.m = "cliq"]
    BY <1>2, GoesTo DEF InquiryPaid
  <2>3. h'[w].pc = pc /\ SameJob(h[w], h'[w]) /\ h'[w].e = h[w].e
    BY <1>1, <2>2 DEF HandlerRecord, SameJob
  <2>4. QED
    BY <2>1, <2>3 DEF Proceeds
<1>3. ASSUME InquiryOpen(w)
      PROVE  h'[w] = Idle \/ (h[w].by # "cron" /\ Proceeds(h[w], h'[w]))
  <2> DEFINE again == h[w].by = "poll" /\ h[w].k < Attempts
             refused == h[w].by = "refresh" /\ bank[h[w].i] = "refused"
  <2>1. Goto(w, CASE again -> Idle
                  [] ~again /\ h[w].by = "poll" -> [h[w] EXCEPT !.pc = "expire"]
                  [] h[w].by = "switch" -> [h[w] EXCEPT !.pc = "giveup"]
                  [] refused -> [h[w] EXCEPT !.pc = "reject"]
                  [] OTHER -> Idle)
    BY <1>3 DEF InquiryOpen
  <2>2. CASE again
    BY <2>1, <2>2, GoesTo
  <2>3. CASE ~again /\ h[w].by = "poll"
    <3>1. Goto(w, [h[w] EXCEPT !.pc = "expire"])
      BY <2>1, <2>3
    <3>2. QED
      BY <2>3, <3>1, AfterPc DEF Proceeds
  <2>4. CASE h[w].by = "switch"
    <3>1. Goto(w, [h[w] EXCEPT !.pc = "giveup"])
      BY <2>1, <2>4
    <3>2. QED
      BY <2>4, <3>1, AfterPc DEF Proceeds
  <2>5. CASE refused
    <3>1. Goto(w, [h[w] EXCEPT !.pc = "reject"])
      BY <2>1, <2>5
    <3>2. QED
      BY <2>5, <3>1, AfterPc DEF Proceeds, SameJob
  <2>6. CASE h[w].by \notin {"poll", "switch"} /\ ~refused
    BY <2>1, <2>6, GoesTo
  <2>7. QED
    BY <2>2, <2>3, <2>4, <2>5, <2>6
<1>4. QED
  BY <1>2, <1>3

LEMMA AfterPurchase ==
  ASSUME FareInv, NEW w \in Handler, Purchase(w)
  PROVE  Proceeds(h[w], h'[w]) /\ h'[w].pc \in {"record", "refused"}
<1>1. PICK pc \in {"record", "refused"} : Goto(w, [h[w] EXCEPT !.pc = pc])
  BY DEF Purchase
<1>2. h[w].pc = "purchase"
  BY DEF Purchase
<1>3. QED
  BY <1>1, <1>2, AfterPc DEF Proceeds

LEMMA AfterSettled ==
  ASSUME FareInv, NEW w \in Handler, h[w].pc = "settle", Settled(w)
  PROVE  h'[w] = Idle \/ Proceeds(h[w], h'[w])
<1>1. Goto(w, Idle) \/ Goto(w, [h[w] EXCEPT !.pc = "approve"])
  BY DEF Settled
<1>2. QED
  BY <1>1, AfterPc, GoesTo DEF Proceeds

LEMMA AfterLook ==
  ASSUME FareInv, NEW w \in Handler, Look(w)
  PROVE  Looks(h[w], h'[w]) \/ Saves(h[w], h'[w])
<1>1. h[w] \in HandlerRecord /\ h[w].e \in Row /\ h[w].pc = "look"
  BY HandlerFacts DEF HandlerRecord, Look
<1>2. CASE SaveThen(w, InCash(h[w].e), "idle")
  BY <1>1, <1>2, CashEntity, AfterSaveThen
<1>3. CASE h[w].e.cur # 0 /\ Goto(w, [h[w] EXCEPT !.pc = "inquire", !.i = h[w].e.cur])
  <2>1. h'[w] = [h[w] EXCEPT !.pc = "inquire", !.i = h[w].e.cur]
    BY <1>3, GoesTo
  <2>2. QED
    BY <1>1, <1>3, <2>1 DEF Looks, HandlerRecord
<1>4. QED
  BY <1>2, <1>3 DEF Look

\* Every statement of a handler, by what it leaves the handler with.
LEMMA Continues ==
  ASSUME FareInv, NEW w \in Handler, HandlerStep(w)
  PROVE  \/ h'[w] = Idle
         \/ Requests(w) /\ RequestCliq(w)
         \/ Saves(h[w], h'[w]) \/ Proceeds(h[w], h'[w]) \/ Looks(h[w], h'[w])
         \/ Inserted(h[w], h'[w]) \/ Differs(h[w], h'[w])
<1> DEFINE Goal == \/ h'[w] = Idle
                   \/ Requests(w) /\ RequestCliq(w)
                   \/ Saves(h[w], h'[w]) \/ Proceeds(h[w], h'[w]) \/ Looks(h[w], h'[w])
                   \/ Inserted(h[w], h'[w]) \/ Differs(h[w], h'[w])
<1>1. CASE SaveBooking(w)
  <2>1. h[w].pc = "save"
    BY <1>1 DEF SaveBooking
  <2>2. QED
    BY <1>1, <2>1, AfterSelect DEF Inserted, Differs
<1>2. CASE WriteBooking(w)
  <2>1. h[w].pc = "write" /\ Saved(w)
    BY <1>2 DEF WriteBooking
  <2>2. QED
    BY <2>1, AfterSaved DEF Inserted
<1>3. CASE RequestCliq(w)
  BY <1>3, AfterRequest
<1>4. CASE Purchase(w)
  BY <1>4, AfterPurchase
<1>5. CASE RecordPurchase(w) \/ RejectPayment(w)
  BY <1>5, GoesTo DEF RecordPurchase, RejectPayment
<1>6. CASE RefusePurchase(w) \/ GiveUp(w) \/ FailBooking(w) \/ StampBooking(w)
  BY <1>6, AfterSaves
<1>7. CASE InquiryPaid(w) \/ InquiryOpen(w)
  BY <1>7, AfterInquiry
<1>8. CASE ExpirePayment(w)
  <2>1. h[w].pc = "expire" /\ Goto(w, [h[w] EXCEPT !.pc = "fail"])
    BY <1>8 DEF ExpirePayment
  <2>2. QED
    BY <2>1, AfterPc DEF Proceeds
<1>9. CASE Settle(w)
  <2>1. h[w].pc = "settle" /\ (Settled(w) \/ Goto(w, Idle))
    BY <1>9 DEF Settle, SettleFails
  <2>2. QED
    BY <2>1, AfterSettled, GoesTo
<1>10. CASE ApprovePayment(w)
  <2>1. /\ h[w].pc = "approve"
        /\ Goto(w, Idle) \/ Goto(w, [h[w] EXCEPT !.pc = "stamp"])
    BY <1>10 DEF ApprovePayment
  <2>2. QED
    BY <2>1, AfterPc, GoesTo DEF Proceeds
<1>11. CASE CreditTopup(w)
  <2>1. h[w].pc = "credit" /\ Goto(w, [h[w] EXCEPT !.pc = "approve"])
    BY <1>11 DEF CreditTopup
  <2>2. QED
    BY <2>1, AfterPc DEF Proceeds
<1>12. CASE Look(w)
  BY <1>12, AfterLook
<1>13. QED
  BY <1>1, <1>2, <1>3, <1>4, <1>5, <1>6, <1>7, <1>8, <1>9, <1>10, <1>11, <1>12 DEF HandlerStep

\* Handler state y has just been started, for a call, a poll or the cron.
Started(y) ==
  \/ y = Idle
  \/ /\ y.pc \in {"settle", "request", "look"} /\ y.i = 0
     /\ y.by \in {"open", "rider", "switch"}
     /\ y.e.cur = 0 \/ (y.b \in Booking /\ y.e.cur = row[y.b].cur)
  \/ /\ y.pc = "save" /\ y.to = "idle" /\ y.i = 0 /\ y.by = "driver"
     /\ y.e.pay \in {"paid", "disputed"} /\ y.b \in Booking /\ y.e.cur = row[y.b].cur
  \/ /\ y.pc = "inquire" /\ y.e = NoRow /\ pstat[y.i] = "pending" /\ y.i \in Payment
     /\ y.by = "poll" => \E k \in 1..Attempts : <<y.i, k>> \in polls
     /\ y.by \in {"poll", "cron"} \/ (y.by = "refresh" /\ Desk)
  \/ /\ y.pc = "reject" /\ y.by = "admin" /\ y.e = NoRow /\ Desk
     /\ pstat[y.i] = "pending" /\ y.i \in Payment

LEMMA AfterStart ==
  ASSUME FareInv, NEW w \in Handler, Starts(w)
  PROVE  Started(h'[w])
<1>0. h \in [Handler -> HandlerRecord]
  BY HandlerFacts
<1>1. ASSUME NEW rec, Begin(w, rec) PROVE h'[w] = rec
  BY <1>0, <1>1 DEF Begin
<1>2. Idle.i = 0 /\ Idle.e = NoRow /\ NoRow.cur = 0
  BY DEF Idle, NoRow
<1>3. ASSUME NEW b \in Booking, OpenForTrip(w, b) PROVE Started(h'[w])
  <2>1. PICK pc \in {"settle", "request"} :
          h'[w] = [[Idle EXCEPT !.b = b, !.by = "open", !.m = row[b].method, !.e = row[b]]
                     EXCEPT !.pc = pc]
    BY <1>1, <1>3 DEF OpenForTrip
  <2>2. h'[w].pc = pc /\ h'[w].i = 0 /\ h'[w].by = "open" /\ h'[w].b = b /\ h'[w].e = row[b]
    BY <2>1 DEF Idle
  <2>3. QED
    BY <2>2 DEF Started
<1>4. ASSUME NEW b \in Booking, PayFromWallet(w, b) \/ RetryCliq(w, b) \/ SwitchToCash(w, b)
      PROVE  Started(h'[w])
  <2>1. /\ h'[w].pc \in {"settle", "request", "look"} /\ h'[w].i = 0 /\ h'[w].b = b
        /\ h'[w].by \in {"rider", "switch"}
        /\ h'[w].e = NoRow \/ h'[w].e = row[b]
    BY <1>1, <1>4 DEF PayFromWallet, RetryCliq, SwitchToCash, Idle
  <2>2. QED
    BY <1>2, <2>1 DEF Started
<1>5. ASSUME NEW b \in Booking, NEW received \in BOOLEAN, ConfirmCash(w, b, received)
      PROVE  Started(h'[w])
  <2>1. PICK pay \in {"paid", "disputed"} :
          h'[w] = [Idle EXCEPT !.pc = "save", !.b = b, !.by = "driver",
                               !.e = [row[b] EXCEPT !.pay = pay]]
    BY <1>1, <1>5 DEF ConfirmCash
  <2>2. /\ h'[w].pc = "save" /\ h'[w].to = "idle" /\ h'[w].i = 0 /\ h'[w].by = "driver"
        /\ h'[w].b = b /\ h'[w].e = [row[b] EXCEPT !.pay = pay]
    BY <2>1 DEF Idle
  <2>3. h'[w].e.pay = pay /\ h'[w].e.cur = row[b].cur
    BY <2>2, BookingFacts DEF Row
  <2>4. QED
    BY <2>2, <2>3 DEF Started
<1>6. ASSUME NEW i \in Payment, Recover(w, i) \/ RefreshStatus(w, i) \/ AdminRejects(w, i)
      PROVE  Started(h'[w])
  <2>1. /\ h'[w].e = NoRow /\ h'[w].i = i /\ pstat[i] = "pending"
        /\ \/ h'[w].pc = "inquire" /\ h'[w].by = "cron"
           \/ h'[w].pc = "inquire" /\ h'[w].by = "refresh" /\ Desk
           \/ h'[w].pc = "reject" /\ h'[w].by = "admin" /\ Desk
    BY <1>1, <1>6 DEF Recover, RefreshStatus, AdminRejects, Idle
  <2>2. QED
    BY <2>1 DEF Started
<1>7. ASSUME NEW i \in Payment, NEW k \in 1..Attempts, PollFires(w, i, k)
      PROVE  Started(h'[w])
  <2>1. <<i, k>> \in polls
    BY <1>7 DEF PollFires
  <2>2. \/ h'[w] = Idle
        \/ /\ h'[w].e = NoRow /\ h'[w].i = i /\ pstat[i] = "pending"
           /\ h'[w].pc = "inquire" /\ h'[w].by = "poll"
    BY <1>1, <1>7 DEF PollFires, Idle
  <2>3. QED
    BY <2>1, <2>2 DEF Started
<1>8. QED
  BY <1>3, <1>4, <1>5, <1>6, <1>7 DEF Starts, UserCall

-----------------------------------------------------------------------------
(* Who waits for whom *)

\* A handler in state x will see to payment i: it is about to send the request or to
\* schedule a poll, or it is the poll.
Watches(x, i) ==
  x.i = i /\ \/ Unsent(x)
             \/ x.pc \in {"record", "refused", "expire"}
             \/ x.pc = "inquire" /\ x.by = "poll"

Watched(i) == \/ bank[i] = "paid"
              \/ \E k \in 1..Attempts : <<i, k>> \in polls
              \/ \E w \in Handler : Watches(h[w], i)

PaymentsWatched == Flawless => \A i \in Payment : pstat[i] = "pending" => Watched(i)

\* A handler has a payment only after somebody inserted it, saves a booking as requested
\* only before it sends the request, and rejects only for the payments service.
KnowsMore(x) ==
  /\ x.i # 0 => Used(x.i)
  /\ x.pc \in {"save", "write"} /\ x.e.pay = "requested" => x.to = "purchase"
  /\ x.pc = "reject" => x.by \in {"refresh", "admin"}

MoreKnown == /\ \A w \in Handler : KnowsMore(h[w])
             /\ \A q \in polls : Used(q[1])

\* Before its first call no handler is the payments service's.
NoDesk == desk = MaxDesk => \A w \in Handler : h[w].by \notin {"refresh", "admin"}

\* A handler in state x saves the booking of the payment it has just inserted.
Inserting(x) == x.pc \in {"save", "write"} /\ x.to = "purchase"

\* Payment i is handler w's alone: pending, not polled for, named by no booking, read by no
\* other handler but the cron's, which finds nothing at the bank.
Fresh(w, i) ==
  /\ pstat[i] = "pending"
  /\ \A k \in 1..Attempts : <<i, k>> \notin polls
  /\ \A b \in Booking : row[b].cur # i
  /\ \A v \in Handler : v # w => /\ h[v].e.cur # i
                                 /\ h[v].i = i => h[v].pc = "inquire" /\ h[v].by = "cron"

AllFresh == desk = MaxDesk => \A w \in Handler : Inserting(h[w]) => Fresh(w, h[w].i)

\* A handler in state x takes booking b out of the status requested.
Closes(x, b) ==
  x.b = b /\ \/ x.pc = "save" /\ x.e.pay # "requested"
             \/ x.pc = "write" /\ "pay" \in x.dirty /\ x.e.pay # "requested"
             \/ x.pc \in {"fail", "stamp"}

StillOpen(b) == \E i \in Payment : pbook[i] = b /\ pstat[i] = "pending"

RequestsOpen ==
  Flawless /\ desk = MaxDesk =>
    \A b \in Booking :
      row[b].pay = "requested" => StillOpen(b) \/ \E w \in Handler : Closes(h[w], b)

Bounded == faults <= MaxFaults /\ desk <= MaxDesk

WatchInv == /\ FareInv /\ Bounded /\ PaymentsWatched /\ MoreKnown
            /\ NoDesk /\ AllFresh /\ RequestsOpen

\* The bounds on faults and on the desk, once touched, stay so.
LEMMA BoundedStep ==
  ASSUME FareInv, Bounded, [Next]_vars
  PROVE  /\ Bounded'
         /\ Flawless' => Flawless /\ faults' = faults
         /\ desk' = MaxDesk => desk = MaxDesk /\ desk' = desk
<1>1. faults \in Nat /\ desk \in Nat
  BY DEF FareInv, RowsOK, TablesTypeOK
<1>2. QED
  BY <1>1, BoundsFall DEF Bounded, Flawless

LEMMA BankStays ==
  ASSUME FareInv, [Next]_vars, NEW i \in Payment, bank[i] = "paid"
  PROVE  bank'[i] = "paid"
<1>1. bank \in [Payment -> {"none", "asked", "paid", "refused"}]
  BY DEF FareInv, RowsOK, TablesTypeOK
<1>2. ASSUME NEW w \in Handler, Purchase(w) PROVE bank'[i] = "paid"
  <2>1. bank[h[w].i] = "none"
    BY <1>2 DEF Purchase, FareInv, Distinct, Unsent
  <2>2. QED
    BY <1>1, <1>2, <2>1 DEF Purchase
<1>3. ASSUME NEW j \in Payment, BankAnswers(j) PROVE bank'[i] = "paid"
  BY <1>1, <1>3 DEF BankAnswers
<1>4. QED
  BY <1>2, <1>3, BankWritten

LEMMA PaymentsStay ==
  ASSUME FareInv, [Next]_vars, NEW i, Used(i)
  PROVE  Used(i)' /\ pbook'[i] = pbook[i]
<1>1. /\ pstat \in [Payment -> {"unused", "pending", "approved", "rejected"}]
      /\ pbook \in [Payment -> Booking \cup {NoBooking}]
  BY DEF FareInv, RowsOK, TablesTypeOK
<1>2. ASSUME NEW w \in Handler, RequestCliq(w) PROVE Used(i)' /\ pbook'[i] = pbook[i]
  BY <1>1, <1>2 DEF RequestCliq, NextPayment, Used, payments
<1>3. ASSUME NEW w \in Handler, RecordPurchase(w) PROVE Used(i)' /\ pbook'[i] = pbook[i]
  BY <1>1, <1>3 DEF RecordPurchase, Used
<1>4. ASSUME NEW w \in Handler,
             RefusePurchase(w) \/ ExpirePayment(w) \/ RejectPayment(w) \/ GiveUp(w)
      PROVE  Used(i)' /\ pbook'[i] = pbook[i]
  <2>1. pstat' = [pstat EXCEPT ![h[w].i] = "rejected"] /\ pbook' = pbook
    BY <1>4 DEF RefusePurchase, ExpirePayment, RejectPayment, GiveUp
  <2>2. QED
    BY <1>1, <2>1 DEF Used
<1>5. ASSUME NEW w \in Handler, ApprovePayment(w) PROVE Used(i)' /\ pbook'[i] = pbook[i]
  BY <1>1, <1>5 DEF ApprovePayment, Used
<1>6. CASE UNCHANGED payments
  BY <1>6 DEF payments, Used
<1>7. QED
  BY <1>2, <1>3, <1>4, <1>5, <1>6, StatusWritten

-----------------------------------------------------------------------------
(* Every pending payment is watched *)

\* A payment is pending because it was, or because it is new.
LEMMA PendingBefore ==
  ASSUME FareInv, [Next]_vars, NEW i \in Payment, pstat'[i] = "pending"
  PROVE  \/ pstat[i] = "pending"
         \/ \E w \in Handler : Requests(w) /\ h'[w].i = i
         \/ \E w \in Handler : RecordPurchase(w) /\ h[w].i = i
<1>1. pstat \in [Payment -> {"unused", "pending", "approved", "rejected"}]
  BY DEF FareInv, RowsOK, TablesTypeOK
<1>2. ASSUME NEW w \in Handler, RequestCliq(w)
      PROVE  pstat[i] = "pending" \/ (Requests(w) /\ h'[w].i = i)
  <2>1. CASE Requests(w)
    BY <1>1, <2>1 DEF Requests
  <2>2. CASE UNCHANGED payments
    BY <2>2 DEF payments
  <2>3. QED
    BY <1>2, <2>1, <2>2, AfterRequest
<1>3. ASSUME NEW w \in Handler, RecordPurchase(w) PROVE pstat[i] = "pending" \/ h[w].i = i
  BY <1>1, <1>3 DEF RecordPurchase
<1>4. ASSUME NEW w \in Handler,
             \/ RefusePurchase(w) \/ ExpirePayment(w) \/ RejectPayment(w) \/ GiveUp(w)
             \/ ApprovePayment(w)
      PROVE  pstat[i] = "pending"
  <2>1. \E st \in {"rejected", "approved"} : pstat' = [pstat EXCEPT ![h[w].i] = st]
    BY <1>4 DEF RefusePurchase, ExpirePayment, RejectPayment, GiveUp, ApprovePayment
  <2>2. QED
    BY <1>1, <2>1
<1>5. CASE UNCHANGED payments
  BY <1>5 DEF payments
<1>6. QED
  BY <1>2, <1>3, <1>4, <1>5, StatusWritten

\* A request recorded, and no failure to enqueue: its first poll is scheduled.
LEMMA RecordWatches ==
  ASSUME FareInv, NEW w \in Handler, RecordPurchase(w), faults' = faults
  PROVE  \E k \in 1..Attempts : <<h[w].i, k>> \in polls'
<1>1. faults \in Nat
  BY DEF FareInv, RowsOK, TablesTypeOK
<1>2. polls' = polls \cup {<<h[w].i, 1>>}
  BY <1>1 DEF RecordPurchase, SchedulePoll, Fault
<1>3. 1 \in 1..Attempts
  OBVIOUS
<1>4. QED
  BY <1>2, <1>3

\* The bank has confirmed the payment, the poll comes again, or it is the last.
LEMMA InquiryWatches ==
  ASSUME FareInv, NEW w \in Handler, NEW i \in Payment, h[w].i = i, h[w].by = "poll",
         InquiryPaid(w) \/ InquiryOpen(w), faults' = faults
  PROVE  \/ bank[i] = "paid"
         \/ \E k \in 1..Attempts : <<i, k>> \in polls'
         \/ h'[w].i = i /\ h'[w].pc = "expire"
<1>1. faults \in Nat /\ h[w].k \in 1..Attempts
  BY HandlerFacts DEF FareInv, RowsOK, TablesTypeOK, Knows
<1>2. CASE InquiryPaid(w)
  BY <1>2 DEF InquiryPaid, BankSaysPaid
<1>3. CASE InquiryOpen(w) /\ h[w].k < Attempts /\ bank[i] # "paid"
  <2>1. <<i, NextAttempt(h[w].k)>> \in polls'
    BY <1>1, <1>3 DEF InquiryOpen, BankSaysPaid, SchedulePoll, Fault
  <2>2. NextAttempt(h[w].k) \in 1..Attempts
    BY <1>1, <1>3 DEF NextAttempt
  <2>3. QED
    BY <2>1, <2>2
<1>4. CASE InquiryOpen(w) /\ ~(h[w].k < Attempts)
  <2>1. Goto(w, [h[w] EXCEPT !.pc = "expire"])
    BY <1>4 DEF InquiryOpen
  <2>2. QED
    BY <2>1, AfterPc DEF SameJob
<1>5. QED
  BY <1>2, <1>3, <1>4

\* A handler that sees to payment i goes on doing so, or has done it.
LEMMA WatcherSteps ==
  ASSUME FareInv, [Next]_vars, faults' = faults, NEW w \in Handler, NEW i \in Payment,
         Watches(h[w], i), pstat'[i] = "pending"
  PROVE  Watched(i)'
<1>0. h[w] \in HandlerRecord /\ faults \in Nat /\ h[w].i = i
  BY HandlerFacts DEF FareInv, RowsOK, TablesTypeOK, Watches
<1>1. CASE h'[w] = h[w]
  BY <1>1 DEF Watched, Watches, Unsent
<1>2. CASE HandlerStep(w)
  <2>1. ASSUME h[w].pc \in {"save", "write"}, h[w].to = "purchase" PROVE Watched(i)'
    <3>1. SaveBooking(w) \/ (WriteBooking(w) /\ Saved(w))
      BY <1>2, <2>1, NextStatement DEF WriteBooking
    <3>2. /\ h'[w].i = i
          /\ h'[w].pc = "purchase" \/ (h'[w].pc = "write" /\ h'[w].to = "purchase")
      BY <1>0, <2>1, <3>1, AfterSelect, AfterSaved DEF SameJob
    <3>3. QED
      BY <3>2 DEF Watched, Watches, Unsent
  <2>2. ASSUME h[w].pc = "purchase" PROVE Watched(i)'
    <3>1. Purchase(w)
      BY <1>2, <2>2, NextStatement
    <3>2. h'[w].i = i /\ h'[w].pc \in {"record", "refused"}
      BY <1>0, <3>1, AfterPurchase DEF Proceeds, SameJob
    <3>3. QED
      BY <3>2 DEF Watched, Watches
  <2>3. ASSUME h[w].pc = "record" PROVE Watched(i)'
    <3>1. RecordPurchase(w)
      BY <1>2, <2>3, NextStatement
    <3>2. QED
      BY <1>0, <3>1, RecordWatches DEF Watched
  <2>4. h[w].pc # "refused" /\ h[w].pc # "expire"
    <3>1. ASSUME h[w].pc \in {"refused", "expire"} PROVE FALSE
      <4>1. RefusePurchase(w) \/ ExpirePayment(w)
        BY <1>2, <3>1, NextStatement
      <4>2. pstat' = [pstat EXCEPT ![i] = "rejected"]
        BY <1>0, <4>1 DEF RefusePurchase, ExpirePayment
      <4>3. QED
        BY <4>2 DEF FareInv, RowsOK, TablesTypeOK
    <3>2. QED
      BY <3>1
  <2>5. ASSUME h[w].pc = "inquire", h[w].by = "poll" PROVE Watched(i)'
    <3>1. InquiryPaid(w) \/ InquiryOpen(w)
      BY <1>2, <2>5, NextStatement
    <3>2. \/ bank'[i] = "paid"
          \/ \E k \in 1..Attempts : <<i, k>> \in polls'
          \/ h'[w].i = i /\ h'[w].pc = "expire"
      BY <1>0, <2>5, <3>1, InquiryWatches, BankStays
    <3>3. QED
      BY <3>2 DEF Watched, Watches
  <2>6. QED
    BY <2>1, <2>2, <2>3, <2>4, <2>5 DEF Watches, Unsent
<1>3. h[w] # Idle
  BY DEF Watches, Unsent, Idle
<1>4. ~(faults' < faults)
  BY <1>0
<1>5. QED
  BY <1>1, <1>2, <1>3, <1>4, HandlerMoved

LEMMA WatchedStep ==
  ASSUME FareInv, Bounded, PaymentsWatched, [Next]_vars
  PROVE  PaymentsWatched'
<1> SUFFICES ASSUME Flawless', NEW i \in Payment, pstat'[i] = "pending"
             PROVE  Watched(i)'
  BY DEF PaymentsWatched
<1>1. Flawless /\ faults' = faults
  BY BoundedStep
<1>2. ASSUME NEW w \in Handler, Requests(w), h'[w].i = i PROVE Watched(i)'
  BY <1>2 DEF Requests, Watched, Watches, Unsent
<1>3. ASSUME NEW w \in Handler, RecordPurchase(w), h[w].i = i PROVE Watched(i)'
  BY <1>1, <1>3, RecordWatches DEF Watched
<1>4. CASE pstat[i] = "pending"
  <2>1. Watched(i)
    BY <1>1, <1>4 DEF PaymentsWatched
  <2>2. CASE bank[i] = "paid"
    BY <2>2, BankStays DEF Watched
  <2>3. ASSUME NEW k \in 1..Attempts, <<i, k>> \in polls PROVE Watched(i)'
    <3>1. CASE polls \subseteq polls'
      BY <2>3, <3>1 DEF Watched
    <3>2. ASSUME NEW w \in Handler, NEW j \in Payment, NEW l \in 1..Attempts,
                 PollFires(w, j, l)
          PROVE  Watched(i)'
      <4>1. CASE j = i
        <5>1. h'[w].i = i /\ h'[w].pc = "inquire" /\ h'[w].by = "poll"
          BY <1>4, <3>2, <4>1, HandlerFacts DEF PollFires, Begin, Idle
        <5>2. QED
          BY <5>1 DEF Watched, Watches
      <4>2. CASE j # i
        <5>1. <<i, k>> \in polls'
          BY <2>3, <3>2, <4>2 DEF PollFires
        <5>2. QED
          BY <5>1 DEF Watched
      <4>3. QED
        BY <4>1, <4>2
    <3>3. QED
      BY <3>1, <3>2, PollsMoved
  <2>4. ASSUME NEW w \in Handler, Watches(h[w], i) PROVE Watched(i)'
    BY <1>1, <2>4, WatcherSteps
  <2>5. QED
    BY <2>1, <2>2, <2>3, <2>4 DEF Watched
<1>5. QED
  BY <1>2, <1>3, <1>4, PendingBefore

-----------------------------------------------------------------------------
(* A request to pay is one handler's until it is sent *)

LEMMA KnowsMoreStep ==
  ASSUME FareInv, MoreKnown, [Next]_vars, NEW w \in Handler
  PROVE  KnowsMore(h[w])'
<1>1. h[w] \in HandlerRecord /\ Knows(h[w]) /\ KnowsMore(h[w])
  BY HandlerFacts DEF MoreKnown
<1>2. \A i \in Payment : pstat[i] # "unused" => pstat'[i] # "unused"
  BY PaymentsStay DEF Used
<1>3. CASE h'[w] = Idle
  BY <1>3 DEF KnowsMore, Idle
<1>4. ASSUME h'[w].i = h[w].i \/ h'[w].i = h[w].e.cur \/ h'[w].i = 0,
             h'[w].pc \notin {"save", "write"} \/ h'[w].e.pay # "requested"
                \/ h'[w].to = "purchase",
             h'[w].pc = "reject" => h'[w].by \in {"refresh", "admin"}
      PROVE  KnowsMore(h[w])'
  <2>1. h'[w].i # 0 => h'[w].i \in Payment /\ pstat[h'[w].i] # "unused"
    BY <1>1, <1>4 DEF Knows, KnowsMore, Used
  <2>2. QED
    BY <1>4, <1>2, <2>1 DEF KnowsMore, Used
<1>5. CASE h'[w] = h[w]
  BY <1>1, <1>4, <1>5 DEF KnowsMore
<1>6. CASE HandlerStep(w)
  <2>1. CASE Requests(w)
    <3>1. h'[w].i \in Payment /\ pstat'[h'[w].i] = "pending"
      BY <2>1 DEF Requests, NextPayment, FareInv, RowsOK, TablesTypeOK
    <3>2. QED
      BY <2>1, <3>1 DEF Requests, KnowsMore, Used
  <2>2. CASE Saves(h[w], h'[w])
    BY <1>4, <2>2 DEF Saves, SameJob
  <2>3. CASE Proceeds(h[w], h'[w])
    BY <1>4, <2>3 DEF Proceeds, SameJob
  <2>4. CASE Looks(h[w], h'[w])
    BY <1>4, <2>4 DEF Looks
  <2>5. CASE Inserted(h[w], h'[w])
    BY <1>4, <2>5 DEF Inserted, SameJob
  <2>6. CASE Differs(h[w], h'[w])
    BY <1>1, <1>4, <2>6 DEF Differs, SameJob, KnowsMore
  <2>7. QED
    BY <1>3, <1>6, <2>1, <2>2, <2>3, <2>4, <2>5, <2>6, Continues
<1>7. CASE Starts(w)
  <2>1. Started(h'[w])
    BY <1>7, AfterStart
  <2>2. /\ h'[w].i # 0 => h'[w].i \in Payment /\ pstat[h'[w].i] # "unused"
        /\ h'[w].pc \in {"save", "write"} => h'[w].e.pay # "requested"
        /\ h'[w].pc = "reject" => h'[w].by \in {"refresh", "admin"}
    BY <2>1 DEF Started, Idle
  <2>3. QED
    BY <1>2, <2>2 DEF KnowsMore, Used
<1>8. QED
  BY <1>3, <1>5, <1>6, <1>7, HandlerMoved

LEMMA MoreKnownStep ==
  ASSUME FareInv, MoreKnown, [Next]_vars
  PROVE  MoreKnown'
<1>1. ASSUME NEW q \in Payment \X (1..Attempts), q \in polls' PROVE Used(q[1])'
  <2>1. Used(q[1])
    <3>1. CASE q \in polls
      BY <3>1 DEF MoreKnown
    <3>2. ASSUME NEW w \in Handler, q[1] = h[w].i, h[w].pc = "record" \/ h[w].by = "poll"
          PROVE  Used(q[1])
      <4>1. Used(h[w].i) \/ (h[w].i \in Payment /\ KnowsMore(h[w]))
        BY <3>2, HandlerFacts DEF Knows, ActsOnPayment, MoreKnown
      <4>2. QED
        BY <3>2, <4>1 DEF KnowsMore, Payment
    <3>3. QED
      BY <1>1, <3>1, <3>2, PollAdded
  <2>2. QED
    BY <2>1, PaymentsStay
<1>2. polls' \subseteq Payment \X (1..Attempts)
  BY FareStep DEF FareInv, RowsOK, TablesTypeOK
<1>3. QED
  BY <1>1, <1>2, KnowsMoreStep DEF MoreKnown

\* Only a call of the payments service brings in its handlers.
LEMMA NoDeskStep ==
  ASSUME FareInv, Bounded, NoDesk, [Next]_vars
  PROVE  NoDesk'
<1> SUFFICES ASSUME desk' = MaxDesk, NEW w \in Handler
             PROVE  h'[w].by \notin {"refresh", "admin"}
  BY DEF NoDesk
<1>1. h[w].by \notin {"refresh", "admin"} /\ desk' = desk
  BY BoundedStep DEF NoDesk
<1>2. CASE h'[w] = Idle
  BY <1>2 DEF Idle
<1>3. CASE HandlerStep(w)
  BY <1>1, <1>2, <1>3, Continues DEF Requests, Saves, Proceeds, Looks, Inserted, Differs, SameJob
<1>4. CASE Starts(w)
  <2>1. ~Desk
    BY <1>1 DEF Desk, FareInv, RowsOK, TablesTypeOK
  <2>2. Started(h'[w])
    BY <1>4, AfterStart
  <2>3. QED
    BY <2>1, <2>2, <1>2 DEF Started
<1>5. QED
  BY <1>1, <1>2, <1>3, <1>4, HandlerMoved

\* The payment a handler has just inserted is new to everyone else.
LEMMA InsertedFresh ==
  ASSUME FareInv, MoreKnown, NEW w \in Handler, RequestCliq(w), Requests(w)
  PROVE  Fresh(w, h[w].i)'
<1> SUFFICES ASSUME NEW i, i = h'[w].i
             PROVE  Fresh(w, i)'
  BY DEF Fresh
<1>1. i \in Payment /\ ~Used(i) /\ i # 0
  BY DEF Requests, NextPayment, Used, Payment
<1>2. pstat'[i] = "pending"
  BY <1>1 DEF Requests, FareInv, RowsOK, TablesTypeOK
<1>3. \A k \in 1..Attempts : <<i, k>> \notin polls'
  <2>1. polls' = polls
    BY DEF RequestCliq
  <2>2. ASSUME NEW k \in 1..Attempts, <<i, k>> \in polls PROVE FALSE
    BY <1>1, <2>2 DEF MoreKnown
  <2>3. QED
    BY <2>1, <2>2
<1>4. \A b \in Booking : row'[b].cur # i
  BY <1>1, BookingFacts DEF RequestCliq
<1>5. ASSUME NEW v \in Handler, v # w PROVE h'[v].e.cur # i /\ h'[v].i # i
  <2>1. h'[v] = h[v]
    BY <1>5, HandlerFacts DEF RequestCliq, SaveThen, Goto
  <2>2. Knows(h[v]) /\ KnowsMore(h[v])
    BY HandlerFacts DEF MoreKnown
  <2>3. QED
    BY <1>1, <2>1, <2>2 DEF Knows, KnowsMore
<1>6. QED
  BY <1>2, <1>3, <1>4, <1>5 DEF Fresh

\* Nobody but handler w moves on with w's payment.
LEMMA OthersKeepOff ==
  ASSUME FareInv, Bounded, [Next]_vars, desk' = desk, NEW w \in Handler, NEW i \in Payment,
         h[w].i = i, Inserting(h[w]), Fresh(w, i), NEW v \in Handler, v # w
  PROVE  h'[v].e.cur # i /\ (h'[v].i = i => h'[v].pc = "inquire" /\ h'[v].by = "cron")
<1>1. /\ h[v].e.cur # i /\ (h[v].i = i => h[v].pc = "inquire" /\ h[v].by = "cron")
      /\ \A b \in Booking : row[b].cur # i
      /\ pstat[i] = "pending" /\ i # 0
  BY DEF Fresh, Payment
<1>2. CASE h'[v] = Idle
  BY <1>1, <1>2 DEF Idle, NoRow
<1>3. CASE HandlerStep(v)
  <2>1. CASE Requests(v)
    BY <1>1, <2>1 DEF Requests, NextPayment
  <2>2. CASE Saves(h[v], h'[v])
    <3>1. h[v].pc # "idle"
      BY <1>3, NextStatement
    <3>2. h[v].b \in Booking
      BY <3>1, HandlerFacts DEF Knows
    <3>3. h[v].pc # "inquire"
      <4>1. ASSUME h[v].pc = "inquire" PROVE FALSE
        <5>1. InquiryPaid(v) \/ InquiryOpen(v)
          BY <1>3, <4>1, NextStatement
        <5>2. Proceeds(h[v], h'[v]) \/ h'[v] = Idle
          BY <5>1, AfterInquiry
        <5>3. QED
          BY <2>2, <5>2 DEF Saves, Proceeds, Idle
      <4>2. QED
        BY <4>1
    <3>4. QED
      BY <1>1, <2>2, <3>2, <3>3 DEF Saves, SameJob
  <2>3. CASE Proceeds(h[v], h'[v])
    <3>1. bank[i] = "none"
      BY DEF FareInv, Distinct, Inserting, Unsent
    <3>2. QED
      BY <1>1, <2>3, <3>1 DEF Proceeds, SameJob
  <2>4. CASE Looks(h[v], h'[v])
    BY <1>1, <2>4 DEF Looks
  <2>5. CASE Inserted(h[v], h'[v])
    BY <1>1, <2>5 DEF Inserted, SameJob
  <2>6. CASE Differs(h[v], h'[v])
    BY <1>1, <2>6 DEF Differs, SameJob
  <2>7. QED
    BY <1>2, <1>3, <2>1, <2>2, <2>3, <2>4, <2>5, <2>6, Continues
<1>4. CASE Starts(v)
  <2>1. Started(h'[v]) /\ ~Desk
    BY <1>4, AfterStart DEF Desk, FareInv, RowsOK, TablesTypeOK
  <2>2. \A k \in 1..Attempts : <<i, k>> \notin polls
    BY DEF Fresh
  <2>3. NoRow.cur = 0
    BY DEF NoRow
  <2>4. QED
    BY <1>1, <1>2, <2>1, <2>2, <2>3 DEF Started
<1>5. QED
  BY <1>1, <1>2, <1>3, <1>4, HandlerMoved

LEMMA StaysFresh ==
  ASSUME FareInv, Bounded, [Next]_vars, desk' = desk, NEW w \in Handler, NEW i \in Payment,
         h[w].i = i, Inserting(h[w]), Fresh(w, i), Inserting(h'[w])
  PROVE  Fresh(w, i)'
<1>1. /\ pstat[i] = "pending" /\ h[w].pc \in {"save", "write"}
      /\ pstat \in [Payment -> {"unused", "pending", "approved", "rejected"}]
  BY DEF Fresh, Inserting, FareInv, RowsOK, TablesTypeOK
<1>2. ASSUME NEW v \in Handler, h[v].i = i PROVE h[v].pc \in {"save", "write", "inquire"}
  BY <1>1, <1>2 DEF Fresh
<1>3. pstat'[i] = "pending"
  <2>1. ASSUME NEW v \in Handler, RequestCliq(v) PROVE pstat'[i] = "pending"
    BY <1>1, <2>1 DEF RequestCliq, payments
  <2>2. ASSUME NEW v \in Handler,
               \/ RecordPurchase(v) \/ RefusePurchase(v) \/ ExpirePayment(v)
               \/ ApprovePayment(v) \/ RejectPayment(v) \/ GiveUp(v)
        PROVE  pstat'[i] = "pending"
    <3>1. \E st : pstat' = [pstat EXCEPT ![h[v].i] = st]
      BY <2>2 DEF RecordPurchase, RefusePurchase, ExpirePayment, ApprovePayment,
        RejectPayment, GiveUp
    <3>2. h[v].pc \notin {"save", "write", "inquire"}
      BY <2>2 DEF RecordPurchase, RefusePurchase, ExpirePayment, ApprovePayment,
        RejectPayment, GiveUp
    <3>3. QED
      BY <1>1, <1>2, <3>1, <3>2
  <2>3. QED
    BY <1>1, <2>1, <2>2, StatusWritten DEF payments
<1>4. ASSUME NEW k \in 1..Attempts, <<i, k>> \in polls' PROVE FALSE
  <2>1. <<i, k>> \notin polls
    BY DEF Fresh
  <2>2. PICK v \in Handler : /\ i = h[v].i
                             /\ h[v].pc = "record" \/ h[v].by = "poll"
                             /\ h[v].pc \in {"record", "inquire", "settle"} \/ Abort(v)
    BY <1>4, <2>1, PollAdded
  <2>3. v = w
    BY <2>2 DEF Fresh
  <2>4. Abort(w)
    BY <1>1, <2>2, <2>3
  <2>5. h'[w] = Idle
    BY <2>4, GoesTo DEF Abort
  <2>6. QED
    BY <2>5 DEF Inserting, Idle
<1>5. ASSUME NEW b \in Booking PROVE row'[b].cur # i
  <2>1. row \in [Booking -> Row] /\ row[b].cur # i
    BY DEF FareInv, RowsOK, TablesTypeOK, Fresh
  <2>2. ASSUME NEW v \in Handler, WriteBooking(v) PROVE row'[b].cur # i
    <3>1. v # w
      <4>1. ASSUME WriteBooking(w) PROVE ~Inserting(h'[w])
        <5>1. Saved(w)
          BY <4>1 DEF WriteBooking
        <5>2. QED
          BY <5>1, AfterSaved DEF Inserting, Idle
      <4>2. QED
        BY <2>2, <4>1
    <3>2. h[v].e.cur # i
      BY <3>1 DEF Fresh
    <3>3. row'[b] = row[b] \/ row'[b].cur = h[v].e.cur \/ row'[b].cur = row[b].cur
      BY <2>1, <2>2 DEF WriteBooking, Row
    <3>4. QED
      BY <2>1, <3>2, <3>3
  <2>3. ASSUME NEW v \in Handler, Settle(v) PROVE row'[b].cur # i
    BY <2>1, <2>3 DEF Settle, SettleFails, Row
  <2>4. QED
    BY <2>1, <2>2, <2>3, RowWritten
<1>6. QED
  BY <1>3, <1>4, <1>5, OthersKeepOff DEF Fresh

LEMMA FreshStep ==
  ASSUME FareInv, Bounded, MoreKnown, AllFresh, [Next]_vars
  PROVE  AllFresh'
<1> SUFFICES ASSUME desk' = MaxDesk, NEW w \in Handler, Inserting(h'[w])
             PROVE  Fresh(w, h[w].i)'
  BY DEF AllFresh, Inserting
<1>1. desk = MaxDesk /\ desk' = desk
  BY BoundedStep
<1>2. ASSUME Inserting(h[w]), h'[w].i = h[w].i PROVE Fresh(w, h[w].i)'
  <2>1. h[w].i \in Payment /\ Fresh(w, h[w].i)
    BY <1>1, <1>2, HandlerFacts DEF AllFresh, Knows, Inserting, Unsent, Used
  <2>2. \A i \in Payment : h[w].i = i /\ Fresh(w, i) => Fresh(w, i)'
    BY <1>1, <1>2, StaysFresh
  <2>3. PICK i \in Payment : h[w].i = i
    BY <2>1
  <2>4. Fresh(w, i)' /\ h'[w].i = i
    BY <1>2, <2>1, <2>2, <2>3
  <2>5. QED
    BY <2>4 DEF Fresh
<1>3. CASE HandlerStep(w)
  <2>1. CASE Requests(w) /\ RequestCliq(w)
    BY <2>1, InsertedFresh
  <2>2. CASE Differs(h[w], h'[w])
    BY <1>2, <2>2 DEF Differs, SameJob, Inserting
  <2>3. QED
    BY <1>3, <2>1, <2>2, Continues DEF Inserting, Saves, Proceeds, Looks, Inserted, Idle
<1>4. CASE Starts(w)
  BY <1>4, AfterStart DEF Started, Inserting, Idle
<1>5. CASE h'[w] = h[w]
  BY <1>2, <1>5 DEF Inserting
<1>6. h'[w] # Idle
  BY DEF Inserting, Idle
<1>7. QED
  BY <1>3, <1>4, <1>5, <1>6, HandlerMoved

-----------------------------------------------------------------------------
(* A booking that waits for the bank has an open payment *)

\* Whoever ends the last payment of a booking tells the booking.
LEMMA PaymentEnded ==
  ASSUME WatchInv, [Next]_vars, desk = MaxDesk, NEW b \in Booking, StillOpen(b)
  PROVE  StillOpen(b)' \/ \E w \in Handler : Closes(h'[w], b)
<1>0. PICK i \in Payment : pbook[i] = b /\ pstat[i] = "pending"
  BY DEF StillOpen
<1>1. /\ FareInv /\ pbook'[i] = b
      /\ pstat \in [Payment -> {"unused", "pending", "approved", "rejected"}]
  BY <1>0, PaymentsStay DEF Used, WatchInv, FareInv, RowsOK, TablesTypeOK
<1>2. CASE pstat'[i] = "pending"
  BY <1>1, <1>2 DEF StillOpen
<1>3. ASSUME NEW w \in Handler, h[w].i = i, h[w].pc \in ActsOnPayment \cup {"approve"}
      PROVE  h[w].b = b /\ h[w].by \notin {"refresh", "admin"}
  BY <1>0, <1>1, <1>3, HandlerFacts DEF Knows, WatchInv, NoDesk
<1>4. ASSUME NEW w \in Handler, h[w].i = i, RefusePurchase(w) \/ GiveUp(w)
      PROVE  Closes(h'[w], b)
  <2>1. h[w].b = b
    BY <1>3, <1>4 DEF RefusePurchase, GiveUp, ActsOnPayment
  <2>2. Saves(h[w], h'[w])
    BY <1>1, <1>4, AfterSaves
  <2>3. QED
    BY <2>1, <2>2 DEF Saves, SameJob, Closes
<1>5. ASSUME NEW w \in Handler, h[w].i = i, ExpirePayment(w) PROVE Closes(h'[w], b)
  <2>1. h[w].b = b /\ Goto(w, [h[w] EXCEPT !.pc = "fail"])
    BY <1>3, <1>5 DEF ExpirePayment, ActsOnPayment
  <2>2. QED
    BY <1>1, <2>1, AfterPc DEF SameJob, Closes
<1>6. ASSUME NEW w \in Handler, h[w].i = i, ApprovePayment(w) PROVE Closes(h'[w], b)
  <2>1. h[w].b = b /\ Goto(w, [h[w] EXCEPT !.pc = "stamp"])
    BY <1>3, <1>6 DEF ApprovePayment
  <2>2. QED
    BY <1>1, <2>1, AfterPc DEF SameJob, Closes
<1>7. ASSUME NEW w \in Handler, h[w].i = i, RejectPayment(w) PROVE FALSE
  <2>1. h[w].pc = "reject"
    BY <1>7 DEF RejectPayment
  <2>2. h[w].by \in {"refresh", "admin"}
    BY <2>1 DEF WatchInv, MoreKnown, KnowsMore
  <2>3. QED
    BY <1>3, <1>7, <2>1, <2>2 DEF ActsOnPayment
<1>8. ASSUME NEW w \in Handler,
             \/ RequestCliq(w) \/ RecordPurchase(w)
             \/ /\ h[w].i # i
                /\ \/ RefusePurchase(w) \/ ExpirePayment(w) \/ ApprovePayment(w)
                   \/ RejectPayment(w) \/ GiveUp(w)
      PROVE  pstat'[i] = "pending"
  <2>1. CASE RequestCliq(w)
    BY <1>0, <1>1, <2>1 DEF RequestCliq, payments
  <2>2. CASE RecordPurchase(w)
    BY <1>0, <1>1, <2>2 DEF RecordPurchase
  <2>3. ASSUME h[w].i # i, \/ RefusePurchase(w) \/ ExpirePayment(w) \/ ApprovePayment(w)
                           \/ RejectPayment(w) \/ GiveUp(w)
        PROVE  pstat'[i] = "pending"
    <3>1. \E st : pstat' = [pstat EXCEPT ![h[w].i] = st]
      BY <2>3 DEF RefusePurchase, ExpirePayment, ApprovePayment, RejectPayment, GiveUp
    <3>2. QED
      BY <1>0, <1>1, <2>3, <3>1
  <2>4. QED
    BY <1>8, <2>1, <2>2, <2>3
<1>9. CASE UNCHANGED payments
  BY <1>0, <1>2, <1>9 DEF payments
<1>10. QED
  BY <1>2, <1>4, <1>5, <1>6, <1>7, <1>8, <1>9, StatusWritten

\* A handler that takes the booking out of the status requested goes on until it has.
LEMMA CloserSteps ==
  ASSUME FareInv, [Next]_vars, faults' = faults, NEW b \in Booking, NEW w \in Handler,
         Closes(h[w], b), row[b].pay = "requested", row'[b].pay = "requested"
  PROVE  Closes(h'[w], b)
<1>1. h[w] \in HandlerRecord /\ h[w].b = b /\ faults \in Nat
  BY HandlerFacts DEF Closes, FareInv, RowsOK, TablesTypeOK
<1>2. CASE HandlerStep(w)
  <2>1. ASSUME h[w].pc = "save", h[w].e.pay # "requested" PROVE Closes(h'[w], b)
    <3>1. SaveBooking(w)
      BY <1>2, <2>1, NextStatement
    <3>2. QED
      BY <1>1, <2>1, <3>1, AfterSelect DEF SameJob, Closes
  <2>2. ASSUME h[w].pc = "write", "pay" \in h[w].dirty, h[w].e.pay # "requested" PROVE FALSE
    <3>1. WriteBooking(w)
      BY <1>2, <2>2, NextStatement
    <3>2. row'[b].pay = h[w].e["pay"]
      BY <1>1, <2>2, <3>1 DEF WriteBooking, FareInv, RowsOK, TablesTypeOK
    <3>3. QED
      BY <2>2, <3>2
  <2>3. ASSUME h[w].pc \in {"fail", "stamp"} PROVE Closes(h'[w], b)
    <3>1. FailBooking(w) \/ StampBooking(w)
      BY <1>2, <2>3, NextStatement
    <3>2. Saves(h[w], h'[w])
      BY <1>1, <3>1, AfterSaves
    <3>3. QED
      BY <1>1, <3>2 DEF Saves, SameJob, Closes
  <2>4. QED
    BY <2>1, <2>2, <2>3 DEF Closes
<1>3. h[w] # Idle
  BY DEF Closes, Idle
<1>4. ~(faults' < faults)
  BY <1>1
<1>5. QED
  BY <1>2, <1>3, <1>4, HandlerMoved

\* Only the handler of a new request makes its booking requested.
LEMMA NewlyRequested ==
  ASSUME WatchInv, [Next]_vars, desk = MaxDesk, NEW b \in Booking,
         row[b].pay # "requested", row'[b].pay = "requested"
  PROVE  StillOpen(b)'
<1>1. row \in [Booking -> Row] /\ FareInv
  BY DEF WatchInv, FareInv, RowsOK, TablesTypeOK
<1>2. ASSUME NEW w \in Handler, Settle(w) PROVE FALSE
  BY <1>1, <1>2 DEF Settle, SettleFails, Row
<1>3. ASSUME NEW w \in Handler, WriteBooking(w) PROVE StillOpen(b)'
  <2>1. h[w].b = b /\ h[w].e["pay"] = "requested"
    BY <1>1, <1>3 DEF WriteBooking, Row
  <2>2. h[w].pc = "write" /\ UNCHANGED payments
    BY <1>3 DEF WriteBooking
  <2>3. Inserting(h[w])
    BY <2>1, <2>2 DEF Inserting, WatchInv, MoreKnown, KnowsMore
  <2>4. h[w].i \in Payment /\ pbook[h[w].i] = b
    BY <1>1, <2>1, <2>3, HandlerFacts DEF Inserting, Unsent, Knows, Used
  <2>5. pstat[h[w].i] = "pending"
    BY <2>3 DEF WatchInv, AllFresh, Fresh
  <2>6. QED
    BY <2>2, <2>4, <2>5 DEF StillOpen, payments
<1>4. QED
  BY <1>2, <1>3, RowWritten

LEMMA RequestsOpenStep ==
  ASSUME WatchInv, [Next]_vars
  PROVE  RequestsOpen'
<1> SUFFICES ASSUME Flawless', desk' = MaxDesk, NEW b \in Booking, row'[b].pay = "requested"
             PROVE  StillOpen(b)' \/ \E w \in Handler : Closes(h'[w], b)
  BY DEF RequestsOpen, Closes
<1>1. FareInv /\ Flawless /\ faults' = faults /\ desk = MaxDesk
  BY BoundedStep DEF WatchInv
<1>2. CASE row[b].pay # "requested"
  BY <1>1, <1>2, NewlyRequested
<1>3. CASE row[b].pay = "requested"
  <2>1. StillOpen(b) \/ \E w \in Handler : Closes(h[w], b)
    BY <1>1, <1>3 DEF WatchInv, RequestsOpen
  <2>2. QED
    BY <1>1, <1>3, <2>1, PaymentEnded, CloserSteps
<1>4. QED
  BY <1>2, <1>3

-----------------------------------------------------------------------------
(* Nothing waits in vain *)

LEMMA WatchInit == Init => WatchInv
<1> SUFFICES ASSUME Init PROVE WatchInv
  OBVIOUS
<1>1. FareInv
  BY FareInit
<1>2. \A w \in Handler : h[w] = Idle
  BY DEF Init
<1>3. Bounded
  BY DEF Init, Bounded
<1>4. PaymentsWatched
  BY DEF Init, PaymentsWatched
<1>5. MoreKnown
  BY <1>2 DEF Init, MoreKnown, KnowsMore, Idle
<1>6. NoDesk
  BY <1>2 DEF NoDesk, Idle
<1>7. AllFresh
  BY <1>2 DEF AllFresh, Inserting, Idle
<1>8. RequestsOpen
  BY DEF Init, RequestsOpen, NoRow
<1>9. QED
  BY <1>1, <1>3, <1>4, <1>5, <1>6, <1>7, <1>8 DEF WatchInv

LEMMA WatchStep == WatchInv /\ [Next]_vars => WatchInv'
<1> SUFFICES ASSUME WatchInv, [Next]_vars PROVE WatchInv'
  OBVIOUS
<1>1. FareInv' /\ Bounded'
  BY FareStep, BoundedStep DEF WatchInv
<1>2. PaymentsWatched' /\ RequestsOpen'
  BY WatchedStep, RequestsOpenStep DEF WatchInv
<1>3. MoreKnown' /\ NoDesk' /\ AllFresh'
  BY MoreKnownStep, NoDeskStep, FreshStep DEF WatchInv
<1>4. QED
  BY <1>1, <1>2, <1>3 DEF WatchInv

\* Whoever requests, polls, refuses, gives up or settles a payment, WatchInv holds: it is
\* inductive.
THEOREM WatchInvariant == Spec => []WatchInv
<1>1. Init => WatchInv
  BY WatchInit
<1>2. WatchInv /\ [Next]_vars => WatchInv'
  BY WatchStep
<1>3. QED
  BY <1>1, <1>2, PTL DEF Spec

\* Unless an enqueue or a handler failed, a pending payment has a poll in the queue
\* whenever no handler is in flight, or the bank has confirmed it: pollCliq schedules the
\* next poll, and the last one does not leave the payment pending.
THEOREM PendingWatched == Spec => []PendingIsWatched
<1>1. WatchInv => PendingIsWatched
  BY DEF WatchInv, PaymentsWatched, Watched, Watches, Unsent, PendingIsWatched, Quiet, Idle
<1>2. QED
  BY <1>1, WatchInvariant, PTL

\* Unless a handler failed or the payments service took a hand, a booking that shows
\* requested when no handler is in flight has a payment that is still pending: whoever ends
\* that payment (the refused purchase, the last poll, onCliqPaid, the switch to cash) also
\* writes the booking, and no stale save brings requested back.
THEOREM RequestedStillOpen == Spec => []RequestedIsOpen
<1>1. WatchInv => RequestedIsOpen
  BY DEF WatchInv, RequestsOpen, StillOpen, Closes, RequestedIsOpen, Quiet, Idle
<1>2. QED
  BY <1>1, WatchInvariant, PTL
=============================================================================
