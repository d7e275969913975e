-------------------------- MODULE WalletLedgerProofs --------------------------
(***************************************************************************)
(* Theorems of WalletLedger, for any number of trips, payouts, charges and *)
(* handlers, any amounts and any number of postings, decisions and faults. *)
(*                                                                         *)
(* LedgerInv joins the types to what a handler relies on (Knows): that the *)
(* trip it charges is completed, that the trip it settles was charged, and *)
(* that the charge it is about to stamp as applied was paid for.  None of  *)
(* that is ever taken back (Stays), so stale saves do no harm to it.       *)
(***************************************************************************)
EXTENDS WalletLedger, TLAPS

HandlerRecord ==
  [pc : {"idle", "move", "charge", "settle", "deduct", "stamp", "reason"},
   x : {Nothing} \cup Trip \cup Charge,
   to : {"idle", "recharge", "settle", "reason"} \cup DriverAccount, st : ChargeStatus]

\* What a handler in state x has learnt and relies on.
Knows(x) ==
  /\ x.pc = "move" => x.to \in DriverAccount /\ welcome # "none"
  /\ x.pc = "charge" => /\ x.x \in Trip /\ trip[x.x] = "completed"
                        /\ x.to \in {"idle", "recharge", "settle"}
  /\ x.pc = "settle" => x.x \in Trip /\ charged[x.x] /\ x.to = "settle"
  /\ x.pc \in {"deduct", "stamp", "reason"} => x.x \in Charge /\ x.to \in {"idle", "reason"}
  /\ x.pc \in {"deduct", "stamp", "reason"} /\ x.st = "applied" => taken[x.x] > 0

\* The rows and bounds keep their types.
RowsOK ==
  /\ bal \in [Account -> Int] /\ reserved \in Nat
  /\ entries \in [Account -> Nat] /\ recharge \in BOOLEAN
  /\ welcome \in DriverAccount \cup {"none"} /\ moved \in DriverAccount \cup {"none"}
  /\ trip \in [Trip -> {"riding", "completed"}] /\ charged \in [Trip -> BOOLEAN]
  /\ method \in [Trip -> {"wallet", "cliq"}] /\ discount \in [Trip -> {0, 1}]
  /\ paid \in [Trip -> BOOLEAN]
  /\ payout \in [Payout -> [st : PayoutStatus, amt : Nat]]
  /\ charge \in [Charge -> ChargeStatus] /\ taken \in [Charge -> Nat]
  /\ extra \in [Account -> Int]
  /\ postings \in 0..MaxPostings /\ desk \in 0..MaxDesk /\ faults \in 0..MaxFaults

HandlersOK ==
  /\ h \in [Handler -> HandlerRecord]
  /\ \A w \in Handler : Knows(h[w])

LedgerInv ==
  RowsOK /\ HandlersOK /\ SettledIsCharged /\ AppliedIsDeducted /\ RiderNeverOwes

USE LedgerAssumption DEF LedgerAssumption

-----------------------------------------------------------------------------
(* What a step may never take back, and who moves *)

Stays ==
  /\ welcome # "none" => welcome' # "none"
  /\ \A t \in Trip : trip[t] = "completed" => trip'[t] = "completed"
  /\ \A t \in Trip : charged[t] => charged'[t]
  /\ \A c \in Charge : taken[c] > 0 => taken'[c] > 0

Moves(w) ==
  /\ h' = [h EXCEPT ![w] = h'[w]]
  /\ h'[w] \in HandlerRecord
  /\ Knows(h[w])'

LEMMA HandlerFacts ==
  ASSUME LedgerInv, NEW w \in Handler
  PROVE  h \in [Handler -> HandlerRecord] /\ h[w] \in HandlerRecord /\ Knows(h[w])
BY DEF LedgerInv, HandlersOK

LEMMA KnowledgeStays ==
  ASSUME LedgerInv, Stays, NEW v \in Handler, h'[v] = h[v]
  PROVE  Knows(h[v])'
<1>1. Knows(h[v])
  BY HandlerFacts
<1>2. QED
  BY <1>1 DEF Knows, Stays

LEMMA KnowersMove ==
  ASSUME LedgerInv, Stays, NEW w \in Handler, Moves(w)
  PROVE  HandlersOK'
<1>1. h' \in [Handler -> HandlerRecord]
  BY DEF LedgerInv, HandlersOK, Moves
<1>2. ASSUME NEW v \in Handler PROVE Knows(h[v])'
  <2>1. CASE v = w
    BY <2>1 DEF Moves
  <2>2. CASE v # w
    BY <2>2, KnowledgeStays DEF LedgerInv, HandlersOK, Moves
  <2>3. QED
    BY <2>1, <2>2
<1>3. QED
  BY <1>1, <1>2 DEF HandlersOK

LEMMA NobodyMoves ==
  ASSUME LedgerInv, Stays, UNCHANGED h
  PROVE  HandlersOK'
<1>1. \A v \in Handler : Knows(h[v])'
  BY KnowledgeStays
<1>2. QED
  BY <1>1 DEF LedgerInv, HandlersOK

\* A handler in a new state.
LEMMA MovesTo ==
  ASSUME LedgerInv, NEW w \in Handler, NEW r \in HandlerRecord, h' = [h EXCEPT ![w] = r],
         r.pc = "move" => r.to \in DriverAccount /\ welcome' # "none",
         r.pc = "charge" => /\ r.x \in Trip /\ trip'[r.x] = "completed"
                            /\ r.to \in {"idle", "recharge", "settle"},
         r.pc = "settle" => r.x \in Trip /\ charged'[r.x] /\ r.to = "settle",
         r.pc \in {"deduct", "stamp", "reason"} => r.x \in Charge /\ r.to \in {"idle", "reason"},
         r.pc \in {"deduct", "stamp", "reason"} /\ r.st = "applied" => taken'[r.x] > 0
  PROVE  Moves(w) /\ h'[w] = r
<1>1. h'[w] = r
  BY HandlerFacts
<1>2. Knows(h[w])'
  BY <1>1 DEF Knows
<1>3. QED
  BY <1>1, <1>2 DEF Moves

LEMMA Ends ==
  ASSUME LedgerInv, NEW w \in Handler, Done(w)
  PROVE  Moves(w)
<1>1. Idle \in HandlerRecord /\ Idle.pc = "idle"
  BY DEF Idle, HandlerRecord, ChargeStatus
<1>2. QED
  BY <1>1, MovesTo DEF Done

\* A handler that begins: a record over Idle.
LEMMA Starts ==
  ASSUME LedgerInv, NEW w \in Handler, NEW pc, NEW x, NEW to, Begin(w, pc, x, to)
  PROVE  h' = [h EXCEPT ![w] = [pc |-> pc, x |-> x, to |-> to, st |-> "none"]]
<1>1. PICK r : r = [Idle EXCEPT !.pc = pc, !.x = x, !.to = to]
  OBVIOUS
<1>2. r = [pc |-> pc, x |-> x, to |-> to, st |-> "none"]
  BY <1>1 DEF Idle
<1>3. h' = [h EXCEPT ![w] = r]
  BY <1>1 DEF Begin
<1>4. QED
  BY <1>2, <1>3

LEMMA GoesTo ==
  ASSUME LedgerInv, NEW w \in Handler, NEW pc, Goto(w, pc)
  PROVE  h' = [h EXCEPT ![w] = [h[w] EXCEPT !.pc = pc]]
BY HandlerFacts DEF Goto

-----------------------------------------------------------------------------
(* Postings *)

LEMMA Posting ==
  ASSUME LedgerInv, NEW a \in Account, NEW amt \in Int, Post(a, amt)
  PROVE  /\ bal' \in [Account -> Int] /\ entries' \in [Account -> Nat]
         /\ \A b \in Account : bal'[b] = IF b = a THEN bal[b] + amt ELSE bal[b]
BY DEF LedgerInv, RowsOK, Post

\* The rider's balance is touched by fares and by hand only.
LEMMA RiderSafe ==
  ASSUME LedgerInv, bal' \in [Account -> Int], bal'["rider"] >= bal["rider"]
  PROVE  RiderNeverOwes'
BY DEF LedgerInv, RowsOK, RiderNeverOwes, Account

\* The facts that most steps leave alone.
LEMMA TripsRest ==
  ASSUME LedgerInv, UNCHANGED <<charged, paid>>
  PROVE  SettledIsCharged'
BY DEF LedgerInv, SettledIsCharged

LEMMA ChargesRest ==
  ASSUME LedgerInv, UNCHANGED <<charge, taken>>
  PROVE  AppliedIsDeducted'
BY DEF LedgerInv, AppliedIsDeducted

-----------------------------------------------------------------------------
(* Steps *)

LEMMA AfterWelcome ==
  ASSUME LedgerInv, NEW w \in Handler, NEW a \in DriverAccount,
         GrantDriverWelcome(a) \/ RelocateDriverWelcome(w, a)
  PROVE  LedgerInv'
<1>1. CASE GrantDriverWelcome(a)
  <2>1. /\ bal' \in [Account -> Int] /\ entries' \in [Account -> Nat]
        /\ bal'["rider"] = bal["rider"]
    BY <1>1, Posting DEF GrantDriverWelcome, Account, DriverAccount
  <2>2. RowsOK'
    BY <1>1, <2>1 DEF GrantDriverWelcome, LedgerInv, RowsOK, budget, bookings
  <2>3. HandlersOK'
    BY <1>1, NobodyMoves DEF GrantDriverWelcome, Stays, DriverAccount
  <2>4. SettledIsCharged' /\ AppliedIsDeducted' /\ RiderNeverOwes'
    BY <1>1, <2>1, RiderSafe, TripsRest, ChargesRest
    DEF GrantDriverWelcome, LedgerInv, RowsOK, Account
  <2>5. QED
    BY <2>2, <2>3, <2>4 DEF LedgerInv
<1>2. CASE RelocateDriverWelcome(w, a)
  <2> DEFINE r == [pc |-> "move", x |-> Nothing, to |-> a, st |-> "none"]
  <2>1. /\ welcome # "none" /\ h' = [h EXCEPT ![w] = r]
        /\ UNCHANGED <<bal, reserved, entries, recharge, welcome, moved, trip, charged, method,
             discount, paid, payout, charge, taken, extra, postings, desk, faults>>
    BY <1>2, Starts DEF RelocateDriverWelcome, accounts, bookings, budget
  <2>2. r \in HandlerRecord
    BY DEF HandlerRecord, ChargeStatus
  <2>3. Moves(w)
    BY <2>1, <2>2, MovesTo
  <2>4. HandlersOK'
    BY <2>1, <2>3, KnowersMove DEF Stays
  <2>5. QED
    BY <2>1, <2>4 DEF LedgerInv, RowsOK, SettledIsCharged, AppliedIsDeducted, RiderNeverOwes
<1>3. QED
  BY <1>1, <1>2

LEMMA AfterMoveWelcome ==
  ASSUME LedgerInv, NEW w \in Handler, MoveWelcome(w)
  PROVE  LedgerInv'
<1>1. welcome \in DriverAccount /\ h[w].to \in DriverAccount
  BY HandlerFacts DEF MoveWelcome, Knows, LedgerInv, RowsOK
<1>2. UNCHANGED <<reserved, recharge, welcome, trip, charged, method, discount, paid, payout,
                  charge, taken, extra, postings, desk, faults>>
  BY DEF MoveWelcome, bookings, budget
<1>3. Moves(w)
  BY Ends DEF MoveWelcome
<1>4. /\ bal' \in [Account -> Int] /\ entries' \in [Account -> Nat]
      /\ bal'["rider"] = bal["rider"] /\ moved' \in DriverAccount \cup {"none"}
  BY <1>1 DEF MoveWelcome, PostBoth, LedgerInv, RowsOK, Account, DriverAccount
<1>5. RowsOK'
  BY <1>2, <1>4 DEF LedgerInv, RowsOK
<1>6. HandlersOK'
  BY <1>2, <1>3, KnowersMove DEF Stays
<1>7. SettledIsCharged' /\ AppliedIsDeducted' /\ RiderNeverOwes'
  BY <1>2, <1>4, RiderSafe, TripsRest, ChargesRest DEF LedgerInv, RowsOK, Account
<1>8. QED
  BY <1>5, <1>6, <1>7 DEF LedgerInv

LEMMA AfterTrips ==
  ASSUME LedgerInv, NEW w \in Handler, NEW t \in Trip,
         CompleteTrip(w, t) \/ SettleFare(w, t) \/ Reconcile(w, t)
  PROVE  LedgerInv'
<1>1. /\ UNCHANGED <<bal, reserved, entries, recharge, welcome, moved, charged, method, discount,
                     paid, payout, charge, taken, extra, postings, desk, faults>>
      /\ trip' \in [Trip -> {"riding", "completed"}] /\ trip'[t] = "completed"
      /\ \A u \in Trip : trip[u] = "completed" => trip'[u] = "completed"
  BY DEF CompleteTrip, SettleFare, Reconcile, accounts, bookings, budget, LedgerInv, RowsOK
<1>2. PICK to \in {"idle", "recharge", "settle"} : Begin(w, "charge", t, to)
  BY DEF CompleteTrip, SettleFare, Reconcile
<1> DEFINE r == [pc |-> "charge", x |-> t, to |-> to, st |-> "none"]
<1>3. h' = [h EXCEPT ![w] = r] /\ r \in HandlerRecord
  BY <1>2, Starts DEF HandlerRecord, ChargeStatus
<1>4. Moves(w)
  BY <1>1, <1>3, MovesTo
<1>5. HandlersOK'
  BY <1>1, <1>4, KnowersMove DEF Stays
<1>6. QED
  BY <1>1, <1>5 DEF LedgerInv, RowsOK, SettledIsCharged, AppliedIsDeducted, RiderNeverOwes

LEMMA AfterChargeCommission ==
  ASSUME LedgerInv, NEW w \in Handler, ChargeCommission(w)
  PROVE  LedgerInv'
<1> DEFINE t == h[w].x
<1>1. t \in Trip /\ trip[t] = "completed" /\ h[w] \in HandlerRecord
  BY HandlerFacts DEF ChargeCommission, Knows
<1>2. UNCHANGED <<reserved, welcome, moved, trip, method, discount, paid, payout, charge, taken,
                  extra, postings, desk, faults>>
  BY DEF ChargeCommission, bookings, budget
<1>3. /\ bal' \in [Account -> Int] /\ entries' \in [Account -> Nat]
      /\ bal'["rider"] = bal["rider"] /\ recharge' \in BOOLEAN
      /\ charged' \in [Trip -> BOOLEAN] /\ charged'[t]
      /\ \A u \in Trip : charged[u] => charged'[u]
  <2>1. CASE MayCharge(t)
    <3>1. discount[t] \in {0, 1}
      BY <1>1 DEF LedgerInv, RowsOK
    <3>2. /\ bal' = [bal EXCEPT !["driver"] = @ - Fee + discount[t],
                                !["system"] = @ + Fee - discount[t]]
          /\ charged' = [charged EXCEPT ![t] = TRUE]
          /\ recharge' = (recharge \/ bal'["driver"] - reserved <= 0)
      BY <2>1 DEF ChargeCommission
    <3>3. \E n \in {0, 1} :
            entries' = [entries EXCEPT !["driver"] = @ + 1 + n, !["system"] = @ + 1 + n]
      BY <2>1 DEF ChargeCommission
    <3>4. bal' \in [Account -> Int] /\ bal'["rider"] = bal["rider"]
      BY <3>1, <3>2 DEF LedgerInv, RowsOK, Account, DriverAccount
    <3>5. entries' \in [Account -> Nat]
      BY <3>3 DEF LedgerInv, RowsOK, Account, DriverAccount
    <3>6. recharge' \in BOOLEAN
      BY <3>2 DEF LedgerInv, RowsOK
    <3>7. QED
      BY <1>1, <3>2, <3>4, <3>5, <3>6 DEF LedgerInv, RowsOK
  <2>2. CASE ~MayCharge(t)
    BY <1>1, <2>2 DEF ChargeCommission, MayCharge, LedgerInv, RowsOK
  <2>3. QED
    BY <2>1, <2>2
<1>4. Moves(w)
  <2>1. CASE h' = [h EXCEPT ![w].to = "settle"] /\ h[w].to = "recharge"
    <3> DEFINE r == [h[w] EXCEPT !.to = "settle"]
    <3>1. /\ h' = [h EXCEPT ![w] = r] /\ r \in HandlerRecord
          /\ r.pc = "charge" /\ r.x = t /\ r.to = "settle"
      BY <2>1, HandlerFacts DEF HandlerRecord, ChargeCommission
    <3> HIDE DEF r
    <3>2. QED
      BY <1>1, <1>2, <3>1, MovesTo
  <2>2. CASE h[w].to = "settle" /\ Goto(w, "settle")
    <3> DEFINE r == [h[w] EXCEPT !.pc = "settle"]
    <3>1. /\ h' = [h EXCEPT ![w] = r] /\ r \in HandlerRecord
          /\ r.pc = "settle" /\ r.x = t /\ r.to = "settle"
      BY <2>2, GoesTo, HandlerFacts DEF HandlerRecord
    <3> HIDE DEF r
    <3>2. QED
      BY <1>1, <1>3, <3>1, MovesTo
  <2>3. CASE Done(w)
    BY <2>3, Ends
  <2>4. QED
    BY <2>1, <2>2, <2>3 DEF ChargeCommission
<1>5. HandlersOK'
  BY <1>2, <1>3, <1>4, KnowersMove DEF Stays
<1>6. RowsOK'
  BY <1>2, <1>3 DEF LedgerInv, RowsOK
<1>7. SettledIsCharged' /\ AppliedIsDeducted' /\ RiderNeverOwes'
  BY <1>2, <1>3, RiderSafe, ChargesRest DEF LedgerInv, SettledIsCharged, RowsOK, Account
<1>8. QED
  BY <1>5, <1>6, <1>7 DEF LedgerInv

LEMMA AfterSettleCollectedFare ==
  ASSUME LedgerInv, NEW w \in Handler, SettleCollectedFare(w)
  PROVE  LedgerInv'
<1> DEFINE t == h[w].x
           cost == IF method[t] = "wallet" THEN Fare ELSE 0
<1>1. t \in Trip /\ charged[t]
  BY HandlerFacts DEF SettleCollectedFare, Knows
<1>2. UNCHANGED <<reserved, welcome, moved, trip, charged, method, discount, payout, charge, taken,
                  extra, postings, desk, faults>>
  BY DEF SettleCollectedFare, bookings, budget
<1>3. /\ bal' \in [Account -> Int] /\ entries' \in [Account -> Nat]
      /\ bal'["rider"] >= 0 /\ recharge' \in BOOLEAN
      /\ paid' \in [Trip -> BOOLEAN]
      /\ \A u \in Trip : paid'[u] => paid[u] \/ u = t
  <2>1. CASE MaySettle(t)
    <3>1. cost \in Nat /\ bal["rider"] >= cost
      BY <1>1, <2>1 DEF MaySettle, Covers, LedgerInv, RiderNeverOwes, RowsOK
    <3>2. /\ bal' = [bal EXCEPT !["driver"] = @ + Fare, !["rider"] = @ - cost]
          /\ recharge' = (recharge /\ bal'["driver"] - reserved < Minimum)
          /\ paid' = [paid EXCEPT ![t] = TRUE]
      BY <2>1 DEF SettleCollectedFare
    <3>3. \E n \in {0, 1} :
            entries' = [entries EXCEPT !["driver"] = @ + 1, !["rider"] = @ + n]
      BY <2>1 DEF SettleCollectedFare
    <3>4. bal' \in [Account -> Int] /\ bal'["rider"] >= 0
      <4> HIDE DEF cost
      <4>1. QED
        BY <3>1, <3>2 DEF LedgerInv, RowsOK, Account, DriverAccount
    <3>5. entries' \in [Account -> Nat]
      BY <3>3 DEF LedgerInv, RowsOK, Account, DriverAccount
    <3>6. recharge' \in BOOLEAN
      BY <3>2 DEF LedgerInv, RowsOK
    <3>7. QED
      BY <1>1, <3>2, <3>4, <3>5, <3>6 DEF LedgerInv, RowsOK
  <2>2. CASE ~MaySettle(t)
    BY <2>2 DEF SettleCollectedFare, LedgerInv, RowsOK, RiderNeverOwes
  <2>3. QED
    BY <2>1, <2>2
<1>4. Moves(w)
  BY Ends DEF SettleCollectedFare
<1>5. HandlersOK'
  BY <1>2, <1>4, KnowersMove DEF Stays
<1>6. RowsOK'
  BY <1>2, <1>3 DEF LedgerInv, RowsOK
<1>7. SettledIsCharged' /\ AppliedIsDeducted' /\ RiderNeverOwes'
  BY <1>1, <1>2, <1>3, ChargesRest DEF LedgerInv, SettledIsCharged, RiderNeverOwes
<1>8. QED
  BY <1>5, <1>6, <1>7 DEF LedgerInv

LEMMA AfterHand ==
  ASSUME LedgerInv, NEW a \in {"driver", "rider"}, NEW amt \in Amounts,
         CreditPostedTopup(a, amt) \/ AdjustBalanceByAdmin(a, amt)
  PROVE  LedgerInv'
<1>1. amt \in Nat /\ a \in Account
  BY DEF Account, DriverAccount
<1>2. UNCHANGED <<reserved, welcome, moved, trip, charged, method, discount, paid, payout, charge,
                  taken, h, desk, faults>> /\ postings' \in 0..MaxPostings
  BY DEF CreditPostedTopup, AdjustBalanceByAdmin, bookings, LedgerInv, RowsOK
<1>3. /\ bal' \in [Account -> Int] /\ entries' \in [Account -> Nat] /\ bal'["rider"] >= 0
      /\ recharge' \in BOOLEAN /\ extra' \in [Account -> Int]
  <2>1. CASE CreditPostedTopup(a, amt)
    <3>1. /\ bal' \in [Account -> Int] /\ entries' \in [Account -> Nat]
          /\ \A b \in Account : bal'[b] = IF b = a THEN bal[b] + amt ELSE bal[b]
      BY <1>1, <2>1, Posting DEF CreditPostedTopup
    <3>2. bal'["rider"] >= 0
      BY <1>1, <3>1 DEF LedgerInv, RiderNeverOwes, RowsOK, Account
    <3>3. recharge' \in BOOLEAN
      BY <2>1 DEF CreditPostedTopup, LedgerInv, RowsOK
    <3>4. extra' \in [Account -> Int]
      BY <1>1, <2>1 DEF CreditPostedTopup, LedgerInv, RowsOK
    <3>5. QED
      BY <3>1, <3>2, <3>3, <3>4
  <2>2. CASE AdjustBalanceByAdmin(a, amt)
    <3>1. -amt \in Int /\ bal[a] - amt >= 0 /\ Post(a, -amt) /\ recharge' = recharge
          /\ extra' = [extra EXCEPT ![a] = @ - amt]
      BY <1>1, <2>2 DEF AdjustBalanceByAdmin
    <3>2. /\ bal' \in [Account -> Int] /\ entries' \in [Account -> Nat]
          /\ \A b \in Account : bal'[b] = IF b = a THEN bal[b] + (-amt) ELSE bal[b]
      BY <1>1, <3>1, Posting
    <3>3. bal'["rider"] >= 0
      BY <1>1, <3>1, <3>2 DEF LedgerInv, RiderNeverOwes, RowsOK, Account
    <3>4. extra' \in [Account -> Int]
      BY <1>1, <3>1 DEF LedgerInv, RowsOK
    <3>5. QED
      BY <3>1, <3>2, <3>3, <3>4 DEF LedgerInv, RowsOK
  <2>3. QED
    BY <2>1, <2>2
<1>4. HandlersOK'
  BY <1>2, NobodyMoves DEF Stays
<1>5. RowsOK'
  BY <1>2, <1>3 DEF LedgerInv, RowsOK
<1>6. QED
  BY <1>2, <1>3, <1>4, <1>5, TripsRest, ChargesRest DEF LedgerInv, RiderNeverOwes

LEMMA AfterPayouts ==
  ASSUME LedgerInv, NEW x \in Payout,
         \/ \E amt \in Amounts : CreatePayoutRequest(x, amt)
         \/ \E st \in {"approved", "paid", "rejected"} : ProcessPayout(x, st)
  PROVE  LedgerInv'
<1>1. UNCHANGED <<recharge, welcome, moved, trip, charged, method, discount, paid, charge, taken,
                  extra, h, postings, desk, faults>>
  BY DEF CreatePayoutRequest, ProcessPayout, bookings, budget
<1> DEFINE Goal == /\ bal' \in [Account -> Int] /\ entries' \in [Account -> Nat]
                   /\ bal'["rider"] = bal["rider"]
                   /\ reserved' \in Nat /\ payout' \in [Payout -> [st : PayoutStatus, amt : Nat]]
<1>2. Goal
  <2>1. ASSUME NEW amt \in Amounts, CreatePayoutRequest(x, amt) PROVE Goal
    <3>1. [st |-> "pending", amt |-> amt] \in [st : PayoutStatus, amt : Nat]
      BY DEF PayoutStatus, Open
    <3>2. QED
      BY <2>1, <3>1 DEF CreatePayoutRequest, LedgerInv, RowsOK
  <2>2. ASSUME NEW st \in {"approved", "paid", "rejected"}, ProcessPayout(x, st) PROVE Goal
    <3>1. payout[x].amt \in Nat /\ payout[x] \in [st : PayoutStatus, amt : Nat]
      BY DEF LedgerInv, RowsOK
    <3>2. payout' = [payout EXCEPT ![x].st = st] /\ reserved' = reserved - Release(x, st)
      BY <2>2 DEF ProcessPayout
    <3>3. payout' \in [Payout -> [st : PayoutStatus, amt : Nat]]
      BY <3>1, <3>2 DEF LedgerInv, RowsOK, PayoutStatus, Open
    <3>4. Release(x, st) \in 0..reserved /\ reserved \in Nat
      BY <3>1 DEF Release, LedgerInv, RowsOK
    <3>5. reserved' \in Nat
      BY <3>2, <3>4
    <3>6. bal' \in [Account -> Int] /\ entries' \in [Account -> Nat] /\ bal'["rider"] = bal["rider"]
      <4>1. CASE st = "paid"
        <5>1. -payout[x].amt \in Int /\ Post("driver", -payout[x].amt) /\ "driver" \in Account
          BY <2>2, <3>1, <4>1 DEF ProcessPayout, Account, DriverAccount
        <5>2. QED
          BY <5>1, Posting DEF Account, DriverAccount
      <4>2. CASE st # "paid"
        BY <2>2, <4>2 DEF ProcessPayout, LedgerInv, RowsOK
      <4>3. QED
        BY <4>1, <4>2
    <3>7. QED
      BY <3>3, <3>5, <3>6
  <2>3. QED
    BY <2>1, <2>2
<1>3. HandlersOK'
  BY <1>1, NobodyMoves DEF Stays
<1>4. RowsOK'
  BY <1>1, <1>2 DEF LedgerInv, RowsOK
<1>5. RiderNeverOwes'
  BY <1>2, RiderSafe DEF LedgerInv, RowsOK, Account
<1>6. QED
  BY <1>1, <1>3, <1>4, <1>5, TripsRest, ChargesRest DEF LedgerInv

\* The charge of a handler that begins at the desk, or at the fine itself.
LEMMA AfterCharges ==
  ASSUME LedgerInv, NEW w \in Handler, NEW c \in Charge,
         RecordFine(w, c) \/ CollectOutstanding(w, c) \/ Waive(w, c)
  PROVE  LedgerInv'
<1>1. /\ UNCHANGED <<bal, reserved, entries, recharge, welcome, moved, trip, charged, method,
                     discount, paid, payout, taken, extra, postings, faults>>
      /\ charge' \in [Charge -> ChargeStatus] /\ desk' \in 0..MaxDesk
      /\ \A d \in Charge : charge'[d] = "applied" => charge[d] = "applied"
  BY DEF RecordFine, CollectOutstanding, Waive, accounts, bookings, budget, LedgerInv, RowsOK,
         ChargeStatus
<1>2. PICK pc \in {"deduct", "stamp"}, to \in {"idle", "reason"}, st \in {"pending", "waived"} :
        h' = [h EXCEPT ![w] = [pc |-> pc, x |-> c, to |-> to, st |-> st]]
  BY DEF RecordFine, CollectOutstanding, Waive
<1> DEFINE r == [pc |-> pc, x |-> c, to |-> to, st |-> st]
<1>3. r \in HandlerRecord
  BY DEF HandlerRecord, ChargeStatus
<1>4. Moves(w)
  BY <1>2, <1>3, MovesTo
<1>5. HandlersOK'
  BY <1>1, <1>4, KnowersMove DEF Stays
<1>6. AppliedIsDeducted'
  BY <1>1 DEF LedgerInv, AppliedIsDeducted
<1>7. QED
  BY <1>1, <1>5, <1>6 DEF LedgerInv, RowsOK, SettledIsCharged, RiderNeverOwes

\* Where the deduction leaves its handler.
LEMMA DeductMoves ==
  ASSUME LedgerInv, NEW w \in Handler, DeductFromWallet(w),
         bal["driver"] >= Fine => taken'[h[w].x] > 0
  PROVE  Moves(w)
<1>1. /\ h[w] \in HandlerRecord /\ h[w].pc = "deduct" /\ h[w].x \in Charge
      /\ h[w].to \in {"idle", "reason"} /\ h' = [h EXCEPT ![w] = AfterDeduct(w)]
      /\ h[w].st = "applied" => taken[h[w].x] > 0
  BY HandlerFacts DEF DeductFromWallet, Knows
<1>2. CASE bal["driver"] >= Fine
  <2> DEFINE r == [h[w] EXCEPT !.pc = "stamp", !.st = "applied"]
  <2>1. /\ h' = [h EXCEPT ![w] = r] /\ r \in HandlerRecord
        /\ r.pc = "stamp" /\ r.x = h[w].x /\ r.to = h[w].to
    BY <1>1, <1>2 DEF AfterDeduct, HandlerRecord, ChargeStatus
  <2> HIDE DEF r
  <2>2. QED
    BY <1>1, <1>2, <2>1, MovesTo
<1>3. CASE bal["driver"] < Fine /\ h[w].to = "idle"
  <2>1. bal["driver"] \in Int
    BY DEF LedgerInv, RowsOK, Account, DriverAccount
  <2>2. AfterDeduct(w) = Idle
    BY <1>3, <2>1 DEF AfterDeduct
  <2>3. Done(w)
    BY <1>1, <2>2 DEF Done
  <2>4. QED
    BY <2>3, Ends
<1>4. CASE bal["driver"] < Fine /\ h[w].to = "reason"
  <2> DEFINE r == [h[w] EXCEPT !.pc = "reason"]
  <2>1. bal["driver"] \in Int
    BY DEF LedgerInv, RowsOK, Account, DriverAccount
  <2>2. /\ AfterDeduct(w) = r /\ r \in HandlerRecord
        /\ r.pc = "reason" /\ r.x = h[w].x /\ r.to = h[w].to /\ r.st = h[w].st
    <3>1. AfterDeduct(w) = [h[w] EXCEPT !.pc = h[w].to]
      BY <1>4, <2>1 DEF AfterDeduct
    <3>2. QED
      BY <1>1, <1>4, <3>1 DEF HandlerRecord
  <2>3. h[w].st = "applied" => taken'[h[w].x] > 0
    BY <1>1, <1>4, <2>1 DEF DeductFromWallet
  <2> HIDE DEF r
  <2>4. QED
    BY <1>1, <2>2, <2>3, MovesTo
<1>5. bal["driver"] \in Int
  BY DEF LedgerInv, RowsOK, Account, DriverAccount
<1>6. QED
  BY <1>1, <1>2, <1>3, <1>4, <1>5

LEMMA AfterDeductFromWallet ==
  ASSUME LedgerInv, NEW w \in Handler, DeductFromWallet(w)
  PROVE  LedgerInv'
<1>1. UNCHANGED <<reserved, recharge, welcome, moved, trip, charged, method, discount, paid,
                  payout, charge, extra, postings, desk, faults>>
  BY DEF DeductFromWallet, bookings, budget
<1>2. h[w].x \in Charge /\ bal["driver"] \in Int
  BY HandlerFacts DEF DeductFromWallet, Knows, LedgerInv, RowsOK, Account, DriverAccount
<1>3. /\ bal' \in [Account -> Int] /\ entries' \in [Account -> Nat]
      /\ bal'["rider"] = bal["rider"] /\ taken' \in [Charge -> Nat]
      /\ \A d \in Charge : taken[d] > 0 => taken'[d] > 0
      /\ bal["driver"] >= Fine => taken'[h[w].x] > 0
  <2>1. CASE bal["driver"] >= Fine
    <3>1. -Fine \in Int /\ Post("driver", -Fine) /\ "driver" \in Account
          /\ taken' = [taken EXCEPT ![h[w].x] = @ + 1]
      BY <1>2, <2>1 DEF DeductFromWallet, Account, DriverAccount
    <3>2. /\ bal' \in [Account -> Int] /\ entries' \in [Account -> Nat]
          /\ bal'["rider"] = bal["rider"]
      BY <3>1, Posting DEF Account, DriverAccount
    <3>3. QED
      BY <1>2, <3>1, <3>2 DEF LedgerInv, RowsOK
  <2>2. CASE bal["driver"] < Fine
    BY <1>2, <2>2 DEF DeductFromWallet, LedgerInv, RowsOK
  <2>3. QED
    BY <1>2, <2>1, <2>2
<1>4. Moves(w)
  BY <1>3, DeductMoves
<1>5. HandlersOK'
  BY <1>1, <1>3, <1>4, KnowersMove DEF Stays
<1>6. RowsOK'
  BY <1>1, <1>3 DEF LedgerInv, RowsOK
<1>7. AppliedIsDeducted'
  BY <1>1, <1>3 DEF LedgerInv, AppliedIsDeducted
<1>8. RiderNeverOwes'
  BY <1>3, RiderSafe DEF LedgerInv, RowsOK, Account
<1>9. QED
  BY <1>1, <1>5, <1>6, <1>7, <1>8, TripsRest DEF LedgerInv

\* A handler that goes on to save its reason, or a stamp, over the same charge.
LEMMA GoesToReason ==
  ASSUME LedgerInv, NEW w \in Handler, Goto(w, "reason"), UNCHANGED taken,
         h[w].x \in Charge, h[w].to = "reason", h[w].st = "applied" => taken[h[w].x] > 0
  PROVE  Moves(w)
<1> DEFINE r == [h[w] EXCEPT !.pc = "reason"]
<1>1. /\ h' = [h EXCEPT ![w] = r] /\ r \in HandlerRecord
      /\ r.pc = "reason" /\ r.x = h[w].x /\ r.to = "reason" /\ r.st = h[w].st
  BY GoesTo, HandlerFacts DEF HandlerRecord
<1> HIDE DEF r
<1>2. QED
  BY <1>1, MovesTo

LEMMA AfterSaveCharge ==
  ASSUME LedgerInv, NEW w \in Handler, SaveCharge(w)
  PROVE  LedgerInv'
<1>1. UNCHANGED <<bal, reserved, entries, recharge, welcome, moved, trip, charged, method,
                  discount, paid, payout, taken, extra, postings, desk, faults>>
  BY DEF SaveCharge, accounts, bookings, budget
<1>2. /\ h[w].x \in Charge /\ h[w].st \in ChargeStatus
      /\ h[w].st = "applied" => taken[h[w].x] > 0
  BY HandlerFacts DEF SaveCharge, Knows, HandlerRecord
<1>3. Moves(w)
  BY <1>1, <1>2, Ends, GoesToReason DEF SaveCharge
<1>4. HandlersOK'
  BY <1>1, <1>3, KnowersMove DEF Stays
<1>5. charge' = [charge EXCEPT ![h[w].x] = h[w].st]
  BY DEF SaveCharge
<1>6. RowsOK'
  BY <1>1, <1>2, <1>5 DEF LedgerInv, RowsOK
<1>7. AppliedIsDeducted'
  BY <1>1, <1>2, <1>5 DEF LedgerInv, RowsOK, AppliedIsDeducted
<1>8. QED
  BY <1>1, <1>4, <1>6, <1>7 DEF LedgerInv, SettledIsCharged, RiderNeverOwes

LEMMA AfterAbort ==
  ASSUME LedgerInv, NEW w \in Handler, Abort(w)
  PROVE  LedgerInv'
<1>1. UNCHANGED <<bal, reserved, entries, recharge, welcome, moved, trip, charged, method,
                  discount, paid, payout, charge, taken, extra, postings, desk>>
      /\ faults' \in 0..MaxFaults
  BY DEF Abort, accounts, bookings, LedgerInv, RowsOK
<1>2. Moves(w)
  <2>1. CASE h[w].to = "reason" /\ h[w].pc # "reason"
    <3>1. Goto(w, "reason") /\ h[w].pc # "idle" /\ h[w] \in HandlerRecord /\ Knows(h[w])
      BY <2>1, HandlerFacts DEF Abort
    <3>2. h[w].pc \in {"deduct", "stamp"}
      BY <2>1, <3>1 DEF HandlerRecord, Knows, DriverAccount
    <3>3. QED
      BY <1>1, <2>1, <3>1, <3>2, GoesToReason DEF Knows
  <2>2. CASE ~(h[w].to = "reason" /\ h[w].pc # "reason")
    BY <2>2, Ends DEF Abort
  <2>3. QED
    BY <2>1, <2>2
<1>3. HandlersOK'
  BY <1>1, <1>2, KnowersMove DEF Stays
<1>4. QED
  BY <1>1, <1>3 DEF LedgerInv, RowsOK, SettledIsCharged, AppliedIsDeducted, RiderNeverOwes

-----------------------------------------------------------------------------
(* The invariant *)

LEMMA LedgerInitially ==
  ASSUME Init
  PROVE  LedgerInv
<1>1. Idle \in HandlerRecord /\ Idle.pc = "idle"
  BY DEF Idle, HandlerRecord, ChargeStatus
<1>2. HandlersOK
  <2>1. h = [w \in Handler |-> Idle]
    BY DEF Init
  <2>2. ASSUME NEW w \in Handler PROVE Knows(h[w])
    BY <1>1, <2>1 DEF Knows
  <2>3. QED
    BY <1>1, <2>1, <2>2 DEF HandlersOK
<1>3. RowsOK
  <2>1. /\ bal \in [Account -> Int] /\ entries \in [Account -> Nat] /\ extra \in [Account -> Int]
        /\ charged \in [Trip -> BOOLEAN] /\ trip \in [Trip -> {"riding", "completed"}]
        /\ paid \in [Trip -> BOOLEAN] /\ taken \in [Charge -> Nat]
    BY DEF Init
  <2>2. payout \in [Payout -> [st : PayoutStatus, amt : Nat]]
    <3>1. [st |-> "none", amt |-> 0] \in [st : PayoutStatus, amt : Nat]
      BY DEF PayoutStatus
    <3>2. QED
      BY <3>1 DEF Init
  <2>3. charge \in [Charge -> ChargeStatus]
    BY DEF Init, ChargeStatus
  <2>4. postings \in 0..MaxPostings /\ desk \in 0..MaxDesk /\ faults \in 0..MaxFaults
    BY DEF Init
  <2>5. QED
    BY <2>1, <2>2, <2>3, <2>4 DEF Init, RowsOK
<1>4. SettledIsCharged /\ AppliedIsDeducted /\ RiderNeverOwes
  BY DEF Init, SettledIsCharged, AppliedIsDeducted, RiderNeverOwes, Account
<1>5. QED
  BY <1>2, <1>3, <1>4 DEF LedgerInv

LEMMA LedgerInductive ==
  ASSUME LedgerInv, [Next]_vars
  PROVE  LedgerInv'
<1>1. ASSUME NEW w \in Handler, Trips(w) \/ Welcome(w) \/ Charges(w) PROVE LedgerInv'
  BY <1>1, AfterTrips, AfterWelcome, AfterCharges DEF Trips, Welcome, Charges
<1>2. ASSUME NEW w \in Handler, HandlerStep(w) PROVE LedgerInv'
  BY <1>2, AfterMoveWelcome, AfterChargeCommission, AfterSettleCollectedFare,
     AfterDeductFromWallet, AfterSaveCharge
  DEF HandlerStep
<1>3. ASSUME NEW w \in Handler, Abort(w) PROVE LedgerInv'
  BY <1>3, AfterAbort
<1>4. CASE ByHand
  BY <1>4, AfterHand, AfterPayouts DEF ByHand
<1>5. CASE UNCHANGED vars
  <2>1. UNCHANGED <<bal, reserved, entries, recharge, welcome, moved, trip, charged, method,
                    discount, paid, payout, charge, taken, extra, h, postings, desk, faults>>
    BY <1>5 DEF vars, accounts, bookings, budget
  <2>2. HandlersOK'
    BY <2>1, NobodyMoves DEF Stays
  <2>3. QED
    BY <2>1, <2>2 DEF LedgerInv, RowsOK, SettledIsCharged, AppliedIsDeducted, RiderNeverOwes
<1>6. QED
  BY <1>1, <1>2, <1>3, <1>4, <1>5 DEF Next

\* Every reachable state of the ledger satisfies the strengthened invariant.
THEOREM LedgerInvariant == Spec => []LedgerInv
<1>1. Init => LedgerInv
  BY LedgerInitially
<1>2. LedgerInv /\ [Next]_vars => LedgerInv'
  BY LedgerInductive
<1>3. QED
  BY <1>1, <1>2, PTL DEF Spec

\* Accounts, trips, bookings, payouts, charges and handlers keep their types;
\* in particular the reserved money never goes below zero.
THEOREM LedgerTyped == Spec => []TypeOK
<1>1. LedgerInv => TypeOK
  BY DEF LedgerInv, RowsOK, HandlersOK, HandlerRecord, TypeOK
<1>2. QED
  BY <1>1, LedgerInvariant, PTL

\* A fare reaches the driver only once the commission of its trip was taken,
\* whoever settles it and whatever failed before.
THEOREM SettledCharged == Spec => []SettledIsCharged
<1>1. LedgerInv => SettledIsCharged
  BY DEF LedgerInv
<1>2. QED
  BY <1>1, LedgerInvariant, PTL

\* A charge is recorded as applied only if the wallet paid for it, whichever of
\* its stale copies is saved last.
THEOREM AppliedDeducted == Spec => []AppliedIsDeducted
<1>1. LedgerInv => AppliedIsDeducted
  BY DEF LedgerInv
<1>2. QED
  BY <1>1, LedgerInvariant, PTL

\* No rider's wallet is overdrawn, by fares or by hand.
THEOREM RiderCovered == Spec => []RiderNeverOwes
<1>1. LedgerInv => RiderNeverOwes
  BY DEF LedgerInv
<1>2. QED
  BY <1>1, LedgerInvariant, PTL

=============================================================================
