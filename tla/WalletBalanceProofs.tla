-------------------------- MODULE WalletBalanceProofs --------------------------
(***************************************************************************)
(* The sums of WalletLedger: every balance is what its causes add up to,   *)
(* and the money reserved is that of the requests still open.              *)
(*                                                                         *)
(* A sum counts its units (Units), so what happens to a sum when a term    *)
(* comes or goes is a fact about the cardinality of finite sets.           *)
(***************************************************************************)
EXTENDS WalletLedgerProofs, FiniteSetTheorems

-----------------------------------------------------------------------------
(* Sums *)

LEMMA UnitsHave ==
  ASSUME NEW S, NEW f, NEW p
  PROVE  p \in Units(S, f) <=> \E x \in S : \E n \in 1..f[x] : p = <<x, n>>
BY DEF Units

\* A sum of finitely many natural numbers is one.
LEMMA UnitsFinite ==
  ASSUME NEW S, IsFiniteSet(S), NEW f, \A x \in S : f[x] \in Nat
  PROVE  IsFiniteSet(Units(S, f)) /\ SumOf(S, f) \in Nat
<1> DEFINE Row(x) == {x} \X (1..f[x])
           Rows == {Row(x) : x \in S}
           m == [x \in S |-> Row(x)]
<1>1. m \in Surjection(S, Rows)
  BY DEF Surjection
<1>2. IsFiniteSet(Rows)
  BY <1>1, FS_Surjection
<1>3. ASSUME NEW x \in S PROVE IsFiniteSet(Row(x))
  <2>1. f[x] \in Nat
    OBVIOUS
  <2>2. IsFiniteSet({x})
    BY FS_Singleton
  <2>3. IsFiniteSet(1..f[x])
    BY <2>1, FS_Interval
  <2>4. QED
    BY <2>2, <2>3, FS_Product
<1>4. IsFiniteSet(UNION Rows)
  <2>1. \A T \in Rows : IsFiniteSet(T)
    BY <1>3
  <2> HIDE DEF Rows
  <2>2. QED
    BY <1>2, <2>1, FS_UNION
<1>5. QED
  BY <1>4, FS_CardinalityType DEF Units, SumOf

LEMMA SumAgrees ==
  ASSUME NEW S, NEW f, NEW g, \A x \in S : f[x] = g[x]
  PROVE  SumOf(S, f) = SumOf(S, g)
<1>1. ASSUME NEW p PROVE p \in Units(S, f) <=> p \in Units(S, g)
  BY UnitsHave
<1>2. Units(S, f) = Units(S, g)
  BY <1>1
<1>3. QED
  BY <1>2 DEF SumOf

\* One more term, the others as they were.
LEMMA SumAdds ==
  ASSUME NEW S, IsFiniteSet(S), NEW x, x \notin S, NEW T, T = S \cup {x}, NEW f, NEW g,
         \A y \in S : f[y] \in Nat, \A y \in S : g[y] = f[y], g[x] \in Nat
  PROVE  SumOf(T, g) = SumOf(S, f) + g[x]
<1> DEFINE Row == {x} \X (1..g[x])
<1>1. IsFiniteSet({x}) /\ Cardinality({x}) = 1
  BY FS_Singleton
<1>2. IsFiniteSet(Row) /\ Cardinality(Row) = g[x]
  <2>1. IsFiniteSet(1..g[x]) /\ Cardinality(1..g[x]) = g[x]
    BY FS_Interval
  <2>2. IsFiniteSet(Row) /\ Cardinality(Row) = 1 * Cardinality(1..g[x])
    BY <1>1, <2>1, FS_Product
  <2>3. QED
    BY <2>1, <2>2
<1>3. Units(S \cup {x}, g) = Units(S, f) \cup Row
  <2>1. \A p : p \in Row <=> \E n \in 1..g[x] : p = <<x, n>>
    OBVIOUS
  <2> HIDE DEF Row
  <2>2. ASSUME NEW p PROVE p \in Units(S \cup {x}, g) <=> p \in Units(S, f) \/ p \in Row
    <3>1. p \in Units(S \cup {x}, g) <=> \E y \in S \cup {x} : \E n \in 1..g[y] : p = <<y, n>>
      BY UnitsHave
    <3>2. p \in Units(S, f) <=> \E y \in S : \E n \in 1..f[y] : p = <<y, n>>
      BY UnitsHave
    <3>3. QED
      BY <2>1, <3>1, <3>2
  <2>3. QED
    BY <2>2
<1>4. Units(S, f) \cap Row = {}
  <2>1. ASSUME NEW p \in Units(S, f), p \in Row PROVE FALSE
    BY <2>1, UnitsHave
  <2>2. QED
    BY <2>1
<1>5. IsFiniteSet(Units(S, f)) /\ SumOf(S, f) \in Nat
  BY UnitsFinite
<1> HIDE DEF Row
<1>6. Cardinality(Units(S, f) \cup Row) = Cardinality(Units(S, f)) + Cardinality(Row) - 0
  BY <1>2, <1>4, <1>5, FS_Union, FS_EmptySet
<1>7. SumOf(S \cup {x}, g) = Cardinality(Units(S, f)) + g[x] - 0
  BY <1>2, <1>3, <1>6 DEF SumOf
<1>8. QED
  BY <1>5, <1>7 DEF SumOf

\* One term less.
LEMMA SumLoses ==
  ASSUME NEW S, IsFiniteSet(S), NEW x \in S, NEW f, NEW g,
         \A y \in S : f[y] \in Nat, \A y \in S \ {x} : g[y] = f[y]
  PROVE  SumOf(S, f) = SumOf(S \ {x}, g) + f[x]
<1>1. IsFiniteSet(S \ {x}) /\ S = (S \ {x}) \cup {x}
  BY FS_RemoveElement
<1>2. QED
  BY <1>1, SumAdds

\* One term that changes.
LEMMA SumChanges ==
  ASSUME NEW S, IsFiniteSet(S), NEW x \in S, NEW f, NEW g,
         \A y \in S : f[y] \in Nat /\ g[y] \in Nat, \A y \in S \ {x} : g[y] = f[y]
  PROVE  SumOf(S, g) = SumOf(S, f) - f[x] + g[x]
<1>1. SumOf(S, f) = SumOf(S \ {x}, g) + f[x] /\ SumOf(S, g) = SumOf(S \ {x}, g) + g[x]
  BY SumLoses
<1>2. SumOf(S \ {x}, g) \in Nat
  BY FS_RemoveElement, UnitsFinite
<1>3. QED
  BY <1>1, <1>2

\* A product with one more factor.
LEMMA OneMore ==
  ASSUME NEW a \in Nat, NEW n \in Nat
  PROVE  a * (n + 1) = a * n + a /\ a * n \in Nat
OBVIOUS

-----------------------------------------------------------------------------
(* The invariant *)

USE LedgerAssumption DEF LedgerAssumption

\* The welcome credit moves to another account, and only once it was granted.
MovesAway ==
  /\ \A w \in Handler : h[w].pc = "move" => h[w].to # welcome
  /\ moved # "none" => welcome # "none"

BalanceInv == LedgerInv /\ Explained /\ ReservedIsOpen /\ MovesAway

LEMMA Finite ==
  /\ IsFiniteSet(ChargedTrips) /\ IsFiniteSet(PaidTrips) /\ IsFiniteSet(PaidByWallet)
  /\ IsFiniteSet(OpenPayouts) /\ IsFiniteSet(PaidPayouts) /\ IsFiniteSet(Charge)
<1>1. /\ ChargedTrips \in SUBSET Trip /\ PaidTrips \in SUBSET Trip
      /\ PaidByWallet \in SUBSET Trip
  BY DEF ChargedTrips, PaidTrips, PaidByWallet
<1>2. OpenPayouts \in SUBSET Payout /\ PaidPayouts \in SUBSET Payout
  BY DEF OpenPayouts, PaidPayouts
<1>3. ASSUME NEW T \in SUBSET Trip PROVE IsFiniteSet(T)
  BY FS_Subset
<1>4. ASSUME NEW T \in SUBSET Payout PROVE IsFiniteSet(T)
  BY FS_Subset
<1>5. QED
  BY <1>1, <1>2, <1>3, <1>4

LEMMA SummandTypes ==
  ASSUME LedgerInv
  PROVE  /\ \A t \in ChargedTrips : discount[t] \in Nat
         /\ \A x \in Payout : Amount[x] \in Nat
         /\ \A x \in OpenPayouts : Amount[x] \in Nat
         /\ \A x \in PaidPayouts : Amount[x] \in Nat
         /\ \A c \in Charge : taken[c] \in Nat
BY DEF LedgerInv, RowsOK, ChargedTrips, OpenPayouts, PaidPayouts, Amount

LEMMA SumTypes ==
  ASSUME LedgerInv
  PROVE  /\ Cardinality(ChargedTrips) \in Nat /\ Cardinality(PaidTrips) \in Nat
         /\ Cardinality(PaidByWallet) \in Nat
         /\ Promotions \in Nat /\ PaidOut \in Nat
         /\ SumOf(OpenPayouts, Amount) \in Nat /\ SumOf(Charge, taken) \in Nat
         /\ \A a \in DriverAccount : Granted(a) \in Int
         /\ \A a \in Account : bal[a] \in Int /\ extra[a] \in Int
<1>1. /\ Cardinality(ChargedTrips) \in Nat /\ Cardinality(PaidTrips) \in Nat
      /\ Cardinality(PaidByWallet) \in Nat
  BY Finite, FS_CardinalityType
<1>2. /\ SumOf(ChargedTrips, discount) \in Nat /\ SumOf(PaidPayouts, Amount) \in Nat
      /\ SumOf(OpenPayouts, Amount) \in Nat /\ SumOf(Charge, taken) \in Nat
  BY Finite, SummandTypes, UnitsFinite
<1>3. \A a \in DriverAccount : Granted(a) \in Int
  BY DEF Granted
<1>4. \A a \in Account : bal[a] \in Int /\ extra[a] \in Int
  BY DEF LedgerInv, RowsOK
<1>5. QED
  BY <1>1, <1>2, <1>3, <1>4 DEF Promotions, PaidOut

\* What a step that leaves some rows alone leaves of the sums.
LEMMA ChargedRest ==
  ASSUME UNCHANGED <<charged, discount>>
  PROVE  Cardinality(ChargedTrips)' = Cardinality(ChargedTrips) /\ Promotions' = Promotions
<1>1. ChargedTrips' = ChargedTrips
  BY DEF ChargedTrips
<1>2. QED
  BY <1>1 DEF Promotions

LEMMA PaidRest ==
  ASSUME UNCHANGED <<paid, method>>
  PROVE  /\ Cardinality(PaidTrips)' = Cardinality(PaidTrips)
         /\ Cardinality(PaidByWallet)' = Cardinality(PaidByWallet)
<1>1. PaidTrips' = PaidTrips
  BY DEF PaidTrips
<1>2. PaidByWallet' = PaidByWallet
  BY <1>1 DEF PaidByWallet
<1>3. QED
  BY <1>1, <1>2

LEMMA PayoutsRest ==
  ASSUME UNCHANGED payout
  PROVE  PaidOut' = PaidOut /\ SumOf(OpenPayouts, Amount)' = SumOf(OpenPayouts, Amount)
<1>1. OpenPayouts' = OpenPayouts /\ PaidPayouts' = PaidPayouts /\ Amount' = Amount
  BY DEF OpenPayouts, PaidPayouts, Amount
<1>2. QED
  BY <1>1 DEF PaidOut

LEMMA GrantsRest ==
  ASSUME UNCHANGED <<welcome, moved>>
  PROVE  Granted("driver")' = Granted("driver") /\ Granted("abroad")' = Granted("abroad")
BY DEF Granted

LEMMA MoversRest ==
  ASSUME LedgerInv, MovesAway, NEW w \in Handler, Moves(w), UNCHANGED <<welcome, moved>>,
         h'[w].pc = "move" => h'[w].to # welcome
  PROVE  MovesAway'
BY HandlerFacts DEF MovesAway, Moves

LEMMA SumsRest ==
  ASSUME Explained, ReservedIsOpen,
         UNCHANGED <<bal, reserved, welcome, moved, charged, method, discount, paid, payout,
                     taken, extra>>
  PROVE  Explained' /\ ReservedIsOpen'
BY ChargedRest, PaidRest, PayoutsRest, GrantsRest DEF Explained, ReservedIsOpen

-----------------------------------------------------------------------------
(* Steps that no sum depends on *)

LEMMA RestAfterTrips ==
  ASSUME BalanceInv, NEW w \in Handler, NEW t \in Trip,
         CompleteTrip(w, t) \/ SettleFare(w, t) \/ Reconcile(w, t)
  PROVE  Explained' /\ ReservedIsOpen' /\ MovesAway'
<1>1. UNCHANGED <<bal, reserved, welcome, moved, charged, method, discount, paid, payout,
                  taken, extra>>
  BY DEF CompleteTrip, SettleFare, Reconcile, accounts, bookings
<1>2. PICK to : Begin(w, "charge", t, to)
  BY DEF CompleteTrip, SettleFare, Reconcile
<1>3. h' = [h EXCEPT ![w] = [pc |-> "charge", x |-> t, to |-> to, st |-> "none"]]
  BY <1>2, Starts DEF BalanceInv
<1>4. MovesAway'
  BY <1>1, <1>3 DEF BalanceInv, LedgerInv, HandlersOK, MovesAway
<1>5. QED
  BY <1>1, <1>4, SumsRest DEF BalanceInv

LEMMA RestAfterCharges ==
  ASSUME BalanceInv, NEW w \in Handler, NEW c \in Charge,
         RecordFine(w, c) \/ CollectOutstanding(w, c) \/ Waive(w, c)
  PROVE  Explained' /\ ReservedIsOpen' /\ MovesAway'
<1>1. UNCHANGED <<bal, reserved, welcome, moved, charged, method, discount, paid, payout,
                  taken, extra>>
  BY DEF RecordFine, CollectOutstanding, Waive, accounts, bookings
<1>2. PICK pc \in {"deduct", "stamp"}, to \in {"idle", "reason"}, st \in {"pending", "waived"} :
        h' = [h EXCEPT ![w] = [pc |-> pc, x |-> c, to |-> to, st |-> st]]
  BY DEF RecordFine, CollectOutstanding, Waive
<1>3. MovesAway'
  BY <1>1, <1>2 DEF BalanceInv, LedgerInv, HandlersOK, MovesAway
<1>4. QED
  BY <1>1, <1>3, SumsRest DEF BalanceInv

\* A handler that ends, or that goes on to save a reason or a stamp.
LEMMA RestOfHandler ==
  ASSUME BalanceInv, NEW w \in Handler, UNCHANGED <<welcome, moved>>,
         Done(w) \/ \E pc \in {"settle", "stamp", "reason"} : Goto(w, pc)
  PROVE  MovesAway'
<1>1. CASE Done(w)
  BY <1>1 DEF Done, Idle, BalanceInv, LedgerInv, HandlersOK, MovesAway
<1>2. ASSUME NEW pc \in {"settle", "stamp", "reason"}, Goto(w, pc) PROVE MovesAway'
  <2>1. /\ \A v \in Handler : v # w => h'[v] = h[v]
        /\ h'[w] = [h[w] EXCEPT !.pc = pc] /\ h[w] \in HandlerRecord
    BY <1>2, HandlerFacts DEF Goto, BalanceInv
  <2>2. h'[w].pc = pc
    BY <2>1 DEF HandlerRecord
  <2>3. QED
    BY <2>1, <2>2 DEF BalanceInv, MovesAway
<1>3. QED
  BY <1>1, <1>2

LEMMA RestAfterSaveOrAbort ==
  ASSUME BalanceInv, NEW w \in Handler, SaveCharge(w) \/ Abort(w)
  PROVE  Explained' /\ ReservedIsOpen' /\ MovesAway'
<1>1. UNCHANGED <<bal, reserved, welcome, moved, charged, method, discount, paid, payout,
                  taken, extra>>
  BY DEF SaveCharge, Abort, accounts, bookings
<1>2. MovesAway'
  BY <1>1, RestOfHandler DEF SaveCharge, Abort
<1>3. QED
  BY <1>1, <1>2, SumsRest DEF BalanceInv

LEMMA RestAfterRelocate ==
  ASSUME BalanceInv, NEW w \in Handler, NEW a \in DriverAccount, RelocateDriverWelcome(w, a)
  PROVE  Explained' /\ ReservedIsOpen' /\ MovesAway'
<1>1. UNCHANGED <<bal, reserved, welcome, moved, charged, method, discount, paid, payout,
                  taken, extra>>
      /\ welcome # a
  BY DEF RelocateDriverWelcome, accounts, bookings
<1>2. h' = [h EXCEPT ![w] = [pc |-> "move", x |-> Nothing, to |-> a, st |-> "none"]]
  BY Starts DEF BalanceInv, RelocateDriverWelcome
<1>3. MovesAway'
  BY <1>1, <1>2 DEF BalanceInv, LedgerInv, HandlersOK, MovesAway
<1>4. QED
  BY <1>1, <1>3, SumsRest DEF BalanceInv

-----------------------------------------------------------------------------
(* The welcome credit *)

LEMMA BalanceAfterGrant ==
  ASSUME BalanceInv, NEW a \in DriverAccount, GrantDriverWelcome(a)
  PROVE  Explained' /\ ReservedIsOpen' /\ MovesAway'
<1>1. /\ UNCHANGED <<reserved, moved, charged, method, discount, paid, payout, taken, extra, h>>
      /\ welcome = "none" /\ welcome' = a /\ moved = "none" /\ Post(a, Minimum)
  BY DEF GrantDriverWelcome, bookings, BalanceInv, MovesAway
<1>2. \A b \in Account : bal'[b] = IF b = a THEN bal[b] + Minimum ELSE bal[b]
  BY <1>1, Posting DEF BalanceInv, Account
<1>3. \A b \in DriverAccount : Granted(b)' = IF b = a THEN Granted(b) + Minimum ELSE Granted(b)
  BY <1>1 DEF Granted, DriverAccount
<1>4. Explained'
  BY <1>1, <1>2, <1>3, ChargedRest, PaidRest, PayoutsRest, SumTypes
  DEF BalanceInv, Explained, Account, DriverAccount
<1>5. ReservedIsOpen'
  BY <1>1, PayoutsRest DEF BalanceInv, ReservedIsOpen
<1>6. MovesAway'
  <2>1. \A w \in Handler : h[w].pc # "move"
    BY <1>1, HandlerFacts DEF BalanceInv, Knows
  <2>2. QED
    BY <1>1, <2>1 DEF MovesAway
<1>7. QED
  BY <1>4, <1>5, <1>6

LEMMA BalanceAfterMove ==
  ASSUME BalanceInv, NEW w \in Handler, MoveWelcome(w)
  PROVE  Explained' /\ ReservedIsOpen' /\ MovesAway'
<1>1. UNCHANGED <<reserved, welcome, charged, method, discount, paid, payout, taken, extra>>
      /\ h[w].pc = "move" /\ Done(w)
  BY DEF MoveWelcome, bookings
<1>2. /\ welcome \in DriverAccount /\ h[w].to \in DriverAccount /\ h[w].to # welcome
  BY <1>1, HandlerFacts DEF BalanceInv, MovesAway, Knows, LedgerInv, RowsOK
<1>3. MovesAway'
  <2>1. \A v \in Handler : h'[v].pc = "move" => h[v].pc = "move" /\ h'[v] = h[v]
    BY <1>1 DEF Done, Idle, BalanceInv, LedgerInv, HandlersOK
  <2>2. \A v \in Handler : h'[v].pc = "move" => h'[v].to # welcome'
    BY <1>1, <2>1 DEF BalanceInv, MovesAway
  <2>3. QED
    BY <1>1, <1>2, <2>2 DEF MovesAway, DriverAccount
<1>4. CASE MayMove /\ PostBoth(welcome, -Minimum, h[w].to, Minimum) /\ moved' = h[w].to
  <2>1. \A b \in DriverAccount : bal'[b] = bal[b] + IF b = welcome THEN -Minimum ELSE Minimum
    BY <1>2, <1>4 DEF PostBoth, DriverAccount, Account, BalanceInv, LedgerInv, RowsOK
  <2>2. \A b \in {"rider", "system"} : bal'[b] = bal[b]
    BY <1>2, <1>4 DEF PostBoth, DriverAccount, Account, BalanceInv, LedgerInv, RowsOK
  <2>3. \A b \in DriverAccount :
          Granted(b)' = Granted(b) + IF b = welcome THEN -Minimum ELSE Minimum
    BY <1>1, <1>2, <1>4 DEF MayMove, Granted, DriverAccount
  <2>4. Explained'
    BY <1>1, <2>1, <2>2, <2>3, ChargedRest, PaidRest, PayoutsRest, SumTypes
    DEF BalanceInv, Explained, Account, DriverAccount
  <2>5. QED
    BY <1>1, <1>3, <2>4, PayoutsRest DEF BalanceInv, ReservedIsOpen
<1>5. CASE UNCHANGED <<bal, moved>>
  BY <1>1, <1>3, <1>5, SumsRest DEF BalanceInv
<1>6. QED
  BY <1>4, <1>5 DEF MoveWelcome

-----------------------------------------------------------------------------
(* Commission and fare *)

LEMMA BalanceAfterCommission ==
  ASSUME BalanceInv, NEW w \in Handler, ChargeCommission(w)
  PROVE  Explained' /\ ReservedIsOpen' /\ MovesAway'
<1> DEFINE t == h[w].x
<1>1. UNCHANGED <<reserved, welcome, moved, method, discount, paid, payout, taken, extra>>
  BY DEF ChargeCommission, bookings
<1>2. t \in Trip
  BY HandlerFacts DEF ChargeCommission, Knows, BalanceInv
<1>3. MovesAway'
  <2>1. CASE h' = [h EXCEPT ![w].to = "settle"]
    <3>1. h'[w].pc = h[w].pc /\ h[w].pc = "charge" /\ \A v \in Handler : v # w => h'[v] = h[v]
      BY <2>1, HandlerFacts DEF BalanceInv, LedgerInv, HandlersOK, HandlerRecord, ChargeCommission
    <3>2. QED
      BY <1>1, <3>1 DEF BalanceInv, MovesAway
  <2>2. CASE Done(w) \/ Goto(w, "settle")
    BY <1>1, <2>2, RestOfHandler
  <2>3. QED
    BY <2>1, <2>2 DEF ChargeCommission
<1>4. CASE MayCharge(t)
  <2>1. /\ bal' = [bal EXCEPT !["driver"] = @ - Fee + discount[t],
                              !["system"] = @ + Fee - discount[t]]
        /\ charged' = [charged EXCEPT ![t] = TRUE] /\ ~charged[t]
    BY <1>4 DEF ChargeCommission, MayCharge
  <2>2. ChargedTrips' = ChargedTrips \cup {t} /\ t \notin ChargedTrips
    BY <1>2, <2>1 DEF ChargedTrips, BalanceInv, LedgerInv, RowsOK
  <2>3. Cardinality(ChargedTrips)' = Cardinality(ChargedTrips) + 1
    BY <2>2, Finite, FS_AddElement
  <2>4. discount[t] \in Nat
    BY <1>2 DEF BalanceInv, LedgerInv, RowsOK
  <2>5. SumOf(ChargedTrips', discount) = SumOf(ChargedTrips, discount) + discount[t]
    <3> HIDE DEF t
    <3>1. /\ IsFiniteSet(ChargedTrips) /\ t \notin ChargedTrips
          /\ \A y \in ChargedTrips : discount[y] \in Nat
      BY <2>2, Finite, SummandTypes DEF BalanceInv
    <3>2. QED
      BY ONLY <2>2, <2>4, <3>1, SumAdds
  <2>6. Promotions' = Promotions + discount[t]
    BY <1>1, <2>5 DEF Promotions
  <2>7. Fee * Cardinality(ChargedTrips)' = Fee * Cardinality(ChargedTrips) + Fee
        /\ Fee * Cardinality(ChargedTrips) \in Nat
    BY <2>3, OneMore, SumTypes DEF BalanceInv
  <2>8. /\ bal'["driver"] = bal["driver"] - Fee + discount[t]
        /\ bal'["system"] = bal["system"] + Fee - discount[t]
        /\ bal'["abroad"] = bal["abroad"] /\ bal'["rider"] = bal["rider"]
    BY <2>1 DEF BalanceInv, LedgerInv, RowsOK, Account, DriverAccount
  <2> HIDE DEF t
  <2>9. Explained'
    BY <1>1, <2>4, <2>6, <2>7, <2>8, PaidRest, PayoutsRest, GrantsRest, SumTypes
    DEF BalanceInv, Explained, Account, DriverAccount
  <2>10. QED
    BY <1>1, <1>3, <2>9, PayoutsRest DEF BalanceInv, ReservedIsOpen
<1>5. CASE ~MayCharge(t)
  BY <1>1, <1>3, <1>5, SumsRest DEF ChargeCommission, BalanceInv
<1>6. QED
  BY <1>4, <1>5

LEMMA BalanceAfterSettle ==
  ASSUME BalanceInv, NEW w \in Handler, SettleCollectedFare(w)
  PROVE  Explained' /\ ReservedIsOpen' /\ MovesAway'
<1> DEFINE t == h[w].x
           cost == IF method[t] = "wallet" THEN Fare ELSE 0
<1>1. UNCHANGED <<reserved, welcome, moved, charged, method, discount, payout, taken, extra>>
  BY DEF SettleCollectedFare, bookings
<1>2. t \in Trip
  BY HandlerFacts DEF SettleCollectedFare, Knows, BalanceInv
<1>3. MovesAway'
  BY <1>1, RestOfHandler DEF SettleCollectedFare
<1>4. CASE MaySettle(t)
  <2>1. /\ bal' = [bal EXCEPT !["driver"] = @ + Fare, !["rider"] = @ - cost]
        /\ paid' = [paid EXCEPT ![t] = TRUE] /\ ~paid[t]
    BY <1>4 DEF SettleCollectedFare, MaySettle
  <2>2. PaidTrips' = PaidTrips \cup {t} /\ t \notin PaidTrips
    BY <1>2, <2>1 DEF PaidTrips, BalanceInv, LedgerInv, RowsOK
  <2>3. Cardinality(PaidTrips)' = Cardinality(PaidTrips) + 1
    BY <2>2, Finite, FS_AddElement
  <2>4. Fare * Cardinality(PaidTrips)' = Fare * Cardinality(PaidTrips) + Fare
        /\ Fare * Cardinality(PaidTrips) \in Nat
    BY <2>3, OneMore, SumTypes DEF BalanceInv
  <2>5. Fare * Cardinality(PaidByWallet)' = Fare * Cardinality(PaidByWallet) + cost
        /\ Fare * Cardinality(PaidByWallet) \in Nat /\ cost \in Nat
    <3>1. Fare * Cardinality(PaidByWallet) \in Nat
      BY SumTypes, OneMore DEF BalanceInv
    <3>2. CASE method[t] = "wallet"
      <4>1. PaidByWallet' = PaidByWallet \cup {t} /\ t \notin PaidByWallet
        BY <1>1, <2>2, <3>2 DEF PaidByWallet
      <4>2. Cardinality(PaidByWallet)' = Cardinality(PaidByWallet) + 1
        BY <4>1, Finite, FS_AddElement
      <4>3. QED
        BY <3>1, <3>2, <4>2, OneMore, SumTypes DEF BalanceInv
    <3>3. CASE method[t] # "wallet"
      <4>1. PaidByWallet' = PaidByWallet
        BY <1>1, <2>2, <3>3 DEF PaidByWallet
      <4>2. QED
        BY <3>1, <3>3, <4>1
    <3>4. QED
      BY <3>2, <3>3
  <2> HIDE DEF cost, t
  <2>6. /\ bal'["driver"] = bal["driver"] + Fare /\ bal'["rider"] = bal["rider"] - cost
        /\ bal'["abroad"] = bal["abroad"] /\ bal'["system"] = bal["system"]
    BY <2>1 DEF BalanceInv, LedgerInv, RowsOK, Account, DriverAccount
  <2>7. Explained'
    BY <1>1, <2>4, <2>5, <2>6, ChargedRest, PayoutsRest, GrantsRest, SumTypes
    DEF BalanceInv, Explained, Account, DriverAccount
  <2>8. QED
    BY <1>1, <1>3, <2>7, PayoutsRest DEF BalanceInv, ReservedIsOpen
<1>5. CASE ~MaySettle(t)
  BY <1>1, <1>3, <1>5, SumsRest DEF SettleCollectedFare, BalanceInv
<1>6. QED
  BY <1>4, <1>5

-----------------------------------------------------------------------------
(* Postings by hand *)

LEMMA BalanceAfterHand ==
  ASSUME BalanceInv, NEW a \in {"driver", "rider"}, NEW amt \in Amounts,
         CreditPostedTopup(a, amt) \/ AdjustBalanceByAdmin(a, amt)
  PROVE  Explained' /\ ReservedIsOpen' /\ MovesAway'
<1>1. UNCHANGED <<reserved, welcome, moved, charged, method, discount, paid, payout, taken, h>>
  BY DEF CreditPostedTopup, AdjustBalanceByAdmin, bookings
<1>2. PICK n \in Int :
        Post(a, n) /\ \A b \in Account : extra'[b] = IF b = a THEN extra[b] + n ELSE extra[b]
  <2>1. CASE CreditPostedTopup(a, amt)
    BY <2>1 DEF CreditPostedTopup, BalanceInv, LedgerInv, RowsOK
  <2>2. CASE AdjustBalanceByAdmin(a, amt)
    <3>1. Post(a, -amt) /\ -amt \in Int /\ extra' = [extra EXCEPT ![a] = @ - amt]
      BY <2>2 DEF AdjustBalanceByAdmin
    <3>2. \A b \in Account : extra'[b] = IF b = a THEN extra[b] + (-amt) ELSE extra[b]
      BY <3>1 DEF BalanceInv, LedgerInv, RowsOK
    <3>3. QED
      BY <3>1, <3>2
  <2>3. QED
    BY <2>1, <2>2
<1>3. \A b \in Account : bal'[b] = IF b = a THEN bal[b] + n ELSE bal[b]
  <2>1. a \in Account
    BY DEF Account, DriverAccount
  <2>2. QED
    BY <1>2, <2>1, Posting DEF BalanceInv
<1>4. \A b \in Account : extra'[b] = IF b = a THEN extra[b] + n ELSE extra[b]
  BY <1>2
<1>5. Explained'
  BY <1>1, <1>3, <1>4, ChargedRest, PaidRest, PayoutsRest, GrantsRest, SumTypes, OneMore
  DEF BalanceInv, Explained, Account, DriverAccount
<1>6. QED
  BY <1>1, <1>5, PayoutsRest DEF BalanceInv, ReservedIsOpen, MovesAway

-----------------------------------------------------------------------------
(* Payouts *)

LEMMA BalanceAfterRequest ==
  ASSUME BalanceInv, NEW x \in Payout, NEW amt \in Amounts, CreatePayoutRequest(x, amt)
  PROVE  Explained' /\ ReservedIsOpen' /\ MovesAway'
<1>1. /\ UNCHANGED <<bal, welcome, moved, charged, method, discount, paid, taken, extra, h>>
      /\ reserved' = reserved + amt /\ payout[x].st = "none"
      /\ payout' = [payout EXCEPT ![x] = [st |-> "pending", amt |-> amt]]
  BY DEF CreatePayoutRequest, bookings
<1>2. \A y \in Payout : payout'[y] = IF y = x THEN [st |-> "pending", amt |-> amt] ELSE payout[y]
  BY <1>1 DEF BalanceInv, LedgerInv, RowsOK
<1>3. /\ OpenPayouts' = OpenPayouts \cup {x} /\ PaidPayouts' = PaidPayouts
      /\ x \notin OpenPayouts /\ x \notin PaidPayouts
  BY <1>1, <1>2 DEF OpenPayouts, PaidPayouts, Open
<1>4. \A y \in Payout : Amount'[y] = IF y = x THEN amt ELSE Amount[y]
  BY <1>2 DEF Amount
<1>5. SumOf(OpenPayouts, Amount)' = SumOf(OpenPayouts, Amount) + amt
  <2>1. /\ IsFiniteSet(OpenPayouts) /\ x \notin OpenPayouts
        /\ \A y \in OpenPayouts : Amount[y] \in Nat /\ Amount'[y] = Amount[y]
        /\ Amount'[x] = amt /\ amt \in Nat
    BY <1>3, <1>4, Finite, SummandTypes DEF BalanceInv, OpenPayouts
  <2>2. SumOf(OpenPayouts', Amount') = SumOf(OpenPayouts, Amount) + Amount'[x]
    BY ONLY <1>3, <2>1, SumAdds
  <2>3. QED
    BY <2>1, <2>2
<1>6. PaidOut' = PaidOut
  <2>1. \A y \in PaidPayouts : Amount[y] = Amount'[y]
    BY <1>3, <1>4 DEF PaidPayouts
  <2>2. SumOf(PaidPayouts, Amount) = SumOf(PaidPayouts, Amount')
    BY ONLY <2>1, SumAgrees
  <2>3. QED
    BY <1>3, <2>2 DEF PaidOut
<1>7. Explained'
  BY <1>1, <1>6, ChargedRest, PaidRest, GrantsRest DEF BalanceInv, Explained
<1>8. QED
  BY <1>1, <1>5, <1>7 DEF BalanceInv, ReservedIsOpen, MovesAway

\* A decision changes the status of one request, and no amount.
LEMMA AmountsStay ==
  ASSUME BalanceInv, NEW x \in Payout, NEW st \in {"approved", "paid", "rejected"},
         ProcessPayout(x, st)
  PROVE  /\ Amount' = Amount /\ Amount[x] = payout[x].amt /\ Amount[x] \in Nat
         /\ \A y \in Payout : payout'[y].st = IF y = x THEN st ELSE payout[y].st
         /\ payout[x].st \in Open \ {st}
<1>1. payout' = [payout EXCEPT ![x].st = st] /\ payout[x].st \in Open \ {st}
  BY DEF ProcessPayout
<1>2. \A y \in Payout : payout[y] \in [st : PayoutStatus, amt : Nat]
  BY DEF BalanceInv, LedgerInv, RowsOK
<1>3. \A y \in Payout : /\ payout'[y].amt = payout[y].amt
                        /\ payout'[y].st = IF y = x THEN st ELSE payout[y].st
  BY <1>1, <1>2 DEF BalanceInv, LedgerInv, RowsOK
<1>4. QED
  BY <1>1, <1>2, <1>3 DEF Amount

\* One open request less: its reservation is all given back, and nothing of the
\* others'.
LEMMA RequestCloses ==
  ASSUME BalanceInv, NEW x \in Payout, NEW st \in {"paid", "rejected"}, ProcessPayout(x, st)
  PROVE  ReservedIsOpen'
<1>1. OpenPayouts' = OpenPayouts \ {x} /\ x \in OpenPayouts
  BY AmountsStay DEF OpenPayouts, Open
<1>2. SumOf(OpenPayouts, Amount) = SumOf(OpenPayouts, Amount)' + Amount[x]
  <2>1. IsFiniteSet(OpenPayouts) /\ \A y \in OpenPayouts : Amount[y] \in Nat
    BY Finite, SummandTypes DEF BalanceInv
  <2>2. SumOf(OpenPayouts, Amount) = SumOf(OpenPayouts \ {x}, Amount) + Amount[x]
    BY ONLY <1>1, <2>1, SumLoses
  <2>3. QED
    BY <1>1, <2>2, AmountsStay
<1>3. SumOf(OpenPayouts, Amount)' \in Nat
  <2>1. /\ IsFiniteSet(OpenPayouts \ {x})
        /\ \A y \in OpenPayouts \ {x} : Amount[y] \in Nat
    BY Finite, SummandTypes, FS_RemoveElement DEF BalanceInv
  <2>2. SumOf(OpenPayouts \ {x}, Amount) \in Nat
    BY ONLY <2>1, UnitsFinite
  <2>3. QED
    BY <1>1, <2>2, AmountsStay
<1>4. reserved = SumOf(OpenPayouts, Amount)' + payout[x].amt /\ payout[x].amt \in Nat
  BY <1>2, AmountsStay DEF BalanceInv, ReservedIsOpen
<1>5. reserved' = reserved - payout[x].amt
  <2>1. ~(reserved < payout[x].amt) /\ st # "approved"
    BY <1>3, <1>4
  <2>2. QED
    BY <2>1 DEF ProcessPayout, Release
<1>6. QED
  BY <1>3, <1>4, <1>5 DEF ReservedIsOpen

LEMMA BalanceAfterDecision ==
  ASSUME BalanceInv, NEW x \in Payout, NEW st \in {"approved", "paid", "rejected"},
         ProcessPayout(x, st)
  PROVE  Explained' /\ ReservedIsOpen' /\ MovesAway'
<1>1. UNCHANGED <<welcome, moved, charged, method, discount, paid, taken, extra, h>>
  BY DEF ProcessPayout, bookings
<1>2. MovesAway'
  BY <1>1 DEF BalanceInv, MovesAway
<1>3. CASE st = "approved"
  <2>1. OpenPayouts' = OpenPayouts /\ PaidPayouts' = PaidPayouts
    BY <1>3, AmountsStay DEF OpenPayouts, PaidPayouts, Open
  <2>2. PaidOut' = PaidOut /\ SumOf(OpenPayouts, Amount)' = SumOf(OpenPayouts, Amount)
    BY <2>1, AmountsStay DEF PaidOut
  <2>3. bal' = bal /\ reserved' = reserved
    BY <1>3 DEF ProcessPayout, Release, BalanceInv, LedgerInv, RowsOK
  <2>4. Explained'
    BY <1>1, <2>2, <2>3, ChargedRest, PaidRest, GrantsRest DEF BalanceInv, Explained
  <2>5. QED
    BY <1>2, <2>2, <2>3, <2>4 DEF BalanceInv, ReservedIsOpen
<1>4. CASE st = "rejected"
  <2>1. PaidPayouts' = PaidPayouts
    BY <1>4, AmountsStay DEF PaidPayouts, Open
  <2>2. PaidOut' = PaidOut
    BY <2>1, AmountsStay DEF PaidOut
  <2>3. bal' = bal
    BY <1>4 DEF ProcessPayout
  <2>4. Explained'
    BY <1>1, <2>2, <2>3, ChargedRest, PaidRest, GrantsRest DEF BalanceInv, Explained
  <2>5. QED
    BY <1>2, <1>4, <2>4, RequestCloses
<1>5. CASE st = "paid"
  <2>1. PaidPayouts' = PaidPayouts \cup {x} /\ x \notin PaidPayouts
    BY <1>5, AmountsStay DEF PaidPayouts, Open
  <2>2. PaidOut' = PaidOut + payout[x].amt
    <3>1. /\ IsFiniteSet(PaidPayouts) /\ \A y \in PaidPayouts : Amount[y] \in Nat
          /\ Amount[x] \in Nat
      BY Finite, SummandTypes DEF BalanceInv
    <3>2. SumOf(PaidPayouts', Amount) = SumOf(PaidPayouts, Amount) + Amount[x]
      BY ONLY <2>1, <3>1, SumAdds
    <3>3. QED
      BY <3>2, AmountsStay DEF PaidOut
  <2>3. payout[x].amt \in Nat
    BY AmountsStay
  <2>4. Post("driver", -payout[x].amt)
    BY <1>5 DEF ProcessPayout
  <2>5. \A b \in Account : bal'[b] = IF b = "driver" THEN bal[b] + (-payout[x].amt) ELSE bal[b]
    BY <2>3, <2>4, Posting DEF BalanceInv, Account, DriverAccount
  <2>6. Explained'
    BY <1>1, <2>2, <2>3, <2>5, ChargedRest, PaidRest, GrantsRest, SumTypes, OneMore
    DEF BalanceInv, Explained, Account, DriverAccount
  <2>7. QED
    BY <1>2, <1>5, <2>6, RequestCloses
<1>6. QED
  BY <1>3, <1>4, <1>5

-----------------------------------------------------------------------------
(* Fines *)

LEMMA BalanceAfterDeduct ==
  ASSUME BalanceInv, NEW w \in Handler, DeductFromWallet(w)
  PROVE  Explained' /\ ReservedIsOpen' /\ MovesAway'
<1>1. UNCHANGED <<reserved, welcome, moved, charged, method, discount, paid, payout, extra>>
  BY DEF DeductFromWallet, bookings
<1>2. h[w].x \in Charge /\ h[w].pc = "deduct" /\ h[w].to \in {"idle", "reason"}
  BY HandlerFacts DEF DeductFromWallet, Knows, BalanceInv
<1>3. MovesAway'
  <2>1. /\ \A v \in Handler : v # w => h'[v] = h[v]
        /\ h'[w] = AfterDeduct(w) /\ h[w] \in HandlerRecord
    BY HandlerFacts DEF BalanceInv, DeductFromWallet
  <2>2. h'[w].pc # "move"
    BY <1>2, <2>1 DEF AfterDeduct, HandlerRecord, Idle
  <2>3. QED
    BY <1>1, <2>1, <2>2 DEF BalanceInv, MovesAway
<1>4. CASE Post("driver", -Fine) /\ taken' = [taken EXCEPT ![h[w].x] = @ + 1]
  <2>1. \A b \in Account : bal'[b] = IF b = "driver" THEN bal[b] + (-Fine) ELSE bal[b]
    BY <1>4, Posting DEF BalanceInv, Account, DriverAccount
  <2>2. PICK c \in Charge : c = h[w].x
    BY <1>2
  <2>3. /\ \A d \in Charge : taken[d] \in Nat
        /\ \A d \in Charge : taken'[d] = IF d = c THEN taken[d] + 1 ELSE taken[d]
    BY <1>4, <2>2 DEF BalanceInv, LedgerInv, RowsOK
  <2>4. \A d \in Charge : taken[d] \in Nat /\ taken'[d] \in Nat
    BY <2>3
  <2>5. SumOf(Charge, taken') = SumOf(Charge, taken) - taken[c] + taken'[c]
    BY ONLY <2>2, <2>3, <2>4, Finite, SumChanges
  <2>6. SumOf(Charge, taken)' = SumOf(Charge, taken) + 1
    BY <2>3, <2>5, SumTypes DEF BalanceInv
  <2>7. /\ Fine * SumOf(Charge, taken)' = Fine * SumOf(Charge, taken) + Fine
        /\ Fine * SumOf(Charge, taken) \in Nat
    BY <2>6, OneMore, SumTypes DEF BalanceInv
  <2>8. Explained'
    BY <1>1, <2>1, <2>7, ChargedRest, PaidRest, PayoutsRest, GrantsRest, SumTypes, OneMore
    DEF BalanceInv, Explained, Account, DriverAccount
  <2>9. QED
    BY <1>1, <1>3, <2>8, PayoutsRest DEF BalanceInv, ReservedIsOpen
<1>5. CASE UNCHANGED <<bal, taken>>
  BY <1>1, <1>3, <1>5, SumsRest DEF BalanceInv
<1>6. QED
  BY <1>4, <1>5 DEF DeductFromWallet

-----------------------------------------------------------------------------
(* The theorems *)

LEMMA BalanceInitially ==
  ASSUME Init
  PROVE  BalanceInv
<1>1. LedgerInv
  BY LedgerInitially
<1>2. ChargedTrips = {} /\ PaidTrips = {} /\ PaidByWallet = {}
  BY DEF Init, ChargedTrips, PaidTrips, PaidByWallet
<1>3. OpenPayouts = {} /\ PaidPayouts = {}
  BY DEF Init, OpenPayouts, PaidPayouts, Open
<1>4. \A f : SumOf({}, f) = 0
  <2>1. ASSUME NEW f PROVE Units({}, f) = {}
    BY DEF Units
  <2>2. QED
    BY <2>1, FS_EmptySet DEF SumOf
<1>5. SumOf(Charge, taken) = 0
  <2>1. ASSUME NEW p \in Units(Charge, taken) PROVE FALSE
    <3>1. PICK c \in Charge : \E n \in 1..taken[c] : p = <<c, n>>
      BY <2>1, UnitsHave
    <3>2. taken[c] = 0
      BY DEF Init
    <3>3. QED
      BY <3>1, <3>2
  <2>2. Units(Charge, taken) = {}
    BY <2>1
  <2>3. QED
    BY <2>2, FS_EmptySet DEF SumOf
<1>6. Cardinality({}) = 0
  BY FS_EmptySet
<1>7. Explained
  BY <1>2, <1>3, <1>4, <1>5, <1>6
  DEF Init, Explained, Promotions, PaidOut, Granted, Account, DriverAccount
<1>8. ReservedIsOpen
  BY <1>3, <1>4 DEF Init, ReservedIsOpen
<1>9. MovesAway
  BY DEF Init, Idle, MovesAway
<1>10. QED
  BY <1>1, <1>7, <1>8, <1>9 DEF BalanceInv

LEMMA BalanceInductive ==
  ASSUME BalanceInv, [Next]_vars
  PROVE  BalanceInv'
<1>1. LedgerInv'
  BY LedgerInductive DEF BalanceInv
<1> DEFINE Goal == Explained' /\ ReservedIsOpen' /\ MovesAway'
<1>2. ASSUME NEW w \in Handler, Trips(w) \/ Welcome(w) \/ Charges(w) PROVE Goal
  BY <1>2, RestAfterTrips, RestAfterCharges, RestAfterRelocate, BalanceAfterGrant
  DEF Trips, Welcome, Charges
<1>3. ASSUME NEW w \in Handler, HandlerStep(w) PROVE Goal
  BY <1>3, BalanceAfterMove, BalanceAfterCommission, BalanceAfterSettle, BalanceAfterDeduct,
     RestAfterSaveOrAbort
  DEF HandlerStep
<1>4. ASSUME NEW w \in Handler, Abort(w) PROVE Goal
  BY <1>4, RestAfterSaveOrAbort
<1>5. ASSUME ByHand PROVE Goal
  BY <1>5, BalanceAfterHand, BalanceAfterRequest, BalanceAfterDecision DEF ByHand
<1>6. ASSUME UNCHANGED vars PROVE Goal
  <2>1. UNCHANGED <<bal, reserved, welcome, moved, charged, method, discount, paid, payout,
                    taken, extra, h>>
    BY <1>6 DEF vars, accounts, bookings
  <2>2. MovesAway'
    BY <2>1 DEF BalanceInv, MovesAway
  <2>3. QED
    BY <2>1, <2>2, SumsRest DEF BalanceInv
<1>7. Goal
  BY <1>2, <1>3, <1>4, <1>5, <1>6 DEF Next
<1>8. QED
  BY <1>1, <1>7 DEF BalanceInv

\* Every reachable state of the ledger satisfies the invariant of the sums.
THEOREM BalanceInvariant == Spec => []BalanceInv
<1>1. Init => BalanceInv
  BY BalanceInitially
<1>2. BalanceInv /\ [Next]_vars => BalanceInv'
  BY BalanceInductive
<1>3. QED
  BY <1>1, <1>2, PTL DEF Spec

\* Every balance is what its causes add up to, each counted once: however the
\* handlers, failures, payouts and postings by hand interleave.
THEOREM BalancesExplained == Spec => []Explained
<1>1. BalanceInv => Explained
  BY DEF BalanceInv
<1>2. QED
  BY <1>1, BalanceInvariant, PTL

\* The money reserved on the account is that of the requests still open, so
\* that the floor under what a decision gives back is never needed.
THEOREM ReservedForOpen == Spec => []ReservedIsOpen
<1>1. BalanceInv => ReservedIsOpen
  BY DEF BalanceInv
<1>2. QED
  BY <1>1, BalanceInvariant, PTL

=============================================================================
