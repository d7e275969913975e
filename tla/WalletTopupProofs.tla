--------------------------- MODULE WalletTopupProofs ---------------------------
(***************************************************************************)
(* Theorems of WalletTopup, for any number of payments, handlers, polls,   *)
(* looks, decisions, stalled workers and faults.                           *)
(*                                                                         *)
(* TopupInv joins the types and the properties to what a handler knows at  *)
(* each program counter (Knows).  A handler acts on an old read of the     *)
(* payment, so what it knows must be something no other handler takes      *)
(* back: that the bank has paid, that an entry is in the ledger, how the   *)
(* payment is made.  Only a request on its way to the bank needs more: it  *)
(* must be the only one (OneRequest), or its answer would hide a payment.  *)
(***************************************************************************)
EXTENDS WalletTopup, TLAPS

HandlerRecord ==
  [pc : Pc, p : Payment \cup {NoPayment}, k : 0..Attempts,
   by : {"nobody", "create", "poll", "screen", "desk", "user"}]

Credited(p) == \E k \in Key : credits[p][k] > 0

\* Who can be at which program counter.
Places(x) ==
  /\ x.pc \in {"purchase", "answer", "reference", "enqueue", "refuse"} => x.by = "create"
  /\ x.pc = "inquire" => x.by \in {"poll", "screen"}
  /\ x.pc \in {"again", "note"} => x.by = "poll"
  /\ x.pc \in {"credit", "approve"} => x.by \in {"poll", "screen", "desk"}
  /\ x.pc = "reject" => x.by \in {"screen", "desk"}
  /\ x.pc = "edit" => x.by = "user"
  /\ x.pc = "idle" => x.by = "nobody"
  /\ x.by = "poll" => x.k \in 1..Attempts

\* What a handler in state x has learnt and relies on.
Knows(x) ==
  /\ Places(x)
  /\ x.pc # "idle" => x.p \in Payment /\ status[x.p] # "none"
  /\ x.pc = "purchase" => bank[x.p] = "none"
  /\ x.pc = "credit" /\ x.by # "desk" => bank[x.p] = "paid"
  /\ x.pc = "approve" => Credited(x.p)
  /\ x.pc = "edit" => method[x.p] = "manual"
  /\ x.pc = "note" => ~Flawless

\* The rows, the ledger, the queue and the bounds keep their types.
RowsOK ==
  /\ status \in [Payment -> Status]
  /\ method \in [Payment -> {"none", "manual", "cliq_a2a"}]
  /\ bank \in [Payment -> {"none", "asked", "paid", "failed"}]
  /\ credits \in [Payment -> [Key -> Nat]]
  /\ polls \subseteq Poll
  /\ looks \in Nat /\ desk \in Nat /\ stalls \in Nat /\ faults \in Nat
  /\ faults <= MaxFaults
  /\ \A p \in Payment : status[p] = "none" => bank[p] = "none"

HandlersOK ==
  /\ h \in [Handler -> HandlerRecord]
  /\ \A w \in Handler : Knows(h[w])

\* A payment is asked for at the bank by one handler.
OneRequest ==
  \A v, w \in Handler : h[v].pc = "purchase" /\ h[w].pc = "purchase" /\ v # w => h[v].p # h[w].p

LedgerOK == ApprovedIsCredited /\ CreditIsConfirmed

TopupInv == RowsOK /\ HandlersOK /\ OneRequest /\ LedgerOK /\ PendingIsWatched

USE TopupAssumption DEF TopupAssumption

-----------------------------------------------------------------------------
(* What a step may never take back *)

Stays ==
  /\ \A p \in Payment : status[p] # "none" => status'[p] # "none" /\ method'[p] = method[p]
  /\ \A p \in Payment : bank[p] = "paid" => bank'[p] = "paid"
  /\ \A p \in Payment, k \in Key : credits[p][k] > 0 => credits'[p][k] > 0
  /\ ~Flawless => ~Flawless'

\* No request is on its way for a payment whose bank hears something now.
OthersUnasked(w) ==
  \A v \in Handler \ {w} : h[v].pc = "purchase" => bank'[h[v].p] = bank[h[v].p]

\* Only handler w moves, and it knows what its next step relies on.
Steps(w) == h' = [h EXCEPT ![w] = h'[w]] /\ h'[w] \in HandlerRecord
Moves(w) == Steps(w) /\ Knows(h[w])'

LEMMA KnowledgeStays ==
  ASSUME TopupInv, Stays, NEW v \in Handler, h'[v] = h[v],
         h[v].pc = "purchase" => bank'[h[v].p] = bank[h[v].p]
  PROVE  Knows(h[v])'
<1>1. h[v] \in HandlerRecord /\ Knows(h[v])
  BY DEF TopupInv, HandlersOK
<1>2. \A p \in Payment : Credited(p) => Credited(p)'
  BY DEF Stays, Credited
<1>3. QED
  BY <1>1, <1>2 DEF Knows, Places, Stays, HandlerRecord

LEMMA KnowersMove ==
  ASSUME TopupInv, Stays, NEW w \in Handler, Moves(w), OthersUnasked(w)
  PROVE  HandlersOK'
<1>1. h' \in [Handler -> HandlerRecord]
  BY DEF TopupInv, HandlersOK, Moves, Steps
<1>2. ASSUME NEW v \in Handler PROVE Knows(h[v])'
  <2>1. CASE v = w
    BY <2>1 DEF Moves
  <2>2. CASE v # w
    BY <2>2, KnowledgeStays DEF TopupInv, HandlersOK, Moves, Steps, OthersUnasked
  <2>3. QED
    BY <2>1, <2>2
<1>3. QED
  BY <1>1, <1>2 DEF HandlersOK

LEMMA HandlerFacts ==
  ASSUME TopupInv, NEW w \in Handler
  PROVE  h \in [Handler -> HandlerRecord] /\ h[w] \in HandlerRecord /\ Knows(h[w])
BY DEF TopupInv, HandlersOK

\* A handler that asks no bank leaves the requests of the others alone.
LEMMA RequestsRest ==
  ASSUME TopupInv, NEW w \in Handler, Moves(w), h'[w].pc # "purchase"
  PROVE  OneRequest'
<1>1. \A v \in Handler : h'[v].pc = "purchase" => v # w /\ h'[v] = h[v]
  BY HandlerFacts DEF Moves, Steps
<1>2. QED
  BY <1>1 DEF TopupInv, OneRequest

\* Somebody sees to the CliQ payment p.
Watched(p) ==
  \/ \E k \in 1..Attempts : <<p, k>> \in polls
  \/ \E w \in Handler : h[w].p = p /\ h[w].by \in {"create", "poll"}

\* What a step of handler w owes the payments that wait.
LEMMA WatchStays ==
  ASSUME TopupInv, NEW w \in Handler, Moves(w),
         Flawless' => Flawless,
         NEW q, h[w].pc # "idle" => q = h[w].p,
         \A p \in Payment \ {q} :
           status'[p] = status[p] /\ method'[p] = method[p]
             /\ \A k \in 1..Attempts : <<p, k>> \in polls => <<p, k>> \in polls',
         Flawless' /\ q \in Payment /\ status'[q] = "pending" /\ method'[q] = "cliq_a2a"
           => Watched(q)'
  PROVE  PendingIsWatched'
<1>1. SUFFICES ASSUME Flawless', NEW p \in Payment \ {q}, status'[p] = "pending",
                      method'[p] = "cliq_a2a"
               PROVE  Watched(p)'
  BY DEF PendingIsWatched, Watched
<1>2. Watched(p)
  BY <1>1 DEF TopupInv, PendingIsWatched, Watched
<1>3. CASE \E k \in 1..Attempts : <<p, k>> \in polls
  BY <1>1, <1>3 DEF Watched
<1>4. CASE \E v \in Handler : h[v].p = p /\ h[v].by \in {"create", "poll"}
  <2>1. PICK v \in Handler : h[v].p = p /\ h[v].by \in {"create", "poll"}
    BY <1>4
  <2>2. v # w
    BY <2>1, <1>1, HandlerFacts DEF Knows, Places
  <2>3. h'[v] = h[v]
    BY <2>2, HandlerFacts DEF Moves, Steps
  <2>4. QED
    BY <2>1, <2>3 DEF Watched
<1>5. QED
  BY <1>2, <1>3, <1>4 DEF Watched

\* A handler at work answers for its own payment only.
LEMMA WatchOn ==
  ASSUME TopupInv, NEW w \in Handler, Moves(w), h[w].pc # "idle", NEW q, q = h[w].p,
         UNCHANGED <<method, budget>>, polls \subseteq polls',
         \A p \in Payment \ {q} : status'[p] = status[p],
         \/ Watched(q)'
         \/ status'[q] # "pending"
         \/ method[q] # "cliq_a2a"
  PROVE  PendingIsWatched'
<1>1. Flawless' => Flawless
  BY DEF Flawless, budget
<1>2. \A p \in Payment \ {q} :
        status'[p] = status[p] /\ method'[p] = method[p]
          /\ \A k \in 1..Attempts : <<p, k>> \in polls => <<p, k>> \in polls'
  OBVIOUS
<1>3. Flawless' /\ q \in Payment /\ status'[q] = "pending" /\ method'[q] = "cliq_a2a"
        => Watched(q)'
  OBVIOUS
<1>4. QED
  BY <1>1, <1>2, <1>3, WatchStays

\* A handler that was not watching is not missed.
LEMMA UnwatchedGoes ==
  ASSUME TopupInv, NEW w \in Handler, Moves(w), h[w].by \notin {"create", "poll"},
         UNCHANGED <<rows, polls, faults>>
  PROVE  PendingIsWatched'
<1>1. SUFFICES ASSUME Flawless', NEW p \in Payment, status'[p] = "pending",
                      method'[p] = "cliq_a2a"
               PROVE  Watched(p)'
  BY DEF PendingIsWatched, Watched
<1>2. Watched(p)
  BY <1>1 DEF TopupInv, PendingIsWatched, Watched, rows, Flawless
<1>3. CASE \E k \in 1..Attempts : <<p, k>> \in polls
  BY <1>3 DEF Watched
<1>4. CASE \E v \in Handler : h[v].p = p /\ h[v].by \in {"create", "poll"}
  <2>1. PICK v \in Handler : h[v].p = p /\ h[v].by \in {"create", "poll"}
    BY <1>4
  <2>2. v # w /\ h'[v] = h[v]
    BY <2>1, HandlerFacts DEF Moves, Steps
  <2>3. QED
    BY <2>1, <2>2 DEF Watched
<1>5. QED
  BY <1>2, <1>3, <1>4 DEF Watched

-----------------------------------------------------------------------------
(* Handler steps *)

\* The rows of the tables that most steps leave alone.
LEMMA LedgerRests ==
  ASSUME TopupInv, UNCHANGED credits,
         \A p \in Payment : status'[p] = "approved" => status[p] = "approved" \/ Credited(p),
         \A p \in Payment : bank[p] = "paid" => bank'[p] = "paid"
  PROVE  LedgerOK'
BY DEF TopupInv, LedgerOK, ApprovedIsCredited, CreditIsConfirmed, Credited

\* A step that leaves rows, bank and ledger alone.
LEMMA OnlyMoves ==
  ASSUME TopupInv, NEW w \in Handler, UNCHANGED <<rows, bank, credits>>, Moves(w),
         polls' \subseteq Poll, looks' \in Nat, desk' \in Nat, stalls' \in Nat,
         faults' \in Nat, faults' <= faults, h'[w].pc # "purchase", PendingIsWatched'
  PROVE  TopupInv'
<1>1. RowsOK'
  BY DEF TopupInv, RowsOK, rows
<1>2. Stays /\ OthersUnasked(w)
  BY DEF Stays, OthersUnasked, rows, Flawless, TopupInv, RowsOK
<1>3. LedgerOK'
  BY LedgerRests DEF rows
<1>4. QED
  BY <1>1, <1>2, <1>3, KnowersMove, RequestsRest DEF TopupInv

\* A step that saves its payment with status st.
LEMMA Saves ==
  ASSUME TopupInv, NEW w \in Handler, h[w].pc # "idle", NEW st \in Status \ {"none"}, Save(w, st),
         UNCHANGED <<method, bank, credits, budget>>, Moves(w), polls' \subseteq Poll,
         st = "approved" => Credited(h[w].p), h'[w].pc # "purchase", PendingIsWatched'
  PROVE  TopupInv'
<1>1. h[w].p \in Payment /\ status[h[w].p] # "none"
  BY HandlerFacts DEF Knows
<1>2. status' = [status EXCEPT ![h[w].p] = st] /\ status \in [Payment -> Status]
  BY DEF Save, TopupInv, RowsOK
<1>3. RowsOK'
  BY <1>1, <1>2 DEF TopupInv, RowsOK, budget
<1>4. Stays /\ OthersUnasked(w)
  BY <1>1, <1>2 DEF Stays, OthersUnasked, budget, Flawless
<1>5. LedgerOK'
  BY <1>1, <1>2, LedgerRests
<1>6. QED
  BY <1>3, <1>4, <1>5, KnowersMove, RequestsRest DEF TopupInv

\* A handler at the program counter it goes to.
LEMMA GoesTo ==
  ASSUME TopupInv, NEW w \in Handler, NEW pc \in Pc, Goto(w, pc)
  PROVE  Steps(w) /\ h'[w].pc = pc /\ h'[w].p = h[w].p /\ h'[w].by = h[w].by /\ h'[w].k = h[w].k
<1>1. h'[w] = [h[w] EXCEPT !.pc = pc]
  BY HandlerFacts DEF Goto
<1>2. h'[w] \in HandlerRecord
  BY <1>1, HandlerFacts DEF HandlerRecord
<1>3. h' = [h EXCEPT ![w] = h'[w]]
  BY <1>1, HandlerFacts DEF Goto
<1>4. QED
  BY <1>1, <1>2, <1>3, HandlerFacts DEF HandlerRecord, Steps

LEMMA Ends ==
  ASSUME TopupInv, NEW w \in Handler, Done(w)
  PROVE  h'[w].pc = "idle" /\ Moves(w)
<1>1. h'[w] = Idle /\ h' = [h EXCEPT ![w] = h'[w]]
  BY HandlerFacts DEF Done
<1>2. h'[w] \in HandlerRecord
  BY <1>1 DEF HandlerRecord, Idle, Pc
<1>3. h'[w].pc = "idle" /\ h'[w].by = "nobody"
  BY <1>1 DEF Idle
<1>4. Knows(h[w])'
  BY <1>3 DEF Knows, Places
<1>5. QED
  BY <1>1, <1>2, <1>3, <1>4 DEF Moves, Steps

LEMMA Starts ==
  ASSUME TopupInv, NEW w \in Handler, NEW p \in Payment, NEW pc \in Pc,
         NEW by \in {"create", "poll", "screen", "desk", "user"}, NEW k \in 0..Attempts,
         Begin(w, p, pc, by, k)
  PROVE  /\ h[w] = Idle /\ Steps(w)
         /\ h'[w].pc = pc /\ h'[w].p = p /\ h'[w].by = by /\ h'[w].k = k
<1>1. h[w] = Idle /\ h'[w] = [pc |-> pc, p |-> p, k |-> k, by |-> by]
  BY HandlerFacts DEF Begin
<1>2. h'[w] \in HandlerRecord
  BY <1>1 DEF HandlerRecord
<1>3. h' = [h EXCEPT ![w] = h'[w]]
  BY <1>1, HandlerFacts DEF Begin
<1>4. QED
  BY <1>1, <1>2, <1>3 DEF Steps

LEMMA AfterPurchase ==
  ASSUME TopupInv, NEW w \in Handler, Purchase(w)
  PROVE  TopupInv'
<1>0. PICK p : p = h[w].p
  OBVIOUS
<1>1. PICK seen \in {"asked", "none"} : bank' = [bank EXCEPT ![p] = seen]
  BY <1>0 DEF Purchase
<1>2. /\ h[w].pc = "purchase" /\ p \in Payment /\ status[p] # "none" /\ bank[p] = "none"
      /\ Places(h[w])
      /\ UNCHANGED <<status, method, credits, polls, budget>>
  BY <1>0, HandlerFacts DEF Purchase, Knows, rows
<1>3. "answer" \in Pc /\ Goto(w, "answer")
  BY <1>0 DEF Purchase, Pc
<1>4. Moves(w) /\ h'[w].pc = "answer" /\ h'[w].p = p /\ h'[w].by = "create"
  <2>1. /\ Steps(w) /\ h'[w].pc = "answer" /\ h'[w].p = p /\ h'[w].by = "create"
    BY <1>0, <1>2, <1>3, GoesTo DEF Places
  <2>2. Knows(h[w])'
    BY <1>0, <1>2, <2>1 DEF Knows, Places
  <2>3. QED
    BY <1>0, <2>1, <2>2 DEF Moves
<1>5. RowsOK'
  BY <1>0, <1>1, <1>2 DEF TopupInv, RowsOK, Purchase, rows, budget
<1>6. Stays
  BY <1>0, <1>1, <1>2 DEF Stays, Purchase, rows, budget, Flawless, TopupInv, RowsOK
<1>7. OthersUnasked(w)
  BY <1>0, <1>1, <1>2 DEF OthersUnasked, TopupInv, OneRequest, RowsOK
<1>8. LedgerOK'
  BY <1>0, <1>1, <1>2, LedgerRests DEF Purchase, rows, TopupInv, RowsOK
<1>9. Watched(p)'
  BY <1>0, <1>2, <1>4 DEF Watched, Places
<1>10. PendingIsWatched'
  BY <1>0, <1>2, <1>4, <1>9, WatchOn
<1>11. QED
  BY <1>0, <1>4, <1>5, <1>6, <1>7, <1>8, <1>10, KnowersMove, RequestsRest DEF TopupInv

\* The handler that made the payment moves on and goes on watching it.
LEMMA CreatorGoes ==
  ASSUME TopupInv, NEW w \in Handler, h[w].pc \in {"answer", "reference"},
         NEW pc \in {"reference", "enqueue", "refuse"}, Goto(w, pc),
         UNCHANGED <<method, polls, budget>>,
         \A q \in Payment \ {h[w].p} : status'[q] = status[q],
         status'[h[w].p] # "none"
  PROVE  Moves(w) /\ h'[w].pc # "purchase" /\ PendingIsWatched'
<1>1. h[w].by = "create" /\ h[w].p \in Payment
  BY HandlerFacts DEF Knows, Places
<1>2. pc \in Pc
  BY DEF Pc
<1>3. Moves(w) /\ h'[w].pc = pc /\ h'[w].p = h[w].p /\ h'[w].by = "create"
  <2>1. Steps(w) /\ h'[w].pc = pc /\ h'[w].p = h[w].p /\ h'[w].by = "create"
    BY <1>1, <1>2, GoesTo
  <2>2. Knows(h[w])'
    BY <1>1, <2>1 DEF Knows, Places
  <2>3. QED
    BY <2>1, <2>2 DEF Moves
<1>4. PICK q : q = h[w].p
  OBVIOUS
<1>5. PendingIsWatched'
  <2>1. Watched(q)'
    BY <1>3, <1>4 DEF Watched
  <2>2. QED
    BY <1>3, <1>4, <2>1, WatchOn
<1>6. QED
  BY <1>3, <1>5

LEMMA AfterPurchaseAnswers ==
  ASSUME TopupInv, NEW w \in Handler, PurchaseAnswers(w)
  PROVE  TopupInv'
<1>1. PICK pc \in {"reference", "enqueue", "refuse"} : Goto(w, pc)
  BY DEF PurchaseAnswers
<1>2. h[w].p \in Payment /\ status[h[w].p] # "none"
  BY HandlerFacts DEF Knows, PurchaseAnswers
<1>3. Moves(w) /\ h'[w].pc # "purchase" /\ PendingIsWatched'
  BY <1>1, <1>2, CreatorGoes DEF PurchaseAnswers, rows
<1>4. QED
  BY <1>3, OnlyMoves DEF PurchaseAnswers, budget, TopupInv, RowsOK

LEMMA AfterSaveReference ==
  ASSUME TopupInv, NEW w \in Handler, SaveReference(w)
  PROVE  TopupInv'
<1>1. PICK pc \in {"enqueue", "refuse"} : Goto(w, pc)
  BY DEF SaveReference
<1>2. h[w].p \in Payment /\ status \in [Payment -> Status]
  BY HandlerFacts DEF Knows, SaveReference, TopupInv, RowsOK
<1>3. Moves(w) /\ h'[w].pc # "purchase" /\ PendingIsWatched'
  BY <1>1, <1>2, CreatorGoes DEF SaveReference, Save
<1>4. QED
  BY <1>3, Saves DEF SaveReference, TopupInv, RowsOK, Status

LEMMA AfterPollCliqTopup ==
  ASSUME TopupInv, NEW w \in Handler, PollCliqTopup(w)
  PROVE  TopupInv'
<1>0. PICK p : p = h[w].p
  OBVIOUS
<1>1. p \in Payment /\ h[w].pc = "enqueue" /\ 1 \in 1..Attempts
  BY <1>0, HandlerFacts DEF Knows, PollCliqTopup
<1>2. Moves(w) /\ h'[w].pc = "idle"
  BY <1>0, Ends DEF PollCliqTopup
<1>3. polls' \subseteq Poll /\ <<p, 1>> \in polls' /\ polls \subseteq polls'
  BY <1>0, <1>1 DEF PollCliqTopup, Poll, TopupInv, RowsOK
<1>4. Watched(p)'
  BY <1>0, <1>1, <1>3 DEF Watched
<1>5. PendingIsWatched'
  BY <1>0, <1>1, <1>2, <1>3, <1>4, WatchOn DEF PollCliqTopup, rows
<1>6. QED
  BY <1>0, <1>2, <1>3, <1>5, OnlyMoves DEF PollCliqTopup, budget, TopupInv, RowsOK

\* A handler that ends its payment is not missed.
LEMMA LastSave ==
  ASSUME TopupInv, NEW w \in Handler, h[w].pc # "idle", NEW st \in {"approved", "rejected"},
         Save(w, st), Done(w), UNCHANGED <<method, bank, credits, polls, budget>>,
         st = "approved" => Credited(h[w].p)
  PROVE  TopupInv'
<1>1. h[w].p \in Payment /\ status \in [Payment -> Status]
  BY HandlerFacts DEF Knows, TopupInv, RowsOK
<1>2. Moves(w) /\ h'[w].pc = "idle"
  BY Ends
<1>3. status'[h[w].p] # "pending" /\ \A q \in Payment \ {h[w].p} : status'[q] = status[q]
  BY <1>1 DEF Save
<1>4. PendingIsWatched'
  BY <1>1, <1>2, <1>3, WatchOn
<1>5. QED
  BY <1>2, <1>4, Saves DEF TopupInv, RowsOK, Status

LEMMA AfterInquire ==
  ASSUME TopupInv, NEW w \in Handler, Inquire(w)
  PROVE  TopupInv'
<1>0. PICK p : p = h[w].p
  OBVIOUS
<1>1. /\ p \in Payment /\ status[p] # "none" /\ h[w].by \in {"poll", "screen"}
      /\ h[w].by = "poll" => h[w].k \in 1..Attempts
      /\ UNCHANGED <<status, method, bank, credits, polls, budget>> /\ h[w].pc # "idle"
  BY <1>0, HandlerFacts DEF Knows, Places, Inquire, rows
<1>2. ASSUME NEW pc \in {"credit", "again", "reject"}, Goto(w, pc),
             pc = "credit" => bank[p] = "paid", pc = "again" => h[w].by = "poll",
             pc = "reject" => h[w].by = "screen"
      PROVE  Moves(w) /\ h'[w].pc = pc /\ h'[w].p = p /\ h'[w].by = h[w].by
  <2>1. pc \in Pc
    BY <1>0 DEF Pc
  <2>2. Steps(w) /\ h'[w].pc = pc /\ h'[w].p = p /\ h'[w].by = h[w].by /\ h'[w].k = h[w].k
    BY <1>0, <1>2, <2>1, GoesTo
  <2>3. Knows(h[w])'
    BY <1>0, <1>1, <1>2, <2>2 DEF Knows, Places
  <2>4. QED
    BY <1>0, <2>2, <2>3 DEF Moves
<1>3. /\ Moves(w) /\ h'[w].pc # "purchase"
      /\ h[w].by = "poll" => h'[w].p = p /\ h'[w].by = "poll"
  BY <1>0, <1>2, Ends DEF Inquire, BankConfirms
<1>4. PendingIsWatched'
  <2>1. CASE h[w].by = "poll"
    <3>1. Watched(p)'
      BY <1>0, <1>3, <2>1 DEF Watched
    <3>2. QED
      BY <1>0, <1>1, <1>3, <3>1, WatchOn
  <2>2. CASE h[w].by = "screen"
    BY <1>0, <2>2, <1>1, <1>3, UnwatchedGoes DEF rows, budget
  <2>3. QED
    BY <1>0, <1>1, <2>1, <2>2
<1>5. QED
  BY <1>0, <1>1, <1>3, <1>4, OnlyMoves DEF budget, TopupInv, RowsOK, rows

LEMMA AfterScheduleNextOrFail ==
  ASSUME TopupInv, NEW w \in Handler, ScheduleNextOrFail(w)
  PROVE  TopupInv'
<1>0. PICK p : p = h[w].p
  OBVIOUS
<1>1. /\ p \in Payment /\ h[w].k \in 1..Attempts /\ Moves(w) /\ h'[w].pc = "idle"
      /\ h[w].pc = "again"
  BY <1>0, Ends, HandlerFacts DEF Knows, Places, ScheduleNextOrFail
<1>2. CASE Save(w, "rejected") /\ UNCHANGED polls
  BY <1>0, <1>1, <1>2, LastSave DEF ScheduleNextOrFail
<1>3. CASE ~LastAttempt(w) /\ UNCHANGED status /\ polls' = polls \cup {<<p, h[w].k + 1>>}
  <2>1. h[w].k + 1 \in 1..Attempts
    BY <1>0, <1>1, <1>3 DEF LastAttempt
  <2>2. polls' \subseteq Poll /\ polls \subseteq polls' /\ <<p, h[w].k + 1>> \in polls'
    BY <1>0, <1>1, <1>3, <2>1 DEF Poll, TopupInv, RowsOK
  <2>3. Watched(p)'
    BY <1>0, <2>1, <2>2 DEF Watched
  <2>4. PendingIsWatched'
    BY <1>0, <1>1, <1>3, <2>2, <2>3, WatchOn DEF ScheduleNextOrFail
  <2>5. QED
    BY <1>0, <1>1, <1>3, <2>2, <2>4, OnlyMoves
    DEF ScheduleNextOrFail, rows, budget, TopupInv, RowsOK
<1>4. QED
  BY <1>0, <1>2, <1>3 DEF ScheduleNextOrFail

LEMMA AfterCredit ==
  ASSUME TopupInv, NEW w \in Handler, Credit(w)
  PROVE  TopupInv'
<1>0. PICK p : p = h[w].p
  OBVIOUS
<1> DEFINE key == KeyOf(h[w].by)
<1>1. /\ p \in Payment /\ status[p] # "none" /\ Places(h[w]) /\ h[w].pc = "credit"
      /\ h[w].by # "desk" => bank[p] = "paid"
      /\ h[w] \in HandlerRecord /\ credits \in [Payment -> [Key -> Nat]]
  BY <1>0, HandlerFacts DEF Knows, Credit, TopupInv, RowsOK
<1>2. key \in Key /\ (key = "cliq-topup" => h[w].by # "desk")
  BY <1>0 DEF KeyOf, Key
<1>3. credits' = IF credits[p][key] = 0 THEN [credits EXCEPT ![p][key] = @ + 1] ELSE credits
  BY <1>0 DEF Credit, CreditPostedTopup
<1>4. /\ credits' \in [Payment -> [Key -> Nat]]
      /\ \A q \in Payment, k \in Key :
           credits'[q][k] = IF q = p /\ k = key /\ credits[p][key] = 0 THEN 1 ELSE credits[q][k]
      /\ Credited(p)'
  BY <1>0, <1>1, <1>2, <1>3 DEF Credited
<1>5. "approve" \in Pc /\ Goto(w, "approve")
  BY <1>0 DEF Credit, Pc
<1>6. Moves(w) /\ h'[w].pc = "approve" /\ h'[w].p = p /\ h'[w].by = h[w].by
  <2>1. /\ Steps(w) /\ h'[w].pc = "approve" /\ h'[w].p = p
        /\ h'[w].by = h[w].by /\ h'[w].k = h[w].k
    BY <1>0, <1>5, GoesTo
  <2>2. status' = status
    BY <1>0 DEF Credit, rows
  <2>3. Knows(h[w])'
    BY <1>0, <1>1, <1>4, <2>1, <2>2 DEF Knows, Places
  <2>4. QED
    BY <1>0, <2>1, <2>3 DEF Moves
<1>7. RowsOK'
  BY <1>0, <1>4 DEF TopupInv, RowsOK, Credit, rows, budget
<1>8. Stays /\ OthersUnasked(w)
  BY <1>0, <1>4 DEF Stays, OthersUnasked, Credit, rows, budget, Flawless
<1>9. LedgerOK'
  <2>1. ApprovedIsCredited'
    BY <1>0, <1>4 DEF TopupInv, LedgerOK, ApprovedIsCredited, Credit, rows, RowsOK, Key
  <2>2. CreditIsConfirmed'
    BY <1>0, <1>1, <1>2, <1>4 DEF TopupInv, LedgerOK, CreditIsConfirmed, Credit, Key
  <2>3. QED
    BY <1>0, <2>1, <2>2 DEF LedgerOK
<1>10. PendingIsWatched'
  <2>1. CASE h[w].by = "poll"
    <3>1. Watched(p)'
      BY <1>0, <1>6, <2>1 DEF Watched
    <3>2. QED
      BY <1>0, <1>1, <1>6, <3>1, WatchOn DEF Credit, rows
  <2>2. CASE h[w].by # "poll"
    BY <1>0, <1>1, <1>6, <2>2, UnwatchedGoes DEF Credit, Places, budget
  <2>3. QED
    BY <1>0, <2>1, <2>2
<1>11. QED
  BY <1>0, <1>6, <1>7, <1>8, <1>9, <1>10, KnowersMove, RequestsRest DEF TopupInv

\* Who adds to a receipt has a manual payment in hand, which nobody watches.
LEMMA AfterSaveReceipt ==
  ASSUME TopupInv, NEW w \in Handler, SaveReceipt(w)
  PROVE  TopupInv'
<1>0. PICK p : p = h[w].p
  OBVIOUS
<1>1. p \in Payment /\ method[p] = "manual" /\ status \in [Payment -> Status] /\ h[w].pc = "edit"
  BY <1>0, HandlerFacts DEF Knows, SaveReceipt, TopupInv, RowsOK
<1>2. Moves(w) /\ h'[w].pc = "idle"
  BY <1>0, Ends DEF SaveReceipt
<1>3. PendingIsWatched'
  BY <1>0, <1>1, <1>2, WatchOn DEF SaveReceipt, Save
<1>4. QED
  BY <1>0, <1>2, <1>3, Saves DEF SaveReceipt, TopupInv, RowsOK, Status

LEMMA AfterSaveNote ==
  ASSUME TopupInv, NEW w \in Handler, SaveNote(w)
  PROVE  TopupInv'
<1>1. ~Flawless'
  BY HandlerFacts DEF Knows, SaveNote, budget, Flawless
<1>2. Moves(w) /\ h'[w].pc = "idle"
  BY Ends DEF SaveNote
<1>3. PendingIsWatched'
  BY <1>1 DEF PendingIsWatched
<1>4. QED
  BY <1>2, <1>3, Saves DEF SaveNote, TopupInv, RowsOK, Status

LEMMA HandlerSteps ==
  ASSUME TopupInv, NEW w \in Handler, HandlerStep(w)
  PROVE  TopupInv'
<1>1. CASE Refuse(w) \/ Reject(w)
  BY <1>1, LastSave DEF Refuse, Reject
<1>2. CASE Approve(w)
  BY <1>2, LastSave, HandlerFacts DEF Approve, Knows
<1>3. QED
  BY <1>1, <1>2, AfterPurchase, AfterPurchaseAnswers, AfterSaveReference, AfterPollCliqTopup,
     AfterInquire, AfterScheduleNextOrFail, AfterCredit, AfterSaveNote, AfterSaveReceipt
  DEF HandlerStep

-----------------------------------------------------------------------------
(* Steps of users, bank and queue, and failures *)

\* No handler moves.
LEMMA NobodyMoves ==
  ASSUME TopupInv, UNCHANGED <<credits, polls, h, budget>>, RowsOK', Stays,
         \A p \in Payment : bank[p] # "asked" => bank'[p] = bank[p],
         \A p \in Payment : status'[p] # "none" /\ status[p] = "none" =>
           status'[p] = "pending" /\ method'[p] = "manual",
         \A p \in Payment : status[p] # "none" => status'[p] = status[p]
  PROVE  TopupInv'
<1>1. HandlersOK'
  <2>1. ASSUME NEW v \in Handler PROVE Knows(h[v])'
    <3>1. h[v].pc = "purchase" => bank'[h[v].p] = bank[h[v].p]
      BY HandlerFacts DEF Knows
    <3>2. QED
      BY <3>1, KnowledgeStays
  <2>2. QED
    BY <2>1 DEF TopupInv, HandlersOK
<1>2. OneRequest'
  BY DEF TopupInv, OneRequest
<1>3. LedgerOK'
  <2>1. \A p \in Payment : status'[p] = "approved" => status[p] = "approved"
    OBVIOUS
  <2>2. QED
    BY <2>1, LedgerRests DEF Stays
<1>4. PendingIsWatched'
  <2>1. \A p \in Payment : status'[p] = "pending" /\ method'[p] = "cliq_a2a" =>
          status[p] = "pending" /\ method[p] = "cliq_a2a"
    BY DEF Stays
  <2>2. QED
    BY <2>1 DEF TopupInv, PendingIsWatched, budget, Flawless
<1>5. QED
  BY <1>1, <1>2, <1>3, <1>4 DEF TopupInv

LEMMA AfterCreateManual ==
  ASSUME TopupInv, NEW p \in Payment, CreateManual(p)
  PROVE  TopupInv'
<1>1. RowsOK'
  BY DEF TopupInv, RowsOK, CreateManual, Status, budget
<1>2. Stays
  BY DEF TopupInv, RowsOK, CreateManual, Stays, budget, Flawless
<1>3. /\ \A q \in Payment : status[q] # "none" => status'[q] = status[q]
      /\ \A q \in Payment : status'[q] # "none" /\ status[q] = "none" =>
           status'[q] = "pending" /\ method'[q] = "manual"
  BY DEF TopupInv, RowsOK, CreateManual
<1>4. QED
  BY <1>1, <1>2, <1>3, NobodyMoves DEF CreateManual

LEMMA AfterBankDecides ==
  ASSUME TopupInv, NEW p \in Payment, BankDecides(p)
  PROVE  TopupInv'
<1>1. RowsOK'
  BY DEF TopupInv, RowsOK, BankDecides, rows, budget
<1>2. Stays
  BY DEF TopupInv, RowsOK, BankDecides, Stays, rows, budget, Flawless
<1>3. \A q \in Payment : bank[q] # "asked" => bank'[q] = bank[q]
  BY DEF TopupInv, RowsOK, BankDecides
<1>4. QED
  BY <1>1, <1>2, <1>3, NobodyMoves DEF BankDecides, rows

\* A new payment belongs to the handler that makes it, and to no other yet.
LEMMA AfterCreateCliq ==
  ASSUME TopupInv, NEW w \in Handler, NEW p \in Payment, CreateCliq(w, p)
  PROVE  TopupInv'
<1>1. /\ status[p] = "none" /\ bank[p] = "none"
      /\ UNCHANGED <<bank, credits, polls, budget>>
      /\ status \in [Payment -> Status]
      /\ status' = [status EXCEPT ![p] = "pending"] /\ method' = [method EXCEPT ![p] = "cliq_a2a"]
      /\ Begin(w, p, "purchase", "create", 0)
  BY DEF CreateCliq, TopupInv, RowsOK
<1>2. "purchase" \in Pc /\ 0 \in 0..Attempts
  BY DEF Pc
<1>3. /\ h[w] = Idle /\ Steps(w)
      /\ h'[w].pc = "purchase" /\ h'[w].p = p /\ h'[w].by = "create"
  BY <1>1, <1>2, Starts
<1>4. Knows(h[w])'
  BY <1>1, <1>3 DEF Knows, Places
<1>5. Moves(w)
  BY <1>3, <1>4 DEF Moves
<1>6. RowsOK'
  BY <1>1 DEF TopupInv, RowsOK, budget, Status
<1>7. Stays /\ OthersUnasked(w)
  BY <1>1 DEF Stays, OthersUnasked, budget, Flawless, TopupInv, RowsOK
<1>8. OneRequest'
  <2>1. \A v \in Handler \ {w} : h'[v] = h[v]
    BY <1>3, HandlerFacts DEF Steps
  <2>2. \A v \in Handler \ {w} : h[v].pc = "purchase" => h[v].p # p
    BY <1>1, HandlerFacts DEF Knows
  <2>3. QED
    BY <1>3, <2>1, <2>2 DEF TopupInv, OneRequest
<1>9. LedgerOK'
  <2>1. \A q \in Payment : status'[q] = "approved" => status[q] = "approved"
    BY <1>1
  <2>2. QED
    BY <1>1, <2>1, LedgerRests
<1>10. PendingIsWatched'
  <2>1. Watched(p)'
    BY <1>3 DEF Watched
  <2>2. \A q \in Payment \ {p} :
          status'[q] = status[q] /\ method'[q] = method[q]
            /\ \A k \in 1..Attempts : <<q, k>> \in polls => <<q, k>> \in polls'
    BY <1>1 DEF TopupInv, RowsOK
  <2>3. h[w].pc # "idle" => p = h[w].p
    BY <1>3 DEF Idle
  <2>4. QED
    BY <1>1, <1>5, <2>1, <2>2, <2>3, WatchStays DEF budget, Flawless
<1>11. QED
  BY <1>5, <1>6, <1>7, <1>8, <1>9, <1>10, KnowersMove DEF TopupInv

\* A handler begins that asks no bank for money.
LEMMA Looks ==
  ASSUME TopupInv, NEW w \in Handler, NEW p \in Payment, NEW by \in {"screen", "desk", "user"},
         NEW pc \in {"inquire", "credit", "reject", "edit"}, Begin(w, p, pc, by, 0),
         UNCHANGED <<rows, bank, credits, polls, stalls, faults>>, looks' \in Nat, desk' \in Nat,
         status[p] = "pending", pc = "inquire" => by = "screen",
         pc \in {"credit", "reject"} => by = "desk",
         pc = "edit" => by = "user" /\ method[p] = "manual"
  PROVE  TopupInv'
<1>1. pc \in Pc /\ 0 \in 0..Attempts
  BY DEF Pc
<1>2. h[w] = Idle /\ Steps(w) /\ h'[w].pc = pc /\ h'[w].p = p /\ h'[w].by = by
  BY <1>1, Starts
<1>3. Knows(h[w])'
  BY <1>2 DEF Knows, Places, rows
<1>4. Moves(w)
  BY <1>2, <1>3 DEF Moves
<1>5. PendingIsWatched'
  <2>1. h[w].by \notin {"create", "poll"}
    BY <1>2 DEF Idle
  <2>2. QED
    BY <1>4, <2>1, UnwatchedGoes
<1>6. QED
  BY <1>2, <1>4, <1>5, OnlyMoves DEF TopupInv, RowsOK

LEMMA AfterUsers ==
  ASSUME TopupInv, NEW w \in Handler, NEW p \in Payment,
         Refresh(w, p) \/ AdminDecides(w, p) \/ UpdateManual(w, p)
  PROVE  TopupInv'
<1>1. looks \in Nat /\ desk \in Nat
  BY DEF TopupInv, RowsOK
<1>2. CASE Refresh(w, p)
  BY <1>1, <1>2, Looks DEF Refresh
<1>3. CASE AdminDecides(w, p)
  BY <1>1, <1>3, Looks DEF AdminDecides
<1>4. CASE UpdateManual(w, p)
  BY <1>1, <1>4, Looks DEF UpdateManual
<1>5. QED
  BY <1>2, <1>3, <1>4

LEMMA AfterPollFires ==
  ASSUME TopupInv, NEW w \in Handler, NEW p \in Payment, NEW k \in 1..Attempts, PollFires(w, p, k)
  PROVE  TopupInv'
<1>1. /\ polls' = polls \ {<<p, k>>} /\ UNCHANGED <<status, method, bank, credits, budget>>
      /\ polls' \subseteq Poll
  BY DEF PollFires, rows, TopupInv, RowsOK
<1>2. \A q \in Payment \ {p} :
        status'[q] = status[q] /\ method'[q] = method[q]
          /\ \A j \in 1..Attempts : <<q, j>> \in polls => <<q, j>> \in polls'
  BY <1>1
<1>3. CASE status[p] = "pending" /\ Begin(w, p, "inquire", "poll", k)
  <2>1. "inquire" \in Pc /\ k \in 0..Attempts
    BY DEF Pc
  <2>2. /\ h[w] = Idle /\ Steps(w) /\ h'[w].pc = "inquire" /\ h'[w].p = p
        /\ h'[w].by = "poll" /\ h'[w].k = k
    BY <1>3, <2>1, Starts
  <2>3. Knows(h[w])'
    BY <1>1, <1>3, <2>2 DEF Knows, Places
  <2>4. Moves(w)
    BY <2>2, <2>3 DEF Moves
  <2>5. Watched(p)'
    BY <2>2 DEF Watched
  <2>6. PendingIsWatched'
    <3>1. h[w].pc # "idle" => p = h[w].p
      BY <2>2 DEF Idle
    <3>2. QED
      BY <1>1, <1>2, <2>4, <2>5, <3>1, WatchStays DEF budget, Flawless
  <2>7. QED
    BY <1>1, <2>2, <2>4, <2>6, OnlyMoves DEF budget, rows, TopupInv, RowsOK
<1>4. CASE status[p] # "pending" /\ UNCHANGED h
  <2>1. HandlersOK' /\ OneRequest' /\ LedgerOK'
    BY <1>1, <1>4 DEF TopupInv, HandlersOK, OneRequest, LedgerOK, Knows, Places, Credited, Flawless,
       ApprovedIsCredited, CreditIsConfirmed, budget
  <2>2. PendingIsWatched'
    BY <1>1, <1>2, <1>4 DEF TopupInv, PendingIsWatched, Flawless, budget
  <2>3. QED
    BY <1>1, <2>1, <2>2 DEF TopupInv, RowsOK, budget
<1>5. QED
  BY <1>3, <1>4 DEF PollFires

LEMMA AfterFailures ==
  ASSUME TopupInv, NEW w \in Handler, CreditFails(w) \/ Redeliver(w) \/ Abort(w)
  PROVE  TopupInv'
<1>0. looks \in Nat /\ desk \in Nat /\ stalls \in Nat /\ faults \in Nat /\ faults <= MaxFaults
      /\ polls \subseteq Poll
  BY DEF TopupInv, RowsOK
<1>1. CASE CreditFails(w)
  <2>1. ~Flawless' /\ faults' \in Nat /\ faults' <= faults
    BY <1>0, <1>1 DEF CreditFails, Flawless
  <2>2. "note" \in Pc /\ Goto(w, "note") /\ h[w].by = "poll" /\ h[w].pc = "credit" /\ UNCHANGED rows
    BY <1>1 DEF CreditFails, Pc
  <2>3. Steps(w) /\ h'[w].pc = "note" /\ h'[w].p = h[w].p /\ h'[w].by = "poll" /\ h'[w].k = h[w].k
    BY <2>2, GoesTo
  <2>4. Knows(h[w])'
    BY <2>1, <2>2, <2>3, HandlerFacts DEF Knows, Places, rows
  <2>5. Moves(w) /\ PendingIsWatched'
    BY <2>1, <2>3, <2>4 DEF Moves, PendingIsWatched
  <2>6. QED
    BY <1>0, <1>1, <2>1, <2>3, <2>5, OnlyMoves DEF CreditFails
<1>2. CASE Redeliver(w)
  <2>0. PICK p : p = h[w].p
    OBVIOUS
  <2>1. p \in Payment /\ h[w].k \in 1..Attempts /\ h[w].pc # "idle" /\ stalls' \in Nat
    BY <1>0, <1>2, <2>0, HandlerFacts DEF Redeliver, Knows, Places
  <2>2. Moves(w) /\ h'[w].pc = "idle"
    BY <1>2, Ends DEF Redeliver
  <2>3. polls' \subseteq Poll /\ polls \subseteq polls' /\ <<p, h[w].k>> \in polls'
    BY <1>0, <1>2, <2>0, <2>1 DEF Redeliver, Poll
  <2>4. Watched(p)'
    BY <2>1, <2>3 DEF Watched
  <2>5. \A q \in Payment \ {p} :
          status'[q] = status[q] /\ method'[q] = method[q]
            /\ \A j \in 1..Attempts : <<q, j>> \in polls => <<q, j>> \in polls'
    BY <1>2, <2>3 DEF Redeliver, rows
  <2>6. PendingIsWatched'
    BY <1>2, <2>0, <2>2, <2>4, <2>5, WatchStays DEF Redeliver, Flawless
  <2>7. QED
    BY <1>0, <1>2, <2>1, <2>2, <2>3, <2>6, OnlyMoves DEF Redeliver
<1>3. CASE Abort(w)
  <2>1. ~Flawless' /\ faults' \in Nat /\ faults' <= faults
    BY <1>0, <1>3 DEF Abort, Flawless
  <2>2. Moves(w) /\ h'[w].pc = "idle" /\ PendingIsWatched'
    BY <1>3, <2>1, Ends DEF Abort, PendingIsWatched
  <2>3. QED
    BY <1>0, <1>3, <2>1, <2>2, OnlyMoves DEF Abort
<1>4. QED
  BY <1>1, <1>2, <1>3

-----------------------------------------------------------------------------
(* Theorems *)

\* Nothing is asked for at first, and every step keeps what is known.
LEMMA Inductive == Spec => []TopupInv
<1>1. Init => TopupInv
  BY DEF Init, TopupInv, RowsOK, HandlersOK, OneRequest, LedgerOK, ApprovedIsCredited,
     CreditIsConfirmed, PendingIsWatched, Idle, HandlerRecord, Pc, Knows,
     Places, Status, Key, Poll
<1>2. TopupInv /\ [Next]_vars => TopupInv'
  <2>1. CASE Next
    BY <2>1, HandlerSteps, AfterCreateManual, AfterCreateCliq, AfterBankDecides, AfterUsers,
       AfterPollFires, AfterFailures DEF Next
  <2>2. CASE UNCHANGED vars
    BY <2>2 DEF vars, rows, budget, TopupInv, RowsOK, HandlersOK, OneRequest, LedgerOK,
       ApprovedIsCredited, CreditIsConfirmed, PendingIsWatched, Knows, Places,
       Credited, Flawless
  <2>3. QED
    BY <2>1, <2>2
<1>3. QED
  BY <1>1, <1>2, PTL DEF Spec

\* Rows, ledger, queue and handlers keep their shape.
THEOREM TopupTyped == Spec => []TypeOK
<1>1. TopupInv => TypeOK
  BY DEF TopupInv, RowsOK, HandlersOK, HandlerRecord, TypeOK
<1>2. QED
  BY <1>1, Inductive, PTL

\* No payment is marked approved before its wallet was credited.
THEOREM TopupCredited == Spec => []ApprovedIsCredited
<1>1. TopupInv => ApprovedIsCredited
  BY DEF TopupInv, LedgerOK
<1>2. QED
  BY <1>1, Inductive, PTL

\* Polls and screens credit only what the bank has confirmed.
THEOREM TopupConfirmed == Spec => []CreditIsConfirmed
<1>1. TopupInv => CreditIsConfirmed
  BY DEF TopupInv, LedgerOK
<1>2. QED
  BY <1>1, Inductive, PTL

\* Without a failed await a waiting CliQ top-up is in somebody's hands, whatever
\* workers die.
THEOREM TopupWatched == Spec => []PendingIsWatched
<1>1. TopupInv => PendingIsWatched
  BY DEF TopupInv
<1>2. QED
  BY <1>1, Inductive, PTL
=============================================================================
