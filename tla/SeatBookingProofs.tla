--------------------------- MODULE SeatBookingProofs ---------------------------
(***************************************************************************)
(* Theorems of SeatBooking, for any finite set of seats and any number of  *)
(* bookings, handlers, edits and faults.                                   *)
(*                                                                         *)
(* SeatTypes joins the types to what a handler relies on (Knows) and to    *)
(* the timers of pending bookings; it holds beyond a mishap.  Sound is     *)
(* what holds until the first mishap: the seats of a live booking are its  *)
(* own, a seat is being released by one handler only, for a booking that   *)
(* is over, and the count of free seats is right.                          *)
(***************************************************************************)
EXTENDS SeatBooking, FiniteSetTheorems, TLAPS

TripRow == [seat : [Seat -> Booking \cup {Free, Locked}], left : Nat, status : TripStatus]

\* The statuses of some bookings, as a handler has read them.
Past == {Nothing} \cup UNION {[B -> BookingStatus] : B \in SUBSET Booking}

HandlerRecord ==
  [pc : {"idle", "book", "enqueue", "decide", "release", "lock", "unlock", "edit", "hide",
         "show", "cancel", "cancelAll", "each", "roster", "board"},
   b : Booking \cup {Nothing}, S : (SUBSET Seat) \cup (SUBSET Booking), to : BookingStatus,
   by : {"none", "accept", "confirm", "reject", "cancel", "job"},
   trip : {Nothing} \cup TripRow, was : Past]

Editing == {"lock", "unlock", "edit", "hide", "show", "cancel"}

\* What a handler in state x has learnt and relies on; s are the statuses.
Knows(x, s) ==
  /\ x.pc = "book" => x.b \in Booking /\ s[x.b] = "none" /\ x.S \in SUBSET Seat
  /\ x.pc = "enqueue" => x.b \in Booking /\ s[x.b] # "none"
  /\ x.pc = "decide" => /\ x.b \in Booking /\ s[x.b] # "none"
                        /\ x.to \in {"confirmed", "rejected", "cancelled"}
                        /\ x.was[x.b] \in BookingStatus \ {"none", "cancelled"}
                        /\ x.to = "confirmed" => x.was[x.b] = "pending"
  /\ x.pc = "release" => /\ x.b \in Booking /\ s[x.b] \notin {"none", "pending"}
                         /\ x.S \in SUBSET Seat
  /\ x.by = "job" => x.pc \in {"decide", "release"}
  /\ x.pc \in Editing => x.trip \in TripRow /\ x.S \in SUBSET Seat
  /\ x.pc = "lock" => \A t \in x.S : x.trip.seat[t] = Free
  /\ x.pc = "unlock" => \A t \in x.S : x.trip.seat[t] = Locked
  /\ x.pc = "hide" => x.trip.status # "cancelled"
  /\ x.pc = "each" => x.S \in SUBSET Booking /\ \A b \in x.S : s[b] # "none"
  /\ x.pc = "board" => /\ x.S \in SUBSET Booking
                       /\ \A b \in x.S : s[b] # "none" /\ x.was[b] = "confirmed"

RowsOK ==
  /\ seat \in [Seat -> Booking \cup {Free, Locked}] /\ left \in Nat /\ status \in TripStatus
  /\ st \in [Booking -> BookingStatus] /\ seats \in [Booking -> SUBSET Seat]
  /\ timer \in [Booking -> {"none", "waiting", "active", "lost", "failed"}]
  /\ thrown \in [Booking -> Nat] /\ died \in [Booking -> Nat] /\ stuck \subseteq Booking
  /\ mishap \in BOOLEAN /\ edits \in 0..MaxEdits /\ faults \in 0..MaxFaults

HandlersOK == h \in [Handler -> HandlerRecord] /\ \A w \in Handler : Knows(h[w], st)

\* No two handlers are about to insert the same booking.
Distinct == \A v, w \in Handler :
  h[v].pc = "book" /\ h[w].pc = "book" /\ h[v].b = h[w].b => v = w

\* A handler that the expiry of b does not outlive.
Watches(x, b) == x.b = b /\ (x.pc = "enqueue" \/ x.by = "job")

SeatTypes == RowsOK /\ HandlersOK /\ Distinct /\ PendingIsTimed

\* A booking is neither inserted nor forgotten, nor put back to pending.
Quiet == \A b \in Booking : /\ st[b] = "none" <=> st'[b] = "none"
                            /\ st[b] \notin {"none", "pending"} => st'[b] \notin {"none", "pending"}

USE SeatAssumption DEF SeatAssumption, failures, Timed, UsedUp

-----------------------------------------------------------------------------
(* Handlers *)

LEMMA HandlerFacts ==
  ASSUME SeatTypes, NEW w \in Handler
  PROVE  h \in [Handler -> HandlerRecord] /\ h[w] \in HandlerRecord /\ Knows(h[w], st)
BY DEF SeatTypes, HandlersOK

LEMMA RowFacts ==
  ASSUME SeatTypes
  PROVE  RowsOK /\ Trip \in TripRow
BY DEF SeatTypes, RowsOK, Trip, TripRow

LEMMA PastKnown ==
  ASSUME RowsOK, NEW B \in SUBSET Booking
  PROVE  [b \in B |-> st[b]] \in Past
<1>1. [b \in B |-> st[b]] \in [B -> BookingStatus]
  BY DEF RowsOK
<1>2. QED
  BY <1>1 DEF Past

LEMMA IdleRecord ==
  Idle \in HandlerRecord /\ Idle.pc = "idle" /\ Idle.by = "none" /\ Idle.S = {}
BY DEF Idle, HandlerRecord, Past, BookingStatus

LEMMA KnowledgeStays ==
  ASSUME SeatTypes, Quiet, NEW v \in Handler
  PROVE  Knows(h[v], st')
<1>1. Knows(h[v], st)
  BY HandlerFacts
<1>2. QED
  BY <1>1 DEF Knows, Quiet

\* A step of a handler that inserts nothing.
LEMMA Advance ==
  ASSUME SeatTypes, NEW w \in Handler, NEW r \in HandlerRecord, h' = [h EXCEPT ![w] = r],
         Quiet, RowsOK', Knows(r, st'), r.pc # "book",
         \A b \in Booking : st'[b] = "pending" =>
           \/ Timed(b)'
           \/ Watches(r, b)
           \/ st[b] = "pending" /\ (Timed(b) => Timed(b)') /\ ~Watches(h[w], b)
  PROVE  SeatTypes'
<1>1. h \in [Handler -> HandlerRecord]
  BY HandlerFacts
<1>2. h' \in [Handler -> HandlerRecord] /\ h'[w] = r /\ \A v \in Handler \ {w} : h'[v] = h[v]
  BY <1>1
<1>3. HandlersOK'
  <2>1. ASSUME NEW v \in Handler PROVE Knows(h'[v], st')
    BY <1>2, KnowledgeStays
  <2>2. QED
    BY <1>2, <2>1 DEF HandlersOK
<1>4. Distinct'
  BY <1>2 DEF SeatTypes, Distinct
<1>5. PendingIsTimed'
  <2>1. ASSUME NEW b \in Booking, st'[b] = "pending"
        PROVE  \/ Timed(b)'
               \/ \E v \in Handler : h'[v].b = b /\ (h'[v].pc = "enqueue" \/ h'[v].by = "job")
    <3>1. CASE Watches(r, b)
      BY <1>2, <3>1 DEF Watches
    <3>2. CASE st[b] = "pending" /\ (Timed(b) => Timed(b)') /\ ~Watches(h[w], b)
      <4>1. \/ Timed(b)
            \/ \E v \in Handler : h[v].b = b /\ (h[v].pc = "enqueue" \/ h[v].by = "job")
        BY <3>2 DEF SeatTypes, PendingIsTimed
      <4>2. ASSUME NEW v \in Handler, h[v].b = b, h[v].pc = "enqueue" \/ h[v].by = "job"
            PROVE  h'[v].b = b /\ (h'[v].pc = "enqueue" \/ h'[v].by = "job")
        BY <1>2, <3>2, <4>2 DEF Watches
      <4>3. QED
        BY <3>2, <4>1, <4>2
    <3>3. QED
      BY <2>1, <3>1, <3>2
  <2>2. QED
    BY <2>1 DEF PendingIsTimed
<1>6. QED
  BY <1>3, <1>4, <1>5 DEF SeatTypes

\* A handler that ends, or begins, where no booking changes.
LEMMA Ends ==
  ASSUME SeatTypes, NEW w \in Handler, Done(w), Quiet, RowsOK',
         \A b \in Booking : st'[b] = "pending" =>
           \/ Timed(b)'
           \/ st[b] = "pending" /\ (Timed(b) => Timed(b)') /\ ~Watches(h[w], b)
  PROVE  SeatTypes'
<1>1. Knows(Idle, st')
  BY IdleRecord DEF Knows, Editing
<1>2. QED
  BY <1>1, IdleRecord, Advance DEF Done

LEMMA Starts ==
  ASSUME SeatTypes, NEW w \in Handler, NEW r \in HandlerRecord, Begin(w, r),
         Knows(r, st), r.pc # "book", RowsOK', UNCHANGED <<st, seats, timer, thrown, died>>
  PROVE  SeatTypes'
<1>1. Quiet /\ Knows(r, st') /\ \A b \in Booking : ~Watches(h[w], b)
  BY IdleRecord DEF Quiet, Begin, Watches
<1>2. QED
  BY <1>1, Advance DEF Begin

\* Who watches a booking that is still pending.
LEMMA Watching ==
  ASSUME SeatTypes, NEW w \in Handler, NEW b \in Booking, Watches(h[w], b), st[b] = "pending"
  PROVE  h[w].pc \in {"enqueue", "decide"} /\ h[w].b = b
BY HandlerFacts DEF Watches, Knows

-----------------------------------------------------------------------------
(* Booking *)

LEMMA CreateMultiSeatKeeps ==
  ASSUME SeatTypes, NEW w \in Handler, NEW b \in Booking, NEW S \in SUBSET Seat,
         CreateMultiSeat(w, b, S)
  PROVE  SeatTypes'
<1>1. PICK r : r = [Idle EXCEPT !.pc = "book", !.b = b, !.S = S]
  OBVIOUS
<1>2. r.pc = "book" /\ r.b = b /\ r.S = S /\ r.by = "none" /\ r \in HandlerRecord
  BY <1>1 DEF Idle, HandlerRecord, Past, BookingStatus
<1>3. /\ h[w] = Idle /\ h' = [h EXCEPT ![w] = r] /\ st[b] = "none"
      /\ \A v \in Handler : h[v].pc = "book" => h[v].b # b
      /\ UNCHANGED <<seat, left, status, st, seats, timer, mishap, edits, failures>>
  BY <1>1 DEF CreateMultiSeat, Begin, row
<1>4. h' \in [Handler -> HandlerRecord] /\ h'[w] = r /\ \A v \in Handler \ {w} : h'[v] = h[v]
  BY <1>2, <1>3, HandlerFacts
<1>5. HandlersOK'
  <2>1. Knows(r, st)
    BY <1>2, <1>3 DEF Knows, Editing
  <2>2. \A v \in Handler : Knows(h'[v], st')
    BY <1>3, <1>4, <2>1, HandlerFacts
  <2>3. QED
    BY <1>4, <2>2 DEF HandlersOK
<1>6. Distinct'
  BY <1>2, <1>3, <1>4 DEF SeatTypes, Distinct
<1>7. PendingIsTimed'
  <2>1. ASSUME NEW v \in Handler, h[v].pc = "enqueue" \/ h[v].by = "job"
        PROVE  h'[v] = h[v]
    BY <1>3, <1>4, <2>1, IdleRecord
  <2>2. QED
    BY <1>3, <2>1 DEF SeatTypes, PendingIsTimed
<1>8. QED
  BY <1>3, <1>5, <1>6, <1>7 DEF SeatTypes, RowsOK

LEMMA BookKeeps ==
  ASSUME SeatTypes, NEW w \in Handler, Book(w)
  PROVE  SeatTypes'
<1> DEFINE b == h[w].b
           S == h[w].S
<1>1. h[w].pc = "book" /\ b \in Booking /\ S \in SUBSET Seat /\ st[b] = "none"
  BY HandlerFacts DEF Book, Knows
<1>2. CASE MayTake(S) /\ st' = [st EXCEPT ![b] = "pending"]
  <2>1. PICK r : r = [Idle EXCEPT !.pc = "enqueue", !.b = b]
    OBVIOUS
  <2>2. r.pc = "enqueue" /\ r.b = b /\ r.by = "none" /\ r \in HandlerRecord
    BY <1>1, <2>1 DEF Idle, HandlerRecord, Past, BookingStatus
  <2>3. /\ seat' = [s \in Seat |-> IF s \in S THEN b ELSE seat[s]]
        /\ left' = Minus(left, Cardinality(S))
        /\ seats' = [seats EXCEPT ![b] = S] /\ h' = [h EXCEPT ![w] = r]
        /\ UNCHANGED <<status, timer, mishap, edits, failures>>
    BY <1>1, <1>2, <2>1 DEF Book
  <2>4. left' \in Nat
    <3>1. Cardinality(S) \in Nat
      BY <1>1, FS_Subset, FS_CardinalityType
    <3>2. QED
      BY <2>3, <3>1 DEF Minus, SeatTypes, RowsOK
  <2>5. RowsOK'
    BY <1>1, <1>2, <2>3, <2>4 DEF SeatTypes, RowsOK, BookingStatus, Live
  <2>6. h' \in [Handler -> HandlerRecord] /\ h'[w] = r /\ \A v \in Handler \ {w} : h'[v] = h[v]
    BY <2>2, <2>3, HandlerFacts
  <2>7. st \in [Booking -> BookingStatus]
    BY DEF SeatTypes, RowsOK
  <2>8. HandlersOK'
    <3>1. Knows(r, st')
      BY <1>1, <1>2, <2>2, <2>7 DEF Knows, Editing
    <3>2. ASSUME NEW v \in Handler \ {w} PROVE Knows(h[v], st')
      <4>1. Knows(h[v], st) /\ (h[v].pc = "book" => h[v].b # b)
        BY <1>1, HandlerFacts DEF SeatTypes, Distinct
      <4>2. QED
        BY <1>1, <1>2, <2>7, <4>1 DEF Knows
    <3>3. QED
      BY <2>6, <3>1, <3>2 DEF HandlersOK
  <2>9. Distinct'
    BY <2>2, <2>6 DEF SeatTypes, Distinct
  <2>10. PendingIsTimed'
    <3>1. ASSUME NEW c \in Booking, st'[c] = "pending", c # b, ~Timed(c)'
          PROVE  \E v \in Handler : h'[v].b = c /\ (h'[v].pc = "enqueue" \/ h'[v].by = "job")
      <4>1. PICK v \in Handler : h[v].b = c /\ (h[v].pc = "enqueue" \/ h[v].by = "job")
        BY <1>2, <2>3, <2>7, <3>1 DEF SeatTypes, PendingIsTimed
      <4>2. h'[v] = h[v]
        BY <2>6, <3>1, <4>1
      <4>3. QED
        BY <4>1, <4>2
    <3>2. QED
      BY <2>2, <2>3, <2>6, <3>1 DEF PendingIsTimed
  <2>11. QED
    BY <2>5, <2>8, <2>9, <2>10 DEF SeatTypes
<1>3. CASE Done(w) /\ UNCHANGED <<seat, left, st, seats>>
  <2>1. UNCHANGED <<status, timer, mishap, edits, failures>>
    BY DEF Book
  <2>2. RowsOK' /\ Quiet
    BY <1>3, <2>1 DEF SeatTypes, RowsOK, Quiet
  <2>3. \A c \in Booking : st[c] = "pending" => ~Watches(h[w], c)
    BY <1>1, Watching
  <2>4. QED
    BY <1>3, <2>1, <2>2, <2>3, Ends
<1>4. QED
  BY <1>2, <1>3 DEF Book

LEMMA EnqueueExpiryKeeps ==
  ASSUME SeatTypes, NEW w \in Handler, EnqueueExpiry(w)
  PROVE  SeatTypes'
<1>1. h[w].pc = "enqueue" /\ h[w].b \in Booking
  BY HandlerFacts DEF EnqueueExpiry, Knows
<1>2. /\ timer' = [timer EXCEPT ![h[w].b] = "waiting"] /\ Done(w)
      /\ UNCHANGED <<seat, left, status, st, seats, mishap, edits, failures>>
  BY DEF EnqueueExpiry, row
<1>3. RowsOK' /\ Quiet
  BY <1>1, <1>2 DEF SeatTypes, RowsOK, Quiet
<1>4. ASSUME NEW b \in Booking, st'[b] = "pending"
      PROVE  \/ Timed(b)'
             \/ st[b] = "pending" /\ (Timed(b) => Timed(b)') /\ ~Watches(h[w], b)
  <2>1. timer \in [Booking -> {"none", "waiting", "active", "lost", "failed"}]
    BY DEF SeatTypes, RowsOK
  <2>2. QED
    BY <1>1, <1>2, <1>4, <2>1 DEF Watches
<1>5. QED
  BY <1>2, <1>3, <1>4, Ends

-----------------------------------------------------------------------------
(* Deciding *)

LEMMA DecidingRecord ==
  ASSUME SeatTypes, NEW b \in Booking, NEW to \in {"confirmed", "rejected", "cancelled"},
         NEW by \in {"accept", "confirm", "reject", "cancel", "job"},
         st[b] \notin {"none", "cancelled"}, to = "confirmed" => st[b] = "pending",
         NEW r, r = Deciding(b, to, by)
  PROVE  /\ r \in HandlerRecord /\ Knows(r, st)
         /\ r.pc = "decide" /\ r.b = b /\ r.by = by
<1>1. st[b] \in BookingStatus
  BY DEF SeatTypes, RowsOK
<1>2. PICK was : was = [x \in {b} |-> st[x]]
  OBVIOUS
<1>3. was \in Past /\ was[b] = st[b]
  BY <1>2, PastKnown, RowFacts
<1>4. r = [Idle EXCEPT !.pc = "decide", !.b = b, !.to = to, !.by = by, !.was = was]
  BY <1>2 DEF Deciding
<1>5. /\ r.pc = "decide" /\ r.b = b /\ r.to = to /\ r.by = by /\ r.was = was
      /\ r \in HandlerRecord
  <2>1. r.pc = "decide" /\ r.b = b /\ r.to = to /\ r.by = by /\ r.was = was
    BY <1>4 DEF Idle
  <2>2. r = [pc |-> "decide", b |-> b, S |-> {}, to |-> to, by |-> by,
             trip |-> Nothing, was |-> was]
    BY <1>4 DEF Idle
  <2>3. r \in HandlerRecord
    BY <1>3, <2>2 DEF HandlerRecord, BookingStatus, Live
  <2>4. QED
    BY <2>1, <2>3
<1>6. QED
  BY <1>1, <1>3, <1>5 DEF Knows, Editing

LEMMA AnswerKeeps ==
  ASSUME SeatTypes, NEW w \in Handler, NEW b \in Booking, Answer(w, b)
  PROVE  SeatTypes'
<1>1. UNCHANGED <<seat, left, status, st, seats, timer, mishap, edits, failures>>
  BY DEF Answer, Accept, Reject, Cancel, row
<1>2. PICK to \in {"confirmed", "rejected", "cancelled"},
           by \in {"accept", "confirm", "reject", "cancel", "job"} :
        /\ st[b] \notin {"none", "cancelled"} /\ (to = "confirmed" => st[b] = "pending")
        /\ Begin(w, Deciding(b, to, by))
  BY DEF Answer, Accept, Reject, Cancel
<1>3. RowsOK'
  BY <1>1 DEF SeatTypes, RowsOK
<1>4. PICK r : r = Deciding(b, to, by)
  OBVIOUS
<1>5. r \in HandlerRecord /\ Knows(r, st) /\ r.pc = "decide" /\ Begin(w, r)
  BY <1>2, <1>4, DecidingRecord
<1>6. QED
  BY <1>1, <1>3, <1>5, Starts

LEMMA HandleExpireKeeps ==
  ASSUME SeatTypes, NEW w \in Handler, NEW b \in Booking, HandleExpire(w, b)
  PROVE  SeatTypes'
<1>1. UNCHANGED <<seat, left, status, st, seats, mishap, edits, failures>>
  BY DEF HandleExpire, row
<1>2. timer \in [Booking -> {"none", "waiting", "active", "lost", "failed"}]
  BY DEF SeatTypes, RowsOK
<1>3. CASE st[b] = "pending"
  <2>1. timer' = [timer EXCEPT ![b] = "active"] /\ Begin(w, Deciding(b, "cancelled", "job"))
    BY <1>3 DEF HandleExpire
  <2>2. PICK r : r = Deciding(b, "cancelled", "job")
    OBVIOUS
  <2>3. /\ r \in HandlerRecord /\ Knows(r, st) /\ r.pc = "decide" /\ r.b = b /\ r.by = "job"
        /\ Begin(w, r)
    BY <1>3, <2>1, <2>2, DecidingRecord
  <2>4. RowsOK' /\ Quiet
    BY <1>1, <1>2, <2>1 DEF SeatTypes, RowsOK, Quiet
  <2>5. Watches(r, b) /\ \A c \in Booking : ~Watches(h[w], c)
    BY <2>3, IdleRecord DEF Watches, Begin
  <2>6. ASSUME NEW c \in Booking PROVE Watches(r, c) \/ (Timed(c) => Timed(c)')
    <3>1. CASE c = b
      BY <2>5, <3>1
    <3>2. CASE c # b
      BY <1>1, <1>2, <2>1, <3>2
    <3>3. QED
      BY <3>1, <3>2
  <2>9. UNCHANGED st
    BY <1>1
  <2>7. \A c \in Booking : st'[c] = "pending" =>
          \/ Timed(c)'
          \/ Watches(r, c)
          \/ st[c] = "pending" /\ (Timed(c) => Timed(c)') /\ ~Watches(h[w], c)
    <3> HIDE DEF Timed
    <3>1. QED
      BY <2>5, <2>6, <2>9
  <2>8. h' = [h EXCEPT ![w] = r] /\ r.pc # "book" /\ Knows(r, st')
    BY <2>3, <2>9 DEF Begin
  <2>10. QED
    BY <2>3, <2>4, <2>7, <2>8, Advance
<1>4. CASE st[b] # "pending"
  <2>1. timer' = [timer EXCEPT ![b] = "none"] /\ UNCHANGED h
    BY <1>4 DEF HandleExpire
  <2>2. RowsOK' /\ Quiet
    BY <1>1, <1>2, <2>1 DEF SeatTypes, RowsOK, Quiet
  <2>3. HandlersOK' /\ Distinct'
    BY <1>1, <2>1 DEF SeatTypes, HandlersOK, Distinct
  <2>4. PendingIsTimed'
    BY <1>1, <1>2, <1>4, <2>1 DEF SeatTypes, PendingIsTimed
  <2>5. QED
    BY <2>2, <2>3, <2>4 DEF SeatTypes
<1>5. QED
  BY <1>3, <1>4

LEMMA DecideKeeps ==
  ASSUME SeatTypes, NEW w \in Handler, Decide(w)
  PROVE  SeatTypes'
<1> DEFINE b == h[w].b
           to == h[w].to
<1>1. /\ h[w].pc = "decide" /\ b \in Booking /\ st[b] # "none"
      /\ to \in {"confirmed", "rejected", "cancelled"} /\ h[w] \in HandlerRecord
  BY HandlerFacts DEF Decide, Knows
<1>2. /\ st' = [st EXCEPT ![b] = to] /\ mishap' \in BOOLEAN
      /\ UNCHANGED <<seat, left, status, seats, timer, edits, failures>>
  BY DEF Decide, Note, row, SeatTypes, RowsOK
<1>3. st \in [Booking -> BookingStatus] /\ seats \in [Booking -> SUBSET Seat]
  BY DEF SeatTypes, RowsOK
<1>4. PICK S : S = SeatsToRelease(b, to)
  OBVIOUS
<1>5. S \in SUBSET Seat
  BY <1>1, <1>3, <1>4 DEF SeatsToRelease
<1>6. PICK by : by = h[w].by
  OBVIOUS
<1>7. PICK r : r = [Idle EXCEPT !.pc = "release", !.b = b, !.by = by, !.S = S]
  OBVIOUS
<1>8. /\ r.pc = "release" /\ r.b = b /\ r.S = S /\ r.by = by
      /\ r \in HandlerRecord
  BY <1>1, <1>5, <1>6, <1>7 DEF Idle, HandlerRecord, Past, BookingStatus
<1>9. h' = [h EXCEPT ![w] = r]
  BY <1>4, <1>6, <1>7 DEF Decide
<1>10. Quiet /\ RowsOK'
  BY <1>1, <1>2, <1>3 DEF Quiet, SeatTypes, RowsOK, BookingStatus, Live
<1>11. Knows(r, st')
  BY <1>1, <1>2, <1>3, <1>5, <1>8 DEF Knows, Editing
<1>12. ASSUME NEW c \in Booking, st'[c] = "pending"
       PROVE  st[c] = "pending" /\ (Timed(c) => Timed(c)') /\ ~Watches(h[w], c)
  BY <1>1, <1>2, <1>3, <1>12 DEF Watches
<1>13. QED
  BY <1>8, <1>9, <1>10, <1>11, <1>12, Advance

-----------------------------------------------------------------------------
(* Releasing *)

\* A release that goes on: nothing of it is about a pending booking.
LEMMA ReleaseGoesOn ==
  ASSUME SeatTypes, NEW w \in Handler, h[w].pc = "release", NEW S \in SUBSET Seat,
         NEW t \in {Nothing} \cup TripRow, h' = [h EXCEPT ![w].S = S, ![w].trip = t],
         RowsOK', UNCHANGED <<st, timer, thrown, died>>
  PROVE  SeatTypes'
<1>1. h[w] \in HandlerRecord /\ h \in [Handler -> HandlerRecord] /\ Knows(h[w], st)
  BY HandlerFacts
<1>2. PICK r : r = [h[w] EXCEPT !.S = S, !.trip = t]
  OBVIOUS
<1>3. /\ r \in HandlerRecord /\ r.pc = "release" /\ r.b = h[w].b /\ r.S = S /\ r.by = h[w].by
  BY <1>1, <1>2 DEF HandlerRecord
<1>4. h' = [h EXCEPT ![w] = r]
  BY <1>1, <1>2
<1>5. Knows(r, st') /\ Quiet
  BY <1>1, <1>3 DEF Knows, Editing, Quiet
<1>6. \A b \in Booking : st[b] = "pending" => ~Watches(h[w], b)
  BY Watching
<1>7. QED
  BY <1>3, <1>4, <1>5, <1>6, Advance

LEMMA ReadTripKeeps ==
  ASSUME SeatTypes, NEW w \in Handler, ReadTrip(w)
  PROVE  SeatTypes'
<1>1. /\ h[w].pc = "release" /\ h[w].S \in SUBSET Seat /\ h[w] \in HandlerRecord
      /\ h \in [Handler -> HandlerRecord]
      /\ UNCHANGED <<seat, left, status, st, seats, timer, mishap, edits, failures>>
  BY HandlerFacts DEF ReadTrip, Knows, row
<1>2. PICK t : t = Trip
  OBVIOUS
<1>3. h' = [h EXCEPT ![w].S = h[w].S, ![w].trip = t] /\ t \in TripRow
  <2>1. h' = [h EXCEPT ![w].trip = t] /\ t \in TripRow
    BY <1>2, RowFacts DEF ReadTrip
  <2>2. QED
    BY <1>1, <2>1 DEF HandlerRecord
<1>4. RowsOK'
  BY <1>1 DEF SeatTypes, RowsOK
<1>5. QED
  BY <1>1, <1>3, <1>4, ReleaseGoesOn

LEMMA ReleaseSeatKeeps ==
  ASSUME SeatTypes, NEW w \in Handler, ReleaseSeat(w)
  PROVE  SeatTypes'
<1>1. /\ h[w].pc = "release" /\ h[w].S \in SUBSET Seat /\ h[w].trip \in TripRow
      /\ UNCHANGED <<st, seats, timer, edits, failures>>
  BY HandlerFacts DEF ReleaseSeat, Knows, HandlerRecord
<1>2. PICK s \in h[w].S :
        /\ SaveTrip(w, [h[w].trip.seat EXCEPT ![s] = Free], CountAfter(w), h[w].trip.status)
        /\ h' = [h EXCEPT ![w].S = @ \ {s}, ![w].trip = Nothing]
  BY DEF ReleaseSeat
<1>3. RowsOK'
  BY <1>1, <1>2 DEF SaveTrip, CountAfter, Note, TripRow, SeatTypes, RowsOK
<1>4. PICK S : S = h[w].S \ {s}
  OBVIOUS
<1>5. h' = [h EXCEPT ![w].S = S, ![w].trip = Nothing] /\ S \in SUBSET Seat
  BY <1>1, <1>2, <1>4, HandlerFacts
<1>6. QED
  BY <1>1, <1>3, <1>5, ReleaseGoesOn

LEMMA ReleaseFailsKeeps ==
  ASSUME SeatTypes, NEW w \in Handler, ReleaseFails(w)
  PROVE  SeatTypes'
<1>1. /\ h[w].pc = "release" /\ h[w].S \in SUBSET Seat /\ faults' \in 0..MaxFaults
      /\ stuck' = stuck \cup {h[w].b} /\ h[w].b \in Booking
      /\ UNCHANGED <<seat, left, status, st, seats, timer, thrown, died, mishap, edits>>
  BY HandlerFacts DEF ReleaseFails, Knows, row, SeatTypes, RowsOK
<1>2. PICK s \in h[w].S : h' = [h EXCEPT ![w].S = @ \ {s}, ![w].trip = Nothing]
  BY DEF ReleaseFails
<1>3. RowsOK'
  BY <1>1 DEF SeatTypes, RowsOK
<1>4. PICK S : S = h[w].S \ {s}
  OBVIOUS
<1>5. h' = [h EXCEPT ![w].S = S, ![w].trip = Nothing] /\ S \in SUBSET Seat
  BY <1>1, <1>2, <1>4, HandlerFacts
<1>6. QED
  BY <1>1, <1>3, <1>5, ReleaseGoesOn

LEMMA SettleKeeps ==
  ASSUME SeatTypes, NEW w \in Handler, Settle(w)
  PROVE  SeatTypes'
<1>1. /\ h[w].pc = "release" /\ h[w].b \in Booking /\ st[h[w].b] # "pending" /\ Done(w)
      /\ UNCHANGED <<seat, left, status, st, seats, mishap, edits, failures>>
  BY HandlerFacts DEF Settle, Knows, row
<1>2. timer \in [Booking -> {"none", "waiting", "active", "lost", "failed"}]
  BY DEF SeatTypes, RowsOK
<1>3. timer' \in {timer, [timer EXCEPT ![h[w].b] = "none"]}
  BY DEF Settle
<1>4. RowsOK' /\ Quiet
  BY <1>1, <1>2, <1>3 DEF SeatTypes, RowsOK, Quiet
<1>5. ASSUME NEW b \in Booking, st'[b] = "pending"
      PROVE  st[b] = "pending" /\ (Timed(b) => Timed(b)') /\ ~Watches(h[w], b)
  <2>1. st[b] = "pending" /\ b # h[w].b
    BY <1>1, <1>5
  <2>2. QED
    BY <1>1, <1>2, <1>3, <2>1, Watching
<1>6. QED
  BY <1>1, <1>4, <1>5, Ends

-----------------------------------------------------------------------------
(* The driver's trip *)

LEMMA OpenTripKeeps ==
  ASSUME SeatTypes, NEW w \in Handler, NEW pc \in Editing, NEW s \in Seat, OpenTrip(w, pc, s)
  PROVE  SeatTypes'
<1>1. UNCHANGED <<seat, left, status, st, seats, timer, mishap, failures>> /\ edits' \in 0..MaxEdits
  BY DEF OpenTrip, row, SeatTypes, RowsOK
<1>2. PICK t : t = Trip
  OBVIOUS
<1>3. t \in TripRow /\ t.seat = seat /\ t.status = status
  BY <1>2, RowFacts DEF Trip
<1>4. PICK r : r = [Idle EXCEPT !.pc = pc, !.S = {s}, !.trip = t]
  OBVIOUS
<1>5. /\ r.pc = pc /\ r.S = {s} /\ r.trip = t /\ r.by = "none" /\ r \in HandlerRecord
  BY <1>3, <1>4 DEF Idle, HandlerRecord, Past, BookingStatus, Editing
<1>6. Begin(w, r)
  BY <1>2, <1>4 DEF OpenTrip
<1>7. /\ pc = "lock" => seat[s] = Free
      /\ pc = "unlock" => seat[s] = Locked
      /\ pc = "hide" => status # "cancelled"
  BY DEF OpenTrip
<1>8. Knows(r, st)
  BY <1>3, <1>5, <1>7 DEF Knows, Editing
<1>9. RowsOK'
  BY <1>1 DEF SeatTypes, RowsOK
<1>10. QED
  BY <1>1, <1>5, <1>6, <1>8, <1>9, Starts DEF Editing

\* A handler that works on the trip watches no booking.
LEMMA EditorsWatchNobody ==
  ASSUME SeatTypes, NEW w \in Handler, h[w].pc \notin {"enqueue", "decide", "release"},
         NEW b \in Booking
  PROVE  ~Watches(h[w], b)
BY HandlerFacts DEF Watches, Knows

LEMMA SaveTripKeeps ==
  ASSUME SeatTypes, NEW w \in Handler,
         SetSeatLock(w) \/ Update(w) \/ Hide(w) \/ Show(w)
  PROVE  SeatTypes'
<1>1. /\ h[w].pc \in Editing /\ h[w].trip \in TripRow /\ h[w].S \in SUBSET Seat
      /\ Done(w) /\ UNCHANGED <<st, seats, timer, edits, failures>>
  BY HandlerFacts DEF SetSeatLock, Update, Hide, Show, Knows, Editing
<1>2. /\ seat' \in [Seat -> Booking \cup {Free, Locked}] /\ left' \in Nat
      /\ status' \in TripStatus /\ mishap' \in BOOLEAN
  <2> DEFINE t == h[w].trip
  <2>1. /\ t.seat \in [Seat -> Booking \cup {Free, Locked}]
        /\ t.left \in Nat /\ t.status \in TripStatus
    BY <1>1 DEF TripRow
  <2>2. CASE SetSeatLock(w)
    <3>1. Minus(t.left, 1) \in Nat /\ t.left + 1 \in Nat
      BY <2>1 DEF Minus
    <3>2. PICK s \in Seat, v \in {Free, Locked}, n \in Nat :
            SaveTrip(w, [t.seat EXCEPT ![s] = v], n, t.status)
      BY <1>1, <2>2, <3>1 DEF SetSeatLock
    <3>3. QED
      BY <2>1, <3>2 DEF SaveTrip, Note
  <2>3. CASE Update(w) \/ Hide(w) \/ Show(w)
    BY <2>1, <2>3 DEF Update, Hide, Show, SaveTrip, Note, TripStatus
  <2>4. QED
    BY <2>2, <2>3
<1>3. RowsOK' /\ Quiet
  BY <1>1, <1>2 DEF SeatTypes, RowsOK, Quiet
<1>4. QED
  BY <1>1, <1>3, EditorsWatchNobody, Ends DEF Editing

\* A handler that goes on to the bookings of the trip.
LEMMA BareRecord ==
  ASSUME NEW pc \in {"cancelAll", "roster"}, NEW r, r = [Idle EXCEPT !.pc = pc]
  PROVE  r \in HandlerRecord /\ r.pc = pc /\ r.by = "none" /\ Knows(r, st')
<1>1. r \in HandlerRecord /\ r.pc = pc /\ r.by = "none"
  BY DEF Idle, HandlerRecord, BookingStatus, Past
<1>2. QED
  BY <1>1 DEF Knows, Editing

LEMMA CancelTripKeeps ==
  ASSUME SeatTypes, NEW w \in Handler, CancelTrip(w)
  PROVE  SeatTypes'
<1>1. h[w].pc = "cancel" /\ h[w].trip \in TripRow /\ UNCHANGED <<st, seats, timer, edits, failures>>
  BY HandlerFacts DEF CancelTrip, Knows, Editing
<1>2. RowsOK' /\ Quiet
  BY <1>1 DEF CancelTrip, SaveTrip, Note, TripRow, TripStatus, SeatTypes, RowsOK, Quiet
<1>3. PICK r : r = [Idle EXCEPT !.pc = "cancelAll"]
  OBVIOUS
<1>4. r \in HandlerRecord /\ r.pc = "cancelAll" /\ Knows(r, st') /\ h' = [h EXCEPT ![w] = r]
  BY <1>3, BareRecord DEF CancelTrip
<1>5. QED
  BY <1>1, <1>2, <1>4, EditorsWatchNobody, Advance

LEMMA StartKeeps ==
  ASSUME SeatTypes, NEW w \in Handler, Start(w)
  PROVE  SeatTypes'
<1>1. UNCHANGED <<seat, left, st, seats, timer, mishap, edits, failures>> /\ status' = "in_progress"
  BY DEF Start
<1>2. RowsOK'
  BY <1>1 DEF TripStatus, SeatTypes, RowsOK
<1>3. PICK r : r = [Idle EXCEPT !.pc = "roster"]
  OBVIOUS
<1>4. r \in HandlerRecord /\ r.pc = "roster" /\ Knows(r, st) /\ Begin(w, r)
  BY <1>1, <1>3, BareRecord DEF Start
<1>5. QED
  BY <1>1, <1>2, <1>4, Starts

LEMMA RosterRead ==
  ASSUME SeatTypes, NEW w \in Handler, h[w].pc \in {"cancelAll", "roster"},
         UNCHANGED <<seat, left, status, st, seats, timer, mishap, edits, failures>>,
         NEW pc \in {"each", "board"}, NEW B \in SUBSET Booking,
         h' = [h EXCEPT ![w] = [Idle EXCEPT !.pc = pc, !.S = B, !.was = [b \in B |-> st[b]]]],
         \A b \in B : st[b] # "none" /\ (pc = "board" => st[b] = "confirmed")
  PROVE  SeatTypes'
<1>1. RowsOK' /\ Quiet
  BY DEF SeatTypes, RowsOK, Quiet
<1>2. PICK was : was = [b \in B |-> st[b]]
  OBVIOUS
<1>3. was \in Past /\ \A b \in B : was[b] = st[b]
  BY <1>2, PastKnown, RowFacts
<1>4. PICK r : r = [Idle EXCEPT !.pc = pc, !.S = B, !.was = was]
  OBVIOUS
<1>5. r \in HandlerRecord /\ r.pc = pc /\ r.S = B /\ r.was = was /\ r.by = "none"
  <2>1. Nothing \in Past
    BY DEF Past
  <2>2. r.pc = pc /\ r.S = B /\ r.was = was /\ r.by = "none"
    BY <1>4 DEF Idle
  <2>3. r \in HandlerRecord
    BY <1>3, <1>4, <2>1 DEF Idle, HandlerRecord, BookingStatus
  <2>4. QED
    BY <2>2, <2>3
<1>6. Knows(r, st')
  BY <1>3, <1>5 DEF Knows, Editing
<1>7. h' = [h EXCEPT ![w] = r]
  BY <1>2, <1>4
<1>8. QED
  BY <1>1, <1>5, <1>6, <1>7, EditorsWatchNobody, Advance

LEMMA RosterKeeps ==
  ASSUME SeatTypes, NEW w \in Handler, CancelAllForTrip(w) \/ ReadRoster(w)
  PROVE  SeatTypes'
<1>1. /\ h[w].pc \in {"cancelAll", "roster"}
      /\ UNCHANGED <<seat, left, status, st, seats, timer, mishap, edits, failures>>
  BY DEF CancelAllForTrip, ReadRoster, row
<1>2. CASE CancelAllForTrip(w)
  <2>1. PICK B : B = {b \in Booking : st[b] \notin {"none", "cancelled"}}
    OBVIOUS
  <2>2. h' = [h EXCEPT ![w] = [Idle EXCEPT !.pc = "each", !.S = B, !.was = [b \in B |-> st[b]]]]
    BY <1>2, <2>1, Zenon DEF CancelAllForTrip
  <2>3. B \in SUBSET Booking /\ \A b \in B : st[b] # "none"
    BY <2>1
  <2>4. QED
    BY <1>1, <2>2, <2>3, RosterRead
<1>3. CASE ReadRoster(w)
  <2>1. PICK B : B = {b \in Booking : st[b] = "confirmed"}
    OBVIOUS
  <2>2. h' = [h EXCEPT ![w] = [Idle EXCEPT !.pc = "board", !.S = B, !.was = [b \in B |-> st[b]]]]
    BY <1>3, <2>1, Zenon DEF ReadRoster
  <2>3. B \in SUBSET Booking /\ \A b \in B : st[b] = "confirmed"
    BY <2>1
  <2>4. QED
    BY <1>1, <2>2, <2>3, RosterRead
<1>4. QED
  BY <1>2, <1>3, Zenon

\* A save of bookings that were there when they were read.
LEMMA SaveBookingsQuiet ==
  ASSUME SeatTypes, NEW w \in Handler, NEW B \in SUBSET Booking, \A b \in B : st[b] # "none",
         NEW to \in {"cancelled", "in_progress"}, SaveBookings(w, B, to)
  PROVE  /\ Quiet /\ st' \in [Booking -> BookingStatus] /\ mishap' \in BOOLEAN
         /\ \A b \in Booking : st'[b] = "pending" => st[b] = "pending"
<1>1. st' = [b \in Booking |-> IF b \in B THEN to ELSE st[b]] /\ mishap' \in BOOLEAN
  BY DEF SaveBookings, Note, SeatTypes, RowsOK
<1>2. QED
  BY <1>1 DEF Quiet, SeatTypes, RowsOK, BookingStatus, Live

LEMMA CancelEachKeeps ==
  ASSUME SeatTypes, NEW w \in Handler, CancelEach(w)
  PROVE  SeatTypes'
<1>1. /\ h[w].pc = "each" /\ h[w].S \in SUBSET Booking /\ \A b \in h[w].S : st[b] # "none"
      /\ h[w] \in HandlerRecord /\ Knows(h[w], st)
      /\ UNCHANGED <<seat, left, status, seats, timer, edits, failures>>
  BY HandlerFacts DEF CancelEach, Knows, row
<1>2. ASSUME NEW b \in h[w].S, SaveBookings(w, {b}, "cancelled"), h' = [h EXCEPT ![w].S = @ \ {b}]
      PROVE  SeatTypes'
  <2>1. PICK r : r = [h[w] EXCEPT !.S = @ \ {b}]
    OBVIOUS
  <2>2. PICK S : S = h[w].S \ {b}
    OBVIOUS
  <2>3. /\ r \in HandlerRecord /\ r.pc = "each" /\ r.S = S /\ r.by = h[w].by
        /\ S \in SUBSET Booking
    BY <1>1, <2>1, <2>2 DEF HandlerRecord
  <2>4. h' = [h EXCEPT ![w] = r]
    BY <1>2, <2>1, HandlerFacts
  <2>5. /\ Quiet /\ st' \in [Booking -> BookingStatus] /\ mishap' \in BOOLEAN
        /\ \A c \in Booking : st'[c] = "pending" => st[c] = "pending"
    BY <1>1, <1>2, SaveBookingsQuiet
  <2>6. RowsOK'
    BY <1>1, <2>5 DEF SeatTypes, RowsOK
  <2>7. Knows(r, st')
    BY <1>1, <2>2, <2>3, <2>5 DEF Knows, Quiet, Editing
  <2>8. QED
    BY <1>1, <2>3, <2>4, <2>5, <2>6, <2>7, EditorsWatchNobody, Advance
<1>3. CASE Done(w) /\ UNCHANGED <<st, mishap>>
  <2>1. RowsOK' /\ Quiet
    BY <1>1, <1>3 DEF SeatTypes, RowsOK, Quiet
  <2>2. QED
    BY <1>1, <1>3, <2>1, EditorsWatchNobody, Ends
<1>4. QED
  BY <1>2, <1>3 DEF CancelEach

LEMMA BoardKeeps ==
  ASSUME SeatTypes, NEW w \in Handler, Board(w)
  PROVE  SeatTypes'
<1>1. /\ h[w].pc = "board" /\ h[w].S \in SUBSET Booking /\ \A b \in h[w].S : st[b] # "none"
      /\ SaveBookings(w, h[w].S, "in_progress") /\ Done(w)
      /\ UNCHANGED <<seat, left, status, seats, timer, edits, failures>>
  BY HandlerFacts DEF Board, Knows, row
<1>2. /\ Quiet /\ st' \in [Booking -> BookingStatus] /\ mishap' \in BOOLEAN
      /\ \A c \in Booking : st'[c] = "pending" => st[c] = "pending"
  BY <1>1, SaveBookingsQuiet
<1>3. RowsOK'
  BY <1>1, <1>2 DEF SeatTypes, RowsOK
<1>4. QED
  BY <1>1, <1>2, <1>3, EditorsWatchNobody, Ends

-----------------------------------------------------------------------------
(* Failures *)

\* A job that fails is run again, or has used up its runs.
LEMMA JobFails ==
  ASSUME SeatTypes, NEW b \in Booking, JobThrows(b) \/ WorkerDies(b)
  PROVE  /\ timer' \in [Booking -> {"none", "waiting", "active", "lost", "failed"}]
         /\ thrown' \in [Booking -> Nat] /\ died' \in [Booking -> Nat]
         /\ \A c \in Booking : Timed(c)' \/ (c # b /\ (Timed(c) => Timed(c)'))
<1>1. /\ timer \in [Booking -> {"none", "waiting", "active", "lost", "failed"}]
      /\ thrown \in [Booking -> Nat] /\ died \in [Booking -> Nat]
  BY DEF SeatTypes, RowsOK
<1>2. /\ timer' \in [Booking -> {"none", "waiting", "active", "lost", "failed"}]
      /\ thrown' \in [Booking -> Nat] /\ died' \in [Booking -> Nat]
  BY <1>1 DEF JobThrows, WorkerDies
<1>3. Timed(b)'
  BY <1>1 DEF JobThrows, WorkerDies, MayThrowAgain
<1>4. ASSUME NEW c \in Booking, c # b PROVE Timed(c) => Timed(c)'
  BY <1>1, <1>4 DEF JobThrows, WorkerDies
<1>5. ASSUME NEW c \in Booking PROVE Timed(c)' \/ (c # b /\ (Timed(c) => Timed(c)'))
  <2>1. CASE c = b
    BY <1>3, <2>1
  <2>2. CASE c # b
    BY <1>4, <2>2
  <2>3. QED
    BY <2>1, <2>2
<1>6. QED
  BY <1>2, <1>5

LEMMA AbortKeeps ==
  ASSUME SeatTypes, NEW w \in Handler, Abort(w)
  PROVE  SeatTypes'
<1>1. /\ UNCHANGED <<seat, left, status, st, seats, mishap, edits>> /\ faults' \in 0..MaxFaults
      /\ Done(w)
  BY DEF Abort, row, SeatTypes, RowsOK
<1>2. /\ timer \in [Booking -> {"none", "waiting", "active", "lost", "failed"}]
      /\ thrown \in [Booking -> Nat] /\ died \in [Booking -> Nat]
  BY DEF SeatTypes, RowsOK
<1>3. stuck' \subseteq Booking
  BY HandlerFacts DEF Abort, Knows, SeatTypes, RowsOK
<1>4. CASE h[w].by = "job"
  <2>1. PICK b \in Booking : b = h[w].b
    BY <1>4, HandlerFacts DEF Knows
  <2>2. JobThrows(b) \/ WorkerDies(b)
    BY <1>4, <2>1 DEF Abort
  <2>3. RowsOK' /\ Quiet
    BY <1>1, <1>3, <2>2, JobFails DEF SeatTypes, RowsOK, Quiet
  <2>4. ASSUME NEW c \in Booking
        PROVE  Timed(c)' \/ ((Timed(c) => Timed(c)') /\ ~Watches(h[w], c))
    BY <2>1, <2>2, JobFails DEF Watches
  <2>5. UNCHANGED st
    BY <1>1
  <2>6. \A c \in Booking : st'[c] = "pending" =>
          \/ Timed(c)'
          \/ st[c] = "pending" /\ (Timed(c) => Timed(c)') /\ ~Watches(h[w], c)
    <3> HIDE DEF Timed
    <3>1. QED
      BY <2>4, <2>5
  <2>7. QED
    BY <1>1, <2>3, <2>6, Ends
<1>5. CASE h[w].by # "job" /\ h[w].pc = "enqueue"
  <2>1. h[w].b \in Booking
    BY <1>5, HandlerFacts DEF Knows
  <2>2. timer' = [timer EXCEPT ![h[w].b] = "lost"] /\ UNCHANGED <<thrown, died>>
    BY <1>5 DEF Abort
  <2>3. RowsOK' /\ Quiet
    BY <1>1, <1>2, <1>3, <2>1, <2>2 DEF SeatTypes, RowsOK, Quiet
  <2>4. ASSUME NEW b \in Booking PROVE Timed(b)' \/ ((Timed(b) => Timed(b)') /\ ~Watches(h[w], b))
    BY <1>2, <2>1, <2>2 DEF Watches
  <2>5. UNCHANGED st
    BY <1>1
  <2>6. \A b \in Booking : st'[b] = "pending" =>
          \/ Timed(b)'
          \/ st[b] = "pending" /\ (Timed(b) => Timed(b)') /\ ~Watches(h[w], b)
    <3> HIDE DEF Timed
    <3>1. QED
      BY <2>4, <2>5
  <2>7. QED
    BY <1>1, <2>3, <2>6, Ends
<1>6. CASE h[w].by # "job" /\ h[w].pc # "enqueue"
  <2>1. UNCHANGED <<timer, thrown, died>>
    BY <1>6 DEF Abort
  <2>2. RowsOK' /\ Quiet
    BY <1>1, <1>3, <2>1 DEF SeatTypes, RowsOK, Quiet
  <2>3. QED
    BY <1>1, <1>6, <2>1, <2>2, Ends DEF Watches
<1>7. QED
  BY <1>4, <1>5, <1>6

-----------------------------------------------------------------------------
(* The types, the timers, and the promise *)

LEMMA SeatsInitially ==
  ASSUME Init
  PROVE  SeatTypes
<1>1. left \in Nat
  BY FS_CardinalityType DEF Init
<1>2. RowsOK
  <2>1. seat \in [Seat -> Booking \cup {Free, Locked}] /\ status \in TripStatus
    BY DEF Init, TripStatus
  <2>2. st \in [Booking -> BookingStatus] /\ seats \in [Booking -> SUBSET Seat]
    BY DEF Init, BookingStatus
  <2>3. timer \in [Booking -> {"none", "waiting", "active", "lost", "failed"}]
    BY DEF Init
  <2>6. thrown \in [Booking -> Nat] /\ died \in [Booking -> Nat] /\ stuck \subseteq Booking
    BY DEF Init
  <2>4. mishap \in BOOLEAN /\ edits \in 0..MaxEdits /\ faults \in 0..MaxFaults
    <3>1. mishap = FALSE /\ edits = MaxEdits /\ faults = MaxFaults
      BY DEF Init
    <3>2. mishap \in BOOLEAN
      BY <3>1, Zenon
    <3>3. edits \in 0..MaxEdits /\ faults \in 0..MaxFaults
      BY <3>1
    <3>4. QED
      BY <3>2, <3>3
  <2>5. QED
    BY <1>1, <2>1, <2>2, <2>3, <2>4, <2>6 DEF RowsOK
<1>3. \A w \in Handler : h[w] = Idle
  BY DEF Init
<1>4. HandlersOK
  <2>1. Knows(Idle, st)
    BY IdleRecord DEF Knows, Editing
  <2>2. h \in [Handler -> HandlerRecord]
    BY IdleRecord DEF Init
  <2>3. QED
    BY <1>3, <2>1, <2>2 DEF HandlersOK
<1>5. Distinct
  BY <1>3, IdleRecord DEF Distinct
<1>6. PendingIsTimed
  BY DEF Init, PendingIsTimed
<1>7. QED
  BY <1>2, <1>4, <1>5, <1>6 DEF SeatTypes

LEMMA SeatTypesKept ==
  ASSUME SeatTypes, [Next]_vars
  PROVE  SeatTypes'
<1>1. ASSUME NEW w \in Handler, NEW b \in Booking,
             \/ \E S \in SUBSET Seat : CreateMultiSeat(w, b, S)
             \/ Answer(w, b) \/ HandleExpire(w, b)
      PROVE  SeatTypes'
  BY <1>1, CreateMultiSeatKeeps, AnswerKeeps, HandleExpireKeeps
<1>2. ASSUME NEW w \in Handler, Drive(w) PROVE SeatTypes'
  BY <1>2, StartKeeps, OpenTripKeeps DEF Drive, Editing
<1>3. ASSUME NEW w \in Handler, HandlerStep(w) PROVE SeatTypes'
  BY <1>3, BookKeeps, EnqueueExpiryKeeps, DecideKeeps, ReadTripKeeps, ReleaseSeatKeeps,
     SettleKeeps, SaveTripKeeps, CancelTripKeeps, RosterKeeps, CancelEachKeeps, BoardKeeps
  DEF HandlerStep
<1>4. ASSUME NEW w \in Handler, ReleaseFails(w) \/ Abort(w) PROVE SeatTypes'
  BY <1>4, ReleaseFailsKeeps, AbortKeeps
<1>5. CASE UNCHANGED vars
  <2>1. UNCHANGED <<seat, left, status, st, seats, timer, h, mishap, edits, failures>>
    BY <1>5 DEF vars, row
  <2>2. QED
    BY <2>1 DEF SeatTypes, RowsOK, HandlersOK, Distinct, PendingIsTimed
<1>6. QED
  BY <1>1, <1>2, <1>3, <1>4, <1>5 DEF Next

LEMMA SeatTypesAlways == Spec => []SeatTypes
<1>1. Init => SeatTypes
  BY SeatsInitially
<1>2. SeatTypes /\ [Next]_vars => SeatTypes'
  BY SeatTypesKept
<1>3. QED
  BY <1>1, <1>2, PTL DEF Spec

\* The trip's row, its bookings, their jobs and the handlers keep their types.
THEOREM SeatsTyped == Spec => []TypeOK
<1>1. SeatTypes => TypeOK
  BY DEF SeatTypes, RowsOK, HandlersOK, HandlerRecord, TypeOK
<1>2. QED
  BY <1>1, SeatTypesAlways, PTL

\* A request that waits for its driver has an expiry, or a handler that will
\* queue it or is carrying it out, until the runs of its job are used up.
THEOREM PendingTimed == Spec => []PendingIsTimed
<1>1. SeatTypes => PendingIsTimed
  BY DEF SeatTypes
<1>2. QED
  BY <1>1, SeatTypesAlways, PTL

-----------------------------------------------------------------------------
(* What a save leaves, until a mishap *)

\* Without a mishap the copy that a handler saves is still the row.
LEMMA FreshSave ==
  ASSUME NEW w \in Handler, NEW s, NEW n, NEW to, SaveTrip(w, s, n, to), ~mishap'
  PROVE  /\ h[w].trip.seat = seat /\ h[w].trip.left = left /\ h[w].trip.status = status
         /\ seat' = s /\ left' = n /\ status' = to
<1>1. h[w].trip = Trip
  BY DEF SaveTrip, Note
<1>2. QED
  BY <1>1 DEF SaveTrip, Trip

FreeSeats(f) == {s \in Seat : f[s] = Free}

LEMMA FreeSeatsFinite ==
  ASSUME NEW f
  PROVE  IsFiniteSet(FreeSeats(f)) /\ Cardinality(FreeSeats(f)) \in Nat
BY FS_Subset, FS_CardinalityType DEF FreeSeats

\* The count after a seat was freed, or taken.
LEMMA OneFreed ==
  ASSUME NEW f, NEW g, NEW s \in Seat, f[s] # Free, g[s] = Free, \A t \in Seat \ {s} : g[t] = f[t]
  PROVE  Cardinality(FreeSeats(g)) = Cardinality(FreeSeats(f)) + 1
<1>1. FreeSeats(g) = FreeSeats(f) \cup {s} /\ s \notin FreeSeats(f)
  BY DEF FreeSeats
<1>2. IsFiniteSet(FreeSeats(f))
  BY FreeSeatsFinite
<1>3. QED
  BY <1>1, <1>2, FS_AddElement

LEMMA OneTaken ==
  ASSUME NEW f, NEW g, NEW s \in Seat, f[s] = Free, g[s] # Free, \A t \in Seat \ {s} : g[t] = f[t]
  PROVE  Cardinality(FreeSeats(g)) = Minus(Cardinality(FreeSeats(f)), 1)
<1>1. Cardinality(FreeSeats(f)) = Cardinality(FreeSeats(g)) + 1
  BY OneFreed
<1>2. Cardinality(FreeSeats(g)) \in Nat
  BY FreeSeatsFinite
<1>3. QED
  BY <1>1, <1>2 DEF Minus

LEMMA ManyTaken ==
  ASSUME NEW f, NEW g, NEW S \in SUBSET Seat, \A s \in S : f[s] = Free /\ g[s] # Free,
         \A t \in Seat \ S : g[t] = f[t]
  PROVE  Cardinality(FreeSeats(g)) = Minus(Cardinality(FreeSeats(f)), Cardinality(S))
<1>1. FreeSeats(g) = FreeSeats(f) \ S /\ FreeSeats(f) \cap S = S /\ S \in SUBSET FreeSeats(f)
  BY DEF FreeSeats
<1>2. IsFiniteSet(FreeSeats(f)) /\ Cardinality(FreeSeats(f)) \in Nat
  BY FreeSeatsFinite
<1>3. Cardinality(FreeSeats(g)) = Cardinality(FreeSeats(f)) - Cardinality(S)
  BY <1>1, <1>2, FS_Difference
<1>4. IsFiniteSet(S) /\ Cardinality(S) <= Cardinality(FreeSeats(f))
  BY <1>1, <1>2, FS_Subset
<1>5. Cardinality(S) \in Nat
  BY <1>4, FS_CardinalityType
<1>6. QED
  BY <1>2, <1>3, <1>4, <1>5 DEF Minus

-----------------------------------------------------------------------------
(* The invariant of the seats *)

\* The seats of a live booking are its own.
HeldOK == \A b \in Booking : st[b] \in Live => \A s \in seats[b] : seat[s] = b

\* A seat that is taken is one that its booking asked for.
OwnedOK == \A s \in Seat :
  seat[s] \in Booking => s \in seats[seat[s]] /\ st[seat[s]] # "none"

\* Seats are released for a booking that is over and has them, by one handler.
Releases(x) == x.pc = "release" /\ x.S # {}
ReleaseOK == \A w \in Handler : Releases(h[w]) =>
  st[h[w].b] \notin Live /\ \A s \in h[w].S : seat[s] = h[w].b
AloneOK == \A v, w \in Handler :
  Releases(h[v]) /\ Releases(h[w]) /\ h[v].b = h[w].b => v = w

\* All the bookings are cancelled only behind the trip.
CalledOK == \A w \in Handler : h[w].pc \in {"cancelAll", "each"} => status = "cancelled"

CountOK == left = Cardinality(FreeSeats(seat))

KeptOK == status # "cancelled" =>
  \A s \in Seat : seat[s] \in Booking =>
    \/ st[seat[s]] \in Live \/ seat[s] \in stuck
    \/ \E w \in Handler : h[w].pc = "release" /\ h[w].b = seat[s] /\ s \in h[w].S

Good == HeldOK /\ OwnedOK /\ ReleaseOK /\ AloneOK /\ CalledOK /\ CountOK /\ KeptOK
Sound == ~mishap => Good

\* A step of one handler.
LEMMA OneMoves ==
  ASSUME SeatTypes, NEW w \in Handler, NEW r, h' = [h EXCEPT ![w] = r]
  PROVE  h'[w] = r /\ \A v \in Handler \ {w} : h'[v] = h[v]
BY HandlerFacts

\* A step that changes no seat and no booking, and releases nothing more.
LEMMA SeatsRest ==
  ASSUME SeatTypes, Good, NEW w \in Handler, NEW r, h' = [h EXCEPT ![w] = r],
         UNCHANGED <<seat, left, st, seats>>,
         status' # "cancelled" => status # "cancelled",
         Releases(r) => Releases(h[w]) /\ r.b = h[w].b /\ r.S \subseteq h[w].S,
         r.pc \in {"cancelAll", "each"} => status' = "cancelled",
         stuck \subseteq stuck',
         Releases(h[w]) => \/ h[w].b \in stuck'
                           \/ r.pc = "release" /\ r.b = h[w].b /\ h[w].S \subseteq r.S
  PROVE  Good'
<1>1. h'[w] = r /\ \A v \in Handler \ {w} : h'[v] = h[v]
  BY OneMoves
<1>2. HeldOK' /\ OwnedOK' /\ CountOK'
  BY DEF Good, HeldOK, OwnedOK, CountOK, FreeSeats
<1>3. ReleaseOK'
  BY <1>1 DEF Good, ReleaseOK
<1>4. AloneOK'
  <2>1. \A v \in Handler : Releases(h'[v]) => Releases(h[v]) /\ h'[v].b = h[v].b
    BY <1>1
  <2>2. QED
    BY <2>1 DEF Good, AloneOK
<1>5. CalledOK'
  BY <1>1 DEF Good, CalledOK
<1>6. KeptOK'
  <2>1. ASSUME status' # "cancelled", NEW s \in Seat, seat[s] \in Booking,
               seat[s] \notin stuck',
               st[seat[s]] \notin Live
        PROVE  \E v \in Handler : h'[v].pc = "release" /\ h'[v].b = seat[s] /\ s \in h'[v].S
    <3>1. PICK v \in Handler : h[v].pc = "release" /\ h[v].b = seat[s] /\ s \in h[v].S
      BY <2>1 DEF Good, KeptOK
    <3>2. h'[v].pc = "release" /\ h'[v].b = seat[s] /\ s \in h'[v].S
      BY <1>1, <2>1, <3>1 DEF Releases
    <3>3. QED
      BY <3>2
  <2>2. QED
    BY <2>1 DEF KeptOK
<1>7. QED
  BY <1>2, <1>3, <1>4, <1>5, <1>6 DEF Good

LEMMA SeatsRestAtTheEnd ==
  ASSUME SeatTypes, Good, NEW w \in Handler, Done(w), UNCHANGED <<seat, left, st, seats>>,
         status' # "cancelled" => status # "cancelled",
         stuck \subseteq stuck', Releases(h[w]) => h[w].b \in stuck'
  PROVE  Good'
<1>1. Idle.pc = "idle" /\ ~Releases(Idle)
  BY IdleRecord DEF Releases
<1>2. QED
  BY <1>1, SeatsRest DEF Done

LEMMA SeatsRestAtTheStart ==
  ASSUME SeatTypes, Good, NEW w \in Handler, NEW r, Begin(w, r),
         r.pc \notin {"release", "cancelAll", "each"},
         UNCHANGED <<seat, left, st, seats, failures>>,
         status' # "cancelled" => status # "cancelled"
  PROVE  Good'
<1>1. ~Releases(h[w]) /\ ~Releases(r)
  BY IdleRecord DEF Releases, Begin
<1>2. QED
  BY <1>1, SeatsRest DEF Begin

-----------------------------------------------------------------------------
(* Steps that leave the seats and the bookings alone *)

LEMMA BeginningsSound ==
  ASSUME SeatTypes, Good, NEW w \in Handler, NEW b \in Booking,
         \/ \E S \in SUBSET Seat : CreateMultiSeat(w, b, S)
         \/ Answer(w, b) \/ HandleExpire(w, b)
  PROVE  Good'
<1>1. UNCHANGED <<seat, left, status, st, seats, failures>>
  BY DEF CreateMultiSeat, Answer, Accept, Reject, Cancel, HandleExpire, row
<1>2. ASSUME NEW S \in SUBSET Seat, CreateMultiSeat(w, b, S) PROVE Good'
  <2>1. PICK r : r = [Idle EXCEPT !.pc = "book", !.b = b, !.S = S]
    OBVIOUS
  <2>2. r.pc = "book" /\ Begin(w, r)
    BY <1>2, <2>1 DEF Idle, CreateMultiSeat
  <2>3. QED
    BY <1>1, <2>2, SeatsRestAtTheStart
<1>3. ASSUME NEW to, NEW by, Begin(w, Deciding(b, to, by)) PROVE Good'
  <2>1. PICK r : r = Deciding(b, to, by)
    OBVIOUS
  <2>2. PICK was : was = [x \in {b} |-> st[x]]
    OBVIOUS
  <2>3. r = [Idle EXCEPT !.pc = "decide", !.b = b, !.to = to, !.by = by, !.was = was]
    BY <2>1, <2>2 DEF Deciding
  <2>4. r.pc = "decide" /\ Begin(w, r)
    BY <1>3, <2>1, <2>3 DEF Idle
  <2>5. QED
    BY <1>1, <2>4, SeatsRestAtTheStart
<1>4. CASE UNCHANGED h
  <2>1. h' = [h EXCEPT ![w] = h[w]]
    BY <1>4, HandlerFacts
  <2>2. h[w].pc \in {"cancelAll", "each"} => status' = "cancelled"
    BY <1>1 DEF Good, CalledOK
  <2>3. QED
    BY <1>1, <2>1, <2>2, SeatsRest DEF Releases
<1>5. CASE Answer(w, b)
  BY <1>3, <1>5 DEF Answer, Accept, Reject, Cancel
<1>6. CASE HandleExpire(w, b)
  BY <1>3, <1>4, <1>6 DEF HandleExpire
<1>7. QED
  BY <1>2, <1>5, <1>6

LEMMA DriveSound ==
  ASSUME SeatTypes, Good, NEW w \in Handler, Drive(w)
  PROVE  Good'
<1>1. CASE Start(w)
  <2>1. PICK r : r = [Idle EXCEPT !.pc = "roster"]
    OBVIOUS
  <2>2. r.pc = "roster" /\ Begin(w, r)
    BY <1>1, <2>1 DEF Idle, Start
  <2>3. UNCHANGED <<seat, left, st, seats, failures>> /\ status = "published"
    BY <1>1 DEF Start
  <2>4. QED
    BY <2>2, <2>3, SeatsRestAtTheStart
<1>2. ASSUME NEW pc \in Editing, NEW s \in Seat, OpenTrip(w, pc, s) PROVE Good'
  <2>1. PICK t : t = Trip
    OBVIOUS
  <2>2. PICK r : r = [Idle EXCEPT !.pc = pc, !.S = {s}, !.trip = t]
    OBVIOUS
  <2>3. r.pc = pc /\ Begin(w, r)
    BY <1>2, <2>1, <2>2 DEF Idle, OpenTrip
  <2>4. UNCHANGED <<seat, left, status, st, seats, failures>>
    BY <1>2 DEF OpenTrip, row
  <2>5. QED
    BY <2>3, <2>4, SeatsRestAtTheStart DEF Editing
<1>3. QED
  BY <1>1, <1>2 DEF Drive, Editing

LEMMA EndingsSound ==
  ASSUME SeatTypes, Good, NEW w \in Handler, EnqueueExpiry(w) \/ Settle(w) \/ Abort(w)
  PROVE  Good'
<1>1. UNCHANGED <<seat, left, status, st, seats>> /\ Done(w)
  BY DEF EnqueueExpiry, Settle, Abort, row
<1>2. stuck \subseteq stuck' /\ (Releases(h[w]) => h[w].b \in stuck')
  BY DEF EnqueueExpiry, Settle, Abort, Releases
<1>3. QED
  BY <1>1, <1>2, SeatsRestAtTheEnd

LEMMA ReadTripSound ==
  ASSUME SeatTypes, Good, NEW w \in Handler, ReadTrip(w)
  PROVE  Good'
<1>1. /\ UNCHANGED <<seat, left, status, st, seats, failures>> /\ h[w] \in HandlerRecord
      /\ h[w].pc = "release"
  BY HandlerFacts DEF ReadTrip, row
<1>2. PICK t : t = Trip
  OBVIOUS
<1>3. PICK r : r = [h[w] EXCEPT !.trip = t]
  OBVIOUS
<1>4. r.pc = h[w].pc /\ r.b = h[w].b /\ r.S = h[w].S
  BY <1>1, <1>3 DEF HandlerRecord
<1>5. h' = [h EXCEPT ![w] = r]
  BY <1>2, <1>3, HandlerFacts DEF ReadTrip
<1>6. QED
  BY <1>1, <1>4, <1>5, SeatsRest DEF Releases

LEMMA ReleaseFailsSound ==
  ASSUME SeatTypes, Good, NEW w \in Handler, ReleaseFails(w)
  PROVE  Good'
<1>1. /\ UNCHANGED <<seat, left, status, st, seats>> /\ stuck' = stuck \cup {h[w].b}
      /\ h[w].pc = "release" /\ h[w] \in HandlerRecord
  BY HandlerFacts DEF ReleaseFails, row, SeatTypes, RowsOK
<1>2. PICK s \in h[w].S : h' = [h EXCEPT ![w].S = @ \ {s}, ![w].trip = Nothing]
  BY DEF ReleaseFails
<1>3. PICK S : S = h[w].S \ {s}
  OBVIOUS
<1>4. PICK r : r = [h[w] EXCEPT !.S = S, !.trip = Nothing]
  OBVIOUS
<1>5. r.pc = "release" /\ r.b = h[w].b /\ r.S = S
  BY <1>1, <1>4 DEF HandlerRecord
<1>6. h' = [h EXCEPT ![w] = r]
  BY <1>2, <1>3, <1>4, HandlerFacts
<1>7. QED
  BY <1>1, <1>3, <1>5, <1>6, SeatsRest DEF Releases

\* Saves of the trip that are about its status, or another column.
LEMMA StatusSound ==
  ASSUME SeatTypes, Good, ~mishap', NEW w \in Handler, Update(w) \/ Hide(w) \/ Show(w)
  PROVE  Good'
<1>1. Done(w) /\ UNCHANGED <<st, seats, failures>> /\ ~Releases(h[w])
  BY DEF Update, Hide, Show, Releases
<1>2. UNCHANGED <<seat, left>> /\ (status' # "cancelled" => status # "cancelled")
  <2>1. CASE Update(w)
    BY <2>1, FreshSave DEF Update
  <2>2. CASE Hide(w)
    <3>1. h[w].trip.status # "cancelled"
      BY <2>2, HandlerFacts DEF Hide, Knows
    <3>2. QED
      BY <2>2, <3>1, FreshSave DEF Hide
  <2>3. CASE Show(w)
    <3>1. h[w].trip = Trip /\ status # "cancelled"
      BY <2>3 DEF Show, Note
    <3>2. QED
      BY <2>3, <3>1 DEF Show, Trip
  <2>4. QED
    BY <2>1, <2>2, <2>3
<1>3. QED
  BY <1>1, <1>2, SeatsRestAtTheEnd

LEMMA CancelTripSound ==
  ASSUME SeatTypes, Good, ~mishap', NEW w \in Handler, CancelTrip(w)
  PROVE  Good'
<1>1. UNCHANGED <<seat, left, st, seats, failures>> /\ status' = "cancelled" /\ ~Releases(h[w])
  BY FreshSave DEF CancelTrip, Releases
<1>2. PICK r : r = [Idle EXCEPT !.pc = "cancelAll"]
  OBVIOUS
<1>3. r.pc = "cancelAll" /\ h' = [h EXCEPT ![w] = r]
  BY <1>2 DEF Idle, CancelTrip
<1>4. QED
  BY <1>1, <1>3, SeatsRest DEF Releases

LEMMA RosterSound ==
  ASSUME SeatTypes, Good, NEW w \in Handler, CancelAllForTrip(w) \/ ReadRoster(w)
  PROVE  Good'
<1>1. UNCHANGED <<seat, left, status, st, seats, failures>> /\ ~Releases(h[w])
  BY DEF CancelAllForTrip, ReadRoster, Releases, row
<1>2. PICK r : /\ h' = [h EXCEPT ![w] = r]
               /\ \/ r.pc = "each" /\ h[w].pc = "cancelAll"
                  \/ r.pc = "board"
  <2>1. CASE CancelAllForTrip(w)
    <3>1. PICK B, was : h' = [h EXCEPT ![w] = [Idle EXCEPT !.pc = "each", !.S = B, !.was = was]]
      BY <2>1, Zenon DEF CancelAllForTrip
    <3>2. PICK r : r = [Idle EXCEPT !.pc = "each", !.S = B, !.was = was]
      OBVIOUS
    <3>3. r.pc = "each" /\ h' = [h EXCEPT ![w] = r]
      BY <3>1, <3>2 DEF Idle
    <3>4. QED
      BY <2>1, <3>3 DEF CancelAllForTrip
  <2>2. CASE ReadRoster(w)
    <3>1. PICK B, was : h' = [h EXCEPT ![w] = [Idle EXCEPT !.pc = "board", !.S = B, !.was = was]]
      BY <2>2, Zenon DEF ReadRoster
    <3>2. PICK r : r = [Idle EXCEPT !.pc = "board", !.S = B, !.was = was]
      OBVIOUS
    <3>3. r.pc = "board" /\ h' = [h EXCEPT ![w] = r]
      BY <3>1, <3>2 DEF Idle
    <3>4. QED
      BY <3>3
  <2>3. QED
    BY <2>1, <2>2
<1>3. r.pc \in {"cancelAll", "each"} => status' = "cancelled"
  BY <1>1, <1>2 DEF Good, CalledOK
<1>4. QED
  BY <1>1, <1>2, <1>3, SeatsRest DEF Releases

-----------------------------------------------------------------------------
(* Steps that move a seat or a booking *)

LEMMA BookSound ==
  ASSUME SeatTypes, Good, NEW w \in Handler, Book(w)
  PROVE  Good'
<1> DEFINE b == h[w].b
           S == h[w].S
<1>1. /\ h[w].pc = "book" /\ b \in Booking /\ S \in SUBSET Seat /\ st[b] = "none"
      /\ UNCHANGED <<status, failures>> /\ ~Releases(h[w])
  BY HandlerFacts DEF Book, Knows, Releases
<1>2. CASE Done(w) /\ UNCHANGED <<seat, left, st, seats>>
  BY <1>1, <1>2, SeatsRestAtTheEnd
<1>3. CASE MayTake(S) /\ st' = [st EXCEPT ![b] = "pending"]
  <2>1. PICK r : r = [Idle EXCEPT !.pc = "enqueue", !.b = b]
    OBVIOUS
  <2>2. r.pc = "enqueue"
    BY <2>1 DEF Idle
  <2>3. /\ seat' = [s \in Seat |-> IF s \in S THEN b ELSE seat[s]]
        /\ left' = Minus(left, Cardinality(S))
        /\ seats' = [seats EXCEPT ![b] = S] /\ h' = [h EXCEPT ![w] = r]
    BY <1>1, <1>3, <2>1 DEF Book
  <2>4. h'[w] = r /\ \A v \in Handler \ {w} : h'[v] = h[v]
    BY <2>3, OneMoves
  <2>5. /\ \A s \in S : seat[s] = Free
        /\ b # Free /\ Free \notin Booking
        /\ st \in [Booking -> BookingStatus] /\ seats \in [Booking -> SUBSET Seat]
        /\ st'[b] = "pending" /\ seats'[b] = S
        /\ \A c \in Booking \ {b} : st'[c] = st[c] /\ seats'[c] = seats[c]
    BY <1>1, <1>3, <2>3 DEF MayTake, SeatTypes, RowsOK
  <2>6. HeldOK'
    <3>1. ASSUME NEW c \in Booking, st'[c] \in Live, NEW s \in seats'[c] PROVE seat'[s] = c
      <4>1. CASE c = b
        BY <1>1, <2>3, <2>5, <3>1, <4>1
      <4>2. CASE c # b
        BY <2>3, <2>5, <3>1, <4>2 DEF Good, HeldOK
      <4>3. QED
        BY <4>1, <4>2
    <3>2. QED
      BY <3>1 DEF HeldOK
  <2>7. OwnedOK'
    BY <1>1, <2>3, <2>5 DEF Good, OwnedOK
  <2>8. ReleaseOK'
    <3>1. ASSUME NEW v \in Handler, Releases(h'[v])
          PROVE  st'[h'[v].b] \notin Live /\ \A s \in h'[v].S : seat'[s] = h'[v].b
      <4>1. v # w /\ h'[v] = h[v] /\ Releases(h[v])
        BY <2>2, <2>4, <3>1 DEF Releases
      <4>2. h[v].b \in Booking \ {b} /\ h[v].S \in SUBSET Seat
        BY <1>1, <4>1, HandlerFacts DEF Releases, Knows
      <4>3. st[h[v].b] \notin Live /\ \A s \in h[v].S : seat[s] = h[v].b
        BY <4>1 DEF Good, ReleaseOK
      <4>4. QED
        BY <2>3, <2>5, <4>1, <4>2, <4>3
    <3>2. QED
      BY <3>1 DEF ReleaseOK
  <2>9. AloneOK'
    BY <2>2, <2>4 DEF Good, AloneOK, Releases
  <2>10. CalledOK'
    BY <1>1, <2>2, <2>4 DEF Good, CalledOK
  <2>11. CountOK'
    <3>1. Cardinality(FreeSeats(seat')) = Minus(Cardinality(FreeSeats(seat)), Cardinality(S))
      BY <1>1, <2>3, <2>5, ManyTaken
    <3>2. QED
      BY <2>3, <3>1 DEF Good, CountOK
  <2>12. KeptOK'
    <3>1. ASSUME status' # "cancelled", NEW s \in Seat, seat'[s] \in Booking,
                 seat'[s] \notin stuck',
                 st'[seat'[s]] \notin Live
          PROVE  \E v \in Handler : h'[v].pc = "release" /\ h'[v].b = seat'[s] /\ s \in h'[v].S
      <4>1. seat'[s] # b /\ seat'[s] = seat[s] /\ st[seat[s]] \notin Live
        BY <2>3, <2>5, <3>1 DEF Live
      <4>2. PICK v \in Handler : h[v].pc = "release" /\ h[v].b = seat[s] /\ s \in h[v].S
        BY <1>1, <3>1, <4>1 DEF Good, KeptOK
      <4>3. h'[v] = h[v]
        BY <1>1, <2>4, <4>2
      <4>4. QED
        BY <4>1, <4>2, <4>3
    <3>2. QED
      BY <3>1 DEF KeptOK
  <2>13. QED
    BY <2>6, <2>7, <2>8, <2>9, <2>10, <2>11, <2>12 DEF Good
<1>4. QED
  BY <1>2, <1>3 DEF Book

LEMMA DecideSound ==
  ASSUME SeatTypes, Good, ~mishap', NEW w \in Handler, Decide(w)
  PROVE  Good'
<1> DEFINE b == h[w].b
           to == h[w].to
<1>1. /\ h[w].pc = "decide" /\ b \in Booking /\ st[b] # "none"
      /\ to \in {"confirmed", "rejected", "cancelled"}
      /\ h[w].was[b] \in BookingStatus \ {"none", "cancelled"}
  BY HandlerFacts DEF Decide, Knows
<1>2. /\ st' = [st EXCEPT ![b] = to]
      /\ UNCHANGED <<seat, left, status, seats, failures>>
      /\ st[b] = h[w].was[b] /\ st[b] # "rejected"
  BY DEF Decide, Note, row
<1>3. st[b] \in Live
  BY <1>1, <1>2 DEF BookingStatus
<1>4. PICK S : S = SeatsToRelease(b, to)
  OBVIOUS
<1>5. PICK by : by = h[w].by
  OBVIOUS
<1>6. PICK r : r = [Idle EXCEPT !.pc = "release", !.b = b, !.by = by, !.S = S]
  OBVIOUS
<1>7. r.pc = "release" /\ r.b = b /\ r.S = S
  BY <1>6 DEF Idle
<1>8. h' = [h EXCEPT ![w] = r]
  BY <1>4, <1>5, <1>6 DEF Decide
<1>9. h'[w] = r /\ \A v \in Handler \ {w} : h'[v] = h[v]
  BY <1>8, OneMoves
<1>10. /\ st'[b] = to /\ \A c \in Booking \ {b} : st'[c] = st[c]
       /\ st \in [Booking -> BookingStatus]
  BY <1>1, <1>2 DEF SeatTypes, RowsOK
<1>11. /\ to = "confirmed" => S = {}
       /\ to # "confirmed" => S = seats[b] /\ to \notin Live
  BY <1>1, <1>4 DEF SeatsToRelease, Live
<1>12. HeldOK' /\ OwnedOK' /\ CountOK' /\ CalledOK'
  <2>1. HeldOK'
    BY <1>1, <1>2, <1>3, <1>10 DEF Good, HeldOK
  <2>2. OwnedOK'
    BY <1>1, <1>2, <1>10 DEF Good, OwnedOK
  <2>3. CountOK' /\ CalledOK'
    BY <1>2, <1>7, <1>9 DEF Good, CountOK, FreeSeats, CalledOK
  <2>4. QED
    BY <2>1, <2>2, <2>3
\* Nobody else was releasing the seats of a booking that was live.
<1>13. \A v \in Handler \ {w} : Releases(h[v]) => h[v].b \in Booking \ {b}
  <2>1. ASSUME NEW v \in Handler \ {w}, Releases(h[v]) PROVE h[v].b \in Booking \ {b}
    <3>1. h[v].b \in Booking
      BY <2>1, HandlerFacts DEF Releases, Knows
    <3>2. st[h[v].b] \notin Live
      BY <2>1 DEF Good, ReleaseOK
    <3>3. QED
      BY <1>3, <3>1, <3>2
  <2>2. QED
    BY <2>1
<1>14. ReleaseOK'
  <2>1. ASSUME Releases(r) PROVE st'[b] \notin Live /\ \A s \in S : seat'[s] = b
    BY <1>1, <1>2, <1>3, <1>7, <1>10, <1>11, <2>1 DEF Releases, Good, HeldOK
  <2>2. ASSUME NEW v \in Handler \ {w}, Releases(h[v])
        PROVE  st'[h[v].b] \notin Live /\ \A s \in h[v].S : seat'[s] = h[v].b
    BY <1>2, <1>10, <1>13, <2>2 DEF Good, ReleaseOK
  <2>3. QED
    BY <1>7, <1>9, <2>1, <2>2 DEF ReleaseOK
<1>15. AloneOK'
  BY <1>7, <1>9, <1>13 DEF Good, AloneOK
<1>16. KeptOK'
  <2>1. ASSUME status' # "cancelled", NEW s \in Seat, seat'[s] \in Booking,
               seat'[s] \notin stuck',
               st'[seat'[s]] \notin Live
        PROVE  \E v \in Handler : h'[v].pc = "release" /\ h'[v].b = seat'[s] /\ s \in h'[v].S
    <3>1. CASE seat[s] = b
      <4>1. s \in S
        BY <1>1, <1>2, <1>10, <1>11, <2>1, <3>1 DEF Good, OwnedOK, Live
      <4>2. QED
        BY <1>2, <1>7, <1>9, <3>1, <4>1
    <3>2. CASE seat[s] # b
      <4>1. st[seat[s]] \notin Live
        BY <1>2, <1>10, <2>1, <3>2
      <4>2. PICK v \in Handler : h[v].pc = "release" /\ h[v].b = seat[s] /\ s \in h[v].S
        BY <1>2, <2>1, <4>1 DEF Good, KeptOK
      <4>3. h'[v] = h[v]
        BY <1>1, <1>9, <4>2
      <4>4. QED
        BY <1>2, <4>2, <4>3
    <3>3. QED
      BY <3>1, <3>2
  <2>2. QED
    BY <2>1 DEF KeptOK
<1>17. QED
  BY <1>12, <1>14, <1>15, <1>16 DEF Good

LEMMA ReleaseSeatSound ==
  ASSUME SeatTypes, Good, ~mishap', NEW w \in Handler, ReleaseSeat(w)
  PROVE  Good'
<1> DEFINE b == h[w].b
<1>1. /\ h[w].pc = "release" /\ b \in Booking /\ h[w].S \in SUBSET Seat
      /\ h[w] \in HandlerRecord /\ UNCHANGED <<st, seats, failures>>
  BY HandlerFacts DEF ReleaseSeat, Knows
<1>2. PICK s \in h[w].S :
        /\ SaveTrip(w, [h[w].trip.seat EXCEPT ![s] = Free], CountAfter(w), h[w].trip.status)
        /\ h' = [h EXCEPT ![w].S = @ \ {s}, ![w].trip = Nothing]
  BY DEF ReleaseSeat
<1>3. /\ seat' = [seat EXCEPT ![s] = Free] /\ left' = left + 1 /\ status' = status
  BY <1>2, FreshSave DEF CountAfter
<1>4. s \in Seat /\ Releases(h[w]) /\ st[b] \notin Live /\ \A t \in h[w].S : seat[t] = b
  BY <1>1, <1>2 DEF Releases, Good, ReleaseOK
<1>5. PICK S : S = h[w].S \ {s}
  OBVIOUS
<1>6. PICK r : r = [h[w] EXCEPT !.S = S, !.trip = Nothing]
  OBVIOUS
<1>7. r.pc = "release" /\ r.b = b /\ r.S = S
  BY <1>1, <1>6 DEF HandlerRecord
<1>8. h' = [h EXCEPT ![w] = r]
  BY <1>2, <1>5, <1>6, HandlerFacts
<1>9. h'[w] = r /\ \A v \in Handler \ {w} : h'[v] = h[v]
  BY <1>8, OneMoves
<1>10. /\ seat \in [Seat -> Booking \cup {Free, Locked}] /\ seats \in [Booking -> SUBSET Seat]
       /\ Free \notin Booking
       /\ seat'[s] = Free /\ \A t \in Seat \ {s} : seat'[t] = seat[t]
  BY <1>3, <1>4 DEF SeatTypes, RowsOK
<1>11. HeldOK'
  <2>1. ASSUME NEW c \in Booking, st[c] \in Live, NEW t \in seats[c] PROVE seat'[t] = c
    <3>1. t \in Seat /\ seat[t] = c
      BY <1>10, <2>1 DEF Good, HeldOK
    <3>2. t # s
      BY <1>2, <1>4, <2>1, <3>1
    <3>3. QED
      BY <1>10, <3>1, <3>2
  <2>2. QED
    BY <1>1, <2>1 DEF HeldOK
<1>12. OwnedOK'
  BY <1>1, <1>10 DEF Good, OwnedOK
<1>13. ReleaseOK'
  <2>1. ASSUME NEW v \in Handler \ {w}, Releases(h[v])
        PROVE  st[h[v].b] \notin Live /\ \A t \in h[v].S : seat'[t] = h[v].b
    <3>1. st[h[v].b] \notin Live /\ \A t \in h[v].S : seat[t] = h[v].b
      BY <2>1 DEF Good, ReleaseOK
    <3>2. h[v].b # b /\ h[v].S \in SUBSET Seat
      BY <1>4, <2>1, HandlerFacts DEF Good, AloneOK, Releases, Knows
    <3>3. s \notin h[v].S
      BY <1>2, <1>4, <3>1, <3>2
    <3>4. QED
      BY <1>10, <3>1, <3>2, <3>3
  <2>2. \A t \in S : seat'[t] = b
    BY <1>1, <1>4, <1>5, <1>10
  <2>3. QED
    BY <1>1, <1>4, <1>7, <1>9, <2>1, <2>2 DEF ReleaseOK
<1>14. AloneOK'
  <2>1. \A v \in Handler : Releases(h'[v]) => Releases(h[v]) /\ h'[v].b = h[v].b
    BY <1>4, <1>7, <1>9
  <2>2. QED
    BY <2>1 DEF Good, AloneOK
<1>15. CalledOK'
  BY <1>3, <1>7, <1>9 DEF Good, CalledOK
<1>16. CountOK'
  <2>1. seat[s] # Free
    BY <1>1, <1>2, <1>4, <1>10
  <2>2. Cardinality(FreeSeats(seat')) = Cardinality(FreeSeats(seat)) + 1
    BY <1>4, <1>10, <2>1, OneFreed
  <2>3. QED
    BY <1>3, <2>2 DEF Good, CountOK
<1>17. KeptOK'
  <2>1. ASSUME status' # "cancelled", NEW t \in Seat, seat'[t] \in Booking,
               seat'[t] \notin stuck',
               st'[seat'[t]] \notin Live
        PROVE  \E v \in Handler : h'[v].pc = "release" /\ h'[v].b = seat'[t] /\ t \in h'[v].S
    <3>1. t # s /\ seat'[t] = seat[t]
      BY <1>10, <2>1
    <3>2. PICK v \in Handler : h[v].pc = "release" /\ h[v].b = seat[t] /\ t \in h[v].S
      BY <1>1, <1>3, <2>1, <3>1 DEF Good, KeptOK
    <3>3. h'[v].pc = "release" /\ h'[v].b = seat'[t] /\ t \in h'[v].S
      BY <1>5, <1>7, <1>9, <3>1, <3>2
    <3>4. QED
      BY <3>3
  <2>2. QED
    BY <2>1 DEF KeptOK
<1>18. QED
  BY <1>11, <1>12, <1>13, <1>14, <1>15, <1>16, <1>17 DEF Good

\* A seat that no booking has changes between free and locked.
LEMMA LockSound ==
  ASSUME SeatTypes, Good, ~mishap', NEW w \in Handler, SetSeatLock(w)
  PROVE  Good'
<1>1. /\ h[w].pc \in {"lock", "unlock"} /\ Done(w) /\ UNCHANGED <<st, seats, failures>>
      /\ ~Releases(h[w])
  BY DEF SetSeatLock, Releases
<1>2. PICK s \in Seat :
        /\ status' = status /\ seat[s] \in {Free, Locked} /\ seat'[s] \in {Free, Locked}
        /\ \A t \in Seat \ {s} : seat'[t] = seat[t]
        /\ CountOK'
  <2>1. left = Cardinality(FreeSeats(seat)) /\ seat \in [Seat -> Booking \cup {Free, Locked}]
    BY DEF Good, CountOK, SeatTypes, RowsOK
  <2>2. CASE h[w].pc = "lock"
    <3>1. PICK s \in h[w].S :
            SaveTrip(w, [h[w].trip.seat EXCEPT ![s] = Locked], Minus(h[w].trip.left, 1),
                     h[w].trip.status)
      BY <2>2 DEF SetSeatLock
    <3>2. /\ seat' = [seat EXCEPT ![s] = Locked] /\ left' = Minus(left, 1) /\ status' = status
          /\ h[w].trip.seat = seat
      BY <3>1, FreshSave
    <3>3. s \in Seat /\ seat[s] = Free
      BY <2>2, <3>2, HandlerFacts DEF Knows, Editing
    <3>4. seat'[s] = Locked /\ \A t \in Seat \ {s} : seat'[t] = seat[t]
      BY <2>1, <3>2, <3>3
    <3>5. Cardinality(FreeSeats(seat')) = Minus(Cardinality(FreeSeats(seat)), 1)
      BY <3>3, <3>4, OneTaken
    <3>6. CountOK'
      BY <2>1, <3>2, <3>5 DEF CountOK
    <3>7. QED
      BY <3>2, <3>3, <3>4, <3>6
  <2>3. CASE h[w].pc = "unlock"
    <3>1. PICK s \in h[w].S :
            SaveTrip(w, [h[w].trip.seat EXCEPT ![s] = Free], h[w].trip.left + 1, h[w].trip.status)
      BY <2>3 DEF SetSeatLock
    <3>2. /\ seat' = [seat EXCEPT ![s] = Free] /\ left' = left + 1 /\ status' = status
          /\ h[w].trip.seat = seat
      BY <3>1, FreshSave
    <3>3. s \in Seat /\ seat[s] = Locked
      BY <2>3, <3>2, HandlerFacts DEF Knows, Editing
    <3>4. seat'[s] = Free /\ \A t \in Seat \ {s} : seat'[t] = seat[t]
      BY <2>1, <3>2, <3>3
    <3>5. Cardinality(FreeSeats(seat')) = Cardinality(FreeSeats(seat)) + 1
      BY <3>3, <3>4, OneFreed
    <3>6. CountOK'
      BY <2>1, <3>2, <3>5 DEF CountOK
    <3>7. QED
      BY <3>2, <3>3, <3>4, <3>6
  <2>4. QED
    BY <1>1, <2>2, <2>3
<1>3. /\ {Free, Locked} \cap Booking = {} /\ seats \in [Booking -> SUBSET Seat]
      /\ \A v \in Handler \ {w} : h'[v] = h[v]
      /\ h'[w].pc = "idle" /\ ~Releases(h'[w])
  BY <1>1, IdleRecord, HandlerFacts DEF Done, Releases, SeatTypes, RowsOK
<1>4. HeldOK' /\ OwnedOK'
  BY <1>1, <1>2, <1>3 DEF Good, HeldOK, OwnedOK
<1>5. ReleaseOK'
  <2>1. ASSUME NEW v \in Handler, Releases(h'[v])
        PROVE  st[h'[v].b] \notin Live /\ \A t \in h'[v].S : seat'[t] = h'[v].b
    <3>1. v # w /\ h'[v] = h[v] /\ Releases(h[v])
      BY <1>3, <2>1
    <3>2. h[v].b \in Booking /\ h[v].S \in SUBSET Seat
      BY <3>1, HandlerFacts DEF Releases, Knows
    <3>3. st[h[v].b] \notin Live /\ \A t \in h[v].S : seat[t] = h[v].b
      BY <3>1 DEF Good, ReleaseOK
    <3>4. QED
      BY <1>2, <1>3, <3>1, <3>2, <3>3
  <2>2. QED
    BY <1>1, <2>1 DEF ReleaseOK
<1>6. AloneOK' /\ CalledOK'
  BY <1>2, <1>3 DEF Good, AloneOK, CalledOK
<1>7. KeptOK'
  <2>1. ASSUME status' # "cancelled", NEW t \in Seat, seat'[t] \in Booking,
               seat'[t] \notin stuck',
               st'[seat'[t]] \notin Live
        PROVE  \E v \in Handler : h'[v].pc = "release" /\ h'[v].b = seat'[t] /\ t \in h'[v].S
    <3>1. seat'[t] = seat[t]
      BY <1>2, <1>3, <2>1
    <3>2. PICK v \in Handler : h[v].pc = "release" /\ h[v].b = seat[t] /\ t \in h[v].S
      BY <1>1, <1>2, <2>1, <3>1 DEF Good, KeptOK
    <3>3. h'[v] = h[v]
      BY <1>1, <1>3, <3>2
    <3>4. QED
      BY <3>1, <3>2, <3>3
  <2>2. QED
    BY <2>1 DEF KeptOK
<1>8. QED
  BY <1>2, <1>4, <1>5, <1>6, <1>7 DEF Good

LEMMA CancelEachSound ==
  ASSUME SeatTypes, Good, NEW w \in Handler, CancelEach(w)
  PROVE  Good'
<1>1. /\ h[w].pc = "each" /\ h[w].S \in SUBSET Booking /\ h[w] \in HandlerRecord
      /\ UNCHANGED <<seat, left, status, seats, failures>> /\ status = "cancelled"
      /\ ~Releases(h[w])
  BY HandlerFacts DEF CancelEach, Knows, row, Good, CalledOK, Releases
<1>2. CASE Done(w) /\ UNCHANGED <<st, mishap>>
  BY <1>1, <1>2, SeatsRestAtTheEnd
<1>3. ASSUME NEW b \in h[w].S, SaveBookings(w, {b}, "cancelled"), h' = [h EXCEPT ![w].S = @ \ {b}]
      PROVE  Good'
  <2>1. PICK r : r = [h[w] EXCEPT !.S = @ \ {b}]
    OBVIOUS
  <2>2. r.pc = "each" /\ h' = [h EXCEPT ![w] = r]
    BY <1>1, <1>3, <2>1, HandlerFacts DEF HandlerRecord
  <2>3. h'[w] = r /\ \A v \in Handler \ {w} : h'[v] = h[v]
    BY <2>2, OneMoves
  <2>4. \A c \in Booking : st'[c] = IF c = b THEN "cancelled" ELSE st[c]
    BY <1>3 DEF SaveBookings
  <2>5. HeldOK' /\ OwnedOK' /\ CountOK'
    BY <1>1, <2>4 DEF Good, HeldOK, OwnedOK, CountOK, FreeSeats, Live
  <2>6. ReleaseOK'
    <3>1. ASSUME NEW v \in Handler, Releases(h'[v])
          PROVE  st'[h'[v].b] \notin Live /\ \A t \in h'[v].S : seat[t] = h'[v].b
      <4>1. h'[v] = h[v] /\ Releases(h[v])
        BY <2>2, <2>3, <3>1 DEF Releases
      <4>2. h[v].b \in Booking
        BY <4>1, HandlerFacts DEF Releases, Knows
      <4>3. QED
        BY <2>4, <4>1, <4>2 DEF Good, ReleaseOK, Live
    <3>2. QED
      BY <1>1, <3>1 DEF ReleaseOK
  <2>7. AloneOK' /\ CalledOK'
    BY <1>1, <2>2, <2>3 DEF Good, AloneOK, CalledOK, Releases
  <2>8. KeptOK'
    BY <1>1 DEF KeptOK
  <2>9. QED
    BY <2>5, <2>6, <2>7, <2>8 DEF Good
<1>4. QED
  BY <1>2, <1>3 DEF CancelEach

LEMMA BoardSound ==
  ASSUME SeatTypes, Good, ~mishap', NEW w \in Handler, Board(w)
  PROVE  Good'
<1>1. /\ h[w].pc = "board" /\ h[w].S \in SUBSET Booking
      /\ \A b \in h[w].S : h[w].was[b] = "confirmed"
      /\ UNCHANGED <<seat, left, status, seats, failures>> /\ Done(w) /\ ~Releases(h[w])
  BY HandlerFacts DEF Board, Knows, row, Releases
<1>2. \A b \in h[w].S : st[b] = "confirmed"
  BY <1>1 DEF Board, SaveBookings, Note
<1>3. \A b \in Booking : st'[b] = IF b \in h[w].S THEN "in_progress" ELSE st[b]
  BY DEF Board, SaveBookings
<1>4. \A b \in Booking : /\ st'[b] \in Live <=> st[b] \in Live
                         /\ st'[b] = "none" <=> st[b] = "none"
  BY <1>2, <1>3 DEF Live
<1>5. /\ \A v \in Handler \ {w} : h'[v] = h[v]
      /\ h'[w].pc = "idle" /\ ~Releases(h'[w])
  BY <1>1, IdleRecord, HandlerFacts DEF Done, Releases
<1>6. HeldOK' /\ OwnedOK' /\ CountOK'
  BY <1>1, <1>4 DEF Good, HeldOK, OwnedOK, CountOK, FreeSeats
<1>7. ReleaseOK'
  <2>1. ASSUME NEW v \in Handler, Releases(h'[v])
        PROVE  st'[h'[v].b] \notin Live /\ \A t \in h'[v].S : seat[t] = h'[v].b
    <3>1. h'[v] = h[v] /\ Releases(h[v])
      BY <1>5, <2>1
    <3>2. h[v].b \in Booking
      BY <3>1, HandlerFacts DEF Releases, Knows
    <3>3. QED
      BY <1>4, <3>1, <3>2 DEF Good, ReleaseOK
  <2>2. QED
    BY <1>1, <2>1 DEF ReleaseOK
<1>8. AloneOK' /\ CalledOK'
  BY <1>1, <1>5 DEF Good, AloneOK, CalledOK
<1>9. KeptOK'
  <2>1. ASSUME status' # "cancelled", NEW t \in Seat, seat[t] \in Booking,
               seat[t] \notin stuck',
               st'[seat[t]] \notin Live
        PROVE  \E v \in Handler : h'[v].pc = "release" /\ h'[v].b = seat[t] /\ t \in h'[v].S
    <3>1. PICK v \in Handler : h[v].pc = "release" /\ h[v].b = seat[t] /\ t \in h[v].S
      BY <1>1, <1>4, <2>1 DEF Good, KeptOK
    <3>2. h'[v] = h[v]
      BY <1>1, <1>5, <3>1
    <3>3. QED
      BY <3>1, <3>2
  <2>2. QED
    BY <1>1, <2>1 DEF KeptOK
<1>10. QED
  BY <1>6, <1>7, <1>8, <1>9 DEF Good

-----------------------------------------------------------------------------
(* The theorems about the seats *)

SeatInv == SeatTypes /\ Sound

LEMMA SoundInitially ==
  ASSUME Init
  PROVE  Good
<1>1. \A w \in Handler : h[w].pc = "idle" /\ ~Releases(h[w])
  BY IdleRecord DEF Init, Releases
<1>2. FreeSeats(seat) = Seat
  BY DEF Init, FreeSeats
<1>3. CountOK
  BY <1>2 DEF Init, CountOK
<1>4. HeldOK /\ OwnedOK /\ KeptOK
  BY DEF Init, HeldOK, OwnedOK, KeptOK, Live
<1>5. ReleaseOK /\ AloneOK /\ CalledOK
  BY <1>1 DEF ReleaseOK, AloneOK, CalledOK
<1>6. QED
  BY <1>3, <1>4, <1>5 DEF Good

LEMMA SeatsKept ==
  ASSUME SeatTypes, Good, [Next]_vars, ~mishap'
  PROVE  Good'
<1>1. ASSUME NEW w \in Handler, NEW b \in Booking,
             \/ \E S \in SUBSET Seat : CreateMultiSeat(w, b, S)
             \/ Answer(w, b) \/ HandleExpire(w, b)
      PROVE  Good'
  BY <1>1, BeginningsSound
<1>2. ASSUME NEW w \in Handler, Drive(w) PROVE Good'
  BY <1>2, DriveSound
<1>3. ASSUME NEW w \in Handler, HandlerStep(w) PROVE Good'
  BY <1>3, BookSound, EndingsSound, DecideSound, ReadTripSound, ReleaseSeatSound, LockSound,
     StatusSound, CancelTripSound, RosterSound, CancelEachSound, BoardSound
  DEF HandlerStep
<1>4. ASSUME NEW w \in Handler, ReleaseFails(w) \/ Abort(w) PROVE Good'
  BY <1>4, ReleaseFailsSound, EndingsSound
<1>5. CASE UNCHANGED vars
  <2>1. UNCHANGED <<seat, left, status, st, seats, h, failures>>
    BY <1>5 DEF vars, row
  <2>2. HeldOK' /\ OwnedOK' /\ ReleaseOK' /\ AloneOK'
    BY <2>1 DEF Good, HeldOK, OwnedOK, ReleaseOK, AloneOK
  <2>3. CalledOK' /\ CountOK' /\ KeptOK'
    BY <2>1 DEF Good, CalledOK, CountOK, FreeSeats, KeptOK
  <2>4. QED
    BY <2>2, <2>3 DEF Good
<1>6. QED
  BY <1>1, <1>2, <1>3, <1>4, <1>5 DEF Next

\* A mishap is not taken back.
LEMMA MishapStays ==
  ASSUME SeatTypes, [Next]_vars, mishap
  PROVE  mishap'
BY DEF Next, vars

LEMMA SeatInvAlways == Spec => []SeatInv
<1>1. Init => SeatInv
  BY SeatsInitially, SoundInitially DEF SeatInv, Sound
<1>2. SeatInv /\ [Next]_vars => SeatInv'
  BY SeatTypesKept, SeatsKept, MishapStays DEF SeatInv, Sound
<1>3. QED
  BY <1>1, <1>2, PTL DEF Spec

\* No seat is sold to two bookings, and a booking that is not over has its seats.
THEOREM OneHolder == Spec => []SeatHasOneHolder
<1>1. ASSUME HeldOK, SeatTypes, NEW s \in Seat
      PROVE  Cardinality(Holders(s)) <= 1 /\ (Holders(s) # {} => seat[s] \in Holders(s))
  <2>1. \A b \in Holders(s) : b = seat[s]
    BY <1>1 DEF HeldOK, Holders
  <2>2. CASE Holders(s) = {}
    BY <2>2, FS_EmptySet
  <2>3. CASE Holders(s) # {}
    <3>1. Holders(s) = {seat[s]}
      BY <2>1, <2>3
    <3>2. Cardinality({seat[s]}) = 1
      BY FS_Singleton
    <3>3. Cardinality(Holders(s)) = 1
      BY <3>1, <3>2
    <3>4. seat[s] \in Holders(s)
      BY <3>1
    <3>5. QED
      BY <3>3, <3>4
  <2>4. QED
    BY <2>2, <2>3
<1>2. SeatInv => SeatHasOneHolder
  BY <1>1 DEF SeatInv, Sound, Good, SeatHasOneHolder
<1>3. QED
  BY <1>2, SeatInvAlways, PTL

\* The count of available seats is that of the seats that are free.
THEOREM CountRight == Spec => []CountAgrees
<1>1. SeatInv => CountAgrees
  BY DEF SeatInv, Sound, Good, CountOK, FreeSeats, CountAgrees
<1>2. QED
  BY <1>1, SeatInvAlways, PTL

\* A seat that is taken belongs to a booking that is not over, or to a handler that
\* will release it, unless a release of that very booking failed.
THEOREM TakenHeld == Spec => []TakenIsHeld
<1>1. SeatInv => TakenIsHeld
  BY DEF SeatInv, Sound, Good, KeptOK, TakenIsHeld
<1>2. QED
  BY <1>1, SeatInvAlways, PTL

-----------------------------------------------------------------------------
(* The seats implement SeatPromise *)

LEMMA ReleaseGivesUp ==
  ASSUME SeatTypes, Good, ~mishap', NEW w \in Handler, ReleaseSeat(w)
  PROVE  Promise!Next
<1>1. h[w].pc = "release" /\ h[w].b \in Booking /\ h[w].S \in SUBSET Seat
  BY HandlerFacts DEF ReleaseSeat, Knows
<1>2. PICK s \in h[w].S :
        SaveTrip(w, [h[w].trip.seat EXCEPT ![s] = Free], CountAfter(w), h[w].trip.status)
  BY DEF ReleaseSeat
<1>3. seat' = [seat EXCEPT ![s] = Free]
  BY <1>2, FreshSave
<1>4. s \in Seat /\ seat[s] = h[w].b
  BY <1>1, <1>2 DEF Releases, Good, ReleaseOK
<1>5. Promise!GiveUp(h[w].b, s)
  BY <1>3, <1>4 DEF Promise!GiveUp
<1>6. QED
  BY <1>1, <1>4, <1>5 DEF Promise!Next

LEMMA LockCloses ==
  ASSUME SeatTypes, ~mishap', NEW w \in Handler, SetSeatLock(w)
  PROVE  Promise!Next
<1>1. CASE h[w].pc = "lock"
  <2>1. PICK s \in h[w].S :
          SaveTrip(w, [h[w].trip.seat EXCEPT ![s] = Locked], Minus(h[w].trip.left, 1),
                   h[w].trip.status)
    BY <1>1 DEF SetSeatLock
  <2>2. seat' = [seat EXCEPT ![s] = Locked] /\ h[w].trip.seat = seat
    BY <2>1, FreshSave
  <2>3. s \in Seat /\ seat[s] = Free
    BY <1>1, <2>2, HandlerFacts DEF Knows, Editing
  <2>4. QED
    BY <2>2, <2>3 DEF Promise!Close, Promise!Next
<1>2. CASE h[w].pc = "unlock"
  <2>1. PICK s \in h[w].S :
          SaveTrip(w, [h[w].trip.seat EXCEPT ![s] = Free], h[w].trip.left + 1, h[w].trip.status)
    BY <1>2 DEF SetSeatLock
  <2>2. seat' = [seat EXCEPT ![s] = Free] /\ h[w].trip.seat = seat
    BY <2>1, FreshSave
  <2>3. s \in Seat /\ seat[s] = Locked
    BY <1>2, <2>2, HandlerFacts DEF Knows, Editing
  <2>4. QED
    BY <2>2, <2>3 DEF Promise!Reopen, Promise!Next
<1>3. QED
  BY <1>1, <1>2 DEF SetSeatLock

LEMMA BookTakes ==
  ASSUME SeatTypes, NEW w \in Handler, Book(w)
  PROVE  Promise!Next \/ UNCHANGED seat
<1> DEFINE S == h[w].S
           b == h[w].b
<1>1. b \in Booking /\ S \in SUBSET Seat
  BY HandlerFacts DEF Book, Knows
<1>2. CASE MayTake(S) /\ seat' = [s \in Seat |-> IF s \in S THEN b ELSE seat[s]]
  <2>1. Promise!Take(b, S)
    BY <1>2 DEF MayTake, Promise!Take
  <2>2. QED
    BY <1>1, <2>1 DEF Promise!Next
<1>3. QED
  BY <1>2 DEF Book

LEMMA OthersLeaveSeats ==
  ASSUME SeatTypes, ~mishap', NEW w \in Handler,
         Update(w) \/ Hide(w) \/ Show(w) \/ CancelTrip(w)
  PROVE  UNCHANGED seat
<1>1. CASE Update(w)
  BY <1>1, FreshSave DEF Update
<1>2. CASE Hide(w)
  BY <1>2, FreshSave DEF Hide
<1>3. CASE CancelTrip(w)
  BY <1>3, FreshSave DEF CancelTrip
<1>4. CASE Show(w)
  <2>1. h[w].trip = Trip
    BY <1>4 DEF Show, Note
  <2>2. QED
    BY <1>4, <2>1 DEF Show, Trip
<1>5. QED
  BY <1>1, <1>2, <1>3, <1>4

LEMMA PromiseStep ==
  ASSUME SeatInv, [Next]_vars
  PROVE  [~mishap' => Promise!Next]_seat
<1> SUFFICES ASSUME ~mishap', Next
             PROVE  Promise!Next \/ UNCHANGED seat
  BY DEF vars, row
<1>1. SeatTypes /\ Good
  BY DEF SeatInv, Sound, Next
<1>2. ASSUME NEW w \in Handler, NEW b \in Booking,
             \/ \E S \in SUBSET Seat : CreateMultiSeat(w, b, S)
             \/ Answer(w, b) \/ HandleExpire(w, b)
      PROVE  UNCHANGED seat
  BY <1>2 DEF CreateMultiSeat, Answer, Accept, Reject, Cancel, HandleExpire, row
<1>3. ASSUME NEW w \in Handler, Drive(w) PROVE UNCHANGED seat
  BY <1>3 DEF Drive, Start, OpenTrip, row
<1>4. ASSUME NEW w \in Handler, HandlerStep(w) PROVE Promise!Next \/ UNCHANGED seat
  <2>1. CASE \/ EnqueueExpiry(w) \/ Decide(w) \/ ReadTrip(w) \/ Settle(w) \/ CancelAllForTrip(w)
             \/ CancelEach(w) \/ ReadRoster(w) \/ Board(w)
    BY <2>1 DEF EnqueueExpiry, Decide, ReadTrip, Settle, CancelAllForTrip, CancelEach,
       ReadRoster, Board, row
  <2>2. QED
    BY <1>1, <1>4, <2>1, ReleaseGivesUp, LockCloses, BookTakes, OthersLeaveSeats DEF HandlerStep
<1>5. ASSUME NEW w \in Handler, ReleaseFails(w) \/ Abort(w) PROVE UNCHANGED seat
  BY <1>5 DEF ReleaseFails, Abort, row
<1>6. QED
  BY <1>2, <1>3, <1>4, <1>5 DEF Next

\* While no stale row is saved, every change of the seats is one that SeatPromise
\* allows: the lock of createMultiSeat is enough for the takers, and a release
\* gives up only what its booking held.
THEOREM PromiseKept == Spec => KeepsPromise
<1>1. QED
  BY PromiseStep, SeatInvAlways, PTL DEF Spec, KeepsPromise
=============================================================================
