------------------------- MODULE TripLifecycleProofs --------------------------
(***************************************************************************)
(* Theorems of TripLifecycle, for any set of bookings and any number of    *)
(* handlers, marks and faults.                                             *)
(*                                                                         *)
(* Types joins the types to what a handler has read by each of its steps   *)
(* (Knows), and holds beyond a mishap.  Sound is what holds until the      *)
(* first one: a seat tells no contradiction that is not on record, who     *)
(* raised it carries it to the admins, and the bookings under way belong   *)
(* to a trip that is, or to the handler that completes it.                 *)
(***************************************************************************)
EXTENDS TripLifecycle, TLAPS

Copies(Row) == {Nothing} \cup UNION {[S -> Row] : S \in SUBSET Booking}

HandlerRecord ==
  [pc : {"idle", "claim", "roster", "board", "schedule", "empty", "close", "closing", "boarded",
         "seat", "sync", "synced", "flag", "complete", "noshow", "each", "settle", "settled",
         "jobs", "accept"},
   by : {"none", "departure", "call", "passenger", "vouch", "legacy_passenger", "legacy_driver",
         "arrive", "deadline", "accept"},
   b : Booking \cup {Nothing},
   say : {"none", "in_vehicle", "not_riding", "present", "absent"},
   at : 0..1, S : SUBSET Booking, trip : TripRow \cup {Nothing},
   bk : Copies(BookingRow), seat : Copies(SeatRow), conflict : BOOLEAN]

\* What a handler in state x has read and relies on.
Knows(x) ==
  /\ x.pc = "seat" => /\ x.by \in {"passenger", "vouch", "legacy_driver"}
                      /\ x.b \in Booking /\ x.seat \in [{x.b} -> SeatRow]
  /\ x.pc \in {"seat", "synced"} /\ x.by = "passenger" => x.say \in {"in_vehicle", "not_riding"}
  /\ x.pc \in {"seat", "sync"} /\ x.by = "vouch" => x.say \in {"present", "absent"}
  /\ x.pc = "seat" /\ x.by = "legacy_driver" => x.say \in {"present", "absent"}
  /\ x.pc = "seat" /\ x.by # "vouch" => x.bk \in [{x.b} -> BookingRow]
  /\ x.pc = "sync" => x.b \in Booking /\ x.by = "vouch"
  /\ x.pc \in {"synced", "accept"} => x.b \in Booking /\ x.bk \in [{x.b} -> BookingRow]
  /\ x.pc \in {"complete", "settled"} => x.trip \in TripRow
  /\ x.pc = "flag" => x.trip \in TripRow
  /\ x.conflict => /\ x.trip \in TripRow /\ x.by \in {"passenger", "vouch"}
                   /\ x.pc \in {"seat", "sync", "synced", "boarded", "claim", "roster", "board",
                               "schedule", "flag"}
                   /\ x.pc \in {"boarded", "claim", "roster", "board", "schedule"} =>
                        x.by = "passenger"
                   /\ x.by = "passenger" => x.say = "in_vehicle"
  /\ x.pc = "seat" /\ x.by = "passenger" =>
       (x.say = "in_vehicle" /\ x.seat[x.b].over = "no" => x.conflict)
  /\ x.pc = "seat" /\ x.by = "vouch" =>
       (DriverDecision(x.seat[x.b], x.say = "present").disputed => x.conflict)
  /\ x.pc = "each" => /\ x.bk \in [x.S -> BookingRow]
                      /\ \A b \in x.S : x.bk[b].st # "in_progress"

RowsOK ==
  /\ time \in 0..1 /\ trip \in TripRow /\ bk \in [Booking -> BookingRow]
  /\ seat \in [Booking -> SeatRow] /\ billed \in (SUBSET Booking) \cup {Nothing}
  /\ startJob \in JobState /\ endJob \in JobState
  /\ mishap \in BOOLEAN /\ marks \in 0..MaxMarks /\ faults \in 0..MaxFaults

HandlersOK == h \in [Handler -> HandlerRecord] /\ \A w \in Handler : Knows(h[w])

Types == RowsOK /\ HandlersOK

LEMMA Bounds == MaxMarks \in Nat /\ MaxFaults \in Nat
BY LifecycleAssumption, Zenon DEF LifecycleAssumption

USE Bounds

-----------------------------------------------------------------------------
(* Handlers *)

LEMMA HandlerFacts ==
  ASSUME Types, NEW w \in Handler
  PROVE  h \in [Handler -> HandlerRecord] /\ h[w] \in HandlerRecord /\ Knows(h[w])
BY DEF Types, HandlersOK

LEMMA IdleRecord ==
  /\ Idle \in HandlerRecord /\ Knows(Idle)
  /\ Idle.pc = "idle" /\ Idle.by = "none" /\ ~Idle.conflict
<1>1. Idle \in HandlerRecord
  BY DEF Idle, HandlerRecord, Copies
<1>2. Idle.pc = "idle" /\ Idle.by = "none" /\ ~Idle.conflict
  BY DEF Idle
<1>3. QED
  BY <1>1, <1>2 DEF Knows

LEMMA CopyTyped ==
  ASSUME NEW Row, NEW table \in [Booking -> Row], NEW S \in SUBSET Booking
  PROVE  Copy(table, S) \in [S -> Row] /\ Copy(table, S) \in Copies(Row)
BY DEF Copy, Copies

\* A handler moves on to a record that knows what it needs.
LEMMA Advance ==
  ASSUME Types, NEW w \in Handler, NEW r \in HandlerRecord, Knows(r), RowsOK',
         h' = [h EXCEPT ![w] = r]
  PROVE  Types'
<1>1. \A v \in Handler : h'[v] = IF v = w THEN r ELSE h[v]
  BY HandlerFacts
<1>2. h' \in [Handler -> HandlerRecord]
  BY HandlerFacts
<1>3. QED
  BY <1>1, <1>2, HandlerFacts DEF Types, HandlersOK


LEMMA NothingCopied == Nothing \in Copies(BookingRow) /\ Nothing \in Copies(SeatRow)
BY DEF Copies

\* Idle forgets; a handler that waits for nothing it read goes on.
LEMMA Ends ==
  ASSUME Types, NEW w \in Handler, RowsOK', h' = [h EXCEPT ![w] = Idle]
  PROVE  Types'
BY Advance, IdleRecord

LEMMA Goes ==
  ASSUME Types, NEW w \in Handler, NEW p \in {"claim", "roster", "close", "settle", "flag"},
         Go(w, p), RowsOK', p = "flag" => h[w].conflict,
         p \in {"close", "settle"} => ~h[w].conflict,
         p # "flag" /\ h[w].conflict => h[w].by = "passenger"
  PROVE  Types'
<1>1. PICK r : r = [h[w] EXCEPT !.pc = p]
  OBVIOUS
<1>2. h' = [h EXCEPT ![w] = r]
  BY <1>1 DEF Go
<1>3. h[w] \in HandlerRecord
  BY HandlerFacts
<1>4. r \in HandlerRecord
  BY <1>1, <1>3 DEF HandlerRecord
<1>5. /\ r.pc = p /\ r.conflict = h[w].conflict /\ r.trip = h[w].trip
      /\ r.by = h[w].by /\ r.say = h[w].say
  BY <1>1, <1>3 DEF HandlerRecord
<1>6. Knows(r)
  BY <1>4, <1>5, HandlerFacts DEF Knows
<1>7. QED
  BY <1>2, <1>4, <1>6, Advance

LEMMA FinishKeeps ==
  ASSUME Types, NEW w \in Handler, Finish(w), UNCHANGED <<time, rows, marks>>,
         mishap' \in BOOLEAN, faults' \in 0..MaxFaults
  PROVE  Types'
<1>1. RowsOK'
  BY DEF Finish, Types, RowsOK, JobState, rows
<1>2. QED
  BY <1>1, Ends DEF Finish

\* A handler that has read nothing it needs later.
LEMMA KnowsNothing ==
  ASSUME NEW r \in HandlerRecord, ~r.conflict,
         r.pc \in {"claim", "roster", "schedule", "empty", "boarded", "idle"}
  PROVE  Knows(r)
BY DEF Knows

LEMMA Listed ==
  ASSUME Types, NEW w \in Handler, NEW p \in {"board", "closing", "schedule"},
         NEW S \in SUBSET Booking, NEW r, r = [h[w] EXCEPT !.pc = p, !.S = S],
         h[w].conflict => p # "closing" /\ h[w].by = "passenger"
  PROVE  r \in HandlerRecord /\ Knows(r)
<1>1. h[w] \in HandlerRecord
  BY HandlerFacts
<1>2. r \in HandlerRecord
  BY <1>1 DEF HandlerRecord
<1>3. /\ r.pc = p /\ r.conflict = h[w].conflict /\ r.trip = h[w].trip
      /\ r.by = h[w].by /\ r.say = h[w].say
  BY <1>1 DEF HandlerRecord
<1>4. QED
  BY <1>2, <1>3, HandlerFacts DEF Knows

-----------------------------------------------------------------------------
(* Starting *)

LEMMA OnwardKeeps ==
  ASSUME Types, NEW w \in Handler, Onward(w), UNCHANGED <<time, rows, mishap, marks, faults>>
  PROVE  Types'
<1>1. CASE h[w].by = "passenger" /\ h[w].conflict
  <2>1. Go(w, "flag") /\ RowsOK'
    BY <1>1 DEF Onward, Types, RowsOK, rows, jobs
  <2>2. QED
    BY <1>1, <2>1, Goes
<1>2. CASE ~(h[w].by = "passenger" /\ h[w].conflict)
  BY <1>2, FinishKeeps DEF Onward, Types, RowsOK
<1>3. QED
  BY <1>1, <1>2

LEMMA ClaimKeeps ==
  ASSUME Types, NEW w \in Handler, Claim(w) \/ CancelEmpty(w)
  PROVE  Types'
<1>1. CASE \/ Claim(w) /\ trip' = [trip EXCEPT !.st = "in_progress"] /\ Go(w, "roster")
              /\ UNCHANGED jobs
           \/ CancelEmpty(w) /\ trip' = [trip EXCEPT !.st = "cancelled"] /\ Go(w, "close")
              /\ UNCHANGED jobs
  <2>1. trip' \in TripRow
    BY <1>1 DEF Types, RowsOK, TripRow
  <2>2. RowsOK'
    BY <1>1, <2>1 DEF Claim, CancelEmpty, Types, RowsOK, jobs
  <2>3. h[w].conflict => Claim(w) /\ h[w].by = "passenger"
    BY <1>1, HandlerFacts DEF Claim, CancelEmpty, Knows, At
  <2>4. ~(Claim(w) /\ CancelEmpty(w))
    BY DEF Claim, CancelEmpty, At
  <2>5. QED
    BY <1>1, <2>2, <2>3, <2>4, Goes
<1>2. CASE Claim(w) /\ Onward(w) /\ UNCHANGED trip
  BY <1>2, OnwardKeeps DEF Claim, rows
<1>3. CASE CancelEmpty(w) /\ Finish(w) /\ UNCHANGED trip
  BY <1>3, FinishKeeps DEF CancelEmpty, Types, RowsOK, rows
<1>4. QED
  BY <1>1, <1>2, <1>3 DEF Claim, CancelEmpty

\* ReadRoster and FindPending note the bookings with a status.
LEMMA RosterKeeps ==
  ASSUME Types, NEW w \in Handler, ReadRoster(w) \/ FindPending(w)
  PROVE  Types'
<1>0. h[w].conflict => ReadRoster(w) /\ h[w].by = "passenger" /\ ~FindPending(w)
  BY HandlerFacts DEF ReadRoster, FindPending, Knows, At
<1>1. PICK p \in {"board", "closing"}, S \in SUBSET Booking :
        /\ h' = [h EXCEPT ![w].pc = p, ![w].S = S]
        /\ p = "board" <=> ReadRoster(w)
  BY DEF ReadRoster, FindPending, WithStatus, At
<1>2. PICK r : r = [h[w] EXCEPT !.pc = p, !.S = S]
  OBVIOUS
<1>3. h' = [h EXCEPT ![w] = r]
  BY <1>1, <1>2, HandlerFacts
<1>4. r \in HandlerRecord /\ Knows(r)
  BY <1>0, <1>1, <1>2, Listed
<1>5. RowsOK'
  BY DEF ReadRoster, FindPending, Types, RowsOK, rows, jobs
<1>6. QED
  BY <1>3, <1>4, <1>5, Advance

\* Bookings updated by their ids.
LEMMA StatusWritten ==
  ASSUME Types, NEW S, NEW s \in {"in_progress", "cancelled"},
         bk' = [b \in Booking |-> IF b \in S THEN [bk[b] EXCEPT !.st = s] ELSE bk[b]]
  PROVE  bk' \in [Booking -> BookingRow]
<1>1. \A b \in Booking : [bk[b] EXCEPT !.st = s] \in BookingRow
  BY DEF Types, RowsOK, BookingRow
<1>2. QED
  BY <1>1 DEF Types, RowsOK

LEMMA BoardKeeps ==
  ASSUME Types, NEW w \in Handler, Board(w)
  PROVE  Types'
<1>1. PICK r : r = [h[w] EXCEPT !.pc = "schedule", !.S = {}]
  OBVIOUS
<1>2. h' = [h EXCEPT ![w] = r]
  BY <1>1, HandlerFacts DEF Board
<1>3. h[w].conflict => h[w].by = "passenger"
  BY HandlerFacts DEF Board, Knows, At
<1>4. r \in HandlerRecord /\ Knows(r)
  BY <1>1, <1>3, Listed
<1>5. bk' \in [Booking -> BookingRow]
  BY StatusWritten DEF Board
<1>6. RowsOK'
  BY <1>5 DEF Board, Note, Types, RowsOK, jobs
<1>7. QED
  BY <1>2, <1>4, <1>6, Advance

LEMMA ScheduleKeeps ==
  ASSUME Types, NEW w \in Handler, ScheduleAutoComplete(w)
  PROVE  Types'
<1>1. RowsOK'
  BY DEF ScheduleAutoComplete, Types, RowsOK, rows, JobState
<1>2. CASE h[w].by = "passenger" /\ h[w].conflict
  <2>1. Go(w, "flag")
    BY <1>2, HandlerFacts DEF ScheduleAutoComplete, Go
  <2>2. QED
    BY <1>1, <1>2, <2>1, Goes
<1>3. CASE ~(h[w].by = "passenger" /\ h[w].conflict)
  <2>1. h' = [h EXCEPT ![w] = Idle]
    BY <1>3, HandlerFacts DEF ScheduleAutoComplete
  <2>2. QED
    BY <1>1, <2>1, Ends
<1>4. QED
  BY <1>2, <1>3

LEMMA OnDepartureKeeps ==
  ASSUME Types, NEW w \in Handler, OnDeparture(w)
  PROVE  Types'
<1>1. RowsOK'
  BY DEF OnDeparture, Types, RowsOK, rows, JobState
<1>2. CASE UNCHANGED h
  BY <1>1, <1>2 DEF Types, HandlersOK
<1>3. ASSUME NEW p \in {"claim", "schedule", "empty"}, Begin(w, "departure", [Idle EXCEPT !.pc = p])
      PROVE  Types'
  <2>1. PICK r : r = [[Idle EXCEPT !.pc = p] EXCEPT !.by = "departure"]
    OBVIOUS
  <2>2. r \in HandlerRecord
    BY <2>1, IdleRecord DEF HandlerRecord
  <2>3. r.pc = p /\ ~r.conflict
    BY <2>1 DEF Idle
  <2>4. Knows(r)
    BY <2>2, <2>3, KnowsNothing
  <2>5. QED
    BY <1>1, <1>3, <2>1, <2>2, <2>4, Advance DEF Begin
<1>4. QED
  BY <1>2, <1>3 DEF OnDeparture

LEMMA ClosePendingKeeps ==
  ASSUME Types, NEW w \in Handler, ClosePending(w)
  PROVE  Types'
<1>1. bk' \in [Booking -> BookingRow]
  BY StatusWritten DEF ClosePending
<1>2. RowsOK'
  BY <1>1 DEF ClosePending, Note, Finish, Types, RowsOK, JobState
<1>3. QED
  BY <1>2, Ends DEF ClosePending, Finish

LEMMA StartByDriverKeeps ==
  ASSUME Types, NEW w \in Handler, StartByDriver(w)
  PROVE  Types'
<1>1. RowsOK'
  BY DEF StartByDriver, Types, RowsOK, rows, jobs
<1>2. PICK r : r = [[Idle EXCEPT !.pc = "claim"] EXCEPT !.by = "call"]
  OBVIOUS
<1>3. r \in HandlerRecord
  BY <1>2, IdleRecord DEF HandlerRecord
<1>4. r.pc = "claim" /\ ~r.conflict
  BY <1>2 DEF Idle
<1>5. Knows(r)
  BY <1>3, <1>4, KnowsNothing
<1>6. QED
  BY <1>1, <1>2, <1>3, <1>5, Advance DEF StartByDriver, Begin

LEMMA OnPassengerBoardedKeeps ==
  ASSUME Types, NEW w \in Handler, OnPassengerBoarded(w)
  PROVE  Types'
<1>1. CASE Go(w, "claim") /\ UNCHANGED jobs
  <2>1. RowsOK'
    BY <1>1 DEF OnPassengerBoarded, Types, RowsOK, rows, jobs
  <2>2. h[w].conflict => h[w].by = "passenger"
    BY HandlerFacts DEF OnPassengerBoarded, Knows, At
  <2>3. QED
    BY <1>1, <2>1, <2>2, Goes
<1>2. CASE Onward(w)
  BY <1>2, OnwardKeeps DEF OnPassengerBoarded
<1>3. QED
  BY <1>1, <1>2 DEF OnPassengerBoarded

-----------------------------------------------------------------------------
(* Who is in the car *)

LEMMA DriverDecisionTyped ==
  ASSUME NEW s \in SeatRow, NEW p \in BOOLEAN
  PROVE  DriverDecision(s, p) \in SeatRow
BY DEF DriverDecision, SeatRow, Said

LEMMA DeclaredTyped ==
  ASSUME NEW s \in SeatRow, NEW say \in {"in_vehicle", "not_riding"}
  PROVE  Declared(s, say) \in SeatRow
BY DEF Declared, SeatRow, Said

LEMMA BookingCopied ==
  ASSUME Types, NEW S \in SUBSET Booking
  PROVE  /\ Copy(bk, S) \in [S -> BookingRow] /\ Copy(bk, S) \in Copies(BookingRow)
         /\ Copy(seat, S) \in [S -> SeatRow] /\ Copy(seat, S) \in Copies(SeatRow)
BY CopyTyped DEF Types, RowsOK

LEMMA PassengerDeclareKeeps ==
  ASSUME Types, NEW w \in Handler, NEW b \in Booking, NEW say \in Said \ {"none"},
         PassengerDeclare(w, b, say)
  PROVE  Types'
<1>1. RowsOK'
  BY DEF PassengerDeclare, Types, RowsOK, rows, jobs
<1> DEFINE c == say = "in_vehicle" /\ seat[b].over = "no"
           t == IF say = "in_vehicle" THEN time ELSE 0
           T == IF c THEN trip ELSE Nothing
<1>2. PICK d \in BOOLEAN : d <=> c
  OBVIOUS
<1>3. PICK B : B = Copy(bk, {b})
  OBVIOUS
<1>4. PICK V : V = Copy(seat, {b})
  OBVIOUS
<1>5. /\ B \in [{b} -> BookingRow] /\ B \in Copies(BookingRow)
      /\ V \in [{b} -> SeatRow] /\ V \in Copies(SeatRow)
  BY <1>3, <1>4, BookingCopied
<1>6. PICK u \in 0..1 : u = t
  BY DEF Types, RowsOK
<1>7. PICK R \in TripRow \cup {Nothing} : R = T /\ (d => R \in TripRow)
  BY <1>2 DEF Types, RowsOK
<1>8. CASE Begin(w, "passenger",
             [Idle EXCEPT !.pc = "seat", !.b = b, !.say = say, !.at = t, !.trip = T,
                          !.bk = Copy(bk, {b}), !.seat = Copy(seat, {b}), !.conflict = c])
  <2>1. PICK r : r = [[Idle EXCEPT !.pc = "seat", !.b = b, !.say = say, !.at = u, !.trip = R,
                                   !.bk = B, !.seat = V, !.conflict = d] EXCEPT !.by = "passenger"]
    OBVIOUS
  <2>2. h' = [h EXCEPT ![w] = r]
    BY <1>2, <1>3, <1>4, <1>6, <1>7, <1>8, <2>1 DEF Begin
  <2>3. say \in {"in_vehicle", "not_riding"}
    BY DEF Said
  <2>4. r \in HandlerRecord
    BY <1>5, <2>1, <2>3, IdleRecord DEF HandlerRecord
  <2>5. /\ r.pc = "seat" /\ r.by = "passenger" /\ r.b = b /\ r.say = say
        /\ r.trip = R /\ r.bk = B /\ r.seat = V /\ (r.conflict => d)
    BY <2>1 DEF Idle
  <2>6. Knows(r)
    <3>1. say = "in_vehicle" /\ V[b].over = "no" => r.conflict
      BY <1>2, <1>4, <2>1 DEF Copy, Idle
    <3>2. QED
      BY <1>2, <1>5, <1>7, <2>3, <2>5, <3>1 DEF Knows
  <2>7. QED
    BY <1>1, <2>2, <2>4, <2>6, Advance
<1>9. CASE Begin(w, "call", [Idle EXCEPT !.pc = "boarded", !.at = time])
  <2>1. PICK r : r = [[Idle EXCEPT !.pc = "boarded", !.at = time] EXCEPT !.by = "call"]
    OBVIOUS
  <2>2. h' = [h EXCEPT ![w] = r] /\ time \in 0..1
    BY <1>9, <2>1 DEF Begin, Types, RowsOK
  <2>3. r \in HandlerRecord
    BY <2>1, <2>2, IdleRecord DEF HandlerRecord
  <2>4. r.pc = "boarded" /\ ~r.conflict
    BY <2>1 DEF Idle
  <2>5. QED
    BY <1>1, <2>2, <2>3, <2>4, KnowsNothing, Advance
<1>10. QED
  BY <1>8, <1>9 DEF PassengerDeclare

LEMMA DriverConfirmKeeps ==
  ASSUME Types, NEW w \in Handler, NEW b \in Booking, NEW present \in BOOLEAN,
         DriverConfirm(w, b, present)
  PROVE  Types'
<1>1. RowsOK'
  BY DEF DriverConfirm, Types, RowsOK, rows, jobs
<1> DEFINE c == DriverDecision(seat[b], present).disputed
           t == IF present THEN time ELSE 0
           T == IF c THEN trip ELSE Nothing
<1>2. PICK d \in BOOLEAN : d = c
  BY DriverDecisionTyped DEF Types, RowsOK, SeatRow
<1>3. PICK V : V = Copy(seat, {b})
  OBVIOUS
<1>4. V \in [{b} -> SeatRow] /\ V \in Copies(SeatRow)
  BY <1>3, BookingCopied
<1>5. PICK u \in 0..1 : u = t
  BY DEF Types, RowsOK
<1>6. PICK R \in TripRow \cup {Nothing} : R = T /\ (d => R \in TripRow)
  BY <1>2 DEF Types, RowsOK
<1>7. PICK say \in {"present", "absent"} : say = IF present THEN "present" ELSE "absent"
  OBVIOUS
<1>8. PICK r : r = [[Idle EXCEPT !.pc = "seat", !.b = b, !.say = say, !.at = u, !.trip = R,
                                 !.seat = V, !.conflict = d] EXCEPT !.by = "vouch"]
  OBVIOUS
<1>9. h' = [h EXCEPT ![w] = r]
  BY <1>2, <1>3, <1>5, <1>6, <1>7, <1>8 DEF Begin, DriverConfirm
<1>10. r \in HandlerRecord
  BY <1>4, <1>8, IdleRecord DEF HandlerRecord
<1>11. /\ r.pc = "seat" /\ r.by = "vouch" /\ r.b = b /\ r.say = say
       /\ r.trip = R /\ r.seat = V /\ (r.conflict => d)
  BY <1>8 DEF Idle
<1>12. Knows(r)
  <2>1. DriverDecision(V[b], r.say = "present").disputed => r.conflict
    <3>1. V[b] = seat[b] /\ ((r.say = "present") <=> present)
      BY <1>3, <1>7, <1>11 DEF Copy
    <3>2. DriverDecision(V[b], r.say = "present").disputed = c
      BY <3>1 DEF DriverDecision
    <3>3. c => r.conflict
      BY <1>2, <1>8 DEF Idle
    <3>4. QED
      BY <3>2, <3>3
  <2>2. QED
    BY <1>4, <1>6, <1>11, <2>1 DEF Knows
<1>13. QED
  BY <1>1, <1>9, <1>10, <1>12, Advance

LEMMA ConfirmBookingKeeps ==
  ASSUME Types, NEW w \in Handler, NEW b \in Booking,
         NEW who \in {"legacy_passenger", "legacy_driver"}, NEW say \in {"present", "absent"},
         ConfirmBooking(w, b, who, say)
  PROVE  Types'
<1>1. RowsOK'
  <2>1. marks > 0 /\ marks' = marks - 1
    BY DEF ConfirmBooking
  <2>2. marks \in 0..MaxMarks
    BY DEF Types, RowsOK
  <2>3. marks' \in 0..MaxMarks
    BY <2>1, <2>2
  <2>4. UNCHANGED <<time, rows, jobs, mishap, faults>>
    BY DEF ConfirmBooking
  <2>5. QED
    BY <2>3, <2>4 DEF Types, RowsOK, rows, jobs
<1>2. PICK B : B = Copy(bk, {b})
  OBVIOUS
<1>3. PICK V : V = IF who = "legacy_driver" THEN Copy(seat, {b}) ELSE Nothing
  OBVIOUS
<1>4. /\ B \in [{b} -> BookingRow] /\ B \in Copies(BookingRow) /\ V \in Copies(SeatRow)
      /\ who = "legacy_driver" => V \in [{b} -> SeatRow]
  BY <1>2, <1>3, BookingCopied, NothingCopied
<1>5. PICK p \in {"seat", "synced"} : p = IF who = "legacy_driver" THEN "seat" ELSE "synced"
  OBVIOUS
<1>6. PICK r : r = [[Idle EXCEPT !.pc = p, !.b = b, !.say = say, !.bk = B, !.seat = V]
                      EXCEPT !.by = who]
  OBVIOUS
<1>7. h' = [h EXCEPT ![w] = r]
  BY <1>2, <1>3, <1>5, <1>6 DEF Begin, ConfirmBooking
<1>8. r \in HandlerRecord
  BY <1>4, <1>6, IdleRecord DEF HandlerRecord
<1>9. /\ r.pc = p /\ r.by = who /\ r.b = b /\ r.say = say
      /\ r.bk = B /\ r.seat = V /\ ~r.conflict
  BY <1>6 DEF Idle
<1>10. Knows(r)
  BY <1>4, <1>5, <1>9 DEF Knows
<1>11. QED
  BY <1>1, <1>7, <1>8, <1>10, Advance

LEMMA SeatAfterTyped ==
  ASSUME Types, NEW w \in Handler, At(w, "seat")
  PROVE  SeatAfter(w) \in SeatRow
<1> DEFINE s == h[w].seat[h[w].b]
<1>1. s \in SeatRow /\ h[w].by \in {"passenger", "vouch", "legacy_driver"}
  BY HandlerFacts DEF Knows, At
<1>2. CASE h[w].by = "passenger"
  <2>1. h[w].say \in {"in_vehicle", "not_riding"}
    BY <1>2, HandlerFacts DEF Knows, At
  <2>2. QED
    BY <1>1, <1>2, <2>1, DeclaredTyped DEF SeatAfter
<1>3. CASE h[w].by = "vouch"
  BY <1>1, <1>3, DriverDecisionTyped DEF SeatAfter
<1>4. CASE h[w].by = "legacy_driver"
  <2>1. h[w].say \in {"present", "absent"}
    BY <1>4, HandlerFacts DEF Knows, At
  <2>2. [s EXCEPT !.mark = @ \cup {h[w].say}] \in SeatRow
    BY <1>1, <2>1 DEF SeatRow
  <2>3. QED
    BY <1>4, <2>2 DEF SeatAfter
<1>5. QED
  BY <1>1, <1>2, <1>3, <1>4

LEMMA SaveTheSeatKeeps ==
  ASSUME Types, NEW w \in Handler, SaveTheSeat(w)
  PROVE  Types'
<1>1. h[w].pc = "seat" /\ h[w] \in HandlerRecord /\ Knows(h[w])
  BY HandlerFacts DEF SaveTheSeat, At
<1>2. seat' \in [Booking -> SeatRow]
  BY <1>1, SeatAfterTyped DEF SaveTheSeat, SaveSeat, At, Types, RowsOK
<1>3. RowsOK'
  BY <1>2 DEF SaveTheSeat, SaveSeat, Note, Types, RowsOK, jobs
<1>4. PICK p \in {"sync", "synced"} : p = IF h[w].by = "vouch" THEN "sync" ELSE "synced"
  OBVIOUS
<1>5. PICK r : r = [h[w] EXCEPT !.pc = p, !.seat = Nothing]
  OBVIOUS
<1>6. h' = [h EXCEPT ![w] = r]
  BY <1>1, <1>4, <1>5, HandlerFacts DEF SaveTheSeat
<1>7. r \in HandlerRecord
  BY <1>1, <1>5, NothingCopied DEF HandlerRecord
<1>8. /\ r.pc = p /\ r.by = h[w].by /\ r.b = h[w].b /\ r.say = h[w].say /\ r.trip = h[w].trip
      /\ r.bk = h[w].bk /\ r.conflict = h[w].conflict
  BY <1>1, <1>5 DEF HandlerRecord
<1>9. Knows(r)
  BY <1>1, <1>4, <1>8 DEF Knows
<1>10. QED
  BY <1>3, <1>6, <1>7, <1>9, Advance

LEMMA SyncKeeps ==
  ASSUME Types, NEW w \in Handler, Sync(w)
  PROVE  Types'
<1>1. h[w].pc = "sync" /\ h[w] \in HandlerRecord /\ Knows(h[w]) /\ h[w].b \in Booking
  BY HandlerFacts DEF Sync, At, Knows
<1>2. RowsOK'
  BY DEF Sync, Types, RowsOK, jobs, rows
<1>3. PICK B : B = Copy(bk, {h[w].b})
  OBVIOUS
<1>4. B \in [{h[w].b} -> BookingRow] /\ B \in Copies(BookingRow)
  BY <1>1, <1>3, BookingCopied
<1>5. PICK r : r = [h[w] EXCEPT !.pc = "synced", !.bk = B]
  OBVIOUS
<1>6. h' = [h EXCEPT ![w] = r]
  BY <1>3, <1>5, HandlerFacts DEF Sync
<1>7. r \in HandlerRecord
  BY <1>1, <1>4, <1>5 DEF HandlerRecord
<1>8. /\ r.pc = "synced" /\ r.by = h[w].by /\ r.b = h[w].b /\ r.say = h[w].say
      /\ r.trip = h[w].trip /\ r.bk = B /\ r.conflict = h[w].conflict
  BY <1>1, <1>5 DEF HandlerRecord
<1>9. Knows(r)
  BY <1>1, <1>4, <1>8 DEF Knows
<1>10. QED
  BY <1>2, <1>6, <1>7, <1>9, Advance

\* What everybody saves of a booking.
LEMMA SavedTyped ==
  ASSUME Types, NEW w \in Handler, At(w, "synced"), SaveTheBooking(w)
  PROVE  bk' \in [Booking -> BookingRow]
<1> DEFINE row == h[w].bk[h[w].b]
<1>1. row \in BookingRow
  BY HandlerFacts DEF Knows, At
<1>2. PICK B \in BOOLEAN : B <=> (h[w].say = "in_vehicle")
  OBVIOUS
<1>3. /\ [row EXCEPT !.boarded = h[w].say = "in_vehicle"] \in BookingRow
      /\ [row EXCEPT !.boarded = TRUE] \in BookingRow
  BY <1>1, <1>2 DEF BookingRow
<1>4. PICK x \in BookingRow : bk' = [bk EXCEPT ![h[w].b] = x]
  BY <1>1, <1>3 DEF SaveTheBooking, SaveBooking
<1>5. QED
  BY <1>4 DEF Types, RowsOK

LEMMA SaveTheBookingKeeps ==
  ASSUME Types, NEW w \in Handler, SaveTheBooking(w)
  PROVE  Types'
<1>1. h[w].pc = "synced" /\ h[w] \in HandlerRecord /\ Knows(h[w])
  BY HandlerFacts DEF SaveTheBooking, At
<1>2. bk' \in [Booking -> BookingRow]
  BY SavedTyped DEF SaveTheBooking
<1>3. RowsOK'
  BY <1>2 DEF SaveTheBooking, SaveBooking, Note, Types, RowsOK, jobs
<1>4. CASE h' = [h EXCEPT ![w] = Idle]
  BY <1>3, <1>4, Ends
<1>5. CASE h' = [h EXCEPT ![w] = [Idle EXCEPT !.pc = "boarded", !.by = "call", !.at = h[w].at]]
  <2>1. PICK r : r = [Idle EXCEPT !.pc = "boarded", !.by = "call", !.at = h[w].at]
    OBVIOUS
  <2>2. h' = [h EXCEPT ![w] = r] /\ h[w].at \in 0..1
    BY <1>1, <1>5, <2>1 DEF HandlerRecord
  <2>3. r \in HandlerRecord
    BY <2>1, <2>2, IdleRecord DEF HandlerRecord
  <2>4. r.pc = "boarded" /\ ~r.conflict
    BY <2>1 DEF Idle
  <2>5. QED
    BY <1>3, <2>2, <2>3, <2>4, KnowsNothing, Advance
<1>6. ASSUME NEW p \in {"flag", "boarded"}, h[w].conflict,
             p = "boarded" => h[w].by = "passenger",
             h' = [h EXCEPT ![w] = [h[w] EXCEPT !.pc = p, !.bk = Nothing]]
      PROVE  Types'
  <2>1. PICK r : r = [h[w] EXCEPT !.pc = p, !.bk = Nothing]
    OBVIOUS
  <2>2. r \in HandlerRecord
    BY <1>1, <2>1, NothingCopied DEF HandlerRecord
  <2>3. /\ r.pc = p /\ r.trip = h[w].trip /\ r.conflict = h[w].conflict
        /\ r.by = h[w].by /\ r.say = h[w].say
    BY <1>1, <2>1 DEF HandlerRecord
  <2>4. Knows(r)
    BY <1>1, <1>6, <2>3 DEF Knows
  <2>5. QED
    BY <1>3, <1>6, <2>1, <2>2, <2>4, Advance
<1>7. \/ h' = [h EXCEPT ![w] = Idle]
      \/ h' = [h EXCEPT ![w] = [Idle EXCEPT !.pc = "boarded", !.by = "call", !.at = h[w].at]]
      \/ h[w].conflict /\ \E p \in {"flag", "boarded"} :
           (p = "boarded" => h[w].by = "passenger") /\
           h' = [h EXCEPT ![w] = [h[w] EXCEPT !.pc = p, !.bk = Nothing]]
  BY <1>1, HandlerFacts DEF SaveTheBooking, Knows
<1>8. QED
  BY <1>4, <1>5, <1>6, <1>7

\* A trip saved by a handler that read one.
LEMMA TripSaved ==
  ASSUME NEW t \in TripRow
  PROVE  /\ [t EXCEPT !.flagged = TRUE] \in TripRow
         /\ [t EXCEPT !.st = "completed"] \in TripRow
         /\ \A c \in BOOLEAN : [t EXCEPT !.settled = TRUE, !.flagged = @ \/ c] \in TripRow
<1>1. [t EXCEPT !.flagged = TRUE] \in TripRow /\ [t EXCEPT !.st = "completed"] \in TripRow
  BY DEF TripRow
<1>2. ASSUME NEW c \in BOOLEAN
      PROVE  [t EXCEPT !.settled = TRUE, !.flagged = @ \/ c] \in TripRow
  <2>1. PICK f \in BOOLEAN : f = (t.flagged \/ c)
    BY DEF TripRow
  <2>2. [t EXCEPT !.settled = TRUE, !.flagged = f] \in TripRow
    BY DEF TripRow
  <2>3. QED
    BY <2>1, <2>2
<1>3. QED
  BY <1>1, <1>2

LEMMA FlagForReviewKeeps ==
  ASSUME Types, NEW w \in Handler, FlagForReview(w)
  PROVE  Types'
<1>1. h[w].pc = "flag" /\ h[w] \in HandlerRecord /\ Knows(h[w]) /\ h[w].trip \in TripRow
  BY HandlerFacts DEF FlagForReview, At, Knows
<1>2. trip' \in TripRow
  BY <1>1, TripSaved DEF FlagForReview, SaveTrip, Flagged
<1>3. RowsOK'
  BY <1>2 DEF FlagForReview, SaveTrip, Note, Types, RowsOK, jobs
<1>4. CASE h' = [h EXCEPT ![w] = Idle]
  BY <1>3, <1>4, Ends
<1>5. CASE h' = [h EXCEPT ![w] = [Idle EXCEPT !.pc = "boarded", !.by = "call", !.at = h[w].at]]
  <2>1. PICK r : r = [Idle EXCEPT !.pc = "boarded", !.by = "call", !.at = h[w].at]
    OBVIOUS
  <2>2. h' = [h EXCEPT ![w] = r] /\ h[w].at \in 0..1
    BY <1>1, <1>5, <2>1 DEF HandlerRecord
  <2>3. r \in HandlerRecord
    BY <2>1, <2>2, IdleRecord DEF HandlerRecord
  <2>4. r.pc = "boarded" /\ ~r.conflict
    BY <2>1 DEF Idle
  <2>5. QED
    BY <1>3, <2>2, <2>3, <2>4, KnowsNothing, Advance
<1>6. QED
  BY <1>4, <1>5, HandlerFacts DEF FlagForReview

-----------------------------------------------------------------------------
(* Completion *)

LEMMA CompletionBegins ==
  ASSUME Types, NEW w \in Handler,
         (\E absent \in SUBSET Booking : CompleteTrip(w, absent)) \/ HandleAutoComplete(w)
  PROVE  Types'
<1>1. RowsOK'
  BY DEF CompleteTrip, HandleAutoComplete, Types, RowsOK, rows, jobs, JobState
<1>2. trip \in TripRow
  BY DEF Types, RowsOK
<1>3. CASE HandleAutoComplete(w)
  <2>1. PICK r : r = [[Idle EXCEPT !.pc = "complete", !.trip = trip] EXCEPT !.by = "deadline"]
    OBVIOUS
  <2>2. h' = [h EXCEPT ![w] = r]
    BY <1>3, <2>1 DEF Begin, HandleAutoComplete
  <2>3. r \in HandlerRecord
    BY <1>2, <2>1, IdleRecord DEF HandlerRecord
  <2>4. r.pc = "complete" /\ r.trip = trip /\ ~r.conflict
    BY <2>1 DEF Idle
  <2>5. Knows(r)
    BY <1>2, <2>4 DEF Knows
  <2>6. QED
    BY <1>1, <2>2, <2>3, <2>5, Advance
<1>4. ASSUME NEW S \in SUBSET Booking, CompleteTrip(w, S) PROVE Types'
  <2>1. PICK r :
          r = [[Idle EXCEPT !.pc = "complete", !.trip = trip, !.S = S] EXCEPT !.by = "arrive"]
    OBVIOUS
  <2>2. h' = [h EXCEPT ![w] = r]
    BY <1>4, <2>1 DEF Begin, CompleteTrip
  <2>3. r \in HandlerRecord
    BY <1>2, <2>1, IdleRecord DEF HandlerRecord
  <2>4. r.pc = "complete" /\ r.trip = trip /\ ~r.conflict
    BY <2>1 DEF Idle
  <2>5. Knows(r)
    BY <1>2, <2>4 DEF Knows
  <2>6. QED
    BY <1>1, <2>2, <2>3, <2>5, Advance
<1>5. QED
  BY <1>3, <1>4

\* The trip is saved; its copy is forgotten.
LEMMA TripForgotten ==
  ASSUME Types, NEW w \in Handler, NEW p \in {"noshow", "jobs"}, ~h[w].conflict,
         h' = [h EXCEPT ![w].pc = p, ![w].trip = Nothing], RowsOK'
  PROVE  Types'
<1>1. PICK r : r = [h[w] EXCEPT !.pc = p, !.trip = Nothing]
  OBVIOUS
<1>2. h' = [h EXCEPT ![w] = r] /\ h[w] \in HandlerRecord
  BY <1>1, HandlerFacts
<1>3. r \in HandlerRecord
  BY <1>1, <1>2 DEF HandlerRecord
<1>4. r.pc = p /\ r.conflict = h[w].conflict
  BY <1>1, <1>2 DEF HandlerRecord
<1>5. Knows(r)
  BY <1>4 DEF Knows
<1>6. QED
  BY <1>2, <1>3, <1>5, Advance

LEMMA SaveCompletedKeeps ==
  ASSUME Types, NEW w \in Handler, SaveCompleted(w)
  PROVE  Types'
<1>1. h[w].pc = "complete" /\ h[w].trip \in TripRow /\ ~h[w].conflict
  BY HandlerFacts DEF SaveCompleted, At, Knows
<1>2. trip' \in TripRow
  BY <1>1, TripSaved DEF SaveCompleted, SaveTrip
<1>3. RowsOK'
  BY <1>2 DEF SaveCompleted, SaveTrip, Note, Types, RowsOK, jobs
<1>4. QED
  BY <1>1, <1>3, TripForgotten DEF SaveCompleted

LEMMA NoShowKeeps ==
  ASSUME Types, NEW w \in Handler, NoShow(w)
  PROVE  Types'
<1>1. h[w].pc = "noshow" /\ h[w] \in HandlerRecord /\ ~h[w].conflict
  BY HandlerFacts DEF NoShow, At, Knows
<1>2. PICK b \in h[w].S : /\ seat' = [seat EXCEPT ![b].mark = @ \cup {"absent"}]
                          /\ bk' = [bk EXCEPT ![b].st = "no_show"]
                          /\ h' = [h EXCEPT ![w].S = @ \ {b}]
  BY DEF NoShow
<1>3. b \in Booking /\ h[w].S \in SUBSET Booking
  BY <1>1, <1>2 DEF HandlerRecord
<1>4. seat' \in [Booking -> SeatRow]
  <2>1. [seat[b] EXCEPT !.mark = @ \cup {"absent"}] \in SeatRow
    BY <1>3 DEF Types, RowsOK, SeatRow
  <2>2. QED
    BY <1>2, <2>1 DEF Types, RowsOK
<1>5. bk' \in [Booking -> BookingRow]
  <2>1. [bk[b] EXCEPT !.st = "no_show"] \in BookingRow
    BY <1>3 DEF Types, RowsOK, BookingRow
  <2>2. QED
    BY <1>2, <2>1 DEF Types, RowsOK
<1>6. RowsOK'
  BY <1>4, <1>5 DEF NoShow, Types, RowsOK, jobs
<1>7. PICK S \in SUBSET Booking : S = h[w].S \ {b}
  BY <1>3
<1>8. PICK r : r = [h[w] EXCEPT !.S = S]
  OBVIOUS
<1>9. h' = [h EXCEPT ![w] = r]
  BY <1>2, <1>7, <1>8, HandlerFacts
<1>10. r \in HandlerRecord
  BY <1>1, <1>8 DEF HandlerRecord
<1>11. r.pc = "noshow" /\ r.conflict = h[w].conflict
  BY <1>1, <1>8 DEF HandlerRecord
<1>12. Knows(r)
  BY <1>1, <1>11 DEF Knows
<1>13. QED
  BY <1>6, <1>9, <1>10, <1>12, Advance

LEMMA CompletedTyped ==
  ASSUME Types, NEW b \in Booking
  PROVE  Completed(b) \in BookingRow /\ Completed(b).st # "in_progress"
BY DEF Completed, Types, RowsOK, BookingRow

LEMMA FindActiveKeeps ==
  ASSUME Types, NEW w \in Handler, FindActive(w)
  PROVE  Types'
<1>1. h[w].pc = "noshow" /\ h[w] \in HandlerRecord /\ ~h[w].conflict
  BY HandlerFacts DEF FindActive, At, Knows
<1>2. RowsOK'
  BY DEF FindActive, Types, RowsOK, rows, jobs
<1>3. PICK S \in SUBSET Booking : S = WithStatus("in_progress")
  BY DEF WithStatus
<1>4. PICK B : B = [b \in S |-> Completed(b)]
  OBVIOUS
<1>5. B \in [S -> BookingRow] /\ \A b \in S : B[b].st # "in_progress"
  BY <1>4, CompletedTyped
<1>6. B \in Copies(BookingRow)
  BY <1>5 DEF Copies
<1>7. PICK r : r = [h[w] EXCEPT !.pc = "each", !.S = S, !.bk = B]
  OBVIOUS
<1>8. h' = [h EXCEPT ![w] = r]
  BY <1>3, <1>4, <1>7, HandlerFacts DEF FindActive
<1>9. r \in HandlerRecord
  BY <1>1, <1>6, <1>7 DEF HandlerRecord
<1>10. r.pc = "each" /\ r.S = S /\ r.bk = B /\ r.conflict = h[w].conflict
  BY <1>1, <1>7 DEF HandlerRecord
<1>11. Knows(r)
  BY <1>1, <1>5, <1>10 DEF Knows
<1>12. QED
  BY <1>2, <1>8, <1>9, <1>11, Advance

LEMMA CompleteEachKeeps ==
  ASSUME Types, NEW w \in Handler, CompleteEach(w)
  PROVE  Types'
<1>1. h[w].pc = "each" /\ h[w] \in HandlerRecord /\ ~h[w].conflict
      /\ h[w].bk \in [h[w].S -> BookingRow]
      /\ \A b \in h[w].S : h[w].bk[b].st # "in_progress"
  BY HandlerFacts DEF CompleteEach, At, Knows
<1>2. PICK b \in h[w].S :
        /\ bk' = [bk EXCEPT ![b] = h[w].bk[b]]
        /\ h' = [h EXCEPT ![w].S = @ \ {b}, ![w].bk = [x \in h[w].S \ {b} |-> @[x]]]
  BY DEF CompleteEach
<1>3. b \in Booking /\ h[w].S \in SUBSET Booking
  BY <1>1, <1>2 DEF HandlerRecord
<1>4. bk' \in [Booking -> BookingRow]
  BY <1>1, <1>2, <1>3 DEF Types, RowsOK
<1>5. RowsOK'
  BY <1>4 DEF CompleteEach, Note, Types, RowsOK, jobs
<1>6. PICK S \in SUBSET Booking : S = h[w].S \ {b}
  BY <1>3
<1>7. PICK B : B = [x \in S |-> h[w].bk[x]]
  OBVIOUS
<1>8. B \in [S -> BookingRow] /\ \A x \in S : B[x].st # "in_progress"
  BY <1>1, <1>6, <1>7
<1>9. B \in Copies(BookingRow)
  BY <1>8 DEF Copies
<1>10. PICK r : r = [h[w] EXCEPT !.S = S, !.bk = B]
  OBVIOUS
<1>11. h' = [h EXCEPT ![w] = r]
  BY <1>2, <1>6, <1>7, <1>10, HandlerFacts
<1>12. r \in HandlerRecord
  BY <1>1, <1>9, <1>10 DEF HandlerRecord
<1>13. r.pc = "each" /\ r.S = S /\ r.bk = B /\ r.conflict = h[w].conflict
  BY <1>1, <1>10 DEF HandlerRecord
<1>14. Knows(r)
  BY <1>1, <1>8, <1>13 DEF Knows
<1>15. QED
  BY <1>5, <1>11, <1>12, <1>14, Advance

LEMMA ChargeTyped ==
  ASSUME Types, Charge
  PROVE  trip' \in TripRow /\ billed' \in (SUBSET Booking) \cup {Nothing}
<1>1. trip \in TripRow /\ billed \in (SUBSET Booking) \cup {Nothing}
  BY DEF Types, RowsOK
<1>2. [trip EXCEPT !.stamped = TRUE] \in TripRow
  BY <1>1 DEF TripRow
<1>3. Riders \in SUBSET Booking
  BY DEF Riders, WithStatus
<1>4. CASE billed' = (IF billed = Nothing THEN Riders ELSE billed)
           /\ trip' = [trip EXCEPT !.stamped = TRUE]
  BY <1>1, <1>2, <1>3, <1>4
<1>5. CASE UNCHANGED <<trip, billed>>
  BY <1>1, <1>5
<1>6. QED
  BY <1>4, <1>5 DEF Charge

LEMMA ChargeKeeps ==
  ASSUME Types, NEW w \in Handler, OpenForTrip(w) \/ ChargeFails(w)
  PROVE  Types'
<1>1. ~h[w].conflict /\ Go(w, "settle")
  BY HandlerFacts DEF OpenForTrip, ChargeFails, At, Knows
<1>2. CASE OpenForTrip(w)
  <2>1. RowsOK'
    BY <1>2, ChargeTyped DEF OpenForTrip, Types, RowsOK, jobs
  <2>2. QED
    BY <1>1, <2>1, Goes
<1>3. CASE ChargeFails(w)
  <2>1. RowsOK'
    BY <1>3 DEF ChargeFails, Types, RowsOK, jobs, rows
  <2>2. QED
    BY <1>1, <2>1, Goes
<1>4. QED
  BY <1>2, <1>3

LEMMA ReadToSettleKeeps ==
  ASSUME Types, NEW w \in Handler, ReadToSettle(w)
  PROVE  Types'
<1>1. h[w].pc = "settle" /\ h[w] \in HandlerRecord /\ ~h[w].conflict
  BY HandlerFacts DEF ReadToSettle, At, Knows
<1>2. RowsOK'
  BY DEF ReadToSettle, Types, RowsOK, rows, jobs
<1>3. CASE trip.settled
  <2>1. h' = [h EXCEPT ![w].pc = "jobs", ![w].trip = Nothing]
    BY <1>3 DEF ReadToSettle
  <2>2. QED
    BY <1>1, <1>2, <2>1, TripForgotten
<1>4. CASE ~trip.settled
  <2>1. PICK r : r = [h[w] EXCEPT !.pc = "settled", !.trip = trip]
    OBVIOUS
  <2>2. h' = [h EXCEPT ![w] = r] /\ trip \in TripRow
    BY <1>4, <2>1, HandlerFacts DEF ReadToSettle, Types, RowsOK
  <2>3. r \in HandlerRecord
    BY <1>1, <2>1, <2>2 DEF HandlerRecord
  <2>4. r.pc = "settled" /\ r.trip = trip /\ r.conflict = h[w].conflict
    BY <1>1, <2>1 DEF HandlerRecord
  <2>5. Knows(r)
    BY <1>1, <2>2, <2>4 DEF Knows
  <2>6. QED
    BY <1>2, <2>2, <2>3, <2>5, Advance
<1>5. QED
  BY <1>3, <1>4

LEMMA SettlePresenceKeeps ==
  ASSUME Types, NEW w \in Handler, SettlePresence(w)
  PROVE  Types'
<1>1. h[w].pc = "settled" /\ h[w].trip \in TripRow /\ ~h[w].conflict
  BY HandlerFacts DEF SettlePresence, At, Knows
<1>2. PICK c \in BOOLEAN : trip' = [h[w].trip EXCEPT !.settled = TRUE, !.flagged = @ \/ c]
  BY DEF SettlePresence, SaveTrip
<1>3. trip' \in TripRow
  BY <1>1, <1>2, TripSaved
<1>4. RowsOK'
  BY <1>3 DEF SettlePresence, SaveTrip, Note, Types, RowsOK, jobs
<1>5. QED
  BY <1>1, <1>4, TripForgotten DEF SettlePresence

LEMMA RemoveJobsKeeps ==
  ASSUME Types, NEW w \in Handler, RemoveJobs(w)
  PROVE  Types'
<1>1. RowsOK'
  BY DEF RemoveJobs, Types, RowsOK, rows, JobState
<1>2. QED
  BY <1>1, Ends DEF RemoveJobs

-----------------------------------------------------------------------------
(* Late requests, the clock and failures *)

LEMMA AcceptKeeps ==
  ASSUME Types, NEW w \in Handler, NEW b \in Booking, Accept(w, b)
  PROVE  Types'
<1>1. RowsOK'
  BY DEF Accept, Types, RowsOK, rows, jobs
<1>2. PICK B : B = Copy(bk, {b})
  OBVIOUS
<1>3. B \in [{b} -> BookingRow] /\ B \in Copies(BookingRow)
  BY <1>2, BookingCopied
<1>4. PICK r : r = [[Idle EXCEPT !.pc = "accept", !.b = b, !.bk = B] EXCEPT !.by = "accept"]
  OBVIOUS
<1>5. h' = [h EXCEPT ![w] = r]
  BY <1>2, <1>4 DEF Accept, Begin
<1>6. r \in HandlerRecord
  BY <1>3, <1>4, IdleRecord DEF HandlerRecord
<1>7. r.pc = "accept" /\ r.b = b /\ r.bk = B /\ ~r.conflict
  BY <1>4 DEF Idle
<1>8. Knows(r)
  BY <1>3, <1>7 DEF Knows
<1>9. QED
  BY <1>1, <1>5, <1>6, <1>8, Advance

LEMMA SaveAcceptedKeeps ==
  ASSUME Types, NEW w \in Handler, SaveAccepted(w)
  PROVE  Types'
<1>1. h[w].b \in Booking /\ h[w].bk[h[w].b] \in BookingRow
  BY HandlerFacts DEF SaveAccepted, At, Knows
<1>2. [h[w].bk[h[w].b] EXCEPT !.st = "confirmed"] \in BookingRow
  BY <1>1 DEF BookingRow
<1>3. bk' \in [Booking -> BookingRow]
  BY <1>2 DEF SaveAccepted, SaveBooking, Types, RowsOK
<1>4. RowsOK'
  BY <1>3 DEF SaveAccepted, SaveBooking, Note, Types, RowsOK, jobs
<1>5. QED
  BY <1>4, Ends DEF SaveAccepted

LEMMA WorldKeeps ==
  ASSUME Types, Tick \/ Sweep \/ LoseJob \/ Reconcile \/ \E w \in Handler : LeaveOpen(w)
  PROVE  Types'
<1>1. UNCHANGED h
  BY DEF Tick, Sweep, LoseJob, Reconcile, LeaveOpen
<1>2. CASE Tick \/ Sweep \/ LoseJob \/ \E w \in Handler : LeaveOpen(w)
  BY <1>1, <1>2 DEF Tick, Sweep, LoseJob, LeaveOpen, Types, RowsOK, HandlersOK, rows, jobs, JobState
<1>3. CASE Reconcile
  <2>1. RowsOK'
    BY <1>3, ChargeTyped DEF Reconcile, Types, RowsOK, jobs
  <2>2. QED
    BY <1>1, <2>1 DEF Types, HandlersOK
<1>4. QED
  BY <1>2, <1>3

LEMMA AbortKeeps ==
  ASSUME Types, NEW w \in Handler, Abort(w)
  PROVE  Types'
<1>1. RowsOK'
  BY DEF Abort, Types, RowsOK, rows, JobState
<1>2. QED
  BY <1>1, Ends DEF Abort

-----------------------------------------------------------------------------
(* The types always hold *)

LEMMA TypesInitially == Init => Types
<1> SUFFICES ASSUME Init PROVE Types
  OBVIOUS
<1>1. trip \in TripRow
  BY DEF Init, TripRow
<1>2. bk \in [Booking -> BookingRow]
  <2>1. bk \in [Booking -> {[st |-> s, boarded |-> FALSE] : s \in {"pending", "confirmed"}}]
    BY DEF Init
  <2>2. \A s \in {"pending", "confirmed"} : [st |-> s, boarded |-> FALSE] \in BookingRow
    BY DEF BookingRow
  <2>3. QED
    BY <2>1, <2>2
<1>3. seat \in [Booking -> SeatRow]
  BY DEF Init, SeatRow, Said
<1>4. RowsOK
  <2>1. /\ time = 0 /\ billed = Nothing /\ startJob = "waiting" /\ endJob = "none"
        /\ mishap = FALSE /\ marks = MaxMarks /\ faults = MaxFaults
    BY DEF Init
  <2>2. time \in 0..1 /\ marks \in 0..MaxMarks /\ faults \in 0..MaxFaults
    BY <2>1
  <2>3. QED
    BY <1>1, <1>2, <1>3, <2>1, <2>2 DEF RowsOK, JobState
<1>5. HandlersOK
  BY IdleRecord DEF Init, HandlersOK
<1>6. QED
  BY <1>4, <1>5 DEF Types

LEMMA TypesKept == Types /\ [Next]_vars => Types'
<1> SUFFICES ASSUME Types, [Next]_vars PROVE Types'
  OBVIOUS
<1>1. ASSUME NEW w \in Handler, HandlerStep(w) PROVE Types'
  BY <1>1, ClaimKeeps, RosterKeeps, BoardKeeps, ScheduleKeeps, ClosePendingKeeps,
     OnPassengerBoardedKeeps, SaveTheSeatKeeps, SyncKeeps, SaveTheBookingKeeps,
     FlagForReviewKeeps, SaveCompletedKeeps, NoShowKeeps, FindActiveKeeps, CompleteEachKeeps,
     ChargeKeeps, ReadToSettleKeeps, SettlePresenceKeeps, RemoveJobsKeeps, SaveAcceptedKeeps
  DEF HandlerStep
<1>2. ASSUME NEW w \in Handler, NEW b \in Booking, Speak(w, b) PROVE Types'
  BY <1>2, PassengerDeclareKeeps, DriverConfirmKeeps, ConfirmBookingKeeps, AcceptKeeps DEF Speak
<1>3. ASSUME NEW w \in Handler, Drive(w) PROVE Types'
  BY <1>3, StartByDriverKeeps, CompletionBegins DEF Drive
<1>4. CASE Departure \/ Deadline
  BY <1>4, OnDepartureKeeps, CompletionBegins DEF Departure, Deadline
<1>5. ASSUME NEW w \in Handler, ChargeFails(w) \/ Abort(w) PROVE Types'
  BY <1>5, ChargeKeeps, AbortKeeps
<1>6. CASE UNCHANGED vars
  BY <1>6 DEF vars, rows, jobs, Types, RowsOK, HandlersOK
<1>7. QED
  BY <1>1, <1>2, <1>3, <1>4, <1>5, <1>6, WorldKeeps DEF Next

LEMMA TypesAlways == Spec => []Types
BY TypesInitially, TypesKept, PTL DEF Spec

\* Every value stays in its type, whatever was saved over what.
THEOREM LifecycleTyped == Spec => []TypeOK
<1>1. Types => TypeOK
  <2> SUFFICES ASSUME Types PROVE TypeOK
    OBVIOUS
  <2>1. \A w \in Handler : h[w].S \in SUBSET Booking /\ h[w].trip \in TripRow \cup {Nothing}
    BY HandlerFacts DEF HandlerRecord
  <2>2. QED
    BY <2>1 DEF TypeOK, Types, RowsOK
<1>2. QED
  BY <1>1, TypesAlways, PTL

-----------------------------------------------------------------------------
(* What holds until the first mishap *)

\* Nobody who said to be in the car is left unbilled by the other side's word,
\* and a seat billed against it is disputed.
AtOdds(s) == /\ s.said = "in_vehicle" => s.over # "no"
             /\ s.over = "yes" => s.disputed
WordOK == \A b \in Booking : AtOdds(seat[b])

FlagOK == faults = MaxFaults =>
  \A b \in Booking : seat[b].disputed => trip.flagged \/ \E w \in Handler : h[w].conflict

\* Whoever completes the trip has its passengers before him.
Completes(w) == \/ h[w].pc = "noshow"
                \/ h[w].pc = "each" /\ WithStatus("in_progress") \subseteq h[w].S
BehindOK == faults = MaxFaults /\ trip.st = "completed" =>
  WithStatus("in_progress") = {} \/ \E w \in Handler : Completes(w)

AloneOK == trip.st \in {"published", "cancelled"} => WithStatus("in_progress") = {}

Good == WordOK /\ FlagOK /\ BehindOK /\ AloneOK
Sound == ~mishap => Good

\* A fault that was spent is not given back.
LEMMA FaultSpent ==
  ASSUME Types, faults > 0, faults' = faults - 1
  PROVE  faults' # MaxFaults
<1>1. faults \in 0..MaxFaults
  BY DEF Types, RowsOK
<1>2. QED
  BY <1>1

\* A step that leaves the seats alone, moves no booking under way, and keeps a
\* conflict and a flag.
LEMMA Carried ==
  ASSUME Types, Good, NEW w \in Handler, \A v \in Handler \ {w} : h'[v] = h[v],
         faults' = MaxFaults => /\ faults = MaxFaults
                                /\ h[w].conflict => h'[w].conflict \/ trip'.flagged
                                /\ h[w].pc \notin {"noshow", "each"},
         trip.flagged => trip'.flagged,
         \/ trip'.st = trip.st
         \/ trip.st = "published" /\ trip'.st \in {"in_progress", "cancelled"},
         \A b \in Booking : bk'[b].st = "in_progress" => bk[b].st = "in_progress",
         UNCHANGED seat
  PROVE  Good'
<1>1. WithStatus("in_progress")' \subseteq WithStatus("in_progress")
  BY DEF WithStatus
<1>2. WordOK'
  BY DEF Good, WordOK, AtOdds
<1>3. FlagOK'
  <2>1. ASSUME NEW b \in Booking, faults' = MaxFaults, seat'[b].disputed
        PROVE  trip'.flagged \/ \E v \in Handler : h'[v].conflict
    <3>1. trip.flagged \/ \E v \in Handler : h[v].conflict
      BY <2>1 DEF Good, FlagOK
    <3>2. ASSUME NEW v \in Handler, h[v].conflict PROVE trip'.flagged \/ h'[v].conflict
      BY <2>1, <3>2
    <3>3. QED
      BY <3>1, <3>2
  <2>2. QED
    BY <2>1 DEF FlagOK
<1>4. BehindOK'
  <2>1. ASSUME NEW v \in Handler, faults' = MaxFaults, Completes(v)
        PROVE  Completes(v)'
    <3>1. v # w /\ h'[v] = h[v]
      BY <2>1 DEF Completes
    <3>2. QED
      BY <1>1, <2>1, <3>1 DEF Completes
  <2>2. trip'.st = "completed" => trip.st = "completed"
    OBVIOUS
  <2>3. QED
    BY <1>1, <2>1, <2>2 DEF Good, BehindOK, Completes
<1>5. AloneOK'
  BY <1>1 DEF Good, AloneOK
<1>6. QED
  BY <1>2, <1>3, <1>4, <1>5 DEF Good

\* Whoever begins had no part in anything.
LEMMA BeginningsSound ==
  ASSUME Types, Good, NEW w \in Handler, h[w].pc = "idle",
         \A v \in Handler \ {w} : h'[v] = h[v], UNCHANGED <<rows, faults>>
  PROVE  Good'
<1>1. ~h[w].conflict
  BY HandlerFacts DEF Knows
<1>2. UNCHANGED <<trip, bk, seat>>
  BY DEF rows
<1>3. QED
  BY <1>1, <1>2, Carried

LEMMA SpeakDriveSound ==
  ASSUME Types, Good, NEW w \in Handler,
         OnDeparture(w) \/ HandleAutoComplete(w) \/ Drive(w) \/ \E b \in Booking : Speak(w, b)
  PROVE  Good'
<1>1. h[w].pc = "idle" /\ UNCHANGED <<rows, faults>>
  BY DEF OnDeparture, HandleAutoComplete, Drive, StartByDriver, CompleteTrip, Speak,
     PassengerDeclare, DriverConfirm, ConfirmBooking, Accept, Begin
<1>2. UNCHANGED h \/ \E r : h' = [h EXCEPT ![w] = r]
  BY DEF OnDeparture, HandleAutoComplete, Drive, StartByDriver, CompleteTrip, Speak,
     PassengerDeclare, DriverConfirm, ConfirmBooking, Accept, Begin
<1>3. \A v \in Handler \ {w} : h'[v] = h[v]
  BY <1>2, HandlerFacts
<1>4. QED
  BY <1>1, <1>3, BeginningsSound

LEMMA OthersStay ==
  ASSUME Types, NEW w \in Handler, HandlerStep(w) \/ ChargeFails(w) \/ Abort(w)
  PROVE  \A v \in Handler \ {w} : h'[v] = h[v]
<1>1. h \in [Handler -> HandlerRecord]
  BY HandlerFacts
<1>2. QED
  BY <1>1 DEF HandlerStep, Claim, ReadRoster, Board, ScheduleAutoComplete, CancelEmpty,
     FindPending, ClosePending, OnPassengerBoarded, SaveTheSeat, Sync, SaveTheBooking,
     FlagForReview, SaveCompleted, NoShow, FindActive, CompleteEach, OpenForTrip, ReadToSettle,
     SettlePresence, RemoveJobs, SaveAccepted, ChargeFails, Abort, Onward, Finish, Go

\* Steps that read, queue or end.
LEMMA ReadingSound ==
  ASSUME Types, Good, NEW w \in Handler,
         \/ ReadRoster(w) \/ FindPending(w) \/ ScheduleAutoComplete(w) \/ OnPassengerBoarded(w)
         \/ Sync(w) \/ ReadToSettle(w) \/ RemoveJobs(w)
  PROVE  Good'
<1>1. /\ UNCHANGED <<trip, bk, seat>> /\ h[w].pc \notin {"noshow", "each"}
      /\ \A v \in Handler \ {w} : h'[v] = h[v]
  <2>1. HandlerStep(w)
    BY DEF HandlerStep
  <2>2. UNCHANGED rows /\ h[w].pc \notin {"noshow", "each"}
    BY DEF ReadRoster, FindPending, ScheduleAutoComplete, OnPassengerBoarded, Sync, ReadToSettle,
       RemoveJobs, At
  <2>3. QED
    BY <2>1, <2>2, OthersStay DEF rows
<1>2. faults' = MaxFaults => faults = MaxFaults
  BY FaultSpent DEF ReadRoster, FindPending, ScheduleAutoComplete, OnPassengerBoarded, Sync,
     ReadToSettle, RemoveJobs
<1>3. h[w] \in HandlerRecord /\ Knows(h[w]) /\ h \in [Handler -> HandlerRecord]
  BY HandlerFacts
<1>4. h[w].conflict => h'[w].conflict
  <2>1. CASE ReadRoster(w) \/ FindPending(w) \/ Sync(w) \/ ReadToSettle(w)
    <3>1. h'[w].conflict = h[w].conflict
      BY <1>3, <2>1 DEF ReadRoster, FindPending, Sync, ReadToSettle, HandlerRecord
    <3>2. QED
      BY <3>1
  <2>2. CASE ScheduleAutoComplete(w)
    <3>1. ASSUME h[w].conflict PROVE h'[w] = [h[w] EXCEPT !.pc = "flag"]
      BY <1>3, <2>2, <3>1 DEF ScheduleAutoComplete, Knows, At
    <3>2. QED
      BY <1>3, <3>1 DEF HandlerRecord
  <2>3. CASE OnPassengerBoarded(w)
    <3>1. ASSUME h[w].conflict PROVE \E p : h'[w] = [h[w] EXCEPT !.pc = p]
      BY <1>3, <2>3, <3>1 DEF OnPassengerBoarded, Onward, Go, Knows, At
    <3>2. QED
      BY <1>3, <3>1 DEF HandlerRecord
  <2>4. CASE RemoveJobs(w)
    BY <1>3, <2>4 DEF RemoveJobs, Knows, At
  <2>5. QED
    BY <2>1, <2>2, <2>3, <2>4
<1>5. QED
  BY <1>1, <1>2, <1>4, Carried

LEMMA ClaimSound ==
  ASSUME Types, Good, NEW w \in Handler, Claim(w) \/ CancelEmpty(w)
  PROVE  Good'
<1>1. /\ UNCHANGED <<bk, seat, faults>> /\ h[w].pc \notin {"noshow", "each"}
      /\ \A v \in Handler \ {w} : h'[v] = h[v]
  <2>1. HandlerStep(w)
    BY DEF HandlerStep
  <2>2. QED
    BY <2>1, OthersStay DEF Claim, CancelEmpty, At
<1>2. /\ trip' = trip \/ trip' = [trip EXCEPT !.st = "in_progress"]
         \/ trip' = [trip EXCEPT !.st = "cancelled"]
      /\ trip' = trip \/ trip.st = "published"
  BY DEF Claim, CancelEmpty, MayStart
<1>3. trip \in TripRow
  BY DEF Types, RowsOK
<1>4. /\ trip.flagged => trip'.flagged
      /\ \/ trip'.st = trip.st
         \/ trip.st = "published" /\ trip'.st \in {"in_progress", "cancelled"}
  BY <1>2, <1>3 DEF TripRow
<1>5. h[w].conflict => h'[w].conflict
  <2>1. h[w] \in HandlerRecord /\ Knows(h[w]) /\ h \in [Handler -> HandlerRecord]
    BY HandlerFacts
  <2>2. ASSUME h[w].conflict PROVE \E p : h'[w] = [h[w] EXCEPT !.pc = p]
    BY <2>1, <2>2 DEF Claim, CancelEmpty, Onward, Go, Knows, At
  <2>3. QED
    BY <2>1, <2>2 DEF HandlerRecord
<1>6. QED
  BY <1>1, <1>4, <1>5, Carried

LEMMA ClosePendingSound ==
  ASSUME Types, Good, NEW w \in Handler, ClosePending(w)
  PROVE  Good'
<1>1. /\ UNCHANGED <<trip, seat, faults>> /\ h[w].pc = "closing"
      /\ \A v \in Handler \ {w} : h'[v] = h[v]
  <2>1. HandlerStep(w)
    BY DEF HandlerStep
  <2>2. QED
    BY <2>1, OthersStay DEF ClosePending, At
<1>2. ~h[w].conflict
  BY <1>1, HandlerFacts DEF Knows
<1>3. ASSUME NEW b \in Booking, bk'[b].st = "in_progress" PROVE bk[b].st = "in_progress"
  <2>1. bk'[b] = [bk[b] EXCEPT !.st = "cancelled"] \/ bk'[b] = bk[b]
    BY DEF ClosePending
  <2>2. bk[b] \in BookingRow
    BY DEF Types, RowsOK
  <2>3. QED
    BY <1>3, <2>1, <2>2 DEF BookingRow
<1>4. QED
  BY <1>1, <1>2, <1>3, Carried

\* Bookings saved over the row that was read stay under way, or are not.
LEMMA SaveTheBookingSound ==
  ASSUME Types, Good, ~mishap', NEW w \in Handler, SaveTheBooking(w)
  PROVE  Good'
<1>1. /\ UNCHANGED <<trip, seat, faults>> /\ h[w].pc = "synced"
      /\ \A v \in Handler \ {w} : h'[v] = h[v]
  <2>1. HandlerStep(w)
    BY DEF HandlerStep
  <2>2. QED
    BY <2>1, OthersStay DEF SaveTheBooking, At
<1>2. h[w] \in HandlerRecord /\ Knows(h[w]) /\ h \in [Handler -> HandlerRecord]
  BY HandlerFacts
<1>3. h[w].conflict => h'[w].conflict
  <2>1. ASSUME h[w].conflict PROVE \E p : h'[w] = [h[w] EXCEPT !.pc = p, !.bk = Nothing]
    BY <1>1, <1>2, <2>1 DEF SaveTheBooking, Knows
  <2>2. QED
    BY <1>2, <2>1 DEF HandlerRecord
<1>4. h[w].b \in Booking /\ h[w].bk[h[w].b] = bk[h[w].b] /\ bk[h[w].b] \in BookingRow
  BY <1>1, <1>2 DEF SaveTheBooking, SaveBooking, Note, Knows, Types, RowsOK
<1>5. PICK row : bk' = [bk EXCEPT ![h[w].b] = row] /\ row.st = bk[h[w].b].st
  <2>1. /\ [bk[h[w].b] EXCEPT !.boarded = h[w].say = "in_vehicle"].st = bk[h[w].b].st
        /\ [bk[h[w].b] EXCEPT !.boarded = TRUE].st = bk[h[w].b].st
    BY <1>4 DEF BookingRow
  <2>2. QED
    BY <1>4, <2>1 DEF SaveTheBooking, SaveBooking
<1>6. ASSUME NEW b \in Booking, bk'[b].st = "in_progress" PROVE bk[b].st = "in_progress"
  BY <1>4, <1>5, <1>6 DEF Types, RowsOK
<1>7. QED
  BY <1>1, <1>3, <1>6, Carried

LEMMA SaveAcceptedSound ==
  ASSUME Types, Good, NEW w \in Handler, SaveAccepted(w)
  PROVE  Good'
<1>1. /\ UNCHANGED <<trip, seat, faults>> /\ h[w].pc = "accept"
      /\ \A v \in Handler \ {w} : h'[v] = h[v]
  <2>1. HandlerStep(w)
    BY DEF HandlerStep
  <2>2. QED
    BY <2>1, OthersStay DEF SaveAccepted, At
<1>2. ~h[w].conflict /\ h[w].b \in Booking /\ h[w].bk[h[w].b] \in BookingRow
  BY <1>1, HandlerFacts DEF Knows
<1>3. ASSUME NEW b \in Booking, bk'[b].st = "in_progress" PROVE bk[b].st = "in_progress"
  <2>1. [h[w].bk[h[w].b] EXCEPT !.st = "confirmed"].st = "confirmed"
    BY <1>2 DEF BookingRow
  <2>2. QED
    BY <1>2, <1>3, <2>1 DEF SaveAccepted, SaveBooking, Types, RowsOK
<1>4. QED
  BY <1>1, <1>2, <1>3, Carried

LEMMA FlagForReviewSound ==
  ASSUME Types, Good, ~mishap', NEW w \in Handler, FlagForReview(w)
  PROVE  Good'
<1>1. /\ UNCHANGED <<bk, seat, faults>> /\ h[w].pc = "flag"
      /\ \A v \in Handler \ {w} : h'[v] = h[v]
  <2>1. HandlerStep(w)
    BY DEF HandlerStep
  <2>2. QED
    BY <2>1, OthersStay DEF FlagForReview, At
<1>2. trip' = [trip EXCEPT !.flagged = TRUE] /\ trip \in TripRow
  BY DEF FlagForReview, SaveTrip, Note, Flagged, Types, RowsOK
<1>3. trip'.flagged /\ trip'.st = trip.st
  BY <1>2 DEF TripRow
<1>4. QED
  BY <1>1, <1>3, Carried

LEMMA SettlePresenceSound ==
  ASSUME Types, Good, ~mishap', NEW w \in Handler, SettlePresence(w)
  PROVE  Good'
<1>1. /\ UNCHANGED <<bk, seat, faults>> /\ h[w].pc = "settled"
      /\ \A v \in Handler \ {w} : h'[v] = h[v]
  <2>1. HandlerStep(w)
    BY DEF HandlerStep
  <2>2. QED
    BY <2>1, OthersStay DEF SettlePresence, At
<1>2. ~h[w].conflict
  BY <1>1, HandlerFacts DEF Knows
<1>3. PICK c \in BOOLEAN : trip' = [trip EXCEPT !.settled = TRUE, !.flagged = @ \/ c]
  BY DEF SettlePresence, SaveTrip, Note
<1>4. trip \in TripRow
  BY DEF Types, RowsOK
<1>5. trip'.st = trip.st
  BY <1>3, <1>4 DEF TripRow
<1>6. trip.flagged => trip'.flagged
  BY <1>3, <1>4 DEF TripRow
<1>7. QED
  BY <1>1, <1>2, <1>5, <1>6, Carried

\* A fault is spent: whatever is lost with the handler is no longer promised.
LEMMA AbortSound ==
  ASSUME Types, Good, NEW w \in Handler, Abort(w) \/ ChargeFails(w)
  PROVE  Good'
<1>1. /\ UNCHANGED <<trip, bk, seat>> /\ faults' # MaxFaults
      /\ \A v \in Handler \ {w} : h'[v] = h[v]
  BY OthersStay, FaultSpent DEF Abort, ChargeFails, rows
<1>2. QED
  BY <1>1, Carried

\* Steps of the trip's row or of the queue alone.
LEMMA WorldSound ==
  ASSUME Types, Good, Tick \/ Sweep \/ LoseJob \/ Reconcile \/ \E w \in Handler : LeaveOpen(w)
  PROVE  Good'
<1>1. UNCHANGED <<h, bk, seat>>
  BY DEF Tick, Sweep, LoseJob, Reconcile, LeaveOpen, rows
<1>2. faults' = MaxFaults => faults = MaxFaults
  BY FaultSpent DEF Tick, Sweep, LoseJob, Reconcile, LeaveOpen
<1>3. trip'.st = trip.st /\ (trip.flagged => trip'.flagged)
  <2>1. trip' = trip \/ trip' = [trip EXCEPT !.stamped = TRUE]
    BY DEF Tick, Sweep, LoseJob, Reconcile, LeaveOpen, rows, Charge
  <2>2. trip \in TripRow
    BY DEF Types, RowsOK
  <2>3. QED
    BY <2>1, <2>2 DEF TripRow
<1>4. WordOK' /\ FlagOK'
  BY <1>1, <1>2, <1>3 DEF Good, WordOK, FlagOK
<1>5. BehindOK' /\ AloneOK'
  BY <1>1, <1>2, <1>3 DEF Good, BehindOK, AloneOK, WithStatus, Completes
<1>6. QED
  BY <1>4, <1>5 DEF Good

-----------------------------------------------------------------------------
(* The steps that move seats and bookings *)

\* The bookings set out with their trip, or the start was overtaken.
LEMMA BoardSound ==
  ASSUME Types, Good, ~mishap', NEW w \in Handler, Board(w)
  PROVE  Good'
<1>1. /\ UNCHANGED <<trip, seat, faults>> /\ trip.st = "in_progress"
      /\ \A v \in Handler \ {w} : h'[v] = h[v]
  <2>1. HandlerStep(w)
    BY DEF HandlerStep
  <2>2. QED
    BY <2>1, OthersStay DEF Board, Note
<1>2. h[w].conflict => h'[w].conflict
  <2>1. h[w] \in HandlerRecord /\ h' = [h EXCEPT ![w] = [h[w] EXCEPT !.pc = "schedule", !.S = {}]]
    BY HandlerFacts DEF Board
  <2>2. h'[w] = [h[w] EXCEPT !.pc = "schedule", !.S = {}]
    BY <2>1, HandlerFacts
  <2>3. QED
    BY <2>1, <2>2 DEF HandlerRecord
<1>3. WordOK' /\ BehindOK' /\ AloneOK'
  BY <1>1 DEF Good, WordOK, AtOdds, BehindOK, AloneOK
<1>4. FlagOK'
  <2>1. ASSUME NEW v \in Handler, h[v].conflict PROVE h'[v].conflict
    BY <1>1, <1>2, <2>1
  <2>2. QED
    BY <1>1, <2>1 DEF Good, FlagOK
<1>5. QED
  BY <1>3, <1>4 DEF Good

\* What is said of a seat that was just read stays consistent, and a
\* contradiction is the business of whoever recorded it.
LEMMA SeatAfterAtOdds ==
  ASSUME Types, NEW w \in Handler, At(w, "seat"), AtOdds(h[w].seat[h[w].b])
  PROVE  /\ AtOdds(SeatAfter(w))
         /\ SeatAfter(w).disputed => h[w].seat[h[w].b].disputed \/ h[w].conflict
<1> DEFINE s == h[w].seat[h[w].b]
<1>1. /\ s \in SeatRow /\ Knows(h[w])
      /\ h[w].by \in {"passenger", "vouch", "legacy_driver"}
  BY HandlerFacts DEF Knows, At
<1>2. CASE h[w].by = "passenger"
  <2>1. h[w].say \in {"in_vehicle", "not_riding"}
    BY <1>1, <1>2 DEF Knows, At
  <2>2. h[w].say = "in_vehicle" /\ s.over = "no" => h[w].conflict
    BY <1>1, <1>2 DEF Knows, At
  <2>3. SeatAfter(w) = Declared(s, h[w].say)
    BY <1>2 DEF SeatAfter
  <2>4. AtOdds(Declared(s, h[w].say))
    BY <1>1, <2>1 DEF Declared, AtOdds, SeatRow
  <2>5. Declared(s, h[w].say).disputed => s.disputed \/ (h[w].say = "in_vehicle" /\ s.over = "no")
    BY <1>1, <2>1 DEF Declared, SeatRow
  <2>6. QED
    BY <2>2, <2>3, <2>4, <2>5
<1>3. CASE h[w].by = "vouch"
  <2>1. SeatAfter(w) = DriverDecision(s, h[w].say = "present")
    BY <1>3 DEF SeatAfter
  <2>2. DriverDecision(s, h[w].say = "present").disputed => h[w].conflict
    BY <1>1, <1>3 DEF Knows, At
  <2>3. ASSUME NEW p \in BOOLEAN PROVE AtOdds(DriverDecision(s, p))
    BY <1>1 DEF DriverDecision, AtOdds, SeatRow
  <2>4. QED
    BY <2>1, <2>2, <2>3
<1>4. CASE h[w].by = "legacy_driver"
  <2>1. SeatAfter(w) = [s EXCEPT !.mark = @ \cup {h[w].say}]
    BY <1>4 DEF SeatAfter
  <2>2. /\ SeatAfter(w).said = s.said /\ SeatAfter(w).over = s.over
        /\ SeatAfter(w).disputed = s.disputed
    BY <1>1, <2>1 DEF SeatRow
  <2>3. QED
    BY <2>2 DEF AtOdds
<1>5. QED
  BY <1>1, <1>2, <1>3, <1>4

LEMMA SaveTheSeatSound ==
  ASSUME Types, Good, ~mishap', NEW w \in Handler, SaveTheSeat(w)
  PROVE  Good'
<1> DEFINE b == h[w].b
<1>1. /\ UNCHANGED <<trip, bk, faults>> /\ h[w].pc = "seat"
      /\ \A v \in Handler \ {w} : h'[v] = h[v]
  <2>1. HandlerStep(w)
    BY DEF HandlerStep
  <2>2. QED
    BY <2>1, OthersStay DEF SaveTheSeat, At
<1>2. /\ h[w] \in HandlerRecord /\ h \in [Handler -> HandlerRecord] /\ b \in Booking
      /\ seat \in [Booking -> SeatRow]
  BY <1>1, HandlerFacts DEF Knows, Types, RowsOK
<1>3. h[w].seat[b] = seat[b] /\ seat' = [seat EXCEPT ![b] = SeatAfter(w)]
  BY DEF SaveTheSeat, SaveSeat, Note
<1>4. /\ AtOdds(SeatAfter(w))
      /\ SeatAfter(w).disputed => seat[b].disputed \/ h[w].conflict
  BY <1>1, <1>2, <1>3, SeatAfterAtOdds DEF At, Good, WordOK
<1>5. WordOK'
  <2>1. \A c \in Booking : seat'[c] = IF c = b THEN SeatAfter(w) ELSE seat[c]
    BY <1>2, <1>3
  <2>2. QED
    BY <1>4, <2>1 DEF Good, WordOK, AtOdds
<1>6. h[w].conflict => h'[w].conflict
  <2>1. PICK p : h'[w] = [h[w] EXCEPT !.pc = p, !.seat = Nothing]
    BY <1>2 DEF SaveTheSeat
  <2>2. QED
    BY <1>2, <2>1 DEF HandlerRecord
<1>7. FlagOK'
  <2>1. ASSUME NEW v \in Handler, h[v].conflict PROVE h'[v].conflict
    BY <1>1, <1>6, <2>1
  <2>2. ASSUME NEW c \in Booking, seat'[c].disputed PROVE seat[c].disputed \/ h'[w].conflict
    BY <1>2, <1>3, <1>4, <1>6, <2>2
  <2>3. QED
    BY <1>1, <2>1, <2>2 DEF Good, FlagOK
<1>8. BehindOK' /\ AloneOK'
  <2>1. WithStatus("in_progress")' = WithStatus("in_progress")
    BY <1>1 DEF WithStatus
  <2>2. ASSUME NEW v \in Handler, Completes(v) PROVE Completes(v)'
    BY <1>1, <2>1, <2>2 DEF Completes
  <2>3. QED
    BY <1>1, <2>1, <2>2 DEF Good, BehindOK, AloneOK
<1>9. QED
  BY <1>5, <1>7, <1>8 DEF Good

\* Completion: one handler at a time, or the second save is a mishap.
LEMMA SaveCompletedSound ==
  ASSUME Types, Good, ~mishap', NEW w \in Handler, SaveCompleted(w)
  PROVE  Good'
<1>1. /\ UNCHANGED <<bk, seat, faults>> /\ h[w].pc = "complete" /\ h[w] \in HandlerRecord
      /\ ~h[w].conflict /\ \A v \in Handler \ {w} : h'[v] = h[v]
  <2>1. HandlerStep(w)
    BY DEF HandlerStep
  <2>2. QED
    BY <2>1, OthersStay, HandlerFacts DEF SaveCompleted, At, Knows
<1>2. trip' = [trip EXCEPT !.st = "completed"] /\ trip \in TripRow
  BY DEF SaveCompleted, SaveTrip, Note, Types, RowsOK
<1>3. trip'.st = "completed" /\ (trip.flagged => trip'.flagged)
  BY <1>2 DEF TripRow
<1>4. h'[w].pc = "noshow"
  <2>1. h'[w] = [h[w] EXCEPT !.pc = "noshow", !.trip = Nothing]
    BY HandlerFacts DEF SaveCompleted
  <2>2. QED
    BY <1>1, <2>1 DEF HandlerRecord
<1>5. WordOK' /\ AloneOK'
  BY <1>1, <1>3 DEF Good, WordOK, AtOdds, AloneOK
<1>6. FlagOK'
  <2>1. ASSUME NEW v \in Handler, h[v].conflict PROVE h'[v].conflict
    BY <1>1, <2>1
  <2>2. QED
    BY <1>1, <1>3, <2>1 DEF Good, FlagOK
<1>7. BehindOK'
  BY <1>4 DEF BehindOK, Completes
<1>8. QED
  BY <1>5, <1>6, <1>7 DEF Good

\* The steps of completion that leave the trip as it is, and remove from the
\* bookings under way what they remove from their list.
LEMMA CompletionSound ==
  ASSUME Types, Good, NEW w \in Handler, h[w].pc \in {"noshow", "each"},
         \A v \in Handler \ {w} : h'[v] = h[v], UNCHANGED faults,
         trip'.st = trip.st, trip.flagged => trip'.flagged,
         \A b \in Booking : AtOdds(seat[b]) => AtOdds(seat'[b]),
         \A b \in Booking : seat'[b].disputed => seat[b].disputed,
         \A b \in Booking : bk'[b].st = "in_progress" => bk[b].st = "in_progress",
         Completes(w) => WithStatus("in_progress")' = {} \/ Completes(w)'
  PROVE  Good'
<1>1. ~h[w].conflict
  BY HandlerFacts DEF Knows
<1>2. WordOK'
  BY DEF Good, WordOK, AtOdds
<1>3. FlagOK'
  <2>1. ASSUME NEW v \in Handler, h[v].conflict PROVE h'[v].conflict
    BY <1>1, <2>1
  <2>2. QED
    BY <2>1 DEF Good, FlagOK
<1>4. WithStatus("in_progress")' \subseteq WithStatus("in_progress")
  BY DEF WithStatus
<1>5. BehindOK'
  <2>1. ASSUME NEW v \in Handler \ {w}, Completes(v) PROVE Completes(v)'
    BY <1>4, <2>1 DEF Completes
  <2>2. ASSUME NEW v \in Handler, Completes(v)
        PROVE  WithStatus("in_progress")' = {} \/ \E x \in Handler : Completes(x)'
    BY <2>1, <2>2
  <2>3. QED
    BY <1>4, <2>2 DEF Good, BehindOK
<1>6. AloneOK'
  BY <1>4 DEF Good, AloneOK
<1>7. QED
  BY <1>2, <1>3, <1>5, <1>6 DEF Good

LEMMA NoShowSound ==
  ASSUME Types, Good, NEW w \in Handler, NoShow(w)
  PROVE  Good'
<1>1. /\ UNCHANGED <<trip, faults>> /\ h[w].pc = "noshow" /\ h[w] \in HandlerRecord
      /\ \A v \in Handler \ {w} : h'[v] = h[v]
  <2>1. HandlerStep(w)
    BY DEF HandlerStep
  <2>2. QED
    BY <2>1, OthersStay, HandlerFacts DEF NoShow, At
<1>2. PICK b \in h[w].S : /\ seat' = [seat EXCEPT ![b].mark = @ \cup {"absent"}]
                          /\ bk' = [bk EXCEPT ![b].st = "no_show"]
                          /\ h' = [h EXCEPT ![w].S = @ \ {b}]
  BY DEF NoShow
<1>3. /\ b \in Booking /\ seat \in [Booking -> SeatRow] /\ bk \in [Booking -> BookingRow]
  BY <1>1, <1>2 DEF HandlerRecord, Types, RowsOK
<1>4. h'[w].pc = "noshow"
  <2>1. h'[w] = [h[w] EXCEPT !.S = @ \ {b}]
    BY <1>2, HandlerFacts
  <2>2. QED
    BY <1>1, <2>1 DEF HandlerRecord
<1>5. ASSUME NEW c \in Booking
      PROVE  /\ seat'[c].said = seat[c].said /\ seat'[c].over = seat[c].over
             /\ seat'[c].disputed = seat[c].disputed
  <2>1. seat'[c] = seat[c] \/ seat'[c] = [seat[c] EXCEPT !.mark = @ \cup {"absent"}]
    BY <1>2, <1>3
  <2>2. QED
    BY <1>3, <2>1 DEF SeatRow
<1>6. ASSUME NEW c \in Booking, bk'[c].st = "in_progress" PROVE bk[c].st = "in_progress"
  <2>1. bk'[c] = bk[c] \/ bk'[c] = [bk[c] EXCEPT !.st = "no_show"]
    BY <1>2, <1>3
  <2>2. QED
    BY <1>3, <1>6, <2>1 DEF BookingRow
<1>7. /\ \A c \in Booking : AtOdds(seat[c]) => AtOdds(seat'[c])
      /\ \A c \in Booking : seat'[c].disputed => seat[c].disputed
  BY <1>5 DEF AtOdds
<1>8. Completes(w)'
  BY <1>4 DEF Completes
<1>9. QED
  BY <1>1, <1>6, <1>7, <1>8, CompletionSound

LEMMA FindActiveSound ==
  ASSUME Types, Good, NEW w \in Handler, FindActive(w)
  PROVE  Good'
<1>1. /\ UNCHANGED <<trip, bk, seat, faults>> /\ h[w].pc = "noshow" /\ h[w] \in HandlerRecord
      /\ \A v \in Handler \ {w} : h'[v] = h[v]
  <2>1. HandlerStep(w)
    BY DEF HandlerStep
  <2>2. QED
    BY <2>1, OthersStay, HandlerFacts DEF FindActive, At, rows
<1>2. h'[w].pc = "each" /\ h'[w].S = WithStatus("in_progress")
  <2>1. PICK B : h'[w] = [h[w] EXCEPT !.pc = "each", !.S = WithStatus("in_progress"), !.bk = B]
    BY HandlerFacts DEF FindActive
  <2>2. QED
    BY <1>1, <2>1 DEF HandlerRecord
<1>3. Completes(w)'
  BY <1>1, <1>2 DEF Completes, WithStatus
<1>4. QED
  BY <1>1, <1>3, CompletionSound

LEMMA CompleteEachSound ==
  ASSUME Types, Good, NEW w \in Handler, CompleteEach(w)
  PROVE  Good'
<1>1. /\ UNCHANGED <<trip, seat, faults>> /\ h[w].pc = "each" /\ h[w] \in HandlerRecord
      /\ \A v \in Handler \ {w} : h'[v] = h[v]
  <2>1. HandlerStep(w)
    BY DEF HandlerStep
  <2>2. QED
    BY <2>1, OthersStay, HandlerFacts DEF CompleteEach, At
<1>2. PICK b \in h[w].S :
        /\ bk' = [bk EXCEPT ![b] = h[w].bk[b]]
        /\ h' = [h EXCEPT ![w].S = @ \ {b}, ![w].bk = [x \in h[w].S \ {b} |-> @[x]]]
  BY DEF CompleteEach
<1>3. b \in Booking /\ bk \in [Booking -> BookingRow] /\ h[w].bk[b].st # "in_progress"
  BY <1>1, <1>2, HandlerFacts DEF HandlerRecord, Types, RowsOK, Knows
<1>4. h'[w].pc = "each" /\ h'[w].S = h[w].S \ {b}
  <2>1. PICK B : h'[w] = [h[w] EXCEPT !.S = @ \ {b}, !.bk = B]
    BY <1>2, HandlerFacts
  <2>2. QED
    BY <1>1, <2>1 DEF HandlerRecord
<1>5. \A c \in Booking : bk'[c].st = "in_progress" => bk[c].st = "in_progress" /\ c # b
  BY <1>2, <1>3
<1>6. Completes(w) => Completes(w)'
  BY <1>1, <1>4, <1>5 DEF Completes, WithStatus
<1>7. QED
  BY <1>1, <1>5, <1>6, CompletionSound

LEMMA OpenForTripSound ==
  ASSUME Types, Good, NEW w \in Handler, OpenForTrip(w)
  PROVE  Good'
<1>1. /\ UNCHANGED <<bk, seat, faults>> /\ h[w].pc = "each" /\ h[w].S = {}
      /\ \A v \in Handler \ {w} : h'[v] = h[v]
  <2>1. HandlerStep(w)
    BY DEF HandlerStep
  <2>2. QED
    BY <2>1, OthersStay DEF OpenForTrip, At
<1>2. trip'.st = trip.st /\ (trip.flagged => trip'.flagged)
  <2>1. trip' = trip \/ trip' = [trip EXCEPT !.stamped = TRUE]
    BY DEF OpenForTrip, Charge
  <2>2. trip \in TripRow
    BY DEF Types, RowsOK
  <2>3. QED
    BY <2>1, <2>2 DEF TripRow
<1>3. Completes(w) => WithStatus("in_progress")' = {}
  BY <1>1 DEF Completes, WithStatus
<1>4. QED
  BY <1>1, <1>2, <1>3, CompletionSound

-----------------------------------------------------------------------------
(* The theorems about riders and driver *)

LifecycleInv == Types /\ Sound

LEMMA SoundInitially ==
  ASSUME Init
  PROVE  Good
<1>1. \A b \in Booking : seat[b].said = "none" /\ seat[b].over = "none" /\ ~seat[b].disputed
  BY DEF Init
<1>2. \A b \in Booking : bk[b].st # "in_progress"
  <2>1. bk \in [Booking -> {[st |-> s, boarded |-> FALSE] : s \in {"pending", "confirmed"}}]
    BY DEF Init
  <2>2. \A s \in {"pending", "confirmed"} : [st |-> s, boarded |-> FALSE].st # "in_progress"
    OBVIOUS
  <2>3. QED
    BY <2>1, <2>2
<1>3. WithStatus("in_progress") = {}
  BY <1>2 DEF WithStatus
<1>4. WordOK /\ FlagOK
  BY <1>1 DEF WordOK, AtOdds, FlagOK
<1>5. BehindOK /\ AloneOK
  BY <1>3 DEF BehindOK, AloneOK
<1>6. QED
  BY <1>4, <1>5 DEF Good

LEMMA MishapStays ==
  ASSUME [Next]_vars, mishap
  PROVE  mishap'
<1>1. \A broken : Note(broken) => mishap'
  BY DEF Note
<1>2. ASSUME NEW w \in Handler, HandlerStep(w) PROVE mishap'
  <2>1. CASE Board(w) \/ ClosePending(w) \/ SaveTheSeat(w) \/ SaveTheBooking(w) \/ FlagForReview(w)
             \/ SaveCompleted(w) \/ CompleteEach(w) \/ SettlePresence(w) \/ SaveAccepted(w)
    BY <1>1, <2>1 DEF Board, ClosePending, SaveTheSeat, SaveTheBooking, FlagForReview,
       SaveCompleted, CompleteEach, SettlePresence, SaveAccepted, SaveTrip, SaveBooking, SaveSeat
  <2>2. CASE Claim(w) \/ ReadRoster(w) \/ ScheduleAutoComplete(w) \/ CancelEmpty(w)
             \/ FindPending(w) \/ OnPassengerBoarded(w) \/ Sync(w) \/ NoShow(w) \/ FindActive(w)
             \/ OpenForTrip(w) \/ ReadToSettle(w) \/ RemoveJobs(w)
    BY <2>2 DEF Claim, ReadRoster, ScheduleAutoComplete, CancelEmpty, FindPending,
       OnPassengerBoarded, Sync, NoShow, FindActive, OpenForTrip, ReadToSettle, RemoveJobs
  <2>3. QED
    BY <1>2, <2>1, <2>2 DEF HandlerStep
<1>3. ASSUME NEW w \in Handler, Drive(w) \/ \E b \in Booking : Speak(w, b) PROVE mishap'
  BY <1>3 DEF Drive, StartByDriver, CompleteTrip, Speak, PassengerDeclare, DriverConfirm,
     ConfirmBooking, Accept
<1>4. ASSUME NEW w \in Handler, ChargeFails(w) \/ Abort(w) \/ LeaveOpen(w) PROVE mishap'
  BY <1>4 DEF ChargeFails, Abort, LeaveOpen
<1>5. CASE Departure \/ Deadline \/ Reconcile \/ Tick \/ Sweep \/ LoseJob
  BY <1>5 DEF Departure, OnDeparture, Deadline, HandleAutoComplete, Reconcile, Tick, Sweep, LoseJob
<1>6. QED
  BY <1>2, <1>3, <1>4, <1>5 DEF Next, vars

LEMMA GoodKept ==
  ASSUME Types, Good, [Next]_vars, ~mishap'
  PROVE  Good'
<1>1. ASSUME NEW w \in Handler, HandlerStep(w) PROVE Good'
  BY <1>1, ReadingSound, ClaimSound, ClosePendingSound, SaveTheBookingSound, SaveAcceptedSound,
     FlagForReviewSound, SettlePresenceSound, BoardSound, SaveTheSeatSound, SaveCompletedSound,
     NoShowSound, FindActiveSound, CompleteEachSound, OpenForTripSound DEF HandlerStep
<1>2. ASSUME NEW w \in Handler, ChargeFails(w) \/ Abort(w) PROVE Good'
  BY <1>2, AbortSound
<1>3. ASSUME NEW w \in Handler, Drive(w) \/ \E b \in Booking : Speak(w, b) PROVE Good'
  BY <1>3, SpeakDriveSound
<1>4. CASE Departure \/ Deadline
  BY <1>4, SpeakDriveSound DEF Departure, Deadline
<1>5. CASE UNCHANGED vars
  <2>1. UNCHANGED <<trip, bk, seat, h, faults>>
    BY <1>5 DEF vars, rows
  <2>2. WordOK' /\ FlagOK' /\ BehindOK' /\ AloneOK'
    BY <2>1 DEF Good, WordOK, AtOdds, FlagOK, BehindOK, AloneOK, Completes, WithStatus
  <2>3. QED
    BY <2>2 DEF Good
<1>6. QED
  BY <1>1, <1>2, <1>3, <1>4, <1>5, WorldSound DEF Next

LEMMA InvAlways == Spec => []LifecycleInv
<1>1. Init => LifecycleInv
  BY TypesInitially, SoundInitially DEF LifecycleInv, Sound
<1>2. LifecycleInv /\ [Next]_vars => LifecycleInv'
  BY TypesKept, GoodKept, MishapStays DEF LifecycleInv, Sound
<1>3. QED
  BY <1>1, <1>2, PTL DEF Spec

\* Whoever said to be in the car is never left unbilled by the driver's word, in
\* whichever order the two answers and their saves came.
THEOREM WordStands == Spec => []WordAgainstWord
<1>1. LifecycleInv => WordAgainstWord
  BY DEF LifecycleInv, Sound, Good, WordOK, AtOdds, WordAgainstWord
<1>2. QED
  BY <1>1, InvAlways, PTL

\* While nothing fails, a dispute reaches the admins or is on its way to them.
THEOREM DisputeSeen == Spec => []DisputeIsFlagged
<1>1. LifecycleInv => DisputeIsFlagged
  BY DEF LifecycleInv, Sound, Good, FlagOK, DisputeIsFlagged
<1>2. QED
  BY <1>1, InvAlways, PTL

\* Bookings are under way with their trip, or in the hands of whoever completes
\* it, however start, arrival and end job cross.
THEOREM BookingsFollow == Spec => []BookingsFollowTrip
<1>1. LifecycleInv => BookingsFollowTrip
  BY DEF LifecycleInv, Sound, Good, BehindOK, AloneOK, Completes, BookingsFollowTrip,
     NobodyLeftBehind, NobodyRidesAlone, Finishing
<1>2. QED
  BY <1>1, InvAlways, PTL
=============================================================================
