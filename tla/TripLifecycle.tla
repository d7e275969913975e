----------------------------- MODULE TripLifecycle ----------------------------
(***************************************************************************)
(* One shared trip from the hour before departure to its settlement: the   *)
(* start job, the driver and the first rider on board who may start it, the *)
(* arrival button and the end job that complete it, the sweep that puts    *)
(* lost jobs back, the commission, and what passengers and driver say of   *)
(* who is in the car.                                                      *)
(*                                                                         *)
(* A handler is a record in h and one step is one call of the database or  *)
(* of the queue; the reads a handler makes before its first write are one  *)
(* step.  save(entity) writes every column that differs from the row as it *)
(* is by then: mishap notes a save of a copy that was no longer the row,   *)
(* or a start that its trip's completion overtook.                         *)
(***************************************************************************)
EXTENDS Naturals, FiniteSets

CONSTANTS Booking,      \* bookings of the trip, of one seat and a passenger each
          Handler,      \* the handlers that may be in flight at once
          MaxMarks,     \* answers of the driver about a seat
          MaxFaults,    \* awaits that throw, processes that die, jobs lost
          AfterMishap,  \* whether to look beyond the first mishap
          Nothing

ASSUME LifecycleAssumption == /\ IsFiniteSet(Booking) /\ MaxMarks \in Nat /\ MaxFaults \in Nat
                              /\ AfterMishap \in BOOLEAN

VARIABLES
  time,              \* 0 before departure, 1 from then on
  trip,              \* the trip's row
  bk,                \* bookings: status, passengerPresenceConfirmedAt
  seat,              \* booking_seats: what passenger and driver said
  billed,            \* bookings in the commission, once it is posted
  startJob, endJob,  \* trip-auto-start and trip-auto-complete
  h,                 \* handlers in flight
  mishap, marks, faults

rows == <<trip, bk, seat, billed>>
jobs == <<startJob, endJob>>
vars == <<time, rows, jobs, h, mishap, marks, faults>>

\* "on my way", which changes nothing else, is left out.
Said == {"none", "in_vehicle", "not_riding"}
JobState == {"none", "waiting", "active", "failed"}

\* flagged: presenceReviewFlagged; settled: presenceSettledAt; stamped:
\* driverWalletChargeApplied.
TripRow == [st : {"published", "in_progress", "completed", "cancelled"},
            flagged : BOOLEAN, settled : BOOLEAN, stamped : BOOLEAN]
BookingRow == [st : {"pending", "confirmed", "in_progress", "completed", "no_show", "cancelled"},
               boarded : BOOLEAN]
\* mark: presenceConfirmedAt, markedAbsentAt; over: billableOverride.
SeatRow == [said : Said, mark : SUBSET {"present", "absent"}, over : {"none", "no", "yes"},
            disputed : BOOLEAN]

\* by: what it runs for; b, say: whose seat and the answer; at: its now;
\* S: bookings it has to save; trip, bk, seat: what it read; conflict: whether
\* the trip is to be flagged for review.
Idle == [pc |-> "idle", by |-> "none", b |-> Nothing, say |-> "none", at |-> 0, S |-> {},
         trip |-> Nothing, bk |-> Nothing, seat |-> Nothing, conflict |-> FALSE]

Copy(table, S) == [b \in S |-> table[b]]
WithStatus(st) == {b \in Booking : bk[b].st = st}

Init ==
  /\ time = 0
  /\ trip = [st |-> "published", flagged |-> FALSE, settled |-> FALSE, stamped |-> FALSE]
  /\ bk \in [Booking -> {[st |-> s, boarded |-> FALSE] : s \in {"pending", "confirmed"}}]
  /\ seat = [b \in Booking |-> [said |-> "none", mark |-> {}, over |-> "none", disputed |-> FALSE]]
  /\ billed = Nothing
  /\ startJob = "waiting" /\ endJob = "none"
  /\ h = [w \in Handler |-> Idle]
  /\ mishap = FALSE /\ marks = MaxMarks /\ faults = MaxFaults

-----------------------------------------------------------------------------
(* Steps of a handler *)

Begin(w, by, rec) == h[w].pc = "idle" /\ h' = [h EXCEPT ![w] = [rec EXCEPT !.by = by]]
At(w, pc) == h[w].pc = pc
Go(w, pc) == h' = [h EXCEPT ![w].pc = pc]

\* A job that is done is removed.
Finish(w) ==
  /\ h' = [h EXCEPT ![w] = Idle]
  /\ startJob' = IF h[w].by = "departure" THEN "none" ELSE startJob
  /\ endJob' = IF h[w].by = "deadline" THEN "none" ELSE endJob

Note(broken) == mishap' = (mishap \/ broken)

\* save(trip), save(booking), save(seat): the copy, with what was changed in it.
SaveTrip(w, row) == trip' = row /\ Note(h[w].trip # trip)
SaveBooking(w, b, row) == bk' = [bk EXCEPT ![b] = row] /\ Note(h[w].bk[b] # bk[b])
SaveSeat(w, b, row) == seat' = [seat EXCEPT ![b] = row] /\ Note(h[w].seat[b] # seat[b])

-----------------------------------------------------------------------------
(* Starting *)

\* start: only the call that flips the status does the rest.
MayStart == trip.st = "published"

\* What the caller of start has left to do.
Onward(w) ==
  IF h[w].by = "passenger" /\ h[w].conflict
  THEN Go(w, "flag") /\ UNCHANGED jobs
  ELSE Finish(w)

Claim(w) ==
  /\ At(w, "claim")
  /\ \/ MayStart /\ trip' = [trip EXCEPT !.st = "in_progress"] /\ Go(w, "roster") /\ UNCHANGED jobs
     \/ ~MayStart /\ Onward(w) /\ UNCHANGED trip
  /\ UNCHANGED <<time, bk, seat, billed, mishap, marks, faults>>

ReadRoster(w) ==
  /\ At(w, "roster")
  /\ h' = [h EXCEPT ![w].pc = "board", ![w].S = WithStatus("confirmed")]
  /\ UNCHANGED <<time, rows, jobs, mishap, marks, faults>>

\* The bookings are updated by their ids.
Board(w) ==
  /\ At(w, "board")
  /\ bk' = [b \in Booking |-> IF b \in h[w].S THEN [bk[b] EXCEPT !.st = "in_progress"] ELSE bk[b]]
  /\ Note(trip.st # "in_progress" \/ \E b \in h[w].S : bk[b].st # "confirmed")
  /\ h' = [h EXCEPT ![w].pc = "schedule", ![w].S = {}]
  /\ UNCHANGED <<time, trip, seat, billed, jobs, marks, faults>>

\* Bull ignores a job whose id it has; a failure to add it is logged.
ScheduleAutoComplete(w) ==
  /\ At(w, "schedule")
  /\ h' = [h EXCEPT ![w] = IF @.by = "passenger" /\ @.conflict
                           THEN [@ EXCEPT !.pc = "flag"] ELSE Idle]
  /\ startJob' = IF h[w].by = "departure" THEN "none" ELSE startJob
  /\ \/ endJob' = (IF endJob = "none" THEN "waiting" ELSE endJob) /\ UNCHANGED faults
     \/ faults > 0 /\ faults' = faults - 1 /\ UNCHANGED endJob
  /\ UNCHANGED <<time, rows, mishap, marks>>

\* Slip: the departure asks, and starts nothing.
AboardNobody == FALSE

Aboard == \E b \in WithStatus("confirmed") : bk[b].boarded

\* onDeparture, run by the start job: starts the trip if somebody is in the
\* car, calls it off if nobody is confirmed, and asks them otherwise.
OnDeparture(w) ==
  /\ startJob = "waiting" /\ time > 0 /\ h[w].pc = "idle"
  /\ LET pc == CASE trip.st = "in_progress" -> "schedule"
                 [] trip.st = "published" /\ WithStatus("confirmed") = {} -> "empty"
                 [] trip.st = "published" /\ Aboard -> "claim"
                 [] OTHER -> "idle"   \* it is over, or askToBoard asks
     IN  IF pc = "idle" THEN startJob' = "none" /\ UNCHANGED h
         ELSE startJob' = "active" /\ Begin(w, "departure", [Idle EXCEPT !.pc = pc])
  /\ UNCHANGED <<time, rows, endJob, mishap, marks, faults>>

\* cancelEmpty claims the trip, then closes the requests still unanswered.
CancelEmpty(w) ==
  /\ At(w, "empty")
  /\ \/ MayStart /\ trip' = [trip EXCEPT !.st = "cancelled"] /\ Go(w, "close") /\ UNCHANGED jobs
     \/ ~MayStart /\ Finish(w) /\ UNCHANGED trip
  /\ UNCHANGED <<time, bk, seat, billed, mishap, marks, faults>>

FindPending(w) ==
  /\ At(w, "close")
  /\ h' = [h EXCEPT ![w].pc = "closing", ![w].S = WithStatus("pending")]
  /\ UNCHANGED <<time, rows, jobs, mishap, marks, faults>>

ClosePending(w) ==
  /\ At(w, "closing")
  /\ bk' = [b \in Booking |-> IF b \in h[w].S THEN [bk[b] EXCEPT !.st = "cancelled"] ELSE bk[b]]
  /\ Note(\E b \in h[w].S : bk[b].st # "pending")
  /\ Finish(w)
  /\ UNCHANGED <<time, trip, seat, billed, marks, faults>>

\* startByDriver, from half an hour ahead, with a confirmed passenger.
StartByDriver(w) ==
  /\ trip.st = "published" /\ WithStatus("confirmed") # {}
  /\ Begin(w, "call", [Idle EXCEPT !.pc = "claim"])
  /\ UNCHANGED <<time, rows, jobs, mishap, marks, faults>>

\* onPassengerBoarded starts a trip past its departure.
OnPassengerBoarded(w) ==
  /\ At(w, "boarded")
  /\ IF trip.st = "published" /\ h[w].at > 0 THEN Go(w, "claim") /\ UNCHANGED jobs ELSE Onward(w)
  /\ UNCHANGED <<time, rows, mishap, marks, faults>>

-----------------------------------------------------------------------------
(* Who is in the car *)

\* Slip: the driver's word stands, whatever the passenger said.
DriverDecidesAlone(s, present) ==
  IF present THEN [s EXCEPT !.mark = {"present"}, !.over = "none"]
  ELSE [s EXCEPT !.mark = {"absent"}, !.over = "no"]

\* applyDriverDecision
DriverDecision(s, present) ==
  IF present THEN [s EXCEPT !.mark = {"present"}, !.over = "none"]
  ELSE IF s.said = "in_vehicle"
  THEN [s EXCEPT !.mark = {"absent"}, !.over = "yes", !.disputed = TRUE]
  ELSE [s EXCEPT !.mark = {"absent"}, !.over = "no"]

CanDeclareSeat(was) == was = "none"   \* both answers are final

\* passengerDeclare's answer to what the driver said before.
Declared(s, say) ==
  IF say = "in_vehicle"
  THEN IF s.over = "no" THEN [s EXCEPT !.said = say, !.over = "yes", !.disputed = TRUE]
       ELSE [s EXCEPT !.said = say]
  ELSE IF say = "not_riding" /\ "present" \notin s.mark
  THEN [s EXCEPT !.said = say, !.over = "no"]
  ELSE [s EXCEPT !.said = say]

\* passengerDeclare reads the booking, its trip and its seats.  A repeated
\* answer changes nothing, but does start the trip.
PassengerDeclare(w, b, say) ==
  /\ ~trip.settled
  /\ LET conflict == say = "in_vehicle" /\ seat[b].over = "no"
     IN  \/ /\ CanDeclareSeat(seat[b].said)
            /\ Begin(w, "passenger",
                 [Idle EXCEPT !.pc = "seat", !.b = b, !.say = say,
                              !.at = IF say = "in_vehicle" THEN time ELSE 0,
                              !.trip = IF conflict THEN trip ELSE Nothing,
                              !.bk = Copy(bk, {b}), !.seat = Copy(seat, {b}),
                              !.conflict = conflict])
         \/ /\ seat[b].said = say /\ say = "in_vehicle"
            /\ Begin(w, "call", [Idle EXCEPT !.pc = "boarded", !.at = time])
  /\ UNCHANGED <<time, rows, jobs, mishap, marks, faults>>

\* driverConfirm reads the trip, the booking and its seats.
DriverConfirm(w, b, present) ==
  /\ ~trip.settled /\ marks > 0 /\ marks' = marks - 1
  /\ LET conflict == DriverDecision(seat[b], present).disputed
     IN  Begin(w, "vouch",
           [Idle EXCEPT !.pc = "seat", !.b = b, !.say = IF present THEN "present" ELSE "absent",
                        !.at = IF present THEN time ELSE 0,
                        !.trip = IF conflict THEN trip ELSE Nothing,
                        !.seat = Copy(seat, {b}), !.conflict = conflict])
  /\ UNCHANGED <<time, rows, jobs, mishap, faults>>

\* The older confirmations of bookings, which know of no dispute.
ConfirmBooking(w, b, by, say) ==
  /\ bk[b].st \in {"confirmed", "in_progress"}
  /\ \/ by = "legacy_passenger" /\ say = "present"
     \/ by = "legacy_driver" /\ say \in {"present", "absent"}
  /\ marks > 0 /\ marks' = marks - 1
  /\ Begin(w, by, [Idle EXCEPT !.pc = IF by = "legacy_driver" THEN "seat" ELSE "synced",
                               !.b = b, !.say = say, !.bk = Copy(bk, {b}),
                               !.seat = IF by = "legacy_driver" THEN Copy(seat, {b}) ELSE Nothing])
  /\ UNCHANGED <<time, rows, jobs, mishap, faults>>

SeatAfter(w) ==
  LET s == h[w].seat[h[w].b]
  IN  CASE h[w].by = "passenger" -> Declared(s, h[w].say)
        [] h[w].by = "vouch" -> DriverDecision(s, h[w].say = "present")
        [] h[w].by = "legacy_driver" -> [s EXCEPT !.mark = @ \cup {h[w].say}]

SaveTheSeat(w) ==
  /\ At(w, "seat")
  /\ SaveSeat(w, h[w].b, SeatAfter(w))
  /\ h' = [h EXCEPT ![w].pc = IF @ = "seat" /\ h[w].by = "vouch" THEN "sync" ELSE "synced",
                    ![w].seat = Nothing]
  /\ UNCHANGED <<time, trip, bk, billed, jobs, marks, faults>>

\* syncBookingLevelFlags reads the bookings again ...
Sync(w) ==
  /\ At(w, "sync")
  /\ h' = [h EXCEPT ![w].pc = "synced", ![w].bk = Copy(bk, {h[w].b})]
  /\ UNCHANGED <<time, rows, jobs, mishap, marks, faults>>

\* ... and everybody saves the booking.  A declaration in the car then tells
\* the trip; the driver's flags a conflict first.
SaveTheBooking(w) ==
  LET b == h[w].b
      next == CASE h[w].by = "vouch" /\ h[w].conflict -> "flag"
                [] h[w].by = "vouch" /\ ~h[w].conflict /\ h[w].say = "present" -> "boarded"
                [] h[w].by = "passenger" /\ h[w].say = "in_vehicle" -> "boarded"
                [] OTHER -> "idle"
  IN  /\ At(w, "synced")
      /\ SaveBooking(w, b,
           CASE h[w].by = "passenger" -> [h[w].bk[b] EXCEPT !.boarded = h[w].say = "in_vehicle"]
             [] h[w].by = "legacy_passenger" -> [h[w].bk[b] EXCEPT !.boarded = TRUE]
             [] OTHER -> h[w].bk[b])
      /\ h' = [h EXCEPT ![w] =
                 CASE next = "idle" -> Idle
                   [] next = "boarded" /\ ~@.conflict ->
                        [Idle EXCEPT !.pc = next, !.by = "call", !.at = h[w].at]
                   [] OTHER -> [@ EXCEPT !.pc = next, !.bk = Nothing]]
      /\ UNCHANGED <<time, trip, seat, billed, jobs, marks, faults>>

\* Slip: a conflict the passenger raises is not routed to the admins.
FlagByDriver(w) == [h[w].trip EXCEPT !.flagged = h[w].by = "vouch"]

Flagged(w) == [h[w].trip EXCEPT !.flagged = TRUE]

\* The trip is saved as it was read, before the start it may have led to.
FlagForReview(w) ==
  /\ At(w, "flag")
  /\ SaveTrip(w, Flagged(w))
  /\ h' = [h EXCEPT ![w] = IF @.by = "vouch" /\ @.say = "present"
                           THEN [Idle EXCEPT !.pc = "boarded", !.by = "call", !.at = h[w].at]
                           ELSE Idle]
  /\ UNCHANGED <<time, bk, seat, billed, jobs, marks, faults>>

-----------------------------------------------------------------------------
(* Completion *)

\* completeTrip, by the driver, with the seats that did not show up.
CompleteTrip(w, absent) ==
  /\ trip.st = "in_progress"
  /\ Begin(w, "arrive", [Idle EXCEPT !.pc = "complete", !.trip = trip, !.S = absent])
  /\ UNCHANGED <<time, rows, jobs, mishap, marks, faults>>

\* The end job completes a trip under way ...
HandleAutoComplete(w) ==
  /\ endJob = "waiting" /\ time > 0 /\ trip.st = "in_progress"
  /\ endJob' = "active"
  /\ Begin(w, "deadline", [Idle EXCEPT !.pc = "complete", !.trip = trip])
  /\ UNCHANGED <<time, rows, startJob, mishap, marks, faults>>

\* ... and leaves one alone that is over, or stillDriving before its last call.
LeaveOpen(w) ==
  /\ endJob = "waiting" /\ time > 0 /\ h[w].pc = "idle" /\ endJob' = "none"
  /\ UNCHANGED <<time, rows, startJob, h, mishap, marks, faults>>

SaveCompleted(w) ==
  /\ At(w, "complete")
  /\ SaveTrip(w, [h[w].trip EXCEPT !.st = "completed"])
  /\ h' = [h EXCEPT ![w].pc = "noshow", ![w].trip = Nothing]
  /\ UNCHANGED <<time, bk, seat, billed, jobs, marks, faults>>

\* Each booking named absent is read and saved at once ...
NoShow(w) ==
  /\ At(w, "noshow")
  /\ \E b \in h[w].S :
       /\ seat' = [seat EXCEPT ![b].mark = @ \cup {"absent"}]
       /\ bk' = [bk EXCEPT ![b].st = "no_show"]
       /\ h' = [h EXCEPT ![w].S = @ \ {b}]
  /\ UNCHANGED <<time, trip, billed, jobs, mishap, marks, faults>>

HasBoarded(row, s) == row.boarded \/ s.said = "in_vehicle" \/ "present" \in s.mark

\* Slip: who did not ride is left as it was.
CompletedRiders(b) ==
  [bk[b] EXCEPT !.st = IF HasBoarded(bk[b], seat[b]) THEN "completed" ELSE @]

\* Only those who rode completed the trip.
Completed(b) ==
  [bk[b] EXCEPT !.st = IF HasBoarded(bk[b], seat[b]) THEN "completed" ELSE "no_show"]

\* ... then the bookings under way are read with their seats ...
FindActive(w) ==
  /\ At(w, "noshow") /\ h[w].S = {}
  /\ LET S == WithStatus("in_progress")
     IN  h' = [h EXCEPT ![w].pc = "each", ![w].S = S, ![w].bk = [b \in S |-> Completed(b)]]
  /\ UNCHANGED <<time, rows, jobs, mishap, marks, faults>>

\* ... and saved one by one.
CompleteEach(w) ==
  /\ At(w, "each")
  /\ \E b \in h[w].S :
       /\ bk' = [bk EXCEPT ![b] = h[w].bk[b]]
       /\ Note(bk[b] # [h[w].bk[b] EXCEPT !.st = "in_progress"])
       /\ h' = [h EXCEPT ![w].S = @ \ {b}, ![w].bk = [x \in h[w].S \ {b} |-> @[x]]]
  /\ UNCHANGED <<time, trip, seat, billed, jobs, marks, faults>>

CountsForCommission(b) == seat[b].said = "in_vehicle" /\ seat[b].over # "no"

Riders == {b \in WithStatus("completed") : CountsForCommission(b)}

\* chargeCompletedTripCommission: one transaction; the posting has a key.
Charge ==
  IF trip.st = "completed" /\ ~trip.stamped
  THEN /\ billed' = IF billed = Nothing THEN Riders ELSE billed
       /\ trip' = [trip EXCEPT !.stamped = TRUE]
  ELSE UNCHANGED <<trip, billed>>

\* openForTrip starts with the charge; the fares it opens are RideFare's.
OpenForTrip(w) ==
  /\ At(w, "each") /\ h[w].S = {}
  /\ Charge
  /\ Go(w, "settle")
  /\ UNCHANGED <<time, bk, seat, jobs, mishap, marks, faults>>

\* The driver's arrival goes on without the charge; the job fails with it.
ChargeFails(w) ==
  /\ At(w, "each") /\ h[w].S = {} /\ h[w].by = "arrive"
  /\ faults > 0 /\ faults' = faults - 1
  /\ Go(w, "settle")
  /\ UNCHANGED <<time, rows, jobs, mishap, marks>>

\* settleTripPresence reads the trip, and saves it unless it is settled.
ReadToSettle(w) ==
  /\ At(w, "settle")
  /\ h' = [h EXCEPT ![w].pc = IF trip.settled THEN "jobs" ELSE "settled",
                    ![w].trip = IF trip.settled THEN Nothing ELSE trip]
  /\ UNCHANGED <<time, rows, jobs, mishap, marks, faults>>

SettlePresence(w) ==
  LET billable == {b \in Booking : bk[b].st \in {"confirmed", "in_progress", "completed"}}
      none == billable # {} /\ \A b \in billable : ~CountsForCommission(b)
  IN  /\ At(w, "settled")
      /\ SaveTrip(w, [h[w].trip EXCEPT !.settled = TRUE, !.flagged = @ \/ none])
      /\ h' = [h EXCEPT ![w].pc = "jobs", ![w].trip = Nothing]
      /\ UNCHANGED <<time, bk, seat, billed, jobs, marks, faults>>

\* cancelTripLifecycleJobs, after the driver's arrival: a job that runs cannot
\* be removed.
RemoveJobs(w) ==
  /\ At(w, "jobs")
  /\ h' = [h EXCEPT ![w] = Idle]
  /\ IF h[w].by = "arrive"
     THEN /\ startJob' = IF startJob = "active" THEN startJob ELSE "none"
          /\ endJob' = IF endJob = "active" THEN endJob ELSE "none"
     ELSE endJob' = "none" /\ UNCHANGED startJob
  /\ UNCHANGED <<time, rows, mishap, marks, faults>>

\* reconcileUnchargedTrips charges a completed trip without a stamp.
Reconcile ==
  /\ trip.st = "completed" /\ ~trip.stamped /\ time > 0
  /\ Charge
  /\ UNCHANGED <<time, bk, seat, jobs, h, mishap, marks, faults>>

-----------------------------------------------------------------------------
(* Requests answered at the last minute *)

\* accept reads the booking, and saves it.
Accept(w, b) ==
  /\ bk[b].st = "pending"
  /\ Begin(w, "accept", [Idle EXCEPT !.pc = "accept", !.b = b, !.bk = Copy(bk, {b})])
  /\ UNCHANGED <<time, rows, jobs, mishap, marks, faults>>

SaveAccepted(w) ==
  /\ At(w, "accept")
  /\ SaveBooking(w, h[w].b, [h[w].bk[h[w].b] EXCEPT !.st = "confirmed"])
  /\ h' = [h EXCEPT ![w] = Idle]
  /\ UNCHANGED <<time, trip, seat, billed, jobs, marks, faults>>

-----------------------------------------------------------------------------
(* The clock, the sweep and failures *)

Tick ==
  /\ time = 0 /\ time' = 1
  /\ UNCHANGED <<rows, jobs, h, mishap, marks, faults>>

\* Slip: a job that failed counts as one that is still there.
OverdueIfMissing(job) == job = "none"

\* ensureJob leaves a job alone that waits or runs.
Overdue(job) == job \in {"none", "failed"}

Sweep ==
  /\ time > 0
  /\ \/ trip.st = "published" /\ Overdue(startJob) /\ startJob' = "waiting" /\ UNCHANGED endJob
     \/ trip.st = "in_progress" /\ Overdue(endJob) /\ endJob' = "waiting" /\ UNCHANGED startJob
  /\ UNCHANGED <<time, rows, h, mishap, marks, faults>>

\* The queue loses a job, or a job was never added.
LoseJob ==
  /\ faults > 0 /\ faults' = faults - 1
  /\ \/ startJob = "waiting" /\ startJob' = "none" /\ UNCHANGED endJob
     \/ endJob = "waiting" /\ endJob' = "none" /\ UNCHANGED startJob
  /\ UNCHANGED <<time, rows, h, mishap, marks>>

\* An await throws or the process dies.  A job of two attempts waits for the
\* second, or has failed for good.
Abort(w) ==
  /\ h[w].pc # "idle" /\ faults > 0 /\ faults' = faults - 1
  /\ h' = [h EXCEPT ![w] = Idle]
  /\ IF h[w].by = "departure" THEN startJob' \in {"waiting", "failed"} ELSE UNCHANGED startJob
  /\ IF h[w].by = "deadline" THEN endJob' \in {"waiting", "failed"} ELSE UNCHANGED endJob
  /\ UNCHANGED <<time, rows, mishap, marks>>

-----------------------------------------------------------------------------
HandlerStep(w) ==
  \/ Claim(w) \/ ReadRoster(w) \/ Board(w) \/ ScheduleAutoComplete(w)
  \/ CancelEmpty(w) \/ FindPending(w) \/ ClosePending(w) \/ OnPassengerBoarded(w)
  \/ SaveTheSeat(w) \/ Sync(w) \/ SaveTheBooking(w) \/ FlagForReview(w)
  \/ SaveCompleted(w) \/ NoShow(w) \/ FindActive(w) \/ CompleteEach(w) \/ OpenForTrip(w)
  \/ ReadToSettle(w) \/ SettlePresence(w) \/ RemoveJobs(w) \/ SaveAccepted(w)

Departure == \E w \in Handler : OnDeparture(w)
Deadline == \E w \in Handler : HandleAutoComplete(w)

Speak(w, b) ==
  \/ \E say \in Said \ {"none"} : PassengerDeclare(w, b, say)
  \/ \E present \in BOOLEAN : DriverConfirm(w, b, present)
  \/ \E by \in {"legacy_passenger", "legacy_driver"}, say \in {"present", "absent"} :
       ConfirmBooking(w, b, by, say)
  \/ Accept(w, b)

Drive(w) ==
  StartByDriver(w) \/ \E absent \in SUBSET Booking : CompleteTrip(w, absent)

Next ==
  /\ mishap => AfterMishap
  /\ \/ \E w \in Handler : \/ HandlerStep(w) \/ ChargeFails(w) \/ Abort(w) \/ Drive(w)
                           \/ LeaveOpen(w) \/ \E b \in Booking : Speak(w, b)
     \/ Departure \/ Deadline \/ Reconcile \/ Tick \/ Sweep \/ LoseJob

Spec == Init /\ [][Next]_vars

\* Handlers go on; the clock and the sweep do; a job gets its turn, and the end
\* job of a trip that is past its last call is not turned away.
FairSpec == Spec /\ \A w \in Handler : WF_vars(HandlerStep(w))
                 /\ WF_vars(Tick) /\ WF_vars(Sweep) /\ SF_vars(Departure) /\ SF_vars(Deadline)

-----------------------------------------------------------------------------
(* Properties *)

\* Every value stays in its type.
TypeOK ==
  /\ time \in 0..1 /\ trip \in TripRow /\ bk \in [Booking -> BookingRow]
  /\ seat \in [Booking -> SeatRow] /\ billed \in (SUBSET Booking) \cup {Nothing}
  /\ startJob \in JobState /\ endJob \in JobState
  /\ mishap \in BOOLEAN /\ marks \in 0..MaxMarks /\ faults \in 0..MaxFaults
  /\ \A w \in Handler : h[w].S \in SUBSET Booking /\ h[w].trip \in TripRow \cup {Nothing}

\* "Absence only sticks when the passenger has not already vouched for
\* themselves": a seat whose passenger said to be in it is never left unbilled,
\* whichever of the two answered first, and a contradiction is on record.
WordAgainstWord ==
  ~mishap => \A b \in Booking : /\ seat[b].said = "in_vehicle" => seat[b].over # "no"
                                /\ seat[b].over = "yes" => seat[b].disputed

\* A dispute is in front of the admins, or whoever raised it is getting there.
DisputeIsFlagged ==
  ~mishap /\ faults = MaxFaults =>
    \A b \in Booking : seat[b].disputed =>
      trip.flagged \/ \E w \in Handler : h[w].conflict

\* Who is about to move bookings of the trip under way, or out of it.
Finishing(w) == h[w].pc \in {"roster", "board", "noshow", "each"}

\* A trip that is over has nobody under way: every passenger it set out with has
\* completed the trip, or is a no-show.
NobodyLeftBehind ==
  ~mishap /\ faults = MaxFaults /\ trip.st = "completed" =>
    WithStatus("in_progress") = {} \/ \E w \in Handler : Finishing(w)

\* Nobody rides in a trip that does not: a booking is under way only while its
\* trip is, or while somebody completes it.
NobodyRidesAlone ==
  ~mishap => (trip.st \in {"published", "cancelled"} => WithStatus("in_progress") = {})

\* Bookings and trip keep together, however start, arrival and end job cross.
BookingsFollowTrip == NobodyLeftBehind /\ NobodyRidesAlone

\* A trip under way comes to its end, though its jobs fail or get lost.
TripEnds == trip.st = "in_progress" ~> trip.st # "in_progress" \/ mishap

\* Past departure a trip with a rider on board sets out, though its job fails
\* or gets lost.
RiderSetsOut ==
  (time = 1 /\ trip.st = "published" /\ \E b \in WithStatus("confirmed") : bk[b].boarded)
    ~> trip.st # "published" \/ mishap

\* A trip that was called off has nobody in the car.
CancelledCarriesNobody ==
  trip.st = "cancelled" =>
    \A b \in WithStatus("in_progress") : ~HasBoarded(bk[b], seat[b])

=============================================================================
