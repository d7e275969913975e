----------------------------- MODULE SeatBooking ------------------------------
(***************************************************************************)
(* The seats of one shared trip and the bookings that take them.  The      *)
(* seats are a JSON column of the trip's row, next to their count and the  *)
(* trip's status: whoever changes one of them reads the row and saves it.  *)
(* Only createMultiSeat does so under the row's lock; a save writes every  *)
(* column that differs from the row as it is by then.                      *)
(*                                                                         *)
(* A handler is a record in h.  One step is one call of the database or of *)
(* the queue; a locked transaction is one step.  mishap notes that the     *)
(* promise on the seats may be broken: a save over a row or a booking that *)
(* changed since it was read, the release of a booking that was over, a    *)
(* trip that was put back on sale.                                         *)
(***************************************************************************)
EXTENDS Naturals, FiniteSets

CONSTANTS Seat, Booking,  \* the seats of the trip; rows of bookings
          Handler,        \* the handlers that may be in flight at once
          MaxEdits,       \* edits, seat locks and status changes by the driver
          MaxFaults,      \* awaits that throw, processes that die
          Attempts,       \* runs of an expiry that may throw: 3 in the code
          MaxStalled,     \* runs whose worker dies that are made up for: Bull's 1
          Free, Locked, Nothing

ASSUME SeatAssumption == /\ IsFiniteSet(Seat) /\ MaxEdits \in Nat /\ MaxFaults \in Nat
                         /\ Attempts \in Nat \ {0} /\ MaxStalled \in Nat
                         /\ {Free, Locked, Nothing} \cap Booking = {}
                         /\ Free # Locked

VARIABLES
  seat, left, status,  \* trips: seats, availableSeats, status
  st, seats,           \* bookings: status; booking_seats
  timer,               \* jobs of the bookings-timeout queue
  h,                   \* handlers in flight
  thrown, died,        \* jobs: runs that threw, runs whose worker died
  stuck,               \* bookings of which a seat could not be released
  mishap, edits, faults

row == <<seat, left, status>>
failures == <<thrown, died, stuck, faults>>
vars == <<row, st, seats, timer, h, mishap, edits, failures>>

Live == {"pending", "confirmed", "in_progress"}
BookingStatus == Live \cup {"none", "cancelled", "rejected"}
TripStatus == {"published", "hidden", "in_progress", "cancelled"}

\* b, S: its booking and the seats it still has to take or release; to: the
\* status it is about to save; by: who asked; trip, was: what it read.
Idle == [pc |-> "idle", b |-> Nothing, S |-> {}, to |-> "none", by |-> "none",
         trip |-> Nothing, was |-> Nothing]

Trip == [seat |-> seat, left |-> left, status |-> status]

Init ==
  /\ seat = [s \in Seat |-> Free] /\ left = Cardinality(Seat) /\ status = "published"
  /\ st = [b \in Booking |-> "none"] /\ seats = [b \in Booking |-> {}]
  /\ timer = [b \in Booking |-> "none"]
  /\ h = [w \in Handler |-> Idle]
  /\ thrown = [b \in Booking |-> 0] /\ died = [b \in Booking |-> 0] /\ stuck = {}
  /\ mishap = FALSE /\ edits = MaxEdits /\ faults = MaxFaults

-----------------------------------------------------------------------------
(* Reading and saving *)

Begin(w, rec) == h[w] = Idle /\ h' = [h EXCEPT ![w] = rec]
Done(w) == h' = [h EXCEPT ![w] = Idle]

Note(broken) == mishap' = (mishap \/ broken)

\* save(trip): the row as it was read, with what the handler changed.
SaveTrip(w, s, n, to) ==
  /\ seat' = s /\ left' = n /\ status' = to
  /\ Note(h[w].trip # Trip)

\* save(booking) or update by ids, over whatever its status is by now.
SaveBookings(w, B, to) ==
  /\ st' = [b \in Booking |-> IF b \in B THEN to ELSE st[b]]
  /\ Note(\E b \in B : h[w].was[b] # st[b])

Minus(m, n) == IF m < n THEN 0 ELSE m - n

-----------------------------------------------------------------------------
(* Booking seats *)

\* createMultiSeat finds the trip on sale and the seats available ...
CreateMultiSeat(w, b, S) ==
  /\ st[b] = "none" /\ status = "published"
  /\ \A v \in Handler : h[v].pc = "book" => h[v].b # b
  /\ S # {} /\ \A s \in S : seat[s] = Free
  /\ Begin(w, [Idle EXCEPT !.pc = "book", !.b = b, !.S = S])
  /\ UNCHANGED <<row, st, seats, timer, mishap, edits, failures>>

\* Slip: what was read before the transaction is taken for granted.
MayTakeAsRead(S) == TRUE

\* ... and looks at the seats again once it holds the row's lock.
MayTake(S) == \A s \in S : seat[s] = Free

Book(w) ==
  LET S == h[w].S
      b == h[w].b
  IN  /\ h[w].pc = "book"
      /\ \/ /\ MayTake(S)
            /\ seat' = [s \in Seat |-> IF s \in S THEN b ELSE seat[s]]
            /\ left' = Minus(left, Cardinality(S))
            /\ st' = [st EXCEPT ![b] = "pending"]
            /\ seats' = [seats EXCEPT ![b] = S]
            /\ h' = [h EXCEPT ![w] = [Idle EXCEPT !.pc = "enqueue", !.b = b]]
         \/ ~MayTake(S) /\ Done(w) /\ UNCHANGED <<seat, left, st, seats>>
      /\ UNCHANGED <<status, timer, mishap, edits, failures>>

\* The expiry is queued behind the answer.
EnqueueExpiry(w) ==
  /\ h[w].pc = "enqueue"
  /\ timer' = [timer EXCEPT ![h[w].b] = "waiting"]
  /\ Done(w)
  /\ UNCHANGED <<row, st, seats, mishap, edits, failures>>

-----------------------------------------------------------------------------
(* Deciding on a booking *)

Deciding(b, to, by) == [Idle EXCEPT !.pc = "decide", !.b = b, !.to = to, !.by = by,
                                    !.was = [x \in {b} |-> st[x]]]

Accept(w, b) ==   \* confirm is an older accept, which leaves the job alone
  /\ st[b] = "pending"
  /\ \E by \in {"accept", "confirm"} : Begin(w, Deciding(b, "confirmed", by))
  /\ UNCHANGED <<row, st, seats, timer, mishap, edits, failures>>

Reject(w, b) ==
  /\ st[b] = "pending"
  /\ Begin(w, Deciding(b, "rejected", "reject"))
  /\ UNCHANGED <<row, st, seats, timer, mishap, edits, failures>>

\* Its passenger, its driver (24 hours ahead) or an admin: whatever is neither
\* cancelled nor completed, a rejected booking included.
Cancel(w, b) ==
  /\ st[b] \notin {"none", "cancelled"}
  /\ Begin(w, Deciding(b, "cancelled", "cancel"))
  /\ UNCHANGED <<row, st, seats, timer, mishap, edits, failures>>

\* handleExpire: a job that finds its booking decided has nothing to do.
HandleExpire(w, b) ==
  /\ timer[b] = "waiting"
  /\ IF st[b] = "pending"
     THEN Begin(w, Deciding(b, "cancelled", "job")) /\ timer' = [timer EXCEPT ![b] = "active"]
     ELSE timer' = [timer EXCEPT ![b] = "none"] /\ UNCHANGED h
  /\ UNCHANGED <<row, st, seats, mishap, edits, failures>>

\* Slip: only one seat of the booking is given back.
OneOf(b, to) ==
  IF to = "confirmed" \/ seats[b] = {} THEN {} ELSE {CHOOSE s \in seats[b] : TRUE}

\* Slip: whatever is decided, the seats are given back.
SeatsOfAny(b, to) == seats[b]

SeatsToRelease(b, to) == IF to = "confirmed" THEN {} ELSE seats[b]

Decide(w) ==
  LET b == h[w].b
      to == h[w].to
  IN  /\ h[w].pc = "decide"
      /\ st' = [st EXCEPT ![b] = to]
      /\ h' = [h EXCEPT ![w] =
                 [Idle EXCEPT !.pc = "release", !.b = b, !.by = h[w].by,
                              !.S = SeatsToRelease(b, to)]]
      /\ Note(st[b] # h[w].was[b] \/ st[b] = "rejected")
      /\ UNCHANGED <<row, seats, timer, edits, failures>>

\* releaseSeat reads the trip ...
ReadTrip(w) ==
  /\ h[w].pc = "release" /\ h[w].S # {} /\ h[w].trip = Nothing
  /\ h' = [h EXCEPT ![w].trip = Trip]
  /\ UNCHANGED <<row, st, seats, timer, mishap, edits, failures>>

\* Slip: the count of free seats is left as it was.
CountKept(w) == h[w].trip.left

CountAfter(w) == h[w].trip.left + 1

\* ... and saves it with the seat available, whoever is in it.
ReleaseSeat(w) ==
  /\ h[w].pc = "release" /\ h[w].trip # Nothing
  /\ \E s \in h[w].S :
       /\ SaveTrip(w, [h[w].trip.seat EXCEPT ![s] = Free], CountAfter(w), h[w].trip.status)
       /\ h' = [h EXCEPT ![w].S = @ \ {s}, ![w].trip = Nothing]
  /\ UNCHANGED <<st, seats, timer, edits, failures>>

\* An answer removes the job, unless it is running; a job ends with its run.
Settle(w) ==
  LET b == h[w].b
  IN  /\ h[w].pc = "release" /\ h[w].S = {}
      /\ Done(w)
      /\ timer' = IF h[w].by = "job" \/ (h[w].by \in {"accept", "reject"} /\ timer[b] # "active")
                  THEN [timer EXCEPT ![b] = "none"] ELSE timer
      /\ UNCHANGED <<row, st, seats, mishap, edits, failures>>

-----------------------------------------------------------------------------
(* The driver's trip *)

\* setSeatLock, update, hide, show and cancel each read the trip.
OpenTrip(w, pc, s) ==
  /\ edits > 0 /\ edits' = edits - 1
  /\ Begin(w, [Idle EXCEPT !.pc = pc, !.S = {s}, !.trip = Trip])
  /\ \/ pc = "lock" /\ status = "published" /\ seat[s] = Free
     \/ pc = "unlock" /\ status = "published" /\ seat[s] = Locked
     \/ pc \in {"edit", "show"}
     \/ pc \in {"hide", "cancel"} /\ status \notin {"in_progress", "cancelled"}
     \/ pc = "cancel" /\ status = "cancelled"
  /\ UNCHANGED <<row, st, seats, timer, mishap, failures>>

SetSeatLock(w) ==
  LET t == h[w].trip
  IN  /\ \/ /\ h[w].pc = "lock"
            /\ \E s \in h[w].S :
                 SaveTrip(w, [t.seat EXCEPT ![s] = Locked], Minus(t.left, 1), t.status)
         \/ /\ h[w].pc = "unlock"
            /\ \E s \in h[w].S : SaveTrip(w, [t.seat EXCEPT ![s] = Free], t.left + 1, t.status)
      /\ Done(w)
      /\ UNCHANGED <<st, seats, timer, edits, failures>>

\* update saves other columns of the row it read, its seats with them.
Update(w) ==
  /\ h[w].pc = "edit"
  /\ SaveTrip(w, h[w].trip.seat, h[w].trip.left, h[w].trip.status)
  /\ Done(w)
  /\ UNCHANGED <<st, seats, timer, edits, failures>>

Hide(w) ==
  /\ h[w].pc = "hide"
  /\ SaveTrip(w, h[w].trip.seat, h[w].trip.left, "hidden")
  /\ Done(w)
  /\ UNCHANGED <<st, seats, timer, edits, failures>>

\* show does not ask what became of the trip.
Show(w) ==
  LET t == h[w].trip
  IN  /\ h[w].pc = "show"
      /\ seat' = t.seat /\ left' = t.left /\ status' = "published"
      /\ Note(t # Trip \/ status \in {"in_progress", "cancelled"})
      /\ Done(w)
      /\ UNCHANGED <<st, seats, timer, edits, failures>>

\* cancel saves the trip; cancelAllForTrip then reads the bookings ...
CancelTrip(w) ==
  /\ h[w].pc = "cancel"
  /\ SaveTrip(w, h[w].trip.seat, h[w].trip.left, "cancelled")
  /\ h' = [h EXCEPT ![w] = [Idle EXCEPT !.pc = "cancelAll"]]
  /\ UNCHANGED <<st, seats, timer, edits, failures>>

CancelAllForTrip(w) ==
  /\ h[w].pc = "cancelAll"
  /\ LET B == {b \in Booking : st[b] \notin {"none", "cancelled"}}
     IN  h' = [h EXCEPT ![w] = [Idle EXCEPT !.pc = "each", !.S = B, !.was = [b \in B |-> st[b]]]]
  /\ UNCHANGED <<row, st, seats, timer, mishap, edits, failures>>

\* ... and saves them one by one; their seats stay taken.
CancelEach(w) ==
  /\ h[w].pc = "each"
  /\ \/ \E b \in h[w].S : /\ SaveBookings(w, {b}, "cancelled")
                          /\ h' = [h EXCEPT ![w].S = @ \ {b}]
     \/ h[w].S = {} /\ Done(w) /\ UNCHANGED <<st, mishap>>
  /\ UNCHANGED <<row, seats, timer, edits, failures>>

\* start claims the trip by its status, then reads its confirmed bookings ...
Start(w) ==
  /\ status = "published" /\ \E b \in Booking : st[b] = "confirmed"
  /\ status' = "in_progress"
  /\ Begin(w, [Idle EXCEPT !.pc = "roster"])
  /\ UNCHANGED <<seat, left, st, seats, timer, mishap, edits, failures>>

ReadRoster(w) ==
  /\ h[w].pc = "roster"
  /\ LET B == {b \in Booking : st[b] = "confirmed"}
     IN  h' = [h EXCEPT ![w] = [Idle EXCEPT !.pc = "board", !.S = B, !.was = [b \in B |-> st[b]]]]
  /\ UNCHANGED <<row, st, seats, timer, mishap, edits, failures>>

\* ... and updates them by their ids.
Board(w) ==
  /\ h[w].pc = "board"
  /\ SaveBookings(w, h[w].S, "in_progress")
  /\ Done(w)
  /\ UNCHANGED <<row, seats, timer, edits, failures>>

-----------------------------------------------------------------------------
(* Failures *)

\* releaseSeat throws: its callers go on to the next seat.
ReleaseFails(w) ==
  /\ h[w].pc = "release" /\ faults > 0 /\ faults' = faults - 1
  /\ \E s \in h[w].S : h' = [h EXCEPT ![w].S = @ \ {s}, ![w].trip = Nothing]
  /\ stuck' = stuck \cup {h[w].b}
  /\ UNCHANGED <<row, st, seats, timer, thrown, died, mishap, edits>>

\* Slip: the job is queued without attempts, and Bull runs it once.
RunsOnce(b) == FALSE

MayThrowAgain(b) == thrown[b] + 1 < Attempts

\* Bull runs a job that threw again, until its attempts are used up ...
JobThrows(b) ==
  /\ thrown' = [thrown EXCEPT ![b] = @ + 1]
  /\ timer' = [timer EXCEPT ![b] = IF MayThrowAgain(b) THEN "waiting" ELSE "failed"]
  /\ UNCHANGED died

\* ... and one whose worker died, MaxStalled times.
WorkerDies(b) ==
  /\ died' = [died EXCEPT ![b] = @ + 1]
  /\ timer' = [timer EXCEPT ![b] = IF died[b] < MaxStalled THEN "waiting" ELSE "failed"]
  /\ UNCHANGED thrown

\* The handler's await throws, or its process dies.  A booking whose expiry
\* could not be queued is left without one; the seats a handler had still to
\* release stay taken, for the job is not run again on a booking that is over.
Abort(w) ==
  /\ h[w].pc # "idle" /\ faults > 0 /\ faults' = faults - 1
  /\ Done(w)
  /\ stuck' = IF h[w].pc = "release" /\ h[w].S # {} THEN stuck \cup {h[w].b} ELSE stuck
  /\ IF h[w].by = "job"
     THEN (h[w].pc = "decide" /\ JobThrows(h[w].b)) \/ WorkerDies(h[w].b)
     ELSE /\ timer' = IF h[w].pc = "enqueue" THEN [timer EXCEPT ![h[w].b] = "lost"] ELSE timer
          /\ UNCHANGED <<thrown, died>>
  /\ UNCHANGED <<row, st, seats, mishap, edits>>

-----------------------------------------------------------------------------
HandlerStep(w) ==
  \/ Book(w) \/ EnqueueExpiry(w) \/ Decide(w) \/ ReadTrip(w) \/ ReleaseSeat(w)
  \/ Settle(w) \/ SetSeatLock(w) \/ Update(w) \/ Hide(w) \/ Show(w)
  \/ CancelTrip(w) \/ CancelAllForTrip(w) \/ CancelEach(w) \/ ReadRoster(w) \/ Board(w)

Answer(w, b) == Accept(w, b) \/ Reject(w, b) \/ Cancel(w, b)
Drive(w) ==
  \/ Start(w)
  \/ \E pc \in {"lock", "unlock", "edit", "hide", "show", "cancel"}, s \in Seat : OpenTrip(w, pc, s)

Next ==
  /\ ~mishap   \* nothing is promised any more
  /\ \E w \in Handler :
       \/ \E b \in Booking : \/ \E S \in SUBSET Seat : CreateMultiSeat(w, b, S)
                             \/ Answer(w, b) \/ HandleExpire(w, b)
       \/ Drive(w) \/ HandlerStep(w) \/ ReleaseFails(w) \/ Abort(w)

Spec == Init /\ [][Next]_vars

-----------------------------------------------------------------------------
(* Properties *)

Holders(s) == {b \in Booking : st[b] \in Live /\ s \in seats[b]}

\* Every value stays in its type.
TypeOK ==
  /\ seat \in [Seat -> Booking \cup {Free, Locked}] /\ left \in Nat /\ status \in TripStatus
  /\ st \in [Booking -> BookingStatus] /\ seats \in [Booking -> SUBSET Seat]
  /\ timer \in [Booking -> {"none", "waiting", "active", "lost", "failed"}]
  /\ thrown \in [Booking -> Nat] /\ died \in [Booking -> Nat] /\ stuck \subseteq Booking
  /\ mishap \in BOOLEAN /\ edits \in 0..MaxEdits /\ faults \in 0..MaxFaults
  /\ \A w \in Handler : /\ h[w].b \in Booking \cup {Nothing}
                        /\ h[w].to \in BookingStatus
                        /\ h[w].S \in (SUBSET Seat) \cup (SUBSET Booking)

\* Nobody is sold a seat that somebody has, unless a mishap freed it.
SeatHasOneHolder ==
  ~mishap => \A s \in Seat : /\ Cardinality(Holders(s)) <= 1
                                  /\ Holders(s) # {} => seat[s] \in Holders(s)

\* The count that lists and auto-pick go by is that of the seats.
CountAgrees == ~mishap => left = Cardinality({s \in Seat : seat[s] = Free})

\* A seat is not kept for a booking that is over: somebody is about to release
\* it, unless a release of this very booking failed or the whole trip was cancelled.
TakenIsHeld ==
  ~mishap /\ status # "cancelled" =>
    \A s \in Seat : seat[s] \in Booking =>
      \/ st[seat[s]] \in Live \/ seat[s] \in stuck
      \/ \E w \in Handler : h[w].pc = "release" /\ h[w].b = seat[s] /\ s \in h[w].S

\* The expiry of b is queued, or is known not to be: it could not be queued, or
\* failed for good when its runs were used up.
UsedUp(b) == thrown[b] >= Attempts \/ died[b] > MaxStalled
Timed(b) == timer[b] \in {"waiting", "lost"} \/ (timer[b] = "failed" /\ UsedUp(b))

\* A request that waits for its driver has an expiry to end it, or somebody is
\* queueing it: failures of the job do not lose it before its runs are used up.
PendingIsTimed ==
  \A b \in Booking : st[b] = "pending" =>
    Timed(b) \/ \E w \in Handler : h[w].b = b /\ (h[w].pc = "enqueue" \/ h[w].by = "job")

\* Without a mishap the seats change hands as SeatPromise has it.
Promise == INSTANCE SeatPromise
KeepsPromise == [][~mishap' => Promise!Next]_seat
=============================================================================
