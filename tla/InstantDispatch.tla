--------------------------- MODULE InstantDispatch ---------------------------
(***************************************************************************)
(* The instant-ride ("order now") service: a passenger's request is        *)
(* offered to one driver after the other until somebody accepts, the       *)
(* window closes or the passenger withdraws; an accepted offer becomes a   *)
(* trip that can be cancelled until the passenger is in the car.           *)
(*                                                                         *)
(* The backend is a set of asynchronous handlers (HTTP calls and Bull      *)
(* jobs) over a Postgres database.  Everything a handler has read may be   *)
(* stale after the next await, so a handler is modelled as a record in h:  *)
(* its program counter and what it read.  One step is one statement that   *)
(* reads or writes the database; a transaction is one step.  Two awaits    *)
(* are merged only where no other step can tell them apart.                *)
(***************************************************************************)
EXTENDS Naturals, FiniteSets

CONSTANTS Passenger, Driver,
          Handler,        \* the handlers that may be in flight at once
          MaxRequests,    \* rows of instant_ride_requests
          MaxOffers,      \* rows of instant_ride_offers
          MaxToggles,     \* availability calls of the drivers
          MaxFaults,      \* awaits that throw, enqueues that fail
          Nobody

ASSUME DispatchAssumption == /\ MaxRequests \in Nat /\ MaxOffers \in Nat
                             /\ MaxToggles \in Nat /\ MaxFaults \in Nat
                             /\ Nobody \notin Driver \cup Passenger

Request == 1..MaxRequests   \* numbered in the order of createdAt
Offer   == 1..MaxOffers

VARIABLES
  status, owner, late, parent, ride,  \* instant_ride_requests
  ostat, oreq, odrv,                  \* instant_ride_offers
  trip, booking,                      \* the ride of an accepted offer
  online, lock,                       \* driver_availability
  jobs,                               \* delayed Bull jobs; a running one is in h
  h,                                  \* handlers in flight
  toggles, faults                     \* what is left of the bounds

requests == <<status, owner, late, parent, ride>>
offers   == <<ostat, oreq, odrv>>
rides    == <<trip, booking>>
drivers  == <<online, lock>>
budget   == <<toggles, faults>>
vars == <<requests, offers, rides, drivers, jobs, h, budget>>

Searching == {"searching", "offered"}
RequestStatus == Searching \cup {"unused", "accepted", "expired", "cancelled"}
(* "declined" is also TIMED_OUT: nothing tells the two apart. *)
OfferStatus == {"unused", "offered", "accepted", "declined", "cancelled"}
(* A trip that is "assigned" or "arrived" is IN_PROGRESS with tripStartedAt
   null (the driver heads to, or waits at, the pickup); "riding" is IN_PROGRESS
   with tripStartedAt set. *)
Waiting == {"assigned", "arrived"}
LiveTrip == Waiting \cup {"riding"}
TripStage == LiveTrip \cup {"none", "completed", "cancelled"}
BookingStatus == {"none", "confirmed", "completed", "cancelled"}

Pc == {"idle", "insert", "dispatch", "lock", "offer", "announce", "withdraw",
       "retract", "free", "close", "finalize", "answer", "reopen", "research",
       "save", "presence", "complete", "ridden", "settle"}

\* wave: it is the wave job of r, which Bull keeps, locked, until it returns.
Idle == [pc |-> "idle", r |-> 0, o |-> 0, d |-> Nobody, p |-> Nobody,
         cand |-> {}, to |-> "idle", wave |-> FALSE]

Init ==
  /\ status = [r \in Request |-> "unused"]
  /\ owner = [r \in Request |-> Nobody]
  /\ late = [r \in Request |-> FALSE]
  /\ parent = [r \in Request |-> 0]
  /\ ride = [r \in Request |-> 0]
  /\ ostat = [o \in Offer |-> "unused"]
  /\ oreq = [o \in Offer |-> 0]
  /\ odrv = [o \in Offer |-> Nobody]
  /\ trip = [o \in Offer |-> "none"]
  /\ booking = [o \in Offer |-> "none"]
  /\ online = [d \in Driver |-> TRUE]
  /\ lock = [d \in Driver |-> 0]
  /\ jobs = {}
  /\ h = [w \in Handler |-> Idle]
  /\ toggles = MaxToggles
  /\ faults = MaxFaults

-----------------------------------------------------------------------------
(* Handlers *)

\* Handler w is free and starts as rec.
Begin(w, rec) == /\ h[w] = Idle
                 /\ h' = [h EXCEPT ![w] = rec]

\* Handler w carries on as rec.
Goto(w, rec) == h' = [h EXCEPT ![w] = rec]

-----------------------------------------------------------------------------
(* Reads of the database *)

\* The trip of request r is over.
RideIsOver(r) == ride[r] # 0 /\ trip[ride[r]] \in {"completed", "cancelled"}

\* findLiveRequest: the newest live row of p, unless its ride is over.
LiveRows(p) ==
  {r \in Request : owner[r] = p /\ status[r] \in Searching \cup {"accepted"}}
LiveRequest(p) ==
  {r \in LiveRows(p) : /\ \A s \in LiveRows(p) : s <= r
                       /\ status[r] = "accepted" => ~RideIsOver(r)}

\* Slip: the lock of an accepted request counts for ever.
RequestIsOverNeverAccepted(r) == status[r] \notin Searching \cup {"accepted"}

\* lockIsFreeSql: a lock counts only while its request or its ride is live.
RequestIsOver(r) ==
  /\ status[r] \notin Searching
  /\ status[r] = "accepted" => RideIsOver(r)
\* Slip: the conditional UPDATE of tryLockDriver loses its condition.
LockIsFreeUnchecked(d) == TRUE
LockIsFree(d) == lock[d] # 0 => RequestIsOver(lock[d])

Outstanding(r) == {o \in Offer : oreq[o] = r /\ ostat[o] = "offered"}
AskedDrivers(r) == {odrv[o] : o \in {x \in Offer : oreq[x] = r}}

\* Slip: without the unique index.
MaySearchUnindexed(p) == TRUE

\* instant_requests_searching_per_passenger_idx lets p insert a search.
MaySearch(p) == \A r \in Request : owner[r] = p => status[r] \notin Searching

NextRequest == {r \in Request : /\ status[r] = "unused"
                                /\ \A s \in Request : s < r => status[s] # "unused"}
NextOffer == {o \in Offer : /\ ostat[o] = "unused"
                            /\ \A x \in Offer : x < o => ostat[x] # "unused"}

\* An insert of a search for p, as the retry of request q (0: a new one).
InsertSearch(r, p, q) ==
  /\ status' = [status EXCEPT ![r] = "searching"]
  /\ owner' = [owner EXCEPT ![r] = p]
  /\ parent' = [parent EXCEPT ![r] = q]
  /\ UNCHANGED <<late, ride>>

InsertOffer(o, r, d, st) ==
  /\ ostat' = [ostat EXCEPT ![o] = st]
  /\ oreq' = [oreq EXCEPT ![o] = r]
  /\ odrv' = [odrv EXCEPT ![o] = d]

\* Slip: finalizeSearch updates the request by its id only.
ExpireById(r) == status' = [status EXCEPT ![r] = "expired"]

\* finalizeSearch claims the request only while it is still searched for.
Expire(r) == status' = IF status[r] \in Searching
                       THEN [status EXCEPT ![r] = "expired"] ELSE status

\* queue.add(job), under an id that is new: a failure is logged and swallowed.
Enqueue(job) ==
  \/ jobs' = jobs \cup {job} /\ UNCHANGED faults
  \/ jobs' = jobs /\ faults > 0 /\ faults' = faults - 1

WaveRuns(r) == \E w \in Handler : h[w].wave /\ h[w].r = r

\* scheduleWave removes the wave that is queued and adds it anew under the same
\* id.  A wave that runs is locked and cannot be removed (the error is
\* swallowed), and while it exists Bull ignores the add.
ScheduleWave(r) ==
  \/ WaveRuns(r) /\ UNCHANGED <<jobs, faults>>
  \/ ~WaveRuns(r) /\ jobs' = jobs \cup {<<"wave", r>>} /\ UNCHANGED faults
  \/ ~WaveRuns(r) /\ jobs' = jobs \ {<<"wave", r>>} /\ faults > 0 /\ faults' = faults - 1

-----------------------------------------------------------------------------
(* The passenger asks, withdraws and retries *)

CreateRequest(w, p) ==
  /\ NextRequest # {}
  /\ \/ /\ LiveRequest(p) = {}
        /\ Begin(w, [Idle EXCEPT !.pc = "insert", !.p = p])
     \/ \E r \in LiveRequest(p) :
          /\ status[r] \in Searching
          /\ Begin(w, [Idle EXCEPT !.pc = "withdraw", !.r = r, !.p = p])
  /\ UNCHANGED <<requests, offers, rides, drivers, jobs, budget>>

\* Slip: the request's expiry job is forgotten.
InsertRequestUntimed(w) ==
  /\ h[w].pc = "insert"
  /\ MaySearch(h[w].p)
  /\ \E r \in NextRequest :
       /\ InsertSearch(r, h[w].p, 0)
       /\ Goto(w, [Idle EXCEPT !.pc = "dispatch", !.r = r])
  /\ UNCHANGED <<jobs, budget, offers, rides, drivers>>

\* The insert fails on the unique index if another search of p came first.
InsertRequest(w) ==
  /\ h[w].pc = "insert"
  /\ \/ /\ MaySearch(h[w].p)
        /\ \E r \in NextRequest :
             /\ InsertSearch(r, h[w].p, 0)
             /\ Enqueue(<<"expiry", r>>)
             /\ Goto(w, [Idle EXCEPT !.pc = "dispatch", !.r = r])
     \/ /\ MaySearch(h[w].p) => NextRequest = {}
        /\ Goto(w, Idle)
        /\ UNCHANGED <<requests, jobs, faults>>
  /\ UNCHANGED <<offers, rides, drivers, toggles>>

\* Slip: assertRetryable lets a finished ride through.
RetryRequestFinished(w, q) ==
  /\ status[q] \in {"expired", "accepted"}
  /\ \A r \in Request : parent[r] # q
  /\ LiveRequest(owner[q]) = {} /\ MaySearch(owner[q])
  /\ \E r \in NextRequest :
       /\ InsertSearch(r, owner[q], q)
       /\ Enqueue(<<"expiry", r>>)
       /\ Begin(w, [Idle EXCEPT !.pc = "dispatch", !.r = r])
  /\ UNCHANGED <<offers, rides, drivers, toggles>>

\* retryRequest: the transaction on the exhausted request q.
RetryRequest(w, q) ==
  /\ status[q] = "expired"
  /\ \A r \in Request : parent[r] # q
  /\ LiveRequest(owner[q]) = {} /\ MaySearch(owner[q])
  /\ \E r \in NextRequest :
       /\ InsertSearch(r, owner[q], q)
       /\ Enqueue(<<"expiry", r>>)
       /\ Begin(w, [Idle EXCEPT !.pc = "dispatch", !.r = r])
  /\ UNCHANGED <<offers, rides, drivers, toggles>>

CancelRequest(w, r) ==
  /\ status[r] \in Searching
  /\ Begin(w, [Idle EXCEPT !.pc = "withdraw", !.r = r])
  /\ UNCHANGED <<requests, offers, rides, drivers, jobs, budget>>

\* withdrawSearch: find the outstanding offer, if any.
FindOutstanding(w) ==
  /\ h[w].pc = "withdraw"
  /\ IF Outstanding(h[w].r) = {}
     THEN Goto(w, [h[w] EXCEPT !.pc = "close"])
     ELSE \E o \in Outstanding(h[w].r) :
            Goto(w, [h[w] EXCEPT !.pc = "retract", !.to = "close",
                                 !.o = o, !.d = odrv[o]])
  /\ UNCHANGED <<requests, offers, rides, drivers, jobs, budget>>

\* The offer found above is cancelled by id, whatever became of it since.
\* The expiry of the request's window does the same.
RetractOffer(w) ==
  /\ h[w].pc = "retract"
  /\ Goto(w, [h[w] EXCEPT !.pc = "free"])
  /\ ostat' = [ostat EXCEPT ![h[w].o] = "cancelled"]
  /\ UNCHANGED <<requests, oreq, odrv, rides, drivers, jobs, budget>>

\* Slip: the lock is not cleared.
FreeDriverNot(w) ==
  /\ h[w].pc = "free"
  /\ Goto(w, IF h[w].to = "idle" THEN Idle ELSE [h[w] EXCEPT !.pc = h[w].to])
  /\ UNCHANGED <<requests, offers, rides, drivers, jobs, budget>>

\* freeDriver clears the lock only if it is still held for this request; then
\* the handler does what it has left to do.
FreeDriver(w) ==
  /\ h[w].pc = "free"
  /\ Goto(w, IF h[w].to = "idle" THEN Idle ELSE [h[w] EXCEPT !.pc = h[w].to])
  /\ lock' = IF lock[h[w].d] = h[w].r THEN [lock EXCEPT ![h[w].d] = 0] ELSE lock
  /\ UNCHANGED <<requests, offers, rides, online, jobs, budget>>

\* Slip: a request that is offered to a driver is not cancelled.
CloseRequestSearching(w) ==
  /\ h[w].pc = "close"
  /\ Goto(w, IF h[w].p = Nobody THEN Idle
             ELSE [Idle EXCEPT !.pc = "insert", !.p = h[w].p])
  /\ status' = IF status[h[w].r] = "searching"
               THEN [status EXCEPT ![h[w].r] = "cancelled"] ELSE status
  /\ jobs' = jobs \ {<<"offer", h[w].o>>, <<"expiry", h[w].r>>, <<"wave", h[w].r>>}
  /\ UNCHANGED <<owner, late, parent, ride, offers, rides, drivers, budget>>

\* withdrawSearch cancels the request by id and removes its jobs; a passenger
\* who withdrew only to ask again (createRequest) goes on to the insert.
CloseRequest(w) ==
  /\ h[w].pc = "close"
  /\ Goto(w, IF h[w].p = Nobody THEN Idle
             ELSE [Idle EXCEPT !.pc = "insert", !.p = h[w].p])
  /\ status' = [status EXCEPT ![h[w].r] = "cancelled"]
  /\ jobs' = jobs \ {<<"offer", h[w].o>>, <<"expiry", h[w].r>>, <<"wave", h[w].r>>}
  /\ UNCHANGED <<owner, late, parent, ride, offers, rides, drivers, budget>>

-----------------------------------------------------------------------------
(* dispatchNext *)

\* Reads the request and who was asked already.  With too little time left for
\* an offer the search ends here.
Dispatch(w) ==
  LET r == h[w].r
  IN  /\ h[w].pc = "dispatch"
      /\ IF status[r] = "searching" /\ ~late[r]
         THEN Goto(w, [h[w] EXCEPT !.pc = "lock", !.cand = Driver \ AskedDrivers(r)])
         ELSE Goto(w, Idle)
      /\ status' = IF status[r] = "searching" /\ late[r]
                   THEN [status EXCEPT ![r] = "expired"] ELSE status
      /\ UNCHANGED <<owner, late, parent, ride, offers, rides, drivers, jobs, budget>>

\* tryLockDriver: one conditional UPDATE on a driver the sweep found.
LockDriver(w) ==
  /\ h[w].pc = "lock"
  /\ \E d \in h[w].cand :
       /\ online[d] /\ LockIsFree(d)
       /\ lock' = [lock EXCEPT ![d] = h[w].r]
       /\ Goto(w, [h[w] EXCEPT !.pc = "offer", !.d = d, !.cand = {}])
  /\ UNCHANGED <<requests, offers, rides, online, jobs, budget>>

\* The sweep found nobody (in reach, with a funded wallet and a fresh position)
\* or lost every one of them: another, wider wave, or the end of the search.
EmptySweep(w) ==
  /\ h[w].pc = "lock"
  /\ Goto(w, Idle)
  /\ \/ ScheduleWave(h[w].r) /\ UNCHANGED status
     \/ Expire(h[w].r) /\ UNCHANGED <<jobs, faults>>
  /\ UNCHANGED <<owner, late, parent, ride, offers, rides, drivers, toggles>>

\* makeOffer: the offer's row ...
MakeOffer(w) ==
  /\ h[w].pc = "offer"
  /\ \E o \in NextOffer :
       /\ InsertOffer(o, h[w].r, h[w].d, "offered")
       /\ Goto(w, [h[w] EXCEPT !.pc = "announce", !.o = o])
  /\ UNCHANGED <<requests, rides, drivers, jobs, budget>>

\* Slip: the timeout job is forgotten.
AnnounceOfferUntimed(w) ==
  /\ h[w].pc = "announce"
  /\ Goto(w, Idle)
  /\ status' = IF status[h[w].r] = "searching"
               THEN [status EXCEPT ![h[w].r] = "offered"] ELSE status
  /\ UNCHANGED <<owner, late, parent, ride, offers, rides, drivers, jobs, budget>>

\* ... then the request's status, the push and the timeout job.
AnnounceOffer(w) ==
  /\ h[w].pc = "announce"
  /\ Goto(w, Idle)
  /\ status' = IF status[h[w].r] = "searching"
               THEN [status EXCEPT ![h[w].r] = "offered"] ELSE status
  /\ Enqueue(<<"offer", h[w].o>>)
  /\ UNCHANGED <<owner, late, parent, ride, offers, rides, drivers, toggles>>

-----------------------------------------------------------------------------
(* The delayed jobs *)

\* Less than MIN_OFFER_SECONDS are left of the request's window.
Tick(r) ==
  /\ status[r] \in Searching /\ ~late[r]
  /\ late' = [late EXCEPT ![r] = TRUE]
  /\ UNCHANGED <<status, owner, parent, ride, offers, rides, drivers, jobs, h, budget>>

\* handleWave
WaveFires(w, r) ==
  /\ <<"wave", r>> \in jobs
  /\ jobs' = jobs \ {<<"wave", r>>}
  /\ Begin(w, [Idle EXCEPT !.pc = "dispatch", !.r = r, !.wave = TRUE])
  /\ UNCHANGED <<requests, offers, rides, drivers, budget>>

\* InstantRequestExpiryProcessor.handle, at the end of the request's window.
ExpiryFires(w, r) ==
  /\ <<"expiry", r>> \in jobs /\ late[r]
  /\ jobs' = jobs \ {<<"expiry", r>>}
  /\ IF status[r] \in Searching /\ Outstanding(r) # {}
     THEN /\ \E o \in Outstanding(r) :
               Begin(w, [Idle EXCEPT !.pc = "retract", !.to = "finalize",
                                     !.r = r, !.o = o, !.d = odrv[o]])
          /\ UNCHANGED status
     ELSE Begin(w, Idle) /\ Expire(r)
  /\ UNCHANGED <<owner, late, parent, ride, offers, rides, drivers, budget>>

FinalizeSearch(w) ==
  /\ h[w].pc = "finalize"
  /\ Goto(w, Idle)
  /\ Expire(h[w].r)
  /\ UNCHANGED <<owner, late, parent, ride, offers, rides, drivers, jobs, budget>>

\* InstantOfferTimeoutProcessor.handle
TimeoutFires(w, o) ==
  /\ <<"offer", o>> \in jobs
  /\ jobs' = jobs \ {<<"offer", o>>}
  /\ Begin(w, IF ostat[o] # "offered" THEN Idle
              ELSE [Idle EXCEPT !.pc = "answer", !.r = oreq[o], !.o = o, !.d = odrv[o]])
  /\ UNCHANGED <<requests, offers, rides, drivers, budget>>

-----------------------------------------------------------------------------
(* The driver answers *)

DeclineOffer(w, o) ==
  /\ ostat[o] = "offered"
  /\ Begin(w, [Idle EXCEPT !.pc = "answer", !.r = oreq[o], !.o = o, !.d = odrv[o]])
  /\ UNCHANGED <<requests, offers, rides, drivers, jobs, budget>>

\* A decline or a timeout closes the offer only if it is still open; the
\* handler goes on either way.
CloseOffer(w) ==
  /\ h[w].pc = "answer"
  /\ Goto(w, [h[w] EXCEPT !.pc = "free", !.to = "reopen"])
  /\ ostat' = IF ostat[h[w].o] = "offered"
              THEN [ostat EXCEPT ![h[w].o] = "declined"] ELSE ostat
  /\ UNCHANGED <<requests, oreq, odrv, rides, drivers, jobs, budget>>

\* Slip: the request is reopened by its id only.
ReopenSearchById(w) ==
  /\ h[w].pc = "reopen"
  /\ Goto(w, [Idle EXCEPT !.pc = "dispatch", !.r = h[w].r])
  /\ status' = [status EXCEPT ![h[w].r] = "searching"]
  /\ jobs' = jobs \ {<<"offer", h[w].o>>}
  /\ UNCHANGED <<owner, late, parent, ride, offers, rides, drivers, budget>>

ReopenSearch(w) ==
  /\ h[w].pc = "reopen"
  /\ Goto(w, [Idle EXCEPT !.pc = "dispatch", !.r = h[w].r])
  /\ status' = IF status[h[w].r] = "offered"
               THEN [status EXCEPT ![h[w].r] = "searching"] ELSE status
  /\ jobs' = jobs \ {<<"offer", h[w].o>>}
  /\ UNCHANGED <<owner, late, parent, ride, offers, rides, drivers, budget>>

\* finalizeMatch: one transaction claims the offer and the request and creates
\* the trip and its booking.  (Its jobs would find nothing left to do, so that
\* they are removed after the commit makes no difference.)
AcceptOffer(o) ==
  LET r == oreq[o]
  IN  /\ ostat[o] = "offered" /\ status[r] = "offered"
      /\ ostat' = [ostat EXCEPT ![o] = "accepted"]
      /\ status' = [status EXCEPT ![r] = "accepted"]
      /\ ride' = [ride EXCEPT ![r] = o]
      /\ trip' = [trip EXCEPT ![o] = "assigned"]
      /\ booking' = [booking EXCEPT ![o] = "confirmed"]
      /\ jobs' = jobs \ {<<"offer", o>>, <<"expiry", r>>, <<"wave", r>>}
      /\ UNCHANGED <<owner, late, parent, oreq, odrv, drivers, h, budget>>

-----------------------------------------------------------------------------
(* The ride *)

\* Slips: the booking is left confirmed; the trip's status is written to the
\* request's row.
CancelRideOnly(w, o, next) ==
  LET r == oreq[o]
  IN  /\ trip[o] \in Waiting
      /\ trip' = [trip EXCEPT ![o] = "cancelled"]
      /\ status' = [status EXCEPT ![r] = "cancelled"]
      /\ Begin(w, [Idle EXCEPT !.pc = "free", !.to = next, !.r = r, !.d = odrv[o]])
      /\ UNCHANGED <<owner, late, parent, ride, booking, offers, drivers, jobs, budget>>
CancelRideMixed(w, o, next) ==
  LET r == oreq[o]
  IN  /\ trip[o] \in Waiting
      /\ trip' = [trip EXCEPT ![o] = "cancelled"]
      /\ booking' = [booking EXCEPT ![o] = "cancelled"]
      /\ status' = [status EXCEPT ![r] = trip[o]]
      /\ Begin(w, [Idle EXCEPT !.pc = "free", !.to = next, !.r = r, !.d = odrv[o]])
      /\ UNCHANGED <<owner, late, parent, ride, offers, drivers, jobs, budget>>

\* cancelByDriver and cancelByPassenger: one transaction while the trip is
\* IN_PROGRESS and not started, then the driver is freed.
CancelRide(w, o, next) ==
  LET r == oreq[o]
  IN  /\ trip[o] \in Waiting
      /\ trip' = [trip EXCEPT ![o] = "cancelled"]
      /\ booking' = [booking EXCEPT ![o] = IF @ = "confirmed" THEN "cancelled" ELSE @]
      /\ status' = [status EXCEPT ![r] = "cancelled"]
      /\ Begin(w, [Idle EXCEPT !.pc = "free", !.to = next, !.r = r, !.d = odrv[o]])
      /\ UNCHANGED <<owner, late, parent, ride, offers, drivers, jobs, budget>>

CancelByDriver(w, o) == CancelRide(w, o, "research")
CancelByPassenger(w, o) == CancelRide(w, o, "idle")

\* searchAgainAfterDriverCancel: a new search, with a closed offer that keeps
\* the driver who cancelled out of it.
SearchAgain(w) ==
  LET q == h[w].r
      allowed == /\ LiveRequest(owner[q]) = {} /\ MaySearch(owner[q])
                 /\ \A r \in Request : parent[r] # q
  IN  /\ h[w].pc = "research"
      /\ \/ /\ allowed
            /\ \E r \in NextRequest, o \in NextOffer :
                 /\ InsertSearch(r, owner[q], q)
                 /\ InsertOffer(o, r, h[w].d, "cancelled")
                 /\ Enqueue(<<"expiry", r>>)
                 /\ Goto(w, [Idle EXCEPT !.pc = "dispatch", !.r = r])
         \/ /\ allowed => NextRequest = {}
            /\ Goto(w, Idle)
            /\ UNCHANGED <<requests, offers, jobs, faults>>
      /\ UNCHANGED <<rides, drivers, toggles>>

\* The driver reports arrival, or starts the ride: the trip's row is read ...
MarkArrived(w, o) ==
  /\ trip[o] = "assigned"
  /\ Begin(w, [Idle EXCEPT !.pc = "save", !.to = "arrived", !.o = o])
  /\ UNCHANGED <<requests, offers, rides, drivers, jobs, budget>>

StartRide(w, o) ==
  /\ trip[o] \in Waiting
  /\ Begin(w, [Idle EXCEPT !.pc = "save", !.to = "riding", !.o = o])
  /\ UNCHANGED <<requests, offers, rides, drivers, jobs, budget>>

\* ... and saved whole.  save() reads the row again and writes every column
\* that differs from the entity, so a change made since the first read is
\* undone, unless it slips in after that second read.
SaveTrip(w) ==
  LET o == h[w].o
  IN  /\ h[w].pc = "save"
      /\ Goto(w, Idle)
      /\ \E st \in {h[w].to} \cup ({trip[o]} \ Waiting) : trip' = [trip EXCEPT ![o] = st]
      /\ UNCHANGED <<requests, offers, booking, drivers, jobs, budget>>

\* completeTrip reads a started trip and meters it, ...
CompleteTrip(w, o) ==
  /\ trip[o] = "riding"
  /\ Begin(w, [Idle EXCEPT !.pc = "complete", !.o = o])
  /\ UNCHANGED <<requests, offers, rides, drivers, jobs, budget>>

\* ... saves the trip, ...
SaveCompleted(w) ==
  /\ h[w].pc = "complete"
  /\ Goto(w, [h[w] EXCEPT !.pc = "ridden"])
  /\ trip' = [trip EXCEPT ![h[w].o] = "completed"]
  /\ UNCHANGED <<requests, offers, booking, drivers, jobs, budget>>

\* ... finds the booking if it is still confirmed, ...
FindRidden(w) ==
  /\ h[w].pc = "ridden"
  /\ Goto(w, IF booking[h[w].o] = "confirmed" THEN [h[w] EXCEPT !.pc = "settle"] ELSE Idle)
  /\ UNCHANGED <<requests, offers, rides, drivers, jobs, budget>>

\* ... and saves it, whatever became of it since.
SettleBooking(w) ==
  /\ h[w].pc = "settle"
  /\ Goto(w, Idle)
  /\ booking' = [booking EXCEPT ![h[w].o] = "completed"]
  /\ UNCHANGED <<requests, offers, trip, drivers, jobs, budget>>

-----------------------------------------------------------------------------
(* Availability *)

Toggle == toggles > 0 /\ toggles' = toggles - 1 /\ UNCHANGED faults

\* setAvailability(true) merges into the row it read and saves it whole.
GoOnline(w, d) ==
  /\ Toggle
  /\ Begin(w, [Idle EXCEPT !.pc = "presence", !.d = d, !.r = lock[d]])
  /\ UNCHANGED <<requests, offers, rides, drivers, jobs>>

SavePresence(w) ==
  LET d == h[w].d
  IN  /\ h[w].pc = "presence"
      /\ Goto(w, Idle)
      /\ online' = [online EXCEPT ![d] = TRUE]
      /\ \E held \in {h[w].r, lock[d]} : lock' = [lock EXCEPT ![d] = held]
      /\ UNCHANGED <<requests, offers, rides, jobs, budget>>

GoOffline(d) ==
  /\ Toggle
  /\ online' = [online EXCEPT ![d] = FALSE]
  /\ lock' = [lock EXCEPT ![d] = 0]
  /\ UNCHANGED <<requests, offers, rides, jobs, h>>

\* getStatus finds the wallet empty: offline, the lock stays.
RunDry(d) ==
  /\ online[d] /\ Toggle
  /\ online' = [online EXCEPT ![d] = FALSE]
  /\ UNCHANGED <<requests, offers, rides, lock, jobs, h>>

\* An await throws: the rest of the handler never runs (jobs are not retried).
Abort(w) ==
  /\ h[w] # Idle /\ faults > 0
  /\ faults' = faults - 1
  /\ h' = [h EXCEPT ![w] = Idle]
  /\ UNCHANGED <<requests, offers, rides, drivers, jobs, toggles>>

-----------------------------------------------------------------------------
HandlerStep(w) ==
  \/ InsertRequest(w) \/ FindOutstanding(w) \/ RetractOffer(w)
  \/ FreeDriver(w) \/ CloseRequest(w) \/ FinalizeSearch(w)
  \/ Dispatch(w) \/ LockDriver(w) \/ EmptySweep(w)
  \/ MakeOffer(w) \/ AnnounceOffer(w)
  \/ CloseOffer(w) \/ ReopenSearch(w) \/ SearchAgain(w)
  \/ SaveTrip(w) \/ SaveCompleted(w) \/ FindRidden(w) \/ SettleBooking(w)
  \/ SavePresence(w)

JobFires(w) ==
  \/ \E r \in Request : WaveFires(w, r) \/ ExpiryFires(w, r)
  \/ \E o \in Offer : TimeoutFires(w, o)

UserCall(w) ==
  \/ \E p \in Passenger : CreateRequest(w, p)
  \/ \E r \in Request : CancelRequest(w, r) \/ RetryRequest(w, r)
  \/ \E o \in Offer : \/ DeclineOffer(w, o)
                     \/ CancelByDriver(w, o) \/ CancelByPassenger(w, o)
                     \/ MarkArrived(w, o) \/ StartRide(w, o) \/ CompleteTrip(w, o)
  \/ \E d \in Driver : GoOnline(w, d)

Next ==
  \/ \E w \in Handler : HandlerStep(w) \/ JobFires(w) \/ UserCall(w) \/ Abort(w)
  \/ \E o \in Offer : AcceptOffer(o)
  \/ \E d \in Driver : GoOffline(d) \/ RunDry(d)
  \/ \E r \in Request : Tick(r)

Spec == Init /\ [][Next]_vars

(* Node runs every handler on to its next await, time passes and Bull delivers
   what is due.  Nobody has to press anything. *)
Fairness ==
  /\ \A w \in Handler : WF_vars(HandlerStep(w))
  /\ \A r \in Request : /\ WF_vars(Tick(r))
                       /\ WF_vars(\E w \in Handler : WaveFires(w, r))
                       /\ WF_vars(\E w \in Handler : ExpiryFires(w, r))
  /\ \A o \in Offer : WF_vars(\E w \in Handler : TimeoutFires(w, o))

FairSpec == Spec /\ Fairness

-----------------------------------------------------------------------------
(* What holds *)

HandlerRecord ==
  [pc : Pc, r : Request \cup {0}, o : Offer \cup {0}, d : Driver \cup {Nobody},
   p : Passenger \cup {Nobody}, cand : SUBSET Driver,
   to : {"idle", "close", "finalize", "reopen", "research", "arrived", "riding"},
   wave : BOOLEAN]

TablesTypeOK ==
  /\ status \in [Request -> RequestStatus]
  /\ owner \in [Request -> Passenger \cup {Nobody}]
  /\ late \in [Request -> BOOLEAN]
  /\ parent \in [Request -> Request \cup {0}]
  /\ ride \in [Request -> Offer \cup {0}]
  /\ ostat \in [Offer -> OfferStatus]
  /\ oreq \in [Offer -> Request \cup {0}]
  /\ odrv \in [Offer -> Driver \cup {Nobody}]
  /\ trip \in [Offer -> TripStage]
  /\ booking \in [Offer -> BookingStatus]
  /\ online \in [Driver -> BOOLEAN]
  /\ lock \in [Driver -> Request \cup {0}]

\* The state has the shape of the tables, the queue and the handlers.
TypeOK ==
  /\ TablesTypeOK
  /\ jobs \subseteq ({"expiry", "wave"} \X Request) \cup ({"offer"} \X Offer)
  /\ h \in [Handler -> HandlerRecord]
  /\ toggles \in Nat /\ faults \in Nat

Quiet == \A w \in Handler : h[w] = Idle
Flawless == faults = MaxFaults

\* However many drivers are asked at once and whatever answers cross, a
\* request becomes at most one ride, and the request knows it: the claims of
\* finalizeMatch.
OneRidePerRequest ==
  /\ \A o \in Offer :
       trip[o] # "none" => /\ oreq[o] \in Request /\ ride[oreq[o]] = o
                           /\ status[oreq[o]] \in {"accepted", "cancelled"}
  /\ \A r \in Request :
       status[r] = "accepted" => /\ ride[r] # 0 /\ trip[ride[r]] # "none"
                                 /\ oreq[ride[r]] = r

\* A passenger never has two searches running, although createRequest checks
\* long before it inserts.
OneSearchPerPassenger ==
  \A r, s \in Request :
    owner[r] = owner[s] /\ status[r] \in Searching /\ status[s] \in Searching => r = s

\* completeTrip has saved the trip of offer o and still owes its booking a save.
Settling(o) == \E w \in Handler : h[w].o = o /\ h[w].pc \in {"ridden", "settle"}

\* A confirmed booking has a ride that is still on, or one whose completion is
\* about to close it: cancel and complete, whatever they cross, leave no
\* passenger holding a booking for a dead ride.  Only a failure between the two
\* saves of completeTrip does.
NoOrphanBooking ==
  \A o \in Offer :
    booking[o] = "confirmed" =>
      \/ trip[o] \in LiveTrip
      \/ trip[o] = "completed" /\ (Settling(o) \/ ~Flawless)

\* A retry never runs, or ran, beside the request it is a retry of.
RetryFollowsEnd ==
  \A r \in Request : parent[r] # 0 => status[parent[r]] \in {"expired", "cancelled"}

\* Handler w is about to close request r at the end of its window.
Finalizes(w, r) ==
  /\ h[w].r = r
  /\ \/ h[w].pc = "finalize"
     \/ h[w].pc \in {"retract", "free"} /\ h[w].to = "finalize"

\* Every search has an end ahead, whatever answers, withdrawals and retries cross:
\* its expiry is queued, or is ending it.  (That it is also moved on until then is
\* not so: a sweep that a wave makes queues no further wave.)
EverySearchTimed ==
  Flawless =>
    \A r \in Request : status[r] \in Searching =>
      <<"expiry", r>> \in jobs \/ \E w \in Handler : Finalizes(w, r)

\* When nothing is in flight every outstanding offer has its timeout queued.
EveryOfferTimed ==
  Quiet /\ Flawless =>
    \A o \in Offer : ostat[o] = "offered" => <<"offer", o>> \in jobs

\* When nothing is in flight a driver is locked only for an offer they have
\* not answered or a ride they are on (no availability call in between).
NoLeakedLock ==
  Quiet /\ Flawless /\ toggles = MaxToggles =>
    \A d \in Driver :
      LockIsFree(d) \/ \E o \in Offer :
        /\ odrv[o] = d /\ oreq[o] = lock[d]
        /\ ostat[o] = "offered" \/ trip[o] \in LiveTrip

\* The promise of the driver's lock: nobody holds the offers of two requests
\* that are both still searched for.
OneOfferPerDriver ==
  \A o, x \in Offer :
    /\ odrv[o] = odrv[x] /\ ostat[o] = "offered" /\ ostat[x] = "offered"
    /\ status[oreq[o]] \in Searching /\ status[oreq[x]] \in Searching
    => o = x

\* No driver was asked twice for one request.
AskedOnce ==
  \A o, x \in Offer :
    /\ ostat[o] # "unused" /\ ostat[x] # "unused"
    /\ oreq[o] = oreq[x] /\ odrv[o] = odrv[x]
    => o = x

\* The lock keeps its promise unless drivers touch their availability or two
\* dispatches of one request, both reading before either writes, ask the same
\* driver twice: the second answer of the first offer then frees the lock of
\* the second (freeDriver compares the request, not the offer).
OneLiveOfferPerDriver == toggles = MaxToggles /\ AskedOnce => OneOfferPerDriver

(* The promise of the service: one winner per request, no way back. *)
PhaseOf(st) == CASE st = "unused" -> "none"
                 [] st \in Searching -> "searching"
                 [] st = "accepted" -> "matched"
                 [] st \in {"expired", "cancelled"} -> "ended"
phase == [r \in Request |-> PhaseOf(status[r])]
winner == [r \in Request |-> IF ride[r] = 0 THEN Nobody ELSE odrv[ride[r]]]

Match == INSTANCE RideMatch WITH NoDriver <- Nobody
MatchSpec == Match!Spec

\* Every search ends: the jobs find it even if no driver ever answers.
SearchEnds ==
  \A r \in Request : status[r] \in Searching ~> status[r] \notin Searching

\* Every offer is answered, times out or is taken back.
OffersClose == \A o \in Offer : ostat[o] = "offered" ~> ostat[o] # "offered"

\* No driver is benched for good: again and again they are free, or on a ride.
DriverNotBenched ==
  \A d \in Driver :
    []<>(LockIsFree(d) \/ \E o \in Offer : odrv[o] = d /\ trip[o] \in LiveTrip)
=============================================================================
