-------------------------- MODULE InstantSearchProofs --------------------------
(***************************************************************************)
(* What ends the searches of InstantDispatch and keeps its drivers free,   *)
(* for any number of passengers, drivers, handlers, requests and offers.   *)
(*                                                                         *)
(* The invariants the runs check speak of quiet states, in which no        *)
(* handler is in flight; a step leads from one to the next only through    *)
(* states that are not.  Each is therefore strengthened to say who is      *)
(* responsible meanwhile: a job in the queue, or a handler at a point from *)
(* which it cannot leave without discharging the duty.  The proofs follow  *)
(* who can have made a change: the lemmas of "Who did it".                 *)
(***************************************************************************)
EXTENDS InstantDispatchProofs

Closed == {"accepted", "declined", "cancelled"}

\* What a handler in state x remembers of the offer it deals with.
HandlerHolds(x) ==
  /\ x.pc = "withdraw" => x.o = 0
  /\ x.pc \in {"retract", "answer"} => x.r = oreq[x.o] /\ x.d = odrv[x.o]
  /\ x.pc = "free" => IF x.o = 0 THEN status[x.r] \in Ended
                      ELSE x.r = oreq[x.o] /\ x.d = odrv[x.o]
  /\ x.pc \in {"free", "close", "finalize", "reopen"} /\ x.o # 0 => ostat[x.o] \in Closed

Bounded == faults <= MaxFaults /\ toggles <= MaxToggles

KnowInv == /\ TypeInv
           /\ Bounded
           /\ \A w \in Handler : HandlerHolds(h[w])

-----------------------------------------------------------------------------
(* Who did it *)

USE DispatchAssumption DEF DispatchAssumption, Ended, OnTrip, Unasked

\* A handler in flight moves by its own next statement or by a failure; an idle
\* one starts with a job or a call.
LEMMA HandlerMoved ==
  ASSUME TypeInv, [Next]_vars, NEW v \in Handler
  PROVE  \/ h'[v] = h[v]
         \/ HandlerStep(v)
         \/ h[v] = Idle /\ (JobFires(v) \/ UserCall(v))
         \/ h'[v] = Idle /\ faults' < faults
<1>0. h \in [Handler -> HandlerRecord]
  BY HandlerFacts
<1>1. ASSUME NEW w \in Handler, NEW rec, Begin(w, rec)
      PROVE  IF w = v THEN h[v] = Idle ELSE h'[v] = h[v]
  BY <1>0, <1>1 DEF Begin
<1>2. ASSUME NEW w \in Handler, NEW rec, Goto(w, rec), w # v PROVE h'[v] = h[v]
  BY <1>0, <1>2 DEF Goto
<1>3. ASSUME NEW w \in Handler, HandlerStep(w) PROVE h'[v] = h[v] \/ HandlerStep(v)
  <2>1. CASE w = v
    BY <1>3, <2>1
  <2>2. CASE w # v
    BY <1>2, <1>3, <2>2 DEF HandlerStep, InsertRequest, FindOutstanding, RetractOffer,
      FreeDriver, CloseRequest, FinalizeSearch, Dispatch, LockDriver, EmptySweep, MakeOffer,
      AnnounceOffer, CloseOffer, ReopenSearch, SearchAgain, SaveTrip, SaveCompleted,
      FindRidden, SettleBooking, SavePresence
  <2>3. QED
    BY <2>1, <2>2
<1>4. ASSUME NEW w \in Handler, JobFires(w)
      PROVE  h'[v] = h[v] \/ (h[v] = Idle /\ JobFires(v))
  <2>1. IF w = v THEN h[v] = Idle ELSE h'[v] = h[v]
    BY <1>1, <1>4 DEF JobFires, WaveFires, ExpiryFires, TimeoutFires
  <2>2. QED
    BY <1>4, <2>1
<1>5. ASSUME NEW w \in Handler, UserCall(w)
      PROVE  h'[v] = h[v] \/ (h[v] = Idle /\ UserCall(v))
  <2>1. IF w = v THEN h[v] = Idle ELSE h'[v] = h[v]
    BY <1>1, <1>5 DEF UserCall, CreateRequest, CancelRequest, RetryRequest, DeclineOffer,
      CancelByDriver, CancelByPassenger, CancelRide, MarkArrived, StartRide, CompleteTrip,
      GoOnline
  <2>2. QED
    BY <1>5, <2>1
<1>6. ASSUME NEW w \in Handler, Abort(w)
      PROVE  h'[v] = h[v] \/ (h'[v] = Idle /\ faults' < faults)
  BY <1>0, <1>6 DEF Abort, TypeInv, RowsOK
<1>7. ASSUME \/ \E o \in Offer : AcceptOffer(o)
             \/ \E d \in Driver : GoOffline(d) \/ RunDry(d)
             \/ \E r \in Request : Tick(r)
             \/ UNCHANGED vars
      PROVE  h'[v] = h[v]
  BY <1>7 DEF AcceptOffer, GoOffline, RunDry, Tick, vars
<1>8. QED
  BY <1>3, <1>4, <1>5, <1>6, <1>7 DEF Next

\* Who takes a job from the queue: an empty sweep takes only the wave it adds anew.
LEMMA JobsTaken ==
  ASSUME [Next]_vars
  PROVE  \/ \A j \in jobs : j[1] # "wave" => j \in jobs'
         \/ \E w \in Handler : \/ CloseRequest(w) \/ ReopenSearch(w)
                               \/ \E r \in Request : WaveFires(w, r) \/ ExpiryFires(w, r)
                               \/ \E o \in Offer : TimeoutFires(w, o)
         \/ \E o \in Offer : AcceptOffer(o)
<1> DEFINE Kept == \A j \in jobs : j[1] # "wave" => j \in jobs'
<1>1. ASSUME NEW w \in Handler, HandlerStep(w)
      PROVE  Kept \/ CloseRequest(w) \/ ReopenSearch(w)
  <2>1. CASE InsertRequest(w) \/ AnnounceOffer(w) \/ SearchAgain(w)
    BY <2>1 DEF InsertRequest, AnnounceOffer, SearchAgain, Enqueue
  <2>5. CASE EmptySweep(w)
    BY <2>5 DEF EmptySweep, ScheduleWave
  <2>2. CASE \/ FindOutstanding(w) \/ RetractOffer(w) \/ FreeDriver(w)
             \/ FinalizeSearch(w) \/ Dispatch(w) \/ LockDriver(w) \/ MakeOffer(w)
    BY <2>2 DEF FindOutstanding, RetractOffer, FreeDriver, FinalizeSearch,
      Dispatch, LockDriver, MakeOffer
  <2>3. CASE \/ CloseOffer(w) \/ SaveTrip(w) \/ SaveCompleted(w)
             \/ FindRidden(w) \/ SettleBooking(w) \/ SavePresence(w)
    BY <2>3 DEF CloseOffer, SaveTrip, SaveCompleted, FindRidden, SettleBooking, SavePresence
  <2>4. QED
    BY <1>1, <2>1, <2>2, <2>3, <2>5 DEF HandlerStep
<1>2. ASSUME NEW w \in Handler, UserCall(w) PROVE Kept
  BY <1>2 DEF UserCall, CreateRequest, CancelRequest, RetryRequest, DeclineOffer, Enqueue,
    CancelByDriver, CancelByPassenger, CancelRide, MarkArrived, StartRide, CompleteTrip,
    GoOnline
<1>3. ASSUME \/ \E w \in Handler : Abort(w)
             \/ \E d \in Driver : GoOffline(d) \/ RunDry(d)
             \/ \E r \in Request : Tick(r)
             \/ UNCHANGED vars
      PROVE  Kept
  BY <1>3 DEF Abort, GoOffline, RunDry, Tick, vars
<1>4. CASE \E w \in Handler : HandlerStep(w) \/ UserCall(w)
  BY <1>1, <1>2, <1>4
<1>5. ASSUME NEW w \in Handler, JobFires(w)
      PROVE  \/ \E r \in Request : WaveFires(w, r) \/ ExpiryFires(w, r)
             \/ \E o \in Offer : TimeoutFires(w, o)
  BY <1>5 DEF JobFires
<1>6. QED
  BY <1>3, <1>4, <1>5 DEF Next

\* Who writes an offer's status.
LEMMA OffersWritten ==
  ASSUME [Next]_vars
  PROVE  \/ ostat' = ostat
         \/ \E w \in Handler : \/ MakeOffer(w) \/ RetractOffer(w) \/ CloseOffer(w)
                               \/ SearchAgain(w)
         \/ \E o \in Offer : AcceptOffer(o)
<1> USE DEF offers
<1>1. ASSUME NEW w \in Handler, HandlerStep(w)
      PROVE  \/ ostat' = ostat
             \/ MakeOffer(w) \/ RetractOffer(w) \/ CloseOffer(w) \/ SearchAgain(w)
  BY <1>1 DEF HandlerStep, InsertRequest, FindOutstanding, FreeDriver,
     CloseRequest, FinalizeSearch, Dispatch, LockDriver, EmptySweep, AnnounceOffer,
     ReopenSearch, SaveTrip, SaveCompleted, FindRidden, SettleBooking, SavePresence
<1>2. ASSUME NEW w \in Handler, JobFires(w) PROVE ostat' = ostat
  BY <1>2 DEF JobFires, WaveFires, ExpiryFires, TimeoutFires
<1>3. ASSUME NEW w \in Handler, UserCall(w) PROVE ostat' = ostat
  BY <1>3 DEF UserCall, CreateRequest, CancelRequest, RetryRequest, DeclineOffer,
    CancelByDriver, CancelByPassenger, CancelRide, MarkArrived, StartRide, CompleteTrip,
    GoOnline
<1>4. ASSUME \/ \E w \in Handler : Abort(w)
             \/ \E d \in Driver : GoOffline(d) \/ RunDry(d)
             \/ \E r \in Request : Tick(r)
             \/ UNCHANGED vars
      PROVE  ostat' = ostat
  BY <1>4 DEF Abort, GoOffline, RunDry, Tick, vars
<1>5. QED
  BY <1>1, <1>2, <1>3, <1>4 DEF Next

\* Who writes a request's status.
LEMMA StatusWritten ==
  ASSUME [Next]_vars
  PROVE  \/ status' = status
         \/ \E w \in Handler : \/ InsertRequest(w) \/ SearchAgain(w)
                               \/ \E q \in Request : RetryRequest(w, q)
         \/ \E w \in Handler : \/ CloseRequest(w) \/ FinalizeSearch(w) \/ Dispatch(w)
                               \/ EmptySweep(w) \/ AnnounceOffer(w) \/ ReopenSearch(w)
                               \/ \E r \in Request : ExpiryFires(w, r)
                               \/ \E o \in Offer : CancelByDriver(w, o)
                                                  \/ CancelByPassenger(w, o)
         \/ \E o \in Offer : AcceptOffer(o)
<1> USE DEF requests
<1>1. ASSUME NEW w \in Handler, HandlerStep(w)
      PROVE  \/ status' = status
             \/ InsertRequest(w) \/ SearchAgain(w)
             \/ CloseRequest(w) \/ FinalizeSearch(w) \/ Dispatch(w)
             \/ EmptySweep(w) \/ AnnounceOffer(w) \/ ReopenSearch(w)
  BY <1>1 DEF HandlerStep, FindOutstanding, RetractOffer, FreeDriver, LockDriver, MakeOffer,
    CloseOffer, SaveTrip, SaveCompleted, FindRidden, SettleBooking, SavePresence
<1>2. ASSUME NEW w \in Handler, JobFires(w)
      PROVE  status' = status \/ \E r \in Request : ExpiryFires(w, r)
  BY <1>2 DEF JobFires, WaveFires, TimeoutFires
<1>3. ASSUME NEW w \in Handler, UserCall(w)
      PROVE  \/ status' = status
             \/ \E q \in Request : RetryRequest(w, q)
             \/ \E o \in Offer : CancelByDriver(w, o) \/ CancelByPassenger(w, o)
  BY <1>3 DEF UserCall, CreateRequest, CancelRequest, DeclineOffer, MarkArrived, StartRide,
    CompleteTrip, GoOnline
<1>4. ASSUME \/ \E w \in Handler : Abort(w)
             \/ \E d \in Driver : GoOffline(d) \/ RunDry(d)
             \/ \E r \in Request : Tick(r)
             \/ UNCHANGED vars
      PROVE  status' = status
  BY <1>4 DEF Abort, GoOffline, RunDry, Tick, vars
<1>5. CASE \E w \in Handler : HandlerStep(w)
  BY <1>1, <1>5
<1>6. CASE \E w \in Handler : JobFires(w)
  BY <1>2, <1>6
<1>7. CASE \E w \in Handler : UserCall(w)
  BY <1>3, <1>7
<1>8. QED
  BY <1>4, <1>5, <1>6, <1>7 DEF Next

\* Who writes a driver's lock.
LEMMA LockWritten ==
  ASSUME [Next]_vars
  PROVE  \/ lock' = lock
         \/ \E w \in Handler : FreeDriver(w) \/ LockDriver(w) \/ SavePresence(w)
         \/ \E d \in Driver : GoOffline(d)
<1> USE DEF drivers
<1>1. ASSUME NEW w \in Handler, HandlerStep(w)
      PROVE  lock' = lock \/ FreeDriver(w) \/ LockDriver(w) \/ SavePresence(w)
  BY <1>1 DEF HandlerStep, InsertRequest, FindOutstanding, RetractOffer, CloseRequest,
    FinalizeSearch, Dispatch, EmptySweep, MakeOffer, AnnounceOffer, CloseOffer, ReopenSearch,
    SearchAgain, SaveTrip, SaveCompleted, FindRidden, SettleBooking
<1>2. ASSUME NEW w \in Handler, JobFires(w) PROVE lock' = lock
  BY <1>2 DEF JobFires, WaveFires, ExpiryFires, TimeoutFires
<1>3. ASSUME NEW w \in Handler, UserCall(w) PROVE lock' = lock
  BY <1>3 DEF UserCall, CreateRequest, CancelRequest, RetryRequest, DeclineOffer,
    CancelByDriver, CancelByPassenger, CancelRide, MarkArrived, StartRide, CompleteTrip,
    GoOnline
<1>4. ASSUME \/ \E w \in Handler : Abort(w)
             \/ \E o \in Offer : AcceptOffer(o)
             \/ \E d \in Driver : RunDry(d)
             \/ \E r \in Request : Tick(r)
             \/ UNCHANGED vars
      PROVE  lock' = lock
  BY <1>4 DEF Abort, AcceptOffer, RunDry, Tick, vars
<1>5. CASE \E w \in Handler : HandlerStep(w)
  BY <1>1, <1>5
<1>6. CASE \E w \in Handler : JobFires(w) \/ UserCall(w)
  BY <1>2, <1>3, <1>6
<1>7. QED
  BY <1>4, <1>5, <1>6 DEF Next

\* Only the drivers' availability calls use up the bound on them.
LEMMA TogglesFall ==
  ASSUME TypeInv, [Next]_vars
  PROVE  /\ toggles' \in Nat /\ toggles' <= toggles
         /\ \/ toggles' = toggles
            \/ \E w \in Handler, d \in Driver : GoOnline(w, d)
            \/ \E d \in Driver : GoOffline(d) \/ RunDry(d)
<1> USE DEF budget
<1>1. ASSUME NEW w \in Handler, HandlerStep(w) PROVE toggles' = toggles
  BY <1>1 DEF HandlerStep, InsertRequest, FindOutstanding, RetractOffer, FreeDriver,
    CloseRequest, FinalizeSearch, Dispatch, LockDriver, EmptySweep, MakeOffer, AnnounceOffer,
    CloseOffer, ReopenSearch, SearchAgain, SaveTrip, SaveCompleted, FindRidden, SettleBooking,
    SavePresence
<1>2. ASSUME NEW w \in Handler, JobFires(w) PROVE toggles' = toggles
  BY <1>2 DEF JobFires, WaveFires, ExpiryFires, TimeoutFires
<1>3. ASSUME NEW w \in Handler, UserCall(w)
      PROVE  toggles' = toggles \/ \E d \in Driver : GoOnline(w, d)
  BY <1>3 DEF UserCall, CreateRequest, CancelRequest, RetryRequest, DeclineOffer,
    CancelByDriver, CancelByPassenger, CancelRide, MarkArrived, StartRide, CompleteTrip
<1>4. ASSUME \/ \E w \in Handler : Abort(w)
             \/ \E o \in Offer : AcceptOffer(o)
             \/ \E r \in Request : Tick(r)
             \/ UNCHANGED vars
      PROVE  toggles' = toggles
  BY <1>4 DEF Abort, AcceptOffer, Tick, vars
<1>5. ASSUME \/ \E w \in Handler, d \in Driver : GoOnline(w, d)
             \/ \E d \in Driver : GoOffline(d) \/ RunDry(d)
      PROVE  toggles' \in Nat /\ toggles' <= toggles
  <2>1. toggles > 0 /\ toggles' = toggles - 1
    BY <1>5 DEF GoOnline, GoOffline, RunDry, Toggle
  <2>2. toggles \in Nat
    BY DEF TypeInv, RowsOK
  <2>3. QED
    BY <2>1, <2>2
<1>6. \/ toggles' = toggles
      \/ \E w \in Handler, d \in Driver : GoOnline(w, d)
      \/ \E d \in Driver : GoOffline(d) \/ RunDry(d)
  BY <1>1, <1>2, <1>3, <1>4 DEF Next
<1>7. toggles' = toggles => toggles' \in Nat /\ toggles' <= toggles
  BY DEF TypeInv, RowsOK
<1>8. QED
  BY <1>5, <1>6, <1>7

-----------------------------------------------------------------------------
(* What is known stays known *)

LEMMA RowsMove ==
  ASSUME TypeInv, [Next]_vars
  PROVE  /\ \A r \in Request : status[r] # "unused" => status'[r] # "unused"
         /\ \A r \in Request : status[r] \in Ended => status'[r] \in Ended
         /\ \A r \in Request : status[r] # "unused" /\ status'[r] \in Searching
                                => status[r] \in Searching
         /\ \A o \in Offer : trip[o] # "none" => trip'[o] # "none"
<1> DEFINE Goal ==
      /\ \A r \in Request : status[r] # "unused" => status'[r] # "unused"
      /\ \A r \in Request : status[r] \in Ended => status'[r] \in Ended
      /\ \A r \in Request : status[r] # "unused" /\ status'[r] \in Searching
                             => status[r] \in Searching
      /\ \A o \in Offer : trip[o] # "none" => trip'[o] # "none"
<1>0. /\ status \in [Request -> RequestStatus] /\ trip \in [Offer -> TripStage]
      /\ \A o \in Offer : ostat[o] # "unused" => oreq[o] \in Request
      /\ \A o \in Offer : trip[o] # "none" => ostat[o] # "unused"
  BY DEF TypeInv, RowsOK, TablesTypeOK, OffersKnown
<1> USE DEF Searching
<1>1. CASE Search
  BY <1>0, <1>1 DEF Search, InsertSearch, NextRequest, rides
<1>2. CASE Turn
  BY <1>0, <1>2 DEF Turn, rides
<1>3. CASE Finish
  BY <1>0, <1>3 DEF Finish, rides
<1>4. CASE Rest
  BY <1>4 DEF Rest, rides
<1>5. ASSUME NEW o \in Offer, AcceptOffer(o) PROVE Goal
  BY <1>0, <1>5 DEF AcceptOffer
<1>6. ASSUME NEW w \in Handler, NEW o \in Offer, NEW next \in {"idle", "research"},
             CancelRide(w, o, next)
      PROVE  Goal
  BY <1>0, <1>6 DEF CancelRide, Waiting
<1>7. ASSUME NEW w \in Handler, SaveTrip(w) \/ SaveCompleted(w) \/ SettleBooking(w) PROVE Goal
  <2>1. CASE SettleBooking(w)
    BY <2>1 DEF SettleBooking, requests
  <2>2. CASE SaveTrip(w)
    <3>1. h[w].to # "none" /\ status' = status
      BY <2>2, HandlerFacts DEF SaveTrip, HandlerKnows, requests
    <3>2. QED
      BY <1>0, <2>2, <3>1 DEF SaveTrip
  <2>3. CASE SaveCompleted(w)
    BY <1>0, <2>3 DEF SaveCompleted, requests
  <2>4. QED
    BY <1>7, <2>1, <2>2, <2>3
<1>8. Kind
  BY StepKind
<1>9. QED
  BY <1>1, <1>2, <1>3, <1>4, <1>5, <1>6, <1>7, <1>8 DEF Kind

\* An offer that is closed stays closed, and so stays its request and driver.
LEMMA OffersMove ==
  ASSUME TypeInv, [Next]_vars, NEW o \in Offer, ostat[o] # "unused"
  PROVE  /\ oreq'[o] = oreq[o] /\ odrv'[o] = odrv[o] /\ ostat'[o] # "unused"
         /\ ostat[o] \in Closed => ostat'[o] \in Closed
<1>0. ostat \in [Offer -> OfferStatus] /\ oreq'[o] = oreq[o] /\ odrv'[o] = odrv[o]
  BY OfferStep DEF TypeInv, RowsOK, TablesTypeOK, OffersStay
<1> DEFINE Goal == ostat'[o] # "unused" /\ (ostat[o] \in Closed => ostat'[o] \in Closed)
<1> USE DEF Closed
<1>1. ASSUME ostat' = ostat PROVE Goal
  BY <1>1
<1>2. ASSUME NEW w \in Handler, MakeOffer(w) \/ SearchAgain(w) PROVE Goal
  <2>1. CASE ostat' = ostat
    BY <2>1
  <2>2. ASSUME NEW x \in NextOffer, NEW r, NEW d, NEW st, InsertOffer(x, r, d, st) PROVE Goal
    BY <1>0, <2>2 DEF NextOffer, InsertOffer
  <2>3. QED
    BY <1>2, <2>1, <2>2 DEF MakeOffer, SearchAgain, offers
<1>3. ASSUME NEW w \in Handler, RetractOffer(w) \/ CloseOffer(w) PROVE Goal
  BY <1>0, <1>3 DEF RetractOffer, CloseOffer
<1>4. ASSUME NEW x \in Offer, AcceptOffer(x) PROVE Goal
  BY <1>0, <1>4 DEF AcceptOffer
<1>5. QED
  BY <1>0, <1>1, <1>2, <1>3, <1>4, OffersWritten

LEMMA Flaws ==
  ASSUME TypeInv, Bounded, [Next]_vars
  PROVE  /\ Bounded'
         /\ Flawless' => Flawless /\ faults' = faults /\ ~(faults' < faults)
         /\ (toggles = MaxToggles)' => toggles = MaxToggles /\ toggles' = toggles
<1>1. faults \in Nat /\ faults' \in Nat /\ faults' <= faults
  BY FaultsFall, TypeStep DEF TypeInv, RowsOK
<1>2. toggles \in Nat /\ toggles' \in Nat /\ toggles' <= toggles
  BY TogglesFall DEF TypeInv, RowsOK
<1>3. QED
  BY <1>1, <1>2 DEF Bounded, Flawless

\* Which statement a handler in flight executes next is decided by its pc.
LEMMA NextStatement ==
  ASSUME NEW w \in Handler, HandlerStep(w)
  PROVE  /\ h[w].pc = "dispatch" => Dispatch(w)
         /\ h[w].pc = "lock" => LockDriver(w) \/ EmptySweep(w)
         /\ h[w].pc = "offer" => MakeOffer(w)
         /\ h[w].pc = "announce" => AnnounceOffer(w)
         /\ h[w].pc = "retract" => RetractOffer(w)
         /\ h[w].pc = "answer" => CloseOffer(w)
         /\ h[w].pc = "free" => FreeDriver(w)
         /\ h[w].pc = "close" => CloseRequest(w)
         /\ h[w].pc = "finalize" => FinalizeSearch(w)
         /\ h[w].pc = "reopen" => ReopenSearch(w)
BY DEF HandlerStep, InsertRequest, FindOutstanding, RetractOffer, FreeDriver,
  CloseRequest, FinalizeSearch, Dispatch, LockDriver, EmptySweep, MakeOffer, AnnounceOffer,
  CloseOffer, ReopenSearch, SearchAgain, SaveTrip, SaveCompleted, FindRidden, SettleBooking,
  SavePresence

LEMMA GoesTo ==
  ASSUME TypeInv, NEW w \in Handler, NEW rec, Goto(w, rec)
  PROVE  h'[w] = rec
BY HandlerFacts DEF Goto

\* Where the statements that matter to a search leave their handler.
LEMMA AfterStatement ==
  ASSUME TypeInv, NEW w \in Handler
  PROVE  /\ RetractOffer(w) =>
              /\ h'[w].pc = "free" /\ h'[w].to = h[w].to /\ h'[w].r = h[w].r
              /\ h'[w].o = h[w].o /\ h'[w].d = h[w].d
         /\ CloseOffer(w) =>
              /\ h'[w].pc = "free" /\ h'[w].to = "reopen" /\ h'[w].r = h[w].r
              /\ h'[w].o = h[w].o /\ h'[w].d = h[w].d
         /\ FreeDriver(w) =>
              IF h[w].to = "idle" THEN h'[w] = Idle
              ELSE h'[w].pc = h[w].to /\ h'[w].r = h[w].r /\ h'[w].o = h[w].o
         /\ MakeOffer(w) =>
              /\ h'[w].pc = "announce" /\ h'[w].o \in NextOffer
              /\ InsertOffer(h'[w].o, h[w].r, h[w].d, "offered")
         /\ LockDriver(w) =>
              /\ h'[w].pc = "offer" /\ h'[w].r = h[w].r /\ h'[w].d \in Driver
              /\ LockIsFree(h'[w].d) /\ lock' = [lock EXCEPT ![h'[w].d] = h[w].r]
         /\ ReopenSearch(w) => h'[w] = [Idle EXCEPT !.pc = "dispatch", !.r = h[w].r]
<1>0. h \in [Handler -> HandlerRecord] /\ h[w].cand \subseteq Driver
  BY HandlerFacts DEF HandlerRecord
<1>1. ASSUME RetractOffer(w)
      PROVE  /\ h'[w].pc = "free" /\ h'[w].to = h[w].to /\ h'[w].r = h[w].r
             /\ h'[w].o = h[w].o /\ h'[w].d = h[w].d
  BY <1>0, <1>1 DEF RetractOffer, Goto, HandlerRecord
<1>2. ASSUME CloseOffer(w)
      PROVE  /\ h'[w].pc = "free" /\ h'[w].to = "reopen" /\ h'[w].r = h[w].r
             /\ h'[w].o = h[w].o /\ h'[w].d = h[w].d
  BY <1>0, <1>2 DEF CloseOffer, Goto, HandlerRecord
<1>3. ASSUME FreeDriver(w)
      PROVE  IF h[w].to = "idle" THEN h'[w] = Idle
             ELSE h'[w].pc = h[w].to /\ h'[w].r = h[w].r /\ h'[w].o = h[w].o
  BY <1>0, <1>3 DEF FreeDriver, Goto, HandlerRecord
<1>4. ASSUME MakeOffer(w)
      PROVE  /\ h'[w].pc = "announce" /\ h'[w].o \in NextOffer
             /\ InsertOffer(h'[w].o, h[w].r, h[w].d, "offered")
  <2>1. PICK o \in NextOffer : /\ InsertOffer(o, h[w].r, h[w].d, "offered")
                              /\ h' = [h EXCEPT ![w] = [h[w] EXCEPT !.pc = "announce", !.o = o]]
    BY <1>4 DEF MakeOffer, Goto
  <2>2. h'[w].pc = "announce" /\ h'[w].o = o
    BY <1>0, <2>1 DEF HandlerRecord
  <2>3. QED
    BY <2>1, <2>2
<1>5. ASSUME LockDriver(w)
      PROVE  /\ h'[w].pc = "offer" /\ h'[w].r = h[w].r /\ h'[w].d \in Driver
             /\ LockIsFree(h'[w].d) /\ lock' = [lock EXCEPT ![h'[w].d] = h[w].r]
  <2>1. PICK d \in Driver :
          /\ LockIsFree(d) /\ lock' = [lock EXCEPT ![d] = h[w].r]
          /\ h' = [h EXCEPT ![w] = [h[w] EXCEPT !.pc = "offer", !.d = d, !.cand = {}]]
    BY <1>0, <1>5 DEF LockDriver, Goto
  <2>2. h'[w].pc = "offer" /\ h'[w].d = d /\ h'[w].r = h[w].r
    BY <1>0, <2>1 DEF HandlerRecord
  <2>3. QED
    BY <2>1, <2>2
<1>6. ASSUME ReopenSearch(w) PROVE h'[w] = [Idle EXCEPT !.pc = "dispatch", !.r = h[w].r]
  BY <1>0, <1>6 DEF ReopenSearch, Goto
<1>7. QED
  BY <1>1, <1>2, <1>3, <1>4, <1>5, <1>6

\* Where the other statements leave their handler.
LEMMA AfterOthers ==
  ASSUME TypeInv, NEW v \in Handler, HandlerStep(v)
  PROVE  \/ h'[v].pc \in {"idle", "insert", "dispatch", "lock", "ridden", "settle"}
         \/ FindOutstanding(v) \/ RetractOffer(v) \/ CloseOffer(v) \/ FreeDriver(v)
         \/ LockDriver(v) \/ MakeOffer(v)
<1> DEFINE Goal == h'[v].pc \in {"idle", "insert", "dispatch", "lock", "ridden", "settle"}
<1>1. ASSUME NEW rec, Goto(v, rec),
             rec.pc \in {"idle", "insert", "dispatch", "lock", "ridden", "settle"}
      PROVE  Goal
  BY <1>1, GoesTo
<1>2. /\ Idle.pc = "idle" /\ [Idle EXCEPT !.pc = "insert", !.p = h[v].p].pc = "insert"
      /\ \A r : [Idle EXCEPT !.pc = "dispatch", !.r = r].pc = "dispatch"
      /\ \A cand : [h[v] EXCEPT !.pc = "lock", !.cand = cand].pc = "lock"
      /\ [h[v] EXCEPT !.pc = "ridden"].pc = "ridden"
      /\ [h[v] EXCEPT !.pc = "settle"].pc = "settle"
  BY HandlerFacts DEF Idle, HandlerRecord
<1>3. ASSUME InsertRequest(v) \/ SearchAgain(v) \/ ReopenSearch(v) \/ CloseRequest(v)
      PROVE  Goal
  <2>1. CASE Goto(v, Idle) \/ Goto(v, [Idle EXCEPT !.pc = "insert", !.p = h[v].p])
    BY <1>1, <1>2, <2>1
  <2>2. CASE \E r : Goto(v, [Idle EXCEPT !.pc = "dispatch", !.r = r])
    BY <1>1, <1>2, <2>2
  <2>3. QED
    BY <1>3, <2>1, <2>2 DEF InsertRequest, SearchAgain, ReopenSearch, CloseRequest
<1>4. ASSUME \/ FinalizeSearch(v) \/ EmptySweep(v) \/ AnnounceOffer(v)
             \/ SaveTrip(v) \/ SettleBooking(v) \/ SavePresence(v)
      PROVE  Goal
  <2>1. Goto(v, Idle)
    BY <1>4 DEF FinalizeSearch, EmptySweep, AnnounceOffer, SaveTrip, SettleBooking,
      SavePresence
  <2>2. QED
    BY <1>1, <1>2, <2>1
<1>5. ASSUME Dispatch(v) \/ SaveCompleted(v) \/ FindRidden(v) PROVE Goal
  <2>1. \/ Goto(v, Idle) \/ Goto(v, [h[v] EXCEPT !.pc = "ridden"])
        \/ Goto(v, [h[v] EXCEPT !.pc = "settle"])
        \/ \E cand : Goto(v, [h[v] EXCEPT !.pc = "lock", !.cand = cand])
    BY <1>5 DEF Dispatch, SaveCompleted, FindRidden
  <2>2. QED
    BY <1>1, <1>2, <2>1
<1>6. QED
  BY <1>3, <1>4, <1>5 DEF HandlerStep

\* Where the jobs and the calls that deal with an offer start.
LEMMA AfterStart ==
  ASSUME TypeInv, NEW w \in Handler, JobFires(w) \/ UserCall(w)
  PROVE  \/ h'[w].pc \in {"idle", "insert", "dispatch", "save", "complete"}
         \/ h'[w].pc = "presence" /\ \E d \in Driver : GoOnline(w, d)
         \/ h'[w].pc = "withdraw" /\ h'[w].o = 0
         \/ /\ h'[w].pc \in {"retract", "answer"} /\ h'[w].o \in Offer
            /\ ostat[h'[w].o] = "offered" /\ UNCHANGED offers
            /\ h'[w].r = oreq[h'[w].o] /\ h'[w].d = odrv[h'[w].o]
         \/ h'[w].pc = "free" /\ h'[w].o = 0 /\ status'[h'[w].r] = "cancelled"
<1> DEFINE Goal ==
      \/ h'[w].pc \in {"idle", "insert", "dispatch", "save", "complete"}
      \/ h'[w].pc = "presence" /\ \E d \in Driver : GoOnline(w, d)
      \/ h'[w].pc = "withdraw" /\ h'[w].o = 0
      \/ /\ h'[w].pc \in {"retract", "answer"} /\ h'[w].o \in Offer
         /\ ostat[h'[w].o] = "offered" /\ UNCHANGED offers
         /\ h'[w].r = oreq[h'[w].o] /\ h'[w].d = odrv[h'[w].o]
      \/ h'[w].pc = "free" /\ h'[w].o = 0 /\ status'[h'[w].r] = "cancelled"
<1>0. h \in [Handler -> HandlerRecord]
  BY HandlerFacts
<1>a. ASSUME NEW rec, Begin(w, rec) PROVE h'[w] = rec
  BY <1>0, <1>a DEF Begin
<1>1. ASSUME NEW r \in Request, WaveFires(w, r) PROVE Goal
  BY <1>1, <1>a DEF WaveFires, Idle
<1>2. ASSUME NEW r \in Request, ExpiryFires(w, r) PROVE Goal
  <2>1. CASE h'[w] = Idle
    BY <2>1 DEF Idle
  <2>2. ASSUME NEW o \in Outstanding(r),
               h'[w] = [Idle EXCEPT !.pc = "retract", !.to = "finalize",
                                    !.r = r, !.o = o, !.d = odrv[o]]
        PROVE  Goal
    <3>1. o \in Offer /\ ostat[o] = "offered" /\ oreq[o] = r
      BY DEF Outstanding
    <3>2. h'[w].pc = "retract" /\ h'[w].o = o /\ h'[w].r = r /\ h'[w].d = odrv[o]
      BY <2>2 DEF Idle
    <3>3. QED
      BY <1>2, <3>1, <3>2 DEF ExpiryFires
  <2>3. QED
    BY <1>2, <1>a, <2>1, <2>2 DEF ExpiryFires
<1>3. ASSUME NEW o \in Offer, TimeoutFires(w, o) \/ DeclineOffer(w, o) PROVE Goal
  <2>1. CASE h'[w] = Idle
    BY <2>1 DEF Idle
  <2>2. CASE /\ ostat[o] = "offered"
             /\ h'[w] = [Idle EXCEPT !.pc = "answer", !.r = oreq[o],
                                     !.o = o, !.d = odrv[o]]
    BY <1>3, <2>2 DEF TimeoutFires, DeclineOffer, Idle
  <2>3. QED
    BY <1>3, <1>a, <2>1, <2>2 DEF TimeoutFires, DeclineOffer
<1>4. ASSUME NEW p \in Passenger, CreateRequest(w, p) PROVE Goal
  BY <1>4, <1>a DEF CreateRequest, Idle
<1>5. ASSUME NEW r \in Request, CancelRequest(w, r) \/ RetryRequest(w, r) PROVE Goal
  BY <1>5, <1>a DEF CancelRequest, RetryRequest, Idle
<1>6. ASSUME NEW o \in Offer, NEW next \in {"idle", "research"}, CancelRide(w, o, next)
      PROVE  Goal
  <2>1. /\ h'[w] = [Idle EXCEPT !.pc = "free", !.to = next, !.r = oreq[o], !.d = odrv[o]]
        /\ status' = [status EXCEPT ![oreq[o]] = "cancelled"]
    BY <1>6, <1>a DEF CancelRide
  <2>2. status \in [Request -> RequestStatus] /\ oreq[o] \in Request
    BY <1>6 DEF CancelRide, Waiting, TypeInv, RowsOK, TablesTypeOK, OffersKnown
  <2>3. h'[w].pc = "free" /\ h'[w].o = 0 /\ h'[w].r = oreq[o]
    BY <2>1 DEF Idle
  <2>4. QED
    BY <2>1, <2>2, <2>3
<1>7. ASSUME NEW o \in Offer, MarkArrived(w, o) \/ StartRide(w, o) \/ CompleteTrip(w, o)
      PROVE  Goal
  BY <1>7, <1>a DEF MarkArrived, StartRide, CompleteTrip, Idle
<1>8. ASSUME NEW d \in Driver, GoOnline(w, d) PROVE Goal
  BY <1>8, <1>a DEF GoOnline, Idle
<1>9. CASE JobFires(w)
  BY <1>1, <1>2, <1>3, <1>9 DEF JobFires
<1>10. CASE UserCall(w)
  BY <1>3, <1>4, <1>5, <1>6, <1>7, <1>8, <1>10
  DEF UserCall, CancelByDriver, CancelByPassenger
<1>11. QED
  BY <1>9, <1>10

LEMMA KnowInit == Init => KnowInv
<1> SUFFICES ASSUME Init PROVE KnowInv
  OBVIOUS
<1>1. TypeInv
  BY TypeInit
<1>2. Bounded /\ \A w \in Handler : HandlerHolds(h[w])
  BY DEF Init, Bounded, HandlerHolds, Idle
<1>3. QED
  BY <1>1, <1>2 DEF KnowInv

LEMMA KnowStep == KnowInv /\ [Next]_vars => KnowInv'
<1> SUFFICES ASSUME KnowInv, [Next]_vars PROVE KnowInv'
  OBVIOUS
<1>0. TypeInv /\ TypeInv' /\ Bounded'
  BY TypeStep, Flaws DEF KnowInv
<1>1. SUFFICES ASSUME NEW v \in Handler PROVE HandlerHolds(h[v])'
  BY <1>0 DEF KnowInv
<1>2. /\ h[v] \in HandlerRecord /\ HandlerKnows(h[v]) /\ HandlerHolds(h[v])
      /\ ostat \in [Offer -> OfferStatus]
  BY <1>0, HandlerFacts DEF KnowInv, TypeInv, RowsOK, TablesTypeOK
<1>3. CASE h'[v] = h[v]
  <2> DEFINE x == h[v]
  <2>1. /\ x.o \in Offer /\ ostat[x.o] # "unused" =>
              /\ oreq'[x.o] = oreq[x.o] /\ odrv'[x.o] = odrv[x.o]
              /\ ostat[x.o] \in Closed => ostat'[x.o] \in Closed
        /\ x.r \in Request /\ status[x.r] \in Ended => status'[x.r] \in Ended
    BY <1>0, RowsMove, OffersMove
  <2>2. x.o \in Offer \cup {0} /\ (x.o # 0 /\ ostat[x.o] \in Closed => ostat[x.o] # "unused")
    BY <1>2 DEF HandlerRecord, Closed
  <2>3. HandlerHolds(x)'
    BY <1>2, <1>3, <2>1, <2>2 DEF HandlerHolds, HandlerKnows
  <2>4. QED
    BY <2>3
<1>4. CASE h'[v].pc \notin {"withdraw", "retract", "answer", "free", "close",
                           "finalize", "reopen"}
  BY <1>4 DEF HandlerHolds
<1>5. CASE HandlerStep(v)
  <2>1. CASE FindOutstanding(v)
    <3>1. CASE h'[v] = [h[v] EXCEPT !.pc = "close"]
      <4>1. h'[v].pc = "close" /\ h'[v].o = 0
        BY <1>2, <2>1, <3>1 DEF FindOutstanding, HandlerRecord, HandlerHolds
      <4>2. QED
        BY <4>1 DEF HandlerHolds
    <3>2. ASSUME NEW o \in Outstanding(h[v].r),
                 h'[v] = [h[v] EXCEPT !.pc = "retract", !.to = "close",
                                      !.o = o, !.d = odrv[o]]
          PROVE  HandlerHolds(h[v])'
      <4>1. h'[v].pc = "retract" /\ h'[v].o = o /\ h'[v].d = odrv[o] /\ h'[v].r = oreq[o]
        BY <1>2, <3>2 DEF HandlerRecord, Outstanding
      <4>2. oreq' = oreq /\ odrv' = odrv
        BY <2>1 DEF FindOutstanding, offers
      <4>3. QED
        BY <4>1, <4>2 DEF HandlerHolds
    <3>3. h \in [Handler -> HandlerRecord]
      BY <1>0, HandlerFacts
    <3>4. QED
      BY <2>1, <3>1, <3>2, <3>3 DEF FindOutstanding, Goto
  <2>2. CASE RetractOffer(v)
    <3>1. /\ h'[v].pc = "free" /\ h'[v].o = h[v].o /\ h'[v].r = h[v].r /\ h'[v].d = h[v].d
          /\ h[v].o \in Offer /\ h[v].o # 0
          /\ h[v].r = oreq[h[v].o] /\ h[v].d = odrv[h[v].o]
      <4>1. h[v].pc = "retract"
        BY <2>2 DEF RetractOffer
      <4>2. /\ h[v].o \in Offer /\ h[v].o # 0
            /\ h[v].r = oreq[h[v].o] /\ h[v].d = odrv[h[v].o]
        BY <1>2, <4>1 DEF HandlerKnows, HandlerHolds, Offer
      <4>3. /\ h'[v].pc = "free" /\ h'[v].o = h[v].o
            /\ h'[v].r = h[v].r /\ h'[v].d = h[v].d
        BY <1>0, <2>2, v \in Handler, AfterStatement
      <4>4. QED
        BY <4>2, <4>3
    <3>2. oreq' = oreq /\ odrv' = odrv /\ ostat'[h[v].o] \in Closed
      BY <1>2, <2>2, <3>1 DEF RetractOffer, Closed
    <3>3. QED
      BY <3>1, <3>2 DEF HandlerHolds
  <2>3. CASE CloseOffer(v)
    <3>1. /\ h'[v].pc = "free" /\ h'[v].o = h[v].o /\ h'[v].r = h[v].r /\ h'[v].d = h[v].d
          /\ h[v].o \in Offer /\ h[v].o # 0 /\ ostat[h[v].o] # "unused"
          /\ h[v].r = oreq[h[v].o] /\ h[v].d = odrv[h[v].o]
      <4>1. h[v].pc = "answer"
        BY <2>3 DEF CloseOffer
      <4>2. /\ h[v].o \in Offer /\ h[v].o # 0 /\ ostat[h[v].o] # "unused"
            /\ h[v].r = oreq[h[v].o] /\ h[v].d = odrv[h[v].o]
        BY <1>2, <4>1 DEF HandlerKnows, HandlerHolds, Offer
      <4>3. /\ h'[v].pc = "free" /\ h'[v].o = h[v].o
            /\ h'[v].r = h[v].r /\ h'[v].d = h[v].d
        BY <1>0, <2>3, v \in Handler, AfterStatement
      <4>4. QED
        BY <4>2, <4>3
    <3>2. oreq' = oreq /\ odrv' = odrv /\ ostat'[h[v].o] \in Closed
      BY <1>2, <2>3, <3>1 DEF CloseOffer, Closed, OfferStatus
    <3>3. QED
      BY <3>1, <3>2 DEF HandlerHolds
  <2>4. CASE FreeDriver(v)
    <3>1. CASE h'[v] = Idle
      BY <3>1 DEF HandlerHolds, Idle
    <3>2. CASE h'[v].pc = h[v].to /\ h'[v].r = h[v].r /\ h'[v].o = h[v].o
      <4>1. h[v].pc = "free" /\ ostat' = ostat
        BY <2>4 DEF FreeDriver, offers
      <4>2. h'[v].pc \in {"idle", "close", "finalize", "reopen", "research"}
        BY <1>2, <3>2, <4>1 DEF HandlerKnows
      <4>3. QED
        BY <1>2, <3>2, <4>1, <4>2 DEF HandlerHolds
    <3>3. QED
      BY <1>0, <2>4, <3>1, <3>2, AfterStatement
  <2>5. CASE LockDriver(v) \/ MakeOffer(v)
    BY <1>0, <1>4, <2>5, AfterStatement
  <2>6. QED
    BY <1>0, <1>4, <1>5, <2>1, <2>2, <2>3, <2>4, <2>5, AfterOthers
<1>6. CASE JobFires(v) \/ UserCall(v)
  BY <1>0, <1>6, AfterStart DEF HandlerHolds, offers
<1>7. CASE h'[v] = Idle
  BY <1>7 DEF HandlerHolds, Idle
<1>8. QED
  BY <1>0, <1>3, <1>5, <1>6, <1>7, HandlerMoved

\* A handler in flight is lost only to a failure.
LEMMA HandlerGoesOn ==
  ASSUME KnowInv, [Next]_vars, Flawless', NEW v \in Handler, h[v].pc # "idle"
  PROVE  h'[v] = h[v] \/ HandlerStep(v)
<1>1. h[v] # Idle
  BY DEF Idle
<1>2. ~(faults' < faults)
  BY Flaws DEF KnowInv
<1>3. QED
  BY <1>1, <1>2, HandlerMoved DEF KnowInv

-----------------------------------------------------------------------------
(* Every offer times out *)

\* Handler w is about to queue the timeout of offer o, or to close the offer.
Minds(w, o) == h[w].o = o /\ h[w].pc \in {"announce", "answer", "retract"}

Timed(o) == <<"offer", o>> \in jobs \/ \E w \in Handler : Minds(w, o)

OfferTimed == Flawless => \A o \in Offer : ostat[o] = "offered" => Timed(o)

LEMMA NewOfferTimed ==
  ASSUME KnowInv, [Next]_vars, NEW o \in Offer, ostat[o] # "offered", ostat'[o] = "offered"
  PROVE  Timed(o)'
<1>0. TypeInv /\ ostat \in [Offer -> OfferStatus] /\ ostat'[o] # ostat[o]
  BY DEF KnowInv, TypeInv, RowsOK, TablesTypeOK
<1>1. ASSUME NEW w \in Handler, MakeOffer(w) PROVE Timed(o)'
  <2>1. /\ h'[w].pc = "announce"
        /\ ostat' = [ostat EXCEPT ![h'[w].o] = "offered"]
    BY <1>0, <1>1, AfterStatement DEF InsertOffer
  <2>2. h'[w].o = o
    BY <1>0, <2>1
  <2>3. QED
    BY <2>1, <2>2 DEF Timed, Minds
<1>2. ASSUME NEW w \in Handler, RetractOffer(w) \/ CloseOffer(w) PROVE FALSE
  BY <1>0, <1>2 DEF RetractOffer, CloseOffer
<1>3. ASSUME NEW w \in Handler, SearchAgain(w) PROVE FALSE
  BY <1>0, <1>3 DEF SearchAgain, InsertOffer, offers
<1>4. ASSUME NEW x \in Offer, AcceptOffer(x) PROVE FALSE
  BY <1>0, <1>4 DEF AcceptOffer
<1>5. QED
  BY <1>0, <1>1, <1>2, <1>3, <1>4, OffersWritten

LEMMA TimeoutKept ==
  ASSUME KnowInv, [Next]_vars, NEW o \in Offer,
         ostat[o] = "offered", ostat'[o] = "offered", <<"offer", o>> \in jobs
  PROVE  Timed(o)'
<1>1. ASSUME NEW w \in Handler, CloseRequest(w) \/ ReopenSearch(w) PROVE Timed(o)'
  <2>1. h[w].o # o
    BY <1>1 DEF KnowInv, HandlerHolds, CloseRequest, ReopenSearch, Offer, Closed
  <2>2. <<"offer", o>> \in jobs'
    BY <1>1, <2>1 DEF CloseRequest, ReopenSearch
  <2>3. QED
    BY <2>2 DEF Timed
<1>2. ASSUME NEW w \in Handler, NEW r \in Request, WaveFires(w, r) \/ ExpiryFires(w, r)
      PROVE  Timed(o)'
  <2>1. <<"offer", o>> \in jobs'
    BY <1>2 DEF WaveFires, ExpiryFires
  <2>2. QED
    BY <2>1 DEF Timed
<1>3. ASSUME NEW w \in Handler, NEW x \in Offer, TimeoutFires(w, x) PROVE Timed(o)'
  <2>1. CASE x = o
    <3>1. Goto(w, [Idle EXCEPT !.pc = "answer", !.r = oreq[o], !.o = o, !.d = odrv[o]])
      BY <1>3, <2>1 DEF TimeoutFires, Begin, Goto
    <3>2. h'[w] = [Idle EXCEPT !.pc = "answer", !.r = oreq[o], !.o = o, !.d = odrv[o]]
      BY <3>1, GoesTo DEF KnowInv
    <3>3. h'[w].pc = "answer" /\ h'[w].o = o
      BY <3>2 DEF Idle
    <3>4. QED
      BY <3>3 DEF Timed, Minds
  <2>2. CASE x # o
    BY <1>3, <2>2 DEF TimeoutFires, Timed
  <2>3. QED
    BY <2>1, <2>2
<1>4. ASSUME NEW x \in Offer, AcceptOffer(x) PROVE Timed(o)'
  <2>1. ostat' = [ostat EXCEPT ![x] = "accepted"] /\ ostat \in [Offer -> OfferStatus]
    BY <1>4 DEF AcceptOffer, KnowInv, TypeInv, RowsOK, TablesTypeOK
  <2>2. x # o
    BY <2>1
  <2>3. <<"offer", o>> \in jobs'
    BY <1>4, <2>2 DEF AcceptOffer
  <2>4. QED
    BY <2>3 DEF Timed
<1>5. CASE \A j \in jobs : j[1] # "wave" => j \in jobs'
  BY <1>5 DEF Timed
<1>6. QED
  BY <1>1, <1>2, <1>3, <1>4, <1>5, JobsTaken

LEMMA OfferTimedStep == KnowInv /\ OfferTimed /\ [Next]_vars => OfferTimed'
<1> SUFFICES ASSUME KnowInv, OfferTimed, [Next]_vars, Flawless', NEW o \in Offer,
                    ostat'[o] = "offered"
             PROVE  Timed(o)'
  BY DEF OfferTimed
<1>0. Flawless /\ faults' = faults /\ faults \in Nat
  BY Flaws DEF KnowInv, TypeInv, RowsOK
<1>1. CASE ostat[o] # "offered"
  BY <1>1, NewOfferTimed
<1>2. CASE ostat[o] = "offered" /\ <<"offer", o>> \in jobs
  BY <1>2, TimeoutKept
<1>3. ASSUME NEW w \in Handler, Minds(w, o) PROVE Timed(o)'
  <2>1. CASE h'[w] = h[w]
    BY <1>3, <2>1 DEF Timed, Minds
  <2>2. CASE HandlerStep(w)
    <3>1. AnnounceOffer(w) \/ CloseOffer(w) \/ RetractOffer(w)
      BY <1>3, <2>2, NextStatement DEF Minds
    <3>2. CASE AnnounceOffer(w)
      <4>1. Enqueue(<<"offer", o>>)
        BY <1>3, <3>2 DEF AnnounceOffer, Minds
      <4>2. <<"offer", o>> \in jobs'
        BY <1>0, <4>1 DEF Enqueue
      <4>3. QED
        BY <4>2 DEF Timed
    <3>3. CASE CloseOffer(w) \/ RetractOffer(w)
      <4>1. ostat \in [Offer -> OfferStatus] /\ h[w].o = o
        BY <1>3 DEF KnowInv, TypeInv, RowsOK, TablesTypeOK, Minds
      <4>2. ostat'[o] # "offered"
        BY <3>3, <4>1 DEF CloseOffer, RetractOffer
      <4>3. QED
        BY <4>2
    <3>4. QED
      BY <3>1, <3>2, <3>3
  <2>3. QED
    BY <1>3, <2>1, <2>2, HandlerGoesOn DEF Minds
<1>4. QED
  BY <1>0, <1>1, <1>2, <1>3 DEF OfferTimed, Timed

-----------------------------------------------------------------------------
(* Every search has an end *)

Ending(r) == <<"expiry", r>> \in jobs \/ \E w \in Handler : Finalizes(w, r)

\* Who claims a request ends its search.
LEMMA SearchEnded ==
  ASSUME TypeInv, NEW r \in Request, status'[r] \in Searching
  PROVE  /\ \A w \in Handler : CloseRequest(w) => h[w].r # r
         /\ \A w \in Handler : FinalizeSearch(w) => h[w].r # r
         /\ \A x \in Offer : AcceptOffer(x) => oreq[x] # r
<1>1. status \in [Request -> RequestStatus]
  BY DEF TypeInv, RowsOK, TablesTypeOK
<1>2. QED
  BY <1>1 DEF CloseRequest, FinalizeSearch, Expire, AcceptOffer, Searching

\* A search that begins has its expiry queued.
LEMMA NewSearch ==
  ASSUME KnowInv, [Next]_vars, faults' = faults, NEW r \in Request,
         status[r] \notin Searching, status'[r] \in Searching
  PROVE  <<"expiry", r>> \in jobs'
<1> DEFINE Goal == <<"expiry", r>> \in jobs'
<1>0. /\ TypeInv /\ status \in [Request -> RequestStatus] /\ status'[r] # status[r]
      /\ faults \in Nat
  BY DEF KnowInv, TypeInv, RowsOK, TablesTypeOK
<1>1. ASSUME NEW w \in Handler, NEW x \in NextRequest, NEW p, NEW q, InsertSearch(x, p, q),
             Enqueue(<<"expiry", x>>), Goto(w, [Idle EXCEPT !.pc = "dispatch", !.r = x])
      PROVE  Goal
  <2>1. x = r
    BY <1>0, <1>1 DEF InsertSearch
  <2>2. QED
    BY <1>0, <1>1, <2>1 DEF Enqueue
<1>2. ASSUME NEW w \in Handler, InsertRequest(w) PROVE Goal
  BY <1>0, <1>1, <1>2 DEF InsertRequest, requests
<1>3. ASSUME NEW w \in Handler, SearchAgain(w) PROVE Goal
  BY <1>0, <1>1, <1>3 DEF SearchAgain, requests
<1>4. ASSUME NEW w \in Handler, NEW q \in Request, RetryRequest(w, q) PROVE Goal
  BY <1>1, <1>4 DEF RetryRequest, Begin, Goto
<1>5. ASSUME NEW w \in Handler, CloseRequest(w) \/ FinalizeSearch(w) \/ Dispatch(w) PROVE FALSE
  BY <1>0, <1>5 DEF CloseRequest, FinalizeSearch, Dispatch, Expire, Searching
<1>6. ASSUME NEW w \in Handler, EmptySweep(w) \/ AnnounceOffer(w) \/ ReopenSearch(w)
      PROVE  FALSE
  BY <1>0, <1>6 DEF EmptySweep, AnnounceOffer, ReopenSearch, Expire, Searching
<1>7. ASSUME NEW w \in Handler, NEW q \in Request, ExpiryFires(w, q) PROVE FALSE
  BY <1>0, <1>7 DEF ExpiryFires, Expire, Searching
<1>8. ASSUME NEW w \in Handler, NEW o \in Offer, CancelByDriver(w, o) \/ CancelByPassenger(w, o)
      PROVE  FALSE
  BY <1>0, <1>8 DEF CancelByDriver, CancelByPassenger, CancelRide, Searching
<1>9. ASSUME NEW o \in Offer, AcceptOffer(o) PROVE FALSE
  BY <1>0, <1>9 DEF AcceptOffer, Searching
<1>10. QED
  BY <1>0, <1>2, <1>3, <1>4, <1>5, <1>6, <1>7, <1>8, <1>9, StatusWritten

LEMMA ExpiryKept ==
  ASSUME KnowInv, [Next]_vars, NEW r \in Request, status[r] \in Searching,
         status'[r] \in Searching, <<"expiry", r>> \in jobs
  PROVE  Ending(r)'
<1>0. TypeInv
  BY DEF KnowInv
<1>1. ASSUME NEW w \in Handler, CloseRequest(w) \/ ReopenSearch(w) PROVE Ending(r)'
  <2>1. CloseRequest(w) => h[w].r # r
    BY <1>0, SearchEnded
  <2>2. <<"expiry", r>> \in jobs'
    BY <1>1, <2>1 DEF CloseRequest, ReopenSearch
  <2>3. QED
    BY <2>2 DEF Ending
<1>2. ASSUME NEW w \in Handler, NEW x \in Request, WaveFires(w, x) PROVE Ending(r)'
  BY <1>2 DEF WaveFires, Ending
<1>3. ASSUME NEW w \in Handler, NEW x \in Request, ExpiryFires(w, x) PROVE Ending(r)'
  <2>1. CASE x # r
    BY <1>3, <2>1 DEF ExpiryFires, Ending
  <2>2. CASE x = r
    <3>1. status \in [Request -> RequestStatus]
      BY <1>0 DEF TypeInv, RowsOK, TablesTypeOK
    <3>2. ~Expire(r)
      BY <3>1 DEF Expire, Searching
    <3>3. PICK o \in Outstanding(r) :
            Goto(w, [Idle EXCEPT !.pc = "retract", !.to = "finalize",
                                 !.r = r, !.o = o, !.d = odrv[o]])
      BY <1>3, <2>2, <3>2 DEF ExpiryFires, Begin, Goto
    <3>4. h'[w] = [Idle EXCEPT !.pc = "retract", !.to = "finalize",
                              !.r = r, !.o = o, !.d = odrv[o]]
      BY <1>0, <3>3, GoesTo
    <3>5. h'[w].pc = "retract" /\ h'[w].to = "finalize" /\ h'[w].r = r
      BY <3>4 DEF Idle
    <3>6. QED
      BY <3>5 DEF Ending, Finalizes
  <2>3. QED
    BY <2>1, <2>2
<1>4. ASSUME NEW w \in Handler, NEW o \in Offer, TimeoutFires(w, o) PROVE Ending(r)'
  BY <1>4 DEF TimeoutFires, Ending
<1>5. ASSUME NEW x \in Offer, AcceptOffer(x) PROVE Ending(r)'
  <2>1. oreq[x] # r
    BY <1>0, <1>5, SearchEnded
  <2>2. <<"expiry", r>> \in jobs'
    BY <1>5, <2>1 DEF AcceptOffer
  <2>3. QED
    BY <2>2 DEF Ending
<1>6. CASE \A j \in jobs : j[1] # "wave" => j \in jobs'
  BY <1>6 DEF Ending
<1>7. QED
  BY <1>1, <1>2, <1>3, <1>4, <1>5, <1>6, JobsTaken

LEMMA SearchTimedStep == KnowInv /\ EverySearchTimed /\ [Next]_vars => EverySearchTimed'
<1> SUFFICES ASSUME KnowInv, EverySearchTimed, [Next]_vars, Flawless', NEW r \in Request,
                    status'[r] \in Searching
             PROVE  Ending(r)'
  BY DEF EverySearchTimed, Ending
<1>0. TypeInv /\ Flawless /\ faults' = faults
  BY Flaws DEF KnowInv
<1>1. CASE status[r] \notin Searching
  BY <1>0, <1>1, NewSearch DEF Ending
<1>2. CASE status[r] \in Searching /\ <<"expiry", r>> \in jobs
  BY <1>2, ExpiryKept
<1>3. ASSUME NEW w \in Handler, Finalizes(w, r) PROVE Ending(r)'
  <2>1. CASE h'[w] = h[w]
    BY <1>3, <2>1 DEF Ending, Finalizes
  <2>2. CASE HandlerStep(w)
    <3>1. \/ FinalizeSearch(w)
          \/ RetractOffer(w) /\ h[w].to = "finalize"
          \/ FreeDriver(w) /\ h[w].to = "finalize"
      BY <1>3, <2>2, NextStatement DEF Finalizes
    <3>2. CASE FinalizeSearch(w)
      BY <1>0, <1>3, <3>2, SearchEnded DEF Finalizes
    <3>3. CASE RetractOffer(w) /\ h[w].to = "finalize"
      <4>1. h'[w].pc = "free" /\ h'[w].to = "finalize" /\ h'[w].r = h[w].r
        BY <1>0, <3>3, AfterStatement
      <4>2. QED
        BY <1>3, <4>1 DEF Ending, Finalizes
    <3>4. CASE FreeDriver(w) /\ h[w].to = "finalize"
      <4>1. h'[w].pc = "finalize" /\ h'[w].r = h[w].r
        BY <1>0, <3>4, AfterStatement
      <4>2. QED
        BY <1>3, <4>1 DEF Ending, Finalizes
    <3>5. QED
      BY <3>1, <3>2, <3>3, <3>4
  <2>3. QED
    BY <1>3, <2>1, <2>2, HandlerGoesOn DEF Finalizes
<1>4. QED
  BY <1>0, <1>1, <1>2, <1>3 DEF EverySearchTimed, Ending

-----------------------------------------------------------------------------
(* Whom a lock is held for *)

\* Until the first availability call no handler is saving a presence row.
NoPresence == toggles = MaxToggles => \A w \in Handler : h[w].pc # "presence"

LEMMA NoPresenceStep == KnowInv /\ NoPresence /\ [Next]_vars => NoPresence'
<1> SUFFICES ASSUME KnowInv, NoPresence, [Next]_vars, (toggles = MaxToggles)',
                    NEW w \in Handler, h'[w].pc = "presence"
             PROVE  FALSE
  BY DEF NoPresence
<1>0. TypeInv /\ h[w].pc # "presence" /\ toggles' = toggles /\ toggles \in Nat
  BY Flaws DEF KnowInv, NoPresence, TypeInv, RowsOK
<1>1. CASE HandlerStep(w)
  <2>1. CASE FindOutstanding(w)
    <3>1. h[w] \in HandlerRecord
      BY <1>0, HandlerFacts
    <3>2. CASE Goto(w, [h[w] EXCEPT !.pc = "close"])
      BY <1>0, <3>1, <3>2, GoesTo DEF HandlerRecord
    <3>3. ASSUME NEW o,
                 Goto(w, [h[w] EXCEPT !.pc = "retract", !.to = "close",
                                      !.o = o, !.d = odrv[o]])
          PROVE  FALSE
      <4>1. h'[w] = [h[w] EXCEPT !.pc = "retract", !.to = "close", !.o = o, !.d = odrv[o]]
        BY <1>0, <3>3, GoesTo
      <4>2. QED
        BY <3>1, <4>1 DEF HandlerRecord
    <3>4. QED
      BY <2>1, <3>2, <3>3 DEF FindOutstanding
  <2>2. CASE RetractOffer(w) \/ CloseOffer(w) \/ LockDriver(w) \/ MakeOffer(w)
    BY <1>0, <2>2, AfterStatement
  <2>3. CASE FreeDriver(w)
    <3>1. h[w].to # "presence"
      BY <1>0, HandlerFacts DEF HandlerRecord
    <3>2. h'[w] = Idle \/ h'[w].pc = h[w].to
      BY <1>0, <2>3, AfterStatement
    <3>3. QED
      BY <3>1, <3>2 DEF Idle
  <2>4. QED
    BY <1>0, <1>1, <2>1, <2>2, <2>3, AfterOthers
<1>2. CASE JobFires(w) \/ UserCall(w)
  <2>1. \E d \in Driver : GoOnline(w, d)
    BY <1>0, <1>2, AfterStart
  <2>2. QED
    BY <1>0, <2>1 DEF GoOnline, Toggle
<1>3. CASE h'[w] = Idle
  BY <1>3 DEF Idle
<1>4. QED
  BY <1>0, <1>1, <1>2, <1>3, HandlerMoved

\* Without an availability call, a lock is taken by a dispatch, and given back
\* by a handler that is done with the driver of the request it holds.
LEMMA LockMoved ==
  ASSUME KnowInv, NoPresence, [Next]_vars, (toggles = MaxToggles)', NEW d \in Driver,
         lock'[d] # lock[d]
  PROVE  \/ \E w \in Handler : /\ FreeDriver(w) /\ h[w].d = d /\ h[w].r = lock[d]
                               /\ lock'[d] = 0
         \/ \E w \in Handler : /\ LockDriver(w) /\ LockIsFree(d) /\ lock'[d] = h[w].r
                               /\ h'[w].pc = "offer" /\ h'[w].d = d /\ h'[w].r = h[w].r
<1>0. /\ TypeInv /\ lock \in [Driver -> Request \cup {0}]
      /\ toggles = MaxToggles /\ toggles' = toggles /\ toggles \in Nat
  BY Flaws DEF KnowInv, TypeInv, RowsOK, TablesTypeOK
<1>1. ASSUME NEW w \in Handler, FreeDriver(w)
      PROVE  h[w].d = d /\ h[w].r = lock[d] /\ lock'[d] = 0
  BY <1>0, <1>1 DEF FreeDriver
<1>2. ASSUME NEW w \in Handler, LockDriver(w)
      PROVE  /\ LockIsFree(d) /\ lock'[d] = h[w].r
             /\ h'[w].pc = "offer" /\ h'[w].d = d /\ h'[w].r = h[w].r
  <2>1. /\ h'[w].pc = "offer" /\ h'[w].r = h[w].r /\ LockIsFree(h'[w].d)
        /\ lock' = [lock EXCEPT ![h'[w].d] = h[w].r]
    BY <1>0, <1>2, AfterStatement
  <2>2. h'[w].d = d
    BY <1>0, <2>1
  <2>3. QED
    BY <1>0, <2>1, <2>2
<1>3. ASSUME NEW w \in Handler PROVE ~SavePresence(w)
  BY <1>0 DEF NoPresence, SavePresence
<1>4. ASSUME NEW x \in Driver PROVE ~GoOffline(x)
  BY <1>0 DEF GoOffline, Toggle
<1>5. QED
  BY <1>1, <1>2, <1>3, <1>4, LockWritten

\* Somebody still answers for the lock that d holds for r: the driver has the
\* offer or the ride, or a handler is about to make the offer or to give the
\* lock back.
HasOfferOrRide(d, r) ==
  \E o \in Offer : odrv[o] = d /\ oreq[o] = r /\ (ostat[o] = "offered" \/ trip[o] # "none")

HasHandler(d, r) ==
  \E w \in Handler : h[w].d = d /\ h[w].r = r /\ h[w].pc \in {"offer", "free"}

Justified(d, r) == status[r] \in Ended \/ HasOfferOrRide(d, r) \/ HasHandler(d, r)

NoLeak == Flawless /\ toggles = MaxToggles =>
            \A d \in Driver : lock[d] # 0 => Justified(d, lock[d])

LEMMA OfferOrRideKept ==
  ASSUME KnowInv, [Next]_vars, NEW d, NEW r, HasOfferOrRide(d, r)
  PROVE  HasOfferOrRide(d, r)' \/ HasHandler(d, r)'
<1>0. TypeInv /\ ostat \in [Offer -> OfferStatus] /\ trip \in [Offer -> TripStage]
  BY DEF KnowInv, TypeInv, RowsOK, TablesTypeOK
<1>1. PICK o \in Offer : odrv[o] = d /\ oreq[o] = r /\ (ostat[o] = "offered" \/ trip[o] # "none")
  BY DEF HasOfferOrRide
<1>2. ostat[o] # "unused"
  BY <1>0, <1>1 DEF TypeInv, RowsOK
<1>3. odrv'[o] = d /\ oreq'[o] = r
  BY <1>0, <1>1, <1>2, OffersMove
<1>4. CASE trip[o] # "none" \/ ostat'[o] = "offered"
  <2>1. trip'[o] # "none" \/ ostat'[o] = "offered"
    BY <1>0, <1>4, RowsMove
  <2>2. QED
    BY <1>3, <2>1 DEF HasOfferOrRide
<1>5. ASSUME NEW w \in Handler, RetractOffer(w) \/ CloseOffer(w), ostat'[o] # ostat[o]
      PROVE  HasHandler(d, r)'
  <2>1. h[w].o = o /\ h[w].pc \in {"retract", "answer"}
    BY <1>0, <1>5 DEF RetractOffer, CloseOffer
  <2>2. h[w].r = r /\ h[w].d = d
    BY <1>1, <2>1 DEF KnowInv, HandlerHolds
  <2>3. h'[w].pc = "free" /\ h'[w].r = r /\ h'[w].d = d
    BY <1>0, <1>5, <2>2, AfterStatement
  <2>4. QED
    BY <2>3 DEF HasHandler
<1>6. ASSUME NEW w \in Handler, MakeOffer(w) \/ SearchAgain(w) PROVE ostat'[o] = ostat[o]
  <2>1. ASSUME NEW x \in NextOffer, NEW q, NEW e, NEW st, InsertOffer(x, q, e, st)
        PROVE  ostat'[o] = ostat[o]
    BY <1>0, <1>2, <2>1 DEF NextOffer, InsertOffer
  <2>2. QED
    BY <1>6, <2>1 DEF MakeOffer, SearchAgain, offers
<1>7. ASSUME NEW x \in Offer, AcceptOffer(x), ostat'[o] # ostat[o]
      PROVE  HasOfferOrRide(d, r)'
  <2>1. x = o
    BY <1>0, <1>7 DEF AcceptOffer
  <2>2. trip'[o] = "assigned"
    BY <1>0, <1>7, <2>1 DEF AcceptOffer
  <2>3. QED
    BY <1>3, <2>2 DEF HasOfferOrRide
<1>8. QED
  BY <1>1, <1>4, <1>5, <1>6, <1>7, OffersWritten

LEMMA HandlerKept ==
  ASSUME KnowInv, NoPresence, [Next]_vars, Flawless', NEW d \in Driver, NEW r \in Request,
         lock[d] = r, lock'[d] = r, HasHandler(d, r)
  PROVE  HasOfferOrRide(d, r)' \/ HasHandler(d, r)'
<1>0. /\ TypeInv /\ ostat \in [Offer -> OfferStatus] /\ oreq \in [Offer -> Request \cup {0}]
      /\ odrv \in [Offer -> Driver \cup {Nobody}] /\ lock \in [Driver -> Request \cup {0}]
  BY DEF KnowInv, TypeInv, RowsOK, TablesTypeOK
<1>1. PICK w \in Handler : h[w].d = d /\ h[w].r = r /\ h[w].pc \in {"offer", "free"}
  BY DEF HasHandler
<1>2. CASE h'[w] = h[w]
  BY <1>1, <1>2 DEF HasHandler
<1>3. CASE MakeOffer(w)
  <2>1. h'[w].o \in NextOffer /\ InsertOffer(h'[w].o, r, d, "offered")
    BY <1>0, <1>1, <1>3, AfterStatement
  <2>2. /\ h'[w].o \in Offer /\ ostat'[h'[w].o] = "offered"
        /\ oreq'[h'[w].o] = r /\ odrv'[h'[w].o] = d
    BY <1>0, <2>1 DEF NextOffer, InsertOffer
  <2>3. QED
    BY <2>2 DEF HasOfferOrRide
<1>4. CASE FreeDriver(w)
  <2>1. lock'[d] = 0 /\ r # 0
    BY <1>0, <1>1, <1>4 DEF FreeDriver, Request
  <2>2. QED
    BY <2>1
<1>5. QED
  BY <1>1, <1>2, <1>3, <1>4, HandlerGoesOn, NextStatement

LEMMA NoLeakStep == KnowInv /\ NoPresence /\ NoLeak /\ [Next]_vars => NoLeak'
<1> SUFFICES ASSUME KnowInv, NoPresence, NoLeak, [Next]_vars, Flawless',
                    (toggles = MaxToggles)', NEW d \in Driver, lock'[d] # 0
             PROVE  Justified(d, lock[d])'
  BY DEF NoLeak
<1>0. /\ TypeInv /\ Flawless /\ toggles = MaxToggles
      /\ lock \in [Driver -> Request \cup {0}]
  BY Flaws DEF KnowInv, TypeInv, RowsOK, TablesTypeOK
<1>1. CASE lock'[d] # lock[d]
  BY <1>1, LockMoved DEF Justified, HasHandler
<1>2. CASE lock'[d] = lock[d]
  <2> DEFINE r == lock[d]
  <2>1. r \in Request /\ Justified(d, r)
    BY <1>0, <1>2 DEF NoLeak
  <2>2. CASE status[r] \in Ended
    BY <1>0, <1>2, <2>1, <2>2, RowsMove DEF Justified
  <2>3. CASE HasOfferOrRide(d, r)
    <3>1. ASSUME NEW q \in Request, q = r PROVE HasOfferOrRide(d, q)' \/ HasHandler(d, q)'
      BY <2>3, <3>1, OfferOrRideKept
    <3>2. QED
      BY <1>2, <2>1, <3>1 DEF Justified
  <2>4. CASE HasHandler(d, r)
    <3>1. ASSUME NEW q \in Request, q = r PROVE HasOfferOrRide(d, q)' \/ HasHandler(d, q)'
      BY <1>2, <2>4, <3>1, HandlerKept
    <3>2. QED
      BY <1>2, <2>1, <3>1 DEF Justified
  <2>5. QED
    BY <2>1, <2>2, <2>3, <2>4 DEF Justified
<1>3. QED
  BY <1>1, <1>2

-----------------------------------------------------------------------------
(* The lock while nobody was asked twice *)

Asked(r, d) == \E o \in Offer : ostat[o] # "unused" /\ oreq[o] = r /\ odrv[o] = d

\* The driver of an outstanding offer is locked for its request, and so is the
\* one a dispatch is about to make an offer to, unless they were asked before.
Exclusive ==
  toggles = MaxToggles /\ AskedOnce =>
    /\ \A o \in Offer :
         ostat[o] = "offered" /\ status[oreq[o]] \in Searching => lock[odrv[o]] = oreq[o]
    /\ \A w \in Handler :
         h[w].pc = "offer" /\ status[h[w].r] \in Searching =>
           lock[h[w].d] = h[w].r \/ Asked(h[w].r, h[w].d)

LEMMA AskedBefore ==
  ASSUME TypeInv, [Next]_vars, AskedOnce'
  PROVE  AskedOnce
<1>1. SUFFICES ASSUME NEW o \in Offer, NEW x \in Offer, ostat[o] # "unused",
                      ostat[x] # "unused", oreq[o] = oreq[x], odrv[o] = odrv[x]
               PROVE  o = x
  BY DEF AskedOnce
<1>2. /\ oreq'[o] = oreq[o] /\ odrv'[o] = odrv[o] /\ ostat'[o] # "unused"
      /\ oreq'[x] = oreq[x] /\ odrv'[x] = odrv[x] /\ ostat'[x] # "unused"
  BY <1>1, OffersMove
<1>3. QED
  BY <1>1, <1>2 DEF AskedOnce

LEMMA AskedStays ==
  ASSUME TypeInv, [Next]_vars, NEW r, NEW d, Asked(r, d)
  PROVE  Asked(r, d)'
<1>1. PICK o \in Offer : ostat[o] # "unused" /\ oreq[o] = r /\ odrv[o] = d
  BY DEF Asked
<1>2. oreq'[o] = r /\ odrv'[o] = d /\ ostat'[o] # "unused"
  BY <1>1, OffersMove
<1>3. QED
  BY <1>2 DEF Asked

\* A driver loses the lock of a search only to the answer of a closed offer.
LEMMA LockLost ==
  ASSUME KnowInv, NoPresence, [Next]_vars, (toggles = MaxToggles)', NEW d \in Driver,
         NEW r \in Request, status[r] \in Searching, lock[d] = r, lock'[d] # r
  PROVE  \E x \in Offer : ostat[x] \in Closed /\ oreq[x] = r /\ odrv[x] = d
<1>1. ASSUME NEW w \in Handler, FreeDriver(w), h[w].d = d, h[w].r = r
      PROVE  \E x \in Offer : ostat[x] \in Closed /\ oreq[x] = r /\ odrv[x] = d
  <2>1. HandlerHolds(h[w]) /\ h[w].pc = "free" /\ h[w].o \in Offer \cup {0}
    BY <1>1, HandlerFacts DEF KnowInv, FreeDriver, HandlerRecord
  <2>2. h[w].o # 0
    BY <1>1, <2>1 DEF HandlerHolds, Searching
  <2>3. QED
    BY <1>1, <2>1, <2>2 DEF HandlerHolds
<1>2. r # 0
  BY DEF Request
<1>3. ~LockIsFree(d)
  BY <1>2 DEF LockIsFree, RequestIsOver
<1>4. QED
  BY <1>1, <1>3, LockMoved

LEMMA LockedForOffer ==
  ASSUME KnowInv, NoPresence, Exclusive, [Next]_vars, AskedOnce', (toggles = MaxToggles)',
         NEW o \in Offer, ostat'[o] = "offered", status'[oreq'[o]] \in Searching
  PROVE  lock'[odrv'[o]] = oreq'[o]
<1>0. /\ TypeInv /\ toggles = MaxToggles /\ AskedOnce /\ ostat \in [Offer -> OfferStatus]
      /\ oreq \in [Offer -> Request \cup {0}] /\ odrv \in [Offer -> Driver \cup {Nobody}]
      /\ status \in [Request -> RequestStatus]
  BY Flaws, AskedBefore DEF KnowInv, TypeInv, RowsOK, TablesTypeOK
<1>1. CASE ostat[o] = "offered"
  <2>1. /\ oreq'[o] = oreq[o] /\ odrv'[o] = odrv[o]
        /\ oreq[o] \in Request /\ odrv[o] \in Driver /\ status[oreq[o]] # "unused"
    BY <1>0, <1>1, OffersMove DEF TypeInv, RowsOK, OffersKnown
  <2>2. status[oreq[o]] \in Searching
    BY <1>0, <2>1, RowsMove
  <2>3. lock[odrv[o]] = oreq[o]
    BY <1>0, <1>1, <2>2 DEF Exclusive
  <2>4. ASSUME NEW x \in Offer, ostat[x] \in Closed, oreq[x] = oreq[o], odrv[x] = odrv[o]
        PROVE  FALSE
    BY <1>0, <1>1, <2>4 DEF AskedOnce, Closed
  <2>5. ASSUME NEW d \in Driver, NEW r \in Request, d = odrv[o], r = oreq[o]
        PROVE  lock'[d] = r
    BY <2>2, <2>3, <2>4, <2>5, LockLost
  <2>6. QED
    BY <2>1, <2>5
<1>2. ASSUME NEW w \in Handler, MakeOffer(w), ostat[o] # "offered"
      PROVE  lock'[odrv'[o]] = oreq'[o]
  <2>1. h'[w].o \in NextOffer /\ InsertOffer(h'[w].o, h[w].r, h[w].d, "offered")
    BY <1>0, <1>2, AfterStatement
  <2>2. h'[w].o = o
    BY <1>0, <1>2, <2>1 DEF InsertOffer
  <2>3. oreq'[o] = h[w].r /\ odrv'[o] = h[w].d /\ ostat[o] = "unused"
    BY <1>0, <2>1, <2>2 DEF InsertOffer, NextOffer
  <2>4. lock' = lock /\ status' = status /\ h[w].pc = "offer"
    BY <1>2 DEF MakeOffer, requests, drivers
  <2>5. lock[h[w].d] = h[w].r \/ Asked(h[w].r, h[w].d)
    BY <1>0, <2>3, <2>4 DEF Exclusive
  <2>6. ASSUME NEW x \in Offer, ostat[x] # "unused", oreq[x] = h[w].r, odrv[x] = h[w].d
        PROVE  FALSE
    <3>1. oreq'[x] = h[w].r /\ odrv'[x] = h[w].d /\ ostat'[x] # "unused"
      BY <1>0, <2>6, OffersMove
    <3>2. x = o
      BY <2>3, <3>1 DEF AskedOnce
    <3>3. QED
      BY <2>3, <2>6, <3>2
  <2>7. QED
    BY <2>3, <2>4, <2>5, <2>6 DEF Asked
<1>3. ASSUME NEW w \in Handler, RetractOffer(w) \/ CloseOffer(w), ostat[o] # "offered"
      PROVE  FALSE
  BY <1>0, <1>3 DEF RetractOffer, CloseOffer
<1>4. ASSUME NEW w \in Handler, SearchAgain(w), ostat[o] # "offered" PROVE FALSE
  BY <1>0, <1>4 DEF SearchAgain, InsertOffer, offers
<1>5. ASSUME NEW x \in Offer, AcceptOffer(x), ostat[o] # "offered" PROVE FALSE
  BY <1>0, <1>5 DEF AcceptOffer
<1>6. QED
  BY <1>1, <1>2, <1>3, <1>4, <1>5, OffersWritten

LEMMA LockedToOffer ==
  ASSUME KnowInv, NoPresence, Exclusive, [Next]_vars, AskedOnce', (toggles = MaxToggles)',
         NEW w \in Handler, h'[w].pc = "offer", NEW r, NEW d, h'[w].r = r, h'[w].d = d,
         status'[r] \in Searching
  PROVE  lock'[d] = r \/ Asked(r, d)'
<1>0. TypeInv /\ toggles = MaxToggles /\ AskedOnce /\ h[w] \in HandlerRecord
  BY Flaws, AskedBefore, HandlerFacts DEF KnowInv
<1>1. CASE h'[w] = h[w]
  <2>1. /\ h[w].pc = "offer" /\ h[w].r = r /\ h[w].d = d
        /\ r \in Request /\ d \in Driver /\ status[r] # "unused"
    <3>1. h[w].pc = "offer" /\ h[w].r = r /\ h[w].d = d
      BY <1>1
    <3>2. HandlerKnows(h[w])
      BY <1>0, HandlerFacts
    <3>3. QED
      BY <3>1, <3>2 DEF HandlerKnows
  <2>2. status[r] \in Searching
    BY <1>0, <2>1, RowsMove
  <2>3. lock[d] = r \/ Asked(r, d)
    BY <1>0, <2>1, <2>2 DEF Exclusive
  <2>4. CASE Asked(r, d)
    BY <1>0, <2>4, AskedStays
  <2>5. CASE lock[d] = r /\ lock'[d] # r
    <3>1. Asked(r, d)
      BY <2>1, <2>2, <2>5, LockLost DEF Asked, Closed
    <3>2. QED
      BY <1>0, <3>1, AskedStays
  <2>6. QED
    BY <2>3, <2>4, <2>5
<1>2. CASE LockDriver(w)
  <2>1. /\ d \in Driver /\ h[w].r = r /\ lock' = [lock EXCEPT ![d] = r]
    BY <1>0, <1>2, AfterStatement
  <2>2. lock \in [Driver -> Request \cup {0}]
    BY <1>0 DEF TypeInv, RowsOK, TablesTypeOK
  <2>3. QED
    BY <2>1, <2>2
<1>3. CASE HandlerStep(w) /\ ~LockDriver(w)
  <2>1. CASE FindOutstanding(w)
    <3>1. CASE Goto(w, [h[w] EXCEPT !.pc = "close"])
      BY <1>0, <3>1, GoesTo DEF HandlerRecord
    <3>2. ASSUME NEW o,
                 Goto(w, [h[w] EXCEPT !.pc = "retract", !.to = "close",
                                      !.o = o, !.d = odrv[o]])
          PROVE  FALSE
      <4>1. h'[w] = [h[w] EXCEPT !.pc = "retract", !.to = "close", !.o = o, !.d = odrv[o]]
        BY <1>0, <3>2, GoesTo
      <4>2. QED
        BY <1>0, <4>1 DEF HandlerRecord
    <3>3. QED
      BY <2>1, <3>1, <3>2 DEF FindOutstanding
  <2>2. CASE RetractOffer(w) \/ CloseOffer(w) \/ MakeOffer(w)
    BY <1>0, <2>2, AfterStatement
  <2>3. CASE FreeDriver(w)
    <3>1. h[w].to # "offer"
      BY <1>0 DEF HandlerRecord
    <3>2. h'[w] = Idle \/ h'[w].pc = h[w].to
      BY <1>0, <2>3, AfterStatement
    <3>3. QED
      BY <3>1, <3>2 DEF Idle
  <2>4. QED
    BY <1>0, <1>3, <2>1, <2>2, <2>3, AfterOthers
<1>4. CASE JobFires(w) \/ UserCall(w)
  BY <1>0, <1>4, AfterStart
<1>5. CASE h'[w] = Idle
  BY <1>5 DEF Idle
<1>6. QED
  BY <1>0, <1>1, <1>2, <1>3, <1>4, <1>5, HandlerMoved

LEMMA ExclusiveStep == KnowInv /\ NoPresence /\ Exclusive /\ [Next]_vars => Exclusive'
<1> SUFFICES ASSUME KnowInv, NoPresence, Exclusive, [Next]_vars, AskedOnce',
                    (toggles = MaxToggles)'
             PROVE  /\ \A o \in Offer :
                         ostat'[o] = "offered" /\ status'[oreq'[o]] \in Searching =>
                           lock'[odrv'[o]] = oreq'[o]
                    /\ \A w \in Handler :
                         h'[w].pc = "offer" /\ status'[h'[w].r] \in Searching =>
                           lock'[h'[w].d] = h'[w].r \/ Asked(h[w].r, h[w].d)'
  BY DEF Exclusive
<1>1. ASSUME NEW o \in Offer, ostat'[o] = "offered", status'[oreq'[o]] \in Searching
      PROVE  lock'[odrv'[o]] = oreq'[o]
  BY <1>1, LockedForOffer
<1>2. ASSUME NEW w \in Handler, h'[w].pc = "offer", status'[h'[w].r] \in Searching
      PROVE  lock'[h'[w].d] = h'[w].r \/ Asked(h[w].r, h[w].d)'
  <2>1. ASSUME NEW r, NEW d, h'[w].r = r, h'[w].d = d PROVE lock'[d] = r \/ Asked(r, d)'
    BY <1>2, <2>1, LockedToOffer
  <2>2. QED
    BY <2>1 DEF Asked
<1>3. QED
  BY <1>1, <1>2

-----------------------------------------------------------------------------
(* Theorems *)

SearchInv == /\ KnowInv /\ OfferTimed /\ EverySearchTimed
             /\ NoPresence /\ NoLeak /\ Exclusive

\* At the start nobody searches, nobody is locked and no job is queued: every
\* part of the invariant holds of the empty tables.
LEMMA SearchInit == Init => SearchInv
<1> SUFFICES ASSUME Init PROVE SearchInv
  OBVIOUS
<1>1. KnowInv
  BY KnowInit
<1>2. OfferTimed /\ EverySearchTimed
  BY DEF Init, OfferTimed, EverySearchTimed, Searching
<1>3. NoPresence /\ NoLeak /\ Exclusive
  BY DEF Init, NoPresence, NoLeak, Exclusive, Idle
<1>4. QED
  BY <1>1, <1>2, <1>3 DEF SearchInv

\* Every await of a handler, every job and every call keeps the responsibilities
\* of the search: whoever takes one over has it until it is passed on or done.
THEOREM SearchInvariant == Spec => []SearchInv
<1>1. SearchInv /\ [Next]_vars => SearchInv'
  BY KnowStep, OfferTimedStep, SearchTimedStep, NoPresenceStep, NoLeakStep, ExclusiveStep
     DEF SearchInv
<1>2. QED
  BY <1>1, SearchInit, PTL DEF Spec

\* When nothing is in flight and nothing failed, each outstanding offer has its
\* timeout in the queue (announceOffer and the three handlers that close one).
THEOREM OffersTimed == Spec => []EveryOfferTimed
<1>1. SearchInv => EveryOfferTimed
  BY DEF SearchInv, OfferTimed, EveryOfferTimed, Timed, Minds, Quiet, Idle
<1>2. QED
  BY <1>1, SearchInvariant, PTL

\* While nothing failed, a search has its expiry in the queue or a handler that
\* is ending it: dispatchNext, the withdrawal, the answers, the claims and the
\* jobs that race them never drop it between them.
THEOREM SearchTimed == Spec => []EverySearchTimed
<1>1. SearchInv => EverySearchTimed
  BY DEF SearchInv
<1>2. QED
  BY <1>1, SearchInvariant, PTL

\* When nothing is in flight and nothing failed, a driver who never touched
\* their availability is locked only for an offer still open or a ride still on
\* (tryLockDriver, freeDriver and the claims of finalizeMatch).
THEOREM LocksNotLeaked == Spec => []NoLeakedLock
<1>1. ASSUME SearchInv, RideInv, Quiet, Flawless, toggles = MaxToggles, NEW d \in Driver,
             ~LockIsFree(d)
      PROVE  \E o \in Offer : /\ odrv[o] = d /\ oreq[o] = lock[d]
                              /\ ostat[o] = "offered" \/ trip[o] \in LiveTrip
  <2>1. lock[d] # 0 /\ ~RequestIsOver(lock[d])
    BY <1>1 DEF LockIsFree
  <2>2. ~HasHandler(d, lock[d]) /\ status[lock[d]] \notin Ended
    BY <1>1, <2>1 DEF Quiet, Idle, HasHandler, RequestIsOver, Searching
  <2>3. PICK o \in Offer :
          /\ odrv[o] = d /\ oreq[o] = lock[d]
          /\ ostat[o] = "offered" \/ trip[o] # "none"
    BY <1>1, <2>1, <2>2 DEF SearchInv, NoLeak, Justified, HasOfferOrRide
  <2>4. CASE trip[o] # "none"
    <3>1. ride[lock[d]] = o /\ status[lock[d]] = "accepted"
      BY <1>1, <2>2, <2>3, <2>4 DEF RideInv, OneRidePerRequest
    <3>2. TablesTypeOK
      BY <1>1 DEF SearchInv, KnowInv, TypeInv, RowsOK
    <3>5. o # 0 /\ trip[o] \in TripStage
      BY <3>2 DEF TablesTypeOK, Offer
    <3>3. trip[o] \in LiveTrip
      BY <2>1, <2>4, <3>1, <3>5 DEF RequestIsOver, RideIsOver, Searching, TripStage
    <3>4. QED
      BY <2>3, <3>3
  <2>5. QED
    BY <2>3, <2>4
<1>2. SearchInv /\ RideInv => NoLeakedLock
  BY <1>1 DEF NoLeakedLock
<1>3. Spec => []RideInv
  BY TypeInit, TypeStep, RideInit, RideStep, PTL DEF Spec
<1>4. QED
  BY <1>2, <1>3, SearchInvariant, PTL

\* While no driver touched their availability or was asked twice for a request,
\* nobody holds the offers of two requests that are both still searched for:
\* the conditional UPDATE of tryLockDriver and the request id in freeDriver.
THEOREM OfferExclusive == Spec => []OneLiveOfferPerDriver
<1>1. ASSUME SearchInv, toggles = MaxToggles, AskedOnce, NEW o \in Offer, NEW x \in Offer,
             odrv[o] = odrv[x], ostat[o] = "offered", ostat[x] = "offered",
             status[oreq[o]] \in Searching, status[oreq[x]] \in Searching
      PROVE  o = x
  <2>1. lock[odrv[o]] = oreq[o] /\ lock[odrv[x]] = oreq[x]
    BY <1>1 DEF SearchInv, Exclusive
  <2>2. QED
    BY <1>1, <2>1 DEF AskedOnce
<1>2. SearchInv => OneLiveOfferPerDriver
  BY <1>1 DEF OneLiveOfferPerDriver, OneOfferPerDriver
<1>3. QED
  BY <1>2, SearchInvariant, PTL
=============================================================================
