------------------------ MODULE InstantDispatchProofs ------------------------
(***************************************************************************)
(* Theorems of InstantDispatch, for any number of passengers, drivers,     *)
(* handlers, requests, offers, availability calls and faults.              *)
(*                                                                         *)
(* The type invariant is not inductive by itself: what a handler does next *)
(* is well typed only because of what it read earlier.  TypeInv adds what  *)
(* a handler knows at each program counter, and that rows are complete     *)
(* once inserted; rows are never deleted, so what is known stays true.     *)
(***************************************************************************)
EXTENDS InstantDispatch, TLAPS

\* The row of an offer names a request there is and a driver.
OffersKnown ==
  \A o \in Offer : ostat[o] # "unused" =>
    oreq[o] \in Request /\ status[oreq[o]] # "unused" /\ odrv[o] \in Driver

Ended == {"expired", "cancelled"}

\* At these points a handler has no request, or only a trip.
OnTrip == {"save", "complete", "ridden", "settle"}
Unasked == {"idle", "insert", "presence"} \cup OnTrip

\* What a handler in state x has read and relies on.
HandlerKnows(x) ==
  /\ x.pc = "insert" => x.p \in Passenger
  /\ x.pc \notin Unasked => x.r \in Request
  /\ x.pc \notin Unasked \cup {"dispatch"} =>
       status[x.r] # "unused"
  /\ x.pc \in {"offer", "free", "research", "retract", "answer", "presence"} =>
       x.d \in Driver
  /\ x.pc \in {"announce", "retract", "answer"} \cup OnTrip =>
       x.o \in Offer /\ ostat[x.o] # "unused"
  /\ x.pc = "retract" => x.to \in {"close", "finalize"}
  /\ x.pc = "free" => x.to \in {"idle", "close", "finalize", "reopen", "research"}
  /\ x.pc = "research" \/ (x.pc = "free" /\ x.to = "research") => status[x.r] \in Ended
  /\ x.pc \in OnTrip => trip[x.o] # "none"
  /\ x.pc = "save" => x.to \in {"arrived", "riding"}

RowsOK ==
  /\ TablesTypeOK
  /\ jobs \subseteq ({"expiry", "wave"} \X Request) \cup ({"offer"} \X Offer)
  /\ toggles \in Nat /\ faults \in Nat
  /\ OffersKnown
  /\ \A o \in Offer : trip[o] # "none" => ostat[o] # "unused"

HandlersOK ==
  /\ h \in [Handler -> HandlerRecord]
  /\ \A w \in Handler : HandlerKnows(h[w])

TypeInv == RowsOK /\ HandlersOK

-----------------------------------------------------------------------------
(* Steps *)

\* No row is ever deleted, and no request comes back.
RowsStay ==
  /\ \A r \in Request : status[r] # "unused" => status'[r] # "unused"
  /\ \A r \in Request : status[r] \in Ended => status'[r] \in Ended
  /\ \A o \in Offer : ostat[o] # "unused" => ostat'[o] # "unused"
  /\ \A o \in Offer : trip[o] # "none" => trip'[o] # "none"

\* Only handler w moves, and it knows what its next step relies on.
Moves(w) ==
  /\ h' = [h EXCEPT ![w] = h'[w]]
  /\ h'[w] \in HandlerRecord
  /\ HandlerKnows(h[w])'

USE DispatchAssumption DEF DispatchAssumption, Ended, OnTrip, Unasked

\* What any handler knows survives the steps of the others.
LEMMA KnowledgeStays ==
  ASSUME TypeInv, RowsStay, NEW v \in Handler, h'[v] = h[v]
  PROVE  HandlerKnows(h[v])'
<1>1. h[v] \in HandlerRecord /\ HandlerKnows(h[v])
  BY DEF TypeInv, HandlersOK
<1>2. QED
  BY <1>1 DEF HandlerKnows, RowsStay, HandlerRecord

LEMMA HandlerMoves ==
  ASSUME TypeInv, RowsOK', RowsStay, NEW w \in Handler, Moves(w)
  PROVE  TypeInv'
<1>1. h' \in [Handler -> HandlerRecord]
  BY DEF TypeInv, HandlersOK, Moves
<1>2. ASSUME NEW v \in Handler PROVE HandlerKnows(h[v])'
  <2>1. CASE v = w
    BY <2>1 DEF Moves
  <2>2. CASE v # w
    BY <2>2, KnowledgeStays DEF TypeInv, HandlersOK, Moves
  <2>3. QED
    BY <2>1, <2>2
<1>3. QED
  BY <1>1, <1>2 DEF TypeInv, HandlersOK

LEMMA HandlersRest ==
  ASSUME TypeInv, RowsOK', RowsStay, UNCHANGED h
  PROVE  TypeInv'
<1>1. \A v \in Handler : HandlerKnows(h[v])'
  BY KnowledgeStays
<1>2. QED
  BY <1>1 DEF TypeInv, HandlersOK

\* Steps that only read.
LEMMA RowsRest ==
  ASSUME TypeInv, UNCHANGED <<requests, offers, rides, drivers, budget>>, jobs' \subseteq jobs
  PROVE  RowsOK' /\ RowsStay
BY DEF TypeInv, RowsOK, RowsStay, TablesTypeOK, OffersKnown,
       requests, offers, rides, drivers, budget

LEMMA HandlerFacts ==
  ASSUME TypeInv, NEW w \in Handler
  PROVE  h \in [Handler -> HandlerRecord] /\ h[w] \in HandlerRecord /\ HandlerKnows(h[w])
BY DEF TypeInv, HandlersOK


\* The steps that many handlers share.
LEMMA IdleMoves ==
  ASSUME TypeInv, NEW w \in Handler, Goto(w, Idle)
  PROVE  Moves(w)
BY HandlerFacts DEF Goto, Moves, Idle, HandlerRecord, HandlerKnows, Pc

LEMMA DispatchMoves ==
  ASSUME TypeInv, NEW w \in Handler, NEW r \in Request,
         Goto(w, [Idle EXCEPT !.pc = "dispatch", !.r = r])
  PROVE  Moves(w)
<1>1. h' = [h EXCEPT ![w] = h'[w]] /\ h'[w] = [Idle EXCEPT !.pc = "dispatch", !.r = r]
  BY HandlerFacts DEF Goto
<1>2. h'[w] \in HandlerRecord
  BY <1>1 DEF Idle, HandlerRecord, Pc
<1>3. HandlerKnows(h[w])'
  BY <1>1 DEF Idle, HandlerKnows
<1>4. QED
  BY <1>1, <1>2, <1>3 DEF Moves

LEMMA WaveMoves ==
  ASSUME TypeInv, NEW w \in Handler, NEW r \in Request,
         Goto(w, [Idle EXCEPT !.pc = "dispatch", !.r = r, !.wave = TRUE])
  PROVE  Moves(w)
<1>1. /\ h' = [h EXCEPT ![w] = h'[w]]
      /\ h'[w] = [Idle EXCEPT !.pc = "dispatch", !.r = r, !.wave = TRUE]
  BY HandlerFacts DEF Goto
<1>2. h'[w] \in HandlerRecord
  BY <1>1 DEF Idle, HandlerRecord, Pc
<1>3. HandlerKnows(h[w])'
  BY <1>1 DEF Idle, HandlerKnows
<1>4. QED
  BY <1>1, <1>2, <1>3 DEF Moves

LEMMA AnswerMoves ==
  ASSUME TypeInv, RowsStay, NEW w \in Handler, NEW o \in Offer, ostat[o] = "offered",
         Goto(w, [Idle EXCEPT !.pc = "answer", !.r = oreq[o],
                                            !.o = o, !.d = odrv[o]])
  PROVE  Moves(w)
<1>1. h' = [h EXCEPT ![w] = h'[w]] /\ h'[w] = [Idle EXCEPT !.pc = "answer", !.r = oreq[o],
                                                         !.o = o, !.d = odrv[o]]
  BY HandlerFacts DEF Goto
<1>2. oreq[o] \in Request /\ odrv[o] \in Driver /\ status[oreq[o]] # "unused"
  BY DEF TypeInv, RowsOK, OffersKnown
<1>3. h'[w] \in HandlerRecord
  BY <1>1, <1>2 DEF Idle, HandlerRecord, Pc
<1>4. HandlerKnows(h[w])'
  BY <1>1, <1>2 DEF Idle, HandlerKnows, RowsStay
<1>5. QED
  BY <1>1, <1>3, <1>4 DEF Moves

LEMMA SearchInserted ==
  ASSUME TypeInv, NEW r \in NextRequest, NEW p \in Passenger \cup {Nobody},
         NEW q \in Request \cup {0}, InsertSearch(r, p, q), Enqueue(<<"expiry", r>>),
         UNCHANGED <<offers, rides, drivers, toggles>>
  PROVE  RowsOK' /\ RowsStay
<1>1. /\ TablesTypeOK' /\ OffersKnown' /\ RowsStay
      /\ \A o \in Offer : trip'[o] # "none" => ostat'[o] # "unused"
  BY DEF TypeInv, RowsOK, TablesTypeOK, OffersKnown, RowsStay, NextRequest, InsertSearch,
         RequestStatus, Searching, offers, rides, drivers
<1>2. jobs' \subseteq ({"expiry", "wave"} \X Request) \cup ({"offer"} \X Offer)
  BY DEF TypeInv, RowsOK, Enqueue, NextRequest
<1>3. toggles' \in Nat /\ faults' \in Nat
  BY DEF TypeInv, RowsOK, Enqueue
<1>4. QED
  BY <1>1, <1>2, <1>3 DEF RowsOK

-----------------------------------------------------------------------------
(* Types *)

\* Before the first createRequest the tables and the queues are empty, and the
\* invariant holds of them.
THEOREM TypeInit == Init => TypeInv
BY DEF Init, TypeInv, RowsOK, HandlersOK, TablesTypeOK, OffersKnown, HandlerKnows,
       HandlerRecord, Idle, Pc, RequestStatus, Searching, OfferStatus, TripStage,
       LiveTrip, Waiting, BookingStatus

LEMMA TypeStep == TypeInv /\ [Next]_vars => TypeInv'
<1> SUFFICES ASSUME TypeInv, [Next]_vars PROVE TypeInv'
  OBVIOUS
<1>1. ASSUME NEW w \in Handler, NEW p \in Passenger, CreateRequest(w, p) PROVE TypeInv'
  <2>1. RowsOK' /\ RowsStay
    BY <1>1, RowsRest DEF CreateRequest
  <2>2. CASE Begin(w, [Idle EXCEPT !.pc = "insert", !.p = p])
    <3>1. h' = [h EXCEPT ![w] = h'[w]] /\ h'[w] = [Idle EXCEPT !.pc = "insert", !.p = p]
      BY <2>2, HandlerFacts DEF Begin
    <3>2. h'[w] \in HandlerRecord /\ HandlerKnows(h[w])'
      BY <3>1 DEF HandlerRecord, Pc, Idle, HandlerKnows
    <3>3. QED
      BY <2>1, <3>1, <3>2, HandlerMoves DEF Moves
  <2>3. ASSUME NEW r \in LiveRequest(p), status[r] \in Searching,
               Begin(w, [Idle EXCEPT !.pc = "withdraw", !.r = r, !.p = p])
        PROVE  TypeInv'
    <3>1. /\ h' = [h EXCEPT ![w] = h'[w]]
          /\ h'[w] = [Idle EXCEPT !.pc = "withdraw", !.r = r, !.p = p]
      BY <2>3, HandlerFacts DEF Begin
    <3>2. r \in Request /\ status[r] # "unused"
      BY <2>3 DEF LiveRequest, LiveRows, Searching
    <3>3. h'[w] \in HandlerRecord
      BY <3>1, <3>2 DEF HandlerRecord, Pc, Idle
    <3>4. HandlerKnows(h[w])'
      BY <2>1, <3>1, <3>2 DEF HandlerKnows, RowsStay, Idle
    <3>5. QED
      BY <2>1, <3>1, <3>3, <3>4, HandlerMoves DEF Moves
  <2>4. QED
    BY <1>1, <2>2, <2>3 DEF CreateRequest
<1>2. ASSUME NEW w \in Handler, InsertRequest(w) PROVE TypeInv'
  <2>1. ASSUME NEW r \in NextRequest, InsertSearch(r, h[w].p, 0), Enqueue(<<"expiry", r>>),
               Goto(w, [Idle EXCEPT !.pc = "dispatch", !.r = r])
        PROVE  TypeInv'
    <3>1. h[w].p \in Passenger \cup {Nobody}
      BY HandlerFacts DEF HandlerRecord
    <3>2. RowsOK' /\ RowsStay
      BY <1>2, <2>1, <3>1, SearchInserted DEF InsertRequest
    <3>3. Moves(w)
      BY <2>1, DispatchMoves DEF NextRequest
    <3>4. QED
      BY <3>2, <3>3, HandlerMoves
  <2>2. CASE Goto(w, Idle) /\ UNCHANGED <<requests, jobs, faults>>
    <3>1. RowsOK' /\ RowsStay
      BY <1>2, <2>2, RowsRest DEF InsertRequest, budget
    <3>2. QED
      BY <2>2, <3>1, IdleMoves, HandlerMoves
  <2>3. QED
    BY <1>2, <2>1, <2>2 DEF InsertRequest
<1>3. ASSUME NEW w \in Handler, NEW q \in Request, RetryRequest(w, q) PROVE TypeInv'
  <2>1. PICK r \in NextRequest : /\ InsertSearch(r, owner[q], q)
                                /\ Enqueue(<<"expiry", r>>)
                                /\ Begin(w, [Idle EXCEPT !.pc = "dispatch", !.r = r])
    BY <1>3 DEF RetryRequest
  <2>2. owner[q] \in Passenger \cup {Nobody}
    BY DEF TypeInv, RowsOK, TablesTypeOK
  <2>3. RowsOK' /\ RowsStay
    BY <1>3, <2>1, <2>2, SearchInserted DEF RetryRequest
  <2>4. Moves(w)
    BY <2>1, DispatchMoves DEF NextRequest, Begin, Goto
  <2>5. QED
    BY <2>3, <2>4, HandlerMoves
<1>4. ASSUME NEW w \in Handler, NEW r \in Request, CancelRequest(w, r) PROVE TypeInv'
  <2>1. RowsOK' /\ RowsStay
    BY <1>4, RowsRest DEF CancelRequest
  <2>2. Moves(w)
    BY <1>4, <2>1, HandlerFacts DEF CancelRequest, Moves, HandlerKnows,
      HandlerRecord, Pc, Idle, Begin, Goto, Searching, requests, offers,
      rides, drivers, budget
  <2>3. QED
    BY <2>1, <2>2, HandlerMoves
<1>5. ASSUME NEW w \in Handler, FindOutstanding(w) PROVE TypeInv'
  <2>1. RowsOK' /\ RowsStay
    BY <1>5, RowsRest DEF FindOutstanding
  <2>2. CASE Goto(w, [h[w] EXCEPT !.pc = "close"])
    <3>1. h' = [h EXCEPT ![w] = h'[w]] /\ h'[w] = [h[w] EXCEPT !.pc = "close"]
      BY <2>2, HandlerFacts DEF Goto
    <3>2. h'[w] \in HandlerRecord
      BY <3>1, HandlerFacts DEF HandlerRecord, Pc
    <3>3. HandlerKnows(h[w])'
      <4>1. h'[w].pc = "close" /\ h'[w].r = h[w].r
        BY <3>1, HandlerFacts DEF HandlerRecord
      <4>2. h[w].r \in Request /\ status[h[w].r] # "unused"
        BY <1>5, HandlerFacts DEF FindOutstanding, HandlerKnows
      <4>3. QED
        BY <2>1, <4>1, <4>2 DEF HandlerKnows, RowsStay
    <3>4. QED
      BY <2>1, <3>1, <3>2, <3>3, HandlerMoves DEF Moves
  <2>3. ASSUME NEW o \in Outstanding(h[w].r),
               Goto(w, [h[w] EXCEPT !.pc = "retract", !.to = "close", !.o = o, !.d = odrv[o]])
        PROVE  TypeInv'
    <3>1. /\ h' = [h EXCEPT ![w] = h'[w]]
          /\ h'[w] = [h[w] EXCEPT !.pc = "retract", !.to = "close", !.o = o, !.d = odrv[o]]
      BY <2>3, HandlerFacts DEF Goto
    <3>2. o \in Offer /\ ostat[o] # "unused" /\ odrv[o] \in Driver
      BY DEF Outstanding, TypeInv, RowsOK, OffersKnown
    <3>3. h'[w] \in HandlerRecord
      BY <3>1, <3>2, HandlerFacts DEF HandlerRecord, Pc
    <3>4. HandlerKnows(h[w])'
      <4>1. /\ h'[w].pc = "retract" /\ h'[w].to = "close" /\ h'[w].o = o
            /\ h'[w].d = odrv[o] /\ h'[w].r = h[w].r
        BY <3>1, HandlerFacts DEF HandlerRecord
      <4>2. h[w].r \in Request /\ status[h[w].r] # "unused"
        BY <1>5, HandlerFacts DEF FindOutstanding, HandlerKnows
      <4>3. QED
        BY <2>1, <3>2, <4>1, <4>2 DEF HandlerKnows, RowsStay
    <3>5. QED
      BY <2>1, <3>1, <3>3, <3>4, HandlerMoves DEF Moves
  <2>4. QED
    BY <1>5, <2>2, <2>3 DEF FindOutstanding
<1>6. ASSUME NEW w \in Handler, RetractOffer(w) PROVE TypeInv'
  <2>1. RowsOK' /\ RowsStay
    BY <1>6, HandlerFacts DEF TypeInv, RowsOK, RowsStay, TablesTypeOK,
      OffersKnown, RetractOffer, OfferStatus, requests, offers, rides,
      drivers, budget, HandlerKnows, HandlerRecord
  <2>2. h' = [h EXCEPT ![w] = h'[w]] /\ h'[w] = [h[w] EXCEPT !.pc = "free"]
    BY <1>6, HandlerFacts DEF RetractOffer, Goto
  <2>3. h'[w] \in HandlerRecord
    BY <1>6, <2>2, HandlerFacts DEF RetractOffer, HandlerKnows, HandlerRecord, Pc, Idle
  <2>4. HandlerKnows(h[w])'
    BY <1>6, <2>1, <2>2, HandlerFacts DEF RetractOffer, HandlerKnows, HandlerRecord, RowsStay,
       Idle
  <2>5. QED
    BY <2>1, <2>2, <2>3, <2>4, HandlerMoves DEF Moves
<1>7. ASSUME NEW w \in Handler, FreeDriver(w) PROVE TypeInv'
  <2>1. RowsOK' /\ RowsStay
    BY <1>7, HandlerFacts DEF TypeInv, RowsOK, RowsStay, TablesTypeOK,
      OffersKnown, FreeDriver, requests, offers, rides, drivers, budget,
      HandlerKnows, HandlerRecord
  <2>2. /\ h' = [h EXCEPT ![w] = h'[w]]
        /\ h'[w] = IF h[w].to = "idle" THEN Idle ELSE [h[w] EXCEPT !.pc = h[w].to]
    BY <1>7, HandlerFacts DEF FreeDriver, Goto
  <2>3. h'[w] \in HandlerRecord
    BY <1>7, <2>2, HandlerFacts DEF FreeDriver, HandlerKnows, HandlerRecord, Pc, Idle
  <2>4. HandlerKnows(h[w])'
    BY <1>7, <2>1, <2>2, HandlerFacts DEF FreeDriver, HandlerKnows, HandlerRecord, RowsStay,
       Idle
  <2>5. QED
    BY <2>1, <2>2, <2>3, <2>4, HandlerMoves DEF Moves
<1>8. ASSUME NEW w \in Handler, CloseRequest(w) PROVE TypeInv'
  <2>1. RowsOK' /\ RowsStay
    BY <1>8, HandlerFacts DEF TypeInv, RowsOK, RowsStay, TablesTypeOK,
      OffersKnown, CloseRequest, RequestStatus, Searching, requests, offers,
      rides, drivers, budget, HandlerKnows, HandlerRecord
  <2>2. Moves(w)
    BY <1>8, <2>1, HandlerFacts DEF CloseRequest, Moves, HandlerKnows,
      HandlerRecord, Pc, Idle, Begin, Goto
  <2>3. QED
    BY <2>1, <2>2, HandlerMoves
<1>9. ASSUME NEW w \in Handler, FinalizeSearch(w) PROVE TypeInv'
  <2>1. RowsOK' /\ RowsStay
    BY <1>9, HandlerFacts DEF TypeInv, RowsOK, RowsStay, TablesTypeOK,
      OffersKnown, FinalizeSearch, Expire, RequestStatus, Searching, requests,
      offers, rides, drivers, budget, HandlerKnows, HandlerRecord
  <2>2. Moves(w)
    BY <1>9, <2>1, HandlerFacts DEF FinalizeSearch, Moves, HandlerKnows,
      HandlerRecord, Pc, Idle, Begin, Goto
  <2>3. QED
    BY <2>1, <2>2, HandlerMoves
<1>10. ASSUME NEW w \in Handler, Dispatch(w) PROVE TypeInv'
  <2>1. RowsOK' /\ RowsStay
    BY <1>10, HandlerFacts DEF TypeInv, RowsOK, RowsStay, TablesTypeOK,
      OffersKnown, Dispatch, RequestStatus, Searching, requests, offers,
      rides, drivers, budget, HandlerKnows, HandlerRecord
  <2>2. CASE Goto(w, Idle)
    BY <2>1, <2>2, IdleMoves, HandlerMoves
  <2>3. CASE /\ status[h[w].r] = "searching"
             /\ Goto(w, [h[w] EXCEPT !.pc = "lock", !.cand = Driver \ AskedDrivers(h[w].r)])
    <3>1. /\ h' = [h EXCEPT ![w] = h'[w]]
          /\ h'[w] = [h[w] EXCEPT !.pc = "lock", !.cand = Driver \ AskedDrivers(h[w].r)]
      BY <2>3, HandlerFacts DEF Goto
    <3>2. h'[w] \in HandlerRecord
      <4>1. Driver \ AskedDrivers(h[w].r) \in SUBSET Driver
        OBVIOUS
      <4>2. QED
        BY <3>1, <4>1, HandlerFacts DEF HandlerRecord, Pc
    <3>3. HandlerKnows(h[w])'
      BY <1>10, <2>1, <2>3, <3>1, HandlerFacts DEF Dispatch, HandlerKnows, HandlerRecord,
         RowsStay
    <3>4. QED
      BY <2>1, <3>1, <3>2, <3>3, HandlerMoves DEF Moves
  <2>4. QED
    BY <1>10, <2>2, <2>3 DEF Dispatch
<1>11. ASSUME NEW w \in Handler, LockDriver(w) PROVE TypeInv'
  <2>1. RowsOK' /\ RowsStay
    BY <1>11, HandlerFacts DEF TypeInv, RowsOK, RowsStay, TablesTypeOK,
      OffersKnown, LockDriver, requests, offers, rides, drivers, budget,
      HandlerKnows, HandlerRecord
  <2>2. PICK d \in Driver : Goto(w, [h[w] EXCEPT !.pc = "offer", !.d = d, !.cand = {}])
    BY <1>11, HandlerFacts DEF LockDriver, HandlerRecord
  <2>3. /\ h' = [h EXCEPT ![w] = h'[w]]
        /\ h'[w] = [h[w] EXCEPT !.pc = "offer", !.d = d, !.cand = {}]
    BY <1>11, HandlerFacts, <2>2 DEF LockDriver, Goto
  <2>4. h'[w] \in HandlerRecord
    BY <1>11, <2>3, HandlerFacts, <2>2 DEF LockDriver, HandlerKnows, HandlerRecord, Pc, Idle
  <2>5. HandlerKnows(h[w])'
    BY <1>11, <2>1, <2>3, HandlerFacts, <2>2 DEF LockDriver, HandlerKnows, HandlerRecord,
       RowsStay, Idle
  <2>6. QED
    BY <2>1, <2>3, <2>4, <2>5, HandlerMoves DEF Moves
<1>12. ASSUME NEW w \in Handler, EmptySweep(w) PROVE TypeInv'
  <2>1. RowsOK' /\ RowsStay
    <3>1. CASE ScheduleWave(h[w].r) /\ UNCHANGED status
      <4>1. h[w].r \in Request
        BY <1>12, HandlerFacts DEF EmptySweep, HandlerKnows
      <4>2. QED
        BY <1>12, <3>1, <4>1 DEF EmptySweep, ScheduleWave, TypeInv, RowsOK, RowsStay, TablesTypeOK,
          OffersKnown, offers, rides, drivers
    <3>2. CASE Expire(h[w].r) /\ UNCHANGED <<jobs, faults>>
      BY <1>12, <3>2, HandlerFacts DEF EmptySweep, HandlerKnows, Expire, TypeInv, RowsOK,
         RowsStay,
        TablesTypeOK, OffersKnown, RequestStatus, Searching, offers, rides, drivers
    <3>3. QED
      BY <1>12, <3>1, <3>2 DEF EmptySweep
  <2>2. QED
    BY <1>12, <2>1, IdleMoves, HandlerMoves DEF EmptySweep
<1>13. ASSUME NEW w \in Handler, MakeOffer(w) PROVE TypeInv'
  <2>1. RowsOK' /\ RowsStay
    BY <1>13, HandlerFacts DEF TypeInv, RowsOK, RowsStay, TablesTypeOK,
      OffersKnown, MakeOffer, NextOffer, InsertOffer, OfferStatus, requests,
      offers, rides, drivers, budget, HandlerKnows, HandlerRecord
  <2>2. PICK o \in NextOffer : /\ InsertOffer(o, h[w].r, h[w].d, "offered")
                              /\ Goto(w, [h[w] EXCEPT !.pc = "announce", !.o = o])
    BY <1>13 DEF MakeOffer
  <2>3. o \in Offer /\ ostat'[o] # "unused"
    BY <2>2 DEF NextOffer, InsertOffer, TypeInv, RowsOK, TablesTypeOK
  <2>4. h' = [h EXCEPT ![w] = h'[w]] /\ h'[w] = [h[w] EXCEPT !.pc = "announce", !.o = o]
    BY <1>13, HandlerFacts, <2>2, <2>3 DEF MakeOffer, Goto
  <2>5. h'[w] \in HandlerRecord
    BY <1>13, <2>4, HandlerFacts, <2>2, <2>3 DEF MakeOffer, HandlerKnows, HandlerRecord, Pc,
       Idle
  <2>6. HandlerKnows(h[w])'
    BY <1>13, <2>1, <2>4, HandlerFacts, <2>2, <2>3 DEF MakeOffer, HandlerKnows,
       HandlerRecord, RowsStay, Idle
  <2>7. QED
    BY <2>1, <2>4, <2>5, <2>6, HandlerMoves DEF Moves
<1>14. ASSUME NEW w \in Handler, AnnounceOffer(w) PROVE TypeInv'
  <2>1. RowsOK' /\ RowsStay
    BY <1>14, HandlerFacts DEF TypeInv, RowsOK, RowsStay, TablesTypeOK,
      OffersKnown, AnnounceOffer, Enqueue, RequestStatus, Searching, requests,
      offers, rides, drivers, budget, HandlerKnows, HandlerRecord
  <2>2. Moves(w)
    BY <1>14, <2>1, HandlerFacts DEF AnnounceOffer, Moves, HandlerKnows,
      HandlerRecord, Pc, Idle, Begin, Goto
  <2>3. QED
    BY <2>1, <2>2, HandlerMoves
<1>15. ASSUME NEW w \in Handler, CloseOffer(w) PROVE TypeInv'
  <2>1. RowsOK' /\ RowsStay
    BY <1>15, HandlerFacts DEF TypeInv, RowsOK, RowsStay, TablesTypeOK,
      OffersKnown, CloseOffer, OfferStatus, requests, offers, rides, drivers,
      budget, HandlerKnows, HandlerRecord
  <2>2. h' = [h EXCEPT ![w] = h'[w]] /\ h'[w] = [h[w] EXCEPT !.pc = "free", !.to = "reopen"]
    BY <1>15, HandlerFacts DEF CloseOffer, Goto
  <2>3. h'[w] \in HandlerRecord
    BY <1>15, <2>2, HandlerFacts DEF CloseOffer, HandlerKnows, HandlerRecord, Pc, Idle
  <2>4. HandlerKnows(h[w])'
    BY <1>15, <2>1, <2>2, HandlerFacts DEF CloseOffer, HandlerKnows, HandlerRecord, RowsStay,
       Idle
  <2>5. QED
    BY <2>1, <2>2, <2>3, <2>4, HandlerMoves DEF Moves
<1>16. ASSUME NEW w \in Handler, ReopenSearch(w) PROVE TypeInv'
  <2>1. RowsOK' /\ RowsStay
    BY <1>16, HandlerFacts DEF TypeInv, RowsOK, RowsStay, TablesTypeOK,
      OffersKnown, ReopenSearch, RequestStatus, Searching, requests, offers,
      rides, drivers, budget, HandlerKnows, HandlerRecord
  <2>2. h[w].r \in Request
    BY <1>16, HandlerFacts DEF ReopenSearch, HandlerKnows
  <2>3. QED
    BY <1>16, <2>1, <2>2, DispatchMoves, HandlerMoves DEF ReopenSearch
<1>17. ASSUME NEW w \in Handler, SearchAgain(w) PROVE TypeInv'
  <2>1. CASE Goto(w, Idle) /\ UNCHANGED <<requests, offers, jobs, faults>>
    <3>1. RowsOK' /\ RowsStay
      BY <1>17, <2>1, RowsRest DEF SearchAgain, budget
    <3>2. QED
      BY <2>1, <3>1, IdleMoves, HandlerMoves
  <2>2. ASSUME NEW r \in NextRequest, NEW o \in NextOffer,
               InsertSearch(r, owner[h[w].r], h[w].r), InsertOffer(o, r, h[w].d, "cancelled"),
               Enqueue(<<"expiry", r>>), Goto(w, [Idle EXCEPT !.pc = "dispatch", !.r = r])
        PROVE  TypeInv'
    <3>1. /\ h[w].r \in Request /\ h[w].d \in Driver /\ r \in Request /\ o \in Offer
          /\ owner[h[w].r] \in Passenger \cup {Nobody}
      BY <1>17, HandlerFacts DEF SearchAgain, HandlerKnows, TypeInv, RowsOK, TablesTypeOK,
        NextRequest, NextOffer
    <3>2. TablesTypeOK'
      BY <1>17, <2>2, <3>1 DEF SearchAgain, TypeInv, RowsOK, TablesTypeOK, InsertSearch,
         InsertOffer,
        RequestStatus, Searching, OfferStatus, rides, drivers
    <3>3. RowsStay
      <4>1. \A x \in Request : status[x] # "unused" => status'[x] # "unused"
        BY <2>2, <3>1 DEF TypeInv, RowsOK, TablesTypeOK, InsertSearch, NextRequest
      <4>2. \A x \in Request : status[x] \in Ended => status'[x] \in Ended
        BY <2>2, <3>1 DEF TypeInv, RowsOK, TablesTypeOK, InsertSearch, NextRequest
      <4>3. \A x \in Offer : ostat[x] # "unused" => ostat'[x] # "unused"
        BY <2>2, <3>1 DEF TypeInv, RowsOK, TablesTypeOK, InsertOffer
      <4>4. trip' = trip
        BY <1>17 DEF SearchAgain, rides
      <4>5. QED
        BY <4>1, <4>2, <4>3, <4>4 DEF RowsStay
    <3>4. OffersKnown' /\ \A x \in Offer : trip'[x] # "none" => ostat'[x] # "unused"
      BY <1>17, <2>2, <3>1, <3>3 DEF SearchAgain, TypeInv, RowsOK, TablesTypeOK, OffersKnown,
        RowsStay, InsertSearch, InsertOffer, rides
    <3>5. jobs' \subseteq ({"expiry", "wave"} \X Request) \cup ({"offer"} \X Offer)
      BY <2>2, <3>1 DEF TypeInv, RowsOK, Enqueue
    <3>7. toggles' \in Nat /\ faults' \in Nat
      <4>1. toggles' = toggles /\ (faults' = faults \/ (faults > 0 /\ faults' = faults - 1))
        BY <1>17, <2>2 DEF SearchAgain, Enqueue
      <4>2. QED
        BY <4>1 DEF TypeInv, RowsOK
    <3>6. QED
      BY <2>2, <3>1, <3>2, <3>3, <3>4, <3>5, <3>7, DispatchMoves, HandlerMoves DEF RowsOK
  <2>3. QED
    BY <1>17, <2>1, <2>2 DEF SearchAgain
<1>18. ASSUME NEW w \in Handler, SaveTrip(w) PROVE TypeInv'
  <2>1. RowsOK' /\ RowsStay
    BY <1>18, HandlerFacts DEF TypeInv, RowsOK, RowsStay, TablesTypeOK,
      OffersKnown, SaveTrip, TripStage, LiveTrip, Waiting, requests, offers,
      rides, drivers, budget, HandlerKnows, HandlerRecord
  <2>2. Moves(w)
    BY <1>18, <2>1, HandlerFacts DEF SaveTrip, Moves, HandlerKnows,
      HandlerRecord, Pc, Idle, Begin, Goto
  <2>3. QED
    BY <2>1, <2>2, HandlerMoves
<1>19. ASSUME NEW w \in Handler, SavePresence(w) PROVE TypeInv'
  <2>1. RowsOK' /\ RowsStay
    BY <1>19, HandlerFacts DEF TypeInv, RowsOK, RowsStay, TablesTypeOK,
      OffersKnown, SavePresence, requests, offers, rides, drivers, budget,
      HandlerKnows, HandlerRecord
  <2>2. Moves(w)
    BY <1>19, <2>1, HandlerFacts DEF SavePresence, Moves, HandlerKnows,
      HandlerRecord, Pc, Idle, Begin, Goto
  <2>3. QED
    BY <2>1, <2>2, HandlerMoves
<1>20. ASSUME NEW w \in Handler, NEW r \in Request, WaveFires(w, r) PROVE TypeInv'
  <2>1. RowsOK' /\ RowsStay
    BY <1>20, RowsRest DEF WaveFires
  <2>2. QED
    BY <1>20, <2>1, WaveMoves, HandlerMoves DEF WaveFires, Begin, Goto
<1>21. ASSUME NEW w \in Handler, NEW r \in Request, ExpiryFires(w, r) PROVE TypeInv'
  <2>1. RowsOK' /\ RowsStay
    <3>1. CASE UNCHANGED status
      BY <1>21, <3>1, RowsRest DEF ExpiryFires, requests
    <3>2. CASE Expire(r)
      BY <1>21, <3>2 DEF ExpiryFires, Expire, TypeInv, RowsOK, RowsStay, TablesTypeOK,
        OffersKnown, RequestStatus, Searching, offers, rides, drivers, budget
    <3>3. QED
      BY <1>21, <3>1, <3>2 DEF ExpiryFires
  <2>2. CASE Begin(w, Idle)
    BY <2>1, <2>2, IdleMoves, HandlerMoves DEF Begin, Goto
  <2>3. ASSUME NEW o \in Outstanding(r), status[r] \in Searching,
               Begin(w, [Idle EXCEPT !.pc = "retract", !.to = "finalize",
                                     !.r = r, !.o = o, !.d = odrv[o]])
        PROVE  TypeInv'
    <3>1. /\ h' = [h EXCEPT ![w] = h'[w]]
          /\ h'[w] = [Idle EXCEPT !.pc = "retract", !.to = "finalize",
                                  !.r = r, !.o = o, !.d = odrv[o]]
      BY <2>3, HandlerFacts DEF Begin
    <3>2. o \in Offer /\ ostat[o] # "unused" /\ odrv[o] \in Driver
      BY DEF Outstanding, TypeInv, RowsOK, OffersKnown
    <3>3. h'[w] \in HandlerRecord
      BY <3>1, <3>2 DEF HandlerRecord, Pc, Idle
    <3>4. HandlerKnows(h[w])'
      BY <2>1, <2>3, <3>1, <3>2 DEF HandlerKnows, RowsStay, Idle, Searching
    <3>5. QED
      BY <2>1, <3>1, <3>3, <3>4, HandlerMoves DEF Moves
  <2>4. QED
    BY <1>21, <2>2, <2>3 DEF ExpiryFires
<1>22. ASSUME NEW w \in Handler, NEW o \in Offer, TimeoutFires(w, o) PROVE TypeInv'
  <2>1. RowsOK' /\ RowsStay
    BY <1>22, RowsRest DEF TimeoutFires
  <2>2. CASE ostat[o] = "offered"
    BY <1>22, <2>1, <2>2, AnswerMoves, HandlerMoves DEF TimeoutFires, Begin, Goto
  <2>3. CASE ostat[o] # "offered"
    BY <1>22, <2>1, <2>3, IdleMoves, HandlerMoves DEF TimeoutFires, Begin, Goto
  <2>4. QED
    BY <2>2, <2>3
<1>23. ASSUME NEW w \in Handler, NEW o \in Offer, DeclineOffer(w, o) PROVE TypeInv'
  <2>1. RowsOK' /\ RowsStay
    BY <1>23, RowsRest DEF DeclineOffer
  <2>2. QED
    BY <1>23, <2>1, AnswerMoves, HandlerMoves DEF DeclineOffer, Begin, Goto
<1>24. ASSUME NEW w \in Handler, NEW o \in Offer, NEW next \in {"idle", "research"},
              CancelRide(w, o, next)
       PROVE  TypeInv'
  <2>1. RowsOK' /\ RowsStay
    BY <1>24, HandlerFacts DEF TypeInv, RowsOK, RowsStay, TablesTypeOK,
      OffersKnown, CancelRide, TripStage, LiveTrip, Waiting, BookingStatus,
      RequestStatus, Searching, requests, offers, rides, drivers, budget,
      HandlerKnows, HandlerRecord
  <2>2. oreq[o] \in Request /\ status[oreq[o]] # "unused" /\ odrv[o] \in Driver
    BY <1>24 DEF CancelRide, TypeInv, RowsOK, OffersKnown, Waiting
  <2>3. /\ h' = [h EXCEPT ![w] = h'[w]]
        /\ h'[w] = [Idle EXCEPT !.pc = "free", !.to = next, !.r = oreq[o], !.d = odrv[o]]
    BY <1>24, HandlerFacts DEF CancelRide, Begin
  <2>4. h'[w] \in HandlerRecord
    <3>1. h'[w] = [pc |-> "free", r |-> oreq[o], o |-> 0, d |-> odrv[o], p |-> Nobody,
                   cand |-> {}, to |-> next, wave |-> FALSE]
      BY <2>3 DEF Idle
    <3>2. QED
      BY <2>2, <3>1 DEF HandlerRecord, Pc
  <2>5. HandlerKnows(h[w])'
    <3>1. status'[oreq[o]] = "cancelled"
      BY <1>24, <2>2 DEF CancelRide, TypeInv, RowsOK, TablesTypeOK
    <3>2. h'[w].pc = "free" /\ h'[w].to = next /\ h'[w].r = oreq[o] /\ h'[w].d = odrv[o]
      BY <2>3 DEF Idle
    <3>3. QED
      BY <2>2, <3>1, <3>2 DEF HandlerKnows
  <2>6. QED
    BY <2>1, <2>3, <2>4, <2>5, HandlerMoves DEF Moves
<1>25. ASSUME NEW w \in Handler, NEW o \in Offer, MarkArrived(w, o) PROVE TypeInv'
  <2>1. RowsOK' /\ RowsStay
    BY <1>25, RowsRest DEF MarkArrived
  <2>2. Moves(w)
    BY <1>25, <2>1, HandlerFacts DEF MarkArrived, Moves, HandlerKnows,
      HandlerRecord, Pc, Idle, Begin, Goto, RowsOK, TypeInv, requests, offers,
      rides, drivers, budget
  <2>3. QED
    BY <2>1, <2>2, HandlerMoves
<1>26. ASSUME NEW w \in Handler, NEW o \in Offer, StartRide(w, o) PROVE TypeInv'
  <2>1. RowsOK' /\ RowsStay
    BY <1>26, RowsRest DEF StartRide
  <2>2. Moves(w)
    BY <1>26, <2>1, HandlerFacts DEF StartRide, Moves, HandlerKnows,
      HandlerRecord, Pc, Idle, Begin, Goto, Waiting, RowsOK, TypeInv,
      requests, offers, rides, drivers, budget
  <2>3. QED
    BY <2>1, <2>2, HandlerMoves
<1>27. ASSUME NEW w \in Handler, NEW d \in Driver, GoOnline(w, d) PROVE TypeInv'
  <2>1. RowsOK' /\ RowsStay
    BY <1>27, HandlerFacts DEF TypeInv, RowsOK, RowsStay, TablesTypeOK,
      OffersKnown, GoOnline, Toggle, requests, offers, rides, drivers, budget,
      HandlerKnows, HandlerRecord
  <2>2. Moves(w)
    BY <1>27, <2>1, HandlerFacts DEF GoOnline, Moves, HandlerKnows,
      HandlerRecord, Pc, Idle, Begin, Goto, RowsOK, TypeInv, TablesTypeOK
  <2>3. QED
    BY <2>1, <2>2, HandlerMoves
<1>28. ASSUME NEW w \in Handler, Abort(w) PROVE TypeInv'
  <2>1. RowsOK' /\ RowsStay
    BY <1>28, HandlerFacts DEF TypeInv, RowsOK, RowsStay, TablesTypeOK,
      OffersKnown, Abort, requests, offers, rides, drivers, budget,
      HandlerKnows, HandlerRecord
  <2>2. Moves(w)
    BY <1>28, <2>1, HandlerFacts DEF Abort, Moves, HandlerKnows,
      HandlerRecord, Pc, Idle, Begin, Goto
  <2>3. QED
    BY <2>1, <2>2, HandlerMoves
<1>29. ASSUME NEW o \in Offer, AcceptOffer(o) PROVE TypeInv'
  <2>1. RowsOK' /\ RowsStay
    BY <1>29 DEF TypeInv, RowsOK, RowsStay, TablesTypeOK, OffersKnown,
      AcceptOffer, OfferStatus, TripStage, LiveTrip, Waiting, BookingStatus,
      RequestStatus, Searching, requests, offers, rides, drivers, budget
  <2>2. QED
    BY <1>29, <2>1, HandlersRest DEF AcceptOffer
<1>30. ASSUME NEW w \in Handler, NEW o \in Offer, CompleteTrip(w, o) PROVE TypeInv'
  <2>1. RowsOK' /\ RowsStay
    BY <1>30, HandlerFacts DEF CompleteTrip, TypeInv, RowsOK, RowsStay, TablesTypeOK, OffersKnown,
      TripStage, LiveTrip, Waiting, BookingStatus, requests, offers, rides, drivers, budget,
      HandlerKnows, HandlerRecord
  <2>2. Moves(w)
    BY <1>30, <2>1, HandlerFacts DEF CompleteTrip, Moves, RowsStay, RowsOK, TypeInv,
      HandlerKnows, HandlerRecord, Pc, Idle, Begin, Goto, requests, offers, rides
  <2>3. QED
    BY <2>1, <2>2, HandlerMoves
<1>31. ASSUME NEW d \in Driver, GoOffline(d) PROVE TypeInv'
  <2>1. RowsOK' /\ RowsStay
    BY <1>31 DEF TypeInv, RowsOK, RowsStay, TablesTypeOK, OffersKnown,
      GoOffline, Toggle, requests, offers, rides, drivers, budget
  <2>2. QED
    BY <1>31, <2>1, HandlersRest DEF GoOffline
<1>32. ASSUME NEW d \in Driver, RunDry(d) PROVE TypeInv'
  <2>1. RowsOK' /\ RowsStay
    BY <1>32 DEF TypeInv, RowsOK, RowsStay, TablesTypeOK, OffersKnown, RunDry,
      Toggle, requests, offers, rides, drivers, budget
  <2>2. QED
    BY <1>32, <2>1, HandlersRest DEF RunDry
<1>33. ASSUME NEW r \in Request, Tick(r) PROVE TypeInv'
  <2>1. RowsOK' /\ RowsStay
    BY <1>33 DEF TypeInv, RowsOK, RowsStay, TablesTypeOK, OffersKnown, Tick,
      RequestStatus, Searching, requests, offers, rides, drivers, budget
  <2>2. QED
    BY <1>33, <2>1, HandlersRest DEF Tick
<1>34. ASSUME NEW w \in Handler, SaveCompleted(w) PROVE TypeInv'
  <2>1. RowsOK' /\ RowsStay
    BY <1>34, HandlerFacts DEF SaveCompleted, TypeInv, RowsOK, RowsStay, TablesTypeOK, OffersKnown,
      TripStage, LiveTrip, Waiting, BookingStatus, requests, offers, rides, drivers, budget,
      HandlerKnows, HandlerRecord
  <2>2. Moves(w)
    <3>1. h' = [h EXCEPT ![w] = h'[w]] /\ h'[w] = [h[w] EXCEPT !.pc = "ridden"]
      BY <1>34, HandlerFacts DEF SaveCompleted, Goto
    <3>2. h'[w] \in HandlerRecord /\ h'[w].pc = "ridden" /\ h'[w].o = h[w].o
      BY <3>1, HandlerFacts DEF HandlerRecord, Pc
    <3>3. h[w].o \in Offer /\ ostat[h[w].o] # "unused" /\ trip[h[w].o] # "none"
      BY <1>34, HandlerFacts DEF SaveCompleted, HandlerKnows
    <3>4. HandlerKnows(h[w])'
      BY <2>1, <3>2, <3>3 DEF HandlerKnows, RowsStay
    <3>5. QED
      BY <3>1, <3>2, <3>4 DEF Moves
  <2>3. QED
    BY <2>1, <2>2, HandlerMoves
<1>35. ASSUME NEW w \in Handler, FindRidden(w) PROVE TypeInv'
  <2>1. RowsOK' /\ RowsStay
    BY <1>35, RowsRest DEF FindRidden
  <2>2. CASE booking[h[w].o] # "confirmed"
    BY <1>35, <2>1, <2>2, IdleMoves, HandlerMoves DEF FindRidden
  <2>3. CASE booking[h[w].o] = "confirmed"
    <3>1. h' = [h EXCEPT ![w] = h'[w]] /\ h'[w] = [h[w] EXCEPT !.pc = "settle"]
      BY <1>35, <2>3, HandlerFacts DEF FindRidden, Goto
    <3>2. h'[w] \in HandlerRecord /\ h'[w].pc = "settle" /\ h'[w].o = h[w].o
      BY <3>1, HandlerFacts DEF HandlerRecord, Pc
    <3>3. h[w].o \in Offer /\ ostat[h[w].o] # "unused" /\ trip[h[w].o] # "none"
      BY <1>35, HandlerFacts DEF FindRidden, HandlerKnows
    <3>4. HandlerKnows(h[w])'
      BY <2>1, <3>2, <3>3 DEF HandlerKnows, RowsStay
    <3>5. QED
      BY <2>1, <3>1, <3>2, <3>4, HandlerMoves DEF Moves
  <2>4. QED
    BY <2>2, <2>3
<1>36. ASSUME NEW w \in Handler, SettleBooking(w) PROVE TypeInv'
  <2>1. RowsOK' /\ RowsStay
    BY <1>36, HandlerFacts DEF SettleBooking, TypeInv, RowsOK, RowsStay, TablesTypeOK, OffersKnown,
      TripStage, LiveTrip, Waiting, BookingStatus, requests, offers, rides, drivers, budget,
      HandlerKnows, HandlerRecord
  <2>2. Moves(w)
    BY <1>36, <2>1, HandlerFacts DEF SettleBooking, Moves, RowsStay, RowsOK, TypeInv,
      HandlerKnows, HandlerRecord, Pc, Idle, Begin, Goto, requests, offers, rides
  <2>3. QED
    BY <2>1, <2>2, HandlerMoves
<1>37. CASE UNCHANGED vars
  <2>1. RowsOK' /\ RowsStay
    BY <1>37, RowsRest DEF vars
  <2>2. QED
    BY <1>37, <2>1, HandlersRest DEF vars
<1>38. QED
  BY <1>1, <1>2, <1>3, <1>4, <1>5, <1>6, <1>7, <1>8, <1>9, <1>10, <1>11,
    <1>12, <1>13, <1>14, <1>15, <1>16, <1>17, <1>18, <1>19, <1>20, <1>21,
    <1>22, <1>23, <1>24, <1>25, <1>26, <1>27, <1>28, <1>29, <1>30, <1>31,
    <1>32, <1>33, <1>37, <1>34, <1>35, <1>36 DEF Next, HandlerStep, JobFires, UserCall,
    CancelByDriver, CancelByPassenger

\* TypeOK holds in every state: no handler or job of InstantRidesService and
\* InstantDispatchService brings a row, a job or a handler out of shape.
THEOREM Typed == Spec => []TypeOK
<1>1. TypeInv => TypeOK
  BY DEF TypeInv, RowsOK, HandlersOK, TypeOK
<1>2. QED
  BY <1>1, TypeInit, TypeStep, PTL DEF Spec


-----------------------------------------------------------------------------
(* Kinds of steps *)

\* Whatever a step does to a request's row, its ride and its offers, it is one
\* of these.
Search ==
  \E r \in NextRequest, p \in Passenger \cup {Nobody}, q \in Request \cup {0} :
    /\ MaySearch(p)
    /\ q # 0 => q \in Request /\ status[q] \in Ended
    /\ InsertSearch(r, p, q)
    /\ UNCHANGED rides

Turn ==
  \E r \in Request, st \in Searching :
    /\ status[r] \in Searching
    /\ status' = [status EXCEPT ![r] = st]
    /\ UNCHANGED <<owner, parent, ride, rides>>

Finish ==
  \E r \in Request, st \in Ended :
    /\ status[r] # "unused" /\ (st = "expired" => status[r] \in Searching)
    /\ status' = [status EXCEPT ![r] = st]
    /\ UNCHANGED <<owner, parent, ride, rides>>

Rest == UNCHANGED <<status, owner, parent, ride, rides>>

Kind ==
  \/ Search \/ Turn \/ Finish \/ Rest
  \/ \E o \in Offer : AcceptOffer(o)
  \/ \E w \in Handler, o \in Offer, next \in {"idle", "research"} : CancelRide(w, o, next)
  \/ \E w \in Handler : SaveTrip(w) \/ SaveCompleted(w) \/ SettleBooking(w)

LEMMA ExpireKind ==
  ASSUME NEW r \in Request, Expire(r), UNCHANGED <<owner, parent, ride, rides>>
  PROVE  Kind
<1>1. CASE status[r] \in Searching
  BY <1>1 DEF Expire, Kind, Finish, Searching
<1>2. CASE status[r] \notin Searching
  BY <1>2 DEF Expire, Kind, Rest
<1>3. QED
  BY <1>1, <1>2

LEMMA StepKind == TypeInv /\ [Next]_vars => Kind
<1> SUFFICES ASSUME TypeInv, [Next]_vars PROVE Kind
  OBVIOUS
<1> USE DEF requests, rides
<1>1. ASSUME NEW w \in Handler, InsertRequest(w) PROVE Kind
  <2>1. CASE UNCHANGED requests
    BY <1>1, <2>1 DEF InsertRequest, Kind, Rest
  <2>2. ASSUME MaySearch(h[w].p), NEW r \in NextRequest, InsertSearch(r, h[w].p, 0)
        PROVE  Kind
    <3>1. h[w].p \in Passenger \cup {Nobody}
      BY HandlerFacts DEF HandlerRecord
    <3>2. Search
      BY <1>1, <2>2, <3>1 DEF InsertRequest, Search
    <3>3. QED
      BY <3>2 DEF Kind
  <2>3. QED
    BY <1>1, <2>1, <2>2 DEF InsertRequest
<1>2. ASSUME NEW w \in Handler, NEW q \in Request, RetryRequest(w, q) PROVE Kind
  <2>1. owner[q] \in Passenger \cup {Nobody}
    BY DEF TypeInv, RowsOK, TablesTypeOK
  <2>2. PICK r \in NextRequest : InsertSearch(r, owner[q], q)
    BY <1>2 DEF RetryRequest
  <2>3. q \in Request \cup {0} /\ status[q] \in Ended /\ MaySearch(owner[q]) /\ UNCHANGED rides
    BY <1>2 DEF RetryRequest
  <2>4. Search
    BY <2>1, <2>2, <2>3 DEF Search
  <2>5. QED
    BY <2>4 DEF Kind
<1>3. ASSUME NEW w \in Handler, SearchAgain(w) PROVE Kind
  <2>1. CASE UNCHANGED requests
    BY <1>3, <2>1 DEF SearchAgain, Kind, Rest
  <2>2. ASSUME MaySearch(owner[h[w].r]), NEW r \in NextRequest,
               InsertSearch(r, owner[h[w].r], h[w].r)
        PROVE  Kind
    <3>1. h[w].r \in Request /\ status[h[w].r] \in Ended
      BY <1>3, HandlerFacts DEF SearchAgain, HandlerKnows
    <3>2. owner[h[w].r] \in Passenger \cup {Nobody}
      BY <3>1 DEF TypeInv, RowsOK, TablesTypeOK
    <3>3. Search
      BY <1>3, <2>2, <3>1, <3>2 DEF SearchAgain, Search
    <3>4. QED
      BY <3>3 DEF Kind
  <2>3. QED
    BY <1>3, <2>1, <2>2 DEF SearchAgain
<1>4. ASSUME NEW w \in Handler, CloseRequest(w) PROVE Kind
  <2>1. h[w].r \in Request /\ status[h[w].r] # "unused"
    BY <1>4, HandlerFacts DEF CloseRequest, HandlerKnows
  <2>2. QED
    BY <1>4, <2>1 DEF CloseRequest, Kind, Finish
<1>5. ASSUME NEW w \in Handler, FinalizeSearch(w) PROVE Kind
  <2>1. h[w].r \in Request
    BY <1>5, HandlerFacts DEF FinalizeSearch, HandlerKnows
  <2>2. QED
    BY <1>5, <2>1, ExpireKind DEF FinalizeSearch
<1>6. ASSUME NEW w \in Handler, Dispatch(w) PROVE Kind
  <2>1. h[w].r \in Request
    BY <1>6, HandlerFacts DEF Dispatch, HandlerKnows
  <2>2. CASE UNCHANGED status
    BY <1>6, <2>2 DEF Dispatch, Kind, Rest
  <2>3. CASE status[h[w].r] = "searching" /\ status' = [status EXCEPT ![h[w].r] = "expired"]
    BY <1>6, <2>1, <2>3 DEF Dispatch, Kind, Finish, Searching
  <2>4. QED
    BY <1>6, <2>2, <2>3 DEF Dispatch
<1>7. ASSUME NEW w \in Handler, EmptySweep(w) PROVE Kind
  <2>1. h[w].r \in Request
    BY <1>7, HandlerFacts DEF EmptySweep, HandlerKnows
  <2>2. CASE UNCHANGED status
    BY <1>7, <2>2 DEF EmptySweep, Kind, Rest
  <2>3. CASE Expire(h[w].r)
    BY <1>7, <2>1, <2>3, ExpireKind DEF EmptySweep
  <2>4. QED
    BY <1>7, <2>2, <2>3 DEF EmptySweep
<1>8. ASSUME NEW w \in Handler, NEW r \in Request, ExpiryFires(w, r) PROVE Kind
  <2>1. CASE UNCHANGED status
    BY <1>8, <2>1 DEF ExpiryFires, Kind, Rest
  <2>2. CASE Expire(r)
    BY <1>8, <2>2, ExpireKind DEF ExpiryFires
  <2>3. QED
    BY <1>8, <2>1, <2>2 DEF ExpiryFires
<1>9. ASSUME NEW w \in Handler, AnnounceOffer(w) PROVE Kind
  <2>1. h[w].r \in Request
    BY <1>9, HandlerFacts DEF AnnounceOffer, HandlerKnows
  <2>2. CASE status[h[w].r] = "searching"
    BY <1>9, <2>1, <2>2 DEF AnnounceOffer, Kind, Turn, Searching
  <2>3. CASE status[h[w].r] # "searching"
    BY <1>9, <2>3 DEF AnnounceOffer, Kind, Rest
  <2>4. QED
    BY <2>2, <2>3
<1>10. ASSUME NEW w \in Handler, ReopenSearch(w) PROVE Kind
  <2>1. h[w].r \in Request
    BY <1>10, HandlerFacts DEF ReopenSearch, HandlerKnows
  <2>2. CASE status[h[w].r] = "offered"
    BY <1>10, <2>1, <2>2 DEF ReopenSearch, Kind, Turn, Searching
  <2>3. CASE status[h[w].r] # "offered"
    BY <1>10, <2>3 DEF ReopenSearch, Kind, Rest
  <2>4. QED
    BY <2>2, <2>3
<1>11. ASSUME NEW w \in Handler, NEW o \in Offer,
              CancelByDriver(w, o) \/ CancelByPassenger(w, o)
       PROVE  Kind
  BY <1>11 DEF CancelByDriver, CancelByPassenger, Kind
<1>12. ASSUME NEW w \in Handler,
              \/ FindOutstanding(w) \/ RetractOffer(w) \/ FreeDriver(w) \/ LockDriver(w)
              \/ MakeOffer(w) \/ CloseOffer(w) \/ SavePresence(w) \/ Abort(w)
              \/ FindRidden(w)
       PROVE  Kind
  BY <1>12 DEF FindOutstanding, RetractOffer, FreeDriver, LockDriver, MakeOffer, CloseOffer,
    SavePresence, Abort, FindRidden, Kind, Rest
<1>13. ASSUME NEW w \in Handler,
              \/ \E p \in Passenger : CreateRequest(w, p)
              \/ \E r \in Request : CancelRequest(w, r) \/ WaveFires(w, r)
              \/ \E o \in Offer : \/ TimeoutFires(w, o) \/ DeclineOffer(w, o)
                                 \/ MarkArrived(w, o) \/ StartRide(w, o)
                                 \/ CompleteTrip(w, o)
              \/ \E d \in Driver : GoOnline(w, d)
       PROVE  Kind
  BY <1>13 DEF CreateRequest, CancelRequest, WaveFires, TimeoutFires, DeclineOffer, MarkArrived,
    StartRide, CompleteTrip, GoOnline, Kind, Rest
<1>14. ASSUME \/ \E d \in Driver : GoOffline(d) \/ RunDry(d)
              \/ \E r \in Request : Tick(r)
              \/ UNCHANGED vars
       PROVE  Kind
  BY <1>14 DEF GoOffline, RunDry, Tick, vars, Kind, Rest
<1>15. ASSUME \/ \E o \in Offer : AcceptOffer(o)
              \/ \E w \in Handler : SaveTrip(w) \/ SaveCompleted(w) \/ SettleBooking(w)
       PROVE  Kind
  BY <1>15 DEF Kind
<1>16. QED
  BY <1>1, <1>2, <1>3, <1>4, <1>5, <1>6, <1>7, <1>8, <1>9, <1>10, <1>11, <1>12, <1>13, <1>14,
     <1>15
  DEF Next, HandlerStep, JobFires, UserCall

\* An offer once made stays with its request and its driver.
OffersStay ==
  \A o \in Offer : ostat[o] # "unused" => oreq'[o] = oreq[o] /\ odrv'[o] = odrv[o]

LEMMA OfferStep == TypeInv /\ [Next]_vars => OffersStay
<1> SUFFICES ASSUME TypeInv, [Next]_vars PROVE OffersStay
  OBVIOUS
<1>1. CASE UNCHANGED <<oreq, odrv>>
  BY <1>1 DEF OffersStay
<1>2. ASSUME NEW x \in NextOffer, NEW r, NEW d, NEW st, InsertOffer(x, r, d, st)
      PROVE  OffersStay
  BY <1>2 DEF OffersStay, NextOffer, InsertOffer, TypeInv, RowsOK, TablesTypeOK
<1>3. ASSUME NEW w \in Handler, MakeOffer(w) PROVE OffersStay
  BY <1>2, <1>3 DEF MakeOffer
<1>4. ASSUME NEW w \in Handler, SearchAgain(w) PROVE OffersStay
  BY <1>1, <1>2, <1>4 DEF SearchAgain, offers
<1>5. CASE \A w \in Handler : ~MakeOffer(w) /\ ~SearchAgain(w)
  <2>1. UNCHANGED <<oreq, odrv>>
    <3> USE DEF offers
    <3>1. CASE UNCHANGED vars
      BY <3>1 DEF vars
    <3>2. ASSUME NEW w \in Handler, HandlerStep(w) PROVE UNCHANGED <<oreq, odrv>>
      BY <1>5, <3>2 DEF HandlerStep, InsertRequest, FindOutstanding, RetractOffer, FreeDriver,
        CloseRequest, FinalizeSearch, Dispatch, LockDriver, EmptySweep, AnnounceOffer,
        CloseOffer,
        ReopenSearch, SaveTrip, SaveCompleted, FindRidden, SettleBooking, SavePresence
    <3>3. ASSUME NEW w \in Handler, JobFires(w) PROVE UNCHANGED <<oreq, odrv>>
      BY <3>3 DEF JobFires, WaveFires, ExpiryFires, TimeoutFires
    <3>4. ASSUME NEW w \in Handler, UserCall(w) PROVE UNCHANGED <<oreq, odrv>>
      BY <3>4 DEF UserCall, CreateRequest, CancelRequest, RetryRequest, DeclineOffer,
        CancelByDriver, CancelByPassenger, CancelRide, MarkArrived, StartRide, CompleteTrip,
        GoOnline
    <3>5. ASSUME \/ \E w \in Handler : Abort(w)
                 \/ \E o \in Offer : AcceptOffer(o)
                 \/ \E d \in Driver : GoOffline(d) \/ RunDry(d)
                 \/ \E r \in Request : Tick(r)
          PROVE  UNCHANGED <<oreq, odrv>>
      BY <3>5 DEF Abort, AcceptOffer, GoOffline, RunDry, Tick
    <3>6. QED
      BY <3>1, <3>2, <3>3, <3>4, <3>5 DEF Next
  <2>2. QED
    BY <1>1, <2>1
<1>6. QED
  BY <1>3, <1>4, <1>5

-----------------------------------------------------------------------------
(* Safety *)

\* At most one search per passenger, whatever createRequest, retryRequest and
\* declineOffer cross: only an insert starts a search, and the unique index on
\* searching requests stands in its way.
THEOREM OneSearch == Spec => []OneSearchPerPassenger
<1>1. Init => OneSearchPerPassenger
  BY DEF Init, OneSearchPerPassenger, Searching
<1>2. TypeInv /\ OneSearchPerPassenger /\ [Next]_vars => OneSearchPerPassenger'
  <2> SUFFICES ASSUME TypeInv, OneSearchPerPassenger, Kind PROVE OneSearchPerPassenger'
    BY StepKind
  <2> USE DEF OneSearchPerPassenger, Searching
  <2>0. status \in [Request -> RequestStatus] /\ owner \in [Request -> Passenger \cup {Nobody}]
    BY DEF TypeInv, RowsOK, TablesTypeOK
  <2>1. CASE Search
    BY <2>0, <2>1 DEF Search, InsertSearch, MaySearch, NextRequest
  <2>2. CASE Turn
    BY <2>0, <2>2 DEF Turn
  <2>3. CASE Finish
    BY <2>0, <2>3 DEF Finish
  <2>4. CASE Rest
    BY <2>4 DEF Rest
  <2>5. ASSUME NEW o \in Offer, AcceptOffer(o) PROVE OneSearchPerPassenger'
    BY <2>0, <2>5 DEF AcceptOffer
  <2>6. ASSUME NEW w \in Handler, NEW o \in Offer, NEW next \in {"idle", "research"},
               CancelRide(w, o, next)
        PROVE  OneSearchPerPassenger'
    BY <2>0, <2>6 DEF CancelRide
  <2>7. ASSUME NEW w \in Handler, SaveTrip(w) \/ SaveCompleted(w) \/ SettleBooking(w)
        PROVE  OneSearchPerPassenger'
    BY <2>7 DEF SaveTrip, SaveCompleted, SettleBooking, requests
  <2>8. QED
    BY <2>1, <2>2, <2>3, <2>4, <2>5, <2>6, <2>7 DEF Kind
<1>3. QED
  BY <1>1, <1>2, TypeInit, TypeStep, PTL DEF Spec

\* retryRequest never lets a retry and the request it retries run side by side:
\* only an ended request is retried, and an ended request stays ended.
THEOREM RetryLast == Spec => []RetryFollowsEnd
<1>1. Init => RetryFollowsEnd
  BY DEF Init, RetryFollowsEnd
<1>2. TypeInv /\ RetryFollowsEnd /\ [Next]_vars => RetryFollowsEnd'
  <2> SUFFICES ASSUME TypeInv, RetryFollowsEnd, Kind PROVE RetryFollowsEnd'
    BY StepKind
  <2> USE DEF RetryFollowsEnd
  <2>0. status \in [Request -> RequestStatus] /\ parent \in [Request -> Request \cup {0}]
    BY DEF TypeInv, RowsOK, TablesTypeOK
  <2>1. CASE Search
    BY <2>0, <2>1 DEF Search, InsertSearch, NextRequest
  <2>2. CASE Turn
    BY <2>0, <2>2 DEF Turn, Searching
  <2>3. CASE Finish
    BY <2>0, <2>3 DEF Finish
  <2>4. CASE Rest
    BY <2>4 DEF Rest
  <2>5. ASSUME NEW o \in Offer, AcceptOffer(o) PROVE RetryFollowsEnd'
    BY <2>0, <2>5 DEF AcceptOffer
  <2>6. ASSUME NEW w \in Handler, NEW o \in Offer, NEW next \in {"idle", "research"},
               CancelRide(w, o, next)
        PROVE  RetryFollowsEnd'
    BY <2>0, <2>6 DEF CancelRide
  <2>7. ASSUME NEW w \in Handler, SaveTrip(w) \/ SaveCompleted(w) \/ SettleBooking(w)
        PROVE  RetryFollowsEnd'
    BY <2>7 DEF SaveTrip, SaveCompleted, SettleBooking, requests
  <2>8. QED
    BY <2>1, <2>2, <2>3, <2>4, <2>5, <2>6, <2>7 DEF Kind
<1>3. QED
  BY <1>1, <1>2, TypeInit, TypeStep, PTL DEF Spec

\* OneRidePerRequest needs to know that the ride a request names exists even
\* when the request is no longer accepted.
RideInv ==
  /\ OneRidePerRequest
  /\ \A r \in Request : ride[r] # 0 => trip[ride[r]] # "none"

LEMMA RideInit == Init => RideInv
BY DEF Init, RideInv, OneRidePerRequest

LEMMA RideStep == TypeInv /\ RideInv /\ [Next]_vars => RideInv'
<1> SUFFICES ASSUME TypeInv, RideInv, Kind, OffersStay PROVE RideInv'
  BY StepKind, OfferStep
<1> USE DEF RideInv, OneRidePerRequest
<1>0. /\ status \in [Request -> RequestStatus] /\ ride \in [Request -> Offer \cup {0}]
      /\ trip \in [Offer -> TripStage]
      /\ \A o \in Offer : trip[o] # "none" => ostat[o] # "unused"
  BY DEF TypeInv, RowsOK, TablesTypeOK
<1>1. \A o \in Offer : trip[o] # "none" => oreq'[o] = oreq[o]
  BY <1>0 DEF OffersStay
<1>2. CASE Search
  BY <1>0, <1>1, <1>2 DEF Search, InsertSearch, NextRequest, rides
<1>3. CASE Turn
  BY <1>0, <1>1, <1>3 DEF Turn, Searching, rides
<1>4. CASE Finish
  BY <1>0, <1>1, <1>4 DEF Finish, Searching, rides
<1>5. CASE Rest
  BY <1>0, <1>1, <1>5 DEF Rest, rides
<1>6. ASSUME NEW o \in Offer, AcceptOffer(o) PROVE RideInv'
  <2>1. oreq[o] \in Request
    BY <1>6 DEF AcceptOffer, TypeInv, RowsOK, OffersKnown
  <2>2. \A x \in Offer : trip[x] # "none" => oreq[x] # oreq[o]
    BY <1>6 DEF AcceptOffer
  <2>3. /\ status' = [status EXCEPT ![oreq[o]] = "accepted"]
        /\ ride' = [ride EXCEPT ![oreq[o]] = o]
        /\ trip' = [trip EXCEPT ![o] = "assigned"] /\ oreq' = oreq
    BY <1>6 DEF AcceptOffer
  <2>4. ASSUME NEW x \in Offer, trip'[x] # "none"
        PROVE  /\ oreq'[x] \in Request /\ ride'[oreq'[x]] = x
               /\ status'[oreq'[x]] \in {"accepted", "cancelled"}
    BY <1>0, <2>1, <2>2, <2>3, <2>4
  <2>5. ASSUME NEW r \in Request, status'[r] = "accepted"
        PROVE  ride'[r] # 0 /\ trip'[ride'[r]] # "none" /\ oreq'[ride'[r]] = r
    BY <1>0, <2>1, <2>3, <2>5 DEF Offer
  <2>6. ASSUME NEW r \in Request, ride'[r] # 0 PROVE trip'[ride'[r]] # "none"
    BY <1>0, <2>1, <2>3, <2>6
  <2>7. QED
    BY <2>4, <2>5, <2>6
<1>7. ASSUME NEW w \in Handler, SaveCompleted(w) \/ SettleBooking(w) PROVE RideInv'
  BY <1>0, <1>1, <1>7, HandlerFacts DEF SaveCompleted, SettleBooking, HandlerKnows, requests
<1>8. ASSUME NEW w \in Handler, NEW o \in Offer, NEW next \in {"idle", "research"},
             CancelRide(w, o, next)
      PROVE  RideInv'
  BY <1>0, <1>1, <1>8 DEF CancelRide, Waiting
<1>9. ASSUME NEW w \in Handler, SaveTrip(w) PROVE RideInv'
  <2>1. h[w].o \in Offer /\ trip[h[w].o] # "none" /\ h[w].to # "none"
    BY <1>9, HandlerFacts DEF SaveTrip, HandlerKnows
  <2>2. QED
    BY <1>0, <1>1, <1>9, <2>1 DEF SaveTrip, requests
<1>10. QED
  BY <1>2, <1>3, <1>4, <1>5, <1>6, <1>7, <1>8, <1>9 DEF Kind

\* acceptOffer makes at most one ride of a request, whatever answers, timeouts and
\* withdrawals cross: it claims the request and the offer in one transaction.
THEOREM OneRide == Spec => []OneRidePerRequest
<1>1. RideInv => OneRidePerRequest
  BY DEF RideInv
<1>2. QED
  BY <1>1, TypeInit, TypeStep, RideInit, RideStep, PTL DEF Spec

\* The bound on faults only falls.
LEMMA FaultsFall == TypeInv /\ [Next]_vars => faults' <= faults
<1> SUFFICES ASSUME TypeInv, [Next]_vars PROVE faults' <= faults
  OBVIOUS
<1> DEFINE Falls == faults' = faults \/ (faults > 0 /\ faults' = faults - 1)
<1>1. ASSUME NEW w \in Handler, HandlerStep(w) PROVE Falls
  <2>1. CASE InsertRequest(w) \/ EmptySweep(w) \/ AnnounceOffer(w) \/ SearchAgain(w)
    BY <2>1 DEF InsertRequest, EmptySweep, AnnounceOffer, SearchAgain, Enqueue, ScheduleWave
  <2>2. CASE \/ FindOutstanding(w) \/ RetractOffer(w) \/ FreeDriver(w) \/ CloseRequest(w)
             \/ FinalizeSearch(w) \/ Dispatch(w) \/ LockDriver(w) \/ MakeOffer(w)
    BY <2>2 DEF FindOutstanding, RetractOffer, FreeDriver, CloseRequest, FinalizeSearch,
      Dispatch, LockDriver, MakeOffer, budget
  <2>3. CASE \/ CloseOffer(w) \/ ReopenSearch(w) \/ SaveTrip(w) \/ SaveCompleted(w)
             \/ FindRidden(w) \/ SettleBooking(w) \/ SavePresence(w)
    BY <2>3 DEF CloseOffer, ReopenSearch, SaveTrip, SaveCompleted, FindRidden, SettleBooking,
      SavePresence, budget
  <2>4. QED
    BY <1>1, <2>1, <2>2, <2>3 DEF HandlerStep
<1>2. ASSUME NEW w \in Handler, JobFires(w) PROVE Falls
  BY <1>2 DEF JobFires, WaveFires, ExpiryFires, TimeoutFires, budget
<1>3. ASSUME NEW w \in Handler, UserCall(w) PROVE Falls
  <2>1. CASE \E r \in Request : RetryRequest(w, r)
    BY <2>1 DEF RetryRequest, Enqueue
  <2>2. CASE \E d \in Driver : GoOnline(w, d)
    BY <2>2 DEF GoOnline, Toggle
  <2>3. CASE \/ \E p \in Passenger : CreateRequest(w, p)
             \/ \E r \in Request : CancelRequest(w, r)
    BY <2>3 DEF CreateRequest, CancelRequest, budget
  <2>4. CASE \E o \in Offer : \/ DeclineOffer(w, o)
                             \/ CancelByDriver(w, o) \/ CancelByPassenger(w, o)
                             \/ MarkArrived(w, o) \/ StartRide(w, o) \/ CompleteTrip(w, o)
    BY <2>4 DEF DeclineOffer, CancelByDriver, CancelByPassenger, CancelRide, MarkArrived,
      StartRide, CompleteTrip, budget
  <2>5. QED
    BY <1>3, <2>1, <2>2, <2>3, <2>4 DEF UserCall
<1>4. ASSUME \/ \E w \in Handler : Abort(w)
             \/ \E o \in Offer : AcceptOffer(o)
             \/ \E d \in Driver : GoOffline(d) \/ RunDry(d)
             \/ \E r \in Request : Tick(r)
             \/ UNCHANGED vars
      PROVE  Falls
  BY <1>4 DEF Abort, AcceptOffer, GoOffline, RunDry, Toggle, Tick, vars, budget
<1>5. Falls
  BY <1>1, <1>2, <1>3, <1>4 DEF Next
<1>6. QED
  BY <1>5 DEF TypeInv, RowsOK

\* A handler that still owes a booking its save leaves only by its own steps or
\* by a failure.
LEMMA SettlingMoves ==
  ASSUME TypeInv, [Next]_vars, NEW v \in Handler, h[v].pc \in {"ridden", "settle"}
  PROVE  h'[v] = h[v] \/ FindRidden(v) \/ SettleBooking(v) \/ faults' < faults
<1>0. h \in [Handler -> HandlerRecord] /\ h[v] # Idle
  BY HandlerFacts DEF Idle
<1>1. ASSUME NEW w \in Handler, NEW rec, Begin(w, rec) PROVE h'[v] = h[v]
  BY <1>0, <1>1 DEF Begin
<1>2. ASSUME NEW w \in Handler, NEW rec, Goto(w, rec), w # v PROVE h'[v] = h[v]
  BY <1>0, <1>2 DEF Goto
<1>3. ASSUME NEW w \in Handler, HandlerStep(w)
      PROVE  h'[v] = h[v] \/ FindRidden(v) \/ SettleBooking(v)
  <2>1. CASE w = v
    BY <1>3, <2>1 DEF HandlerStep, InsertRequest, FindOutstanding, RetractOffer, FreeDriver,
      CloseRequest, FinalizeSearch, Dispatch, LockDriver, EmptySweep, MakeOffer, AnnounceOffer,
      CloseOffer, ReopenSearch, SearchAgain, SaveTrip, SaveCompleted, SavePresence
  <2>2. CASE w # v
    BY <1>2, <1>3, <2>2 DEF HandlerStep, InsertRequest, FindOutstanding, RetractOffer,
      FreeDriver, CloseRequest, FinalizeSearch, Dispatch, LockDriver, EmptySweep, MakeOffer,
      AnnounceOffer, CloseOffer, ReopenSearch, SearchAgain, SaveTrip, SaveCompleted,
      FindRidden, SettleBooking, SavePresence
  <2>3. QED
    BY <2>1, <2>2
<1>4. ASSUME NEW w \in Handler, JobFires(w) PROVE h'[v] = h[v]
  BY <1>1, <1>4 DEF JobFires, WaveFires, ExpiryFires, TimeoutFires
<1>5. ASSUME NEW w \in Handler, UserCall(w) PROVE h'[v] = h[v]
  BY <1>1, <1>5 DEF UserCall, CreateRequest, CancelRequest, RetryRequest, DeclineOffer,
    CancelByDriver, CancelByPassenger, CancelRide, MarkArrived, StartRide, CompleteTrip,
    GoOnline
<1>6. ASSUME NEW w \in Handler, Abort(w) PROVE faults' < faults
  BY <1>6 DEF Abort, TypeInv, RowsOK
<1>7. ASSUME \/ \E o \in Offer : AcceptOffer(o)
             \/ \E d \in Driver : GoOffline(d) \/ RunDry(d)
             \/ \E r \in Request : Tick(r)
             \/ UNCHANGED vars
      PROVE  h'[v] = h[v]
  BY <1>7 DEF AcceptOffer, GoOffline, RunDry, Tick, vars
<1>8. QED
  BY <1>3, <1>4, <1>5, <1>6, <1>7 DEF Next

\* Until the booking of offer o is saved, somebody owes it that save, unless an
\* await has thrown.
Owed(o) == Settling(o) \/ ~Flawless

LEMMA OwedStays ==
  ASSUME TypeInv, faults <= MaxFaults, [Next]_vars, NEW o \in Offer, Owed(o),
         booking[o] = "confirmed", booking'[o] = "confirmed"
  PROVE  Owed(o)'
<1>0. faults \in Nat /\ faults' \in Nat /\ faults' <= faults
  BY FaultsFall, TypeStep DEF TypeInv, RowsOK
<1>1. CASE ~Flawless
  BY <1>0, <1>1 DEF Owed, Flawless
<1>2. CASE faults' < faults
  BY <1>0, <1>2 DEF Owed, Flawless
<1>3. ASSUME NEW v \in Handler, h[v].o = o, h[v].pc \in {"ridden", "settle"},
             h'[v] = h[v] \/ FindRidden(v) \/ SettleBooking(v)
      PROVE  Owed(o)'
  <2>1. h \in [Handler -> HandlerRecord] /\ booking \in [Offer -> BookingStatus]
    BY HandlerFacts DEF TypeInv, RowsOK, TablesTypeOK
  <2>2. CASE h'[v] = h[v]
    BY <1>3, <2>2 DEF Owed, Settling
  <2>3. CASE FindRidden(v)
    <3>1. h'[v] = [h[v] EXCEPT !.pc = "settle"]
      BY <1>3, <2>1, <2>3 DEF FindRidden, Goto
    <3>2. h'[v].o = o /\ h'[v].pc = "settle"
      BY <1>3, <2>1, <3>1 DEF HandlerRecord
    <3>3. QED
      BY <3>2 DEF Owed, Settling
  <2>4. CASE SettleBooking(v)
    BY <1>3, <2>1, <2>4 DEF SettleBooking
  <2>5. QED
    BY <1>3, <2>2, <2>3, <2>4
<1>4. QED
  BY <1>1, <1>2, <1>3, SettlingMoves DEF Owed, Settling

\* A confirmed booking has a ride that is still on, or one whose completion is
\* about to close it: cancelByDriver and cancelByPassenger end both in one
\* transaction, and completeTrip, which saves one after the other, never leaves
\* the booking behind unless it fails in between.
THEOREM NoOrphan == Spec => []NoOrphanBooking
<1> DEFINE Inv == NoOrphanBooking /\ faults <= MaxFaults
<1>1. Init => Inv
  BY DEF Init, NoOrphanBooking
<1>2. TypeInv /\ Inv /\ [Next]_vars => Inv'
  <2> SUFFICES ASSUME TypeInv, Inv, [Next]_vars, Kind PROVE Inv'
    BY StepKind
  <2>1. faults' <= MaxFaults
    BY FaultsFall, TypeStep DEF TypeInv, RowsOK
  <2> SUFFICES ASSUME NEW o \in Offer, booking'[o] = "confirmed"
               PROVE  trip'[o] \in LiveTrip \/ (trip'[o] = "completed" /\ Owed(o)')
    BY <2>1 DEF NoOrphanBooking, Owed
  <2>2. booking \in [Offer -> BookingStatus] /\ trip \in [Offer -> TripStage]
    BY DEF TypeInv, RowsOK, TablesTypeOK
  <2>3. ASSUME booking[o] = "confirmed"
        PROVE  trip[o] \in LiveTrip \/ (trip[o] = "completed" /\ Owed(o)')
    BY <2>3, OwedStays DEF NoOrphanBooking, Owed
  <2>4. CASE Search \/ Turn \/ Finish \/ Rest
    BY <2>3, <2>4 DEF Search, Turn, Finish, Rest, rides
  <2>5. ASSUME NEW x \in Offer, AcceptOffer(x)
        PROVE  trip'[o] \in LiveTrip \/ (trip'[o] = "completed" /\ Owed(o)')
    BY <2>2, <2>3, <2>5 DEF AcceptOffer, LiveTrip, Waiting
  <2>6. ASSUME NEW w \in Handler, NEW x \in Offer, NEW next \in {"idle", "research"},
               CancelRide(w, x, next)
        PROVE  trip'[o] \in LiveTrip \/ (trip'[o] = "completed" /\ Owed(o)')
    BY <2>2, <2>3, <2>6 DEF CancelRide
  <2>7. ASSUME NEW w \in Handler, SaveTrip(w)
        PROVE  trip'[o] \in LiveTrip \/ (trip'[o] = "completed" /\ Owed(o)')
    <3>1. booking[o] = "confirmed" /\ h[w].o \in Offer /\ h[w].to \in LiveTrip
      BY <2>7, HandlerFacts DEF SaveTrip, HandlerKnows, LiveTrip, Waiting
    <3>2. trip'[o] = trip[o] \/ trip'[o] \in LiveTrip
      BY <2>2, <2>7, <3>1 DEF SaveTrip
    <3>3. QED
      BY <2>3, <3>1, <3>2
  <2>8. ASSUME NEW w \in Handler, SaveCompleted(w)
        PROVE  trip'[o] \in LiveTrip \/ (trip'[o] = "completed" /\ Owed(o)')
    <3>1. booking[o] = "confirmed"
      BY <2>8 DEF SaveCompleted
    <3>2. CASE h[w].o = o
      <4>1. h'[w].o = o /\ h'[w].pc = "ridden"
        BY <2>8, <3>2, HandlerFacts DEF SaveCompleted, Goto, HandlerRecord
      <4>2. trip'[o] = "completed"
        BY <2>2, <2>8, <3>2 DEF SaveCompleted
      <4>3. QED
        BY <4>1, <4>2 DEF Owed, Settling
    <3>3. CASE h[w].o # o
      BY <2>2, <2>3, <2>8, <3>1, <3>3 DEF SaveCompleted
    <3>4. QED
      BY <3>2, <3>3
  <2>9. ASSUME NEW w \in Handler, SettleBooking(w)
        PROVE  trip'[o] \in LiveTrip \/ (trip'[o] = "completed" /\ Owed(o)')
    BY <2>2, <2>3, <2>9 DEF SettleBooking
  <2>10. QED
    BY <2>4, <2>5, <2>6, <2>7, <2>8, <2>9 DEF Kind
<1>3. QED
  BY <1>1, <1>2, TypeInit, TypeStep, PTL DEF Spec

-----------------------------------------------------------------------------
(* Refinement *)

LEMMA Phases ==
  /\ PhaseOf("unused") = "none" /\ PhaseOf("accepted") = "matched"
  /\ \A st \in Searching : PhaseOf(st) = "searching"
  /\ \A st \in Ended : PhaseOf(st) = "ended"
BY DEF PhaseOf, Searching

LEMMA MatchInit == Init => Match!Init
<1> SUFFICES ASSUME Init PROVE Match!Init
  OBVIOUS
<1>1. phase = [r \in Request |-> "none"]
  BY Phases DEF Init, phase
<1>2. winner = [r \in Request |-> Nobody]
  BY DEF Init, winner
<1>3. QED
  BY <1>1, <1>2 DEF Match!Init

LEMMA MatchStep == TypeInv /\ RideInv /\ [Next]_vars => [Match!Next]_Match!vars
<1> SUFFICES ASSUME TypeInv, RideInv, Kind, OffersStay PROVE [Match!Next]_Match!vars
  BY StepKind, OfferStep
<1> USE DEF Match!vars
<1>0. /\ status \in [Request -> RequestStatus] /\ ride \in [Request -> Offer \cup {0}]
      /\ trip \in [Offer -> TripStage]
  BY DEF TypeInv, RowsOK, TablesTypeOK
\* The winner changes only when a ride is assigned.
<1>1. ASSUME UNCHANGED ride PROVE winner' = winner
  <2>1. \A r \in Request : ride[r] # 0 => odrv'[ride[r]] = odrv[ride[r]]
    BY <1>0 DEF RideInv, TypeInv, RowsOK, OffersStay
  <2>2. QED
    BY <1>1, <2>1 DEF winner
\* The phase changes only with the status.
<1>2. ASSUME UNCHANGED status PROVE phase' = phase
  BY <1>2 DEF phase
<1>3. ASSUME NEW r \in Request, NEW st \in RequestStatus, status' = [status EXCEPT ![r] = st]
      PROVE  phase' = [phase EXCEPT ![r] = PhaseOf(st)]
  BY <1>0, <1>3 DEF phase
<1> HIDE DEF Ended
<1>4. CASE Search
  <2>1. PICK r \in NextRequest : status' = [status EXCEPT ![r] = "searching"] /\ UNCHANGED ride
    BY <1>4 DEF Search, InsertSearch
  <2>2. Match!Ask(r)
    <3>1. r \in Request /\ phase[r] = "none"
      BY <2>1, Phases DEF NextRequest, phase
    <3>2. "searching" \in RequestStatus /\ "searching" \in Searching
      BY DEF RequestStatus, Searching
    <3>3. phase' = [phase EXCEPT ![r] = PhaseOf("searching")]
      BY <1>3, <2>1, <3>1, <3>2
    <3>4. PhaseOf("searching") = "searching" /\ winner' = winner
      BY <1>1, <2>1, <3>2, Phases
    <3>5. QED
      BY <3>1, <3>3, <3>4 DEF Match!Ask
  <2>3. QED
    BY <2>2 DEF Match!Next, NextRequest
<1>5. CASE Turn
  <2>1. PICK r \in Request, st \in Searching :
          status[r] \in Searching /\ status' = [status EXCEPT ![r] = st] /\ UNCHANGED ride
    BY <1>5 DEF Turn
  <2>2. phase' = phase
    BY <1>0, <1>3, <2>1, Phases DEF phase, RequestStatus, Searching
  <2>3. QED
    BY <1>1, <2>1, <2>2
<1>6. CASE Finish
  <2>1. PICK r \in Request, st \in Ended :
          /\ status[r] # "unused"
          /\ status' = [status EXCEPT ![r] = st] /\ UNCHANGED ride
    BY <1>6 DEF Finish
  <2>2. CASE status[r] \in Ended
    <3>1. phase' = phase
      BY <1>0, <1>3, <2>1, <2>2, Phases DEF phase, RequestStatus, Searching, Ended
    <3>2. QED
      BY <1>1, <2>1, <3>1
  <2>3. CASE status[r] \notin Ended
    <3>1. Match!End(r)
      BY <1>0, <1>1, <1>3, <2>1, <2>3, Phases DEF Match!End, phase, RequestStatus, Searching,
         Ended
    <3>2. QED
      BY <3>1 DEF Match!Next
  <2>4. QED
    BY <2>2, <2>3
<1>7. CASE Rest
  BY <1>1, <1>2, <1>7 DEF Rest
<1>8. ASSUME NEW o \in Offer, AcceptOffer(o) PROVE Match!Next
  <2> DEFINE r == oreq[o]
  <2>1. r \in Request /\ odrv[o] \in Driver /\ o # 0
    BY <1>8 DEF AcceptOffer, TypeInv, RowsOK, OffersKnown, Offer
  <2>2. phase[r] = "searching" /\ phase' = [phase EXCEPT ![r] = "matched"]
    <3>1. status[r] = "offered" /\ status' = [status EXCEPT ![r] = "accepted"]
      BY <1>8 DEF AcceptOffer
    <3>2. "accepted" \in RequestStatus /\ "offered" \in Searching
      BY DEF RequestStatus, Searching
    <3>3. phase' = [phase EXCEPT ![r] = PhaseOf("accepted")]
      BY <1>3, <2>1, <3>1, <3>2
    <3>4. phase[r] = "searching"
      BY <2>1, <3>1, <3>2, Phases DEF phase
    <3>5. QED
      BY <3>3, <3>4, Phases
  <2>3. winner' = [winner EXCEPT ![r] = odrv[o]]
    <3>1. ride' = [ride EXCEPT ![r] = o] /\ odrv' = odrv
      BY <1>8 DEF AcceptOffer
    <3>2. QED
      BY <1>0, <2>1, <3>1 DEF winner
  <2>4. Match!Match(r, odrv[o])
    BY <2>2, <2>3 DEF Match!Match
  <2>5. QED
    BY <2>1, <2>4 DEF Match!Next
<1>9. ASSUME NEW w \in Handler, SaveCompleted(w) \/ SettleBooking(w)
      PROVE  UNCHANGED Match!vars
  BY <1>1, <1>2, <1>9 DEF SaveCompleted, SettleBooking, requests
<1>10. ASSUME NEW w \in Handler, NEW o \in Offer, NEW next \in {"idle", "research"},
              CancelRide(w, o, next)
       PROVE  [Match!Next]_Match!vars
  <2> DEFINE r == oreq[o]
  <2>1. r \in Request /\ status[r] \in {"accepted", "cancelled"}
    BY <1>10 DEF CancelRide, Waiting, RideInv, OneRidePerRequest
  <2>2. status' = [status EXCEPT ![r] = "cancelled"] /\ UNCHANGED ride
    BY <1>10 DEF CancelRide
  <2>3. CASE status[r] = "cancelled"
    <3>1. UNCHANGED status
      BY <1>0, <2>2, <2>3
    <3>2. QED
      BY <1>1, <1>2, <2>2, <3>1
  <2>4. CASE status[r] = "accepted"
    <3>1. Match!End(r)
      BY <1>0, <1>1, <1>3, <2>1, <2>2, <2>4, Phases DEF Match!End, phase, RequestStatus,
         Searching, Ended
    <3>2. QED
      BY <2>1, <3>1 DEF Match!Next
  <2>5. QED
    BY <2>1, <2>3, <2>4
<1>11. ASSUME NEW w \in Handler, SaveTrip(w) PROVE UNCHANGED Match!vars
  BY <1>1, <1>2, <1>11 DEF SaveTrip, requests
<1>12. QED
  BY <1>4, <1>5, <1>6, <1>7, <1>8, <1>9, <1>10, <1>11 DEF Kind

\* The service implements RideMatch: the claim in acceptOffer gives a request one
\* winner, and no timeout, withdrawal or retry takes it back.
THEOREM Implements == Spec => MatchSpec
<1>1. QED
  BY MatchInit, MatchStep, TypeInit, TypeStep, RideInit, RideStep, PTL
  DEF Spec, MatchSpec, Match!Spec
=============================================================================
