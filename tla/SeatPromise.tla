----------------------------- MODULE SeatPromise ------------------------------
(***************************************************************************)
(* What the bookings of a shared trip promise: a seat is taken only while  *)
(* it is free, by one booking, and is given up by the booking that holds   *)
(* it or by the driver who closed it.                                      *)
(***************************************************************************)
CONSTANTS Seat, Booking, Free, Locked

VARIABLE seat   \* who a seat belongs to

Init == seat = [s \in Seat |-> Free]

\* All the seats of a booking, or none of them.
Take(b, S) == /\ \A s \in S : seat[s] = Free
              /\ seat' = [s \in Seat |-> IF s \in S THEN b ELSE seat[s]]

\* A seat is given up by itself: a booking with several gives them up one by one.
GiveUp(b, s) == seat[s] = b /\ seat' = [seat EXCEPT ![s] = Free]

Close(s) == seat[s] = Free /\ seat' = [seat EXCEPT ![s] = Locked]
Reopen(s) == seat[s] = Locked /\ seat' = [seat EXCEPT ![s] = Free]

Next == \/ \E b \in Booking : \/ \E S \in SUBSET Seat : Take(b, S)
                              \/ \E s \in Seat : GiveUp(b, s)
        \/ \E s \in Seat : Close(s) \/ Reopen(s)

Spec == Init /\ [][Next]_seat
=============================================================================
