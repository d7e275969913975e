---------------------------- MODULE MCSeatBooking -----------------------------
(* Instances of SeatBooking for TLC; seats and handlers are interchangeable,  *)
(* and so are bookings.                                                       *)
EXTENDS SeatBooking, TLC

Interchangeable ==
  Permutations(Booking) \cup Permutations(Handler) \cup Permutations(Seat)
=============================================================================
