------------------------------ MODULE MCRideFare ------------------------------
(* Instances of RideFare for TLC; bookings and handlers are interchangeable. *)
EXTENDS RideFare, TLC

Interchangeable == Permutations(Booking) \cup Permutations(Handler)
=============================================================================
