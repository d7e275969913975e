--------------------------- MODULE MCTripLifecycle ----------------------------
EXTENDS TripLifecycle, TLC

\* Handlers are interchangeable, bookings too.
Interchangeable == Permutations(Handler) \cup Permutations(Booking)
=============================================================================
