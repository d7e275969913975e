SPECIFICATION Spec
CONSTANTS
  Passenger = {p1}
  Driver = {d1, d2}
  Handler = {w1, w2}
  MaxRequests = 1
  MaxOffers = 3
  MaxToggles = 1
  MaxFaults = 1
  Nobody = Nobody
SYMMETRY Interchangeable
\* A passenger need not ask again, and the bounds end: the system may stop.
CHECK_DEADLOCK FALSE
INVARIANTS TypeOK OneRidePerRequest NoOrphanBooking
PROPERTIES MatchSpec
