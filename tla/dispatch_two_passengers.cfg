SPECIFICATION Spec
CONSTANTS
  Passenger = {p1, p2}
  Driver = {d1}
  Handler = {w1, w2}
  MaxRequests = 2
  MaxOffers = 2
  MaxToggles = 0
  MaxFaults = 0
  Nobody = Nobody
SYMMETRY Interchangeable
\* A passenger need not ask again, and the bounds end: the system may stop.
CHECK_DEADLOCK FALSE
INVARIANTS OneSearchPerPassenger RetryFollowsEnd EverySearchTimed OneLiveOfferPerDriver NoLeakedLock EveryOfferTimed
