SPECIFICATION FairSpec
CONSTANTS
  Passenger = {p1}
  Driver = {d1, d2}
  Handler = {w1, w2}
  MaxRequests = 1
  MaxOffers = 3
  MaxToggles = 0
  MaxFaults = 0
  Nobody = Nobody
\* A passenger need not ask again, and the bounds end: the system may stop.
CHECK_DEADLOCK FALSE
PROPERTIES SearchEnds OffersClose DriverNotBenched
