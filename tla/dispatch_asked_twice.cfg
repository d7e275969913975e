SPECIFICATION DeclinesSpec
CONSTANTS
  Passenger = {p1, p2}
  Driver = {d1, d2}
  Handler = {w1, w2, w3}
  MaxRequests = 2
  MaxOffers = 4
  MaxToggles = 0
  MaxFaults = 0
  Nobody = Nobody
SYMMETRY Interchangeable
\* Bounds used up: the system may stop.
CHECK_DEADLOCK FALSE
INVARIANTS OneOfferPerDriver
