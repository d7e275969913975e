SPECIFICATION Spec
CONSTANTS
  Seat = {s1, s2}
  Booking = {b1, b2}
  Handler = {w1, w2}
  MaxEdits = 1
  Attempts = 2
  MaxFaults = 1
  MaxStalled = 0
  Free = Free
  Locked = Locked
  Nothing = Nothing
SYMMETRY Interchangeable
\* Every booking over and every bound used up: the system may stop.
CHECK_DEADLOCK FALSE
INVARIANTS SeatHasOneHolder CountAgrees TakenIsHeld PendingIsTimed
PROPERTIES KeepsPromise
