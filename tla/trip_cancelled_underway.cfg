SPECIFICATION Spec
CONSTANTS
  Booking = {b1}
  Handler = {w1, w2}
  MaxMarks = 1
  MaxFaults = 0
  AfterMishap = TRUE
  Nothing = Nothing
SYMMETRY Interchangeable
\* A trip that is over and bounds used up: the system may stop.
CHECK_DEADLOCK FALSE
INVARIANTS CancelledCarriesNobody
