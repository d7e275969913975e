SPECIFICATION FairSpec
CONSTANTS
  Booking = {b1}
  Handler = {w1, w2}
  MaxMarks = 0
  MaxFaults = 1
  AfterMishap = FALSE
  Nothing = Nothing
\* A trip that is over and bounds used up: the system may stop.
CHECK_DEADLOCK FALSE
PROPERTIES TripEnds RiderSetsOut
