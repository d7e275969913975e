SPECIFICATION FairSpec
CONSTANTS
  Booking = {b1}
  Handler = {w1, w2}
  MaxPayments = 1
  Attempts = 2
  MaxOpens = 1
  MaxDesk = 1
  MaxFaults = 1
  NoBooking = NoBooking
\* Nobody need pay or answer, and the bounds end: the system may stop.
CHECK_DEADLOCK FALSE
INVARIANTS
  TypeOK LedgerBalanced CreditIsBacked PaidIsCollected ApprovedIsConfirmed ApprovedIsCollected
  PendingIsWatched RequestedIsOpen
PROPERTIES PaymentEnds
