\* One trip, a payout and a fine on one driver's wallet.
SPECIFICATION FairSpec
CONSTANTS
  Trip = {t1}
  Payout = {x1, x2}
  Charge = {c1}
  Handler = {w1, w2}
  Fare = 3
  Fee = 1
  Minimum = 2
  Fine = 1
  Amounts = {3}
  MaxPostings = 1
  MaxDesk = 1
  MaxFaults = 1
  Nothing = Nothing
INVARIANTS Explained ReservedIsOpen AppliedIsDeducted
PROPERTIES CompletedIsCharged
\* Every ride ended and every bound used up: the system may stop.
CHECK_DEADLOCK FALSE
