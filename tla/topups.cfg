SPECIFICATION FairSpec
CONSTANTS
  Payment = {p1}
  Handler = {w1, w2, w3}
  Attempts = 2
  MaxLooks = 1
  MaxDesk = 2
  MaxStalls = 1
  MaxFaults = 1
  NoPayment = NoPayment
\* Nobody need charge a wallet, and the bounds end: the system may stop.
CHECK_DEADLOCK FALSE
INVARIANTS ApprovedIsCredited CreditIsConfirmed PendingIsWatched
PROPERTIES TopupSettles
