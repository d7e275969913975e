SPECIFICATION Spec
CONSTANTS
  Payment = {p1}
  Handler = {w1, w2}
  Attempts = 1
  MaxLooks = 0
  MaxDesk = 1
  MaxStalls = 0
  MaxFaults = 0
  NoPayment = NoPayment
SYMMETRY Interchangeable
\* Nobody need charge a wallet, and the bounds end: the system may stop.
CHECK_DEADLOCK FALSE
INVARIANTS CreditedOnce
