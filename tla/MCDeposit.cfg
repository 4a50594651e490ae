SPECIFICATION Spec
CONSTANTS
  d1 = d1  d2 = d2  d3 = d3  p1 = p1  p2 = p2  a1 = a1  a2 = a2  a3 = a3
  NoDeposit = NoDeposit
  Deposits = {d1, d2, d3}
  Payments = {p1, p2}
  Payment <- SharedPayment
  Admins = {a1, a2, a3}
  MaxFaults = 2  MaxCrashes = 1
SYMMETRY AdminSymmetry
INVARIANTS PaymentCreditedOnce CreditedIsApproved ApprovedIsCredited
\* Every deposit may have been decided.
CHECK_DEADLOCK FALSE
