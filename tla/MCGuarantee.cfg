SPECIFICATION Spec
CONSTANTS
  v1 = v1  v2 = v2  q1 = q1  q2 = q2  t1 = t1  t2 = t2  d1 = d1  g1 = g1  g2 = g2
  None = None
  Validators = {v1, v2}
  Requests = {q1, q2}
  Transfers = {t1, t2}
  Disputes = {d1}
  Stakers = {v1}
  Calls = {g1, g2}
  Total = 2
  MaxCycle = 2
  MaxGuarantees = 2
  MaxFaults = 1
  Budgets <- MCBudgets
SYMMETRY MCSymmetry
INVARIANTS LinksAgree CompletedIsReleased OneAcceptedPerCycle GuaranteeStands GuaranteeMoneyKept
\* Every bound may be used up.
CHECK_DEADLOCK FALSE
