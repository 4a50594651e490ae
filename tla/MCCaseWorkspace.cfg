SPECIFICATION Spec
CONSTANTS
  q1 = q1  q2 = q2
  Owner = 0
  Validators = {1, 2}
  Staked = {1}
  Requests = {q1, q2}
  Bounty = 3
  BountyEdits = {4}
  OtherBounty = 3
  Metas <- MCMetas
  MinUploads = 1
  MaxRequests = 5
  MaxFaults = 1
SYMMETRY RequestSymmetry
INVARIANTS FinalizedIsPaid WinnersEarnedIt RecordedPayoutIsPaid AssignedCanRead
\* Every request may have been made.
CHECK_DEADLOCK FALSE
