SPECIFICATION Spec
CONSTANTS
  alice = alice  bob = bob  t1 = t1  t2 = t2
  q1 = q1  q2 = q2  q3 = q3  w1 = w1  case1 = case1
  NoCase = NoCase  NoTransfer = NoTransfer
  Requests = {q1, q2}
  Workers = {}
  Users <- MCUsers
  Transfers <- TwoTransfers
  Sender <- TwoSender
  Receiver <- TwoReceiver
  Amount <- TwoAmount
  CaseMessage <- TwoCase
  CaseLockKey <- TwoKey
  Opening <- TwoOpening
  SplitPercents = {100}
  AdminStatuses = {}
  MaxFaults = 1
  MaxCrashes = 0
SYMMETRY RequestSymmetry
PROPERTIES ImplementsEscrowContract
\* Everything may be settled: the service then waits for requests.
CHECK_DEADLOCK FALSE
