SPECIFICATION FairSpec
CONSTANTS
  alice = alice  bob = bob  t1 = t1  t2 = t2
  q1 = q1  q2 = q2  q3 = q3  w1 = w1  case1 = case1
  NoCase = NoCase  NoTransfer = NoTransfer
  Requests = {q1, q2}
  Workers = {w1}
  Users <- MCUsers
  Transfers <- OneTransfer
  Sender <- OneSender
  Receiver <- OneReceiver
  Amount <- OneAmount
  CaseMessage <- OneCase
  CaseLockKey <- OneCase
  Opening <- OneOpening
  SplitPercents = {0, 33, 100}
  AdminStatuses = {"UnderReview", "Resolved"}
  MaxFaults = 2
  MaxCrashes = 1
INVARIANTS NoDoubleSettlement EscrowBacked SettledInFull MoneyConserved
PROPERTIES ExpiredIsSettled PaidIsFinal
\* Everything may be settled: the service then waits for requests.
CHECK_DEADLOCK FALSE
