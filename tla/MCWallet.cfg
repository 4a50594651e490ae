SPECIFICATION Spec
CONSTANTS
  alice = alice  bob = bob  deposit = deposit  refund = refund  spend = spend  last = last  rest = rest
  a1 = a1  a2 = a2  b1 = b1  NoCall = NoCall
  Users <- MCUsers
  Calls <- MCCalls
  User <- MCUser
  Delta <- MCDelta
  Audits = {a1, a2}
  AuditUser <- MCAuditUser
  Backfills = {}
  Transactional = TRUE
  MaxFaults = 2
  MaxCrashes = 1
INVARIANT OnlyOvertakenCallsLost
PROPERTY ImplementsContract
\* Every call may have been made.
CHECK_DEADLOCK FALSE
