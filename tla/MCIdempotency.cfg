SPECIFICATION IdempotencySpec
CONSTANTS
  r1 = r1  r2 = r2  r3 = r3  k1 = k1
  NoRequest = NoRequest  NoResult = NoResult
  Requests = {r1, r2, r3}
  Keys = {k1}
  Key <- SameKey
  MaxThrows = 2  MaxDeaths = 1  MaxExpiries = 1
SYMMETRY Symmetric
INVARIANTS MutualExclusion SerialRetriesRunOnce
\* Every request may have been answered.
CHECK_DEADLOCK FALSE
