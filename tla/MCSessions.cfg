SPECIFICATION SessionsSpec
CONSTANTS
  s1 = s1  s2 = s2  s3 = s3  s4 = s4  q1 = q1  q2 = q2
  None = None
  Sessions = {s1, s2, s3, s4}
  Requests = {q1, q2}
  MaxConcurrentSessions = 2
SYMMETRY MCSymmetry
INVARIANTS OneLivePerFamily SessionLimit LoggedOutStaysOut
