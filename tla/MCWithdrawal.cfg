SPECIFICATION Spec
CONSTANTS
  u1 = u1  w1 = w1  w2 = w2  w3 = w3  c1 = c1  c2 = c2  a1 = a1  a2 = a2
  NoWithdrawal = NoWithdrawal
  Withdrawals = {w1, w2, w3}
  Users = {u1}
  Owner <- OneOwner
  Amount <- Amounts
  Opening <- TwoOpening
  Cancels = {c1, c2}
  Admins = {a1}
  WithdrawalFee = 5
  DailyWithdrawalLimit = 200
  MaxFaults = 2  MaxCrashes = 1
SYMMETRY Symmetric
INVARIANTS OneActive UserRefundsOnce BooksBalance
\* Every request may have been handled.
CHECK_DEADLOCK FALSE
