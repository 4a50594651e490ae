---------------------------- MODULE MCWithdrawal ----------------------------
(***************************************************************************)
(* Instances of Withdrawal for TLC: the withdrawals of one user.           *)
(***************************************************************************)
EXTENDS Withdrawal, TLC

CONSTANTS u1, w1, w2, w3, c1, c2, a1, a2

OneOwner == [w \in Withdrawals |-> u1]

\* The second request, and the third, exceed the day's limit after the first.
Amounts == [w \in Withdrawals |-> IF w = w1 THEN 100 ELSE 150]

\* Enough for two withdrawals with their fees, never for three.
TwoOpening == [u \in Users |-> 300]

Symmetric == Permutations(Cancels) \cup Permutations({w2, w3})

=============================================================================
