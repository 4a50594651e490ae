----------------------------- MODULE MCDeposit -----------------------------
(***************************************************************************)
(* Instances of Deposit for TLC: two reports of one payment, one of another*)
(***************************************************************************)
EXTENDS Deposit, TLC

CONSTANTS d1, d2, d3, p1, p2, a1, a2, a3

SharedPayment == [d \in Deposits |-> IF d = d3 THEN p2 ELSE p1]

AdminSymmetry == Permutations(Admins)

=============================================================================
