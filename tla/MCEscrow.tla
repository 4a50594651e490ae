------------------------------ MODULE MCEscrow ------------------------------
(***************************************************************************)
(* Instances of Escrow for TLC.                                            *)
(***************************************************************************)
EXTENDS Escrow, TLC

CONSTANTS alice, bob, t1, t2, q1, q2, q3, w1, case1

MCUsers == {alice, bob}

\* One transfer whose fee and split are truncated.
OneTransfer == {t1}
OneSender == [t \in OneTransfer |-> alice]
OneReceiver == [t \in OneTransfer |-> bob]
OneAmount == [t \in OneTransfer |-> 10051]
OneCase == [t \in OneTransfer |-> NoCase]
OneOpening == (alice :> 10051) @@ (bob :> 0)

\* Two transfers of one validation case with the same lock key.  The sender
\* can afford both, so that only the lock stands in the way.
TwoTransfers == {t1, t2}
TwoSender == [t \in TwoTransfers |-> alice]
TwoReceiver == [t \in TwoTransfers |-> bob]
TwoAmount == [t \in TwoTransfers |-> 10000]
TwoCase == [t \in TwoTransfers |-> case1]
TwoKey == [t \in TwoTransfers |-> case1]
TwoOpening == (alice :> 20000) @@ (bob :> 0)

RequestSymmetry == Permutations(Requests)

=============================================================================
