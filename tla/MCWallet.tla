------------------------------ MODULE MCWallet ------------------------------
(***************************************************************************)
(* Instances of WalletService for TLC.                                     *)
(***************************************************************************)
EXTENDS WalletService, TLC

CONSTANTS alice, bob, deposit, refund, spend, last, rest, a1, a2, b1

MCUsers == {alice, bob}

\* A credit and two debits of alice's wallet, of which it covers one; a credit
\* and a debit of bob's, which is audited.
MCCalls == {deposit, spend, last, refund, rest}
MCUser == [c \in MCCalls |-> IF c \in {refund, rest} THEN bob ELSE alice]
MCDelta == (deposit :> 2) @@ (spend :> -2) @@ (last :> -1) @@ (refund :> 1) @@ (rest :> -1)

MCAuditUser == [a \in Audits |-> bob]

=============================================================================
