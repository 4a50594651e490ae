--------------------------- MODULE WalletContract ---------------------------
(***************************************************************************)
(* What the services that move money rely on when they call IWalletService *)
(* .DeductBalanceAsync and .AddBalanceAsync: a call changes the balance by *)
(* exactly its amount in one step or not at all, a debit is never applied  *)
(* to a balance that does not cover it, "success" means applied, and a     *)
(* refusal means the balance did not cover it and nothing happened.        *)
(*                                                                         *)
(* A call that throws leaves its caller in doubt: it may or may not have   *)
(* been applied (a commit whose answer is lost).                           *)
(***************************************************************************)
EXTENDS Integers

CONSTANTS
    Users,
    Calls,     \* calls of DeductBalanceAsync and AddBalanceAsync, each made once
    User,      \* [Calls -> Users]
    Delta      \* [Calls -> Int], the amount with its sign: negative for a debit

VARIABLES
    balance,   \* UserWallet.Balance
    applied,   \* calls whose change of the balance has happened
    answer     \* what the caller has been told: nothing, "ok", "refused", "threw"

cvars == <<balance, applied, answer>>

Answers == {"none", "ok", "refused", "threw"}

Init ==
    /\ balance = [u \in Users |-> 0]
    /\ applied = {}
    /\ answer = [c \in Calls |-> "none"]

Covered(c) == balance[User[c]] + Delta[c] >= 0

\* The change happens, and the caller may learn of it in the same step.
Apply(c, a) ==
    /\ answer[c] = "none" /\ c \notin applied
    /\ Delta[c] < 0 => Covered(c)
    /\ balance' = [balance EXCEPT ![User[c]] = @ + Delta[c]]
    /\ applied' = applied \cup {c}
    /\ answer' = [answer EXCEPT ![c] = a]

Succeed(c) ==
    /\ answer[c] = "none" /\ c \in applied
    /\ answer' = [answer EXCEPT ![c] = "ok"]
    /\ UNCHANGED <<balance, applied>>

Refuse(c) ==
    /\ answer[c] = "none" /\ c \notin applied
    /\ Delta[c] < 0 /\ ~Covered(c)
    /\ answer' = [answer EXCEPT ![c] = "refused"]
    /\ UNCHANGED <<balance, applied>>

\* Exceptions and process deaths end any number of calls.
Throw(S) ==
    /\ \A c \in S : answer[c] = "none"
    /\ answer' = [c \in Calls |-> IF c \in S THEN "threw" ELSE answer[c]]
    /\ UNCHANGED <<balance, applied>>

Next ==
    \/ \E c \in Calls : \/ \E a \in {"none", "ok", "threw"} : Apply(c, a)
                        \/ Succeed(c)
                        \/ Refuse(c)
    \/ \E S \in SUBSET Calls : Throw(S)

Spec == Init /\ [][Next]_cvars

=============================================================================
