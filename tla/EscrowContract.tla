--------------------------- MODULE EscrowContract ---------------------------
(***************************************************************************)
(* What the escrow promises about the money of a transfer, whatever        *)
(* handlers, sweeps and administrators do at once.  It is taken from the   *)
(* sender once and in full, and it is then either given back in full or    *)
(* held.  What is held leaves only to the two parties and adds up to the   *)
(* amount at most.  A step at which no call fails and no process dies      *)
(* loses nothing, and a failure can only lose money that was taken and not *)
(* yet held.                                                               *)
(***************************************************************************)
EXTENDS Integers

CONSTANTS
    Transfers,
    Sender, Receiver,   \* [Transfers -> Users]
    Amount,             \* [Transfers -> Nat]
    Opening             \* [Users -> Nat], wallet balances at first

VARIABLES
    balance,    \* the wallets
    stage,      \* open, taken, held or void
    left,       \* what has left the sender of a transfer and reached nobody
    troubles    \* failed calls and deaths of the process so far

contractVars == <<balance, stage, left, troubles>>

Init ==
    /\ balance = Opening
    /\ stage = [t \in Transfers |-> "open"]
    /\ left = [t \in Transfers |-> 0]
    /\ troubles = 0

Turn(t, from, to) == stage[t] = from /\ stage' = [stage EXCEPT ![t] = to]

\* The sender is debited, once and only with money the wallet has.
Take(t) ==
    /\ Turn(t, "open", "taken")
    /\ balance[Sender[t]] >= Amount[t]
    /\ balance' = [balance EXCEPT ![Sender[t]] = @ - Amount[t]]
    /\ left' = [left EXCEPT ![t] = Amount[t]]
    /\ UNCHANGED troubles

Decline(t) ==
    /\ Turn(t, "open", "void")
    /\ UNCHANGED <<balance, left, troubles>>

Hold(t) ==
    /\ Turn(t, "taken", "held")
    /\ UNCHANGED <<balance, left, troubles>>

GiveBack(t) ==
    /\ Turn(t, "taken", "void")
    /\ balance' = [balance EXCEPT ![Sender[t]] = @ + Amount[t]]
    /\ left' = [left EXCEPT ![t] = 0]
    /\ UNCHANGED troubles

\* Some of what is held goes to one of the parties.
Pay(t, u) ==
    /\ stage[t] = "held"
    /\ left'[t] \in 0..left[t]
    /\ left' = [left EXCEPT ![t] = left'[t]]
    /\ balance' = [balance EXCEPT ![u] = @ + (left[t] - left'[t])]
    /\ UNCHANGED <<stage, troubles>>

\* A call fails or a process dies, and the transfers of T are given up.
Fail(T) ==
    /\ troubles' = troubles + 1
    /\ \A t \in T : stage[t] \in {"open", "taken"}
    /\ stage' = [t \in Transfers |-> IF t \in T THEN "void" ELSE stage[t]]
    /\ left' = [t \in Transfers |-> IF t \in T THEN 0 ELSE left[t]]
    /\ UNCHANGED balance

Next ==
    \/ \E t \in Transfers : \/ Take(t) \/ Decline(t) \/ Hold(t) \/ GiveBack(t)
                            \/ Pay(t, Sender[t]) \/ Pay(t, Receiver[t])
    \/ \E T \in SUBSET Transfers : Fail(T)

Spec == Init /\ [][Next]_contractVars

=============================================================================
