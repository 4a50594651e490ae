-------------------------- MODULE MCCaseWorkspace --------------------------
(***************************************************************************)
(* Instances of CaseWorkspace for TLC, with users 0, 1 and 2.              *)
(***************************************************************************)
EXTENDS CaseWorkspace, Functions, TLC

CONSTANTS q1, q2

\* splitAmountEvenly divides every total completely, and no two winners'
\* shares differ by more than one.
ASSUME SplitIsComplete ==
    \A total \in 0..7, winners \in SUBSET Validators \ {{}} :
        LET share == SplitAmountEvenly(total, winners)
        IN  /\ SumFunction(share) = total
            /\ \A v \in Validators : share[v] > 0 => v \in winners
            /\ \A v, w \in winners : share[v] <= share[w] + 1

(* The documents a client sends.  None refers to a constant of the module  *)
(* by name: MCMetas is a value of the constant Metas.                      *)

Plain == [workspace |-> TRUE, order |-> "none", stage |-> "ready", applicants |-> {},
          assigned |-> {}, files |-> [u \in 0..2 |-> 0], votes |-> [u \in 0..2 |-> 0],
          payout |-> [v \in 1..2 |-> 0]]

\* Another family takes the case out of the workspace.
OtherFamily == [Plain EXCEPT !.workspace = FALSE]

\* Two validators assigned who never applied, one with an output nobody attached.
Vouched == [Plain EXCEPT !.stage = "in_review", !.order = "own", !.assigned = {1, 2},
                         !.files = [u \in 0..2 |-> IF u = 2 THEN 0 ELSE 1]]

\* Finalised and paid by its own word, with outputs of both.
Finished == [Vouched EXCEPT !.stage = "finalized", !.order = "other",
                            !.files = [u \in 0..2 |-> 1],
                            !.payout = [v \in 1..2 |-> IF v = 1 THEN 3 ELSE 0]]

MCMetas == {Plain, OtherFamily, Vouched, Finished}

RequestSymmetry == Permutations(Requests)

=============================================================================
