---------------------------- MODULE MCGuarantee ----------------------------
(***************************************************************************)
(* Instance of Guarantee, and through it of CaseWorkflow, for TLC.         *)
(***************************************************************************)
EXTENDS Guarantee, TLC

CONSTANTS v1, v2, q1, q2, t1, t2, d1, g1, g2

\* The workflow alone, with an overlapping request and a credit that may fail,
\* or with a second transfer; with a request of the guarantee service, a
\* transfer and such a credit; and before funding two requests of the guarantee
\* service beside overlapping ones of the workflow.
MCBudgets == {[overlaps |-> 1, transfers |-> 1, calls |-> 0, credits |-> 1],
              [overlaps |-> 0, transfers |-> 2, calls |-> 0, credits |-> 0],
              [overlaps |-> 0, transfers |-> 1, calls |-> 1, credits |-> 1],
              [overlaps |-> 1, transfers |-> 0, calls |-> 2, credits |-> 0]}

MCSymmetry == Permutations(Requests) \cup Permutations(Calls) \cup Permutations(Transfers)

=============================================================================
