----------------------------- MODULE MCSessions -----------------------------
(***************************************************************************)
(* Instance of Sessions for TLC.                                           *)
(***************************************************************************)
EXTENDS Sessions, TLC

CONSTANTS s1, s2, s3, s4, q1, q2

MCSymmetry == Permutations(Sessions) \cup Permutations(Requests)

=============================================================================
