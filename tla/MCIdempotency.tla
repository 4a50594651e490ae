--------------------------- MODULE MCIdempotency ---------------------------
(***************************************************************************)
(* Instances of Idempotency for TLC: all requests carry the same key.      *)
(***************************************************************************)
EXTENDS Idempotency, TLC

CONSTANTS r1, r2, r3, k1

SameKey == [r \in Requests |-> k1]

Symmetric == Permutations(Requests)

=============================================================================
