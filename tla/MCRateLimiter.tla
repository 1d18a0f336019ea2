--------------------------- MODULE MCRateLimiter ---------------------------
(* An instance of RateLimiter: three addresses for a table of two, two       *)
(* requests in flight.                                                     *)
EXTENDS RateLimiter, TLC

CONSTANTS c1, c2, c3, q1, q2, b1, b2, b3, b4

ThreeAddresses == {c1, c2, c3}
TwoCallers == {q1, q2}
FourBuckets == {b1, b2, b3, b4}

Symmetry == Permutations(ThreeAddresses) \cup Permutations(TwoCallers)
            \cup Permutations(FourBuckets)
=============================================================================
