-------------------------- MODULE MCAdvisoryRefresh --------------------------
(* Instances of AdvisoryRefresh: two advisories; two refreshes that        *)
(* overlap, or one at a time.                                              *)
EXTENDS AdvisoryRefresh, TLC

CONSTANTS a1, a2, r1, r2

TwoAdvisories == {a1, a2}
TwoRefreshes == {r1, r2}
OneRefresh == {r1}

AllFaults == {"refused", "read", "restart"}
Refusals == {"refused"}

Symmetry == Permutations(TwoAdvisories) \cup Permutations(TwoRefreshes)
=============================================================================
