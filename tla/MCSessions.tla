----------------------------- MODULE MCSessions -----------------------------
(* An instance of Sessions: two accounts, two tokens, one process (what a  *)
(* process does depends on its own list only), two requests at a time.     *)
EXTENDS Sessions, TLC

CONSTANTS l1, l2, p1, s1, r1, r2, t1, t2

TwoLogins == {l1, l2}
OneProcess == {p1}
OneSignIn == {s1}
TwoRequests == {r1, r2}
TwoTokens == {t1, t2}

Symmetry == Permutations(TwoLogins) \cup Permutations(TwoRequests)
            \cup Permutations(TwoTokens)
=============================================================================
