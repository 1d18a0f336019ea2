------------------------- MODULE MCSubmissionReview -------------------------
(* Two plugins, two logins, two texts, two requests in flight. *)
EXTENDS SubmissionReview, TLC

CONSTANTS p1, p2, alice, bob, t1, t2, r1, r2

TwoPlugins == {p1, p2}
OneLogin == {alice}
TwoLogins == {alice, bob}
OneText == {t1}
TwoTexts == {t1, t2}
MCRequests == {r1, r2}

Symmetry == Permutations(TwoPlugins) \union Permutations(TwoLogins)
                \union Permutations(TwoTexts) \union Permutations(MCRequests)
=============================================================================
