---------------------------- MODULE MCReleaseSync ----------------------------
(* An instance of ReleaseSync: two scheduled instances and one request, one  *)
(* first-party repository and one other.                                   *)
EXTENDS ReleaseSync

CONSTANTS i1, i2, q1, p1, p2, own, other, t1

TwoInstances == {i1, i2}
OneRequest == {q1}
TwoPlugins == {p1, p2}
TwoRepos == {own, other}
OneFirstParty == {own}
OneTag == {t1}
=============================================================================
