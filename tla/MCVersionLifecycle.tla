------------------------- MODULE MCVersionLifecycle -------------------------
(* One first-party plugin and one community plugin, two version strings,   *)
(* two requests in flight.                                                 *)
EXTENDS VersionLifecycle, TLC

CONSTANTS own, community, v1, v2, d1, d2, r1, r2

MCPlugins == {own, community}
OnePlugin == {community}
MCFirstParty == {own}
NoPlugins == {}
MCVersions == {v1, v2}
MCDigests == {d1, d2}
OneDigest == {d1}
MCRequests == {r1, r2}

(* The digests are not alike when the catalogue carries one of them only.  *)
Symmetry == Permutations(MCVersions) \union Permutations(MCRequests)
AllAlike == Symmetry \union Permutations(MCDigests)
=============================================================================
