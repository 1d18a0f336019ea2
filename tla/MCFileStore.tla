----------------------------- MODULE MCFileStore -----------------------------
(* The catalogue's plugin and a community one, two version strings. *)
EXTENDS FileStore

CONSTANTS bundled, community, v1, v2

MCKeys == {bundled, community}
MCVersions == {v1, v2}
MCBodyIds == {0, 2}
=============================================================================
