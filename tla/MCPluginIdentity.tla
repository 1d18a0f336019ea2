-------------------------- MODULE MCPluginIdentity --------------------------
(* Two of the three names differ only in case and fold to one reference;   *)
(* "baz" is only ever an alias.                                            *)
EXTENDS PluginIdentity, TLC

CONSTANTS p1, p2, p3, none, norow

MCPluginIds == {p1, p2, p3}
MCNames == {"Foo", "foo", "bar"}
MCRefs == {"foo", "bar", "baz"}
MCLower == [n \in MCNames |-> IF n = "Foo" THEN "foo" ELSE n]

Symmetry == Permutations(MCPluginIds)
=============================================================================
