---------------------------- MODULE MCDownloads ----------------------------
(* An instance of Downloads: two clients, two requests in flight, a window *)
(* table that is full with one entry, a downloaded and a viewed plugin.    *)
EXTENDS Downloads, TLC

CONSTANTS c1, c2, q1, q2, p1, p2, v1

TwoClients == {c1, c2}
TwoRequests == {q1, q2}
TwoPlugins == {p1, p2}
OneVersion == {v1}
TwoItems == {[plugin |-> p1, version |-> v1], [plugin |-> p2, version |-> NoVersion]}
AllKeys == TwoClients \X OneVersion

Symmetry == Permutations(TwoClients) \cup Permutations(TwoRequests)
=============================================================================
