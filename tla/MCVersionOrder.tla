--------------------------- MODULE MCVersionOrder ---------------------------
(* An instance of VersionOrder: prereleases with numbers of which one is   *)
(* less as a text, and with words; three versions over three dates.        *)
EXTENDS VersionOrder

Two == [num |-> 2, text |-> 2]
Ten == [num |-> 10, text |-> 1]
Word == [num |-> NotNumber, text |-> 3]

SomeNumbers == 0 .. 2
SomeIdentifiers == {Two, Ten, Word}
SomePrereleases == {<<>>, <<Two>>, <<Ten>>, <<Word>>, <<Word, Two>>, <<Word, Ten>>}
SomeRanges == {<<>>, <<[op |-> ">=", version |-> Release(1, 0)],
                        [op |-> "<=", version |-> Release(2, 0)]>>, Malformed}
SomeCores == {Release(0, 1), Release(1, 0), Malformed}
SomeDates == 1 .. 3
=============================================================================
