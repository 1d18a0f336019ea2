---------------------------- MODULE VersionOrder ----------------------------
(***************************************************************************)
(* Which release of a plugin is the latest: the order in which the two     *)
(* backends keep its versions.  The file backend sorts once when a version *)
(* is added and again, by another rule, whenever it reads the file.        *)
(***************************************************************************)
EXTENDS Semver, SequencesExt

CONSTANTS Dates,          \* release dates, as numbers
          MaxVersions     \* versions published

ASSUME DatesAssumption == Dates \subseteq Int

VARIABLES kept,     \* the versions in the plugin's file, in order
          rows      \* plugin_versions

orderVars == <<kept, rows>>

-----------------------------------------------------------------------------
(* The rule of AddVersion.                                                 *)
LessOnAdd(x, y) ==
    IF x.date # y.date THEN x.date > y.date ELSE x.created > y.created

(* Mutated form of LessOnLoad: oldest first.                               *)
LessOnLoadAscending(x, y) == x.date <= y.date

(* The rule of sortPluginVersions for two versions with release dates:     *)
(* of two with the same date each comes before the other.                  *)
LessOnLoad(x, y) == IF x.date # y.date THEN x.date > y.date ELSE TRUE

(* What sorting s, whose elements are distinct, may return: two that each  *)
(* come before the other come in either order.                             *)
SortedFrom(s, Less(_, _)) ==
    {t \in Bijection(DOMAIN s, Range(s)) :
        \A i, j \in DOMAIN s : i < j => Less(t[i], t[j])}

SortOnAdd(s) == SortedFrom(s, LessOnAdd)
SortPluginVersions(s) == SortedFrom(s, LessOnLoad)

(* loadPlugin: the orders in which the file may be read.                   *)
Loaded == SortPluginVersions(kept)

Eligible(v) == ~v.prerelease /\ ~v.yanked /\ ~v.deleted

(* latestStable of the versions t that are loaded, as the set of it or     *)
(* none.                                                                   *)
LatestStable(t) ==
    LET i == SelectInSeq(t, Eligible)
    IN  IF i = 0 THEN {} ELSE {t[i]}

(* The subquery of the list SELECT: newest release date, then newest row.  *)
LatestRow ==
    {v \in rows : Eligible(v) /\ \A w \in rows : Eligible(w) => ~LessOnAdd(w, v)}

Published == Len(kept)

(* CreateVersion: both backends, with the release date that was given or   *)
(* the time of the request.  The body has no yankedAt or deletedAt, which  *)
(* the file backend would store and the INSERT would not.                  *)
AddVersion(date, prerelease) ==
    LET v == [created |-> Published + 1, date |-> date,
              prerelease |-> prerelease, yanked |-> FALSE, deleted |-> FALSE]
    IN  /\ Published < MaxVersions
        /\ \E t \in Loaded : kept' \in SortOnAdd(Append(t, v))
        /\ rows' = rows \cup {v}

(* A version changed in place: the file is read, sorted on the way, and    *)
(* written.                                                                *)
Change(v, w) ==
    /\ \E t \in Loaded : kept' = ReplaceAll(t, v, w)
    /\ rows' = (rows \ {v}) \cup {w}

SetYanked(v) == ~v.deleted /\ Change(v, [v EXCEPT !.yanked = ~v.yanked])
DeleteVersion(v) == ~v.deleted /\ Change(v, [v EXCEPT !.deleted = TRUE])

OrderInit ==
    /\ kept = <<>>
    /\ rows = {}

OrderNext ==
    \/ \E date \in Dates, prerelease \in BOOLEAN : AddVersion(date, prerelease)
    \/ \E v \in rows : SetYanked(v) \/ DeleteVersion(v)

OrderSpec == OrderInit /\ [][OrderNext]_orderVars

-----------------------------------------------------------------------------
(* CompareVersions is the precedence of the semantic versioning            *)
(* specification.  What is published makes no difference: one state stands *)
(* for all, here and below.                                                *)
PrecedenceFollowsSemver == Published = 0 => SemverPrecedence

(* The ranges of ParseRange mean what its comment says, on every version   *)
(* and its neighbours, and the two callers err on opposite sides: the      *)
(* compatibility filter leaves a plugin out, the audit reports it.         *)
RangesMean == Published = 0 => ShorthandsMean /\ ErrorsConservative

(* Whatever was published, yanked and deleted in which order, and in       *)
(* whichever order the file is read, the backends agree on the release     *)
(* date of the latest version, and unless two share a date on the version; *)
(* versions that were published as already yanked or deleted aside.        *)
LatestAgrees ==
    \A t \in Loaded :
        /\ {v.date : v \in LatestStable(t)} = {v.date : v \in LatestRow}
        /\ (\A v, w \in rows : Eligible(v) /\ Eligible(w) /\ v.date = w.date => v = w)
             => LatestStable(t) = LatestRow

(* With dates that differ the file is read in one order, which is that of  *)
(* the database: listing it twice shows the same pages.                    *)
ReadsAgree ==
    (\A v, w \in rows : v.date = w.date => v = w) =>
        Loaded = {kept} /\ SortOnAdd(kept) = {kept}

(* What both rest on: the file and the table hold the same versions, each   *)
(* once, and the file is in an order in which it may be read.              *)
Version == [created : Nat \ {0}, date : Dates,
            prerelease : BOOLEAN, yanked : BOOLEAN, deleted : BOOLEAN]

SameVersions ==
    /\ kept \in Seq(Version) /\ Range(kept) = rows
    /\ \A v \in rows : v.created <= Published
    /\ \A v, w \in rows : v.created = w.created => v = w

OrderInv == SameVersions /\ kept \in Loaded
=============================================================================
