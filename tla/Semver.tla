------------------------------- MODULE Semver -------------------------------
(***************************************************************************)
(* The comparison of versions and the ranges of api/service/semver.go, and *)
(* their two callers: the compatibility filter (api/service/compatibility. *)
(* go) and the question which versions an advisory affects.  An identifier *)
(* of a prerelease is the number strconv.Atoi reads in it, or NotNumber,   *)
(* and its place among the texts.                                          *)
(***************************************************************************)
EXTENDS Integers, Sequences, FiniteSetsExt

CONSTANTS Numbers,        \* components of a version
          Identifiers,    \* of prereleases
          Prereleases,    \* sequences of identifiers; <<>> is a release
          Ranges,         \* ranges that a version or an advisory may declare
          Malformed,      \* a version or a range that does not parse
          Cores           \* values of compatibleWith

NotNumber == -1

(* Semantic versioning forbids leading zeros: a number is written in one   *)
(* way.                                                                    *)
ASSUME SemverAssumption ==
    /\ Numbers \subseteq Nat
    /\ Identifiers \subseteq [num : Nat \cup {NotNumber}, text : Nat]
    /\ \A x, y \in Identifiers : x.num = y.num /\ x.num # NotNumber => x = y
    /\ Prereleases \subseteq Seq(Identifiers)
    /\ Malformed \notin BOOLEAN /\ Malformed # <<>>

Semvers == [major : Numbers, minor : Numbers, patch : Numbers, pre : Prereleases]

-----------------------------------------------------------------------------
(* comparePrerelease: the first identifiers that differ decide, and then   *)
(* the number of them.                                                     *)
CompareIdentifiers(x, y) ==
    CASE x.num # NotNumber /\ y.num # NotNumber -> IF x.num < y.num THEN -1 ELSE 1
      [] x.num # NotNumber /\ y.num = NotNumber -> -1
      [] x.num = NotNumber /\ y.num # NotNumber -> 1
      [] OTHER -> IF x.text < y.text THEN -1 ELSE 1

Sign(n) == IF n < 0 THEN -1 ELSE IF n > 0 THEN 1 ELSE 0

ComparePrerelease(a, b) ==
    LET differ == {i \in DOMAIN a \cap DOMAIN b : a[i] # b[i]}
    IN  IF differ = {} THEN Sign(Len(a) - Len(b))
        ELSE LET i == Min(differ) IN CompareIdentifiers(a[i], b[i])

(* Mutated form of CompareRelease: a prerelease ranks above its release.   *)
CompareReleaseLast(a, b) ==
    IF a = <<>> \/ b = <<>> THEN Sign(Len(a) - Len(b)) ELSE ComparePrerelease(a, b)

CompareRelease(a, b) ==
    CASE a = <<>> /\ b = <<>> -> 0
      [] a = <<>> /\ b # <<>> -> 1
      [] a # <<>> /\ b = <<>> -> -1
      [] OTHER -> ComparePrerelease(a, b)

CompareVersions(a, b) ==
    CASE a.major # b.major -> Sign(a.major - b.major)
      [] a.major = b.major /\ a.minor # b.minor -> Sign(a.minor - b.minor)
      [] a.major = b.major /\ a.minor = b.minor /\ a.patch # b.patch ->
             Sign(a.patch - b.patch)
      [] OTHER -> CompareRelease(a.pre, b.pre)

(* constraint.allows                                                       *)
Allows(operator, version, v) ==
    LET cmp == CompareVersions(v, version)
    IN  CASE operator = "="  -> cmp = 0
          [] operator = ">"  -> cmp > 0
          [] operator = ">=" -> cmp >= 0
          [] operator = "<"  -> cmp < 0
          [] operator = "<=" -> cmp <= 0

Release(major, minor) == [major |-> major, minor |-> minor, patch |-> 0, pre |-> <<>>]

(* Mutated form of Ceiling: every caret stops at the next major version.   *)
CeilingMajor(term) ==
    IF term.op = "~" THEN Release(term.version.major, term.version.minor + 1)
    ELSE Release(term.version.major + 1, 0)

(* The upper bound that a shorthand stands for.                            *)
Ceiling(term) ==
    IF term.op = "~" \/ term.version.major = 0
    THEN Release(term.version.major, term.version.minor + 1)
    ELSE Release(term.version.major + 1, 0)

(* One term of ParseRange, tested: the shorthands are a pair of bounds.    *)
TermAllows(term, v) ==
    IF term.op \in {"~", "^"}
    THEN Allows(">=", term.version, v) /\ Allows("<", Ceiling(term), v)
    ELSE Allows(term.op, term.version, v)

(* SatisfiesRange.  An empty range is a sequence of no terms.              *)
SatisfiesRange(v, range) ==
    IF range = <<>> THEN TRUE
    ELSE IF v = Malformed \/ range = Malformed THEN Malformed
    ELSE \A i \in DOMAIN range : TermAllows(range[i], v)

(* listCompatible for one plugin and the range of its latest release; a    *)
(* plugin without one has an empty range.                                  *)
Compatible(core, range) == core # Malformed /\ SatisfiesRange(core, range) = TRUE

(* AdvisoryAffects for an advisory that is not withdrawn.                  *)
AdvisoryAffects(range, v) ==
    SatisfiesRange(v, range) \in {TRUE, Malformed}

-----------------------------------------------------------------------------
(* Precedence as the semantic versioning specification defines it, on one  *)
(* sequence of keys: lexicographic, a release ending above all.            *)
Key(id) == IF id.num # NotNumber THEN <<1, id.num>> ELSE <<2, id.text>>
Keys(v) ==
    << <<0, v.major>>, <<0, v.minor>>, <<0, v.patch>> >>
    \o IF v.pre = <<>> THEN << <<3, 0>> >> ELSE [i \in DOMAIN v.pre |-> Key(v.pre[i])]
KeyLess(k, l) == k[1] < l[1] \/ (k[1] = l[1] /\ k[2] < l[2])
Precedes(a, b) ==
    LET k == Keys(a)
        l == Keys(b)
    IN  \E n \in 0 .. Len(k) :
          /\ n < Len(l) /\ SubSeq(k, 1, n) = SubSeq(l, 1, n)
          /\ n < Len(k) => KeyLess(k[n + 1], l[n + 1])

(* CompareVersions is the precedence of the semantic versioning            *)
(* specification, on numbers and prerelease identifiers of every kind.     *)
SemverPrecedence ==
    \A a, b \in Semvers :
        CompareVersions(a, b) =
            IF Precedes(a, b) THEN -1 ELSE IF Precedes(b, a) THEN 1 ELSE 0

(* CompareVersions is a total order, so a list of versions has one order   *)
(* and a bound has two sides.                                              *)
ComparisonIsOrder ==
    \A a, b, c \in Semvers :
        /\ CompareVersions(a, b) = 0 <=> a = b
        /\ CompareVersions(a, b) = -CompareVersions(b, a)
        /\ CompareVersions(a, b) <= 0 /\ CompareVersions(b, c) <= 0 =>
              CompareVersions(a, c) <= 0

(* `~` allows the later patches of the same minor version, `^` the later   *)
(* releases of the same major version, and of the same minor one before    *)
(* 1.0.0.                                                                  *)
ShorthandsMean ==
    \A v, x \in Semvers :
        LET later == ~Precedes(x, v)
            sameMajor == x.major = v.major
            sameMinor == sameMajor /\ x.minor = v.minor
        IN  x.pre = <<>> =>
              /\ TermAllows([op |-> "~", version |-> v], x) <=> later /\ sameMinor
              /\ TermAllows([op |-> "^", version |-> v], x) <=>
                     later /\ IF v.major = 0 THEN sameMinor ELSE sameMajor

(* What cannot be read is no reason to list a plugin, nor to dismiss an    *)
(* advisory.                                                               *)
ErrorsConservative ==
    \A x \in Cores, r \in Ranges :
        /\ Compatible(x, r) => x # Malformed /\ r # Malformed
        /\ AdvisoryAffects(r, x) \/ (x # Malformed /\ r # Malformed)
=============================================================================
