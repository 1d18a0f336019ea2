----------------------- MODULE VersionLifecycleProofs -----------------------
(***************************************************************************)
(* Theorems about VersionLifecycle, for every set of plugins, versions,    *)
(* checksums and requests, either backend, and any bound on the ids.       *)
(*                                                                         *)
(* Every step of the specification does one of three things to the rows:   *)
(* it keeps them (a field of existing rows may change), it adds one under  *)
(* a fresh id, or it purges one.  StepKinds says so; the invariants and    *)
(* action properties follow from the kinds alone.                          *)
(***************************************************************************)
EXTENDS VersionLifecycle, TLAPS

(* What a pending request holds, by its operation.                         *)
LEMMA PendingFields ==
    ASSUME NEW q \in Pending \union {Idle}
    PROVE  /\ q.op = "publish" =>
                 /\ q.plugin \in Plugins /\ q.version \in Versions
                 /\ q.sums \in Digests /\ q.marks \in StoredMarks
           /\ q.op = "deletePlugin" => q.plugin \in Plugins /\ q.consent \in BOOLEAN
           /\ q.op \in {"delete", "purge"} =>
                 q.plugin \in Plugins /\ q.id \in VersionIds /\ q.version \in Versions
           /\ q.op = "yank" =>
                 q.plugin \in Plugins /\ q.id \in VersionIds /\ q.yanked \in BOOLEAN
           /\ q.op = "attest" => q.id \in VersionIds /\ q.sums \in Digests
  BY DEF Pending, Idle

(* What a new row takes from its body has the types of a row; PostgreSQL   *)
(* takes nothing.                                                          *)
LEMMA MarkFields ==
    /\ Unmarked \in StoredMarks
    /\ \A m \in StoredMarks :
          /\ m.prov \in Digests \union {NoDigest}
          /\ m.deleted \in BOOLEAN /\ m.yanked \in BOOLEAN
          /\ Backend = "postgres" => m = Unmarked
  <1>1. Unmarked \in Marks
    BY DEF Marks, Unmarked
  <1>2. StoredMarks \subseteq Marks /\ Unmarked \in StoredMarks
    BY <1>1 DEF StoredMarks
  <1>3. \A m \in Marks : /\ m.prov \in Digests \union {NoDigest}
                         /\ m.deleted \in BOOLEAN /\ m.yanked \in BOOLEAN
    BY DEF Marks
  <1>4. Backend = "postgres" => StoredMarks = {Unmarked}
    BY DEF StoredMarks
  <1> QED
    BY <1>2, <1>3, <1>4

(* The fields of a stored row.                                             *)
LEMMA RowFields ==
    ASSUME TypeOK, NEW i \in VersionIds, Stored(i)
    PROVE  /\ rows[i] \in Row
           /\ rows[i].plugin \in Plugins
           /\ rows[i].version \in Versions
           /\ rows[i].sums \in Digests
           /\ rows[i].prov \in Digests \union {NoDigest}
           /\ rows[i].deleted \in BOOLEAN
           /\ rows[i].yanked \in BOOLEAN
  <1>1. rows[i] \in Row
    BY DEF TypeOK, Stored
  <1> QED
    BY <1>1 DEF Row

-----------------------------------------------------------------------------
(* The three kinds of steps.                                               *)
Kept ==
    /\ nextId' = nextId /\ audits' = audits
    /\ \A i \in VersionIds :
          /\ (rows'[i] = NoRow) <=> (rows[i] = NoRow)
          /\ rows[i] # NoRow =>
                /\ rows'[i].plugin = rows[i].plugin
                /\ rows'[i].version = rows[i].version
                /\ rows[i].deleted =>
                      /\ rows'[i].deleted
                      /\ rows'[i].yanked = rows[i].yanked
                      /\ rows'[i].prov = rows[i].prov

Added ==
    /\ nextId \in VersionIds
    /\ nextId' = nextId + 1 /\ audits' = audits
    /\ rows'[nextId] # NoRow
    /\ ~VersionTaken(rows'[nextId].plugin, rows'[nextId].version)
    /\ \A i \in VersionIds \ {nextId} : rows'[i] = rows[i]

Purged ==
    \E i \in VersionIds :
        /\ rows[i] # NoRow /\ rows'[i] = NoRow
        /\ nextId' = nextId
        /\ audits' = audits \union {[id |-> i, plugin |-> rows[i].plugin,
                                     version |-> rows[i].version]}
        /\ \A j \in VersionIds \ {i} : rows'[j] = rows[j]

(* Both writers of a new row, the publish request and the import, add it.  *)
LEMMA NewRowAdded ==
    ASSUME TypeOK, NEW p \in Plugins, NEW v \in Versions, NEW d \in Digests,
           NEW m \in StoredMarks, ~VersionTaken(p, v), nextId <= MaxVersionId,
           rows' = [rows EXCEPT ![NewId] = NewRow(p, v, d, m)],
           nextId' = nextId + 1, audits' = audits
    PROVE  Added /\ NewRow(p, v, d, m) \in Row
                 /\ rows' \in [VersionIds -> Row \union {NoRow}]
                 /\ nextId' \in 1 .. MaxVersionId + 1
  <1>1. nextId \in VersionIds /\ nextId + 1 \in 1 .. MaxVersionId + 1
    BY VersionAssumption DEF TypeOK, VersionIds
  <1>2. NewRow(p, v, d, m) \in Row
    BY MarkFields DEF NewRow, Row
  <1>3. rows' = [rows EXCEPT ![nextId] = NewRow(p, v, d, m)]
    BY DEF NewId
  <1>4. rows'[nextId] = NewRow(p, v, d, m)
    BY <1>1, <1>3 DEF TypeOK
  <1>5. rows'[nextId] # NoRow
    BY <1>2, <1>4, NoRowAssumption
  <1>6. rows'[nextId].plugin = p /\ rows'[nextId].version = v
    BY <1>4 DEF NewRow
  <1>7. \A i \in VersionIds \ {nextId} : rows'[i] = rows[i]
    BY <1>1, <1>3 DEF TypeOK
  <1> QED
    BY <1>1, <1>2, <1>3, <1>5, <1>6, <1>7 DEF Added, TypeOK

Kind == Kept \/ Added \/ Purged

(* Steps that only move a request.                                         *)
LEMMA BeginKept ==
    ASSUME TypeOK, NEW r \in Requests, NEW q \in Pending, Begin(r, q)
    PROVE  TypeOK' /\ Kept
  BY DEF Begin, TypeOK, Kept

LEMMA GiveUpKept ==
    ASSUME TypeOK, NEW r \in Requests, GiveUp(r)
    PROVE  TypeOK' /\ Kept
  BY DEF GiveUp, End, TypeOK, Kept

LEMMA AskKept ==
    ASSUME TypeOK, NEW r \in Requests, NEW p \in Plugins
    PROVE  /\ \A v \in Versions, d \in Digests, m \in StoredMarks :
                 AskPublish(r, p, v, d, m) => TypeOK' /\ Kept
           /\ \A c \in BOOLEAN : AskDeletePlugin(r, p, c) => TypeOK' /\ Kept
           /\ \A i \in VersionIds :
                 /\ AskDelete(r, p, i) => TypeOK' /\ Kept
                 /\ AskPurge(r, p, i) => TypeOK' /\ Kept
                 /\ \A y \in BOOLEAN : AskYank(r, p, i, y) => TypeOK' /\ Kept
  <1>1. ASSUME NEW v \in Versions, NEW d \in Digests,
               NEW m \in StoredMarks, AskPublish(r, p, v, d, m)
        PROVE  TypeOK' /\ Kept
    <2> [op |-> "publish", plugin |-> p, version |-> v, sums |-> d, marks |-> m]
            \in Pending
      BY DEF Pending
    <2> QED
      BY <1>1, BeginKept DEF AskPublish
  <1>2. ASSUME NEW c \in BOOLEAN, AskDeletePlugin(r, p, c)
        PROVE  TypeOK' /\ Kept
    <2> [op |-> "deletePlugin", plugin |-> p, consent |-> c] \in Pending
      BY DEF Pending
    <2> QED
      BY <1>2, BeginKept DEF AskDeletePlugin
  <1>3. ASSUME NEW i \in VersionIds, AskDelete(r, p, i)
        PROVE  TypeOK' /\ Kept
    <2> rows[i].version \in Versions
      BY <1>3, RowFields DEF AskDelete, Listed
    <2> [op |-> "delete", plugin |-> p, id |-> i, version |-> rows[i].version]
            \in Pending
      BY DEF Pending
    <2> QED
      BY <1>3, BeginKept DEF AskDelete
  <1>4. ASSUME NEW i \in VersionIds, AskPurge(r, p, i)
        PROVE  TypeOK' /\ Kept
    <2> rows[i].version \in Versions
      BY <1>4, RowFields DEF AskPurge, Listed
    <2> [op |-> "purge", plugin |-> p, id |-> i, version |-> rows[i].version]
            \in Pending
      BY DEF Pending
    <2> QED
      BY <1>4, BeginKept DEF AskPurge
  <1>5. ASSUME NEW i \in VersionIds, NEW y \in BOOLEAN, AskYank(r, p, i, y)
        PROVE  TypeOK' /\ Kept
    <2> [op |-> "yank", plugin |-> p, id |-> i, yanked |-> y] \in Pending
      BY DEF Pending
    <2> QED
      BY <1>5, BeginKept DEF AskYank
  <1> QED
    BY <1>1, <1>2, <1>3, <1>4, <1>5

-----------------------------------------------------------------------------
(* Steps that write.                                                       *)

(* Replacing the row of a listed version by one of the same version keeps  *)
(* the rows.                                                               *)
LEMMA RewrittenKept ==
    ASSUME TypeOK, NEW i \in VersionIds, Stored(i), ~rows[i].deleted,
           NEW row \in Row,
           row.plugin = rows[i].plugin, row.version = rows[i].version,
           rows' = [rows EXCEPT ![i] = row],
           nextId' = nextId, audits' = audits
    PROVE  Kept /\ rows' \in [VersionIds -> Row \union {NoRow}]
  <1>1. rows'[i] = row /\ \A j \in VersionIds \ {i} : rows'[j] = rows[j]
    BY DEF TypeOK
  <1>2. row # NoRow
    BY NoRowAssumption
  <1> QED
    BY <1>1, <1>2 DEF Kept, TypeOK, Stored

LEMMA EndType ==
    ASSUME TypeOK, NEW r \in Requests, End(r)
    PROVE  req' \in [Requests -> Pending \union {Idle}]
  BY DEF End, TypeOK

LEMMA PublishAdded ==
    ASSUME TypeOK, NEW r \in Requests, Publish(r)
    PROVE  TypeOK' /\ Added
  <1> DEFINE q == req[r]
  <1>1. q \in Pending \union {Idle}
    BY DEF TypeOK
  <1>2. /\ q.plugin \in Plugins /\ q.version \in Versions /\ q.sums \in Digests
        /\ q.marks \in StoredMarks
    BY <1>1, PendingFields DEF Publish
  <1>3. /\ ~VersionTaken(q.plugin, q.version) /\ nextId <= MaxVersionId
        /\ rows' = [rows EXCEPT ![NewId] = NewRow(q.plugin, q.version, q.sums,
                                                  q.marks)]
        /\ nextId' = nextId + 1 /\ audits' = audits /\ live' = live
        /\ req' = [req EXCEPT ![r] =
                      IF q.marks.deleted THEN Idle
                      ELSE [op |-> "attest", id |-> NewId, sums |-> q.sums]]
    BY DEF Publish
  <1>4. /\ Added
        /\ rows' \in [VersionIds -> Row \union {NoRow}]
        /\ nextId' \in 1 .. MaxVersionId + 1
    BY <1>2, <1>3, NewRowAdded
  <1>5. NewId \in VersionIds
    BY <1>4 DEF Added, NewId
  <1>6. [op |-> "attest", id |-> NewId, sums |-> q.sums] \in Pending
    BY <1>2, <1>5 DEF Pending
  <1>7. req' \in [Requests -> Pending \union {Idle}]
    BY <1>3, <1>6 DEF TypeOK
  <1> QED
    BY <1>3, <1>4, <1>7 DEF TypeOK

LEMMA SeedKind ==
    ASSUME TypeOK, NEW p \in Plugins, NEW v \in Versions, NEW d \in Catalogue,
           SeedVersion(p, v, d)
    PROVE  TypeOK' /\ (Kept \/ Added)
  <1>0. d \in Digests
    BY VersionAssumption
  <1>1. CASE VersionTaken(p, v)
    <2>1. /\ nextId' = nextId /\ audits' = audits /\ live' = live /\ req' = req
          /\ rows' = [i \in VersionIds |->
                IF Stored(i) /\ rows[i].plugin = p /\ rows[i].version = v
                THEN [rows[i] EXCEPT !.sums = d] ELSE rows[i]]
      BY <1>1 DEF SeedVersion
    <2>2. ASSUME NEW i \in VersionIds, rows[i] # NoRow
          PROVE  /\ rows'[i] \in Row
                 /\ rows'[i].plugin = rows[i].plugin
                 /\ rows'[i].version = rows[i].version
                 /\ rows'[i].deleted = rows[i].deleted
                 /\ rows'[i].yanked = rows[i].yanked
                 /\ rows'[i].prov = rows[i].prov
      <3>1. rows[i] \in Row
        BY <2>2, RowFields DEF Stored
      <3>2. rows'[i] = rows[i] \/ rows'[i] = [rows[i] EXCEPT !.sums = d]
        BY <2>1
      <3> QED
        BY <1>0, <3>1, <3>2 DEF Row
    <2>3. \A i \in VersionIds : rows[i] = NoRow => rows'[i] = NoRow
      BY <2>1 DEF Stored
    <2>4. rows' \in [VersionIds -> Row \union {NoRow}]
      BY <2>1, <2>2, <2>3
    <2>5. Kept
      BY <2>1, <2>2, <2>3, NoRowAssumption DEF Kept
    <2> QED
      BY <2>1, <2>4, <2>5 DEF TypeOK
  <1>2. CASE ~VersionTaken(p, v)
    <2>1. /\ nextId <= MaxVersionId
          /\ rows' = [rows EXCEPT ![NewId] = NewRow(p, v, d, Unmarked)]
          /\ nextId' = nextId + 1 /\ audits' = audits /\ live' = live /\ req' = req
      BY <1>2 DEF SeedVersion
    <2>2. /\ Added
          /\ rows' \in [VersionIds -> Row \union {NoRow}]
          /\ nextId' \in 1 .. MaxVersionId + 1
      BY <1>0, <1>2, <2>1, NewRowAdded, MarkFields
    <2> QED
      BY <2>1, <2>2 DEF TypeOK
  <1> QED
    BY <1>1, <1>2

LEMMA DeletePluginKept ==
    ASSUME TypeOK, NEW r \in Requests, DeletePlugin(r)
    PROVE  TypeOK' /\ Kept
  <1> DEFINE p == req[r].plugin
  <1>1. /\ nextId' = nextId /\ audits' = audits /\ live' = live \ {p} /\ End(r)
        /\ rows' = [i \in VersionIds |->
                IF Listed(i, p) THEN [rows[i] EXCEPT !.deleted = TRUE] ELSE rows[i]]
    BY DEF DeletePlugin
  <1>2. ASSUME NEW i \in VersionIds, rows[i] # NoRow
        PROVE  /\ rows'[i] \in Row
               /\ rows'[i].plugin = rows[i].plugin
               /\ rows'[i].version = rows[i].version
               /\ rows[i].deleted => rows'[i] = rows[i]
    <2>1. rows[i] \in Row
      BY <1>2, RowFields DEF Stored
    <2>2. CASE Listed(i, p)
      BY <1>1, <2>1, <2>2 DEF Row, Listed
    <2>3. CASE ~Listed(i, p)
      BY <1>1, <2>1, <2>3
    <2> QED
      BY <2>2, <2>3
  <1>3. \A i \in VersionIds : rows[i] = NoRow => rows'[i] = NoRow
    BY <1>1 DEF Listed, Stored
  <1>4. rows' \in [VersionIds -> Row \union {NoRow}]
    BY <1>1, <1>2, <1>3
  <1>5. Kept
    BY <1>1, <1>2, <1>3, NoRowAssumption DEF Kept
  <1> QED
    BY <1>1, <1>4, <1>5, EndType DEF TypeOK

LEMMA DeleteVersionKept ==
    ASSUME TypeOK, NEW r \in Requests, DeleteVersion(r)
    PROVE  TypeOK' /\ Kept
  <1> DEFINE i == req[r].id
             row == [rows[i] EXCEPT !.deleted = TRUE]
  <1>1. req[r] \in Pending \union {Idle}
    BY DEF TypeOK
  <1>2. /\ i \in VersionIds /\ Stored(i) /\ ~rows[i].deleted
        /\ rows' = [rows EXCEPT ![i].deleted = TRUE]
        /\ nextId' = nextId /\ audits' = audits /\ live' = live /\ End(r)
    BY <1>1, PendingFields DEF DeleteVersion, Listed
  <1>3. /\ row \in Row
        /\ row.plugin = rows[i].plugin /\ row.version = rows[i].version
    BY <1>2, RowFields DEF Row
  <1>4. rows' = [rows EXCEPT ![i] = row]
    BY <1>2
  <1>5. Kept /\ rows' \in [VersionIds -> Row \union {NoRow}]
    BY <1>2, <1>3, <1>4, RewrittenKept
  <1> QED
    BY <1>2, <1>5, EndType DEF TypeOK

LEMMA SetVersionYankKept ==
    ASSUME TypeOK, NEW r \in Requests, SetVersionYank(r)
    PROVE  TypeOK' /\ Kept
  <1> DEFINE i == req[r].id
             row == [rows[i] EXCEPT !.yanked = req[r].yanked]
  <1>1. req[r] \in Pending \union {Idle}
    BY DEF TypeOK
  <1>2. /\ i \in VersionIds /\ Stored(i) /\ ~rows[i].deleted
        /\ req[r].yanked \in BOOLEAN
        /\ rows' = [rows EXCEPT ![i].yanked = req[r].yanked]
        /\ nextId' = nextId /\ audits' = audits /\ live' = live /\ End(r)
    BY <1>1, PendingFields DEF SetVersionYank, Listed
  <1>3. /\ row \in Row
        /\ row.plugin = rows[i].plugin /\ row.version = rows[i].version
    BY <1>2, RowFields DEF Row
  <1>4. rows' = [rows EXCEPT ![i] = row]
    BY <1>2
  <1>5. Kept /\ rows' \in [VersionIds -> Row \union {NoRow}]
    BY <1>2, <1>3, <1>4, RewrittenKept
  <1> QED
    BY <1>2, <1>5, EndType DEF TypeOK

LEMMA SetProvenanceKept ==
    ASSUME TypeOK, NEW r \in Requests, SetProvenance(r)
    PROVE  TypeOK' /\ Kept
  <1> DEFINE i == req[r].id
  <1>1. req[r] \in Pending \union {Idle}
    BY DEF TypeOK
  <1>2. /\ i \in VersionIds /\ Stored(i) /\ ~rows[i].deleted
        /\ req[r].sums \in Digests
        /\ nextId' = nextId /\ audits' = audits /\ live' = live /\ End(r)
    BY <1>1, PendingFields DEF SetProvenance
  <1>3. PICK outcome \in {req[r].sums, NoDigest} :
            rows' = [rows EXCEPT ![i].prov = outcome]
    BY DEF SetProvenance
  <1> DEFINE row == [rows[i] EXCEPT !.prov = outcome]
  <1>4. /\ row \in Row
        /\ row.plugin = rows[i].plugin /\ row.version = rows[i].version
    BY <1>2, RowFields DEF Row
  <1>5. rows' = [rows EXCEPT ![i] = row]
    BY <1>3
  <1>6. Kept /\ rows' \in [VersionIds -> Row \union {NoRow}]
    BY <1>2, <1>4, <1>5, RewrittenKept
  <1> QED
    BY <1>2, <1>6, EndType DEF TypeOK

LEMMA HardDeleteVersionPurged ==
    ASSUME TypeOK, NEW r \in Requests, HardDeleteVersion(r)
    PROVE  TypeOK' /\ Purged
  <1> DEFINE i == req[r].id
             p == req[r].plugin
             a == [id |-> i, plugin |-> p, version |-> rows[i].version]
  <1>1. req[r] \in Pending \union {Idle}
    BY DEF TypeOK
  <1>2. /\ i \in VersionIds /\ Stored(i) /\ rows[i].plugin = p
        /\ p \in Plugins
        /\ audits' = audits \union {a}
        /\ rows' = [rows EXCEPT ![i] = NoRow]
        /\ nextId' = nextId /\ live' = live /\ End(r)
    BY <1>1, PendingFields DEF HardDeleteVersion
  <1>3. a \in Audit
    BY <1>2, RowFields DEF Audit
  <1>4. Purged
    BY <1>2 DEF Purged, TypeOK, Stored
  <1>5. rows' \in [VersionIds -> Row \union {NoRow}]
    BY <1>2 DEF TypeOK
  <1> QED
    BY <1>2, <1>3, <1>4, <1>5, EndType DEF TypeOK

(* Every step has one of the three kinds, and keeps the types.             *)
LEMMA StepKinds ==
    ASSUME TypeOK, [Next]_vars
    PROVE  TypeOK' /\ Kind
  <1>1. CASE UNCHANGED vars
    BY <1>1 DEF vars, TypeOK, Kind, Kept
  <1>2. CASE \E p \in Plugins, v \in Versions, d \in Catalogue : SeedVersion(p, v, d)
    BY <1>2, SeedKind DEF Kind
  <1>3. ASSUME NEW r \in Requests,
               \/ Publish(r) \/ DeletePlugin(r) \/ DeleteVersion(r)
               \/ SetVersionYank(r) \/ HardDeleteVersion(r) \/ SetProvenance(r)
               \/ GiveUp(r)
        PROVE  TypeOK' /\ Kind
    BY <1>3, PublishAdded, DeletePluginKept, DeleteVersionKept,
       SetVersionYankKept, HardDeleteVersionPurged, SetProvenanceKept, GiveUpKept
       DEF Kind
  <1>4. ASSUME NEW r \in Requests, NEW p \in Plugins,
               \/ \E v \in Versions, d \in Digests, m \in StoredMarks :
                     AskPublish(r, p, v, d, m)
               \/ \E c \in BOOLEAN : AskDeletePlugin(r, p, c)
               \/ \E i \in VersionIds :
                     \/ AskDelete(r, p, i) \/ AskPurge(r, p, i)
                     \/ \E y \in BOOLEAN : AskYank(r, p, i, y)
        PROVE  TypeOK' /\ Kind
    BY <1>4, AskKept DEF Kind
  <1> QED
    BY <1>1, <1>2, <1>3, <1>4 DEF Next

(* Whatever the requests do and in whatever order, the state has its types *)
(* (VersionLifecycle!TypeOK).                                              *)
THEOREM TypeCorrect == Spec => []TypeOK
  <1>1. Init => TypeOK
    BY VersionAssumption DEF Init, TypeOK, VersionIds
  <1>2. TypeOK /\ [Next]_vars => TypeOK'
    BY StepKinds
  <1> QED
    BY <1>1, <1>2, PTL DEF Spec

-----------------------------------------------------------------------------
(* The inductive invariant.  OneRowPerVersion is inductive with TypeOK; the *)
(* rest is about ids: those not yet handed out have no row, and those of    *)
(* purged rows, all handed out, have none either.                           *)
Fresh ==
    /\ \A i \in VersionIds : i >= nextId => rows[i] = NoRow
    /\ \A a \in audits : a.id \in VersionIds /\ a.id < nextId /\ rows[a.id] = NoRow

(* A confirmed version's id was handed out, and means the confirmed version *)
(* as long as it means any.                                                 *)
Confirms(q) ==
    q.op \in {"delete", "purge"} =>
        /\ q.id \in VersionIds /\ q.id < nextId
        /\ rows[q.id] # NoRow => rows[q.id].version = q.version

IInv ==
    /\ TypeOK
    /\ Fresh
    /\ OneRowPerVersion
    /\ \A r \in Requests : Confirms(req[r])

LEMMA FreshInductive ==
    ASSUME TypeOK, Fresh, TypeOK', Kind
    PROVE  Fresh'
  <1>0. nextId \in Nat /\ VersionIds \subseteq Nat /\ \A a \in audits' : a.id \in VersionIds
    BY VersionAssumption DEF TypeOK, VersionIds, Audit
  <1>1. CASE Kept
    BY <1>0, <1>1 DEF Kept, Fresh
  <1>2. CASE Added
    <2>1. /\ nextId' = nextId + 1 /\ audits' = audits
          /\ \A i \in VersionIds \ {nextId} : rows'[i] = rows[i]
      BY <1>2 DEF Added
    <2>2. ASSUME NEW i \in VersionIds, i >= nextId'
          PROVE  rows'[i] = NoRow
      BY <1>0, <2>1, <2>2 DEF Fresh
    <2>3. ASSUME NEW a \in audits'
          PROVE  a.id \in VersionIds /\ a.id < nextId' /\ rows'[a.id] = NoRow
      <3>1. a.id \in VersionIds /\ a.id < nextId /\ rows[a.id] = NoRow
        BY <2>1 DEF Fresh
      <3>2. a.id \in Nat
        BY <1>0, <3>1
      <3> QED
        BY <1>0, <2>1, <3>1, <3>2
    <2> QED
      BY <2>2, <2>3 DEF Fresh
  <1>3. CASE Purged
    <2>1. PICK i \in VersionIds :
              /\ rows[i] # NoRow /\ rows'[i] = NoRow
              /\ nextId' = nextId
              /\ audits' = audits \union {[id |-> i, plugin |-> rows[i].plugin,
                                           version |-> rows[i].version]}
              /\ \A j \in VersionIds \ {i} : rows'[j] = rows[j]
      BY <1>3 DEF Purged
    <2>2. i < nextId
      BY <1>0, <2>1 DEF Fresh
    <2>3. ASSUME NEW a \in audits'
          PROVE  a.id \in VersionIds /\ a.id < nextId' /\ rows'[a.id] = NoRow
      <3>1. CASE a \in audits
        BY <1>0, <2>1, <3>1 DEF Fresh
      <3>2. CASE a.id = i
        BY <2>1, <2>2, <3>2
      <3> QED
        BY <2>1, <3>1, <3>2
    <2>4. \A j \in VersionIds : j >= nextId' => rows'[j] = NoRow
      BY <2>1 DEF Fresh
    <2> QED
      BY <2>3, <2>4 DEF Fresh
  <1> QED
    BY <1>1, <1>2, <1>3 DEF Kind

LEMMA OneRowInductive ==
    ASSUME TypeOK, OneRowPerVersion, Kind
    PROVE  OneRowPerVersion'
  <1> SUFFICES ASSUME NEW i \in VersionIds, NEW j \in VersionIds, i # j,
                      rows'[i] # NoRow, rows'[j] # NoRow,
                      rows'[i].plugin = rows'[j].plugin
               PROVE  rows'[i].version # rows'[j].version
    BY DEF OneRowPerVersion, Stored
  <1>1. CASE Kept
    BY <1>1 DEF Kept, OneRowPerVersion, Stored
  <1>2. CASE Added
    BY <1>2 DEF Added, OneRowPerVersion, VersionTaken, Stored
  <1>3. CASE Purged
    BY <1>3 DEF Purged, OneRowPerVersion, Stored
  <1> QED
    BY <1>1, <1>2, <1>3 DEF Kind

(* A deletion or purge is asked for a listed version only, and one that    *)
(* writes writes to a row that is there.                                   *)
ReqStep ==
    \A r \in Requests :
        /\ req'[r].op \in {"delete", "purge"} =>
              \/ req'[r] = req[r]
              \/ /\ req'[r].id \in VersionIds /\ rows' = rows /\ nextId' = nextId
                 /\ rows[req'[r].id] # NoRow
                 /\ req'[r].version = rows[req'[r].id].version
        /\ (req[r].op \in {"delete", "purge"} /\ req'[r] # req[r] /\ rows' # rows) =>
              rows[req[r].id] # NoRow

LEMMA Requested ==
    ASSUME TypeOK, [Next]_vars
    PROVE  ReqStep
  <1>0. \A r \in Requests : req[r] = Idle => req[r].op = "idle"
    BY DEF Idle
  <1>1. CASE UNCHANGED vars
    BY <1>1 DEF vars, ReqStep
  <1>2. ASSUME NEW p \in Plugins, NEW v \in Versions, NEW d \in Catalogue,
               SeedVersion(p, v, d)
        PROVE  ReqStep
    BY <1>2 DEF SeedVersion, ReqStep
  <1>3. ASSUME NEW r \in Requests,
               \/ DeletePlugin(r) \/ SetVersionYank(r) \/ SetProvenance(r)
               \/ GiveUp(r)
        PROVE  ReqStep
    BY <1>3 DEF DeletePlugin, SetVersionYank, SetProvenance, GiveUp, End, ReqStep,
                Idle, TypeOK
  <1>4. ASSUME NEW r \in Requests, Publish(r)
        PROVE  ReqStep
    BY <1>4 DEF Publish, ReqStep, TypeOK, Idle
  <1>5. ASSUME NEW r \in Requests, DeleteVersion(r) \/ HardDeleteVersion(r)
        PROVE  ReqStep
    BY <1>5 DEF DeleteVersion, HardDeleteVersion, Listed, Stored, End, ReqStep,
                Idle, TypeOK
  <1>6. ASSUME NEW r \in Requests, NEW p \in Plugins,
               \/ \E v \in Versions, d \in Digests, m \in StoredMarks :
                     AskPublish(r, p, v, d, m)
               \/ \E c \in BOOLEAN : AskDeletePlugin(r, p, c)
               \/ \E i \in VersionIds :
                     \/ \E y \in BOOLEAN : AskYank(r, p, i, y)
        PROVE  ReqStep
    <2>1. ASSUME NEW q, Begin(r, q), q.op \notin {"delete", "purge"}
          PROVE  ReqStep
      BY <2>1 DEF Begin, ReqStep, TypeOK, Idle
    <2>2. CASE \E v \in Versions, d \in Digests, m \in StoredMarks :
                   AskPublish(r, p, v, d, m)
      BY <2>1, <2>2 DEF AskPublish
    <2>3. CASE \E c \in BOOLEAN : AskDeletePlugin(r, p, c)
      BY <2>1, <2>3 DEF AskDeletePlugin
    <2>4. CASE \E i \in VersionIds, y \in BOOLEAN : AskYank(r, p, i, y)
      BY <2>1, <2>4 DEF AskYank
    <2> QED
      BY <1>6, <2>2, <2>3, <2>4
  <1>7. ASSUME NEW r \in Requests, NEW p \in Plugins, NEW i \in VersionIds,
               AskDelete(r, p, i) \/ AskPurge(r, p, i)
        PROVE  ReqStep
    <2>1. PICK q : /\ Begin(r, q)
                   /\ q.id = i /\ rows[i] # NoRow /\ q.version = rows[i].version
      BY <1>7 DEF AskDelete, AskPurge, Listed, Stored
    <2> QED
      BY <2>1 DEF Begin, ReqStep, TypeOK, Idle
  <1> QED
    BY <1>1, <1>2, <1>3, <1>4, <1>5, <1>6, <1>7 DEF Next

LEMMA ConfirmsInductive ==
    ASSUME IInv, TypeOK', Kind, ReqStep, NEW r \in Requests
    PROVE  Confirms(req[r])'
  <1> SUFFICES ASSUME req'[r].op \in {"delete", "purge"}
               PROVE  /\ req'[r].id \in VersionIds /\ req'[r].id < nextId'
                      /\ rows'[req'[r].id] # NoRow =>
                             rows'[req'[r].id].version = req'[r].version
    BY DEF Confirms
  <1>0. nextId \in Nat /\ VersionIds \subseteq Nat
    BY VersionAssumption DEF IInv, TypeOK, VersionIds
  <1>1. CASE req'[r] = req[r]
    <2> DEFINE i == req[r].id
    <2>1. /\ i \in VersionIds /\ i < nextId
          /\ rows[i] # NoRow => rows[i].version = req[r].version
      BY <1>1 DEF IInv, Confirms
    <2> DEFINE Same == rows'[i] # NoRow =>
                           rows[i] # NoRow /\ rows'[i].version = rows[i].version
    <2>0. i \in Nat
      BY <1>0, <2>1
    <2>2. CASE Kept
      <3>1. nextId' = nextId /\ Same
        BY <2>1, <2>2 DEF Kept
      <3> QED
        BY <1>1, <2>1, <3>1
    <2>3. CASE Added
      <3>1. nextId' = nextId + 1 /\ rows'[i] = rows[i]
        BY <1>0, <2>0, <2>1, <2>3 DEF Added
      <3>2. i < nextId'
        BY <1>0, <2>0, <2>1, <3>1
      <3> QED
        BY <1>1, <2>1, <3>1, <3>2
    <2>4. CASE Purged
      <3>1. nextId' = nextId /\ Same
        BY <2>1, <2>4 DEF Purged
      <3> QED
        BY <1>1, <2>1, <3>1
    <2> QED
      BY <2>2, <2>3, <2>4 DEF Kind
  <1>2. CASE req'[r] # req[r]
    <2> DEFINE i == req'[r].id
    <2>1. /\ i \in VersionIds /\ rows' = rows /\ nextId' = nextId
          /\ rows[i] # NoRow /\ req'[r].version = rows[i].version
      BY <1>2 DEF ReqStep
    <2>2. i \in Nat /\ ~(i >= nextId)
      BY <1>0, <2>1 DEF IInv, Fresh
    <2>3. i < nextId'
      BY <1>0, <2>1, <2>2
    <2> QED
      BY <2>1, <2>3
  <1> QED
    BY <1>1, <1>2

LEMMA IInvInductive == IInv /\ [Next]_vars => IInv'
  <1> SUFFICES ASSUME IInv, [Next]_vars PROVE IInv'
    OBVIOUS
  <1>1. TypeOK' /\ Kind
    BY StepKinds DEF IInv
  <1>2. Fresh'
    BY <1>1, FreshInductive DEF IInv
  <1>3. OneRowPerVersion'
    BY <1>1, OneRowInductive DEF IInv
  <1>4. \A r \in Requests : Confirms(req[r])'
    BY <1>1, Requested, ConfirmsInductive DEF IInv
  <1> QED
    BY <1>1, <1>2, <1>3, <1>4 DEF IInv

LEMMA LifecycleInvariant == Spec => []IInv
  <1>1. Init => IInv
    BY VersionAssumption
       DEF Init, IInv, TypeOK, Fresh, OneRowPerVersion, Confirms, Stored, Idle,
           VersionIds
  <1> QED
    BY <1>1, IInvInductive, PTL DEF Spec

-----------------------------------------------------------------------------
(* No two rows of a plugin have the same version string, however many      *)
(* publishers, syncs and imports run (CreateVersion, upsertVersion).       *)
THEOREM VersionsAreUnique == Spec => []OneRowPerVersion
  <1>1. IInv => OneRowPerVersion
    BY DEF IInv
  <1> QED
    BY <1>1, LifecycleInvariant, PTL

(* A version a purge removes is audited, and an audited id never has a row *)
(* again (HardDeleteVersion).                                              *)
THEOREM PurgesAreAudited == Spec => PurgeAudited
  <1>1. IInv /\ IInv' /\ [Next]_vars =>
          [\A i \in VersionIds :
              /\ (Stored(i) /\ ~Stored(i)') =>
                    [id |-> i, plugin |-> rows[i].plugin,
                     version |-> rows[i].version] \in audits'
              /\ (\E a \in audits : a.id = i) => ~Stored(i)']_vars
    <2> SUFFICES ASSUME IInv, IInv', [Next]_vars, NEW i \in VersionIds
                 PROVE  /\ (rows[i] # NoRow /\ rows'[i] = NoRow) =>
                              [id |-> i, plugin |-> rows[i].plugin,
                               version |-> rows[i].version] \in audits'
                        /\ (\E a \in audits : a.id = i) => rows'[i] = NoRow
      BY DEF Stored
    <2>1. Kind
      BY StepKinds DEF IInv
    <2>2. ASSUME rows[i] # NoRow, rows'[i] = NoRow
          PROVE  Purged
      <3>1. ~Kept
        BY <2>2 DEF Kept
      <3>2. ~Added
        BY <2>2 DEF Added
      <3> QED
        BY <2>1, <3>1, <3>2 DEF Kind
    <2>3. (rows[i] # NoRow /\ rows'[i] = NoRow) =>
              [id |-> i, plugin |-> rows[i].plugin,
               version |-> rows[i].version] \in audits'
      BY <2>2 DEF Purged
    <2>4. audits \subseteq audits'
      BY <2>1 DEF Kind, Kept, Added, Purged
    <2>5. \A a \in audits' : rows'[a.id] = NoRow
      BY DEF IInv, Fresh
    <2> QED
      BY <2>3, <2>4, <2>5
  <1> QED
    BY <1>1, LifecycleInvariant, PTL DEF Spec, PurgeAudited

(* A yank or a provenance lookup that returns late, and a catalogue        *)
(* import, leave a soft-deleted version as it was (SetVersionYank,         *)
(* SetProvenance, UpsertSeedPlugin).                                       *)
THEOREM WithdrawnStaysFrozen == Spec => WithdrawnFrozen
  <1>1. IInv /\ [Next]_vars =>
          [\A i \in VersionIds :
              (Stored(i) /\ rows[i].deleted /\ Stored(i)') =>
                  /\ rows[i].deleted'
                  /\ rows[i].yanked' = rows[i].yanked
                  /\ rows[i].prov' = rows[i].prov]_vars
    <2> SUFFICES ASSUME IInv, [Next]_vars, NEW i \in VersionIds,
                        rows[i] # NoRow, rows[i].deleted, rows'[i] # NoRow
                 PROVE  /\ rows'[i].deleted
                        /\ rows'[i].yanked = rows[i].yanked
                        /\ rows'[i].prov = rows[i].prov
      BY DEF Stored
    <2>1. Kind
      BY StepKinds DEF IInv
    <2>2. CASE Kept
      BY <2>2 DEF Kept
    <2>3. CASE Added
      <3>1. nextId \in Nat
        BY VersionAssumption DEF IInv, TypeOK
      <3>2. rows[nextId] = NoRow
        BY <2>3, <3>1 DEF Added, IInv, Fresh
      <3>3. rows'[i] = rows[i]
        BY <2>3, <3>2 DEF Added
      <3> QED
        BY <3>3
    <2>4. CASE Purged
      <3>1. rows'[i] = rows[i]
        BY <2>4 DEF Purged
      <3> QED
        BY <3>1
    <2> QED
      BY <2>1, <2>2, <2>3, <2>4 DEF Kind
  <1> QED
    BY <1>1, LifecycleInvariant, PTL DEF Spec, WithdrawnFrozen

(* What a deletion or purge removes is the version its caller confirmed    *)
(* (DeleteVersionWithRequest, HardDeleteVersion).                          *)
THEOREM ConfirmedIsRemoved == Spec => ConfirmedVersionRemoved
  <1>1. IInv /\ [Next]_vars =>
          [\A r \in Requests :
              (req[r].op \in {"delete", "purge"} /\ rows' # rows
                  /\ req[r]' = Idle)
                  => rows[req[r].id].version = req[r].version]_vars
    <2> SUFFICES ASSUME IInv, [Next]_vars, NEW r \in Requests,
                        req[r].op \in {"delete", "purge"}, rows' # rows,
                        req'[r] = Idle
                 PROVE  rows[req[r].id].version = req[r].version
      OBVIOUS
    <2>1. ReqStep
      BY Requested DEF IInv
    <2>2. req'[r] # req[r]
      BY DEF Idle
    <2>3. rows[req[r].id] # NoRow
      BY <2>1, <2>2 DEF ReqStep
    <2> QED
      BY <2>3 DEF IInv, Confirms
  <1> QED
    BY <1>1, LifecycleInvariant, PTL DEF Spec, ConfirmedVersionRemoved

-----------------------------------------------------------------------------
(* Provenance.  A lookup under way holds the checksums of the row its id   *)
(* names, as long as it names one: ids are not reused, and only an import  *)
(* replaces checksums, on PostgreSQL perhaps beside the lookup.            *)
Replaceable == IF Backend = "file" THEN {} ELSE Catalogue

Attests(q) ==
    q.op = "attest" =>
        /\ q.id \in VersionIds /\ q.id < nextId
        /\ rows[q.id] # NoRow => rows[q.id].sums \in {q.sums} \union Replaceable

AInv == \A r \in Requests : Attests(req[r])

(* What a step that is not an import does about provenances: one is parted *)
(* from its checksums only where an import has replaced these under it, or *)
(* where the file backend stores it so.                                    *)
NoneParted ==
    \A i \in VersionIds :
        Misattributed(i)' => \/ Misattributed(i) /\ rows'[i].sums = rows[i].sums
                             \/ rows'[i].sums \in Replaceable
                             \/ Backend = "file" /\ ~Stored(i)

(* Checksums stay, provenance too or becomes what the lookup found.        *)
SumsKept ==
    /\ nextId' = nextId
    /\ \A i \in VersionIds :
          rows'[i] # NoRow =>
              /\ rows[i] # NoRow
              /\ rows'[i].sums = rows[i].sums
              /\ \/ rows'[i].prov \in {rows[i].prov, rows[i].sums, NoDigest}
                 \/ rows[i].sums \in Replaceable

(* No request becomes a lookup.                                            *)
NoLookup == \A r \in Requests : req'[r] = req[r] \/ req'[r].op # "attest"

LEMMA SumsKeptInductive ==
    ASSUME AInv, SumsKept, NoLookup
    PROVE  AInv' /\ NoneParted
  <1>1. NoneParted
    BY DEF NoneParted, Misattributed, SumsKept, Stored
  <1>2. ASSUME NEW r \in Requests PROVE Attests(req[r])'
    BY DEF AInv, Attests, SumsKept, NoLookup, Replaceable
  <1> QED
    BY <1>1, <1>2 DEF AInv

LEMMA EndNoLookup ==
    ASSUME TypeOK, NEW r \in Requests, End(r)
    PROVE  NoLookup
  BY DEF TypeOK, End, NoLookup, Idle

LEMMA BeginNoLookup ==
    ASSUME TypeOK, NEW r \in Requests, NEW q, q.op # "attest", Begin(r, q)
    PROVE  SumsKept /\ NoLookup
  BY DEF TypeOK, Begin, SumsKept, NoLookup

LEMMA AskNoLookup ==
    ASSUME TypeOK, NEW r \in Requests, NEW p \in Plugins,
           \/ \E v \in Versions, d \in Digests, m \in StoredMarks :
                 AskPublish(r, p, v, d, m)
           \/ \E c \in BOOLEAN : AskDeletePlugin(r, p, c)
           \/ \E i \in VersionIds :
                 \/ AskDelete(r, p, i) \/ AskPurge(r, p, i)
                 \/ \E y \in BOOLEAN : AskYank(r, p, i, y)
    PROVE  SumsKept /\ NoLookup
  <1>1. PICK q : q.op # "attest" /\ Begin(r, q)
    BY DEF AskPublish, AskDeletePlugin, AskDelete, AskPurge, AskYank
  <1> QED
    BY <1>1, BeginNoLookup

(* A row is added, by a publish or by an import: the lookups under way are *)
(* about older ids.                                                        *)
LEMMA AddedAttests ==
    ASSUME IInv, AInv, Added, NEW s \in Requests, req'[s] = req[s]
    PROVE  Attests(req[s])'
  <1>1. nextId \in Nat /\ VersionIds \subseteq Nat
    BY VersionAssumption DEF IInv, TypeOK, VersionIds
  <1>2. /\ nextId' = nextId + 1
        /\ \A i \in VersionIds \ {nextId} : rows'[i] = rows[i]
    BY DEF Added
  <1>3. Attests(req[s])
    BY DEF AInv
  <1>4. ASSUME req[s].op = "attest"
        PROVE  req[s].id \in VersionIds \ {nextId} /\ req[s].id < nextId'
    <2>1. req[s].id \in VersionIds /\ req[s].id \in Nat /\ req[s].id < nextId
      BY <1>1, <1>3, <1>4 DEF Attests
    <2>2. req[s].id # nextId /\ req[s].id < nextId + 1
      BY <1>1, <2>1
    <2> QED
      BY <1>2, <2>1, <2>2
  <1> QED
    BY <1>2, <1>3, <1>4 DEF Attests, Replaceable

LEMMA PublishAttests ==
    ASSUME IInv, AInv, NEW r \in Requests, Publish(r)
    PROVE  AInv' /\ NoneParted
  <1> DEFINE q == req[r]
             new == NewRow(q.plugin, q.version, q.sums, q.marks)
  <1>0. Added /\ q.marks \in StoredMarks
    BY PublishAdded, PendingFields DEF IInv, TypeOK, Publish
  <1>1. nextId \in VersionIds /\ nextId \in Nat
    BY <1>0, VersionAssumption DEF Added, IInv, TypeOK
  <1>2. /\ rows'[nextId] = new /\ \A i \in VersionIds \ {nextId} : rows'[i] = rows[i]
        /\ nextId' = nextId + 1
        /\ req'[r] = IF q.marks.deleted THEN Idle
                     ELSE [op |-> "attest", id |-> nextId, sums |-> q.sums]
        /\ \A s \in Requests \ {r} : req'[s] = req[s]
    BY <1>1 DEF Publish, NewId, IInv, TypeOK
  <1>3. new.prov = q.marks.prov /\ new.sums = q.sums
    BY DEF NewRow
  <1>4. Backend = "postgres" => new.prov = NoDigest
    BY <1>0, <1>3, MarkFields DEF Unmarked
  <1>5. rows[nextId] = NoRow /\ (Backend = "postgres" \/ Backend = "file")
    BY <1>1, VersionAssumption DEF IInv, Fresh
  <1> HIDE DEF q, new
  <1>6. NoneParted
    BY <1>2, <1>4, <1>5 DEF NoneParted, Misattributed, Stored
  <1>7. Attests(req[r])'
    <2>1. CASE q.marks.deleted
      BY <1>2, <2>1 DEF Attests, Idle
    <2>2. CASE ~q.marks.deleted
      <3>1. req'[r].id = nextId /\ req'[r].sums = q.sums
        BY <1>2, <2>2
      <3> QED
        BY <1>1, <1>2, <1>3, <3>1 DEF Attests
    <2> QED
      BY <2>1, <2>2
  <1>8. ASSUME NEW s \in Requests PROVE Attests(req[s])'
    BY <1>0, <1>2, <1>7, AddedAttests
  <1> QED
    BY <1>6, <1>8 DEF AInv

LEMMA DeletePluginSums ==
    ASSUME IInv, NEW r \in Requests, DeletePlugin(r)
    PROVE  SumsKept
  <1>1. /\ nextId' = nextId
        /\ rows' = [i \in VersionIds |->
                       IF Listed(i, req[r].plugin) THEN [rows[i] EXCEPT !.deleted = TRUE]
                       ELSE rows[i]]
    BY DEF DeletePlugin
  <1>2. ASSUME NEW i \in VersionIds, rows'[i] # NoRow
        PROVE  /\ rows[i] # NoRow
               /\ rows'[i].sums = rows[i].sums
               /\ rows'[i].prov = rows[i].prov
    <2>1. CASE Listed(i, req[r].plugin)
      <3>1. rows[i] # NoRow /\ rows'[i] = [rows[i] EXCEPT !.deleted = TRUE]
        BY <1>1, <2>1 DEF Listed, Stored
      <3>2. rows[i] \in Row
        BY <3>1 DEF IInv, TypeOK
      <3> QED
        BY <3>1, <3>2 DEF Row
    <2>2. CASE ~Listed(i, req[r].plugin)
      BY <1>1, <1>2, <2>2
    <2> QED
      BY <2>1, <2>2
  <1> QED
    BY <1>1, <1>2 DEF SumsKept

(* One row is rewritten.                                                   *)
LEMMA RewrittenSums ==
    ASSUME IInv, NEW i \in VersionIds, NEW row, rows' = [rows EXCEPT ![i] = row],
           nextId' = nextId,
           row # NoRow => /\ rows[i] # NoRow
                          /\ row.sums = rows[i].sums
                          /\ \/ row.prov \in {rows[i].prov, rows[i].sums, NoDigest}
                             \/ rows[i].sums \in Replaceable
    PROVE  SumsKept
  <1>1. rows'[i] = row /\ \A j \in VersionIds \ {i} : rows'[j] = rows[j]
    BY DEF IInv, TypeOK
  <1> QED
    BY <1>1 DEF SumsKept

LEMMA WriteSums ==
    ASSUME IInv, AInv, NEW r \in Requests,
           DeleteVersion(r) \/ SetVersionYank(r) \/ HardDeleteVersion(r) \/ SetProvenance(r)
    PROVE  SumsKept /\ NoLookup
  <1> DEFINE i == req[r].id
  <1>1. req[r] \in Pending \union {Idle}
    BY DEF IInv, TypeOK
  <1>2. i \in VersionIds /\ rows[i] # NoRow /\ nextId' = nextId /\ End(r)
    BY <1>1, PendingFields
       DEF DeleteVersion, SetVersionYank, HardDeleteVersion, SetProvenance, Listed, Stored
  <1>3. rows[i] \in Row
    BY <1>2 DEF IInv, TypeOK
  <1>4. NoLookup
    BY <1>2, EndNoLookup DEF IInv
  <1>5. CASE DeleteVersion(r)
    <2>1. rows' = [rows EXCEPT ![i] = [rows[i] EXCEPT !.deleted = TRUE]]
      BY <1>5 DEF DeleteVersion
    <2>2. /\ [rows[i] EXCEPT !.deleted = TRUE].sums = rows[i].sums
          /\ [rows[i] EXCEPT !.deleted = TRUE].prov = rows[i].prov
      BY <1>3 DEF Row
    <2> QED
      BY <1>2, <1>4, <2>1, <2>2, RewrittenSums
  <1>6. CASE SetVersionYank(r)
    <2>1. rows' = [rows EXCEPT ![i] = [rows[i] EXCEPT !.yanked = req[r].yanked]]
      BY <1>6 DEF SetVersionYank
    <2>2. /\ [rows[i] EXCEPT !.yanked = req[r].yanked].sums = rows[i].sums
          /\ [rows[i] EXCEPT !.yanked = req[r].yanked].prov = rows[i].prov
      BY <1>3 DEF Row
    <2> QED
      BY <1>2, <1>4, <2>1, <2>2, RewrittenSums
  <1>7. CASE HardDeleteVersion(r)
    <2>1. rows' = [rows EXCEPT ![i] = NoRow]
      BY <1>7 DEF HardDeleteVersion
    <2> QED
      BY <1>2, <1>4, <2>1, RewrittenSums
  <1>8. CASE SetProvenance(r)
    <2>1. PICK outcome \in {req[r].sums, NoDigest} :
              rows' = [rows EXCEPT ![i] = [rows[i] EXCEPT !.prov = outcome]]
      BY <1>8 DEF SetProvenance
    <2>2. rows[i].sums \in {req[r].sums} \union Replaceable
      BY <1>2, <1>8 DEF SetProvenance, AInv, Attests
    <2>3. /\ [rows[i] EXCEPT !.prov = outcome].sums = rows[i].sums
          /\ [rows[i] EXCEPT !.prov = outcome].prov = outcome
      BY <1>3 DEF Row
    <2> QED
      BY <1>2, <1>4, <2>1, <2>2, <2>3, RewrittenSums
  <1> QED
    BY <1>5, <1>6, <1>7, <1>8

LEMMA StepAttests ==
    ASSUME IInv, AInv, [Next]_vars,
           ~\E p \in Plugins, v \in Versions, d \in Catalogue : SeedVersion(p, v, d)
    PROVE  AInv' /\ NoneParted
  <1>1. ASSUME NEW r \in Requests, GiveUp(r) PROVE AInv' /\ NoneParted
    <2>1. SumsKept
      BY <1>1 DEF GiveUp, SumsKept
    <2> QED
      BY <1>1, <2>1, EndNoLookup, SumsKeptInductive DEF GiveUp, IInv
  <1>2. ASSUME NEW r \in Requests, DeletePlugin(r) PROVE AInv' /\ NoneParted
    BY <1>2, DeletePluginSums, EndNoLookup, SumsKeptInductive DEF DeletePlugin, IInv
  <1>3. ASSUME NEW r \in Requests, Publish(r) PROVE AInv' /\ NoneParted
    BY <1>3, PublishAttests
  <1>4. ASSUME NEW r \in Requests,
               \/ DeleteVersion(r) \/ SetVersionYank(r)
               \/ HardDeleteVersion(r) \/ SetProvenance(r)
        PROVE  AInv' /\ NoneParted
    BY <1>4, WriteSums, SumsKeptInductive
  <1>5. ASSUME NEW r \in Requests, NEW p \in Plugins,
               \/ \E v \in Versions, d \in Digests, m \in StoredMarks :
                     AskPublish(r, p, v, d, m)
               \/ \E c \in BOOLEAN : AskDeletePlugin(r, p, c)
               \/ \E i \in VersionIds :
                     \/ AskDelete(r, p, i) \/ AskPurge(r, p, i)
                     \/ \E y \in BOOLEAN : AskYank(r, p, i, y)
        PROVE  AInv' /\ NoneParted
    BY <1>5, AskNoLookup, SumsKeptInductive DEF IInv
  <1>6. CASE UNCHANGED vars
    BY <1>6 DEF vars, AInv, Attests, NoneParted, Misattributed, Stored, Replaceable
  <1> QED
    BY <1>1, <1>2, <1>3, <1>4, <1>5, <1>6 DEF Next

LEMMA AttestsInitially == Init => AInv
  BY DEF Init, AInv, Attests, Idle

(* An import on PostgreSQL, perhaps beside a lookup.                       *)
LEMMA SeedAttests ==
    ASSUME IInv, AInv, Backend = "postgres",
           NEW p \in Plugins, NEW v \in Versions, NEW d \in Catalogue,
           SeedVersion(p, v, d)
    PROVE  AInv' /\ NoneParted
  <1>0. d \in Replaceable /\ d \in Digests /\ req' = req
    BY VersionAssumption DEF Replaceable, SeedVersion
  <1>1. CASE VersionTaken(p, v)
    <2>1. /\ nextId' = nextId
          /\ rows' = [i \in VersionIds |->
                IF Stored(i) /\ rows[i].plugin = p /\ rows[i].version = v
                THEN [rows[i] EXCEPT !.sums = d] ELSE rows[i]]
      BY <1>1 DEF SeedVersion
    <2>2. ASSUME NEW i \in VersionIds, rows'[i] # NoRow
          PROVE  /\ rows[i] # NoRow
                 /\ rows'[i] = rows[i] \/ rows'[i].sums = d
      <3>1. CASE Stored(i) /\ rows[i].plugin = p /\ rows[i].version = v
        <4>1. rows[i] \in Row /\ rows'[i] = [rows[i] EXCEPT !.sums = d]
          BY <2>1, <3>1, RowFields DEF IInv
        <4> QED
          BY <3>1, <4>1 DEF Row, Stored
      <3>2. CASE ~(Stored(i) /\ rows[i].plugin = p /\ rows[i].version = v)
        BY <2>1, <2>2, <3>2
      <3> QED
        BY <3>1, <3>2
    <2>3. NoneParted
      BY <1>0, <2>2 DEF NoneParted, Misattributed, Stored
    <2>4. ASSUME NEW r \in Requests PROVE Attests(req[r])'
      <3>1. Attests(req[r]) /\ req'[r] = req[r]
        BY <1>0 DEF AInv
      <3> QED
        BY <1>0, <2>1, <2>2, <3>1 DEF Attests, Replaceable
    <2> QED
      BY <2>3, <2>4 DEF AInv
  <1>2. CASE ~VersionTaken(p, v)
    <2>1. /\ rows' = [rows EXCEPT ![NewId] = NewRow(p, v, d, Unmarked)]
          /\ nextId <= MaxVersionId /\ nextId' = nextId + 1 /\ audits' = audits
      BY <1>2 DEF SeedVersion
    <2>2. Added
      BY <1>0, <1>2, <2>1, NewRowAdded, MarkFields DEF IInv
    <2>3. rows'[nextId] = NewRow(p, v, d, Unmarked)
      BY <2>1, <2>2 DEF NewId, Added, IInv, TypeOK
    <2>4. rows'[nextId].prov = NoDigest
      BY <2>3 DEF NewRow, Unmarked
    <2>5. NoneParted
      BY <2>2, <2>4 DEF NoneParted, Misattributed, Stored, Added
    <2> QED
      BY <1>0, <2>2, <2>5, AddedAttests DEF AInv
  <1> QED
    BY <1>1, <1>2

(* On PostgreSQL, whose INSERT takes no provenance, a verified provenance  *)
(* is about the bytes the checksums name, however late the lookup returns  *)
(* and whatever was published, deleted or purged meanwhile, unless the     *)
(* catalogue put other checksums there (triggerProvenanceCheck).           *)
THEOREM ProvenanceIsAboutBytes ==
    ASSUME Backend = "postgres"
    PROVE  Spec => []ProvenanceCoversChecksum
  <1>1. Init => ProvenanceCoversChecksum
    BY DEF Init, ProvenanceCoversChecksum, Misattributed, Stored
  <1>2. IInv /\ AInv /\ [Next]_vars => AInv' /\ NoneParted
    BY StepAttests, SeedAttests
  <1>3. ProvenanceCoversChecksum /\ NoneParted => ProvenanceCoversChecksum'
    BY DEF ProvenanceCoversChecksum, NoneParted, Replaceable
  <1> QED
    BY <1>1, <1>2, <1>3, AttestsInitially, LifecycleInvariant, PTL DEF Spec

(* On the file backend, with any catalogue, what parts the provenance of a *)
(* stored version from its checksums is the import itself, never a         *)
(* request: the process imports before it serves (main), so no lookup is   *)
(* under way when checksums are replaced, and none writes an outcome about *)
(* other bytes than it read.                                               *)
THEOREM RequestsAttestWhatIsThere ==
    ASSUME Backend = "file"
    PROVE  Spec => OnlyImportParts
  <1>1. ASSUME IInv, AInv, [Next]_vars
        PROVE  /\ AInv'
               /\ [\A i \in VersionIds :
                       (Stored(i) /\ Misattributed(i)')
                           => Misattributed(i) \/ req' = req]_vars
    <2>1. ASSUME NEW p \in Plugins, NEW v \in Versions, NEW d \in Catalogue,
                 SeedVersion(p, v, d)
          PROVE  AInv' /\ req' = req
      <3>1. req' = req /\ \A r \in Requests : req[r] = Idle
        BY <2>1 DEF SeedVersion, ImportAlone
      <3> QED
        BY <3>1 DEF AInv, Attests, Idle
    <2>2. CASE ~\E p \in Plugins, v \in Versions, d \in Catalogue :
                   SeedVersion(p, v, d)
      BY <1>1, <2>2, StepAttests DEF NoneParted, Replaceable
    <2> QED
      BY <2>1, <2>2
  <1>2. IInv /\ AInv /\ [Next]_vars =>
          /\ AInv'
          /\ [\A i \in VersionIds :
                  (Stored(i) /\ Misattributed(i)')
                      => Misattributed(i) \/ req' = req]_vars
    BY <1>1
  <1> QED
    BY <1>2, AttestsInitially, LifecycleInvariant, PTL DEF Spec, OnlyImportParts

-----------------------------------------------------------------------------
(* On the file backend                                                     *)

(* A request that was admitted while its plugin was live finds it deleted  *)
(* under the lock of the write (fileVersionRepository.AddVersion): only    *)
(* the import, which moves no request, lists a version of a deleted        *)
(* plugin.                                                                 *)
THEOREM DeletedPluginsStayUnlisted ==
    ASSUME Backend = "file"
    PROVE  Spec => OnlyImportListsDeleted
  <1>1. IInv /\ [Next]_vars =>
          [\A i \in VersionIds, p \in Plugins \ live :
              Listed(i, p)' => Listed(i, p) \/ req' = req]_vars
    <2> SUFFICES ASSUME IInv, [Next]_vars, NEW i \in VersionIds,
                        NEW p \in Plugins \ live, req' # req, Listed(i, p)'
                 PROVE  Listed(i, p)
      OBVIOUS
    <2>0. rows'[i] # NoRow /\ rows'[i].plugin = p /\ ~rows'[i].deleted
      BY DEF Listed, Stored
    <2>1. Kind
      BY StepKinds DEF IInv
    <2>2. CASE Kept
      BY <2>0, <2>2 DEF Kept, Listed, Stored
    <2>3. CASE Purged
      <3>1. rows'[i] = rows[i]
        BY <2>0, <2>3 DEF Purged
      <3> QED
        BY <2>0, <3>1 DEF Listed, Stored
    <2>4. CASE Added /\ ~Kept
      <3>1. PICK r \in Requests : Publish(r)
        <4>1. ~\E q \in Plugins, v \in Versions, d \in Catalogue : SeedVersion(q, v, d)
          BY DEF SeedVersion
        <4>2. ~UNCHANGED vars
          BY DEF vars
        <4>3. ASSUME NEW r \in Requests,
                     \/ DeletePlugin(r) \/ DeleteVersion(r)
                     \/ SetVersionYank(r) \/ SetProvenance(r) \/ GiveUp(r)
              PROVE  Kept
          BY <4>3, DeletePluginKept, DeleteVersionKept, SetVersionYankKept,
             SetProvenanceKept, GiveUpKept DEF IInv
        <4>4. ASSUME NEW r \in Requests PROVE ~HardDeleteVersion(r)
          BY DEF HardDeleteVersion
        <4>5. ASSUME NEW r \in Requests, NEW q \in Plugins,
                     \/ \E v \in Versions, d \in Digests, m \in StoredMarks :
                           AskPublish(r, q, v, d, m)
                     \/ \E c \in BOOLEAN : AskDeletePlugin(r, q, c)
                     \/ \E j \in VersionIds :
                           \/ AskDelete(r, q, j) \/ AskPurge(r, q, j)
                           \/ \E y \in BOOLEAN : AskYank(r, q, j, y)
              PROVE  Kept
          BY <4>5, AskKept DEF IInv
        <4> QED
          BY <2>4, <4>1, <4>2, <4>3, <4>4, <4>5 DEF Next
      <3>2. req[r].plugin \in live /\ nextId \in VersionIds
        BY <2>4, <3>1 DEF Publish, PluginAccepts, Added
      <3>3. rows' = [rows EXCEPT ![nextId] =
                        NewRow(req[r].plugin, req[r].version, req[r].sums,
                               req[r].marks)]
        BY <3>1 DEF Publish, NewId
      <3>4. rows'[nextId].plugin = req[r].plugin
        BY <3>2, <3>3 DEF IInv, TypeOK, NewRow
      <3>5. i # nextId
        BY <2>0, <3>2, <3>4
      <3>6. rows'[i] = rows[i]
        BY <2>4, <3>5 DEF Added
      <3> QED
        BY <2>0, <3>6 DEF Listed, Stored
    <2> QED
      BY <2>1, <2>2, <2>3, <2>4 DEF Kind
  <1> QED
    BY <1>1, LifecycleInvariant, PTL DEF Spec, OnlyImportListsDeleted

-----------------------------------------------------------------------------
(* The catalogue.  A slot is read from the one row of its version.         *)
Holds(R, i, p, v) == R[i] # NoRow /\ R[i].plugin = p /\ R[i].version = v

SlotIn(R, p, v) ==
    LET S == {i \in VersionIds : Holds(R, i, p, v)}
    IN  IF S = {} THEN "absent"
        ELSE IF \A i \in S : R[i].deleted THEN "withdrawn"
        ELSE IF \E i \in S : R[i].yanked THEN "yanked"
        ELSE "listed"

Single(R) == \A i, j \in VersionIds : \A p, v :
                 Holds(R, i, p, v) /\ Holds(R, j, p, v) => i = j

StateOf(row) == IF row.deleted THEN "withdrawn"
                ELSE IF row.yanked THEN "yanked" ELSE "listed"

LEMMA SlotsIn ==
    /\ slots = [s \in Plugins \X Versions |-> SlotIn(rows, s[1], s[2])]
    /\ slots' = [s \in Plugins \X Versions |-> SlotIn(rows', s[1], s[2])]
  BY DEF slots, SlotOf, SlotIn, Holds, Stored

LEMMA SingleRow ==
    OneRowPerVersion => Single(rows)
  BY DEF OneRowPerVersion, Single, Holds, Stored

LEMMA SingleRowNext ==
    OneRowPerVersion' => Single(rows')
  BY DEF OneRowPerVersion, Single, Holds, Stored

LEMMA SlotAbsent ==
    ASSUME NEW R, NEW p, NEW v, \A i \in VersionIds : ~Holds(R, i, p, v)
    PROVE  SlotIn(R, p, v) = "absent"
  BY DEF SlotIn

LEMMA SlotOfRow ==
    ASSUME NEW R, Single(R), NEW i \in VersionIds, NEW p, NEW v, Holds(R, i, p, v)
    PROVE  SlotIn(R, p, v) = StateOf(R[i])
  <1>1. {j \in VersionIds : Holds(R, j, p, v)} = {i}
    BY DEF Single
  <1> QED
    BY <1>1 DEF SlotIn, StateOf

(* A slot none of whose rows changes state.                                *)
LEMMA SlotSame ==
    ASSUME NEW R, NEW Q, NEW p, NEW v,
           \A i \in VersionIds :
               /\ Holds(R, i, p, v) <=> Holds(Q, i, p, v)
               /\ Holds(R, i, p, v) =>
                      R[i].deleted = Q[i].deleted /\ R[i].yanked = Q[i].yanked
    PROVE  SlotIn(R, p, v) = SlotIn(Q, p, v)
  <1>1. {i \in VersionIds : Holds(R, i, p, v)} = {i \in VersionIds : Holds(Q, i, p, v)}
    OBVIOUS
  <1> QED
    BY <1>1 DEF SlotIn

(* A step that changes no state of a row.                                  *)
LEMMA SlotsStay ==
    ASSUME \A i \in VersionIds :
               /\ rows'[i] = NoRow <=> rows[i] = NoRow
               /\ rows[i] # NoRow =>
                      /\ rows'[i].plugin = rows[i].plugin
                      /\ rows'[i].version = rows[i].version
                      /\ rows'[i].deleted = rows[i].deleted
                      /\ rows'[i].yanked = rows[i].yanked
    PROVE  slots' = slots
  <1>1. ASSUME NEW p, NEW v
        PROVE  SlotIn(rows', p, v) = SlotIn(rows, p, v)
    <2>1. \A i \in VersionIds :
              /\ Holds(rows', i, p, v) <=> Holds(rows, i, p, v)
              /\ Holds(rows', i, p, v) =>
                     /\ rows'[i].deleted = rows[i].deleted
                     /\ rows'[i].yanked = rows[i].yanked
      BY DEF Holds
    <2> QED
      BY <2>1, SlotSame
  <1> QED
    BY <1>1, SlotsIn

(* A step that writes the row of one version.                              *)
LEMMA OneSlot ==
    ASSUME NEW i \in VersionIds, NEW p \in Plugins, NEW v \in Versions,
           rows[i] # NoRow => rows[i].plugin = p /\ rows[i].version = v,
           rows'[i] # NoRow => rows'[i].plugin = p /\ rows'[i].version = v,
           \A j \in VersionIds \ {i} : rows'[j] = rows[j]
    PROVE  /\ slots[<<p, v>>] = SlotIn(rows, p, v)
           /\ slots' = [slots EXCEPT ![<<p, v>>] = SlotIn(rows', p, v)]
  <1>1. ASSUME NEW a, NEW b, a # p \/ b # v
        PROVE  SlotIn(rows', a, b) = SlotIn(rows, a, b)
    <2>1. \A j \in VersionIds :
              /\ Holds(rows', j, a, b) <=> Holds(rows, j, a, b)
              /\ Holds(rows', j, a, b) => rows'[j] = rows[j]
      BY <1>1 DEF Holds
    <2> QED
      BY <2>1, SlotSame
  <1>2. ASSUME NEW s \in Plugins \X Versions, s # <<p, v>>
        PROVE  s[1] # p \/ s[2] # v
    BY <1>2
  <1>3. slots = [s \in Plugins \X Versions |-> SlotIn(rows, s[1], s[2])]
    BY SlotsIn
  <1>4. slots' = [s \in Plugins \X Versions |-> SlotIn(rows', s[1], s[2])]
    BY SlotsIn
  <1>5. \A s \in Plugins \X Versions : s # <<p, v>> => slots'[s] = slots[s]
    BY <1>1, <1>2, <1>3, <1>4
  <1>6. /\ <<p, v>> \in Plugins \X Versions
        /\ slots[<<p, v>>] = SlotIn(rows, p, v)
        /\ slots'[<<p, v>>] = SlotIn(rows', p, v)
    BY <1>3, <1>4
  <1>7. /\ slots' = [s \in Plugins \X Versions |-> slots'[s]]
        /\ slots = [s \in Plugins \X Versions |-> slots[s]]
    BY <1>3, <1>4
  <1> QED
    BY <1>5, <1>6, <1>7

LEMMA AddedPublishes ==
    ASSUME IInv, IInv', NEW p \in Plugins, NEW v \in Versions, NEW d \in Digests,
           NEW m \in StoredMarks,
           ~VersionTaken(p, v), nextId \in VersionIds,
           rows'[nextId] = NewRow(p, v, d, m),
           \A j \in VersionIds \ {nextId} : rows'[j] = rows[j]
    PROVE  Catalog!Publish(<<p, v>>)
  <1>2. NewRow(p, v, d, m) # NoRow
    <2>1. NewRow(p, v, d, m) \in Row
      BY MarkFields DEF NewRow, Row
    <2> QED
      BY <2>1, NoRowAssumption
  <1>3. Holds(rows', nextId, p, v) /\ StateOf(rows'[nextId]) \in BornStates
    <2>1. /\ rows'[nextId].plugin = p /\ rows'[nextId].version = v
          /\ rows'[nextId].deleted = m.deleted /\ rows'[nextId].yanked = m.yanked
      BY DEF NewRow
    <2>2. Backend # "file" => ~m.deleted /\ ~m.yanked
      BY MarkFields, VersionAssumption DEF Unmarked
    <2> QED
      BY <1>2, <2>1, <2>2 DEF Holds, StateOf, BornStates
  <1>4. \A i \in VersionIds : ~Holds(rows, i, p, v)
    BY DEF VersionTaken, Holds, Stored
  <1>5. rows[nextId] = NoRow
    BY VersionAssumption DEF IInv, Fresh, TypeOK, VersionIds
  <1>6. SlotIn(rows, p, v) = "absent"
    BY <1>4, SlotAbsent
  <1>7. SlotIn(rows', p, v) \in BornStates
    BY <1>3, SlotOfRow, SingleRowNext DEF IInv
  <1>8. /\ slots[<<p, v>>] = SlotIn(rows, p, v)
        /\ slots' = [slots EXCEPT ![<<p, v>>] = SlotIn(rows', p, v)]
    <2>1. PICK i \in VersionIds : i = nextId
      OBVIOUS
    <2>2. rows[i] = NoRow /\ rows'[i].plugin = p /\ rows'[i].version = v
      BY <1>3, <1>5, <2>1 DEF Holds
    <2>3. \A j \in VersionIds \ {i} : rows'[j] = rows[j]
      BY <2>1
    <2> QED
      BY <2>2, <2>3, OneSlot
  <1> QED
    BY <1>6, <1>7, <1>8 DEF Catalog!Publish

(* The row of a listed version is rewritten.                               *)
LEMMA Rewritten ==
    ASSUME IInv, IInv', NEW i \in VersionIds, Stored(i), ~rows[i].deleted,
           NEW row \in Row, row.plugin = rows[i].plugin,
           row.version = rows[i].version, rows' = [rows EXCEPT ![i] = row]
    PROVE  /\ rows[i].plugin \in Plugins /\ rows[i].version \in Versions
           /\ slots[<<rows[i].plugin, rows[i].version>>] \in {"listed", "yanked"}
           /\ slots' = [slots EXCEPT ![<<rows[i].plugin, rows[i].version>>]
                            = StateOf(row)]
  <1>1. PICK p \in Plugins, v \in Versions : p = rows[i].plugin /\ v = rows[i].version
    BY RowFields DEF IInv
  <1>2. rows'[i] = row /\ \A j \in VersionIds \ {i} : rows'[j] = rows[j]
    BY DEF IInv, TypeOK
  <1>3. Holds(rows, i, p, v) /\ Holds(rows', i, p, v)
    BY <1>1, <1>2, NoRowAssumption DEF Holds, Stored
  <1>4. SlotIn(rows, p, v) = StateOf(rows[i])
    BY <1>3, SlotOfRow, SingleRow DEF IInv
  <1>5. SlotIn(rows', p, v) = StateOf(row)
    <2>1. Single(rows')
      BY SingleRowNext DEF IInv
    <2>2. SlotIn(rows', p, v) = StateOf(rows'[i])
      BY <1>3, <2>1, SlotOfRow
    <2> QED
      BY <1>2, <2>2
  <1>6. StateOf(rows[i]) \in {"listed", "yanked"}
    BY DEF StateOf
  <1>7. /\ slots[<<p, v>>] = SlotIn(rows, p, v)
        /\ slots' = [slots EXCEPT ![<<p, v>>] = SlotIn(rows', p, v)]
    BY <1>2, <1>3, OneSlot DEF Holds
  <1> QED
    BY <1>1, <1>4, <1>5, <1>6, <1>7

LEMMA YankSetsYank ==
    ASSUME IInv, IInv', NEW r \in Requests, SetVersionYank(r)
    PROVE  Catalog!CatalogNext
  <1>1. req[r] \in Pending \union {Idle}
    BY DEF IInv, TypeOK
  <1>2. req[r].id \in VersionIds /\ req[r].yanked \in BOOLEAN
    BY <1>1, PendingFields DEF SetVersionYank
  <1>3. PICK i \in VersionIds, y \in BOOLEAN : i = req[r].id /\ y = req[r].yanked
    BY <1>2
  <1> DEFINE row == [rows[i] EXCEPT !.yanked = y]
  <1>4. Stored(i) /\ ~rows[i].deleted /\ rows' = [rows EXCEPT ![i] = row]
    BY <1>3 DEF SetVersionYank, Listed
  <1>5. rows[i] \in Row
    BY <1>4, RowFields DEF IInv
  <1>6. /\ row \in Row /\ row.plugin = rows[i].plugin
        /\ row.version = rows[i].version /\ ~row.deleted
    BY <1>4, <1>5 DEF Row
  <1>7. StateOf(row) \in {"listed", "yanked"}
    BY <1>6 DEF StateOf
  <1> HIDE DEF row
  <1>8. PICK s \in Plugins \X Versions : s = <<rows[i].plugin, rows[i].version>>
    BY <1>4, <1>6, Rewritten
  <1>9. slots[s] \in {"listed", "yanked"} /\ slots' = [slots EXCEPT ![s] = StateOf(row)]
    BY <1>4, <1>6, <1>8, Rewritten
  <1>10. Catalog!SetYank(s)
    BY <1>7, <1>9 DEF Catalog!SetYank
  <1> QED
    BY <1>8, <1>10 DEF Catalog!CatalogNext, Catalog!Slots

LEMMA DeleteWithdraws ==
    ASSUME IInv, IInv', NEW r \in Requests, DeleteVersion(r)
    PROVE  Catalog!CatalogNext
  <1>1. req[r] \in Pending \union {Idle}
    BY DEF IInv, TypeOK
  <1>2. PICK i \in VersionIds : i = req[r].id
    BY <1>1, PendingFields DEF DeleteVersion
  <1> DEFINE row == [rows[i] EXCEPT !.deleted = TRUE]
  <1>3. Stored(i) /\ ~rows[i].deleted /\ rows' = [rows EXCEPT ![i] = row]
    BY <1>2 DEF DeleteVersion, Listed
  <1>4. rows[i] \in Row
    BY <1>3, RowFields DEF IInv
  <1>5. /\ row \in Row /\ row.plugin = rows[i].plugin
        /\ row.version = rows[i].version /\ row.deleted
    BY <1>4 DEF Row
  <1>6. StateOf(row) = "withdrawn"
    BY <1>5 DEF StateOf
  <1> HIDE DEF row
  <1>7. PICK p \in Plugins, v \in Versions : p = rows[i].plugin /\ v = rows[i].version
    BY <1>3, RowFields DEF IInv
  <1>8. /\ slots[<<p, v>>] \in {"listed", "yanked"}
        /\ slots' = [slots EXCEPT ![<<p, v>>] = "withdrawn"]
    BY <1>3, <1>5, <1>6, <1>7, Rewritten
  <1>9. slots = [s \in Plugins \X Versions |-> slots[s]]
    BY DEF slots
  <1>10. slots' = [s \in Plugins \X Versions |->
                     IF s[1] = p /\ s[2] \in {v} THEN "withdrawn" ELSE slots[s]]
    <2>1. \A s \in Plugins \X Versions : s[1] = p /\ s[2] \in {v} <=> s = <<p, v>>
      OBVIOUS
    <2> QED
      BY <1>8, <1>9, <2>1
  <1>11. Catalog!Withdraw(p, {v})
    BY <1>8, <1>10 DEF Catalog!Withdraw, Catalog!Slots
  <1> QED
    BY <1>11 DEF Catalog!CatalogNext

LEMMA DeletePluginWithdraws ==
    ASSUME IInv, IInv', NEW r \in Requests, DeletePlugin(r)
    PROVE  Catalog!CatalogNext
  <1>1. req[r] \in Pending \union {Idle}
    BY DEF IInv, TypeOK
  <1>2. PICK p \in Plugins : p = req[r].plugin
    BY <1>1, PendingFields DEF DeletePlugin
  <1>3. rows' = [i \in VersionIds |->
                    IF Listed(i, p) THEN [rows[i] EXCEPT !.deleted = TRUE] ELSE rows[i]]
    BY <1>2 DEF DeletePlugin
  <1>4. ASSUME NEW i \in VersionIds, Listed(i, p)
        PROVE  /\ rows'[i] \in Row /\ rows'[i].plugin = p
               /\ rows'[i].version = rows[i].version /\ rows'[i].deleted
    <2>1. rows[i] \in Row /\ rows[i].plugin = p
      BY <1>4, RowFields DEF IInv, Listed
    <2> QED
      BY <1>3, <1>4, <2>1 DEF Row
  <1>5. \A i \in VersionIds : ~Listed(i, p) => rows'[i] = rows[i]
    BY <1>3
  <1>6. PICK V \in SUBSET Versions :
            V = {v \in Versions : \E i \in VersionIds : Listed(i, p) /\ rows[i].version = v}
    OBVIOUS
  <1>7. ASSUME NEW v \in V
        PROVE  /\ slots[<<p, v>>] \in {"listed", "yanked"}
               /\ SlotIn(rows', p, v) = "withdrawn"
    <2>1. PICK i \in VersionIds : Listed(i, p) /\ rows[i].version = v
      BY <1>6
    <2>2. Holds(rows, i, p, v) /\ ~rows[i].deleted
      BY <2>1 DEF Listed, Holds, Stored
    <2>3. SlotIn(rows, p, v) = StateOf(rows[i])
      BY <2>2, SlotOfRow, SingleRow DEF IInv
    <2>4. Holds(rows', i, p, v) /\ rows'[i].deleted
      BY <1>4, <2>1, NoRowAssumption DEF Holds
    <2>5. Single(rows')
      BY SingleRowNext DEF IInv
    <2>6. SlotIn(rows', p, v) = StateOf(rows'[i])
      BY <2>4, <2>5, SlotOfRow
    <2>7. slots[<<p, v>>] = SlotIn(rows, p, v)
      BY SlotsIn
    <2> QED
      BY <2>2, <2>3, <2>4, <2>6, <2>7 DEF StateOf
  <1>8. ASSUME NEW a \in Plugins, NEW b \in Versions, ~(a = p /\ b \in V)
        PROVE  SlotIn(rows', a, b) = SlotIn(rows, a, b)
    <2>1. ASSUME NEW i \in VersionIds, Listed(i, p)
          PROVE  ~Holds(rows, i, a, b) /\ ~Holds(rows', i, a, b)
      <3>1. rows[i].plugin = p /\ rows[i].version \in Versions
        BY <2>1, RowFields DEF IInv, Listed
      <3>2. rows[i].version \in V
        BY <1>6, <2>1, <3>1
      <3> QED
        BY <1>4, <1>8, <2>1, <3>1, <3>2 DEF Holds
    <2>2. \A i \in VersionIds :
              /\ Holds(rows', i, a, b) <=> Holds(rows, i, a, b)
              /\ Holds(rows', i, a, b) => rows'[i] = rows[i]
      BY <1>5, <2>1 DEF Holds
    <2> QED
      BY <2>2, SlotSame
  <1>9. ASSUME NEW s \in Plugins \X Versions
        PROVE  slots'[s] = IF s[1] = p /\ s[2] \in V THEN "withdrawn" ELSE slots[s]
    <2>1. slots'[s] = SlotIn(rows', s[1], s[2]) /\ slots[s] = SlotIn(rows, s[1], s[2])
      BY SlotsIn
    <2> QED
      BY <1>7, <1>8, <2>1
  <1>10. slots' = [s \in Plugins \X Versions |->
                     IF s[1] = p /\ s[2] \in V THEN "withdrawn" ELSE slots[s]]
    <2>1. slots' = [s \in Plugins \X Versions |-> slots'[s]]
      BY SlotsIn
    <2> QED
      BY <1>9, <2>1
  <1>11. Catalog!Withdraw(p, V)
    BY <1>7, <1>10 DEF Catalog!Withdraw, Catalog!Slots
  <1> QED
    BY <1>11 DEF Catalog!CatalogNext

(* A purge was admitted for a plugin of the community.                     *)
PurgeAdmitted ==
    \A r \in Requests : req[r].op = "purge" => req[r].plugin \in Plugins \ FirstParty

LEMMA PurgeAdmittedInductive ==
    ASSUME IInv, PurgeAdmitted, [Next]_vars
    PROVE  PurgeAdmitted'
  <1>1. ASSUME NEW r \in Requests, NEW q, req' = [req EXCEPT ![r] = q],
               q.op = "purge" => q.plugin \in Plugins \ FirstParty
        PROVE  PurgeAdmitted'
    BY <1>1 DEF PurgeAdmitted, IInv, TypeOK
  <1>2. ASSUME NEW r \in Requests, End(r) PROVE PurgeAdmitted'
    <2>1. req' = [req EXCEPT ![r] = Idle] /\ Idle.op # "purge"
      BY <1>2 DEF End, Idle
    <2> QED
      BY <1>1, <2>1
  <1>3. ASSUME NEW r \in Requests, Publish(r) PROVE PurgeAdmitted'
    <2> DEFINE q == IF req[r].marks.deleted THEN Idle
                    ELSE [op |-> "attest", id |-> NewId, sums |-> req[r].sums]
    <2>1. req' = [req EXCEPT ![r] = q] /\ q.op # "purge"
      BY <1>3 DEF Publish, Idle
    <2> HIDE DEF q
    <2> QED
      BY <1>1, <2>1
  <1>4. ASSUME NEW r \in Requests,
               \/ DeletePlugin(r) \/ DeleteVersion(r) \/ SetVersionYank(r)
               \/ HardDeleteVersion(r) \/ SetProvenance(r) \/ GiveUp(r)
        PROVE  PurgeAdmitted'
    BY <1>2, <1>4 DEF DeletePlugin, DeleteVersion, SetVersionYank,
                      HardDeleteVersion, SetProvenance, GiveUp
  <1>5. ASSUME NEW r \in Requests, NEW p \in Plugins,
               \/ \E v \in Versions, d \in Digests, m \in StoredMarks :
                     AskPublish(r, p, v, d, m)
               \/ \E c \in BOOLEAN : AskDeletePlugin(r, p, c)
               \/ \E i \in VersionIds :
                     \/ AskDelete(r, p, i) \/ AskPurge(r, p, i)
                     \/ \E y \in BOOLEAN : AskYank(r, p, i, y)
        PROVE  PurgeAdmitted'
    <2>1. ASSUME NEW i \in VersionIds, AskPurge(r, p, i) PROVE PurgeAdmitted'
      <3> DEFINE q == [op |-> "purge", plugin |-> p, id |-> i,
                       version |-> rows[i].version]
      <3>1. req' = [req EXCEPT ![r] = q] /\ p \in Plugins \ FirstParty /\ q.plugin = p
        BY <2>1 DEF AskPurge, Begin
      <3> HIDE DEF q
      <3> QED
        BY <1>1, <3>1
    <2>2. CASE ~\E i \in VersionIds : AskPurge(r, p, i)
      <3>1. PICK q : q.op # "purge" /\ Begin(r, q)
        BY <1>5, <2>2 DEF AskPublish, AskDeletePlugin, AskDelete, AskYank
      <3> QED
        BY <1>1, <3>1 DEF Begin
    <2> QED
      BY <2>1, <2>2
  <1>6. CASE req' = req
    BY <1>6 DEF PurgeAdmitted
  <1>7. (UNCHANGED vars) => req' = req
    BY DEF vars
  <1>8. (\E p \in Plugins, v \in Versions, d \in Catalogue : SeedVersion(p, v, d))
            => req' = req
    BY DEF SeedVersion
  <1> QED
    BY <1>3, <1>4, <1>5, <1>6, <1>7, <1>8 DEF Next

LEMMA PurgePurges ==
    ASSUME IInv, IInv', PurgeAdmitted, NEW r \in Requests, HardDeleteVersion(r)
    PROVE  Catalog!CatalogNext
  <1>1. req[r] \in Pending \union {Idle}
    BY DEF IInv, TypeOK
  <1>2. PICK i \in VersionIds : i = req[r].id
    BY <1>1, PendingFields DEF HardDeleteVersion
  <1>3. Stored(i) /\ rows[i].plugin = req[r].plugin /\ rows' = [rows EXCEPT ![i] = NoRow]
    BY <1>2 DEF HardDeleteVersion
  <1>4. PICK p \in Plugins, v \in Versions : p = rows[i].plugin /\ v = rows[i].version
    BY <1>3, RowFields DEF IInv
  <1>5. p \in Plugins \ FirstParty
    BY <1>3, <1>4 DEF PurgeAdmitted, HardDeleteVersion
  <1>6. rows'[i] = NoRow /\ \A j \in VersionIds \ {i} : rows'[j] = rows[j]
    BY <1>3 DEF IInv, TypeOK
  <1>7. Holds(rows, i, p, v)
    BY <1>3, <1>4 DEF Holds, Stored
  <1>8. SlotIn(rows, p, v) # "absent"
    BY <1>7, SlotOfRow, SingleRow DEF IInv, StateOf
  <1>9. SlotIn(rows', p, v) = "absent"
    <2>1. Single(rows)
      BY SingleRow DEF IInv
    <2>2. \A j \in VersionIds : ~Holds(rows', j, p, v)
      BY <1>6, <1>7, <2>1 DEF Single, Holds
    <2> QED
      BY <2>2, SlotAbsent
  <1>10. /\ slots[<<p, v>>] = SlotIn(rows, p, v)
         /\ slots' = [slots EXCEPT ![<<p, v>>] = SlotIn(rows', p, v)]
    BY <1>6, <1>7, OneSlot DEF Holds
  <1>11. <<p, v>> \in Plugins \X Versions /\ <<p, v>>[1] = p
    OBVIOUS
  <1>12. Catalog!Purge(<<p, v>>)
    BY <1>5, <1>8, <1>9, <1>10, <1>11 DEF Catalog!Purge
  <1> QED
    BY <1>11, <1>12 DEF Catalog!CatalogNext, Catalog!Slots

(* Steps that the catalogue does not show.                                 *)
LEMMA QuietSlots ==
    ASSUME IInv,
           \/ UNCHANGED rows
           \/ \E r \in Requests : SetProvenance(r)
           \/ \E p \in Plugins, v \in Versions, d \in Digests :
                 /\ VersionTaken(p, v)
                 /\ SeedVersion(p, v, d)
    PROVE  slots' = slots
  <1>1. CASE UNCHANGED rows
    BY <1>1, SlotsStay
  <1>2. ASSUME NEW r \in Requests, SetProvenance(r) PROVE slots' = slots
    <2>1. req[r] \in Pending \union {Idle}
      BY DEF IInv, TypeOK
    <2>2. PICK i \in VersionIds : i = req[r].id /\ Stored(i)
      BY <1>2, <2>1, PendingFields DEF SetProvenance
    <2>3. PICK outcome : rows' = [rows EXCEPT ![i].prov = outcome]
      BY <1>2, <2>2 DEF SetProvenance
    <2>4. rows[i] \in Row
      BY <2>2, RowFields DEF IInv
    <2> DEFINE row == [rows[i] EXCEPT !.prov = outcome]
    <2>5. /\ row.plugin = rows[i].plugin /\ row.version = rows[i].version
          /\ row.deleted = rows[i].deleted /\ row.yanked = rows[i].yanked
      BY <2>4 DEF Row
    <2>6. rows'[i] = row /\ \A j \in VersionIds \ {i} : rows'[j] = rows[j]
      BY <2>3 DEF IInv, TypeOK
    <2>7. rows'[i] # NoRow
      BY <1>2, SetProvenanceKept, <2>2 DEF IInv, Kept, Stored
    <2> HIDE DEF row
    <2> QED
      BY <2>2, <2>5, <2>6, <2>7, SlotsStay DEF Stored
  <1>3. ASSUME NEW p \in Plugins, NEW v \in Versions, NEW d \in Digests,
               VersionTaken(p, v), SeedVersion(p, v, d)
        PROVE  slots' = slots
    <2>1. rows' = [i \in VersionIds |->
              IF Stored(i) /\ rows[i].plugin = p /\ rows[i].version = v
              THEN [rows[i] EXCEPT !.sums = d] ELSE rows[i]]
      BY <1>3 DEF SeedVersion
    <2>2. ASSUME NEW i \in VersionIds, rows[i] # NoRow
          PROVE  /\ rows'[i] \in Row
                 /\ rows'[i].plugin = rows[i].plugin
                 /\ rows'[i].version = rows[i].version
                 /\ rows'[i].deleted = rows[i].deleted
                 /\ rows'[i].yanked = rows[i].yanked
      <3>1. rows[i] \in Row
        BY <2>2, RowFields DEF Stored, IInv
      <3>2. rows'[i] = rows[i] \/ rows'[i] = [rows[i] EXCEPT !.sums = d]
        BY <2>1
      <3> QED
        BY <3>1, <3>2 DEF Row
    <2>3. \A i \in VersionIds : rows[i] = NoRow => rows'[i] = NoRow
      BY <2>1 DEF Stored
    <2> QED
      BY <2>2, <2>3, NoRowAssumption, SlotsStay
  <1> QED
    BY <1>1, <1>2, <1>3

(* Every step is one of the catalogue, or is not seen there.               *)
LEMMA StepImplements ==
    ASSUME IInv, IInv', PurgeAdmitted, [Next]_vars
    PROVE  [Catalog!CatalogNext]_slots
  <1>1. ASSUME NEW p \in Plugins, NEW v \in Versions, NEW d \in Digests,
               NEW m \in StoredMarks, ~VersionTaken(p, v), nextId <= MaxVersionId,
               rows' = [rows EXCEPT ![NewId] = NewRow(p, v, d, m)]
        PROVE  Catalog!CatalogNext
    <2>1. nextId \in VersionIds
      BY <1>1, VersionAssumption DEF IInv, TypeOK, VersionIds
    <2>2. /\ rows'[nextId] = NewRow(p, v, d, m)
          /\ \A j \in VersionIds \ {nextId} : rows'[j] = rows[j]
      BY <1>1, <2>1 DEF IInv, TypeOK, NewId
    <2>3. Catalog!Publish(<<p, v>>)
      BY <1>1, <2>1, <2>2, AddedPublishes
    <2> QED
      BY <2>3 DEF Catalog!CatalogNext, Catalog!Slots
  <1>2. ASSUME NEW r \in Requests, Publish(r) PROVE Catalog!CatalogNext
    <2>1. req[r] \in Pending \union {Idle}
      BY DEF IInv, TypeOK
    <2>2. PICK p \in Plugins, v \in Versions, d \in Digests, m \in StoredMarks :
              /\ p = req[r].plugin /\ v = req[r].version /\ d = req[r].sums
              /\ m = req[r].marks
      BY <1>2, <2>1, PendingFields DEF Publish
    <2> QED
      BY <1>1, <1>2, <2>2 DEF Publish
  <1>3. ASSUME NEW p \in Plugins, NEW v \in Versions, NEW d \in Catalogue,
               SeedVersion(p, v, d)
        PROVE  [Catalog!CatalogNext]_slots
    <2>1. d \in Digests
      BY VersionAssumption
    <2>2. CASE VersionTaken(p, v)
      BY <1>3, <2>1, <2>2, QuietSlots
    <2>3. CASE ~VersionTaken(p, v)
      BY <1>1, <1>3, <2>1, <2>3, MarkFields DEF SeedVersion
    <2> QED
      BY <2>2, <2>3
  <1>4. ASSUME NEW r \in Requests,
               DeletePlugin(r) \/ DeleteVersion(r) \/ SetVersionYank(r)
                   \/ HardDeleteVersion(r)
        PROVE  Catalog!CatalogNext
    BY <1>4, DeletePluginWithdraws, DeleteWithdraws, YankSetsYank, PurgePurges
  <1>5. ASSUME NEW r \in Requests, SetProvenance(r) PROVE slots' = slots
    BY <1>5, QuietSlots
  <1>6. ASSUME NEW r \in Requests, GiveUp(r) PROVE slots' = slots
    BY <1>6, QuietSlots DEF GiveUp
  <1>7. ASSUME NEW r \in Requests, NEW p \in Plugins,
               \/ \E v \in Versions, d \in Digests, m \in StoredMarks :
                     AskPublish(r, p, v, d, m)
               \/ \E c \in BOOLEAN : AskDeletePlugin(r, p, c)
               \/ \E i \in VersionIds :
                     \/ AskDelete(r, p, i) \/ AskPurge(r, p, i)
                     \/ \E y \in BOOLEAN : AskYank(r, p, i, y)
        PROVE  slots' = slots
    <2>1. rows' = rows
      BY <1>7 DEF AskPublish, AskDeletePlugin, AskDelete, AskPurge, AskYank, Begin
    <2> QED
      BY <2>1, QuietSlots
  <1>8. CASE UNCHANGED vars
    BY <1>8, QuietSlots DEF vars
  <1> QED
    BY <1>2, <1>3, <1>4, <1>5, <1>6, <1>7, <1>8, Zenon DEF Next

(* The tables and the requests over them implement the catalogue           *)
(* (VersionCatalog), in which the file backend alone lets a version start  *)
(* yanked or withdrawn: a version string is published once, withdrawn for  *)
(* good, and free again only after a purge of a community plugin, whatever *)
(* requests interleave.                                                    *)
THEOREM ImplementsCatalog == Spec => CatalogImplemented
  <1>1. Init => Catalog!CatalogInit /\ PurgeAdmitted
    <2> SUFFICES ASSUME Init PROVE Catalog!CatalogInit /\ PurgeAdmitted
      OBVIOUS
    <2>1. \A p, v : SlotIn(rows, p, v) = "absent"
      BY SlotAbsent DEF Init, Holds
    <2>2. slots = [s \in Plugins \X Versions |-> "absent"]
      BY <2>1, SlotsIn
    <2>3. PurgeAdmitted
      BY DEF Init, PurgeAdmitted, Idle
    <2> QED
      BY <2>2, <2>3 DEF Catalog!CatalogInit, Catalog!Slots
  <1>2. IInv /\ PurgeAdmitted /\ [Next]_vars => PurgeAdmitted'
    BY PurgeAdmittedInductive
  <1>3. IInv /\ IInv' /\ PurgeAdmitted /\ [Next]_vars => [Catalog!CatalogNext]_slots
    BY StepImplements
  <1> QED
    BY <1>1, <1>2, <1>3, LifecycleInvariant, PTL
       DEF Spec, CatalogImplemented, Catalog!CatalogSpec
=============================================================================
