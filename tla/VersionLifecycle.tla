-------------------------- MODULE VersionLifecycle --------------------------
(***************************************************************************)
(* The versions of published plugins, under concurrent requests: publish,  *)
(* delete, yank, purge, provenance lookup, plugin deletion, and the        *)
(* catalogue import of every start-up (api/service/plugin_service.go,      *)
(* api/service/review.go, api/handlers/provenance.go, and both backends    *)
(* under api/repository).                                                  *)
(*                                                                         *)
(* A service method reads first (the plugin, its versions), checks what it *)
(* read, and writes later; nothing is held in between.  A request is       *)
(* therefore two steps: Ask... is everything up to the last check, and     *)
(* the write of the repository, one transaction or one critical section,   *)
(* is a step of its own.  Between the two any other request may write.     *)
(* The caller's authorisation is left out: only admitted requests appear.  *)
(* ReverifyProvenance never gets as far as a write, since it lists with a  *)
(* limit that ListVersions refuses: it is no request here.                 *)
(***************************************************************************)
EXTENDS Naturals

CONSTANTS Plugins,        \* the plugins; all live, without versions, at first
          Versions,       \* version strings
          Digests,        \* checksums an artifact can have
          Requests,       \* requests in flight at once
          FirstParty,     \* plugins of the registry's own organisation
          Catalogue,      \* checksums the bundled catalogue can carry
          MaxVersionId,   \* bound on plugin_versions.id
          Backend,        \* "postgres" or "file"
          NoDigest, NoRow

VersionIds == 1 .. MaxVersionId

ASSUME VersionAssumption ==
    /\ MaxVersionId \in Nat
    /\ Backend \in {"postgres", "file"}
    /\ FirstParty \subseteq Plugins
    /\ Catalogue \subseteq Digests
    /\ NoDigest \notin Digests

Row == [plugin : Plugins, version : Versions, sums : Digests,
        prov : Digests \union {NoDigest}, deleted : BOOLEAN, yanked : BOOLEAN]

ASSUME NoRowAssumption == NoRow \notin Row

VARIABLES live,     \* the plugins whose deleted_at is null
          rows,     \* plugin_versions: id -> row
          nextId,   \* the id sequence (meta.NextVersionID)
          audits,   \* version_purge_audits
          req       \* the requests in flight

vars == <<live, rows, nextId, audits, req>>

Idle == [op |-> "idle"]

(* A version is bound from the body of its request as it came, provenance, *)
(* yankedAt and deletedAt included.  AddVersion of the file backend stores *)
(* what the body says of these; PostgreSQL's INSERT does not name them.    *)
Marks == [prov : Digests \union {NoDigest}, deleted : BOOLEAN, yanked : BOOLEAN]

Unmarked == [prov |-> NoDigest, deleted |-> FALSE, yanked |-> FALSE]

StoredMarks == IF Backend = "file" THEN Marks ELSE {Unmarked}

(* What a request remembers from its reads.  `version` is the string the   *)
(* caller confirmed; `consent` is the deleteVersions flag.                 *)
Pending ==
    [op : {"publish"}, plugin : Plugins, version : Versions, sums : Digests,
     marks : StoredMarks]
    \union [op : {"deletePlugin"}, plugin : Plugins, consent : BOOLEAN]
    \union [op : {"delete", "purge"}, plugin : Plugins, id : VersionIds,
            version : Versions]
    \union [op : {"yank"}, plugin : Plugins, id : VersionIds, yanked : BOOLEAN]
    \union [op : {"attest"}, id : VersionIds, sums : Digests]

Audit == [id : VersionIds, plugin : Plugins, version : Versions]

TypeOK ==
    /\ live \in SUBSET Plugins
    /\ rows \in [VersionIds -> Row \union {NoRow}]
    /\ nextId \in 1 .. MaxVersionId + 1
    /\ audits \in SUBSET Audit
    /\ req \in [Requests -> Pending \union {Idle}]

-----------------------------------------------------------------------------
Stored(i) == rows[i] # NoRow

(* Slips the helpers below could have: a WHERE clause without deleted_at, a *)
(* unique key over live rows only, an id taken from the rows that exist,    *)
(* no look at the plugin.                                                   *)
ListedOrWithdrawn(i, p) == Stored(i) /\ rows[i].plugin = p
TakenByListed(p, v) ==
    \E i \in VersionIds : /\ Stored(i) /\ ~rows[i].deleted
                          /\ rows[i].plugin = p /\ rows[i].version = v
LowestFreeId == CHOOSE i \in VersionIds :
                    ~Stored(i) /\ \A j \in 1 .. i - 1 : Stored(j)
AcceptsAlways(p) == TRUE

(* The rows of a plugin a read returns and a write's WHERE clause matches. *)
Listed(i, p) == Stored(i) /\ rows[i].plugin = p /\ ~rows[i].deleted

(* The unique key (plugin_id, version), which soft-deleted rows keep.      *)
VersionTaken(p, v) ==
    \E i \in VersionIds : Stored(i) /\ rows[i].plugin = p /\ rows[i].version = v

(* Ids are never handed out twice.                                         *)
NewId == nextId

(* plugin.Versions as lookupPlugin fills it: the file backend returns the  *)
(* plugin file as it is, soft-deleted versions included.                   *)
HasVersions(p) ==
    \E i \in VersionIds : Listed(i, p) \/ (Backend = "file" /\ Stored(i)
                                              /\ rows[i].plugin = p)

(* The file backend's writes refuse a deleted plugin; PostgreSQL's look at *)
(* the version row only, and an INSERT only at the foreign key.            *)
PluginAccepts(p) == Backend = "file" => p \in live

Begin(r, q) ==
    /\ req[r] = Idle
    /\ req' = [req EXCEPT ![r] = q]
    /\ UNCHANGED <<live, rows, nextId, audits>>

End(r) == req' = [req EXCEPT ![r] = Idle]
-----------------------------------------------------------------------------
Init ==
    /\ live = Plugins
    /\ rows = [i \in VersionIds |-> NoRow]
    /\ nextId = 1
    /\ audits = {}
    /\ req = [r \in Requests |-> Idle]

(* CreateVersion up to AddVersion; the sync's upsertVersion is the same    *)
(* request, issued when its own listing did not show the version.          *)
AskPublish(r, p, v, d, m) ==
    /\ p \in live
    /\ Begin(r, [op |-> "publish", plugin |-> p, version |-> v, sums |-> d,
                 marks |-> m])

AskDeletePlugin(r, p, consent) ==
    /\ p \in live
    /\ consent \/ ~HasVersions(p)
    /\ Begin(r, [op |-> "deletePlugin", plugin |-> p, consent |-> consent])

(* The confirmation names the version whose id is asked for.               *)
AskDelete(r, p, i) ==
    /\ p \in live
    /\ Listed(i, p)
    /\ Begin(r, [op |-> "delete", plugin |-> p, id |-> i,
                 version |-> rows[i].version])

(* YankVersion never reads the version before it writes: any id will do.   *)
AskYank(r, p, i, yanked) ==
    /\ p \in live
    /\ Begin(r, [op |-> "yank", plugin |-> p, id |-> i, yanked |-> yanked])

AskPurge(r, p, i) ==
    /\ p \in live \ FirstParty
    /\ Listed(i, p)
    /\ Begin(r, [op |-> "purge", plugin |-> p, id |-> i,
                 version |-> rows[i].version])

NewRow(p, v, d, m) ==
    [plugin |-> p, version |-> v, sums |-> d, prov |-> m.prov,
     deleted |-> m.deleted, yanked |-> m.yanked]

(* AddVersion, after which the handler starts the provenance lookup in the *)
(* background: the slot of the request goes on as that lookup.  A version  *)
(* stored as deleted is not found again by CreateVersion, which then       *)
(* answers with an error and starts none.                                  *)
Publish(r) ==
    LET q == req[r] IN
    /\ q.op = "publish"
    /\ PluginAccepts(q.plugin)
    /\ ~VersionTaken(q.plugin, q.version)
    /\ nextId <= MaxVersionId
    /\ rows' = [rows EXCEPT ![NewId] = NewRow(q.plugin, q.version, q.sums, q.marks)]
    /\ nextId' = nextId + 1
    /\ req' = [req EXCEPT ![r] =
                  IF q.marks.deleted THEN Idle
                  ELSE [op |-> "attest", id |-> NewId, sums |-> q.sums]]
    /\ UNCHANGED <<live, audits>>

(* Delete with CascadeVersions, which the service always asks for.         *)
(* Account deletion makes the same write.                                  *)
DeletePlugin(r) ==
    LET q == req[r] IN
    /\ q.op = "deletePlugin"
    /\ q.plugin \in live
    /\ live' = live \ {q.plugin}
    /\ rows' = [i \in VersionIds |->
                    IF Listed(i, q.plugin) THEN [rows[i] EXCEPT !.deleted = TRUE]
                                           ELSE rows[i]]
    /\ End(r)
    /\ UNCHANGED <<nextId, audits>>

DeleteVersion(r) ==
    LET q == req[r] IN
    /\ q.op = "delete"
    /\ PluginAccepts(q.plugin)
    /\ Listed(q.id, q.plugin)
    /\ rows' = [rows EXCEPT ![q.id].deleted = TRUE]
    /\ End(r)
    /\ UNCHANGED <<live, nextId, audits>>

SetVersionYank(r) ==
    LET q == req[r] IN
    /\ q.op = "yank"
    /\ PluginAccepts(q.plugin)
    /\ Listed(q.id, q.plugin)
    /\ rows' = [rows EXCEPT ![q.id].yanked = q.yanked]
    /\ End(r)
    /\ UNCHANGED <<live, nextId, audits>>

(* HardDeleteVersion: the plugin must still be live, the row must still    *)
(* exist, soft-deleted or not.  The file backend refuses.                  *)
HardDeleteVersion(r) ==
    LET q == req[r] IN
    /\ q.op = "purge"
    /\ Backend = "postgres"
    /\ q.plugin \in live
    /\ Stored(q.id) /\ rows[q.id].plugin = q.plugin
    /\ audits' = audits \union
           {[id |-> q.id, plugin |-> q.plugin, version |-> rows[q.id].version]}
    /\ rows' = [rows EXCEPT ![q.id] = NoRow]
    /\ End(r)
    /\ UNCHANGED <<live, nextId>>

(* SetProvenance with the outcome of the lookup: the digest it covers, or  *)
(* no verified attestation.  The write looks at the version row only.      *)
SetProvenance(r) ==
    LET q == req[r] IN
    /\ q.op = "attest"
    /\ Stored(q.id) /\ ~rows[q.id].deleted
    /\ \E outcome \in {q.sums, NoDigest} :
           rows' = [rows EXCEPT ![q.id].prov = outcome]
    /\ End(r)
    /\ UNCHANGED <<live, nextId, audits>>

(* A request ends without its write: the write matched nothing, failed, or *)
(* the process stopped.                                                    *)
GiveUp(r) ==
    /\ req[r] # Idle
    /\ End(r)
    /\ UNCHANGED <<live, rows, nextId, audits>>

(* Mutated form of ImportAlone: the import runs while requests are served. *)
ImportBeside == TRUE

ImportAlone == Backend = "file" => \A r \in Requests : req[r] = Idle

(* The import of one catalogue version: inserted, or its checksums         *)
(* replaced, whether or not the row or its plugin is deleted.  (A          *)
(* catalogue entry here carries one version.)  The file backend's one      *)
(* process imports before it serves; another instance of a PostgreSQL      *)
(* registry may be serving meanwhile.                                      *)
SeedVersion(p, v, d) ==
    /\ ImportAlone
    /\ IF VersionTaken(p, v)
       THEN /\ rows' = [i \in VersionIds |->
                IF Stored(i) /\ rows[i].plugin = p /\ rows[i].version = v
                THEN [rows[i] EXCEPT !.sums = d] ELSE rows[i]]
            /\ UNCHANGED nextId
       ELSE /\ nextId <= MaxVersionId
            /\ rows' = [rows EXCEPT ![NewId] = NewRow(p, v, d, Unmarked)]
            /\ nextId' = nextId + 1
    /\ UNCHANGED <<live, audits, req>>

Next ==
    \/ \E r \in Requests :
          \/ Publish(r) \/ DeletePlugin(r) \/ DeleteVersion(r)
          \/ SetVersionYank(r) \/ HardDeleteVersion(r) \/ SetProvenance(r)
          \/ GiveUp(r)
          \/ \E p \in Plugins :
                \/ \E v \in Versions, d \in Digests, m \in StoredMarks :
                      AskPublish(r, p, v, d, m)
                \/ \E c \in BOOLEAN : AskDeletePlugin(r, p, c)
                \/ \E i \in VersionIds :
                      \/ AskDelete(r, p, i) \/ AskPurge(r, p, i)
                      \/ \E y \in BOOLEAN : AskYank(r, p, i, y)
    \/ \E p \in Plugins, v \in Versions, d \in Catalogue : SeedVersion(p, v, d)

Spec == Init /\ [][Next]_vars

-----------------------------------------------------------------------------
(* A plugin has at most one row per version string, counting soft-deleted  *)
(* ones: two publishers and the sync, which checked the same listing,      *)
(* cannot both add the version.                                            *)
OneRowPerVersion ==
    \A i, j \in VersionIds :
        (i # j /\ Stored(i) /\ Stored(j) /\ rows[i].plugin = rows[j].plugin)
            => rows[i].version # rows[j].version

(* A row disappears only with an audit record that names what it was, and  *)
(* an audited row is gone for good (docs/api.md: "A version snapshot is    *)
(* written to the PostgreSQL purge audit").                                *)
PurgeAudited ==
    [][\A i \in VersionIds :
          /\ (Stored(i) /\ ~Stored(i)') =>
                [id |-> i, plugin |-> rows[i].plugin,
                 version |-> rows[i].version] \in audits'
          /\ (\E a \in audits : a.id = i) => ~Stored(i)']_vars

(* A soft-deleted version is out of reach of the yank and provenance       *)
(* writes that were checked before it was deleted, and is never listed     *)
(* again.                                                                  *)
WithdrawnFrozen ==
    [][\A i \in VersionIds :
          (Stored(i) /\ rows[i].deleted /\ Stored(i)') =>
              /\ rows[i].deleted'
              /\ rows[i].yanked' = rows[i].yanked
              /\ rows[i].prov' = rows[i].prov]_vars

(* Deleting or purging removes the version the caller confirmed, however   *)
(* long ago it was confirmed: the id still names that version.             *)
ConfirmedVersionRemoved ==
    [][\A r \in Requests :
          (req[r].op \in {"delete", "purge"} /\ rows' # rows /\ req[r]' = Idle)
              => rows[req[r].id].version = req[r].version]_vars

(* A verified provenance is about the bytes the version's checksums name   *)
(* (README: "whether an attestation exists at all for these exact bytes"), *)
(* unless an import has put other checksums in their place.                *)
Misattributed(i) == Stored(i) /\ rows[i].prov \notin {rows[i].sums, NoDigest}

ProvenanceCoversChecksum ==
    \A i \in VersionIds : Misattributed(i) => rows[i].sums \in Catalogue

(* On the file backend, where a version keeps the provenance its body came *)
(* with, only the start-up import, which replaces checksums, parts the     *)
(* provenance of a stored version from them: a lookup that was under way   *)
(* when the process stopped does not come back to write its outcome after. *)
OnlyImportParts ==
    [][\A i \in VersionIds :
          (Stored(i) /\ Misattributed(i)') => Misattributed(i) \/ req' = req]_vars

(* On the file backend only the start-up import, never a request, lists a  *)
(* version of a deleted plugin: what was admitted while the plugin was     *)
(* live is refused by the write (AddVersion).                              *)
OnlyImportListsDeleted ==
    [][\A i \in VersionIds, p \in Plugins \ live :
          Listed(i, p)' => Listed(i, p) \/ req' = req]_vars

(* The tables implement the catalogue of versions.                         *)
SlotOf(p, v) ==
    LET S == {i \in VersionIds : Stored(i) /\ rows[i].plugin = p
                                    /\ rows[i].version = v}
    IN  IF S = {} THEN "absent"
        ELSE IF \A i \in S : rows[i].deleted THEN "withdrawn"
        ELSE IF \E i \in S : rows[i].yanked THEN "yanked"
        ELSE "listed"

slots == [s \in Plugins \X Versions |-> SlotOf(s[1], s[2])]

(* A version the file backend is given as yanked or deleted is born so.    *)
BornStates == IF Backend = "file" THEN {"listed", "yanked", "withdrawn"}
                                  ELSE {"listed"}

Catalog == INSTANCE VersionCatalog
               WITH Purgeable <- Plugins \ FirstParty, Born <- BornStates,
                    slot <- slots

CatalogImplemented == Catalog!CatalogSpec
=============================================================================
