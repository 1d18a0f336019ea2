--------------------------- MODULE PluginIdentity ---------------------------
(***************************************************************************)
(* Names, aliases and identity claims of the PostgreSQL repository         *)
(* (api/repository/plugin_repo.go, the triggers of migration 000009, the   *)
(* unique indexes of 000005, and the startup import of                     *)
(* api/database/seed_import.go).                                           *)
(*                                                                         *)
(* Every write takes the plugin-write advisory lock and is one             *)
(* transaction, so an operation is one step; a unique violation or a       *)
(* RAISE in a trigger rolls the whole of it back, so a refused operation   *)
(* is no step at all.  Inside a step the triggers run in the order the     *)
(* statements fire them: `claims` is rewritten once per statement.         *)
(*                                                                         *)
(* A name is the full reference (namespace and name) as it was spelled:    *)
(* the unique indexes compare spellings, the claims compare LOWER(ref).    *)
(* Aliases are kept lower-cased, because replaceAliases and                *)
(* normalizeAliases keep one alias per lower-cased spelling.               *)
(***************************************************************************)
CONSTANTS PluginIds,   \* ids the plugins table can hand out
          Names,       \* canonical references, as spelled
          Refs,        \* references after LOWER()
          Lower,       \* LOWER(): Names -> Refs
          NoPlugin,    \* "no owner" in the claims table
          NoRow        \* "no such row" in the plugins table

ASSUME IdentityAssumption ==
    /\ Lower \in [Names -> Refs]
    /\ NoPlugin \notin PluginIds

Row == [name : Names, aliases : SUBSET Refs, deleted : BOOLEAN]

ASSUME NoRowAssumption == NoRow \notin Row

VARIABLES rows,        \* plugins joined with plugin_aliases
          claims       \* plugin_identity_claims: reference -> plugin

vars == <<rows, claims>>

TypeOK ==
    /\ rows \in [PluginIds -> Row \union {NoRow}]
    /\ claims \in [Refs -> PluginIds \union {NoPlugin}]

Exists(p) == rows[p] # NoRow
Live(p) == Exists(p) /\ ~rows[p].deleted

(* The references a row answers to: its canonical reference and aliases.   *)
RefsOf(row) == {Lower[row.name]} \union row.aliases

(***************************************************************************)
(* The two trigger functions, over a set of references at once.            *)
(* refresh_plugin_identity_claim drops the owner's claim, then takes it    *)
(* again when the owner still answers to the reference (`kept`).           *)
(* claim_plugin_identity inserts if absent and raises when the owner is    *)
(* another plugin: Claimable is its success.                               *)
(***************************************************************************)
(* Slips these functions could have had, to see the properties notice:     *)
(* the owner's claim dropped although it still answers to the reference;   *)
(* the RAISE forgotten.                                                    *)
ReleasedUnconditionally(cl, p, S, kept) ==
    [r \in Refs |-> IF r \in S /\ cl[r] = p THEN NoPlugin ELSE cl[r]]
ClaimableAlways(cl, p, S) == TRUE

Released(cl, p, S, kept) ==
    [r \in Refs |-> IF r \in S \ kept /\ cl[r] = p THEN NoPlugin ELSE cl[r]]

Claimable(cl, p, S) == \A r \in S : cl[r] \in {NoPlugin, p}

Claimed(cl, p, S) ==
    [r \in Refs |-> IF r \in S /\ cl[r] = NoPlugin THEN p ELSE cl[r]]

(* The unique indexes on (namespace, name) and on name see deleted rows.   *)
NameFree(n, p) ==
    \A q \in PluginIds \ {p} : Exists(q) => rows[q].name # n

-----------------------------------------------------------------------------
Init ==
    /\ rows = [p \in PluginIds |-> NoRow]
    /\ claims = [r \in Refs |-> NoPlugin]

(* Create: insert the row (claims its canonical reference), then its       *)
(* aliases (each claims itself).                                           *)
Create(p, n, A) ==
    LET named == Claimed(claims, p, {Lower[n]}) IN
    /\ ~Exists(p)
    /\ NameFree(n, p)
    /\ Claimable(claims, p, {Lower[n]})
    /\ Claimable(named, p, A)
    /\ rows' = [rows EXCEPT ![p] =
                    [name |-> n, aliases |-> A, deleted |-> FALSE]]
    /\ claims' = Claimed(named, p, A)

(* Replace the aliases of a live row: all are deleted, then the new ones   *)
(* are inserted (replaceAliases).                                          *)
AliasesDropped(cl, p, n) == Released(cl, p, rows[p].aliases, {Lower[n]})

(* Update: the row first (its old reference is refreshed while the old     *)
(* aliases are still there, its new one claimed), then the aliases.        *)
Update(p, n, A) ==
    LET unnamed == Released(claims, p, {Lower[rows[p].name]},
                            {Lower[n]} \union rows[p].aliases)
        named   == Claimed(unnamed, p, {Lower[n]})
        bare    == AliasesDropped(named, p, n)
    IN
    /\ Live(p)
    /\ NameFree(n, p)
    /\ Claimable(unnamed, p, {Lower[n]})
    /\ Claimable(bare, p, A)
    /\ rows' = [rows EXCEPT ![p].name = n, ![p].aliases = A]
    /\ claims' = Claimed(bare, p, A)

(* Delete: deleted_at is set; the canonical reference and every alias are  *)
(* refreshed, and a deleted row answers to nothing.  The rows in           *)
(* plugin_aliases stay.                                                    *)
Delete(p) ==
    LET unnamed == Released(claims, p, {Lower[rows[p].name]}, {}) IN
    /\ Live(p)
    /\ rows' = [rows EXCEPT ![p].deleted = TRUE]
    /\ claims' = Released(unnamed, p, rows[p].aliases, {})

(* UpsertSeedPlugin on a name some row already has, deleted or not: the    *)
(* row keeps its name and its deleted_at, its aliases are replaced, and    *)
(* the alias trigger claims nothing for a deleted row.                     *)
SeedExisting(p, A) ==
    LET bare == AliasesDropped(claims, p, rows[p].name) IN
    /\ Exists(p)
    /\ rows' = [rows EXCEPT ![p].aliases = A]
    /\ IF rows[p].deleted
       THEN claims' = Released(claims, p, rows[p].aliases, {})
       ELSE /\ Claimable(bare, p, A)
            /\ claims' = Claimed(bare, p, A)


Next ==
    \E p \in PluginIds :
        \/ Delete(p)
        \/ \E A \in SUBSET Refs :
              \/ SeedExisting(p, A)
              \/ \E n \in Names : Create(p, n, A) \/ Update(p, n, A)

Spec == Init /\ [][Next]_vars

-----------------------------------------------------------------------------
(* The claims table is exactly the references of the live plugins: what    *)
(* the triggers of migration 000009 maintain by deltas, statement by       *)
(* statement, across renames, alias swaps, deletions and re-seeding.       *)
ClaimsExact ==
    \A r \in Refs, p \in PluginIds :
        claims[r] = p <=> (Live(p) /\ r \in RefsOf(rows[p]))

(* No two live plugins answer to the same reference.  GetByName and        *)
(* GetByNamespacedName end in LIMIT 1: this is why that never hides a      *)
(* second match.                                                           *)
RefUnambiguous ==
    \A p, q \in PluginIds :
        (p # q /\ Live(p) /\ Live(q)) => RefsOf(rows[p]) \cap RefsOf(rows[q]) = {}

(* The plugin a reference answers to, read off the rows and not off the    *)
(* claims table: what a lookup by reference returns.                       *)
Answers(r) ==
    IF \E p \in PluginIds : Live(p) /\ r \in RefsOf(rows[p])
    THEN CHOOSE p \in PluginIds : Live(p) /\ r \in RefsOf(rows[p])
    ELSE NoPlugin

(* A reference never passes from one live plugin to another in one step:   *)
(* it is free in between.  A handler that resolves the same reference      *)
(* twice sees another plugin only if the first was deleted or renamed      *)
(* between the two lookups.                                                *)
RefNeverStolen ==
    [][\A r \in Refs : Answers(r) # NoPlugin
                          => Answers(r)' \in {Answers(r), NoPlugin}]_vars

(* The tables and triggers implement the directory.                        *)
Directory == INSTANCE RefDirectory
                 WITH owner <- [r \in Refs |-> Answers(r)]

DirectoryImplemented == Directory!DirectorySpec
=============================================================================
