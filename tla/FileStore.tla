------------------------------ MODULE FileStore ------------------------------
(***************************************************************************)
(* The files of the file backend (api/repository/file_repo.go): one file   *)
(* per plugin in plugins/, the id counters in meta.json, and the           *)
(* catalogue import of every start-up, which builds a whole new plugins/   *)
(* and swaps it in by two renames (saveSeedSnapshot).                      *)
(*                                                                         *)
(* One mutex serialises the writers of the one process, so there is at     *)
(* most one operation; but it may be several file writes, and the process  *)
(* may end between any two of them, or a write may fail.  A file is        *)
(* replaced by rename, so a write happens or does not.  Writes that change *)
(* one plugin's file and hand out no id are Delete here, which stands for  *)
(* all of them.  A plugin keeps its identity, aliases are left out, and    *)
(* the versions of one creation have different version strings.            *)
(***************************************************************************)
EXTENDS Naturals

CONSTANTS Keys,         \* plugin identities (namespace and name)
          Seeded,       \* the one of the catalogue's plugin
          Versions,     \* version strings
          SeededVersion,\* the one the catalogue lists
          BodyIds,      \* ids the body of a creation may give its versions
          MaxId,        \* bound on ids
          MaxServed,    \* bound on the ids handed out while serving
          MaxFaults,    \* bound on stops and failing writes
          NoFile, NoVersion, Missing

Ids == 1 .. MaxId

ASSUME FileStoreAssumption ==
    /\ MaxId \in Nat /\ MaxServed \in 0 .. MaxId /\ MaxFaults \in Nat
    /\ Seeded \in Keys /\ SeededVersion \in Versions
    /\ BodyIds \subseteq 0 .. MaxId
    /\ NoVersion \notin Nat

(* A plugin file.  `inline` are the versions that were written with a new  *)
(* plugin, as the body of its creation had them: nothing assigns these an  *)
(* id, they keep the one the body gave, 0 if it gave none.                 *)
File == [key : Keys, deleted : BOOLEAN,
         ids : [Versions -> 0 .. MaxId \union {NoVersion}],
         inline : SUBSET Versions]

Dir == [Ids -> File \union {NoFile}]

ASSUME AbsentAssumption == NoFile \notin File /\ Missing \notin Dir

Meta == [plugin : 1 .. MaxId + 1, version : 1 .. MaxId + 1]

VARIABLES catalogue,  \* is there a catalogue to import at start-up?
          plugins,    \* the directory plugins/, or Missing
          meta,       \* meta.json
          backups,    \* plugins/ as interrupted imports left them aside
          job,        \* what the process is doing, and holds in memory
          acked,      \* history: each plugin as last confirmed to a caller
          faults      \* stops and failures so far

vars == <<catalogue, plugins, meta, backups, job, acked, faults>>

Down == [phase |-> "down"]
Starting == [phase |-> "starting"]
Serving == [phase |-> "serving"]

Job == {Down, Starting, Serving}
       \union [phase : {"numbered"}, id : Ids, file : File, answered : BOOLEAN]
       \union [phase : {"staged"}, stage : Dir, meta : Meta]
       \union [phase : {"aside", "swapped"}, stage : Dir, meta : Meta,
               backup : Dir]
       \union [phase : {"undoing"}, backup : Dir]

TypeOK ==
    /\ catalogue \in BOOLEAN
    /\ plugins \in Dir \union {Missing}
    /\ meta \in Meta
    /\ backups \subseteq Dir
    /\ job \in Job
    /\ acked \in Dir
    /\ faults \in 0 .. MaxFaults

-----------------------------------------------------------------------------
At(phase) == job.phase = phase
EmptyDir == [i \in Ids |-> NoFile]

FilesOf(dir) == {i \in Ids : dir[i] # NoFile}
NumbersOf(dir) ==
    {n \in Ids : \E i \in FilesOf(dir), v \in Versions : dir[i].ids[v] = n}
LiveWith(dir, k) ==
    {i \in FilesOf(dir) : ~dir[i].deleted /\ dir[i].key = k}

(* The numbers the store has handed out, of those.                         *)
AssignedIn(dir) ==
    {n \in Ids : \E i \in FilesOf(dir) :
                    \E v \in Versions \ dir[i].inline : dir[i].ids[v] = n}

NoVersions == [v \in {} |-> 0]

(* A new plugin, with the versions and deletedAt its body has.             *)
NewFile(k, given, deleted) ==
    [key |-> k, deleted |-> deleted,
     ids |-> [v \in Versions |-> IF v \in DOMAIN given THEN given[v]
                                                       ELSE NoVersion],
     inline |-> DOMAIN given]

(* Slips: a counter that is not raised; a directory that is not made.      *)
RaisedNever(m, n, used) == m = n
AsFound(dir) == dir

(* m is the counter n raised above every number in use.                    *)
Raised(m, n, used) ==
    /\ m >= n
    /\ \A u \in used : u < m
    /\ m > n => m - 1 \in used

(* NewFileRepository makes plugins/ when it is not there.                  *)
Made(dir) == IF dir = Missing THEN EmptyDir ELSE dir

Init ==
    /\ catalogue \in BOOLEAN
    /\ plugins = EmptyDir
    /\ meta = [plugin |-> 1, version |-> 1]
    /\ backups = {}
    /\ job = Starting
    /\ acked = EmptyDir
    /\ faults = 0

-----------------------------------------------------------------------------
(* Start-up.                                                               *)

Start ==
    /\ At("down")
    /\ plugins' = Made(plugins)
    /\ job' = Starting
    /\ UNCHANGED <<catalogue, meta, backups, acked, faults>>

(* The optional catalogue of a development set-up is not there.            *)
SkipImport ==
    /\ At("starting") /\ ~catalogue
    /\ job' = Serving
    /\ UNCHANGED <<catalogue, plugins, meta, backups, acked, faults>>

(* The plugin the catalogue's entry is matched with: the first file, in    *)
(* directory order, of that identity, deleted or not.                      *)
Matched(i) ==
    /\ i \in FilesOf(plugins) /\ plugins[i].key = Seeded
    /\ \A j \in FilesOf(plugins) : plugins[j].key = Seeded => i <= j

(* ensureUniqueIdentity fails for the matched plugin, or the new one.      *)
Conflicted ==
    /\ plugins # Missing
    /\ \E i \in Ids : Matched(i) /\ LiveWith(plugins, Seeded) \ {i} # {}

(* An import that fails is fatal.                                          *)
RefuseImport ==
    /\ At("starting") /\ catalogue /\ Conflicted
    /\ job' = Down
    /\ UNCHANGED <<catalogue, plugins, meta, backups, acked, faults>>

Seed(file, n) ==
    IF file.ids[SeededVersion] = NoVersion
    THEN [file EXCEPT !.ids[SeededVersion] = n] ELSE file

Staged(i, file, n, p) ==
    [phase |-> "staged",
     stage |-> [plugins EXCEPT ![i] = Seed(file, n)],
     meta  |-> [plugin |-> p, version |->
                   IF file.ids[SeededVersion] = NoVersion THEN n + 1 ELSE n]]

(* importSeedRegistry up to the staging directory: the files are read, the *)
(* counters raised above what they use, the catalogue's plugin updated or  *)
(* added with the next ids.                                                *)
StageImport ==
    /\ At("starting") /\ catalogue /\ plugins # Missing /\ ~Conflicted
    /\ \E p \in 1 .. MaxId + 1, n \in 1 .. MaxId :
          /\ Raised(p, meta.plugin, FilesOf(plugins))
          /\ Raised(n, meta.version, NumbersOf(plugins))
          /\ \/ \E i \in Ids : Matched(i) /\ job' = Staged(i, plugins[i], n, p)
             \/ /\ \A i \in Ids : ~Matched(i)
                /\ p <= MaxId
                /\ job' = Staged(p, NewFile(Seeded, NoVersions, FALSE), n, p + 1)
    /\ UNCHANGED <<catalogue, plugins, meta, backups, acked, faults>>

SetAside ==
    /\ At("staged")
    /\ job' = [phase |-> "aside", stage |-> job.stage, meta |-> job.meta,
               backup |-> plugins]
    /\ plugins' = Missing
    /\ UNCHANGED <<catalogue, meta, backups, acked, faults>>

SwapIn ==
    /\ At("aside")
    /\ plugins' = job.stage
    /\ job' = [job EXCEPT !.phase = "swapped"]
    /\ UNCHANGED <<catalogue, meta, backups, acked, faults>>

(* saveMeta, and the deferred removal of the backup.                       *)
FinishImport ==
    /\ At("swapped")
    /\ meta' = job.meta
    /\ job' = Serving
    /\ UNCHANGED <<catalogue, plugins, backups, acked, faults>>

(* The counters could not be written: plugins/ is moved away again, and    *)
(* the backup back; then the process ends.  Undo is also what follows a    *)
(* second rename that failed.                                              *)
FailFinish ==
    /\ At("swapped") /\ faults < MaxFaults
    /\ plugins' = Missing
    /\ job' = [phase |-> "undoing", backup |-> job.backup]
    /\ faults' = faults + 1
    /\ UNCHANGED <<catalogue, meta, backups, acked>>

FailSwap ==
    /\ At("aside") /\ faults < MaxFaults
    /\ job' = [phase |-> "undoing", backup |-> job.backup]
    /\ faults' = faults + 1
    /\ UNCHANGED <<catalogue, plugins, meta, backups, acked>>

Undo ==
    /\ At("undoing")
    /\ plugins' = job.backup
    /\ job' = Down
    /\ UNCHANGED <<catalogue, meta, backups, acked, faults>>

(* plugins/ could not be moved away either: the new files stay in place    *)
(* under the old counters, and the backup is removed.                      *)
FailMove ==
    /\ At("swapped") /\ faults < MaxFaults
    /\ job' = Down
    /\ faults' = faults + 1
    /\ UNCHANGED <<catalogue, plugins, meta, backups, acked>>

(* The backup could not be moved back, and the deferred removals take it   *)
(* and the files it was to replace: the history of what is confirmed       *)
(* starts anew.                                                            *)
FailUndo ==
    /\ At("undoing") /\ faults < MaxFaults
    /\ acked' = EmptyDir
    /\ job' = Down
    /\ faults' = faults + 1
    /\ UNCHANGED <<catalogue, plugins, meta, backups>>

-----------------------------------------------------------------------------
(* Requests.                                                               *)

(* Create and AddVersion write the counters first, and the plugin's file   *)
(* as a second file.                                                       *)
Number(kind, id, file, answered) ==
    /\ meta[kind] <= MaxServed
    /\ meta' = [meta EXCEPT ![kind] = @ + 1]
    /\ job' = [phase |-> "numbered", id |-> id, file |-> file,
               answered |-> answered]
    /\ UNCHANGED <<catalogue, plugins, backups, acked, faults>>

(* CreatePlugin, or SubmitPlugin.  A new plugin's versions are stored with *)
(* it, and then refused as duplicates by AddVersion, which only            *)
(* CreatePlugin goes on to call; a plugin stored as deleted is not found   *)
(* again by either: in both cases the answer is an error.                  *)
Create(k, given, deleted, submitted) ==
    /\ At("serving")
    /\ LiveWith(plugins, k) = {}
    /\ Number("plugin", meta.plugin, NewFile(k, given, deleted),
              ~deleted /\ (DOMAIN given = {} \/ submitted))

AddVersion(i, v) ==
    /\ At("serving")
    /\ plugins[i] # NoFile
    /\ ~plugins[i].deleted /\ plugins[i].ids[v] = NoVersion
    /\ Number("version", i, [plugins[i] EXCEPT !.ids[v] = meta.version], TRUE)

WritePlugin ==
    /\ At("numbered")
    /\ plugins' = [plugins EXCEPT ![job.id] = job.file]
    /\ acked' = IF job.answered THEN [acked EXCEPT ![job.id] = job.file] ELSE acked
    /\ job' = Serving
    /\ UNCHANGED <<catalogue, meta, backups, faults>>

FailWrite ==
    /\ At("numbered") /\ faults < MaxFaults
    /\ job' = Serving
    /\ faults' = faults + 1
    /\ UNCHANGED <<catalogue, plugins, meta, backups, acked>>

Delete(i) ==
    /\ At("serving")
    /\ plugins[i] # NoFile
    /\ ~plugins[i].deleted
    /\ plugins' = [plugins EXCEPT ![i].deleted = TRUE]
    /\ acked' = [acked EXCEPT ![i] = plugins'[i]]
    /\ UNCHANGED <<catalogue, meta, backups, job, faults>>

(* The process ends, wherever it is.  A directory an import had set aside  *)
(* stays on the disk, and nothing ever looks at it.                        *)
Stop ==
    /\ ~At("down") /\ faults < MaxFaults
    /\ job' = Down
    /\ backups' = IF job.phase \in {"aside", "swapped", "undoing"}
                  THEN backups \union {job.backup} ELSE backups
    /\ faults' = faults + 1
    /\ UNCHANGED <<catalogue, plugins, meta, acked>>

StartUp ==
    \/ Start \/ SkipImport \/ RefuseImport \/ StageImport \/ SetAside
    \/ SwapIn \/ FinishImport \/ Undo

Next ==
    \/ StartUp \/ FailSwap \/ FailFinish \/ FailMove \/ FailUndo
    \/ \E k \in Keys, inline \in SUBSET Versions, deleted, submitted \in BOOLEAN :
          \E given \in [inline -> BodyIds] : Create(k, given, deleted, submitted)
    \/ \E i \in Ids, v \in Versions : AddVersion(i, v)
    \/ \E i \in Ids : Delete(i)
    \/ WritePlugin \/ FailWrite \/ Stop

Spec == Init /\ [][Next]_vars

(* Whoever started the process starts it again, and it goes on to serve.   *)
FairSpec == Spec /\ WF_vars(StartUp)

-----------------------------------------------------------------------------
(* While requests are served, no number the store has handed out, for a    *)
(* plugin or a version, can be handed out again: whatever an interrupted   *)
(* import left, the next one has raised the counters (file_repo.go: "so    *)
(* that IDs remain stable across restarts").  The id a body gave a version *)
(* may be handed out to another one before the next import.                *)
NumbersFresh ==
    job.phase \in {"serving", "numbered"} =>
        /\ \A i \in FilesOf(plugins) : i < meta.plugin
        /\ \A n \in AssignedIn(plugins) : n < meta.version

(* What f says, g still says.                                              *)
Extends(g, f) ==
    /\ g # NoFile /\ g.key = f.key
    /\ f.deleted => g.deleted
    /\ \A v \in Versions : f.ids[v] # NoVersion => g.ids[v] = f.ids[v]

(* A plugin that was confirmed to a caller is never destroyed or written   *)
(* over: at every instant, so also after a stop at any instant, its file   *)
(* is in plugins/, or set aside by an import.  Only a rollback whose last  *)
(* rename fails (FailUndo) ends that.                                      *)
AckedIntact ==
    \A i \in FilesOf(acked) :
        IF plugins # Missing /\ i \in FilesOf(plugins)
        THEN Extends(plugins[i], acked[i])
        ELSE \/ \E b \in backups : Extends(b[i], acked[i])
             \/ job.phase \in {"aside", "swapped", "undoing"}
                   /\ Extends(job.backup[i], acked[i])

(* However it ended, the registry starts and serves again, unless the name *)
(* of a deleted plugin of the catalogue has been taken by a new one.       *)
ServesAgain == (At("down") /\ ~Conflicted) ~> At("serving")
=============================================================================
