--------------------------- MODULE FileStoreProofs ---------------------------
(***************************************************************************)
(* Theorems about FileStore, for any plugins, versions and bounds.         *)
(*                                                                         *)
(* A directory is sound when everything that was confirmed to a caller is  *)
(* in it, or in a directory an interrupted import set aside.  plugins/, a  *)
(* staged directory and the one it replaces are sound at every point of an *)
(* import, so the process may end at any of them.  That a staged directory *)
(* never holds a new plugin where a confirmed one was needs the counters:  *)
(* a confirmed plugin's number is below the counter on disk, and an import *)
(* only raises it.                                                         *)
(***************************************************************************)
EXTENDS FileStore, TLAPS

(* The counters m are above the numbers handed out in dir.                 *)
FreshFor(m, dir) ==
    /\ \A i \in FilesOf(dir) : i < m.plugin
    /\ \A i \in FilesOf(dir) : \A v \in Versions \ dir[i].inline :
          dir[i].ids[v] \in Ids => dir[i].ids[v] < m.version

(* dir with the set-aside directories bs holds all of a.                   *)
SoundFor(dir, a, bs) ==
    \A i \in FilesOf(a) :
        IF i \in FilesOf(dir) THEN Extends(dir[i], a[i])
        ELSE \E b \in bs : Extends(b[i], a[i])

Sound(dir) == SoundFor(dir, acked, backups)

Importing == job.phase \in {"staged", "aside", "swapped"}
Open == job.phase \in {"down", "starting", "serving", "numbered", "staged"}

AckedNumbered == \A i \in FilesOf(acked) : i < meta.plugin

ServingFresh == job.phase \in {"serving", "numbered"} => FreshFor(meta, plugins)

NumberedFits ==
    At("numbered") =>
        /\ job.id < meta.plugin
        /\ \A v \in Versions \ job.file.inline : job.file.ids[v] \in Ids =>
              job.file.ids[v] < meta.version
        /\ job.id \in FilesOf(acked) => Extends(job.file, acked[job.id])

StageFits ==
    Importing =>
        /\ FreshFor(job.meta, job.stage)
        /\ meta.plugin <= job.meta.plugin
        /\ Sound(job.stage)

Places ==
    /\ Open => Sound(Made(plugins))
    /\ job.phase \in {"starting", "serving", "numbered", "staged"} => plugins # Missing
    /\ job.phase \in {"aside", "swapped", "undoing"} => Sound(job.backup)
    /\ job.phase \in {"aside", "undoing"} => plugins = Missing
    /\ At("swapped") => plugins = job.stage

WithoutCatalogue ==
    ~catalogue =>
        /\ job.phase \in {"down", "starting", "serving", "numbered"}
        /\ plugins # Missing
        /\ FreshFor(meta, plugins)

IInv ==
    /\ TypeOK /\ AckedNumbered /\ ServingFresh /\ NumberedFits
    /\ StageFits /\ Places /\ WithoutCatalogue

-----------------------------------------------------------------------------
(* Types.                                                                  *)

(* What a job holds in each phase.                                         *)
LEMMA JobHolds ==
    ASSUME job \in Job
    PROVE  /\ At("numbered") => job \in [phase : {"numbered"}, id : Ids,
                                         file : File, answered : BOOLEAN]
           /\ At("staged") => job \in [phase : {"staged"}, stage : Dir, meta : Meta]
           /\ job.phase \in {"aside", "swapped"} =>
                 job \in [phase : {"aside", "swapped"}, stage : Dir,
                          meta : Meta, backup : Dir]
           /\ At("undoing") => job \in [phase : {"undoing"}, backup : Dir]
           /\ job.phase \in {"down", "starting", "serving", "numbered",
                             "staged", "aside", "swapped", "undoing"}
  BY DEF Job, At, Down, Starting, Serving

LEMMA EmptyDirTyped == EmptyDir \in Dir /\ FilesOf(EmptyDir) = {}
  BY AbsentAssumption DEF EmptyDir, Dir, FilesOf

LEMMA MadeTyped == ASSUME TypeOK PROVE Made(plugins) \in Dir
  BY EmptyDirTyped DEF Made, TypeOK

LEMMA NewFileTyped ==
    ASSUME NEW k \in Keys, NEW vs \in SUBSET Versions, NEW given \in [vs -> BodyIds],
           NEW deleted \in BOOLEAN
    PROVE  /\ NewFile(k, given, deleted) \in File
           /\ \A v \in Versions \ NewFile(k, given, deleted).inline :
                 NewFile(k, given, deleted).ids[v] \notin Ids
  <1>1. DOMAIN given = vs /\ \A v \in vs : given[v] \in 0 .. MaxId
    BY FileStoreAssumption
  <1>2. [v \in Versions |-> IF v \in vs THEN given[v] ELSE NoVersion]
            \in [Versions -> 0 .. MaxId \union {NoVersion}]
    BY <1>1
  <1>3. NoVersion \notin Ids
    BY FileStoreAssumption DEF Ids
  <1> QED
    BY <1>1, <1>2, <1>3 DEF NewFile, File

LEMMA NewSeededTyped ==
    /\ NewFile(Seeded, NoVersions, FALSE) \in File
    /\ \A v \in Versions : NewFile(Seeded, NoVersions, FALSE).ids[v] \notin Ids
  <1>1. NoVersions \in [{} -> BodyIds] /\ {} \in SUBSET Versions
    BY DEF NoVersions
  <1>2. NewFile(Seeded, NoVersions, FALSE).inline = {}
    BY DEF NewFile, NoVersions
  <1> QED
    BY <1>1, <1>2, NewFileTyped, FileStoreAssumption

LEMMA FileTyped ==
    ASSUME NEW dir \in Dir, NEW i \in FilesOf(dir)
    PROVE  dir[i] \in File /\ i \in Ids
  BY AbsentAssumption DEF Dir, FilesOf

LEMMA SeedTyped ==
    ASSUME NEW f \in File, NEW n \in Ids
    PROVE  Seed(f, n) \in File
  BY FileStoreAssumption DEF Seed, File, Ids

LEMMA StagedTyped ==
    ASSUME TypeOK, plugins # Missing, NEW i \in Ids, NEW f \in File,
           NEW n \in Ids, NEW p \in 1 .. MaxId + 1
    PROVE  Staged(i, f, n, p) \in [phase : {"staged"}, stage : Dir, meta : Meta]
  <1>1. plugins \in Dir
    BY DEF TypeOK
  <1>2. [plugins EXCEPT ![i] = Seed(f, n)] \in Dir
    BY <1>1, SeedTyped DEF Dir
  <1>3. n \in 1 .. MaxId + 1 /\ n + 1 \in 1 .. MaxId + 1
    BY FileStoreAssumption DEF Ids
  <1>4. [plugin |-> p, version |-> IF f.ids[SeededVersion] = NoVersion
                                   THEN n + 1 ELSE n] \in Meta
    BY <1>3 DEF Meta
  <1> QED
    BY <1>2, <1>4 DEF Staged

LEMMA NumberTyped ==
    ASSUME TypeOK, NEW kind \in {"plugin", "version"}, NEW id \in Ids,
           NEW f \in File, NEW answered \in BOOLEAN,
           Number(kind, id, f, answered)
    PROVE  TypeOK'
  <1>1. meta' \in Meta
    BY FileStoreAssumption DEF Number, Meta, TypeOK
  <1>2. job' \in Job
    BY DEF Number, Job
  <1> QED
    BY <1>1, <1>2 DEF Number, TypeOK

LEMMA NextNumber ==
    ASSUME TypeOK, NEW kind \in {"plugin", "version"}, meta[kind] <= MaxServed
    PROVE  meta[kind] \in Ids
  BY FileStoreAssumption DEF TypeOK, Meta, Ids

(* A publication gives one version of a plugin the next number.            *)
LEMMA PublishedTyped ==
    ASSUME TypeOK, NEW i \in Ids, NEW v \in Versions, plugins \in Dir,
           plugins[i] # NoFile, meta.version <= MaxServed
    PROVE  [plugins[i] EXCEPT !.ids[v] = meta.version] \in File
  <1>1. plugins[i] \in File
    BY FileTyped DEF FilesOf
  <1>2. meta.version \in Ids
    BY NextNumber DEF TypeOK, Meta
  <1> QED
    BY <1>1, <1>2 DEF File, Ids

LEMMA InitTyped == Init => TypeOK
  BY EmptyDirTyped, FileStoreAssumption
     DEF Init, TypeOK, Meta, Job, Starting, Ids

LEMMA ConstantJobs == {Down, Starting, Serving} \subseteq Job
  BY DEF Job

LEMMA TypeInductive ==
    ASSUME IInv, [Next]_vars
    PROVE  TypeOK'
  <1> USE DEF IInv
  <1>0. TypeOK /\ job \in Job
    BY DEF TypeOK
  <1>a. faults \in Nat /\ (faults < MaxFaults => faults + 1 \in 0 .. MaxFaults)
    BY FileStoreAssumption DEF TypeOK
  <1>1. CASE Start
    BY <1>1, MadeTyped, ConstantJobs DEF Start, TypeOK
  <1>2. CASE SkipImport \/ RefuseImport
    BY <1>2, ConstantJobs DEF SkipImport, RefuseImport, TypeOK
  <1>3. CASE StageImport
    <2>1. plugins # Missing
      BY <1>3 DEF StageImport
    <2>2. job' \in [phase : {"staged"}, stage : Dir, meta : Meta]
      <3>1. PICK p \in 1 .. MaxId + 1, n \in Ids :
               \/ \E i \in Ids : Matched(i) /\ job' = Staged(i, plugins[i], n, p)
               \/ p <= MaxId /\ job' = Staged(p, NewFile(Seeded, NoVersions, FALSE), n, p + 1)
        BY <1>3 DEF StageImport, Ids
      <3>2. CASE \E i \in Ids : Matched(i) /\ job' = Staged(i, plugins[i], n, p)
        <4>1. PICK i \in Ids : Matched(i) /\ job' = Staged(i, plugins[i], n, p)
          BY <3>2
        <4>2. plugins[i] \in File
          BY <1>0, <2>1, <4>1, FileTyped DEF TypeOK, Matched
        <4> QED
          BY <1>0, <2>1, <4>1, <4>2, StagedTyped
      <3>3. CASE p <= MaxId /\ job' = Staged(p, NewFile(Seeded, NoVersions, FALSE), n, p + 1)
        <4>1. p \in Ids /\ p + 1 \in 1 .. MaxId + 1
          BY <3>3, FileStoreAssumption DEF Ids
        <4>2. NewFile(Seeded, NoVersions, FALSE) \in File
          BY NewSeededTyped
        <4> QED
          BY <1>0, <2>1, <3>3, <4>1, <4>2, StagedTyped
      <3> QED
        BY <3>1, <3>2, <3>3
    <2>3. job' \in Job
      BY <2>2 DEF Job
    <2> QED
      BY <1>3, <2>3 DEF StageImport, TypeOK
  <1>4. CASE SetAside
    <2>1. plugins \in Dir
      BY <1>4 DEF SetAside, At, Places, TypeOK
    <2>2. job' \in [phase : {"aside", "swapped"}, stage : Dir, meta : Meta, backup : Dir]
      BY <1>0, <1>4, <2>1, JobHolds DEF SetAside
    <2>3. job' \in Job
      BY <2>2 DEF Job
    <2> QED
      BY <1>4, <2>3 DEF SetAside, TypeOK
  <1>5. CASE SwapIn
    <2>1. job \in [phase : {"aside", "swapped"}, stage : Dir, meta : Meta, backup : Dir]
      BY <1>0, <1>5, JobHolds DEF SwapIn, At
    <2>2. job' \in [phase : {"aside", "swapped"}, stage : Dir, meta : Meta, backup : Dir]
      BY <1>5, <2>1 DEF SwapIn
    <2>3. job' \in Job
      BY <2>2 DEF Job
    <2> QED
      BY <1>5, <2>1, <2>3 DEF SwapIn, TypeOK
  <1>6. CASE FinishImport
    <2>1. job.meta \in Meta
      BY <1>0, <1>6, JobHolds DEF FinishImport, At
    <2> QED
      BY <1>6, <2>1, ConstantJobs DEF FinishImport, TypeOK
  <1>7. CASE FailSwap \/ FailFinish
    <2>1. job.backup \in Dir
      BY <1>0, <1>7, JobHolds DEF FailSwap, FailFinish, At
    <2>2. job' \in Job
      BY <1>7, <2>1 DEF FailSwap, FailFinish, Job
    <2> QED
      BY <1>7, <1>a, <2>2 DEF FailSwap, FailFinish, TypeOK
  <1>8. CASE Undo
    <2>1. job.backup \in Dir
      BY <1>0, <1>8, JobHolds DEF Undo
    <2> QED
      BY <1>8, <2>1, ConstantJobs DEF Undo, TypeOK
  <1>9. ASSUME NEW k \in Keys, NEW vs \in SUBSET Versions,
               NEW given \in [vs -> BodyIds], NEW deleted \in BOOLEAN,
               NEW submitted \in BOOLEAN, Create(k, given, deleted, submitted)
        PROVE  TypeOK'
    <2> DEFINE answered == ~deleted /\ (DOMAIN given = {} \/ submitted)
    <2>0. answered \in BOOLEAN
      OBVIOUS
    <2>1. Number("plugin", meta.plugin, NewFile(k, given, deleted), answered)
      BY <1>9 DEF Create
    <2>2. meta.plugin \in Ids
      BY <1>0, <2>1, NextNumber DEF Number
    <2> HIDE DEF answered
    <2> QED
      BY <1>0, <2>0, <2>1, <2>2, NewFileTyped, NumberTyped
  <1>10. ASSUME NEW i \in Ids, NEW v \in Versions, AddVersion(i, v)
         PROVE  TypeOK'
    <2>1. Number("version", i, [plugins[i] EXCEPT !.ids[v] = meta.version], TRUE)
      BY <1>10 DEF AddVersion
    <2>2. plugins \in Dir /\ plugins[i] # NoFile
      BY <1>10 DEF AddVersion, At, Places, TypeOK
    <2>3. meta.version <= MaxServed
      BY <2>1 DEF Number
    <2>4. [plugins[i] EXCEPT !.ids[v] = meta.version] \in File
      BY <1>0, <2>2, <2>3, PublishedTyped
    <2> QED
      BY <1>0, <2>1, <2>4, NumberTyped
  <1>11. CASE WritePlugin
    <2>1. job.id \in Ids /\ job.file \in File
      BY <1>0, <1>11, JobHolds DEF WritePlugin
    <2>2. plugins \in Dir
      BY <1>11 DEF WritePlugin, At, Places, TypeOK
    <2>3. plugins' \in Dir /\ acked' \in Dir
      BY <1>11, <2>1, <2>2 DEF WritePlugin, TypeOK, Dir
    <2> QED
      BY <1>11, <2>3, ConstantJobs DEF WritePlugin, TypeOK
  <1>12. CASE FailWrite
    BY <1>12, <1>a, ConstantJobs DEF FailWrite, TypeOK
  <1>13. ASSUME NEW i \in Ids, Delete(i) PROVE TypeOK'
    <2>1. plugins \in Dir /\ plugins[i] # NoFile
      BY <1>13 DEF Delete, At, Places, TypeOK
    <2>2. plugins[i] \in File
      BY <2>1, FileTyped DEF FilesOf
    <2>3. [plugins[i] EXCEPT !.deleted = TRUE] \in File
      BY <2>2 DEF File
    <2>4. plugins' = [plugins EXCEPT ![i] = [plugins[i] EXCEPT !.deleted = TRUE]]
      BY <1>13 DEF Delete
    <2>5. plugins' \in Dir /\ plugins'[i] \in File
      BY <2>1, <2>3, <2>4 DEF Dir
    <2>6. acked' \in Dir
      BY <1>13, <2>5 DEF Delete, TypeOK, Dir
    <2> QED
      BY <1>13, <2>5, <2>6 DEF Delete, TypeOK
  <1>14. CASE Stop
    <2>1. job.phase \in {"aside", "swapped", "undoing"} => job.backup \in Dir
      BY <1>0, JobHolds DEF At
    <2>2. backups' \subseteq Dir
      BY <1>14, <2>1 DEF Stop, TypeOK
    <2> QED
      BY <1>14, <1>a, <2>2, ConstantJobs DEF Stop, TypeOK
  <1>15. CASE UNCHANGED vars
    BY <1>15 DEF vars, TypeOK
  <1>16. CASE FailMove \/ FailUndo
    BY <1>16, <1>a, EmptyDirTyped, ConstantJobs DEF FailMove, FailUndo, TypeOK
  <1> QED
    BY <1>1, <1>2, <1>3, <1>4, <1>5, <1>6, <1>7, <1>8, <1>9, <1>10, <1>11,
       <1>12, <1>13, <1>14, <1>15, <1>16 DEF Next, StartUp

-----------------------------------------------------------------------------
(* Directories.                                                            *)

LEMMA ExtendsSelf == ASSUME NEW f \in File PROVE Extends(f, f)
  BY AbsentAssumption DEF Extends

LEMMA ExtendsOn ==
    ASSUME NEW f, NEW g, NEW h, Extends(h, g), Extends(g, f)
    PROVE  Extends(h, f)
  BY DEF Extends

LEMMA SeedExtends ==
    ASSUME NEW f \in File, NEW n \in Ids
    PROVE  Extends(Seed(f, n), f)
  <1>1. CASE f.ids[SeededVersion] = NoVersion
    <2>1. Seed(f, n) = [f EXCEPT !.ids[SeededVersion] = n]
      BY <1>1 DEF Seed
    <2>2. Seed(f, n) \in File
      BY SeedTyped
    <2> QED
      BY <1>1, <2>1, <2>2, AbsentAssumption DEF Extends, File
  <1>2. CASE f.ids[SeededVersion] # NoVersion
    BY <1>2, ExtendsSelf DEF Seed
  <1> QED
    BY <1>1, <1>2

LEMMA SoundGrows ==
    ASSUME NEW dir, NEW a, NEW bs, NEW cs, bs \subseteq cs, SoundFor(dir, a, bs)
    PROVE  SoundFor(dir, a, cs)
  BY DEF SoundFor

(* What is in a directory that is set aside is not lost.                   *)
LEMMA SoundAside ==
    ASSUME NEW dir, NEW a, NEW bs, SoundFor(dir, a, bs)
    PROVE  SoundFor(EmptyDir, a, bs \union {dir})
  BY EmptyDirTyped DEF SoundFor

(* A file that extends the confirmed one may be written, and confirmed.    *)
LEMMA SoundWritten ==
    ASSUME NEW dir \in Dir, NEW a \in Dir, NEW bs, SoundFor(dir, a, bs),
           NEW i \in Ids, NEW f \in File,
           i \in FilesOf(a) => Extends(f, a[i])
    PROVE  /\ SoundFor([dir EXCEPT ![i] = f], a, bs)
           /\ SoundFor([dir EXCEPT ![i] = f], [a EXCEPT ![i] = f], bs)
  <1>1. f # NoFile /\ Extends(f, f)
    BY AbsentAssumption, ExtendsSelf
  <1> QED
    BY <1>1 DEF SoundFor, FilesOf, Dir

LEMMA FreshWritten ==
    ASSUME NEW m, NEW dir \in Dir, FreshFor(m, dir), NEW i \in Ids,
           NEW f \in File, i < m.plugin,
           \A v \in Versions \ f.inline : f.ids[v] \in Ids => f.ids[v] < m.version
    PROVE  FreshFor(m, [dir EXCEPT ![i] = f])
  BY DEF FreshFor, FilesOf, Dir

LEMMA FreshHigher ==
    ASSUME NEW m \in Meta, NEW n \in Meta, NEW dir \in Dir, FreshFor(m, dir),
           m.plugin <= n.plugin, m.version <= n.version
    PROVE  FreshFor(n, dir)
  <1>1. m.plugin \in Nat /\ m.version \in Nat /\ n.plugin \in Nat /\ n.version \in Nat
    BY FileStoreAssumption DEF Meta
  <1>2. \A x \in Ids : x \in Nat
    BY FileStoreAssumption DEF Ids
  <1> QED
    BY <1>1, <1>2 DEF FreshFor, FilesOf

(* Raised counters are fresh.                                              *)
LEMMA RaisedFresh ==
    ASSUME NEW dir \in Dir, NEW m \in Meta, NEW p, NEW n,
           Raised(p, m.plugin, FilesOf(dir)),
           Raised(n, m.version, NumbersOf(dir))
    PROVE  FreshFor([plugin |-> p, version |-> n], dir)
  BY DEF Raised, FreshFor, NumbersOf, FilesOf

-----------------------------------------------------------------------------
(* The steps that change more than the phase.                              *)

(* Staging adds to plugins/, and to nothing that was confirmed.            *)
LEMMA StagingFits ==
    ASSUME IInv, StageImport
    PROVE  /\ At("staged")' /\ FreshFor(job'.meta, job'.stage)
           /\ meta.plugin <= job'.meta.plugin
           /\ Sound(job'.stage)
  <1> USE DEF IInv
  <1>1. plugins \in Dir /\ Sound(plugins) /\ TypeOK /\ meta \in Meta /\ acked \in Dir
    BY DEF StageImport, TypeOK, Places, Open, At, Made
  <1>2. PICK p \in 1 .. MaxId + 1, n \in Ids :
           /\ Raised(p, meta.plugin, FilesOf(plugins))
           /\ Raised(n, meta.version, NumbersOf(plugins))
           /\ \/ \E i \in Ids : Matched(i) /\ job' = Staged(i, plugins[i], n, p)
              \/ p <= MaxId /\ job' = Staged(p, NewFile(Seeded, NoVersions, FALSE), n, p + 1)
                            /\ \A i \in Ids : ~Matched(i)
    BY DEF StageImport, Ids
  <1>3. FreshFor([plugin |-> p, version |-> n], plugins)
    BY <1>1, <1>2, RaisedFresh
  <1>4. p \in Nat /\ n \in Nat /\ meta.plugin \in Nat /\ meta.plugin <= p
    BY <1>1, <1>2, FileStoreAssumption DEF Raised, Ids, Meta
  <1>5. ASSUME NEW i \in Ids, NEW f \in File, NEW q \in 1 .. MaxId + 1,
               i < q, p <= q, job' = Staged(i, f, n, q),
               \A v \in Versions \ f.inline : f.ids[v] \in Ids => f.ids[v] < n,
               i \in FilesOf(acked) => Extends(f, acked[i])
        PROVE  /\ At("staged")' /\ FreshFor(job'.meta, job'.stage)
               /\ meta.plugin <= job'.meta.plugin
               /\ Sound(job'.stage)
    <2> DEFINE g == Seed(f, n)
               m == IF f.ids[SeededVersion] = NoVersion THEN n + 1 ELSE n
               new == [plugin |-> q, version |-> m]
    <2>1. /\ job'.stage = [plugins EXCEPT ![i] = g]
          /\ job'.meta = new
          /\ job'.phase = "staged"
      BY <1>5 DEF Staged
    <2>2. g \in File /\ Extends(g, f)
      BY SeedTyped, SeedExtends
    <2>3. n <= m /\ m \in 1 .. MaxId + 1
      BY <1>2, FileStoreAssumption DEF Ids
    <2>4. \A v \in Versions \ g.inline : g.ids[v] \in Ids => g.ids[v] < m
      <3>1. CASE f.ids[SeededVersion] = NoVersion
        <4>1. g = [f EXCEPT !.ids[SeededVersion] = n]
          BY <3>1 DEF Seed
        <4>2. /\ g.inline = f.inline
              /\ \A v \in Versions :
                    g.ids[v] = IF v = SeededVersion THEN n ELSE f.ids[v]
          BY <4>1 DEF File
        <4>3. m = n + 1
          BY <3>1
        <4> QED
          BY <1>4, <1>5, <4>2, <4>3, FileStoreAssumption DEF Ids
      <3>2. CASE f.ids[SeededVersion] # NoVersion
        BY <3>2, <1>5 DEF Seed
      <3> QED
        BY <3>1, <3>2
    <2>5. new \in Meta /\ [plugin |-> p, version |-> n] \in Meta
      BY <1>2, <2>3, FileStoreAssumption DEF Meta, Ids
    <2>6. FreshFor(new, plugins)
      BY <1>1, <1>3, <1>5, <2>3, <2>5, FreshHigher
    <2>7. FreshFor(new, [plugins EXCEPT ![i] = g])
      <3> HIDE DEF g, m
      <3> QED
        BY <1>1, <1>5, <2>2, <2>4, <2>6, FreshWritten
    <2>8. i \in FilesOf(acked) => Extends(g, acked[i])
      BY <1>5, <2>2, ExtendsOn
    <2>9. Sound([plugins EXCEPT ![i] = g])
      BY <1>1, <2>2, <2>8, SoundWritten DEF Sound
    <2>10. meta.plugin <= q
      BY <1>4, <1>5
    <2> QED
      BY <2>1, <2>7, <2>9, <2>10 DEF At
  <1>6. CASE \E i \in Ids : Matched(i) /\ job' = Staged(i, plugins[i], n, p)
    <2>1. PICK i \in Ids : Matched(i) /\ job' = Staged(i, plugins[i], n, p)
      BY <1>6
    <2>2. i \in FilesOf(plugins) /\ plugins[i] \in File
      BY <1>1, <2>1, FileTyped DEF Matched
    <2>3. /\ i < p
          /\ \A v \in Versions \ plugins[i].inline :
                plugins[i].ids[v] \in Ids => plugins[i].ids[v] < n
      BY <1>3, <2>2 DEF FreshFor
    <2>4. i \in FilesOf(acked) => Extends(plugins[i], acked[i])
      BY <1>1, <2>2 DEF Sound, SoundFor
    <2> QED
      BY <1>2, <1>4, <1>5, <2>1, <2>2, <2>3, <2>4
  <1>7. CASE p <= MaxId /\ job' = Staged(p, NewFile(Seeded, NoVersions, FALSE), n, p + 1)
    <2>1. p \in Ids /\ p + 1 \in 1 .. MaxId + 1 /\ p < p + 1 /\ p <= p + 1
      BY <1>7, FileStoreAssumption DEF Ids
    <2>2. NewFile(Seeded, NoVersions, FALSE) \in File
      BY NewSeededTyped
    <2>3. \A v \in Versions : NewFile(Seeded, NoVersions, FALSE).ids[v] \notin Ids
      BY NewSeededTyped
    <2>4. p \notin FilesOf(acked)
      BY <1>4 DEF AckedNumbered
    <2> QED
      BY <1>5, <1>7, <2>1, <2>2, <2>3, <2>4
  <1> QED
    BY <1>2, <1>6, <1>7

(* Handing out a number raises one counter.                                *)
LEMMA Numbering ==
    ASSUME IInv, NEW kind \in {"plugin", "version"}, NEW id \in Ids,
           NEW f \in File, NEW answered \in BOOLEAN,
           Number(kind, id, f, answered), At("serving"),
           id < meta'.plugin,
           \A v \in Versions \ f.inline :
               f.ids[v] \in Ids => f.ids[v] < meta'.version,
           id \in FilesOf(acked) => Extends(f, acked[id])
    PROVE  IInv'
  <1> USE DEF IInv
  <1>1. TypeOK' /\ TypeOK
    BY NumberTyped
  <1>2. /\ job' = [phase |-> "numbered", id |-> id, file |-> f, answered |-> answered]
        /\ UNCHANGED <<catalogue, plugins, backups, acked>>
    BY DEF Number
  <1>3. /\ meta \in Meta /\ meta' \in Meta
        /\ meta.plugin <= meta'.plugin /\ meta.version <= meta'.version
    BY <1>1, FileStoreAssumption DEF Number, Meta, TypeOK
  <1>4. plugins # Missing /\ plugins \in Dir /\ FreshFor(meta, plugins)
    BY DEF At, Places, TypeOK, ServingFresh
  <1>5. FreshFor(meta', plugins)
    BY <1>3, <1>4, FreshHigher
  <1>6. AckedNumbered'
    <2>1. \A i \in Ids : i \in Nat
      BY DEF Ids
    <2>2. meta.plugin \in Nat /\ meta'.plugin \in Nat
      BY <1>3, FileStoreAssumption DEF Meta
    <2> QED
      BY <1>2, <1>3, <2>1, <2>2 DEF AckedNumbered, FilesOf
  <1>7. Sound(Made(plugins))
    BY DEF Places, Open, At
  <1> QED
    BY <1>1, <1>2, <1>4, <1>5, <1>6, <1>7
       DEF ServingFresh, NumberedFits, StageFits, Places, WithoutCatalogue,
           Importing, Open, At, Sound

(* A file that extends the confirmed one, and uses no number that was not  *)
(* handed out, is written, and perhaps confirmed.                          *)
LEMMA Writing ==
    ASSUME IInv, TypeOK', NEW i \in Ids, NEW f \in File, plugins # Missing,
           At("serving") \/ At("numbered"), job' = Serving,
           plugins' = [plugins EXCEPT ![i] = f],
           acked' = acked \/ acked' = [acked EXCEPT ![i] = f],
           UNCHANGED <<catalogue, meta, backups>>,
           i < meta.plugin,
           \A v \in Versions \ f.inline :
               f.ids[v] \in Ids => f.ids[v] < meta.version,
           i \in FilesOf(acked) => Extends(f, acked[i])
    PROVE  IInv'
  <1> USE DEF IInv
  <1>1. plugins \in Dir /\ acked \in Dir /\ plugins' \in Dir /\ plugins' # Missing
    BY AbsentAssumption DEF TypeOK, Dir
  <1>2. FreshFor(meta, plugins) /\ Sound(plugins)
    BY DEF ServingFresh, Places, Open, At, Made
  <1>3. FreshFor(meta, plugins')
    BY <1>1, <1>2, FreshWritten
  <1>4. SoundFor(plugins', acked', backups)
    <2>1. SoundFor(plugins, acked, backups)
      BY <1>2 DEF Sound
    <2>2. /\ SoundFor([plugins EXCEPT ![i] = f], acked, backups)
          /\ SoundFor([plugins EXCEPT ![i] = f], [acked EXCEPT ![i] = f], backups)
      <3> HIDE DEF IInv
      <3> QED
        BY <1>1, <2>1, SoundWritten
    <2> QED
      BY <2>2
  <1>5. AckedNumbered'
    BY <1>1 DEF AckedNumbered, FilesOf, Dir
  <1>6. Made(plugins') = plugins'
    BY <1>1 DEF Made
  <1> QED
    BY <1>1, <1>3, <1>4, <1>5, <1>6
       DEF ServingFresh, NumberedFits, StageFits, Places, WithoutCatalogue,
           Importing, Open, At, Sound, Serving

(* The process ends: what an import had set aside stays on the disk.       *)
LEMMA Stopping ==
    ASSUME IInv, TypeOK', Stop
    PROVE  IInv'
  <1> USE DEF IInv
  <1>1. /\ job' = Down /\ UNCHANGED <<catalogue, plugins, meta, acked>>
        /\ backups \subseteq backups'
    BY DEF Stop
  <1>2. Sound(Made(plugins))'
    <2>1. CASE Open
      BY <1>1, <2>1, SoundGrows DEF Places, Sound, Made
    <2>2. CASE At("swapped")
      <3>1. Made(plugins) = job.stage
        BY <2>2, AbsentAssumption, JobHolds DEF Places, TypeOK, Made, At
      <3>2. Sound(job.stage)
        BY <2>2 DEF StageFits, Importing, At
      <3> QED
        BY <1>1, <3>1, <3>2, SoundGrows DEF Sound, Made
    <2>3. CASE job.phase \in {"aside", "undoing"}
      <3>1. Made(plugins) = EmptyDir /\ Sound(job.backup)
        BY <2>3 DEF Places, Made
      <3>2. backups' = backups \union {job.backup}
        BY <2>3 DEF Stop
      <3> QED
        BY <1>1, <3>1, <3>2, SoundAside DEF Sound, Made
    <2> QED
      BY <2>1, <2>2, <2>3, JobHolds DEF Open, At, TypeOK
  <1> QED
    BY <1>1, <1>2
       DEF AckedNumbered, ServingFresh, NumberedFits, StageFits, Places,
           WithoutCatalogue, Importing, Open, At, Down

LEMMA Initially == Init => IInv
  <1> SUFFICES ASSUME Init PROVE IInv
    OBVIOUS
  <1>1. TypeOK
    BY InitTyped
  <1>2. FilesOf(acked) = {} /\ FilesOf(plugins) = {} /\ plugins # Missing
    BY EmptyDirTyped, AbsentAssumption DEF Init
  <1>3. FreshFor(meta, plugins) /\ Sound(Made(plugins))
    BY <1>2 DEF FreshFor, Sound, SoundFor
  <1> QED
    BY <1>1, <1>2, <1>3
       DEF Init, IInv, AckedNumbered, ServingFresh, NumberedFits, StageFits,
           Places, WithoutCatalogue, Importing, Open, At, Starting

LEMMA Inductive ==
    ASSUME IInv, [Next]_vars
    PROVE  IInv'
  <1> USE DEF IInv
  <1>0. TypeOK /\ TypeOK'
    BY TypeInductive
  <1>1. CASE Start
    <2>1. Made(plugins) \in Dir /\ Made(plugins) # Missing
      BY <1>0, MadeTyped, AbsentAssumption
    <2>2. Sound(Made(plugins))
      BY <1>1 DEF Start, Places, Open, At
    <2>3. Made(plugins') = plugins' /\ plugins' = Made(plugins)
      BY <1>1, <2>1 DEF Start, Made
    <2>4. plugins # Missing => plugins' = plugins
      BY <2>3 DEF Made
    <2> QED
      BY <1>0, <1>1, <2>1, <2>2, <2>3, <2>4
         DEF Start, AckedNumbered, ServingFresh, NumberedFits, StageFits,
             Places, WithoutCatalogue, Importing, Open, At, Starting, Sound
  <1>2. CASE SkipImport \/ RefuseImport
    BY <1>0, <1>2
       DEF SkipImport, RefuseImport, AckedNumbered, ServingFresh, NumberedFits,
           StageFits, Places, WithoutCatalogue, Importing, Open, At, Serving,
           Down, Sound
  <1>3. CASE StageImport
    <2>1. /\ At("staged")' /\ FreshFor(job'.meta, job'.stage)
          /\ meta.plugin <= job'.meta.plugin /\ Sound(job'.stage)
      BY <1>3, StagingFits
    <2>2. UNCHANGED <<catalogue, plugins, meta, backups, acked>> /\ At("starting") /\ catalogue
      BY <1>3 DEF StageImport
    <2> QED
      BY <1>0, <2>1, <2>2
         DEF AckedNumbered, ServingFresh, NumberedFits, StageFits, Places,
             WithoutCatalogue, Importing, Open, At, Sound
  <1>4. CASE SetAside
    <2>1. /\ job'.phase = "aside" /\ job'.stage = job.stage
          /\ job'.meta = job.meta /\ job'.backup = plugins
      BY <1>4 DEF SetAside
    <2>2. Sound(plugins) /\ catalogue
      BY <1>4 DEF SetAside, Places, Open, At, Made, WithoutCatalogue
    <2> QED
      BY <1>0, <1>4, <2>1, <2>2
         DEF SetAside, AckedNumbered, ServingFresh, NumberedFits, StageFits,
             Places, WithoutCatalogue, Importing, Open, At, Sound
  <1>5. CASE SwapIn
    <2>1. /\ job'.phase = "swapped" /\ job'.stage = job.stage
          /\ job'.meta = job.meta /\ job'.backup = job.backup
      BY <1>0, <1>5, JobHolds DEF SwapIn, At, TypeOK
    <2>2. catalogue
      BY <1>5 DEF SwapIn, At, WithoutCatalogue
    <2> QED
      BY <1>0, <1>5, <2>1, <2>2
         DEF SwapIn, AckedNumbered, ServingFresh, NumberedFits, StageFits,
             Places, WithoutCatalogue, Importing, Open, At, Sound
  <1>6. CASE FinishImport
    <2>1. job.meta \in Meta /\ job.stage \in Dir
      BY <1>0, <1>6, JobHolds DEF FinishImport, At, TypeOK
    <2>2. AckedNumbered'
      <3>1. meta.plugin <= job.meta.plugin
        BY <1>6 DEF FinishImport, StageFits, Importing, At
      <3>2. meta.plugin \in Nat /\ job.meta.plugin \in Nat /\ \A i \in Ids : i \in Nat
        BY <1>0, <2>1, FileStoreAssumption DEF TypeOK, Meta, Ids
      <3> QED
        BY <1>6, <3>1, <3>2 DEF FinishImport, AckedNumbered, FilesOf
    <2>3. plugins = job.stage /\ FreshFor(job.meta, plugins) /\ Sound(plugins) /\ catalogue
      BY <1>6 DEF FinishImport, StageFits, Places, Importing, At, WithoutCatalogue
    <2>4. plugins # Missing /\ Made(plugins) = plugins
      BY <2>1, <2>3, AbsentAssumption DEF Made
    <2> QED
      BY <1>0, <1>6, <2>2, <2>3, <2>4
         DEF FinishImport, ServingFresh, NumberedFits, StageFits, Places,
             WithoutCatalogue, Importing, Open, At, Serving, Sound, Made
  <1>7. CASE FailSwap \/ FailFinish
    <2>1. job'.phase = "undoing" /\ job'.backup = job.backup /\ plugins' = Missing /\ catalogue
      BY <1>7 DEF FailSwap, FailFinish, At, Places, WithoutCatalogue
    <2> QED
      BY <1>0, <1>7, <2>1
         DEF FailSwap, FailFinish, AckedNumbered, ServingFresh, NumberedFits,
             StageFits, Places, WithoutCatalogue, Importing, Open, At, Sound
  <1>8. CASE Undo
    <2>1. job.backup \in Dir /\ job.backup # Missing
      BY <1>0, <1>8, JobHolds, AbsentAssumption DEF Undo, TypeOK
    <2>2. Sound(job.backup) /\ catalogue
      BY <1>8 DEF Undo, Places, At, WithoutCatalogue
    <2>3. plugins' = job.backup /\ Made(plugins') = plugins'
      BY <1>8, <2>1 DEF Undo, Made
    <2> QED
      BY <1>0, <1>8, <2>2, <2>3
         DEF Undo, AckedNumbered, ServingFresh, NumberedFits, StageFits,
             Places, WithoutCatalogue, Importing, Open, At, Down, Sound
  <1>9. ASSUME NEW k \in Keys, NEW vs \in SUBSET Versions,
               NEW given \in [vs -> BodyIds], NEW deleted \in BOOLEAN,
               NEW submitted \in BOOLEAN, Create(k, given, deleted, submitted)
        PROVE  IInv'
    <2> DEFINE answered == ~deleted /\ (DOMAIN given = {} \/ submitted)
    <2>0. answered \in BOOLEAN
      OBVIOUS
    <2>1. /\ At("serving")
          /\ Number("plugin", meta.plugin, NewFile(k, given, deleted), answered)
      BY <1>9 DEF Create
    <2> HIDE DEF answered
    <2>2. meta.plugin \in Ids /\ meta.plugin < meta'.plugin
      <3>1. meta.plugin \in Ids
        BY <1>0, <2>1, NextNumber DEF Number
      <3>2. meta'.plugin = meta.plugin + 1
        BY <1>0, <2>1 DEF Number, TypeOK, Meta
      <3> QED
        BY <3>1, <3>2 DEF Ids
    <2>3. /\ NewFile(k, given, deleted) \in File
          /\ \A v \in Versions \ NewFile(k, given, deleted).inline :
                NewFile(k, given, deleted).ids[v] \notin Ids
      BY NewFileTyped
    <2>5. meta.plugin \notin FilesOf(acked)
      BY <2>2 DEF AckedNumbered, Ids
    <2> QED
      BY <2>0, <2>1, <2>2, <2>3, <2>5, Numbering
  <1>10. ASSUME NEW i \in Ids, NEW v \in Versions, AddVersion(i, v)
         PROVE  IInv'
    <2> DEFINE f == [plugins[i] EXCEPT !.ids[v] = meta.version]
    <2>1. At("serving") /\ Number("version", i, f, TRUE)
      BY <1>10 DEF AddVersion
    <2>2. plugins \in Dir /\ i \in FilesOf(plugins) /\ plugins[i].ids[v] = NoVersion
      BY <1>10 DEF AddVersion, At, Places, TypeOK, FilesOf
    <2>3. plugins[i] \in File /\ meta.version \in Ids /\ f \in File
      BY <1>0, <2>1, <2>2, FileTyped, NextNumber, PublishedTyped DEF Number, FilesOf
    <2>4. FreshFor(meta, plugins) /\ Sound(plugins)
      BY <2>1 DEF ServingFresh, Places, Open, At, Made
    <2>5. i < meta'.plugin
      <3>1. meta'.plugin = meta.plugin
        BY <1>0, <2>1 DEF Number, TypeOK, Meta
      <3> QED
        BY <2>2, <2>4, <3>1 DEF FreshFor
    <2>6. /\ f.key = plugins[i].key /\ f.deleted = plugins[i].deleted
          /\ f.inline = plugins[i].inline
          /\ \A w \in Versions : f.ids[w] = IF w = v THEN meta.version ELSE plugins[i].ids[w]
      BY <2>3 DEF File
    <2>7. \A w \in Versions \ f.inline : f.ids[w] \in Ids => f.ids[w] < meta'.version
      <3>1. meta'.version = meta.version + 1
        BY <1>0, <2>1 DEF Number, TypeOK, Meta
      <3>2. \A w \in Versions \ plugins[i].inline :
                plugins[i].ids[w] \in Ids => plugins[i].ids[w] < meta.version
        BY <2>2, <2>4 DEF FreshFor
      <3> HIDE DEF f
      <3> QED
        BY <2>3, <2>6, <3>1, <3>2 DEF Ids
    <2>8. Extends(f, plugins[i])
      <3> HIDE DEF f
      <3> QED
        BY <2>2, <2>3, <2>6, AbsentAssumption DEF Extends
    <2>9. i \in FilesOf(acked) => Extends(f, acked[i])
      <3>1. i \in FilesOf(acked) => Extends(plugins[i], acked[i])
        BY <2>2, <2>4 DEF Sound, SoundFor
      <3> HIDE DEF f
      <3> QED
        BY <2>8, <3>1, ExtendsOn
    <2> QED
      BY <2>1, <2>3, <2>5, <2>7, <2>9, Numbering
  <1>11. CASE WritePlugin
    <2>1. job.id \in Ids /\ job.file \in File
      BY <1>0, <1>11, JobHolds DEF WritePlugin, TypeOK
    <2>2. /\ job.id < meta.plugin
          /\ \A v \in Versions \ job.file.inline : job.file.ids[v] \in Ids => job.file.ids[v] < meta.version
          /\ job.id \in FilesOf(acked) => Extends(job.file, acked[job.id])
      BY <1>11 DEF WritePlugin, NumberedFits
    <2>3. plugins # Missing
      BY <1>11 DEF WritePlugin, Places, At
    <2> QED
      BY <1>0, <1>11, <2>1, <2>2, <2>3, Writing DEF WritePlugin
  <1>12. CASE FailWrite
    BY <1>0, <1>12
       DEF FailWrite, AckedNumbered, ServingFresh, NumberedFits, StageFits,
           Places, WithoutCatalogue, Importing, Open, At, Serving, Sound
  <1>13. ASSUME NEW i \in Ids, Delete(i) PROVE IInv'
    <2> DEFINE f == [plugins[i] EXCEPT !.deleted = TRUE]
    <2>1. plugins \in Dir /\ i \in FilesOf(plugins) /\ At("serving") /\ plugins # Missing
      BY <1>13 DEF Delete, At, Places, TypeOK, FilesOf
    <2>2. plugins[i] \in File
      BY <2>1, FileTyped
    <2>3. /\ f \in File /\ f.key = plugins[i].key /\ f.deleted = TRUE
          /\ f.ids = plugins[i].ids /\ f.inline = plugins[i].inline
      BY <2>2 DEF File
    <2>4. FreshFor(meta, plugins) /\ Sound(plugins)
      BY <2>1 DEF ServingFresh, Places, Open, At, Made
    <2>5. /\ i < meta.plugin
          /\ \A v \in Versions \ f.inline :
                f.ids[v] \in Ids => f.ids[v] < meta.version
      BY <2>1, <2>3, <2>4 DEF FreshFor
    <2>6. Extends(f, plugins[i])
      <3> HIDE DEF f
      <3> QED
        BY <2>3, AbsentAssumption DEF Extends
    <2>7. i \in FilesOf(acked) => Extends(f, acked[i])
      <3>1. i \in FilesOf(acked) => Extends(plugins[i], acked[i])
        BY <2>1, <2>4 DEF Sound, SoundFor
      <3> HIDE DEF f
      <3> QED
        BY <2>6, <3>1, ExtendsOn
    <2>8. plugins' = [plugins EXCEPT ![i] = f] /\ plugins'[i] = f
      BY <1>13, <2>1 DEF Delete, Dir
    <2>9. acked' = [acked EXCEPT ![i] = f] /\ job' = job /\ UNCHANGED <<catalogue, meta, backups>>
      BY <1>13, <2>8 DEF Delete
    <2>10. job' = Serving
      BY <1>0, <2>1, <2>9 DEF TypeOK, Job, At, Serving, Down, Starting
    <2> HIDE DEF f
    <2> QED
      BY <1>0, <2>1, <2>3, <2>5, <2>7, <2>8, <2>9, <2>10, Writing
  <1>14. CASE Stop
    BY <1>0, <1>14, Stopping
  <1>15. CASE UNCHANGED vars
    BY <1>0, <1>15
       DEF vars, AckedNumbered, ServingFresh, NumberedFits, StageFits, Places,
           WithoutCatalogue, Importing, Open, At, Sound
  <1>16. CASE FailMove
    <2>1. plugins = job.stage /\ Sound(job.stage) /\ catalogue
      BY <1>16 DEF FailMove, StageFits, Places, Importing, At, WithoutCatalogue
    <2>2. plugins # Missing /\ Made(plugins) = plugins
      BY <1>0, <1>16, <2>1, JobHolds, AbsentAssumption DEF FailMove, At, TypeOK, Made
    <2> QED
      BY <1>0, <1>16, <2>1, <2>2
         DEF FailMove, AckedNumbered, ServingFresh, NumberedFits, StageFits, Places,
             WithoutCatalogue, Importing, Open, At, Down, Sound, Made
  <1>17. CASE FailUndo
    <2>1. FilesOf(acked') = {} /\ catalogue
      BY <1>17, EmptyDirTyped DEF FailUndo, WithoutCatalogue, At
    <2> QED
      BY <1>0, <1>17, <2>1
         DEF FailUndo, AckedNumbered, ServingFresh, NumberedFits, StageFits, Places,
             WithoutCatalogue, Importing, Open, At, Down, Sound, SoundFor
  <1> QED
    BY <1>1, <1>2, <1>3, <1>4, <1>5, <1>6, <1>7, <1>8, <1>9, <1>10, <1>11,
       <1>12, <1>13, <1>14, <1>15, <1>16, <1>17 DEF Next, StartUp

-----------------------------------------------------------------------------
LEMMA Invariant == Spec => []IInv
  <1>1. IInv /\ [Next]_vars => IInv'
    BY Inductive
  <1> QED
    BY <1>1, Initially, PTL DEF Spec

(* Every file, counter and job is of its type (savePlugin, saveMeta and    *)
(* saveSeedSnapshot of file_repo.go).                                      *)
THEOREM TypeCorrect == Spec => []TypeOK
  <1>1. IInv => TypeOK
    BY DEF IInv
  <1> QED
    BY <1>1, Invariant, PTL

(* While it serves, the registry hands out no number a second time,        *)
(* whatever stops and failing writes came before (importSeedRegistry       *)
(* raises the counters; Create and AddVersion write them first).           *)
THEOREM NumbersAreFresh == Spec => []NumbersFresh
  <1>1. IInv => NumbersFresh
    BY DEF IInv, ServingFresh, NumbersFresh, FreshFor, AssignedIn, FilesOf
  <1> QED
    BY <1>1, Invariant, PTL

(* What was confirmed to a caller is at every instant in plugins/ or in a  *)
(* directory set aside by an import, so the process may end at any step of *)
(* saveSeedSnapshot without destroying it.  A rollback that fails starts   *)
(* the history of what was confirmed anew (FailUndo).                      *)
THEOREM AckedStaysIntact == Spec => []AckedIntact
  <1>1. IInv => AckedIntact
    <2> SUFFICES ASSUME IInv, NEW i \in FilesOf(acked)
                 PROVE  IF plugins # Missing /\ i \in FilesOf(plugins)
                        THEN Extends(plugins[i], acked[i])
                        ELSE \/ \E b \in backups : Extends(b[i], acked[i])
                             \/ job.phase \in {"aside", "swapped", "undoing"}
                                   /\ Extends(job.backup[i], acked[i])
      BY DEF AckedIntact
    <2> USE DEF IInv
    <2>1. CASE Open
      BY <2>1, EmptyDirTyped DEF Places, Made, Sound, SoundFor
    <2>2. CASE At("swapped")
      BY <2>2 DEF Places, StageFits, Importing, At, Sound, SoundFor
    <2>3. CASE job.phase \in {"aside", "undoing"}
      BY <2>3 DEF Places, Sound, SoundFor
    <2> QED
      BY <2>1, <2>2, <2>3, JobHolds DEF Open, At, TypeOK
  <1> QED
    BY <1>1, Invariant, PTL
=============================================================================
