-------------------------- MODULE ReleaseSyncProofs --------------------------
(***************************************************************************)
(* Proofs about ReleaseSync, for any number of instances, requests,        *)
(* plugins, repositories and tags and any bounds.                          *)
(*                                                                         *)
(* Every action is looked at once, for what it does to each part of the    *)
(* state: the jobs, the schedule, the plugins and the versions.  The       *)
(* invariants then follow from these few effects.                          *)
(***************************************************************************)
EXTENDS ReleaseSync, TLAPS

(* Job j goes on; a scheduled run does not end by itself, it goes to the   *)
(* release of its lock.                                                    *)
Moves(j) ==
    \E rec \in Job :
        /\ job' = [job EXCEPT ![j] = rec]
        /\ j \in Instances => Running(j) /\ rec.phase # "idle"

StillRunning(k) == Running(k)' <=> Running(k)

(* What a step does to the lock and to the scheduled runs.                 *)
ScheduleEffect ==
    \/ UNCHANGED schedule /\ \A i \in Instances : StillRunning(i)
    \/ \E i \in Instances :
          /\ \A k \in Instances \ {i} : StillRunning(k)
          /\ \/ lock = None /\ lock' = i /\ lost' = lost /\ Running(i)'
             \/ /\ lock' = IF lock = i THEN None ELSE lock
                /\ lost' \in {lost, lost \ {i}}
                /\ ~Running(i)'
             \/ /\ lock = i /\ lock' = None /\ lost' = lost \cup {i}
                /\ StillRunning(i)

(* A record that normalizeFirstPartyPlugin has seen.                       *)
Normal(rec) == rec.repo \in FirstParty => rec.ref = Canonical(rec.repo)

(* What a step does to the plugins table.                                  *)
PluginEffect ==
    \/ UNCHANGED plugin
    \/ \E p \in Plugins, rec \in Plugin :
          /\ Normal(rec)
          /\ Available(rec, p)
          /\ plugin' = [plugin EXCEPT ![p] = rec]
    \/ \E p \in Plugins : Live(p) /\ plugin' = [plugin EXCEPT ![p].live = FALSE]

(* What a step does to the versions and their events.                      *)
VersionEffect ==
    \/ UNCHANGED <<ver, told>>
    \/ \E p \in Plugins, t \in Tags :
          \/ /\ ver[p][t] = "none"
             /\ ver' = [ver EXCEPT ![p][t] = "listed"]
             /\ told' \in {told, [told EXCEPT ![p][t] = @ + 1]}
          \/ /\ ver[p][t] = "listed"
             /\ ver' = [ver EXCEPT ![p][t] = "deleted"]
             /\ told' = told
          \/ /\ ver[p][t] = "listed"
             /\ ver' = [ver EXCEPT ![p][t] = "none"]
             /\ told' = [told EXCEPT ![p][t] = 0]

CountersTyped == faults' \in 0 .. MaxFaults /\ edits' \in 0 .. MaxEdits

-----------------------------------------------------------------------------
(* Typing of what the actions build                                        *)

LEMMA IdleTyped == Idle \in Job
BY DEF Idle, Job

LEMMA DoneTyped ==
    ASSUME NEW j \in Jobs
    PROVE  Done(j) \in Job /\ (j \in Instances => Done(j).phase # "idle")
BY DEF Done, Idle, Job

LEMMA GoOnTyped ==
    ASSUME NEW j \in Jobs, NEW rec \in Job
    PROVE  GoOn(j, rec) \in Job /\ (j \in Instances => GoOn(j, rec).phase # "idle")
<1> DEFINE clean == [rec EXCEPT !.cur = None, !.fresh = FALSE, !.rels = {},
                                !.tag = None, !.target = None]
<1>1. clean \in Job BY DEF Job
<1>2. /\ [clean EXCEPT !.phase = "fetch"] \in Job
      /\ [clean EXCEPT !.phase = "lookup"] \in Job
      /\ [clean EXCEPT !.phase = "fetch"].phase = "fetch"
      /\ [clean EXCEPT !.phase = "lookup"].phase = "lookup"
  BY <1>1 DEF Job
<1>3. GoOn(j, rec) \in {[clean EXCEPT !.phase = "fetch"],
                        [clean EXCEPT !.phase = "lookup"], Done(j)}
  BY DEF GoOn
<1> QED BY <1>2, <1>3, DoneTyped

LEMMA NextReleaseTyped ==
    ASSUME NEW j \in Jobs, NEW rec \in Job
    PROVE  /\ NextRelease(j, rec) \in Job
           /\ j \in Instances => NextRelease(j, rec).phase # "idle"
<1>1. /\ [rec EXCEPT !.phase = "check", !.tag = None, !.target = None] \in Job
      /\ [rec EXCEPT !.phase = "check", !.tag = None, !.target = None].phase = "check"
  BY DEF Job
<1> QED BY <1>1, GoOnTyped DEF NextRelease

LEMMA RefsTyped ==
    ASSUME NEW r \in FirstParty
    PROVE  Canonical(r) \in Refs /\ Legacy(r) \in Refs
BY DEF Refs

LEMMA NormalizedTyped ==
    ASSUME NEW ref \in Refs, NEW repo \in Repos
    PROVE  /\ Normalized(ref, repo) \in Plugin
           /\ Normal(Normalized(ref, repo))
BY RefsTyped DEF Normalized, Normal, Plugin

LEMMA LiveTyped ==
    ASSUME TypeOK, NEW p \in Plugins, Live(p)
    PROVE  plugin[p] \in Plugin /\ CopyOf(p) \in Copy
<1>1. plugin[p] \in Plugin BY DEF TypeOK, Live
<1> QED BY <1>1 DEF Plugin, Copy, CopyOf

LEMMA JobTyped ==
    ASSUME TypeOK, NEW j \in Jobs
    PROVE  job[j] \in Job
BY DEF TypeOK

(* A job that goes on leaves the schedule alone.                           *)
LEMMA MovesSchedule ==
    ASSUME TypeOK, NEW j \in Jobs, Moves(j), UNCHANGED schedule
    PROVE  job' \in [Jobs -> Job] /\ ScheduleEffect
<1>1. PICK rec \in Job : /\ job' = [job EXCEPT ![j] = rec]
                         /\ j \in Instances => Running(j) /\ rec.phase # "idle"
  BY DEF Moves
<1>2. job' \in [Jobs -> Job] BY <1>1 DEF TypeOK
<1>3. ASSUME NEW i \in Instances PROVE StillRunning(i)
  <2>1. i \in Jobs BY DEF Jobs
  <2>2. CASE i = j BY <1>1, <2>1, <2>2 DEF TypeOK, StillRunning, Running
  <2>3. CASE i # j BY <1>1, <2>1, <2>3 DEF TypeOK, StillRunning, Running
  <2> QED BY <2>2, <2>3
<1> QED BY <1>2, <1>3 DEF ScheduleEffect

-----------------------------------------------------------------------------
(* The effects, action by action                                           *)

Effects ==
    /\ job' \in [Jobs -> Job]
    /\ ScheduleEffect
    /\ PluginEffect
    /\ VersionEffect
    /\ release' \in [Repos -> [Tags -> ReleaseStates]]
    /\ CountersTyped

(* A job that reads, decides and changes nothing but its own state.        *)
LEMMA QuietEffects ==
    ASSUME TypeOK, NEW j \in Jobs, Moves(j),
           UNCHANGED <<registry, release, schedule, edits>>,
           faults' \in 0 .. MaxFaults
    PROVE  Effects
<1>1. job' \in [Jobs -> Job] /\ ScheduleEffect BY MovesSchedule
<1> QED BY <1>1 DEF Effects, PluginEffect, VersionEffect, CountersTyped, TypeOK, registry

LEMMA FaultTyped == TypeOK /\ Fault => faults' \in 0 .. MaxFaults
BY SyncAssumption DEF TypeOK, Fault

LEMMA EditTyped == TypeOK /\ Edit => edits' \in 0 .. MaxEdits
BY SyncAssumption DEF TypeOK, Edit

LEMMA ListEffects ==
    ASSUME TypeOK, NEW j \in Jobs, List(j) PROVE Effects
<1> DEFINE rec == [job[j] EXCEPT !.todo = {CopyOf(p) : p \in {q \in Plugins : Live(q)}}]
<1>1. {CopyOf(p) : p \in {q \in Plugins : Live(q)}} \in SUBSET Copy BY LiveTyped
<1>2. rec \in Job BY <1>1, JobTyped DEF Job
<1>3. job' = [job EXCEPT ![j] = GoOn(j, rec)] BY DEF List, Becomes
<1>4. Running(j) BY DEF List, At, Running
<1> HIDE DEF rec
<1>5. Moves(j) BY <1>2, <1>3, <1>4, GoOnTyped DEF Moves
<1> QED BY <1>5, QuietEffects DEF List, TypeOK

LEMMA LookupEffects ==
    ASSUME TypeOK, NEW j \in Jobs, NEW r \in FirstParty, Lookup(j, r) PROVE Effects
<1> DEFINE rec == [job[j] EXCEPT !.repos = @ \ {r}]
<1>1. rec \in Job /\ Running(j) BY JobTyped DEF Job, Lookup, At, Running
<1>2. ASSUME NEW p \in Plugins, Owns(p, Canonical(r))
      PROVE  [rec EXCEPT !.phase = "fetch", !.todo = {CopyOf(p)}] \in Job
  BY <1>1, <1>2, LiveTyped DEF Owns, Job
<1>3. [job[j] EXCEPT !.phase = "alias"] \in Job BY JobTyped DEF Job
<1>4. Moves(j)
  <2>1. CASE Becomes(j, [job[j] EXCEPT !.phase = "alias"])
    <3>1. [job[j] EXCEPT !.phase = "alias"].phase # "idle" BY JobTyped DEF Job
    <3> QED BY <1>1, <1>3, <2>1, <3>1 DEF Moves, Becomes
  <2>2. ASSUME NEW p \in Plugins, Owns(p, Canonical(r)),
               Becomes(j, IF plugin[p].repo = r
                          THEN [rec EXCEPT !.phase = "fetch", !.todo = {CopyOf(p)}]
                          ELSE GoOn(j, rec))
        PROVE  Moves(j)
    <3>1. [rec EXCEPT !.phase = "fetch", !.todo = {CopyOf(p)}].phase # "idle"
      BY <1>1 DEF Job
    <3>2. [rec EXCEPT !.phase = "fetch", !.todo = {CopyOf(p)}] \in Job BY <1>2, <2>2
    <3> HIDE DEF rec
    <3> QED BY <1>1, <2>2, <3>1, <3>2, GoOnTyped DEF Moves, Becomes
  <2> QED BY <2>1, <2>2 DEF Lookup
<1> QED BY <1>4, QuietEffects DEF Lookup, TypeOK

LEMMA LookupAliasEffects ==
    ASSUME TypeOK, NEW j \in Jobs, NEW r \in FirstParty, LookupAlias(j, r) PROVE Effects
<1>1. Running(j) BY DEF LookupAlias, At, Running
<1>2. ASSUME NEW p \in Plugins, Owns(p, Legacy(r))
      PROVE  /\ [job[j] EXCEPT !.phase = "migrate", !.cur = CopyOf(p)] \in Job
             /\ [job[j] EXCEPT !.phase = "migrate", !.cur = CopyOf(p)].phase # "idle"
  <2>1. CopyOf(p) \in Copy BY <1>2, LiveTyped DEF Owns
  <2> QED BY <2>1, JobTyped DEF Job
<1>3. /\ [job[j] EXCEPT !.phase = "create"] \in Job
      /\ [job[j] EXCEPT !.phase = "create"].phase # "idle"
  BY JobTyped DEF Job
<1>4. Moves(j) BY <1>1, <1>2, <1>3 DEF LookupAlias, Becomes, Moves
<1> QED BY <1>4, QuietEffects DEF LookupAlias, TypeOK

(* A plugin written by the organisation sync.                              *)
LEMMA AdoptEffects ==
    ASSUME TypeOK, NEW j \in Jobs, Running(j), NEW r \in FirstParty, NEW p \in Plugins,
           NEW rec \in Plugin, Normal(rec), Available(rec, p), Adopt(j, r, p, rec),
           UNCHANGED <<ver, told, release, schedule, faults, edits>>
    PROVE  Effects
<1> DEFINE copy == [id |-> p, ref |-> rec.ref, repo |-> rec.repo]
           new == [job[j] EXCEPT !.phase = "fetch", !.repos = @ \ {r}, !.cur = None,
                                 !.fresh = TRUE, !.todo = {copy}]
<1>1. copy \in Copy BY DEF Copy, Plugin
<1>2. new \in Job /\ new.phase # "idle" BY <1>1, JobTyped DEF Job
<1>3. job' = [job EXCEPT ![j] = new] BY DEF Adopt, Becomes
<1> HIDE DEF new
<1>4. Moves(j) BY <1>2, <1>3 DEF Moves
<1>5. job' \in [Jobs -> Job] /\ ScheduleEffect BY <1>4, MovesSchedule
<1>6. PluginEffect BY DEF PluginEffect, Adopt
<1> QED BY <1>5, <1>6 DEF Effects, VersionEffect, CountersTyped, TypeOK

LEMMA MigrateEffects ==
    ASSUME TypeOK, NEW j \in Jobs, NEW r \in FirstParty, Migrate(j, r) PROVE Effects
<1>1. PICK p \in Plugins :
          /\ Owns(p, job[j].cur.ref)
          /\ Available(Normalized(Canonical(r), plugin[p].repo), p)
          /\ Adopt(j, r, p, Normalized(Canonical(r), plugin[p].repo))
  BY DEF Migrate
<1>2. plugin[p].repo \in Repos BY <1>1, LiveTyped DEF Owns, Plugin
<1>3. Running(j) BY DEF Migrate, At, Running
<1> QED BY <1>1, <1>2, <1>3, RefsTyped, NormalizedTyped, AdoptEffects DEF Migrate

LEMMA OrgCreateEffects ==
    ASSUME TypeOK, NEW j \in Jobs, NEW r \in FirstParty, OrgCreate(j, r) PROVE Effects
<1>1. PICK p \in Plugins : Available(OrgPlugin(r), p) /\ Adopt(j, r, p, OrgPlugin(r))
  BY DEF OrgCreate
<1>2. OrgPlugin(r) \in Plugin /\ Normal(OrgPlugin(r))
  BY RefsTyped, NormalizedTyped, SyncAssumption DEF OrgPlugin
<1>3. Running(j) BY DEF OrgCreate, At, Running
<1> QED BY <1>1, <1>2, <1>3, AdoptEffects DEF OrgCreate

LEMMA OrgErrorEffects ==
    ASSUME TypeOK, NEW j \in Jobs, NEW r \in FirstParty, OrgError(j, r) PROVE Effects
<1> DEFINE rec == [job[j] EXCEPT !.repos = @ \ {r}]
<1>1. rec \in Job BY JobTyped DEF Job
<1>2. Running(j) BY DEF OrgError, At, Running
<1>3. job' = [job EXCEPT ![j] = GoOn(j, rec)] BY DEF OrgError, Becomes
<1> HIDE DEF rec
<1>4. Moves(j) BY <1>1, <1>2, <1>3, GoOnTyped DEF Moves
<1> QED BY <1>4, QuietEffects DEF OrgError, TypeOK

LEMMA FetchEffects ==
    ASSUME TypeOK, NEW j \in Jobs, NEW c \in job[j].todo, Fetch(j, c) PROVE Effects
<1>1. c \in Copy BY JobTyped DEF Job
<1>2. ASSUME NEW tags \in SUBSET Tags, Fetched(j, c, tags) PROVE Moves(j)
  <2> DEFINE rec == [job[j] EXCEPT !.todo = @ \ {c}, !.cur = c, !.rels = tags]
  <2>1. rec \in Job BY <1>1, JobTyped DEF Job
  <2>2. job' = [job EXCEPT ![j] = NextRelease(j, rec)] BY <1>2 DEF Fetched, Becomes
  <2>3. Running(j) BY DEF Fetch, At, Running
  <2> HIDE DEF rec
  <2> QED BY <2>1, <2>2, <2>3, NextReleaseTyped DEF Moves
<1>3. Moves(j) BY <1>2 DEF Fetch
<1> QED BY <1>3, QuietEffects DEF Fetch, TypeOK

LEMMA FetchFailsEffects ==
    ASSUME TypeOK, NEW j \in Jobs, NEW c \in job[j].todo, FetchFails(j, c) PROVE Effects
<1> DEFINE rec == [job[j] EXCEPT !.todo = @ \ {c}]
<1>1. rec \in Job BY JobTyped DEF Job
<1>2. Running(j) BY DEF FetchFails, At, Running
<1>3. job' = [job EXCEPT ![j] = GoOn(j, rec)] BY DEF FetchFails, Becomes
<1>4. faults' \in 0 .. MaxFaults BY FaultTyped DEF FetchFails, TypeOK
<1> HIDE DEF rec
<1>5. Moves(j) BY <1>1, <1>2, <1>3, GoOnTyped DEF Moves
<1> QED BY <1>4, <1>5, QuietEffects DEF FetchFails

LEMMA FetchLimitedEffects ==
    ASSUME TypeOK, NEW j \in Jobs, NEW c \in job[j].todo, FetchLimited(j, c) PROVE Effects
<1> DEFINE rec == [job[j] EXCEPT !.todo = {}]
<1>1. rec \in Job BY JobTyped DEF Job
<1>2. Running(j) BY DEF FetchLimited, At, Running
<1>3. job' = [job EXCEPT ![j] = IF job[j].fresh THEN GoOn(j, rec) ELSE Done(j)]
  BY DEF FetchLimited, Becomes
<1> HIDE DEF rec
<1>4. Moves(j) BY <1>1, <1>2, <1>3, GoOnTyped, DoneTyped DEF Moves
<1> QED BY <1>4, QuietEffects DEF FetchLimited, TypeOK

LEMMA CheckEffects ==
    ASSUME TypeOK, NEW j \in Jobs, NEW t \in job[j].rels, Check(j, t) PROVE Effects
<1> DEFINE rec == [job[j] EXCEPT !.rels = @ \ {t}]
           next == [rec EXCEPT !.phase = "resolve", !.tag = t]
<1>1. rec \in Job BY JobTyped DEF Job
<1>2. t \in Tags BY JobTyped DEF Job
<1>3. next \in Job /\ next.phase # "idle" BY <1>1, <1>2 DEF Job
<1>4. Running(j) BY DEF Check, At, Running
<1>5. \/ job' = [job EXCEPT ![j] = NextRelease(j, rec)]
      \/ job' = [job EXCEPT ![j] = next]
  BY DEF Check, Becomes
<1> HIDE DEF rec, next
<1>6. Moves(j) BY <1>1, <1>3, <1>4, <1>5, NextReleaseTyped DEF Moves
<1> QED BY <1>6, QuietEffects DEF Check, TypeOK

LEMMA ResolveEffects ==
    ASSUME TypeOK, NEW j \in Jobs, Resolve(j) PROVE Effects
<1>1. job[j] \in Job /\ Running(j) BY JobTyped DEF Resolve, At, Running
<1>2. ASSUME NEW p \in Plugins
      PROVE  /\ [job[j] EXCEPT !.phase = "insert", !.target = p] \in Job
             /\ [job[j] EXCEPT !.phase = "insert", !.target = p].phase # "idle"
  BY <1>1 DEF Job
<1>3. Moves(j) BY <1>1, <1>2, NextReleaseTyped DEF Resolve, Becomes, Moves
<1> QED BY <1>3, QuietEffects DEF Resolve, TypeOK

(* A row outside the table is nowhere.                                     *)
LEMMA OutOfDomain ==
    ASSUME NEW f, NEW A, NEW B, f \in [A -> B], NEW a, a \notin A, NEW b
    PROVE  [f EXCEPT ![a] = b] = f
OBVIOUS

LEMMA InsertEffects ==
    ASSUME TypeOK, NEW j \in Jobs, Insert(j) \/ InsertUnread(j) PROVE Effects
<1> DEFINE p == job[j].target
           t == job[j].tag
<1>1. job[j] \in Job /\ Running(j) BY JobTyped DEF Insert, InsertUnread, At, Running
<1>2. p \in Plugins \cup {None} /\ t \in Tags \cup {None} BY <1>1 DEF Job
<1>3. \/ ver' = ver /\ told' = told
      \/ /\ ver[p][t] = "none"
         /\ ver' = [ver EXCEPT ![p][t] = "listed"]
         /\ told' \in {told, [told EXCEPT ![p][t] = @ + 1]}
  <2>1. CASE Insert(j) /\ ver[p][t] = "none"
    <3>1. /\ ver' = [ver EXCEPT ![p][t] = "listed"]
          /\ told' = [told EXCEPT ![p][t] = @ + 1]
      BY <2>1 DEF Insert
    <3> QED BY <2>1, <3>1
  <2>2. CASE Insert(j) /\ ver[p][t] # "none"
    <3>1. ver' = ver /\ told' = told BY <2>2 DEF Insert
    <3> QED BY <3>1
  <2>3. CASE InsertUnread(j)
    <3>1. /\ ver[p][t] = "none"
          /\ ver' = [ver EXCEPT ![p][t] = "listed"]
          /\ told' = told
      BY <2>3 DEF InsertUnread
    <3> QED BY <3>1
  <2> QED BY <2>1, <2>2, <2>3
<1>4. /\ job' = [job EXCEPT ![j] = NextRelease(j, job[j])]
      /\ UNCHANGED <<plugin, release, schedule, edits>>
      /\ faults' = faults \/ Fault
  BY DEF Insert, InsertUnread, Becomes
<1> HIDE DEF p, t
<1>5. VersionEffect
  <2>1. CASE p \in Plugins /\ t \in Tags BY <1>3, <2>1 DEF VersionEffect
  <2>2. CASE p \notin Plugins
    <3>1. /\ [ver EXCEPT ![p][t] = "listed"] = ver
          /\ [told EXCEPT ![p][t] = @ + 1] = told
      BY <2>2, OutOfDomain DEF TypeOK
    <3> QED BY <1>3, <3>1 DEF VersionEffect
  <2>3. CASE p \in Plugins /\ t \notin Tags
    <3>1. ver[p] \in [Tags -> VersionStates] /\ told[p] \in [Tags -> Nat]
      BY <2>3 DEF TypeOK
    <3>2. /\ [ver[p] EXCEPT ![t] = "listed"] = ver[p]
          /\ [told[p] EXCEPT ![t] = @ + 1] = told[p]
      BY <2>3, <3>1, OutOfDomain
    <3>3. /\ [ver EXCEPT ![p] = ver[p]] = ver
          /\ [told EXCEPT ![p] = told[p]] = told
      BY DEF TypeOK
    <3>4. /\ [ver EXCEPT ![p][t] = "listed"] = ver
          /\ [told EXCEPT ![p][t] = @ + 1] = told
      BY <3>2, <3>3
    <3> QED BY <1>3, <3>4 DEF VersionEffect
  <2> QED BY <2>1, <2>2, <2>3
<1>6. Moves(j) BY <1>1, <1>4, NextReleaseTyped DEF Moves
<1>7. job' \in [Jobs -> Job] /\ ScheduleEffect BY <1>4, <1>6, MovesSchedule
<1>8. CountersTyped BY <1>4, FaultTyped DEF CountersTyped, TypeOK
<1> QED BY <1>4, <1>5, <1>7, <1>8 DEF Effects, PluginEffect, TypeOK

(* A request begins: no scheduled run is touched.                          *)
LEMMA BeginEffects ==
    ASSUME TypeOK, NEW q \in Requests, NEW rec \in Job, Begins(q, rec),
           UNCHANGED <<registry, release, schedule, faults, edits>>
    PROVE  Effects
<1>1. q \in Jobs /\ q \notin Instances BY SyncAssumption DEF Jobs
<1>2. Moves(q) BY <1>1 DEF Begins, Becomes, Moves
<1> QED BY <1>1, <1>2, QuietEffects DEF TypeOK

LEMMA StartEffects ==
    ASSUME TypeOK, NEW q \in Requests,
           \/ StartAll(q) \/ StartOrg(q)
           \/ \E p \in Plugins : StartRescan(q, p)
           \/ \E r \in FirstParty : StartWebhook(q, r)
    PROVE  Effects
<1>1. CASE StartAll(q)
  <2>1. [Idle EXCEPT !.phase = "list"] \in Job BY DEF Idle, Job
  <2> QED BY <1>1, <2>1, BeginEffects DEF StartAll
<1>2. CASE StartOrg(q)
  <2>1. PICK repos \in SUBSET FirstParty :
           Begins(q, [Idle EXCEPT !.phase = "lookup", !.kind = "org", !.repos = repos])
    BY <1>2 DEF StartOrg
  <2>2. [Idle EXCEPT !.phase = "lookup", !.kind = "org", !.repos = repos] \in Job
    BY DEF Idle, Job
  <2> QED BY <1>2, <2>1, <2>2, BeginEffects DEF StartOrg
<1>3. ASSUME NEW p \in Plugins, StartRescan(q, p) PROVE Effects
  <2>1. CopyOf(p) \in Copy BY <1>3, LiveTyped DEF StartRescan
  <2>2. [Idle EXCEPT !.phase = "fetch", !.todo = {CopyOf(p)}] \in Job
    BY <2>1 DEF Idle, Job
  <2> QED BY <1>3, <2>2, BeginEffects DEF StartRescan
<1>4. ASSUME NEW r \in FirstParty, StartWebhook(q, r) PROVE Effects
  <2>1. PICK p \in Plugins :
           /\ Live(p)
           /\ Begins(q, [Idle EXCEPT !.phase = "fetch", !.kind = "webhook",
                                     !.todo = {CopyOf(p)}])
    BY <1>4 DEF StartWebhook, Owns
  <2>2. CopyOf(p) \in Copy BY <2>1, LiveTyped
  <2>3. [Idle EXCEPT !.phase = "fetch", !.kind = "webhook", !.todo = {CopyOf(p)}] \in Job
    BY <2>2 DEF Idle, Job
  <2> QED BY <1>4, <2>1, <2>3, BeginEffects DEF StartWebhook
<1> QED BY <1>1, <1>2, <1>3, <1>4

(* One instance's record changes, and no other's.                          *)
LEMMA OneInstance ==
    ASSUME TypeOK, NEW i \in Instances, NEW rec \in Job, Becomes(i, rec)
    PROVE  /\ job' \in [Jobs -> Job]
           /\ Running(i)' <=> rec.phase # "idle"
           /\ \A k \in Instances \ {i} : StillRunning(k)
BY DEF TypeOK, Becomes, Jobs, Running, StillRunning

LEMMA ScheduleEffects ==
    ASSUME TypeOK, NEW i \in Instances, Schedule(i)
    PROVE  Effects
<1>1. CASE Acquire(i)
  <2>1. /\ [Idle EXCEPT !.phase = "list"] \in Job
        /\ [Idle EXCEPT !.phase = "list"].phase # "idle"
    BY DEF Idle, Job
  <2>2. /\ job' \in [Jobs -> Job]
        /\ Running(i)'
        /\ \A k \in Instances \ {i} : StillRunning(k)
    BY <1>1, <2>1, OneInstance DEF Acquire, Begins
  <2>3. ScheduleEffect BY <1>1, <2>2 DEF ScheduleEffect, Acquire
  <2> QED BY <1>1, <2>2, <2>3
      DEF Effects, Acquire, PluginEffect, VersionEffect, CountersTyped, TypeOK, registry
<1>2. CASE Unlock(i) \/ Discard(i) \/ Restart(i)
  <2>1. Idle.phase = "idle" BY DEF Idle
  <2>2. /\ job' \in [Jobs -> Job]
        /\ ~Running(i)'
        /\ \A k \in Instances \ {i} : StillRunning(k)
    BY <1>2, <2>1, IdleTyped, OneInstance DEF Unlock, Discard, Restart
  <2>3. /\ lock' = IF lock = i THEN None ELSE lock
        /\ lost' \in {lost, lost \ {i}}
    BY <1>2 DEF Unlock, Discard, Restart
  <2>4. ScheduleEffect BY <2>2, <2>3 DEF ScheduleEffect
  <2>5. faults' \in 0 .. MaxFaults
    BY <1>2, FaultTyped DEF Unlock, Discard, Restart, TypeOK
  <2>6. UNCHANGED <<registry, release, edits>> BY <1>2 DEF Unlock, Discard, Restart
  <2> QED BY <2>2, <2>4, <2>5, <2>6
      DEF Effects, PluginEffect, VersionEffect, CountersTyped, TypeOK, registry
<1>3. CASE LoseConnection(i)
  <2>1. ScheduleEffect
    BY <1>3 DEF ScheduleEffect, LoseConnection, StillRunning, Running
  <2>2. faults' \in 0 .. MaxFaults BY <1>3, FaultTyped DEF LoseConnection
  <2> QED BY <1>3, <2>1, <2>2
      DEF Effects, LoseConnection, PluginEffect, VersionEffect, CountersTyped, TypeOK, registry
<1>4. CASE Timeout(i)
  <2>1. i \in Jobs BY DEF Jobs
  <2>2. Moves(i) BY <1>4, <2>1, DoneTyped DEF Timeout, Becomes, Moves
  <2>3. faults' \in 0 .. MaxFaults BY <1>4, FaultTyped DEF Timeout
  <2> QED BY <1>4, <2>1, <2>2, <2>3, QuietEffects DEF Timeout
<1> QED BY <1>1, <1>2, <1>3, <1>4 DEF Schedule

(* What publishers, administrators and GitHub do touches no job.           *)
TableEffects ==
    /\ PluginEffect
    /\ VersionEffect
    /\ release' \in [Repos -> [Tags -> ReleaseStates]]
    /\ edits' \in 0 .. MaxEdits

LEMMA OthersTables ==
    ASSUME TypeOK, Others
    PROVE  TableEffects
<1> USE DEF TableEffects, PluginEffect, VersionEffect
<1>1. ASSUME NEW p \in Plugins, NEW ref \in Refs, NEW repo \in Repos, Create(p, ref, repo)
      PROVE  TableEffects
  <2>1. /\ Normalized(ref, repo) \in Plugin
        /\ Normal(Normalized(ref, repo))
        /\ Available(Normalized(ref, repo), p)
        /\ plugin' = [plugin EXCEPT ![p] = Normalized(ref, repo)]
    BY <1>1, NormalizedTyped DEF Create
  <2> QED BY <1>1, <2>1, EditTyped DEF Create, TypeOK
<1>2. ASSUME NEW p \in Plugins, NEW repo \in Repos, Patch(p, repo)
      PROVE  TableEffects
  <2>1. plugin[p].ref \in Refs BY <1>2, LiveTyped DEF Patch, Plugin
  <2>2. /\ Normalized(plugin[p].ref, repo) \in Plugin
        /\ Normal(Normalized(plugin[p].ref, repo))
        /\ Available(Normalized(plugin[p].ref, repo), p)
        /\ plugin' = [plugin EXCEPT ![p] = Normalized(plugin[p].ref, repo)]
    BY <1>2, <2>1, NormalizedTyped DEF Patch
  <2> QED BY <1>2, <2>2, EditTyped DEF Patch, TypeOK
<1>3. ASSUME NEW p \in Plugins, Delete(p) PROVE TableEffects
  BY <1>3, EditTyped DEF Delete, TypeOK
<1>4. ASSUME NEW p \in Plugins, NEW t \in Tags, Publish(p, t) PROVE TableEffects
  <2>1. /\ ver[p][t] = "none"
        /\ ver' = [ver EXCEPT ![p][t] = "listed"]
        /\ told' = [told EXCEPT ![p][t] = @ + 1]
    BY <1>4 DEF Publish
  <2>2. VersionEffect BY <2>1
  <2> QED BY <1>4, <2>2, EditTyped DEF Publish, TypeOK
<1>5. ASSUME NEW p \in Plugins, NEW t \in Tags, DeleteVersion(p, t) PROVE TableEffects
  <2>1. VersionEffect BY <1>5 DEF DeleteVersion
  <2> QED BY <1>5, <2>1, EditTyped DEF DeleteVersion, TypeOK
<1>6. ASSUME NEW p \in Plugins, NEW t \in Tags, Purge(p, t) PROVE TableEffects
  <2>1. VersionEffect BY <1>6 DEF Purge
  <2> QED BY <1>6, <2>1, EditTyped DEF Purge, TypeOK
<1>7. ASSUME NEW r \in Repos, NEW t \in Tags, GitHub(r, t) PROVE TableEffects
  <2> HIDE DEF TableEffects, PluginEffect, VersionEffect
  <2>1. "source" \in ReleaseStates /\ "full" \in ReleaseStates BY DEF ReleaseStates
  <2>2. PICK new \in ReleaseStates : release' = [release EXCEPT ![r][t] = new]
    BY <1>7, <2>1 DEF GitHub
  <2>3. release' \in [Repos -> [Tags -> ReleaseStates]] BY <2>2 DEF TypeOK
  <2> QED BY <1>7, <2>3
      DEF GitHub, TypeOK, registry, TableEffects, PluginEffect, VersionEffect
<1> QED BY <1>1, <1>2, <1>3, <1>4, <1>5, <1>6, <1>7 DEF Others

LEMMA OthersEffects ==
    ASSUME TypeOK, Others
    PROVE  Effects
<1>1. UNCHANGED <<job, schedule, faults>>
  BY DEF Others, Create, Patch, Delete, Publish, DeleteVersion, Purge, GitHub
<1>2. ScheduleEffect BY <1>1 DEF ScheduleEffect, StillRunning, Running
<1> QED BY <1>1, <1>2, OthersTables DEF Effects, TableEffects, CountersTyped, TypeOK

LEMMA StepEffects ==
    ASSUME TypeOK, [Next]_vars
    PROVE  Effects
<1>1. ASSUME NEW j \in Jobs, JobStep(j) PROVE Effects
  <2>1. ASSUME NEW t \in job[j].rels, Check(j, t) PROVE Effects
    BY <2>1, CheckEffects
  <2>2. ASSUME NEW c \in job[j].todo, Fetch(j, c) \/ FetchFails(j, c) \/ FetchLimited(j, c)
        PROVE  Effects
    BY <2>2, FetchEffects, FetchFailsEffects, FetchLimitedEffects
  <2> QED BY <1>1, <2>1, <2>2, ListEffects, ResolveEffects, InsertEffects
          DEF JobStep, ImportStep
<1>2. ASSUME NEW i \in Instances, Schedule(i) PROVE Effects
  BY <1>2, ScheduleEffects
<1>3. ASSUME NEW q \in Requests, Begin(q) PROVE Effects
  <2>1. q \in Jobs BY DEF Jobs
  <2>2. ASSUME NEW r \in FirstParty, OrgStep(q, r) PROVE Effects
    BY <2>1, <2>2, LookupEffects, LookupAliasEffects, MigrateEffects,
       OrgCreateEffects, OrgErrorEffects DEF OrgStep
  <2> QED BY <1>3, <2>2, StartEffects DEF Begin
<1>4. CASE UNCHANGED vars
  <2>1. ScheduleEffect BY <1>4 DEF vars, ScheduleEffect, StillRunning, Running, schedule
  <2> QED BY <1>4, <2>1
      DEF vars, Effects, PluginEffect, VersionEffect, CountersTyped, TypeOK
<1> QED BY <1>1, <1>2, <1>3, <1>4, OthersEffects DEF Next

-----------------------------------------------------------------------------
(* The inductive invariant                                                 *)

(* A scheduled run holds the lock, or has lost the connection that did.    *)
RunHoldsLock == \A i \in Instances : Running(i) => i = lock \/ i \in lost

(* Live plugins share no name, and one with an allowlisted repository      *)
(* answers to the short reference of that repository.                      *)
NamesDisjoint ==
    \A p, q \in Plugins :
        p # q /\ Live(p) /\ Live(q) => Names(plugin[p]) \cap Names(plugin[q]) = {}

ShortNameKept ==
    \A p \in Plugins :
        Live(p) /\ plugin[p].repo \in FirstParty
            => Legacy(plugin[p].repo) \in Names(plugin[p])

LEMMA InitTyped == Init => TypeOK
<1> SUFFICES ASSUME Init PROVE TypeOK OBVIOUS
<1>1. plugin \in [Plugins -> Plugin \cup {None}]
  <2>1. ASSUME NEW rec \in Plugin,
               plugin = [p \in Plugins |-> IF p = Eldest THEN rec ELSE None]
        PROVE  plugin \in [Plugins -> Plugin \cup {None}]
    BY <2>1
  <2> QED BY <2>1 DEF Init
<1>2. /\ ver \in [Plugins -> [Tags -> VersionStates]]
      /\ told \in [Plugins -> [Tags -> Nat]]
      /\ release \in [Repos -> [Tags -> ReleaseStates]]
  BY DEF Init, VersionStates, ReleaseStates
<1>3. job \in [Jobs -> Job] BY IdleTyped DEF Init
<1>4. lock \in Instances \cup {None} /\ lost \subseteq Instances
  BY DEF Init
<1>5. faults \in 0 .. MaxFaults /\ edits \in 0 .. MaxEdits
  BY SyncAssumption DEF Init
<1> QED BY <1>1, <1>2, <1>3, <1>4, <1>5 DEF TypeOK

LEMMA StepTyped ==
    ASSUME TypeOK, Effects
    PROVE  TypeOK'
<1>1. plugin' \in [Plugins -> Plugin \cup {None}]
  <2>1. ASSUME NEW p \in Plugins, Live(p), plugin' = [plugin EXCEPT ![p].live = FALSE]
        PROVE  plugin' \in [Plugins -> Plugin \cup {None}]
    <3>1. [plugin[p] EXCEPT !.live = FALSE] \in Plugin BY <2>1, LiveTyped DEF Plugin
    <3>2. plugin' = [plugin EXCEPT ![p] = [plugin[p] EXCEPT !.live = FALSE]] BY <2>1
    <3> QED BY <3>1, <3>2 DEF TypeOK
  <2> QED BY <2>1 DEF Effects, PluginEffect, TypeOK
<1>2. ver' \in [Plugins -> [Tags -> VersionStates]]
  <2>1. ASSUME NEW p \in Plugins, NEW t \in Tags, NEW s \in VersionStates,
               ver' = [ver EXCEPT ![p][t] = s]
        PROVE  ver' \in [Plugins -> [Tags -> VersionStates]]
    BY <2>1 DEF TypeOK
  <2>2. CASE ver' = ver BY <2>2 DEF TypeOK
  <2>3. "listed" \in VersionStates /\ "deleted" \in VersionStates /\ "none" \in VersionStates
    BY DEF VersionStates
  <2> QED BY <2>1, <2>2, <2>3 DEF Effects, VersionEffect
<1>3. told' \in [Plugins -> [Tags -> Nat]]
  <2>1. ASSUME NEW p \in Plugins, NEW t \in Tags, told' = [told EXCEPT ![p][t] = @ + 1]
        PROVE  told' \in [Plugins -> [Tags -> Nat]]
    BY <2>1 DEF TypeOK
  <2>2. ASSUME NEW p \in Plugins, NEW t \in Tags, told' = [told EXCEPT ![p][t] = 0]
        PROVE  told' \in [Plugins -> [Tags -> Nat]]
    BY <2>2 DEF TypeOK
  <2>3. CASE told' = told BY <2>3 DEF TypeOK
  <2> QED BY <2>1, <2>2, <2>3 DEF Effects, VersionEffect
<1>4. lock' \in Instances \cup {None} /\ lost' \subseteq Instances
  BY DEF Effects, ScheduleEffect, schedule, TypeOK
<1> QED BY <1>1, <1>2, <1>3, <1>4 DEF Effects, CountersTyped, TypeOK

(* The lock: one of the four effects on the schedule.                      *)
LEMMA StepLock ==
    ASSUME TypeOK, RunHoldsLock, NoAbandonedLock, Effects
    PROVE  RunHoldsLock' /\ NoAbandonedLock'
<1> USE DEF RunHoldsLock, NoAbandonedLock, StillRunning
<1>1. CASE UNCHANGED schedule /\ \A i \in Instances : StillRunning(i)
  BY <1>1 DEF schedule, TypeOK
<1>2. ASSUME NEW i \in Instances, \A k \in Instances \ {i} : StillRunning(k),
             lock = None, lock' = i, lost' = lost, Running(i)'
      PROVE  RunHoldsLock' /\ NoAbandonedLock'
  BY <1>2, SyncAssumption
<1>3. ASSUME NEW i \in Instances, \A k \in Instances \ {i} : StillRunning(k),
             lock' = (IF lock = i THEN None ELSE lock),
             lost' \in {lost, lost \ {i}}, ~Running(i)'
      PROVE  RunHoldsLock' /\ NoAbandonedLock'
  BY <1>3, SyncAssumption DEF TypeOK
<1>4. ASSUME NEW i \in Instances, \A k \in Instances \ {i} : StillRunning(k),
             lock = i, lock' = None, lost' = lost \cup {i}, StillRunning(i)
      PROVE  RunHoldsLock' /\ NoAbandonedLock'
  BY <1>4, SyncAssumption
<1> QED BY <1>1, <1>2, <1>3, <1>4 DEF Effects, ScheduleEffect

LEMMA StepAnnounced ==
    ASSUME TypeOK, AnnouncedOnce, Effects
    PROVE  AnnouncedOnce'
<1>1. SUFFICES ASSUME NEW q \in Plugins, NEW u \in Tags
               PROVE  told'[q][u] <= 1 /\ (ver'[q][u] = "none" => told'[q][u] = 0)
  BY DEF AnnouncedOnce
<1>2. told[q][u] <= 1 /\ (ver[q][u] = "none" => told[q][u] = 0) /\ told[q][u] \in Nat
  BY DEF AnnouncedOnce, TypeOK
<1>3. CASE UNCHANGED <<ver, told>> BY <1>2, <1>3
<1>4. ASSUME NEW p \in Plugins, NEW t \in Tags,
             \/ /\ ver[p][t] = "none"
                /\ ver' = [ver EXCEPT ![p][t] = "listed"]
                /\ told' \in {told, [told EXCEPT ![p][t] = @ + 1]}
             \/ /\ ver[p][t] = "listed"
                /\ ver' = [ver EXCEPT ![p][t] = "deleted"]
                /\ told' = told
             \/ /\ ver[p][t] = "listed"
                /\ ver' = [ver EXCEPT ![p][t] = "none"]
                /\ told' = [told EXCEPT ![p][t] = 0]
      PROVE  told'[q][u] <= 1 /\ (ver'[q][u] = "none" => told'[q][u] = 0)
  <2>1. CASE q = p /\ u = t BY <1>2, <1>4, <2>1 DEF TypeOK
  <2>2. CASE ~(q = p /\ u = t) BY <1>2, <1>4, <2>2 DEF TypeOK
  <2> QED BY <2>1, <2>2
<1> QED BY <1>3, <1>4 DEF Effects, VersionEffect

LEMMA StepDeleted ==
    ASSUME TypeOK, Effects, NEW q \in Plugins, NEW u \in Tags, ver[q][u] = "deleted"
    PROVE  ver'[q][u] = "deleted"
<1>1. CASE UNCHANGED <<ver, told>> BY <1>1
<1>2. ASSUME NEW p \in Plugins, NEW t \in Tags, NEW s, ver[p][t] # "deleted",
             ver' = [ver EXCEPT ![p][t] = s]
      PROVE  ver'[q][u] = "deleted"
  BY <1>2 DEF TypeOK
<1> QED BY <1>1, <1>2 DEF Effects, VersionEffect

(* Names: a new record is normalised and nobody else answers to its names. *)
LEMMA StepNames ==
    ASSUME TypeOK, NamesDisjoint, ShortNameKept, Effects
    PROVE  NamesDisjoint' /\ ShortNameKept'
<1>1. CASE UNCHANGED plugin BY <1>1 DEF NamesDisjoint, ShortNameKept, Live, Names
<1>2. ASSUME NEW p \in Plugins, NEW rec \in Plugin, Normal(rec), Available(rec, p),
             plugin' = [plugin EXCEPT ![p] = rec]
      PROVE  NamesDisjoint' /\ ShortNameKept'
  <2>1. plugin'[p] = rec /\ \A q \in Plugins \ {p} : plugin'[q] = plugin[q]
    BY <1>2 DEF TypeOK
  <2>2. rec.repo \in FirstParty => Legacy(rec.repo) \in Names(rec)
    BY <1>2 DEF Normal, Names
  <2>3. ShortNameKept' BY <2>1, <2>2 DEF ShortNameKept, Live, Names
  <2>4. ASSUME NEW q \in Plugins \ {p}, Live(q)'
        PROVE  Names(plugin[q]) \cap Names(rec) = {}
    BY <1>2, <2>1, <2>4 DEF Available, Live
  <2>5. NamesDisjoint'
    <3>1. SUFFICES ASSUME NEW a \in Plugins, NEW b \in Plugins, a # b, Live(a)', Live(b)'
                   PROVE  Names(plugin'[a]) \cap Names(plugin'[b]) = {}
      BY DEF NamesDisjoint, Names
    <3>2. CASE a = p BY <2>1, <2>4, <3>1, <3>2
    <3>3. CASE b = p BY <2>1, <2>4, <3>1, <3>3
    <3>4. CASE a # p /\ b # p BY <2>1, <3>1, <3>4 DEF NamesDisjoint, Live
    <3> QED BY <3>2, <3>3, <3>4
  <2> QED BY <2>3, <2>5
<1>3. ASSUME NEW p \in Plugins, Live(p), plugin' = [plugin EXCEPT ![p].live = FALSE]
      PROVE  NamesDisjoint' /\ ShortNameKept'
  <2>1. plugin[p] \in Plugin BY <1>3, LiveTyped
  <2>2. ~Live(p)' /\ \A q \in Plugins \ {p} : plugin'[q] = plugin[q]
    BY <1>3, <2>1 DEF TypeOK, Live, Plugin
  <2> QED BY <2>2 DEF NamesDisjoint, ShortNameKept, Live, Names
<1> QED BY <1>1, <1>2, <1>3 DEF Effects, PluginEffect

IInv ==
    /\ TypeOK
    /\ AnnouncedOnce
    /\ RunHoldsLock
    /\ NoAbandonedLock
    /\ NamesDisjoint
    /\ ShortNameKept

LEMMA InitInv == Init => IInv
<1> SUFFICES ASSUME Init PROVE IInv OBVIOUS
<1>1. AnnouncedOnce BY DEF Init, AnnouncedOnce
<1>2. RunHoldsLock /\ NoAbandonedLock
  BY DEF Init, RunHoldsLock, NoAbandonedLock, Running, Idle, Jobs
<1>3. NamesDisjoint /\ ShortNameKept
  <2>1. CASE plugin = [p \in Plugins |-> None]
    BY <2>1 DEF NamesDisjoint, ShortNameKept, Live
  <2>2. ASSUME NEW rec \in Plugin, Older(rec),
               plugin = [p \in Plugins |-> IF p = Eldest THEN rec ELSE None]
        PROVE  NamesDisjoint /\ ShortNameKept
    <3>1. \A p \in Plugins : Live(p) => p = Eldest /\ plugin[p] = rec
      BY <2>2 DEF Live
    <3>2. NamesDisjoint BY <3>1 DEF NamesDisjoint
    <3>3. ShortNameKept BY <2>2, <3>1 DEF ShortNameKept, Names, Older
    <3> QED BY <3>2, <3>3
  <2> QED BY <2>1, <2>2 DEF Init
<1> QED BY <1>1, <1>2, <1>3, InitTyped DEF IInv

LEMMA StepInv == IInv /\ [Next]_vars => IInv'
<1> SUFFICES ASSUME IInv, [Next]_vars PROVE IInv' OBVIOUS
<1>1. Effects BY StepEffects DEF IInv
<1> QED BY <1>1, StepTyped, StepLock, StepAnnounced, StepNames DEF IInv

LEMMA InvHolds == Spec => []IInv
BY InitInv, StepInv, PTL DEF Spec

-----------------------------------------------------------------------------
(* Every variable keeps its type.                                          *)
THEOREM TypeCorrect == Spec => []TypeOK
<1>1. IInv => TypeOK BY DEF IInv
<1> QED BY <1>1, InvHolds, PTL

(* However jobs overlap, a version row is announced at most once, and only *)
(* the insert that made it announces it (upsertVersion).                   *)
THEOREM RowsAnnouncedOnce == Spec => []AnnouncedOnce
<1>1. IInv => AnnouncedOnce BY DEF IInv
<1> QED BY <1>1, InvHolds, PTL

(* No session keeps the advisory lock when the run that took it is over    *)
(* (releaseVersionSyncLock).                                               *)
THEOREM LockNeverAbandoned == Spec => []NoAbandonedLock
<1>1. IInv => NoAbandonedLock BY DEF IInv
<1> QED BY <1>1, InvHolds, PTL

(* Two scheduled runs overlap only when one has lost its connection.       *)
THEOREM ScheduledRunsExclusive == Spec => []OneScheduledRun
<1>1. IInv => OneScheduledRun BY DEF IInv, RunHoldsLock, OneScheduledRun
<1> QED BY <1>1, InvHolds, PTL

(* Racing organisation syncs, creations, patches and renames leave one     *)
(* live plugin for a first-party repository (normalizeFirstPartyPlugin and *)
(* the identity claims).                                                   *)
THEOREM RepositoriesNotShared == Spec => []OnePluginPerRepository
<1>1. IInv => OnePluginPerRepository
  BY DEF IInv, NamesDisjoint, ShortNameKept, OnePluginPerRepository
<1> QED BY <1>1, InvHolds, PTL

(* No sync brings a deleted version back.                                  *)
THEOREM DeletedNotImported == Spec => DeletedStaysDeleted
<1>1. TypeOK /\ [Next]_vars =>
         [\A p \in Plugins, t \in Tags :
             ver[p][t] = "deleted" => ver'[p][t] = "deleted"]_vars
  BY StepEffects, StepDeleted
<1> QED BY <1>1, TypeCorrect, PTL DEF Spec, DeletedStaysDeleted
=============================================================================
