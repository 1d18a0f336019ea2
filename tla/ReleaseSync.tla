---------------------------- MODULE ReleaseSync ----------------------------
(***************************************************************************)
(* The import of GitHub releases (api/handlers/github_sync.go) and its     *)
(* schedule (api/version_sync_job.go): the hourly runs of several          *)
(* instances behind a session advisory lock, the administrator's sync, the *)
(* author's rescan, the release webhook and the organisation sync, which   *)
(* also creates and renames plugins.  A job works on copies of plugins it  *)
(* read earlier and finds them again by reference, call by call, while     *)
(* plugins and versions change under it.  `told` and `lost` are history:   *)
(* how many version.published events were sent about a row, and which      *)
(* running instances have lost the connection that held the lock.          *)
(***************************************************************************)
EXTENDS Naturals, FiniteSets

CONSTANTS Instances,    \* processes of the registry, each with its schedule
          Requests,     \* requests in flight at once
          Plugins,      \* plugin ids, never reused
          Repos,        \* GitHub repositories
          FirstParty,   \* those on the allowlist of naming/firstparty.go
          OtherRefs,    \* references that are not a first-party name
          Tags,         \* release tags
          None,         \* no plugin, no holder
          MaxFaults,    \* bound: lost connections, timeouts, restarts, ...
          MaxEdits,     \* bound: writes of publishers and administrators
          MaxActive     \* bound: jobs under way at once

ASSUME SyncAssumption ==
    /\ FirstParty \subseteq Repos
    /\ None \notin Instances \cup Plugins \cup Tags
    /\ Instances \cap Requests = {}
    /\ MaxFaults \in Nat
    /\ MaxEdits \in Nat
    /\ MaxActive \in Nat

VARIABLES plugin,    \* the plugins table
          ver,       \* plugin_versions, by plugin and version string
          told,      \* events sent about a row
          release,   \* what GitHub has (external)
          job,       \* what each instance and each request is doing
          lock,      \* the instance whose session holds the advisory lock
          lost,      \* running instances whose locking connection is gone
          faults,
          edits

vars == <<plugin, ver, told, release, job, lock, lost, faults, edits>>

Jobs == Instances \cup Requests

(* The reference a first-party plugin has, and its former short one, which *)
(* stays an alias of it.                                                   *)
Canonical(r) == <<"@semrel", r>>
Legacy(r) == <<"short", r>>

Refs == OtherRefs \cup {Canonical(r) : r \in FirstParty}
                  \cup {Legacy(r) : r \in FirstParty}

Plugin == [ref : Refs, repo : Repos, live : BOOLEAN]
Copy == [id : Plugins, ref : Refs, repo : Repos]

Idle == [phase |-> "idle", kind |-> "all", repos |-> {}, todo |-> {},
         cur |-> None, fresh |-> FALSE, rels |-> {}, tag |-> None,
         target |-> None]

Job == [phase  : {"idle", "list", "lookup", "alias", "migrate", "create",
                  "fetch", "check", "resolve", "insert", "release"},
        kind   : {"all", "webhook", "org"},
        repos  : SUBSET FirstParty,      \* left for the organisation sync
        todo   : SUBSET Copy,            \* plugins left
        cur    : Copy \cup {None},       \* the plugin being worked on
        fresh  : BOOLEAN,                \* created or renamed by this job
        rels   : SUBSET Tags,            \* releases left to import
        tag    : Tags \cup {None},       \* the one being imported
        target : Plugins \cup {None}]    \* what its reference resolved to

ReleaseStates == {"draft", "source", "full"}
VersionStates == {"none", "listed", "deleted"}

TypeOK ==
    /\ plugin \in [Plugins -> Plugin \cup {None}]
    /\ ver \in [Plugins -> [Tags -> VersionStates]]
    /\ told \in [Plugins -> [Tags -> Nat]]
    /\ release \in [Repos -> [Tags -> ReleaseStates]]
    /\ job \in [Jobs -> Job]
    /\ lock \in Instances \cup {None}
    /\ lost \subseteq Instances
    /\ faults \in 0 .. MaxFaults
    /\ edits \in 0 .. MaxEdits

(* Ids are interchangeable: this one stands for all.                       *)
Eldest == CHOOSE p \in Plugins : TRUE

(* A registry older than the allowlist may have a first-party plugin under *)
(* its short reference, or somebody else's under that or another.          *)
Older(rec) ==
    /\ rec.live
    /\ IF rec.repo \in FirstParty THEN rec.ref = Legacy(rec.repo)
       ELSE \A r \in FirstParty : rec.ref # Canonical(r)

Init ==
    /\ \/ plugin = [p \in Plugins |-> None]
       \/ \E rec \in Plugin :
             /\ Older(rec)
             /\ plugin = [p \in Plugins |-> IF p = Eldest THEN rec ELSE None]
    /\ ver = [p \in Plugins |-> [t \in Tags |-> "none"]]
    /\ told = [p \in Plugins |-> [t \in Tags |-> 0]]
    /\ release = [r \in Repos |-> [t \in Tags |-> "draft"]]
    /\ job = [j \in Jobs |-> Idle]
    /\ lock = None
    /\ lost = {}
    /\ faults = 0
    /\ edits = 0

-----------------------------------------------------------------------------
(* The registry as the jobs see it                                         *)

(* normalizeFirstPartyPlugin: an allowlisted repository decides the        *)
(* reference, whatever was asked for.                                      *)
Normalized(ref, repo) ==
    [ref  |-> IF repo \in FirstParty THEN Canonical(repo) ELSE ref,
     repo |-> repo, live |-> TRUE]

(* Mutated form of Names: without the aliases of the canonical plugin.     *)
NamesBare(rec) == {rec.ref}

(* The references a plugin answers to: a normalised one keeps the short    *)
(* one as an alias.                                                        *)
Names(rec) ==
    {rec.ref} \cup {Legacy(r) : r \in {s \in FirstParty :
                                  s = rec.repo /\ rec.ref = Canonical(s)}}

Live(p) == plugin[p] # None /\ plugin[p].live

Owns(p, ref) == Live(p) /\ ref \in Names(plugin[p])

(* Nobody but p answers to a name of rec: PluginIdentity refuses the write *)
(* otherwise.                                                              *)
Available(rec, p) ==
    \A q \in Plugins \ {p} : Live(q) => Names(plugin[q]) \cap Names(rec) = {}

Unknown(ref) == \A p \in Plugins : ~Owns(p, ref)

CopyOf(p) == [id |-> p, ref |-> plugin[p].ref, repo |-> plugin[p].repo]

Running(i) == job[i].phase # "idle"

(* Where a job goes when it is done: a scheduled run gives the lock back.  *)
Done(j) == IF j \in Instances THEN [Idle EXCEPT !.phase = "release"] ELSE Idle

(* The next repository or plugin of a job, or its end.                     *)
GoOn(j, rec) ==
    LET clean == [rec EXCEPT !.cur = None, !.fresh = FALSE, !.rels = {},
                             !.tag = None, !.target = None]
    IN  IF rec.todo # {} THEN [clean EXCEPT !.phase = "fetch"]
        ELSE IF rec.repos # {} THEN [clean EXCEPT !.phase = "lookup"]
        ELSE Done(j)

(* The next release of the plugin at hand.                                 *)
NextRelease(j, rec) ==
    IF rec.rels = {} THEN GoOn(j, rec)
    ELSE [rec EXCEPT !.phase = "check", !.tag = None, !.target = None]

At(j, phase) == job[j].phase = phase

Becomes(j, rec) == job' = [job EXCEPT ![j] = rec]

Fault == faults < MaxFaults /\ faults' = faults + 1
Edit == edits < MaxEdits /\ edits' = edits + 1

(* A job begins.                                                           *)
Begins(j, rec) ==
    /\ At(j, "idle")
    /\ Cardinality({k \in Jobs : Running(k)}) < MaxActive
    /\ Becomes(j, rec)

registry == <<plugin, ver, told>>
schedule == <<lock, lost>>

-----------------------------------------------------------------------------
(* The schedule                                                            *)

(* Mutated form of Acquire: the run goes on without the lock.              *)
AcquireAnyway(i) ==
    /\ lock' = IF lock = None THEN i ELSE lock
    /\ Begins(i, [Idle EXCEPT !.phase = "list"])
    /\ UNCHANGED <<registry, release, lost, faults, edits>>

(* A tick of the schedule, or the run at start-up, that gets the lock.  A  *)
(* run that does not get it is no step.                                    *)
Acquire(i) ==
    /\ lock = None
    /\ lock' = i
    /\ Begins(i, [Idle EXCEPT !.phase = "list"])
    /\ UNCHANGED <<registry, release, lost, faults, edits>>

(* releaseVersionSyncLock: unlock and return the connection to the pool.   *)
Unlock(i) ==
    /\ At(i, "release")
    /\ lock = i
    /\ lock' = None
    /\ Becomes(i, Idle)
    /\ UNCHANGED <<registry, release, lost, faults, edits>>

(* Mutated form of Discard: the connection goes back to the pool as it is. *)
DiscardPooled(i) ==
    /\ At(i, "release")
    /\ Fault
    /\ lost' = lost \ {i}
    /\ Becomes(i, Idle)
    /\ UNCHANGED <<registry, release, lock, edits>>

(* The unlock fails, or says the lock was not held: the connection is      *)
(* closed, and a lock it still has goes with its session.                  *)
Discard(i) ==
    /\ At(i, "release")
    /\ IF i \in lost THEN UNCHANGED faults ELSE Fault
    /\ lock' = IF lock = i THEN None ELSE lock
    /\ lost' = lost \ {i}
    /\ Becomes(i, Idle)
    /\ UNCHANGED <<registry, release, edits>>

(* PostgreSQL ends the session of a running sync, which does not notice.   *)
LoseConnection(i) ==
    /\ Fault
    /\ lock = i
    /\ lock' = None
    /\ lost' = lost \cup {i}
    /\ UNCHANGED <<registry, release, job, edits>>

(* The run's 20 minutes, or a shutdown: every further call fails, and the  *)
(* run ends.                                                               *)
Timeout(i) ==
    /\ Fault
    /\ Running(i) /\ ~At(i, "release")
    /\ Becomes(i, Done(i))
    /\ UNCHANGED <<registry, release, schedule, edits>>

(* The process ends, and its sessions with it.                             *)
Restart(i) ==
    /\ Fault
    /\ Running(i)
    /\ lock' = IF lock = i THEN None ELSE lock
    /\ lost' = lost \ {i}
    /\ Becomes(i, Idle)
    /\ UNCHANGED <<registry, release, edits>>

-----------------------------------------------------------------------------
(* How jobs begin                                                          *)

(* SyncVersions, without a lock.                                           *)
StartAll(q) ==
    /\ Begins(q, [Idle EXCEPT !.phase = "list"])
    /\ UNCHANGED <<registry, release, schedule, faults, edits>>

(* RescanPluginVersions of a plugin it could read.                         *)
StartRescan(q, p) ==
    /\ Live(p)
    /\ Begins(q, [Idle EXCEPT !.phase = "fetch", !.todo = {CopyOf(p)}])
    /\ UNCHANGED <<registry, release, schedule, faults, edits>>

(* WebhookRelease names a repository; the plugin is looked up under its    *)
(* canonical reference and then under its aliases, and it is the stored    *)
(* repository that is asked for the release.                               *)
StartWebhook(q, r) ==
    /\ \E p \in Plugins :
          /\ \/ Owns(p, Canonical(r))
             \/ Unknown(Canonical(r)) /\ Owns(p, Legacy(r))
          /\ Begins(q, [Idle EXCEPT !.phase = "fetch", !.kind = "webhook",
                                     !.todo = {CopyOf(p)}])
    /\ UNCHANGED <<registry, release, schedule, faults, edits>>

(* SyncGitHubOrg, or a webhook from the meta-repository: fetchOrgRepos.    *)
(* Only allowlisted repositories are kept.                                 *)
StartOrg(q) ==
    /\ \E repos \in SUBSET FirstParty \ {{}} :
          Begins(q, [Idle EXCEPT !.phase = "lookup", !.kind = "org",
                                  !.repos = repos])
    /\ UNCHANGED <<registry, release, schedule, faults, edits>>

(* ListPlugins, all pages.                                                 *)
List(j) ==
    /\ At(j, "list")
    /\ Becomes(j, GoOn(j, [job[j] EXCEPT
                              !.todo = {CopyOf(p) : p \in {q \in Plugins : Live(q)}}]))
    /\ UNCHANGED <<registry, release, schedule, faults, edits>>

-----------------------------------------------------------------------------
(* The organisation sync, repository by repository                         *)

(* The canonical reference resolves: only a plugin with this very          *)
(* repository is synced.                                                   *)
Lookup(j, r) ==
    /\ At(j, "lookup")
    /\ r \in job[j].repos
    /\ LET rec == [job[j] EXCEPT !.repos = @ \ {r}]
       IN  \/ /\ Unknown(Canonical(r))
              /\ Becomes(j, [job[j] EXCEPT !.phase = "alias"])
           \/ \E p \in Plugins :
                 /\ Owns(p, Canonical(r))
                 /\ Becomes(j, IF plugin[p].repo = r
                               THEN [rec EXCEPT !.phase = "fetch",
                                                !.todo = {CopyOf(p)}]
                               ELSE GoOn(j, rec))
    /\ UNCHANGED <<registry, release, schedule, faults, edits>>

(* It does not: the aliases are tried, and a plugin with this repository   *)
(* is to be renamed.                                                       *)
LookupAlias(j, r) ==
    /\ At(j, "alias")
    /\ r \in job[j].repos
    /\ \/ \E p \in Plugins :
             /\ Owns(p, Legacy(r))
             /\ plugin[p].repo = r
             /\ Becomes(j, [job[j] EXCEPT !.phase = "migrate", !.cur = CopyOf(p)])
       \/ /\ \A p \in Plugins : Owns(p, Legacy(r)) => plugin[p].repo # r
          /\ Becomes(j, [job[j] EXCEPT !.phase = "create"])
    /\ UNCHANGED <<registry, release, schedule, faults, edits>>

(* A plugin the job has just written: its releases are next.               *)
Adopt(j, r, p, rec) ==
    /\ plugin' = [plugin EXCEPT ![p] = rec]
    /\ Becomes(j, [job[j] EXCEPT
                      !.phase = "fetch", !.repos = @ \ {r}, !.cur = None,
                      !.fresh = TRUE,
                      !.todo = {[id |-> p, ref |-> rec.ref, repo |-> rec.repo]}])

(* UpdatePlugin, which resolves the reference of the copy once more: the   *)
(* plugin it finds gets the canonical reference.                           *)
Migrate(j, r) ==
    /\ At(j, "migrate")
    /\ r \in job[j].repos
    /\ \E p \in Plugins :
          LET rec == Normalized(Canonical(r), plugin[p].repo)
          IN  /\ Owns(p, job[j].cur.ref)
              /\ Available(rec, p)
              /\ Adopt(j, r, p, rec)
    /\ UNCHANGED <<ver, told, release, schedule, faults, edits>>

(* What CreatePlugin makes of the plugin the sync discovered.              *)
OrgPlugin(r) == Normalized(Canonical(r), r)

OrgCreate(j, r) ==
    /\ At(j, "create")
    /\ r \in job[j].repos
    /\ \E p \in Plugins :
          /\ plugin[p] = None
          /\ Available(OrgPlugin(r), p)
          /\ Adopt(j, r, p, OrgPlugin(r))
    /\ UNCHANGED <<ver, told, release, schedule, faults, edits>>

(* The write is refused (a name is taken, the plugin is gone), or fails:   *)
(* the next repository.                                                    *)
OrgError(j, r) ==
    /\ At(j, "migrate") \/ At(j, "create")
    /\ r \in job[j].repos
    /\ Becomes(j, GoOn(j, [job[j] EXCEPT !.repos = @ \ {r}]))
    /\ UNCHANGED <<registry, release, schedule, faults, edits>>

-----------------------------------------------------------------------------
(* The releases of one plugin                                              *)

(* Releases that come to a version: drafts are passed over, and so is a    *)
(* release without a binary, which may get one later.                      *)
Importable(r, t) == release[r][t] = "full"

(* fetchGHReleases, or the one release of a webhook.                       *)
Fetched(j, c, tags) ==
    Becomes(j, NextRelease(j, [job[j] EXCEPT !.todo = @ \ {c}, !.cur = c,
                                             !.rels = tags]))

Fetch(j, c) ==
    /\ At(j, "fetch")
    /\ c \in job[j].todo
    /\ LET found == {t \in Tags : Importable(c.repo, t)}
       IN  IF job[j].kind = "webhook"
           THEN \E t \in found : Fetched(j, c, {t})
           ELSE Fetched(j, c, found)
    /\ UNCHANGED <<registry, release, schedule, faults, edits>>

(* An error of the request, or no such release: the next plugin.           *)
FetchFails(j, c) ==
    /\ At(j, "fetch")
    /\ c \in job[j].todo
    /\ IF job[j].kind = "webhook" THEN UNCHANGED faults ELSE Fault
    /\ Becomes(j, GoOn(j, [job[j] EXCEPT !.todo = @ \ {c}]))
    /\ UNCHANGED <<registry, release, schedule, edits>>

(* GitHub's rate limit ends the job, except where the organisation sync    *)
(* drops the error of a plugin it has just written.                        *)
FetchLimited(j, c) ==
    /\ At(j, "fetch")
    /\ c \in job[j].todo
    /\ Becomes(j, IF job[j].fresh THEN GoOn(j, [job[j] EXCEPT !.todo = {}])
                                  ELSE Done(j))
    /\ UNCHANGED <<registry, release, schedule, faults, edits>>

(* upsertVersion looks for the version in the plugin its reference means   *)
(* now; only listed ones are seen.  An unknown reference is an error, and  *)
(* the next release is next.                                               *)
Check(j, t) ==
    LET ref == job[j].cur.ref
        seen == \E p \in Plugins : Owns(p, ref) /\ ver[p][t] = "listed"
        rec == [job[j] EXCEPT !.rels = @ \ {t}]
    IN  /\ At(j, "check")
        /\ t \in job[j].rels
        /\ Becomes(j, IF Unknown(ref) \/ seen THEN NextRelease(j, rec)
                      ELSE [rec EXCEPT !.phase = "resolve", !.tag = t])
        /\ UNCHANGED <<registry, release, schedule, faults, edits>>

(* CreateVersion resolves the reference again...                           *)
Resolve(j) ==
    /\ At(j, "resolve")
    /\ \/ \E p \in Plugins :
             /\ Owns(p, job[j].cur.ref)
             /\ Becomes(j, [job[j] EXCEPT !.phase = "insert", !.target = p])
       \/ /\ Unknown(job[j].cur.ref)
          /\ Becomes(j, NextRelease(j, job[j]))
    /\ UNCHANGED <<registry, release, schedule, faults, edits>>

(* Mutated form of Insert: the row is written over what is there.          *)
InsertUpsert(j) ==
    LET p == job[j].target
        t == job[j].tag
    IN  /\ At(j, "insert")
        /\ ver' = [ver EXCEPT ![p][t] = "listed"]
        /\ told' = [told EXCEPT ![p][t] = @ + 1]
        /\ Becomes(j, NextRelease(j, job[j]))
        /\ UNCHANGED <<plugin, release, schedule, faults, edits>>

(* ... and inserts: any row with this version, a deleted one too, refuses  *)
(* it.  The event is sent by the job whose insert succeeded.               *)
Insert(j) ==
    LET p == job[j].target
        t == job[j].tag
        new == ver[p][t] = "none"
    IN  /\ At(j, "insert")
        /\ ver' = IF new THEN [ver EXCEPT ![p][t] = "listed"] ELSE ver
        /\ told' = IF new THEN [told EXCEPT ![p][t] = @ + 1] ELSE told
        /\ Becomes(j, NextRelease(j, job[j]))
        /\ UNCHANGED <<plugin, release, schedule, faults, edits>>

(* The row is there, but CreateVersion could not read it back: an error,   *)
(* and no event.                                                           *)
InsertUnread(j) ==
    LET p == job[j].target
        t == job[j].tag
    IN  /\ Fault
        /\ At(j, "insert")
        /\ ver[p][t] = "none"
        /\ ver' = [ver EXCEPT ![p][t] = "listed"]
        /\ Becomes(j, NextRelease(j, job[j]))
        /\ UNCHANGED <<plugin, told, release, schedule, edits>>

-----------------------------------------------------------------------------
(* The others: publishers and administrators, and GitHub                   *)

Create(p, ref, repo) ==
    LET rec == Normalized(ref, repo)
    IN  /\ plugin[p] = None
        /\ Available(rec, p)
        /\ plugin' = [plugin EXCEPT ![p] = rec]
        /\ UNCHANGED <<ver, told, release, job, schedule, faults>>
        /\ Edit

(* UpdatePlugin with another repository.                                   *)
Patch(p, repo) ==
    LET rec == Normalized(plugin[p].ref, repo)
    IN  /\ Live(p)
        /\ Available(rec, p)
        /\ plugin' = [plugin EXCEPT ![p] = rec]
        /\ UNCHANGED <<ver, told, release, job, schedule, faults>>
        /\ Edit

Delete(p) ==
    /\ Live(p)
    /\ plugin' = [plugin EXCEPT ![p].live = FALSE]
    /\ UNCHANGED <<ver, told, release, job, schedule, faults>>
    /\ Edit

Publish(p, t) ==
    /\ Live(p)
    /\ ver[p][t] = "none"
    /\ ver' = [ver EXCEPT ![p][t] = "listed"]
    /\ told' = [told EXCEPT ![p][t] = @ + 1]
    /\ UNCHANGED <<plugin, release, job, schedule, faults>>
    /\ Edit

DeleteVersion(p, t) ==
    /\ Live(p)
    /\ ver[p][t] = "listed"
    /\ ver' = [ver EXCEPT ![p][t] = "deleted"]
    /\ UNCHANGED <<plugin, told, release, job, schedule, faults>>
    /\ Edit

(* HardDeleteVersion finds listed versions only, and refuses the           *)
(* first-party plugins.                                                    *)
Purge(p, t) ==
    /\ Live(p)
    /\ plugin[p].repo \notin FirstParty
    /\ plugin[p].ref \notin {Canonical(r) : r \in FirstParty}
    /\ ver[p][t] = "listed"
    /\ ver' = [ver EXCEPT ![p][t] = "none"]
    /\ told' = [told EXCEPT ![p][t] = 0]
    /\ UNCHANGED <<plugin, release, job, schedule, faults>>
    /\ Edit

(* A release is published without or with binaries, or gets them.          *)
GitHub(r, t) ==
    /\ \/ release[r][t] = "draft" /\ release' = [release EXCEPT ![r][t] = "source"]
       \/ release[r][t] \in {"draft", "source"}
             /\ release' = [release EXCEPT ![r][t] = "full"]
    /\ UNCHANGED <<registry, job, schedule, faults, edits>>

-----------------------------------------------------------------------------
OrgStep(j, r) ==
    \/ Lookup(j, r)
    \/ LookupAlias(j, r)
    \/ Migrate(j, r)
    \/ OrgCreate(j, r)
    \/ OrgError(j, r)

ImportStep(j) ==
    \/ List(j)
    \/ \E t \in job[j].rels : Check(j, t)
    \/ Resolve(j)
    \/ Insert(j)

JobStep(j) ==
    \/ ImportStep(j)
    \/ InsertUnread(j)
    \/ \E c \in job[j].todo :
          Fetch(j, c) \/ FetchFails(j, c) \/ FetchLimited(j, c)

Schedule(i) ==
    \/ Acquire(i)
    \/ Unlock(i)
    \/ Discard(i)
    \/ LoseConnection(i)
    \/ Timeout(i)
    \/ Restart(i)

Begin(q) ==
    \/ StartAll(q)
    \/ \E p \in Plugins : StartRescan(q, p)
    \/ \E r \in FirstParty : StartWebhook(q, r)
    \/ StartOrg(q)
    \/ \E r \in FirstParty : OrgStep(q, r)

Others ==
    \/ \E p \in Plugins, ref \in Refs, repo \in Repos : Create(p, ref, repo)
    \/ \E p \in Plugins, repo \in Repos : Patch(p, repo)
    \/ \E p \in Plugins : Delete(p)
    \/ \E p \in Plugins, t \in Tags :
          Publish(p, t) \/ DeleteVersion(p, t) \/ Purge(p, t)
    \/ \E r \in Repos, t \in Tags : GitHub(r, t)

Next ==
    \/ \E j \in Jobs : JobStep(j)
    \/ \E i \in Instances : Schedule(i)
    \/ \E q \in Requests : Begin(q)
    \/ Others

(* The schedule ticks for ever on at least one instance, a run goes on,    *)
(* and GitHub, asked about a plugin again and again, does not answer every *)
(* time with its rate limit.                                               *)
Fairness ==
    /\ WF_vars(\E i \in Instances : Acquire(i))
    /\ \A i \in Instances :
          /\ WF_vars(ImportStep(i))
          /\ WF_vars(Unlock(i) \/ (i \in lost /\ Discard(i)))
          /\ \A p \in Plugins :
                SF_vars(\E c \in job[i].todo : c.id = p /\ Fetch(i, c))

Spec == Init /\ [][Next]_vars
FairSpec == Spec /\ Fairness

-----------------------------------------------------------------------------
(* However jobs of all kinds overlap, at most one version.published event  *)
(* is sent about a version row, and none about a row that is not there:    *)
(* only the job whose insert made the row announces it.                    *)
AnnouncedOnce ==
    \A p \in Plugins, t \in Tags :
        told[p][t] <= 1 /\ (ver[p][t] = "none" => told[p][t] = 0)

(* No sync brings back a version that was deleted, though its release is   *)
(* still on GitHub and upsertVersion does not see the deleted row.         *)
DeletedStaysDeleted ==
    [][\A p \in Plugins, t \in Tags :
          ver[p][t] = "deleted" => ver'[p][t] = "deleted"]_vars

(* Whatever fails between the lock and its release (the unlock, the        *)
(* connection, the run, the process), no session keeps the lock when the   *)
(* run that took it is over: the next tick would find it taken for ever.   *)
NoAbandonedLock == lock # None => Running(lock)

(* Two scheduled runs overlap only when one of them has lost the           *)
(* connection that held the lock.                                          *)
OneScheduledRun ==
    \A i, k \in Instances :
        i # k /\ Running(i) /\ Running(k) => i \in lost \/ k \in lost

(* Organisation syncs, creations, patches and renames that race never      *)
(* leave two live plugins for one first-party repository.                  *)
OnePluginPerRepository ==
    \A p, q \in Plugins :
        /\ Live(p) /\ Live(q)
        /\ plugin[p].repo = plugin[q].repo
        /\ plugin[p].repo \in FirstParty
        => p = q

(* A release that is listed and has a binary, with a checksum, becomes a   *)
(* version of its plugin in the end, whatever other runs, requests and a   *)
(* finite number of failures do in between, unless the plugin is deleted   *)
(* or moves to a repository without this release.                          *)
Published(p, t) == Live(p) /\ release[plugin[p].repo][t] = "full"

ReleaseImported ==
    \A p \in Plugins, t \in Tags :
        Published(p, t) ~> ver[p][t] # "none" \/ ~Published(p, t)
=============================================================================
