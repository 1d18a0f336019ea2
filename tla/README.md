# semrel-registry in TLA+

Models of the semrel plugin registry (`src/api`, Go), checked with TLC and, for
the parts that matter most, proved with TLAPS. `PROJECT.json` maps every
definition to the lines it stands for and lists runs, mutants, hazards and
theorems. This file is the guide.

## The system

One HTTP process (Gin) over one of two backends: PostgreSQL, or a directory of
JSON files for small installations. Handlers authorise and validate, the
service layer (`service/`) reads, checks and then calls the repository
(`repository/`), which is where atomicity lives: one transaction per write on
PostgreSQL (plugin writes behind one advisory lock), one critical section of a
mutex per call on the file backend. *Nothing is held between the read a check
was made on and the write.* Several handlers start goroutines that go on
after the response and write later.

| component | state | operations | what makes it correct |
|---|---|---|---|
| identity | `plugins` names, `plugin_aliases`, `plugin_identity_claims` | create, update, delete, import; triggers | claims are exactly the live references; a reference means one plugin |
| versions | `plugin_versions`, purge audits, id sequence | publish, delete, yank, purge, provenance, cascade, import | one row per version string; deletion is final; a late write hits what was meant |
| submission and accounts | plugin records, contact addresses, mails, `account_deletions` | submit, review, patch, delete, delete account | reviews are not undone; deleted records stay; personal data goes |
| consumer webhooks | `webhook_subscriptions` | subscribe, delete, fan out, deliver, record | failing endpoints are retired; limits; subscribers are told |
| advisories | `security_advisories` per plugin | background and on-demand refresh | every advisory announced, once |
| file store | `meta.json`, one file per plugin, snapshots | temp file and rename, seed snapshot | a crash leaves a readable state |
| release sync | none of its own; a session advisory lock | scheduled, requested and webhook-driven import of releases; organisation sync | a version announced once; one instance at a time; no lock left behind; no release missed |
| version order | the order in which versions are kept | semver precedence, ranges, latest | semver's order; ranges as documented; backends agree on the latest |
| metrics | a queue and a buffer, a window table | ask the window, record, flush, close | no event counted twice or lost unaccounted |
| rate limiter | a table of buckets | take a token, evict | bounded memory, bounded rate |
| authentication | signed tokens, a revocation list per process, `registry_users` | sign in, sign out, step up, delete account | what was signed out stays out; step-up by the same account |
| views, configuration, front end | none | render, serve | – |

Components meet in the service layer: the sync and the import issue the same
writes as publishers; a deletion of an account is a sequence of plugin
deletions; publishing starts a provenance lookup, an advisory refresh and
webhook events.

Hard behaviours: check-then-write across requests; references resolved twice;
background writes that return late; soft-deleted rows that still hold unique
keys; trigger-maintained claims; multi-call operations that stop half-way;
unordered deliveries; jobs that work on copies for minutes; locks held by a
connection; tables that evict under load; restarts that lose everything in memory.

## Modules

| module | models |
|---|---|
| `RefDirectory` | abstract: who owns a reference |
| `PluginIdentity` | tables, unique indexes and triggers; implements `RefDirectory` |
| `VersionCatalog` | abstract: absent, listed, yanked, withdrawn, and the states a version may be born in |
| `VersionLifecycle` | version rows under concurrent requests; implements `VersionCatalog` |
| `SubmissionReview` | submission, review, patch, deletion, account deletion, call by call |
| `WebhookDelivery` | subscriptions, fan-out, bookkeeping |
| `AdvisoryRefresh` | overlapping refreshes |
| `FileStore` | the file backend's files, stops between writes, the catalogue import |
| `ReleaseSync` | the jobs that import releases, their schedule and lock, the organisation sync |
| `DownloadWindow`, `Metrics`, `Downloads` | the duplicate window, the recorders, and the requests that compose them |
| `RateLimiter` | token buckets, eviction |
| `Sessions` | sign-in, tokens, revocation, step-up |
| `Semver` | precedence, ranges, compatibility, affected versions: operators, no state |
| `VersionOrder` | the sort orders of both backends, the latest version |
| `…Proofs` | theorems about the modules they extend: `NotifyProofs` about webhooks, advisories, `Semver` and `VersionOrder`, `TrafficProofs` about downloads and the limiter, the others about the module they are named for |
| `MC…` | instances for TLC |

### PluginIdentity

`rows` is `plugins` joined with `plugin_aliases` (soft-deleted rows included),
`claims` the claims table. Every write takes the plugin-write lock and is one
transaction, so an operation is one step, refused operations are no step, and
inside a step the triggers run statement by statement: `Released` is
`refresh_plugin_identity_claim`, `Claimable`/`Claimed` is
`claim_plugin_identity` (its RAISE is the guard). `Lower` separates the
spelling that unique indexes compare from the lower-case form claims compare.
The catalogue import is `Create` or `SeedExisting`.

### VersionLifecycle

A request is two steps: an `Ask…` action is the handler and service up to the
last check and records in `req[r]` what was read; the write action looks at
what the SQL or the critical section looks at, no more. `GiveUp` is a request
that ends without its write. `Backend` selects the differences: only the file
backend's writes look at the plugin (`PluginAccepts`), only PostgreSQL purges,
and the file backend's consent check also counts soft-deleted versions
(`HasVersions`). A publish goes on as the provenance lookup it starts.
`NewRow` is where the backends differ most: a request's body is bound to the whole
`PluginVersion`, and the file backend stores the provenance, `yankedAt` and
`deletedAt` it has (`Marks`), while PostgreSQL's INSERT names its columns
(`Unmarked`). So `Born`, the states in which the abstract catalogue lets a version
start, is `listed` on PostgreSQL and any of the three on the file backend.
Plugins are live and without versions at first; versions that come with a creation are
in `FileStore`. `SeedVersion` is the catalogue import of one version. On the file backend it is
that of the one process, while no request or lookup is under way (`ImportAlone`: `main`
imports before it listens); on PostgreSQL another instance may start, and import,
between any two steps. `ReverifyProvenance` is no request here: it never gets
past its own reading (see Observations).

### SubmissionReview

One step per repository call, because account deletion and submission make several.
`Updated` is the effect of a PATCH that writes back the record it read. `backend` is chosen
once, in `Init`: PostgreSQL writes a contact address to live rows only, the file backend to
any plugin it has a file for (`ContactWritable`). A submission whose body has a `deletedAt`
is stored as deleted by the file backend and answered with an error (`live` of `Submit`).
The record's versions are left to `VersionLifecycle`.

### WebhookDelivery

Events of one plugin. `creating` counts requests between the limit check and
the insert (`CheckLimit`, then `Create` or `CreateFails`, the request without a secret
or a row); `flights` counts deliveries under way, which end in any order. An event whose
listing or encoding fails is dropped for everybody (`FanOutFails`).
`StillActive` is where the backends differ; `backend` is chosen in `Init`, so
one run covers both.

### AdvisoryRefresh

The two kinds of refresh read and fetch in opposite orders. `Faults` selects
the failures an instance considers: GitHub's 403, a failing reading of the
plugin in the background refresh, a restart. `announced` and `lost` are history
variables: which advisories an event was sent about, and which were stored without
one, because the process ended, because the failed reading left a refresh without a
reference to address, or because the plugin was created with them, as the file
backend allows (`AdvisoryInit`). Nothing in the registry keeps either.

### FileStore

`plugins` is the directory of plugin files (or `Missing`), `meta` the id
counters, `job` what the one process is doing and holds in memory. The mutex
leaves one operation at a time, so the interleavings are of that operation's
file writes with `Stop` and with failing writes. A request that hands out an id
is two writes (`Number`, `WritePlugin`); the import is a staging directory, two
renames and the counters (`StageImport`, `SetAside`, `SwapIn`, `FinishImport`),
with the two rollbacks (`FailSwap`, `FailFinish`, `Undo`), whose own renames may
fail (`FailMove`, `FailUndo`). `acked` is a history variable: each plugin as last
confirmed to a caller. A new plugin is stored as its body has it: with versions
(`inline`) that keep the ids the body gave them, and possibly as deleted. Identity
conflicts are those of whole names; files are replaced whole, as `writeFileAtomic`
does.

### ReleaseSync

`job` is what each instance's schedule and each request is doing: which plugins
are left (copies, as they were listed), which one is at hand, which of its
releases are left, and what the reference resolved to when `CreateVersion`
looked. A step is one call: `List`, `Fetch`, `Check` (`upsertVersion` lists the
versions), `Resolve` and `Insert` (`CreateVersion` resolves again, and inserts).
`lock` is the session that holds the advisory lock, `lost` the running instances
whose session ended under them. The organisation sync is `Lookup`, `LookupAlias`,
then `Migrate` or `OrgCreate`. References are those of identity: a first-party
repository decides the canonical one (`Normalized`), and its short one stays an
alias (`Names`). One short reference stands for the aliases of a first-party
plugin, and a release webhook names a repository of the allowlist. Publishers
and administrators are the `Edit` steps. `told` is history.

### Downloads

`Downloads` composes `DownloadWindow` and `Metrics`: a request finds its plugin or
version, asks the window (tracked downloads only) and records, in three steps.
`Metrics` has both recorders; `loop` is where the goroutine is. Counters are counted
from what a plugin and its versions started with. `dropped`, `lost`
and `recorded` are kept per plugin so that the balance can be drawn for each; the
code keeps the sum of the first and logs the second. `PurgeVersion` and
`DeletePlugin` are what other requests do between the handler and the flush.

### RateLimiter

`heap` is the bucket objects, `table` who has which, `holds` what a request took
out of the table before it spent its token. Time is counted in the unit in which
one token is refilled. `ideal` is history: what would be left of an address's budget
if no idle bucket were ever dropped, after what was admitted from the bucket in the
table. A request that still holds a bucket which has been dropped meanwhile spends
from that one besides; a proof of the budget of all requests together failed on
exactly this, with three requests (see Observations).

### Sessions

Tokens are named by their id and carry the login and the time since sign-in;
nobody stores them. A request goes through `Parse` (signature, expiry),
`IsRevoked` (read lock), possibly `DropExpired` (write lock), and then the
handler; a step-up goes through the same again with the second token. `late` says
that the token was already signed out when this request parsed it.

### Semver and VersionOrder

`Semver` has pure operators for `semver.go`, checked against `Precedes`, the order
of the semantic versioning specification on one sequence of keys. A number is
written in one way there (`SemverAssumption`), as the specification demands and
`ParseVersion` does not. `VersionOrder` is a small state
machine of publications, yanks and deletions for the two sort orders: `kept` is
the file, sorted by one rule when a version is added and by another whenever it
is read; `rows` the table. A sort is described by its outcome (`SortedFrom`): the
orders of the same versions in which each comes before all that follow it. The rule of
reading puts each of two versions of one date before the other, so there may be
several such orders, and `Loaded` is the set of them; which one the library's
algorithm arrives at is left open. Versions are those of `CreateVersion`, which fills in
the release date, published without a `yankedAt` or `deletedAt` of their own, which
only one of the backends would store.

## Runs

| run | shows |
|---|---|
| `identity` | claims exact, references never stolen, directory implemented |
| `versions` | PostgreSQL, with an import beside the requests: audited purges, frozen deletions, the confirmed version removed, provenance on the bytes it was verified for unless the import replaced them, catalogue implemented |
| `versions_file` | file backend, with imports and bodies of any kind: no request lists a version of a deleted plugin or parts the provenance of a stored version from its checksums, the same catalogue, where a version may be born yanked or withdrawn |
| `review` | both backends: patches do not undo reviews, a mailed decision stands, deleted records frozen, recorded account deletions complete |
| `webhooks` | both backends: active means below the limit, an account exceeds its own by no more than the requests counted together, a dead endpoint is retired; disabled stays disabled (file) |
| `advisories` | no refresh stores anything past the announcements, with overlap, refusals, failing readings and restarts |
| `file_store` | file backend, stopped or failing at any write or rename: no id handed out twice, confirmed plugins never destroyed (but by a rollback that fails), the registry serves again |
| `sync` | a version row announced at most once, deleted versions not brought back, no abandoned lock, one scheduled run at a time, one plugin per first-party repository, every release with usable artefacts imported in the end |
| `downloads` | both backends: every recorded event counted once or accounted for, a counted download remembered for its window, nothing left behind by a shutdown |
| `limiter` | the table bounded, no budget renewed by dropping idle buckets |
| `sessions` | signed-out tokens refused, step-up by a recent sign-in to the same account, a list that does not grow |
| `order` | `CompareVersions` is semver precedence, `~` and `^` mean what they say, both backends agree on the latest release, in whichever order the file is read |

### Observations

Behaviours of the models that a maintainer may want to know of and that no run
asserts against:

* Deleting a plugin without `deleteVersions` is refused while it has versions
  (`plugin_service.go:393`), on a listing read before the write, which always
  cascades: a version published in between is deleted without that consent.
* The catalogue import replaces a version's checksums and keeps the provenance
  verified for the previous ones (`seed_import.go:163`, `file_repo.go:566`;
  repository README, line 250: "for these exact bytes").
  `ProvenanceCoversChecksum` therefore excepts checksums the catalogue carries, and
  `OnlyImportParts` says that on the file backend nothing else does it to a stored
  version.
* The handlers bind a whole `models.Plugin` or `models.PluginVersion` from the body
  (`plugins.go:318`, `:410`, `:502`), normalising and validating clear nothing
  (`plugin_service.go:770`), and the file backend stores the struct (`file_repo.go:203`,
  `:480`), assigning only ids, times and absent checksums. What a body says of
  `provenance`, `yankedAt` and `deletedAt` of a version, and of `deletedAt`,
  `securityAdvisories`, `views` and `downloads` of a plugin, is then in the record;
  PostgreSQL's INSERTs name their columns and drop it. A version published with a
  `deletedAt` is stored, holds its version string, and is answered with an error.
  Advisories a plugin was created with are in every later reading and never announced.
* A stop between the two renames of an import leaves no `plugins/`; the next start
  makes an empty one and nothing looks for the directory that was set aside
  (`file_repo.go:686`; line 515: "plugins not present in the catalog, including
  community plugins, are untouched").
* A patch without an author writes back the author it read; when an administrator
  handed the plugin over in between, it returns to the previous one
  (`plugin_service.go:323`).
* On PostgreSQL `active` is recomputed from the new failure count: with deliveries
  still under way, a success and then a failure enable a disabled subscription
  (`webhook_repo.go:110`; repository README, line 340). The file backend only ever
  clears the flag.
* `SubmissionReview`: an account deletion lists live plugins only, so the address on a
  plugin that was deleted on its own before stays (`submission_test.go:118`: "a deleted
  account must leave no contact address behind"). `SetContact` can fall between
  `EraseContact` and `DeleteOwned`, so an anonymised plugin keeps the address
  (`plugin_service.go:566`: "personal data the account no longer exists to consent to must
  not be among what it keeps"). A second review mails again (repository README, line 210:
  "emails them once"). `DeleteOwned` goes by the ids listed at the start and deletes a
  plugin handed to another author since (`AccountPage.tsx:83`: "my owned plugins"). A
  deletion that stops half-way leaves no record in `account_deletions`
  (`AccountPage.tsx:54`: "all actions are audit logged").
* `WebhookDelivery`: `CheckLimit` of two requests before either `Create`
  exceeds the limit (`webhooks.go:31`), by as many as were counted together less one
  (`OvershootBounded`). A subscription under an alias is stored as given and never
  sent anything (`webhooks.go:116`; theorem `AliasHearsNothing`).
* `AdvisoryRefresh`: two refreshes that read before either stored announce the
  same advisory twice (repository README, line 334); `ReadFails` stores
  advisories that are announced to nobody. A 403, which GitHub also sends over
  the rate limit, is taken for an empty list and empties the stored one
  (`advisories.go:56`; the caller at line 203 expects an error).
* `FileStore`: when the name of a deleted plugin of the catalogue has been taken
  by a new one, the import matches the deleted one and then finds its name
  taken; a failed import is fatal, so the registry does not start any more
  (`RefuseImport`). The directory an interrupted import set aside is never
  looked for again. A plugin created with versions is stored with them, and then
  `AddVersion` refuses them as duplicates: the caller gets an error, the plugin
  stays, its versions have the ids the body gave them, 0 if none
  (`plugin_service.go:258`). The counter knows of such an id only from the next import
  on, so it may be handed out to another version before; two versions of one string in
  the body are both stored. A rollback that cannot move the backup back still removes
  it, as its removal is deferred (`file_repo.go:684`): the plugins are gone
  (`FailUndo`).
* `ReverifyProvenance` (`provenance.go:199`) lists with limit 1000, which
  `ListVersions` refuses above 100 (`plugin_service.go:214`): every on-demand
  check ends in a validation error. Every other caller sees at most 100
  versions.
* On PostgreSQL a publish that was checked before its plugin was deleted adds a
  listed version to the deleted plugin (`PluginAccepts`).
* `ReleaseSync`: a job finds its plugin again by reference, so releases fetched for
  a plugin that was deleted or renamed since land on the plugin that has the
  reference by then; `Migrate` likewise renames what the short reference means at
  that moment. A purged version is imported again at the next run, and a deleted
  one is tried, and refused, at every run. A row whose read-back fails is never
  announced (`InsertUnread`).
* `Metrics`: on PostgreSQL one event of a purged version loses the whole batch; an
  event recorded after the drain is never flushed. `RateLimiter`: at the limit the
  whole table is dropped and everybody has a fresh budget. Requests that took their
  bucket before it was dropped for being idle spend from it, while the client's
  later requests have a new full one: with enough of them in flight a client is
  admitted more than one bucket would allow (`ratelimit.go:122`).
* `Sessions`: a signed-out token that was parsed before it expired and is looked up
  after is accepted once more. Other processes, and the other sessions of a
  deleted account, keep accepting their tokens. `fetchGitHubUser` does not look at
  the status of the reply: with the file store an error body becomes a session
  with an empty login.
* `VersionOrder`: the rule of `sortPluginVersions` puts each of two versions with one
  release date before the other, which swaps them at every read when the library
  sorts by insertion, as it does short lists (`file_repo.go:493` speaks of the order of
  the database). With dates that differ reading changes nothing (theorem
  `ReadingIsStable`). The subquery of PostgreSQL does not say
  NULLS LAST. `^` and `~` admit the prereleases of the bound they exclude. Two
  identifiers such as `1` and `01` are each greater than the other, a number
  too large for an `int` is compared as a text, and `-5`, which to semver is a word,
  as a number (`semver.go:93`). A plugin all of whose versions are
  yanked has no range and is listed as compatible with everything.

### Bounds

* Identity: two plugins, three spellings with one case collision, every alias
  set. Conflicts are between two rows; one spare id allows reuse of names after
  a deletion. The theorems remove the bound.
* Versions: two requests in flight (every race here is of two), two or three row ids (a
  purge and a publication after it need two), one or two plugins, two checksums, of which
  the catalogue has one on PostgreSQL, so that `ProvenanceCoversChecksum` is about the
  other, and both on the file backend. `MaxVersionId` bounds publications, so a behaviour
  really ends when the ids are used up and the plugins are deleted: these runs do not check
  deadlock.
* Submission: two requests, two plugins, two logins; mails and audits are
  counted up to `MaxMails` and `MaxAudits`, one each.
* Webhooks: the limit of 10 failures is 2 with three deliveries under way, so
  deliveries outlast the disabling; failure counts stop at `FailureCap`.
  `MaxEvents` bounds the events not yet fanned out, not their total.
  Two creations at a time (`MaxCreating`) against a limit of one subscription per
  account: `OvershootBounded` is about requests in flight, which the code does not bound.
* Advisories: two advisories, two refreshes in flight, any number in all.
* Sync: two instances and one request, two of the three at work at once, one
  first-party repository and another, one tag, one fault and one edit. The
  registry starts empty, or with one plugin from before the allowlist: a first-party
  one under its short reference, or somebody else's (`Older`). Each race
  of the list above is of one job with another or with one edit. The theorems
  remove the bounds. A `CHECK_DEADLOCK FALSE` is there because used-up bounds end
  a behaviour.
* Downloads: two clients and two requests, a window of three units, a window table
  full with one entry, a queue of one, batches of two, one refused flush and
  three events: enough for a full queue, a partial batch at shutdown and a refused
  flush that is followed by another.
* Limiter: three clients for two places, two requests, two tokens a minute; ages
  are counted up to where they make no difference. There is no bound on time.
* Sessions: two accounts, two tokens, two requests, one process (a process depends
  on its own list only), a lifetime of two units with a step-up window of one.
* Order: components 0 to 2 with six prereleases, which give 162 versions, compared
  in pairs; three versions over three dates.
* Files: two plugins, one of them the catalogue's, two versions, at most two ids of a kind
  handed out by requests and three stops or failing writes: one to interrupt an import, one
  its rollback, and one what follows. A body gives its versions no id, or 2 (`BodyIds`),
  which is above the counter at first and below it later. `MaxId` leaves room for the ids
  imports add and raise. Used-up bounds end a behaviour, so deadlock is not checked.

### Fairness

In `ReleaseSync`, `ReleaseImported` assumes weak fairness of the schedule (some
instance's ticker fires again and again, `StartVersionSyncJob`) and of the steps of
a scheduled run, which is one goroutine, and strong fairness of `Fetch` for each
plugin: GitHub, asked about a plugin again and again, does not answer every time
with its rate limit. Without it a run could end at the same plugin for ever.
Nothing is assumed of requests, publishers and the organisation sync; faults are
finitely many.

In `FileStore`, `ServesAgain` assumes weak fairness of the start-up steps: the
process is started again after it ended, as a supervisor does, and runs its
import. Nothing is assumed of requests, and stops and failures are finitely many.

In `WebhookDelivery`, `DeadEndpointRetired` assumes that the
runtime runs the fan-out goroutine (weak fairness) and, for each subscription,
deliveries that keep being started do not all lose their bookkeeping (strong
fairness of `Deliver`: a delivery ends within the client's timeout, and the
database does not refuse the update for ever). Nothing is assumed of
publishers, users or restarts; events keep coming for ever.

## Proofs

All theorems hold for any values of the constants that satisfy the named
assumptions (well-typed parameters, null values outside the row type, numbers written in one way,
dates that are numbers). `RangesHaveNoGap` assumes besides that every number is a
version component.

* `PluginIdentityProofs`: `TypeCorrect`, `ClaimsAreExact`,
  `RefsAreUnambiguous`, `RefsAreNeverStolen`, `ImplementsDirectory`. Inductive
  invariant: `TypeOK /\ ClaimsExact`. Each operation is shown to *rebind* one
  plugin to a set of references (`Rebinds`); from that one form follow the
  invariant, the refinement and the action property. The answer to a lookup,
  read off the rows, equals the claims table (`AnswersAreClaims`).
* `VersionLifecycleProofs`: `TypeCorrect`, `VersionsAreUnique`,
  `PurgesAreAudited`, `WithdrawnStaysFrozen`, `ConfirmedIsRemoved`. Each step
  keeps, adds or purges rows (`StepKinds`). Uniqueness is inductive with the
  types; the others need that ids not handed out, and audited ids, have no row
  (`Fresh`), and that a pending deletion's id, while it has a row, has the
  confirmed version (`Confirms`): that is why `IInv` has these parts. `IInv`
  holds in the `versions` instance as well.
* `VersionLifecycleProofs` also has four results with an invariant of their own.
  `ProvenanceIsAboutBytes`: on PostgreSQL, with any catalogue, a verified provenance is
  about the checksums of its row unless these are the catalogue's.
  `RequestsAttestWhatIsThere`: on the file backend only the import parts them in a version
  that is stored. Both rest on one invariant (`AInv`: a lookup under way carries the
  checksums of its row while it has one) and one lemma about a step that is no import
  (`NoneParted`); the import keeps `AInv` because it runs alone.
  `DeletedPluginsStayUnlisted`: on the file backend, where every write looks at the plugin,
  only an import lists a version of a deleted one. `ImplementsCatalog`: the rows implement
  `VersionCatalog`, each step one step of one slot or a stutter. A slot is computed from the
  rows of its plugin and version (`SlotIn`); `OneRowPerVersion` makes that one row, so an
  action that writes row `i` moves the slot of `i` and no other. The abstract purge is for
  plugins of the community only: `PurgeAdmitted` says that of pending purges. The cascade of
  a deletion becomes one step that withdraws every slot of a plugin.
* `SubmissionReviewProofs`: `TypeCorrect`, `MailedDecisionsStand`,
  `OnlyReviewDecides`, `DeletedStaysFrozen`, `AuditsAreComplete`, on either backend.
  What any step may do to one record (`RowStep`) is shown once per action; what a
  request under way relies on (`Reliance`: a review that has yet to mail, on the
  decision; an account deletion, on what it has crossed off) survives every
  `RowStep`. `LiveHasAuthor` is needed because a patch writes back the author.
* `NotifyProofs`, webhooks: `TypeCorrect`, `ActiveIsBelowLimit`,
  `FileNeverReenables`, `LimitOvertakenOnce`, `AliasHearsNothing`. A step leaves a row,
  adds a new one, removes it, or applies one outcome to it; a row that exists keeps its
  owner and its reference. An owner's rows and the creations under way are counted
  together (`Counted`): a check adds one while there is room, a creation moves one from the
  second to the first, and everything else takes away. For the alias, no delivery
  is under way to a row that was never there either (`NeverIdle`).
* `NotifyProofs`, advisories: `AdvisoryTypeCorrect`; `NothingMissed`, with every
  fault; and `NothingLost`: without a restart or a failing reading `lost` stays
  what it was at first, so that `NothingMissed` then speaks of every stored advisory
  but those the plugin was created with. An advisory
  that is announced, about to be, or lost stays so (`AccountedStays`); every reading
  contains only such advisories, which is the part of the invariant that makes it
  inductive.
* `NotifyProofs`, versions: `ComparesAsSemver` and `RangesMeanWhatTheySay`, for all
  versions and not the 162 of the run. Both orders are reduced to sequences of keys:
  the first entry that differs decides (`Decided`), or the length (`Prefixed`). The
  bounds of `~` and `^` need no version of their own: they are compared entry by
  entry. `ComparesAsAnOrder` (antisymmetric, total, transitive, and equal for
  equal versions only) follows from the first, and with it `RangesHaveNoGap`: each kind
  of term admits an interval.
* `NotifyProofs`, order: `BackendsNameOneLatest`, `ReadingIsStable`, over histories of any
  length. Inductive invariant: `OrderInv`, the file and the table hold the same versions,
  each once, and the file is in an order in which it may be read. No sort has to
  be computed: sorting a sequence that is in order may return it, adding puts the new
  version where it belongs (so that an order exists), and in any order that falls with the
  date the first eligible version has the greatest date among the eligible ones, which
  is what the subquery asks for (`LatestFollows`). Two orders of the same versions that
  fall strictly are the same (`OneFallingOrder`): where they first differ, each
  would have an element that the other has further down.
* `FileStoreProofs`: `TypeCorrect`, `NumbersAreFresh`, `AckedStaysIntact`. The
  inductive invariant says that `plugins/`, a staged directory and the one it
  replaces are each *sound* (all that was confirmed is in it or set aside), so
  the process may end anywhere, and that a staged import's counters are above
  everything it stages. A staged new plugin cannot fall on a confirmed one
  because confirmed ids stay below the counter on disk (`AckedNumbered`). Ids that
  bodies gave are no part of what was handed out (`AssignedIn`), but imports raise the
  counters above them too.
* `ReleaseSyncProofs`: `TypeCorrect`, `RowsAnnouncedOnce`, `LockNeverAbandoned`,
  `ScheduledRunsExclusive`, `RepositoriesNotShared`, `DeletedNotImported`. Every
  action is first reduced to its effect on one of three tables (the schedule, the
  plugins, the versions); the invariants are proved of the effects. `IInv` adds
  that a running instance holds the lock or has lost it (`RunHoldsLock`), that
  live plugins share no name (`NamesDisjoint`), and that a live plugin with a
  first-party repository has its short name (`ShortNameKept`): with these two,
  two plugins of one repository would share a name.
* `TrafficProofs`, downloads: `TypeCorrect`, `DownloadsCountOnce`,
  `EventsAccountedFor`, `ClosedEmpty`. The balance is over the number of places in a
  sequence that are about a plugin: lemmas say what appending, taking the head and
  dealing with one plugin and version of a batch do to it. `RecorderInv` says what
  may be left at each point of the goroutine: only a flush of the file backend is
  half done, the loop drains only after `Close`, and once it is on its way out only
  late events are in the queue.
* `TrafficProofs`, limiter: `LimiterTypeCorrect`, `Bounded`, `BudgetKept`. The sweep
  and the squeeze shrink the set of entries; a bucket is added only to a table with
  room. The budget is inductive as `Backed`: an address never has more in its
  bucket, or in the full one it would get, than the ideal one holds. A bucket idle
  for a minute is full, which is why evicting it changes nothing; the assumption
  that `IdleFor` is at least a minute is the code's five minutes.
* `SessionsProofs`: `TypeCorrect`, `SignedOut`, `AccountStepUp`, `RevocationsSwept`,
  `Recorded`. The invariant: a token signed out in a process is on its list or has
  expired (`EndedListed`), a request that is late carries such a token
  (`LateEnded`), no account has a token younger than its latest sign-in
  (`SignedInSince`), the list holds nothing old that a sweep should have taken
  (`SweptSince`), and a recorded sign-in has a user (`CallbackRecorded`).

Only model-checked: liveness (`ReleaseImported`, `ServesAgain`, `DeadEndpointRetired`),
which is out of the prover's reach. Every invariant and action property of a run has a
theorem. The type invariants have theorems and no run; `TypeOK` is the first conjunct of
the inductive invariants.

## Not modelled

Roles, ownership checks, input validation, rendering, configuration, SMTP and the
front end (no registry state, or sequential predicates on strings). The duplicate
clean-up and migrations run once before the server listens. The signed OAuth state
is a cryptographic check of one request. The daily metric tables are written in
the same transaction as the counters. The choice of artefacts and checksums of a
release, and GitHub's range notation, are string handling without state; of the releases of
a repository the code reads the first page, which is what the models take for all. An
administrator's synchronisation with `plugins.json` is a loop of creations and patches,
each of which is modelled; the loop is not.

## Plan

Done, in this order: identity, versions, submission, webhooks, advisories, the file
store; release sync, metrics, rate limiter, sessions, version order; the proofs of
all safety properties. Left: `CleanupSemrelDuplicates` and the migration preflight, as
operators on tables.
