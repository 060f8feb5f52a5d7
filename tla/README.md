# Verification of the Token backend

Token is a local gateway: a *Backend* process serves model requests of coding
agents over HTTP (the *Data Plane*), holds the user's Provider logins, and is
managed by a desktop shell and a command line over a local pipe (the *Control
Plane*). This directory holds TLA+ specifications of the parts of the Backend
whose correctness depends on order, interleaving, failure and restarts, the TLC
configurations that check them, and proofs about each of them.

Paths below are relative to the repository root.

## 1. Inventory

### The parts, their state and what makes them correct

| Part | State | Operations | Correct when |
|---|---|---|---|
| **Provider credential record store** `src/credentials/profile-record-store.ts` | per Provider: a record file, one document per managed Profile, a record lock, one lock per credential | publish, management edit, selection edit, refresh, orphan collection, read | record and documents agree after every crash; nobody acts on a record that was replaced; refresh tokens are used once and not lost; every call ends |
| **Profile authority and switching** `src/credentials/profile-authority.ts`, `profile-bound-pi-execution.ts` | selection, its generation, switch policy, cooldowns; the binding of every request | login, activate, enable, disable, remove, reorder, policy, capture, 429 switch | a late 429 never undoes a choice of the user; one limited selection is left once; a request ends |
| Credential control plane, local login `src/credentials/profile-control-plane.ts`, `management.ts`, `automatic-local-login.ts` | a guard that serialises user operations | user commands | two operations never overlap; a projection is never older than what it replaces |
| **Responses session state** `src/protocols/openai-responses/session-state.ts` | forest of checkpoints, debounce timer, write gate, snapshot file | remember, expand, flush, load | what is live can be expanded; a snapshot can be loaded; a flush is durable; the file catches up |
| **Runtime supervisor, listener** `src/runtime-supervisor.ts`, `running-data-plane-listener.ts` | status, listener, queue of commands | start, stop, restart, quit | one listener; a true status; finalized after its requests |
| **HTTP server** `src/server.ts` | accepting flag, active requests, drain | admit, settle, drain, close | a drain ends, and aborts what is left |
| **Application** `src/application.ts` | lease, publication, Control Plane, stores | start, quit, teardown | teardown ends and releases the lease last |
| **Instance authority, discovery, owner lease** `src/instance-authority.ts`, `control-plane-discovery.ts`, `desktop-owner-lease.ts` | lock and discovery files, lease deadline | acquire, publish, attach, expire | one Backend; discovery names it; none without an owner |
| **Provider catalogs** `src/providers/catalog-refresh.ts`, `catalog-cache.ts`, `runtime.ts` | the cache file, each Pi Provider's own facts, what was captured for serving, quarantine, queue of runs | background, manual and login refresh, publish, roll back, restore, dispose | only facts of the selected account are cached, only cached facts are served; cache, Provider and served models agree after a failure; a disposal ends |
| Provider usage `src/provider-usage/` | usage per Profile, refresh slots | probe, passive observation | an older observation never replaces a newer one |
| **Public models** `src/public-models/authority.ts` | the directory in memory and on disk, revisions, a debounced flush | reconcile with the runtime, a user's commands, flush, migration | one alias per model, one model per alias; what a user chose survives; a revision names one document; discoveries reach the disk |
| Models configuration `src/models-config/` | one file | read, validate, replace | |
| Settings, history, backup `src/settings/`, `src/backup/` | settings files, archives | set, export, restore | a restore is complete or not begun |
| Diagnostics, attention `src/diagnostics/`, `src/operational-attention/` | queue to a worker, stored events | record, query, close | bounded, survives the worker |
| Agent integrations `src/integrations/` | configuration files of other programs, journal | apply, restore | what was applied can be restored |
| Protocol handlers `src/protocols/`, `src/provider-native-*` | per request | translate, stream | mostly translation of payloads; the SSE life-cycle normaliser is a state machine |
| Control Plane host and client `packages/application-control-plane/` | connections, publish queue, revisions | commands, publish, close | status arrives in order; close ends |
| **Desktop shell** `packages/desktop-shell/` | connection to a Backend, its candidate, its lease | find, launch, replace, attach, lose, quit | ends only what is its own; recovers |
| CommandCode packages `packages/provider-commandcode-*` | attempts per request | attempt, retry, assemble | a retry never repeats delivered output |
| Vendored agent `src/pi-agent` | | | third-party, out of scope |

The parts in bold are modelled (the HTTP server, the application and the desktop
shell as far as their life cycle goes).

### How they interact

- A request captures the selected Profile through the authority, which reads the
  record store without a lock; a final 429 goes back to the authority, which
  changes the selection under the store's record lock. User operations change
  the same record under the same lock. A token refresh goes through the store
  with both locks, leaving the record lock while it asks the Provider.
- Several processes share the files (a Backend that is being replaced, the
  command line), so the locks are files and outlive the process that made them.
- The Responses handler reads and writes the session state around each request;
  the teardown flushes it when the Data Plane is finalized.
- A catalog refresh captures the Profile selection, asks the Provider with that
  Profile's credentials, and publishes under the selection lock of the record
  store, so that a selection and a publication exclude one another. Each snapshot
  of the catalog is reconciled into the public models.
- At most one Backend holds the instance lock. It names its Control Plane in the
  discovery file; a desktop shell finds it there, claims its lease and renews it,
  or launches a Backend when there is none. A Backend started from the command
  line has no lease and belongs to its user.
- The supervisor runs commands of Control Plane clients, of the owner and of the
  teardown one at a time, and publishes each status through the Control Plane;
  the Control Plane's close waits for clients whose commands still run.

### What is hard

PROJECT.json lists the hazards with their lines. They are: interleavings of
callers between two awaits; a lock given up in the middle of an operation; locks
that outlive their owner, or that an owner believes to hold; two files that must
agree; one-time tokens; decisions on a selection captured long before; a forest
from which entries leave in several ways; overlapping writers with swallowed
errors; commands queued behind a teardown that has begun; facts fetched under one
account and published under another; a failure in the middle of undoing a failure;
memory that is ahead of its file; processes that find, replace and end one another
and may die at any step.

## 2. Modules

| Module | Models | Composes |
|---|---|---|
| `ProfileRecord` | the persisted record as a value, and the edits of it | |
| `CredentialLedger` | abstract: one atomic ledger of records and documents | `ProfileRecord` |
| `ProfileRecordStore` | the file-backed store with locks, faults, the collector and the OAuth server | `ProfileRecord`; implements `CredentialLedger` |
| `ProfileRecordStore_proofs` | theorems about `ProfileRecordStore` | |
| `ProfileSwitching` | requests, selection, 429 switches, user operations | rests on the atomic commits that `ProfileRecordStore` establishes |
| `ProfileSwitching_proofs` | theorems about `ProfileSwitching` | `ProfileRecord`, to whose edits its steps are related |
| `SessionState` | checkpoints, snapshot writer, crashes | |
| `SessionState_proofs` | theorems about `SessionState` | |
| `Gateway` | abstract: one gate in front of the requests | |
| `DataPlaneLifecycle` | supervisor, listeners, requests, Control Plane, teardown | implements `Gateway` |
| `DataPlaneLifecycle_proofs` | theorems about `DataPlaneLifecycle` | |
| `CatalogRefresh` | the refresh of dynamic models: runs, staging, cache, capture, restoration, quarantine | the Profile selection and its lock, as `ProfileRecordStore` and `ProfileSwitching` establish them |
| `CatalogRefresh_proofs` | theorems about `CatalogRefresh` | |
| `PublicModels` | the public model directory with its file | the runtime's reports |
| `PublicModels_proofs` | theorems about `PublicModels` | |
| `DesktopOwnership` | instance lock, discovery file, lease, start and end of Backends, the shells that connect to them | Backends and shells |
| `DesktopOwnership_proofs` | theorems about `DesktopOwnership` | |
| `MC*` | small instances for TLC | |

Definitions that start with "Mutant of" in their comment are deliberate errors,
used by nothing: each property of a passing run is shown to fail when its
mutant stands in for the definition it is a mutant of.

### ProfileRecordStore

`record` is `<provider>.json`; `doc[i]` the token generation in credential *i*'s
document; `recLock` and `credLock` the lock files. Each caller has a program
counter whose labels are the awaits of the code:

    publish   cred -> rec -> read -> doc -> commit -> relRec -> relCred
    manage            rec -> read -> commit -> relRec
    select            rec -> read -> commit -> relRec
    observe           rec -> read -> publish -> relRec
    refresh   cred -> rec -> read -> yield -> callback -> rec2 -> recheck -> write -> relRec -> relCred
    collect   cred -> stat -> rec -> read -> unlink -> relRec -> relCred

`manage` is `modifyManagement`, `select` is `modifySelection` (the 429 switch),
`observe` is `publishIfCurrent`, `refresh` is `modifyManagedDocument` with its
callback, `collect` is one round of the loop of `collectOrphans`. `ReadUnchanged`
is every early return and refusal under the record lock, `GiveUp` the deadline
of `acquireLock`, `Fail` a file operation or `assertOwned` that throws. The
directory sync after a rename may throw with the rename done: `WriteDoc` has
that outcome; for the other writes it differs from success only in what the
caller is told.

Revisions are numbers in the model and random in the code; only their equality
matters to the code, and the order serves the ledger. Names, notes, order and
policy are one value, so an edit of them is an edit that changes nothing but the
revision. `issued`, `replayed` and `forfeited` are the OAuth server and two
histories; the server rotates a token with each refresh and refuses one that is
spent, as the Providers' token endpoints do.

Faults: `Crash` ends a call anywhere and leaves its lock files; `Stall` stands for
an owner that does not run for `LOCK_STALE_MS`, so that its lock may be taken
while it still believes to hold it; `Notice` is the heartbeat that finds out.
A stall makes everything its caller holds takeable, and it stays so until somebody
takes it: the heartbeat of an owner that runs again would renew a lock that nobody
took, at its next tick, so the model allows a takeover somewhat longer than the code.

### ProfileSwitching

The selection-owned fields of the record, `cooling` (deadlines that lie ahead), and
per request its state, binding and the Profiles it has used. `Switch`, `SwitchLost`,
`GiveUp`, `StaleBinding` and `StorageFails` are the outcomes of
`advanceAfterFinal429`. Generations are drawn from a small set, never one that the
record or a binding still names: `createId` does not repeat. With `MaxAttempts`
attempts per request the model allows exactly what the loop in
`profile-bound-pi-execution.ts` does. Requests without Profiles and captures that
fail are not modelled: they never switch.

### SessionState

`states` is the forest, `disk` the snapshot file, `queue` the calls of
`writeSnapshot` that have not released their gate, `body` what the first of them is
writing. Sizes stand for bytes and items at once; the size of a set of
checkpoints is the number of their `Units`. Ages are capped just above
`Ttl`. A flush is a record of what it awaits and of what it is to make durable.
`Exit` is a crash or the end of the process; `Load` the first use after it, which
may fail and set the file aside. Response ids are not reused, as the handler
creates them at random; `remember`'s refusal of a duplicate id is thus not
reachable.

### DataPlaneLifecycle

`status` is `current.modelDataPlane`, with a failure replaced by its code; `last` is the application's
`lastPublishedStatus` and `shown` what the Control Plane shows its clients; `op` the
command that runs and the await it is in; `queue` those behind it; `phase` the life
of each listener, `active` its requests. `plane` and `teardown` are the Control
Plane and the position of `closeOwnedResources`. A port that is in use and any other
failed start differ in wording only and are one status. A finalizer that throws
leaves its listener `broken`: nothing listens, but the stop has failed.

`Transition` assigns a status and publishes it. The command handler passes the supervisor the publisher that
also writes `lastPublishedStatus`; a client's quit and the teardown's stop get the Control Plane's own, which
does not (`Keeps`). `Republish` shows the copy again: with a request that begins or ends, and, in
`Refresh`, with a snapshot of the catalog or a reminder. The host's publish queue, which keeps the order
of the calls, is taken as immediate. Once the Control Plane closes, a publication is rejected, the command
is at "refused" and ends there with its status already assigned. `After` is what the end of a command means
for the application: a quit of the owner's tears down, a client's only when its result has reached the
client, which it may not.

`Gateway` is what clients may rely on whatever the supervisor does. Its `gate` is the phase of the
one listener that has not finished, its `inflight` the requests of all: a restart that binds too early
makes it open, or be two gates, before it was off.

### CatalogRefresh

There are four places where a Provider's dynamic models are: `store` (the cache
file), `live` (the mutable facts of the Pi Provider), `served` (what
`createCatalogSnapshotModels` captured for requests) and `shown` (the snapshot
management sees); `states` and `quarantine` are `providerStates` and
`restorationQuarantine`. A set of facts is a model list together with the selection it
was fetched under; this is what the properties must tell apart. `run` is the run at the
head of `runQueue`, with the await it is in:

    next -> bound -> network -> answered -> lock -> commit -> publish -> release -> next
                                   |          |        |         |          |
                                   |          |        +---------+----------+-> rollback
                                   +----------+------------------------------------+--> discard

`Capture` is `operationsForProvider`, `Skip` and `Drop` the first `isCurrent`, `Outdated`
and `CutOff` the second, `Lock` to `Release` `publishIfCurrent` with the controller's
`publish` inside, `Rollback` and `Discard` the `stage.rollback` and `discardExactRun` of its
`catch`. A run whose Provider cannot be bound takes the same way without lock and without
asking. The selection may move between any two steps, except while `publishIfCurrent`
holds the lock; the lock may be lost to another process. `OverlayCapture` is the Codex
overlay's `served.capture()`. `ever`, `cutOff`, `unread` and `recaptured` are histories.

The read of the cache at boot may fail, which the next process takes for an empty cache.
A manual run is a run of every Provider, as the Control Plane asks for it.

### PublicModels

`disk` is `public-models.json`, `loaded`, `revision`, `persistedRevision`, `facts`,
`snapshot` and `timer` the variables of `createPublicModelAuthority`. Because
`operationTail` runs one operation at a time, an operation is a decision (`Reconcile`,
`Accept`, `Flush`), a write that lands (`Write`) or fails (`Refuse`), and what it applies
(`ApplyCommand`, `ApplyFlush`, `ApplyMigration`); `Restart` can come between any two. `op`
is the operation that writes. A command with another revision is a conflict, changes
nothing and is not an action. An alias carries its Provider's prefix, and `Default[m]` are the
names `allocateDefaultAlias` tries. The order of models is left out, so a reorder is a
command that may or may not change the document.

### DesktopOwnership

`lock` is the transaction on `instance.sqlite`, `descriptor` the discovery file; a Backend
has an `origin`, a `phase` of its life and the state of its `lease`; `sh[s]` is a shell's
`resolveConnection` (`at`, `target`, `client`, `spawned`, `reconnecting`) with its lease
timer (`bound`), `recoveryEnabled` (`viewer`) and its user's Quit (`quits`). `Look`,
`Connect`, `Ask`, `Await`, `AttachShell`, `Claim`, `Claimed`, `Launch` and `Wait` are the awaits of
that loop; `Lost` is `ensureConnection`. A Backend's Control Plane answers from the
publication to the end of its closing. `Finish` is `createLifecycle`'s `settle`: nothing
before there is a lifecycle, nothing the second time. A process is started once and
may die at any step; SQLite then ends its transaction, and the discovery file stays.

## 3. Runs

| Run | Instance | Shows |
|---|---|---|
| `record_store` | 2 callers, 1 managed and 1 external credential, 3 commits, 2 tokens, 1 crash | `ReferencedDocuments`, `RecordIsValid`, `ActsOnCurrentRecord`, `SpentTokenNotReplayed`, `NewestTokenKept`, `RefreshNeedsEnabledProfile`, and that the store implements `CredentialLedger` |
| `record_store_live` | 2 callers, 1 managed credential, 1 crash, 1 stall | `CallTerminates` |
| `record_store_stall` | 2 callers, external credentials, 1 stall | **violates** `SwitchKeepsNewerManagement` |
| `switching` | 2 requests, 3 Profiles of one kind, 2 attempts | `SelectionConsistent` (types, `SelectionIsValid`), `AttemptsAreDistinct`, `UserChoiceStands`, `SwitchHasCause`, `RequestsCountDown` |
| `session` | 3 ids of size 1 or 2, capacity 2, history 2, snapshot 2, failures at any time | `ForestConsistent` (types, `HistoryExpands`), `SnapshotLoads`, `FlushIsDurable`, `FileCatchesUp` |
| `lifecycle` | 2 listeners, 2 requests, 2 queued commands | `StatusConsistent` (types, `StatusIsTrue`, `ShownIsTrue`), `FinalizedAfterUnwind`, that clients see one `Gateway` (`ImplementsGateway`), `OperationsEnd`, `TeardownEnds` |
| `lifecycle_lease` | as `lifecycle` | **violates** `LeaseReleasedLast` |
| `catalog` | 2 Providers, one of them selected anew once, 1 waiting run, 2 faults | `CatalogConsistent` (types, `RefreshingIsTransient`, `SnapshotIsServed`), `DurableIsCurrent`, `ServedWasPublished`, `SettledIsDurable`, `QuarantineHolds`, `DisposedIsQuiet`, `DisposeEnds` |
| `catalog_stuck` | as `catalog` | **violates** `RefreshingNeverSticks` |
| `public_models` | 2 Providers, 3 models, 4 aliases, 5 reports, 3 changes, 1 favourite of each kind | `DirectoryConsistent` (types, `FavoritesLimited`, `PersistedIsOnDisk`, `PendingIsScheduled`, `SnapshotIsCurrent`), `TargetsDistinct`, `AliasKeepsModel`, `ChoicesSurvive`, `DiscoveriesReachDisk` |
| `ownership` | 2 shells of two builds, 1 command line, 2 Backends | `LeaseConsistent` (types, `LeaseIsOfOwnBuild`), `OneBackendServes`, `ServerIsDiscoverable`, `ViewersBeginNothing`, `NoShellEndsCli`, `OrphansRetire` |
| `ownership_viewer` | as `ownership` | **violates** `ViewersEndNothing` |

The invariants whose name ends in `Consistent` are the module's type invariant together
with what must hold between its variables in every state. The types of the record store,
and `RevisionNamesDocument` of the public models, are proved (section 4) and not run.

### Why the bounds are enough

*Record store.* The properties relate two callers through one credential and one
record; a third caller could only repeat what one of the two does, after it or
before it. Three commits are a publication and two edits: enough for a record that
is replaced under a caller, a Profile that comes, is disabled and goes, and a second
that remains. Two tokens are one rotation, after which a spent one exists. One crash
may fall anywhere and leaves up to two locks. The theorems have no such bounds. The
liveness run needs no rotation, so it has one token and adds a stall.

*Switching.* Two requests are needed for two limited under one selection; the
third Profile is needed for a second switch to have somewhere to go. `Gens` has two
more elements than there are requests (an assumption of the module, which TLC
evaluates), so that a fresh generation always exists. With three
Profiles of one kind and two attempts, the third Profile is always there to go on to: only the
count of attempts ends the request, and a count that is off by one is seen.

*Session state.* Three ids with two places make eviction, of a branch and of a chain of
two; entries of size two against a snapshot limit of two make the size guard fire, and the
history limit refuse a child. The one failure may strike a write or a load. Two calls of
`writeSnapshot` at a time are a running and a waiting one. With `Ttl` 0 every entry expires
with the first tick.

*Life cycle.* A listener may be used again once it is closed, so two suffice to see
two alive at once. Two queued commands behind a running one allow every pair in any
order, of any origin.

*Catalogs.* Providers meet only in the capture and in the order of a run: two suffice, the
second being the one whose run captures what the first has left behind. One of the two is
selected anew, at any moment of a run or of a login. A model list is told apart from
another by the selection it was fetched under, so one list is enough. Two faults are a
failure and a failure of what undoes it, or a quarantine and the run after it, or a
crash between the two; a recapture of the overlay and a lost lock count as faults. One
waiting run behind the running one lets background, manual and login runs follow each other.
Some cases need a third fault: a publication lifts the quarantine of a Provider, loses its lock and
is undone in a login run, which serves the cache again but shows the list of before. That is why
`SnapshotIsServed` excepts a Provider that is shown as failed. Two Providers with three faults are
too many states for a run; the theorems hold for any number of faults.

*Public models.* Two of the models are of one Provider and have the same default names, so
their aliases collide and a rename can take the default of the other; the reports add them in
both orders, together, and withdraw the Provider's login. Three changes are, for instance,
a discovery, a rename into its way and a second discovery, with restarts and failed writes between
any two, which are not bounded. Both favourite limits are one, and reached. The
theorems have no such bounds.

*Ownership.* Two shells of different builds are one that is replaced and one that replaces; two
Backends are one that leaves and one that comes, whichever of the three started them.
Every crash is a death of one of these, none is bounded. Two shells of one build are not
run: the desktop's single-instance lock keeps the second from starting.

`CHECK_DEADLOCK FALSE` stands where the system may stop: the store's bounds exhaust
revisions and faults, an application that has been torn down does nothing more, a
disposed catalog controller neither, a directory without reports waits, and when
all processes are gone nothing happens.

### Fairness

- Store: a call that has begun moves (`WF(Step(c))`). Each await is on a file
  operation, a lock poll with a deadline of 30 s, or the Provider, whose requests
  time out. Nothing obliges a lock to become free: a waiting call may give up.
- Switching: none. That a request ends is stated by a rank that each of its steps lowers
  (`RequestsCountDown`); what it waits for, the Provider and the store, is bounded by their own
  timeouts.
- Session state: a due timer fires, and file operations settle one way or the other.
  `FileCatchesUp` assumes that clients become quiet, because the debounce is restarted
  by each change, and excuses the file only while the latest write has failed or was refused,
  or a bad file could not be set aside: none of these is repeated.
- Life cycle: promises that can settle do, the drain timer runs, and a request that has
  been aborted unwinds. No fairness is assumed of requests that have not been aborted,
  of clients, or of the owner.
- Catalogs: once the controller is aborted, what its run awaits settles (`WF(Aborted /\ (Step \/ Answer))`):
  files and locks do, and so does the Provider, because the signal is passed down to its requests.
  Before that nothing is assumed: a Provider need not answer.
- Public models: a scheduled flush happens, also when commands keep arriving (`SF(ScheduledFlush)`):
  the timer appends it to `operationTail`, which is first in, first out. A write lands or
  fails, and what was decided is applied. No fairness of users or reports.
- Ownership: a Backend goes on with its own start and end; the lease of an owner that is gone
  runs out (`WF(Deserted /\ Expire)`), as its timer checks it. None of shells or users: they may
  stop anywhere.

### Disagreements between documents and code

Four runs state what a document or a comment of the repository says, and TLC finds it
violated by what the code does.

1. `record_store_stall`. The specification (`doc/Spec/TokenProviderCredentialProfilesSpec.md`
   lines 771 and 1089) says that a stale request can never overwrite newer management
   state. `writeDurableFile` checks that it owns the lock, and then renames; a process
   suspended between the two for longer than the stale time renames although another one
   has taken the lock. TLC's counterexample suspends a management call, lets a switch take
   the lock and read the record, and wakes the management call up: it commits, and the
   switch overwrites it with what it has read. This takes a machine or process suspended at
   one instant. The same property is proved for executions without (`SwitchesKeepManagement`).
2. `lifecycle_lease`. `doc/Spec/TokenElectronArchitectureSpec.md:394` says that the lease is
   kept until all other resources have stopped. The teardown queues one stop and then
   closes the Control Plane; a start that a client has queued in between runs after the
   stop, and its listener is still open when the lease is released.
3. `catalog_stuck`. The comment at `catalog-refresh.ts:692` says that the provisional refreshing
   state never sticks, and a test (`test/integration/catalog-refresh-controller.test.ts:1085`) that
   it is never left after a failed publication. When a Provider has answered, the controller asks
   a second time whether the selection is current (line 588); in production this takes the selection
   lock and may throw, and nothing catches it there. The Provider stays "refreshing", its
   unproven facts are neither restored nor quarantined, and the remaining Providers of the run are
   not refreshed. The properties of `catalog` that this would break except the Providers it
   has happened to (`cutOff`).
4. `ownership_viewer`. The comments in `packages/desktop-shell/src/main/electron-app-lifecycle.ts` say
   that a viewer must never use the other shell's ownership to perform Product Quit (lines 61-62), and that a
   shell owns the Backend only while it holds the lease of the one it is connected to (36-37). `isBound` means
   that a renewal timer exists (`desktop-owner-lease.ts:102`). A shell that has lost its Backend reconnects to
   that of another build (`desktop-backend-connection.ts:92`) and disposes of the old timer an await later
   (112-122). Asked to quit in between, it counts as the owner and sends its quit to the current Backend
   (`main.ts:342-347`); it then becomes a viewer, and the other shell's Backend closes.

## 4. Proofs

### The record store

`ProfileRecordStore_proofs` proves, for any finite or infinite set of callers and
credentials and any bounds:

| Theorem | States | Assumes |
|---|---|---|
| `TypeCorrect` | `Spec => []TypeOK` | |
| `Invariance` | `Spec => []Inv` | `MaxStalls = 0` |
| `ActsOnCurrent` | `ActsOnCurrentRecord` | `MaxStalls = 0` |
| `SurvivingInvariance` | `Spec => []Surviving` | |
| `RecordStaysValid` | `RecordIsValid` | |
| `CallsOnlyAdvance` | `CallsAdvance`: a call only comes nearer its end | |
| `DocumentsStay` | `ReferencedDocuments` | `MaxStalls = 0` |
| `NoReplay` | `SpentTokenNotReplayed` | `MaxStalls = 0` |
| `NewestStays` | `NewestTokenKept` | `MaxStalls = 0` |
| `RefreshNeedsEnabled` | `RefreshNeedsEnabledProfile` | `MaxStalls = 0` |
| `SwitchesKeepManagement` | `SwitchKeepsNewerManagement` | `MaxStalls = 0` |
| `StoreImplementsLedger` | `ImplementsLedger` | `MaxStalls = 0` |
| `HoldsUntilAStall` | `LocksExclude` and the four invariants, in every state before the first suspension | |

`MaxStalls = 0` says that no owner is suspended for `LOCK_STALE_MS` while it holds a
lock. It cannot be dropped: the run `record_store_stall` shows an execution with one
suspension that violates `SwitchKeepsNewerManagement`. Crashes are not restricted. The theorems
without this assumption say what suspensions cannot break: the record stays valid, even when two callers
write in turn. A suspension can thus lose an update, but leaves no record that is refused. That revisions
differ is assumed and not shown: the code draws them at random. And `HoldsUntilAStall` says that nothing but a
suspension that happens does harm: with any number of them allowed, two callers never rely on one lock,
and the invariants hold, until the first.

The other assumption is `StoreAssumption` of the module, which TLC evaluates in each run.

#### The argument

The properties are not inductive: that the record is what a caller has read says nothing
unless the caller holds the lock, and that a document is there says nothing about the
collector that is about to unlink it. The invariant is

    Inv == TypeOK /\ Locks /\ Known

- `Locks`: a caller past the acquisition of a lock is the one the lock file names; nobody
  has lost ownership. Hence two callers are never under the record lock at once, nor
  under the lock of one credential.
- `Known`: what each caller knows because of the locks it holds. `RecordKept`: the record is
  the one it read. `Plan`: the draft it is about to commit is an edit of that record with
  a newer revision; the document it is about to unlink belongs to no Profile; the Profile
  whose document it is about to write is enabled. `Names` and `Fresh`: ids that have been
  drawn once are not drawn again, and revisions grow. `Tokens`, `Token` and `Accounted`:
  where the newest token of each credential is - in its document, in the call that has just
  received it, or lost - so that a call that presents a spent token does so after a loss.

A step of one caller keeps what another knows because the lock that the other holds keeps
the first one out (`KnownFrame`, `QuietKeeps`); each effect has a lemma of its own
(`CommitKnows`, `WriteDocKnows`, `WriteRefreshedKnows`, `UnlinkKnows`, `CallbackKnows`, ...).
`OnlyEffects` says which steps change record or documents at all, and from it follow the
two action properties. For the refinement, a commit is an `Acquire` or an `Edit` of the ledger
(`CommitIsLedgerStep`), a refreshed document is a `Rotate`, a document that no Profile refers
to yet or any more is invisible, and every other step is a stutter (`EffectIsLedgerStep`).

Apart from `Inv` stands `Surviving`, which needs no locks: a draft is a valid edit of a valid record
when it is made, and remains one whoever writes the record in between. `CallsOnlyAdvance` needs neither: it orders the places of a call so that each
step goes to a later one, fifteen at most. This is the safety half of `CallTerminates`; that steps
are taken is the fairness TLC assumes.

### The public model directory

`PublicModels_proofs` proves, for any Providers, models, aliases, default names, limits and
reports of the runtime, and any number of changes, failed writes and restarts:

| Theorem | States |
|---|---|
| `TypeCorrect` | `Spec => []TypeOK` |
| `TargetsStayDistinct` | `TargetsDistinct` |
| `FavoritesStayLimited` | `FavoritesLimited` |
| `PersistedStaysOnDisk` | `PersistedIsOnDisk` |
| `PendingStaysScheduled` | `PendingIsScheduled` |
| `SnapshotStaysCurrent` | `SnapshotIsCurrent` |
| `DirectoryStaysConsistent` | `DirectoryConsistent`: the conjunction of the above |
| `RevisionsNameDocuments` | `RevisionNamesDocument` |
| `AliasesKeepModels` | `AliasKeepsModel` |
| `ChoicesStay` | `ChoicesSurvive` |

They assume what `DirectoryAssumption` and `ReportAssumption` say of the constants, which TLC
evaluates: an alias has one prefix, the limits are numbers, a report names its models'
Providers.

That memory equals the file when nothing is owed says nothing of a step that changes one of
them; and that a restart keeps what the user chose needs to know how memory and file differ while
something *is* owed. The invariant is

    Inv == TypeOK /\ persistedRevision <= revision /\ (legacy => disk # Absent)
             /\ AtRest /\ AllUnambiguous /\ Operation /\ Ahead /\ Settled
             /\ PendingIsScheduled /\ SnapshotIsCurrent

- `Ahead`: except between the write of a command and its effect, the document in memory is the
  one on disk plus discoveries (`Grown`): entries that the file has not, with the defaults,
  and models that no alias of the file stands for. Losing memory thus loses no choice
  (`GrownChoices`) and only aliases that had not reached the disk.
- `AllUnambiguous`: no two aliases stand for one model, in memory, on disk and in the document
  being written. `MaterializedUnambiguous`, `ModelEdits` and `RenameEdit` keep it.
- `Operation`: what the operation in progress has decided, still true when it lands because
  operations are serialised.
- `Settled`: when everything counts as persisted and no effect is outstanding, memory is the file.

`Limited`, which says the same of the limits on favourites, is inductive relative to `Inv`
(`NextLimited`); it rests on lemmas about the sets of favourites: a discovery adds none
(`GrownFavorites`), a rename keeps their number by a bijection (`RenamedFavorites`), a command
adds at most one, below the limit.

### Switching

`ProfileSwitching_proofs` proves, for any Profiles, kinds, requests and number of attempts:

| Theorem | States |
|---|---|
| `Invariance` | `Spec => []Inv` |
| `SelectionStaysConsistent` | `SelectionConsistent` |
| `AttemptsStayDistinct` | `AttemptsAreDistinct` |
| `AttemptsStayOfOneKind` | `Spec => []AttemptsAreOfOneKind`: a request goes on only to Profiles of the kind it began with |
| `UserChoicesStand` | `UserChoiceStands` |
| `SwitchesHaveCauses` | `SwitchHasCause` |
| `SelectionMovesByEdits` | `RecordChangesAreEdits` |
| `RequestsNearTheirEnd` | `RequestsCountDown` |

They assume `SwitchingAssumption`: a kind for each Profile, finitely many requests, and more
generations than requests can name.

That a switch is not made over a choice of the user cannot be read off the state alone. The
invariant `Causes` says what the current generation means for a request that holds it: nobody
has overtaken the request and, if it was limited, the selection has seen a 429. A fresh
generation makes this vacuous for all requests at once, which is exactly why the code compares
generations and not Profiles. `Attempts` ties the Profiles tried to the binding and its kind, so
that an eligible target is a new one. Sequences of ids need lemmas on appending, removing and
reordering (`Appended`, `Removed`, `Reordered`).

`SelectionMovesByEdits` joins the two models of the record. The module takes each change of the selection
for one atomic step; the store is proved to commit the edits of `ProfileRecord` atomically. The theorem
says that every step that changes the record here *is* such an edit - a login under an unused id, a
management edit, or for a request the 429 switch and nothing else - so what is proved of the one holds
under the other. It needs that a record exists once a Profile does (`Recorded`).

`RequestsNearTheirEnd` proves `RequestsCountDown`: a request has a rank, three for each
attempt left and its place in the present one, that each of its own steps lowers and nobody else raises,
however Profiles are edited meanwhile. While it runs a step is always possible: `FailClosed`
before it is sent, `Answer` while the Provider has it, `StorageFails` after a 429.

### Session state

`SessionState_proofs` proves, for any ids, sizes, limits and policy, and for failures at any time:

| Theorem | States |
|---|---|
| `Invariance` | `Spec => []Inv` |
| `FlushedStaysDurable` | `FlushIsDurable` |
| `WalksEnd` | `Spec => [](Rooted(states) /\ Rooted(disk))` |
| `LiveCheckpointsExpand` | `ForestConsistent` |
| `SnapshotAlwaysLoads` | `SnapshotLoads` |
| `RestartsTellTheSame` | `FileTellsTheSame` |
| `HistoriesStay` | `HistoriesStand` |
| `MemoryOnlyStaysOffDisk` | no live checkpoint that is, or continues, a memory-only one is in the file or in a body |

They assume `SessionAssumption`. `Rooted` is the part of `HistoryExpands` and `SnapshotLoads`
that is about shape: following parents ends at a root, so no parent is missing and there is no
cycle.

    Inv == TypeOK /\ Rooting /\ Bounded /\ Unloaded /\ Gates /\ Promised

- `Rooting`: memory, the body that is being written and the file are forests, and the children of
  a memory-only checkpoint are memory-only. Without the latter the persistable part of a forest need
  not be one. Only leaves are evicted, and what expires takes its descendants along
  (`AncestryIsClosed`, `RestrictRooted`).
- `Bounded`: memory, body and file are within the limits on entries, on the history of each checkpoint
  and on the whole snapshot. A sum over a set would need induction over data, which the prover does not have;
  the number of units does not, because a smaller set has fewer (`SmallerSize`) and a disjoint union has
  the sum (`AdmitWithin`).
- `Gates`: what a flush awaits. A body that ends at its last gate, or later, was taken when the
  checkpoints it is to make durable were there. `Promised`: every image that may still replace the
  file has them.

Beside it, `Coherent` says that any two of memory, body and file agree on the checkpoints they share. As
the parents of a checkpoint are in every image that has the checkpoint, they agree on whole histories: a
restart never changes what an id stands for (`RestartsTellTheSame`), and neither does an eviction,
expiry or admission (`HistoriesStay`). And since the file has no memory-only checkpoint, it has none whose
history contains one (`MemoryOnlyStaysOffDisk`): `store: false` under the policy "memory" is kept for
whole branches, also after a crash.

### The Data Plane's life

`DataPlaneLifecycle_proofs` proves, for any listeners, requests and length of the queue:

| Theorem | States |
|---|---|
| `Invariance` | `Spec => []Inv` |
| `OneListens` | `OneListener`: one listener at most is alive |
| `StatusStaysConsistent` | `StatusConsistent` |
| `FinalizedLast` | `FinalizedAfterUnwind` |
| `LifecycleImplementsGateway` | `ImplementsGateway` |
| `OnlyLateBindsBreakTheLease` | `Spec /\ NoLateBind => []LeaseReleasedLast` |
| `TeardownRunsOnce` | `TeardownInOrder` |
| `CommandsOnlyAdvance` | `CommandsAdvance` |

They assume `LifecycleAssumption`.

    Inv == TypeOK /\ FinalizedAfterUnwind /\ Accounted /\ Matches

`Accounted` says that a listener that has not finished is the supervisor's or the one whose close
the running command awaits, and that the supervisor has none in the meantime: hence one at most.
`Matches` says which status goes with which await, as long as the Control Plane can publish; the
exceptions it makes are the publications that a closing Control Plane refuses.

`ShownIsTrue` needs `ShownInv` beside it: the application's copy differs from the status only while, or
after, a command that passes it by stops the gateway, clients are shown one of the two, and only a quit
and the teardown's stop pass it by. Every other command writes the copy with the status.

For the refinement, `InvKnowsGate` reads the gate and the requests in flight off the one listener that
has not finished; closing is a `Drain` or an `Abort` of the gateway, binding an `Open`, finalizing a
`Finish`, and whatever the supervisor, the queue and the teardown do besides is a stutter.

`OnlyLateBindsBreakTheLease` bounds the second finding: `NoLateBind` says that no listener is bound
after the teardown's own stop has ended, and then the lease is released last. The start that the run
`lifecycle_lease` shows is thus the only way. `TeardownRunsOnce` rests on there being one command of the teardown's
at most, in the queue or running; `CommandsOnlyAdvance` is the safety half of `OperationsEnd`.

### Ownership

`DesktopOwnership_proofs` proves, for any shells, builds, command lines and Backends:

| Theorem | States |
|---|---|
| `Invariance` | `Spec => []Inv` |
| `OneServes` | `OneBackendServes` |
| `ServerStaysDiscoverable` | `ServerIsDiscoverable` |
| `LeasesStayConsistent` | `LeaseConsistent` |
| `ViewersBegin` | `ViewersBeginNothing` |
| `ClisStay` | `NoShellEndsCli` |

They assume `OwnershipAssumption`, which only keeps the names apart.

    Inv == TypeOK /\ Locked /\ Unstarted /\ Informed /\ ServerIsDiscoverable /\ LeaseIsOfOwnBuild

`Locked`: from arbitration to release a Backend holds the lock, so two cannot serve, and a Backend
removes only its own discovery file. `Informed`: what a shell that is about to ask, claim or quit
still knows of the Backend in question from an earlier await - origin and build never change, so it
remains true however the Backend's phase has moved on.

### Catalogs

`CatalogRefresh_proofs` proves, for any Providers in any order, contents, generations, selections
and queues, and any number of faults:

| Theorem | States |
|---|---|
| `Invariance` | `Spec => []Inv` |
| `CatalogStaysConsistent` | `CatalogConsistent` |
| `OnlyCutOffsStick` | `Spec => [](cutOff = {} => RefreshingNeverSticks)` |
| `ServedIsPublished` | `ServedWasPublished` |
| `CacheStaysCurrent` | `DurableIsCurrent` |
| `QuarantineStays` | `QuarantineHolds` |
| `SettledStaysDurable` | `SettledIsDurable` |
| `DisposedStaysQuiet` | `DisposedIsQuiet` |
| `RunsNearTheirEnd` | `RunsCountDown` |

They assume `CatalogAssumption`: the order lists each Provider.

    Inv == TypeOK /\ Named /\ Bound /\ Transient /\ Published /\ Synced

- `Bound`: what is staged was fetched under the run's binding; while the lock is held the binding
  is current; before the commit and after the undoing the cache holds what it held when the run began.
- `Synced`: between runs live, served and cached models are the same, except of a quarantined
  Provider, which is shown as failed; within a run only the Provider that is asked differs, and the
  images taken before (`run.initial`, `run.before`) are what undoing needs. It does not hold once
  the overlay has captured by itself, a run has been dropped half-way (`catalog_stuck`) or the
  cache could not be read: these are its hypotheses, and the properties'.
- `Published`: everything that is or may again become live or served has once been in the cache.
- `Transient`: a Provider is "refreshing" only while a run works on it.

`Settling` and `Quiet`, proved beside `Inv`, carry what `SettledIsDurable` and `DisposedIsQuiet`
need: that a run past its answer ends with the cache served or a quarantine, and that a disposed controller has neither run nor queue.

`OnlyCutOffsStick` bounds the third finding: "refreshing" sticks only after a run was dropped between its
answer and its publication. `RunsNearTheirEnd` is the safety half of `DisposeEnds`: through rollbacks and
discards a run takes at most eleven steps for each Provider of its list.

### What is only model-checked

Every invariant and every action property of the passing runs is a theorem. What TLC alone checks is
liveness (`CallTerminates`, `FileCatchesUp`, `OperationsEnd`, `TeardownEnds`,
`DisposeEnds`, `DiscoveriesReachDisk`, `OrphansRetire`): fairness and `ENABLED` are outside the
prover's reach. For calls, requests, commands and catalog runs the measure that such an argument rests on is
proved (`CallsOnlyAdvance`, `RequestsNearTheirEnd`, `CommandsOnlyAdvance`, `RunsNearTheirEnd`), so
that what is left is that a step is always possible and is taken.

## 5. Not modelled

- Payloads: the text of records and documents, messages, tokens, names. Parsing and
  validation appear as the states they accept.
- `refreshProjection`, the management guard, diagnostics and observation around the
  operations that are modelled.
- `lockfile`'s own algorithm: a lock is taken atomically when it is free or stale.
- Storage of one file in itself: a rename is atomic and durable once done; a loss of power
  that undoes a completed rename is not considered.
- The in-memory record store, which serves tests.
- The order of models within a Provider, and names other than which alias stands for which model.
- Registration of Providers and the composition of their configuration: static in a Backend. The
  overlay registers one Provider anew; only its capture is modelled.
- That `assertCurrent` and the rename of the catalog cache are two steps: the model takes the
  rename to happen under the lock it asserts. A suspension between the two is the hazard that
  `record_store_stall` shows for the record itself.
- Recovery mode (a Backend that starts with an unusable configuration), and what a failed first
  quit leaves on the screen: the shell reports, the user decides.
- Which Provider requests, timers and subscriptions a teardown closes first; exit codes.
- A window that the model of ownership shows and no run states: a quit acknowledged before
  `createLifecycle` has run ends nothing (`src/application.ts:1460`).
- A run of its own for what `ShownIsTrue` excepts. The comment at `src/application.ts:1250` says that a
  republication must never resurrect a stale gateway state. A client's quit and the teardown's stop
  publish past `lastPublishedStatus`: while the quit drains, after one whose result reached nobody, and
  during the teardown's stop, the next republication shows "running" again (or a failed start).
  `ShownIsTrue` says that this is the only case.
- The parts that the inventory lists in plain type. The vendored agent is third-party code and
  makes up most of the repository's lines; the protocol handlers, which come next, translate
  payloads: what could be said of them is about the data that the models leave out.

## 6. Plan

Done, in this order, because the first holds the user's logins and the others rest on it:

1. `ProfileRecord`, `CredentialLedger`, `ProfileRecordStore` and the proofs;
2. `ProfileSwitching`, on the commits of 1;
3. `SessionState`;
4. `DataPlaneLifecycle`;
5. `DesktopOwnership`: who is the Backend, and when does it leave;
6. `CatalogRefresh`: cache, Providers and served models change together or not at all;
7. `PublicModels` and its proofs.

Next, models:

8. *Projections*: `refreshProjection`, provider usage and passive observation: what a reader is
   shown is never older than what it has seen, and a usage belongs to the account it was asked
   under. The read of a bound credential (`src/credentials/profile-authority.ts:1491`) does not compare the
   revision of an external document with the captured one, and a capture that could not read the
   document has none to compare at the publication; the model is to show what this allows when the
   document changes in between.
9. *Control Plane host and client*: publish queue, revisions, subscriptions, close.
10. *Agent integrations*: apply and restore with a crash in between.
11. *CommandCode attempts* and the *SSE life-cycle normaliser* as state machines.
12. *Diagnostics worker*, *backup and restore*.

Next, proofs: the new modules' invariants as they come.
