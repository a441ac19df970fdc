# Qri in TLA+

A model of Qri: how it writes, records, exchanges and reads back versions of
datasets, who it says the user is, and how it starts and stops. It is
model-checked with TLC on small instances; most of its safety properties are also
proved with TLAPS, for every value of the constants. Paths are under `src/`.

## The system

Qri versions datasets. Each version is a set of files in a content-addressed
store; *which* versions a dataset has, under which name, and where they were
published is recorded in the **logbook**, a journal of operations per author. The
refstore, the dscache, the working directories and the remotes each keep a part of
the same knowledge, and no transaction spans two of them.

| Part | State | Operations | Talks to |
|---|---|---|---|
| oplog (`logbook/oplog`) | a tree of logs: user, dataset, branch; each a list of operations | append, find by name, merge, remove by name | - |
| logbook (`logbook`) | the journal in memory, its file | `Write*`, `save`, `load`, `Items`, `ResolveRef`, `ConstructDatasetLog` | filesystem; publishes events |
| logsync (`logbook/logsync`) | none: two books and the calls between them | push, pull, remove; `put`, `get`, `del` at the remote | logbooks, HTTP, p2p |
| dsfs (`base/dsfs`) | the files of one package | `CreateDataset` | store, event bus |
| base (`base`) | none | save, remove, rename, list; walk stored history | store, refstore, logbook |
| lib (`lib`) | a process: CLI command or API server | the methods users call; construction, connect, shutdown | everything |
| dscache (`dscache`) | a table of heads, in memory and in a file | an update per event, rebuild | event bus, listing |
| repo (`repo`, `repo/fs`) | the refstore file | put, get, delete, list, resolve | filesystem |
| event bus (`event`) | subscriptions behind a lock | publish, subscribe, close | handlers run in the publisher |
| dsref (`dsref`) | none | generate names, parse and print references, resolve | profiles, resolvers |
| transform (`transform`) | a run's state | apply steps in a goroutine, report through a channel | event bus, logbook |
| stats (`stats`) | a size-bounded cache on disk | get, put, evict | filesystem |
| fsi, component (`fsi`, `base/component`) | working directories and their links | init, link, checkout, status, write, restore | refstore, logbook |
| remote (`remote`) | books, stores and references of two sides | push, pull, remove, feeds, hooks, access policy | logsync, dsync |
| profile, key (`profile`, `auth/key`) | two JSON files | put, get, delete, resolve | filesystem |
| p2p (`p2p`) | a libp2p host, connections, profiles of peers | go online and offline, exchange profiles, resolve | libp2p |
| registry (`registry`, `lib/registry.go`) | names and keys | register, prove, update | identity of the node |
| config (`config`, `config/migrate`) | one file, the IPFS repo | migrate, setup | filesystem |
| changes, diff (`changes`, `lib/diff.go`) | none | compare two versions | stats |
| api (`api`) | none | routes, handlers, middleware | lib |

`PROJECT.json` lists these with their status, and the parts that are not modelled.

What is hard: requests of the API server share stores without a common lock; a
method changes three or four stores one after the other and any of them may fail; a
push is recorded before it is sent, and undone when its answer does not come; logs
are removed by name while removed logs keep their names; several functions read one
log, one directory or one reference, each in its own way; goroutines hand values
over unbuffered channels whose readers may leave; a migration or a sign-up may end
between any two of its writes. `PROJECT.json` lists each hazard at its line.

## The modules

Each component has a module; an `MC` module holds what TLC needs of it (initial
states, symmetry, sets of inputs).

| Module | Models | Extends |
|---|---|---|
| `BranchHistory` | the operations of a branch log and the three folds that read it; `Versions` is the reference reading | - |
| `Oplog` | the journal as a value: lookup and removal by name | `BranchHistory` |
| `Logbook` | every writer of the book, `save`, restart | `Oplog` |
| `VersionStack` | abstract: a stack of versions per dataset and a stable copy of it | - |
| `Logsync` | one branch log at its author, a remote and a reader, and the network between | `BranchHistory` |
| `Replicas` | abstract: prefixes of a growing history | - |
| `DatasetWrite` | `CreateDataset`: files, hooks, the row goroutine, change detection, events | - |
| `Datasets` | save, rename, remove, init, checkout, link, unlink over store, refstore, logbook, directories | - |
| `Workdir` | the files of one directory, status, save, restore, write, remove, and the user who edits | - |
| `Transform` | caller, runner and forwarder of a run, the bus and its lock, the network guard | - |
| `Access` | the access policy, as a function | - |
| `Remote` | push, pull, publish, remove, feeds across two sides | `Access` |
| `Node` | a p2p node: online, offline, profile exchange, disconnects, resolving | - |
| `Instance` | construction, connect and shutdown of a `lib.Instance` | `Node` |
| `Migrate` | the start of a program on an older repository | - |
| `Identity` | name, key and account across config, profile store, logbook, references, registry | `Migrate` |
| `Dscache` | the cache as a value | `BranchHistory` |
| `Catalog` | the cache with the writers whose events it follows, and the requests that resolve and list | `Dscache` |
| `HistoryWalk` | walking stored history, revisions, the log made from it | - |
| `StatsCache` | readers, puts, eviction, the info file, edits of the body | - |
| `Profiles` | `LocalStore` and the key store against `MemStore` | - |
| `Names` | generated names, parsers and printers of references, completion | - |
| `Changes` | change reports and the modes of diff | - |
| `Api` | routes, handlers and statuses; `/get`; validation | - |
| `MCRequests` | the last seven, each on its own: `focus` is the one that moves in a behaviour | `Catalog` ... `Api` |
| `LogbookProofs`, `LogsyncProofs`, `DatasetWriteProofs`, `DatasetsProofs`, `WorkdirProofs`, `TransformProofs` | the proofs about the module each is named after | that module |
| `RemoteProofs` | the proofs about publishing and pulling, names and migrations | `Remote`, `Identity` |
| `RequestsProofs` | the proofs about stats, profiles, histories and resolving with peers | `StatsCache`, `Profiles`, `HistoryWalk`, `Instance` |

`Logbook` implements `VersionStack` and `Logsync` implements `Replicas`, each
through an `INSTANCE` with a refinement mapping. `Instance` composes the goroutines
of an instance with its node, `Identity` the methods of an account with the start of
the program, `Catalog` the logbook's and refstore's writers with the cache that
follows them, `Remote` two sides with the policy that stands between.

### State and actions

**Logbook.** `mem` is `Book.store`, `disk` the file, `located` whether
`Book.fsLocation` still names it; `req[c]` says where a request of `lib` is. A writer
appends and publishes in one step, `Book.save` is the next, and a push waits for its
answer in between. (Go promises less: two appends to one slice may race. An append is
atomic here.) `Restart` may happen at any point and loads the file. `bus` is the
event the last step published. An init ID is the rank of a log's creation, version
paths and run IDs are counted from 1, 0 is the empty string. Not there: other
authors' logs, `WriteVersionAmend` (only tests call it; the folds handle its
operation), encryption, signatures.

**Logsync.** `mine`, `theirs` and `copy` are one branch log in three books. A call is
sent, then answered or refused; a client may see a failure while its request is on
the way (`GiveUp`, `late` keeps the request), or after the remote has done what was
asked (`LoseAnswer`). The author's name is the number of operations in the user log;
`parent` is the sparse copy that `GetWithSparseAncestorsAllDescendants` leaves behind.
`Book.save` is part of each step. Removing all versions is not in this model.

**DatasetWrite.** `job` is the call, `added` what the store has; `read` and `eof` are
the tee and the pipe, `rows` the goroutine of `handleRows`. The store adds any file
whose requirements are there (`qfs.WriteWithHooks`, external). A component's content
is a number, a row is ok, invalid or broken.

**Datasets.** A step is one access of one store, so requests interleave between
accesses, and any access may fail or be the last of a process (`faults`). `spoiled`
remembers what kind of request failed, `moved` which directories were changed by hand,
or are linked with a dataset whose other directory was. `runs` are the items of a log
without a version: the transform runs of saves that failed or changed nothing. A remove
counts and pops them as it does versions, but takes versions alone from the store.
`muddled` is set once two live logs have one name, or once a remove of n versions has
met such a run, or a log with no more than n versions.

**Workdir.** The directory is a set of files per component and `dataset.json`. A
content is a number with the fields it sets, so that a save merges field by field, as
`Dataset.Assign` does; of a transform one field is the script and the others are its
configuration, which has no file. Reading the directory, status, and what a save makes
of it (patching, replacing, forced, after a transform) are functions; writing it is a
step per file.
The user creates, edits, spoils and deletes files at any point. `me[c].quiet` is kept
while nobody else has touched what a request works on.

**Transform.** Each run has its three goroutines as in `transform/apply.go`, with the
unbuffered channel between runner and forwarder; the bus's lock has readers and a
waiting writer. A script is what it calls, one step per call; a component is who made
it. The context may be cancelled and the bus closed at any point, and the save that
applied the transform may fail afterwards, for want of changes (the run is logged) or
otherwise (it is not).

**Remote.** `theirs` and `copy` are book, store and reference of the remote and the
reader. The hooks of the server and its policy are guards of the steps; which blocks
of a version have arrived when a transfer fails is a choice (dsync, external). The
reference is deleted and put in two steps when a removal rewinds it, and read, compared
and put in three when a version is pulled.

**Node, Instance.** `conn` is libp2p's view (external), `loops` the queue of events of
each subscription, `peers` and `open` the wait channels of the profile service, `discs`
the handlers of disconnects, `rslv` one resolution, in which an answer without the
reference and a lost peer are told apart, though `ResolveRef` cannot. `inst` and
`holders` are the instance and the goroutines that hold its wait group; one that runs
late reads the client the instance has by then, and panics where a later `NewClient`
failed (`lib/lib.go:747`, `:753`).

**Migrate, Identity.** `file` is `config.yaml`, `tmp` the file it is replaced by, `ipfs`
where the store is. `disk` and `cfg` are the profile on disk and in memory, `owner` and
`store` the profile store, `book` the logbook of instance, repo and disk, `reg` the
registry, `task[t]` a request. `tried` is what names have been in play since all agreed.

**Catalog.** `book`, `refs`, `stored` and `dirs` are written as by `Datasets` and
`Logbook`, a step per change; each event rebuilds `cache`, the handler reading and
assigning it in two steps. `lost` says that two handlers have overlapped.

**HistoryWalk, StatsCache, Profiles.** Goroutines and threads with their local
variables (`walks`, `stats`, `th`); a process of `StatsCache` and `Profiles` may die at
any step, leaving torn files. A reader of the stats cache looks into the map, checks the
body's properties, opens the stats file and decodes it in four steps, between which
others put and purge. `crossed` and `mixed` mark what the code does not exclude: an edit
while stats are computed; two processes in one file, or one killed while it writes.

**Names, Changes, Api.** Functions, checked against what they are to give for every
input up to the bounds: `sample`, `pair` and `request` are the inputs.

## The runs

| Run | Bounds | Shows |
|---|---|---|
| `logbook_cli` | 1 client, 1 name, 2 datasets, 2 versions, 1 run, 5 operations per branch | `TypeOK`; `QuiescentDurable`: the file has what memory has when no request is about to save; `ReadersAgree`: `Items` and `addReferencedPaths` give the versions that were saved and not deleted; `ImplementsVersionStack`: nothing but a recorded delete, a removal, or the clean-up of a dataset that shares its name, loses a version |
| `logbook_server` | 2 clients, 2 names, 1 dataset, 2 versions, 4 operations, 1 rename, failing writes | `InitKept`: rollbacks in any order never reach the init of a branch |
| `logsync` | 1 client, 2 versions, 5 operations, 2 author names, 1 late request | `ImplementsReplicas`: remote and reader hold prefixes of the author's history and only catch up; `PushPlacesLog`: a push that succeeded is on the remote |
| `dataset_write` | batches of 2, bodies of up to 4 rows, every shape of a package, every change to a previous version, failing writes | `StructureCountsBody`, `PackageComplete`; `OutcomeReported`: refused exactly when unchanged (or when the body came down from over the size limit), ended once; `SaveReturns` |
| `datasets` | 1 client, 2 names, 2 directories, 3 logs, 3 versions, 4 requests, 2 failures or crashes | `RecordsAgree`: refstore, logbook, store and link files; `HistoryReachable`: a failed save cuts no history; both while no remove has met a bare run; `InitAllOrNothing`; `CleanUpSparesHistory` |
| `workdir` | 2 clients, 4 contents of two fields, 4 ways to save, a new directory or 2 versions and 2 requests more, 2 edits, 1 failing write or crash; edits and (twice) faults and open requests bounded together (`MaxTrouble`), so that a request meets an edit, a fault or another request | `CleanMeansHead`: a clean status hides nothing but the configuration of a transform; `SettledIsClean`: an undisturbed command leaves no changes; `SaveCommitsStatus`: what the directory sets is in the new version, and shown there as status showed it |
| `transform` | 1 run, 7 plans of up to 3 steps, 2 calls per script, 1 cancel | `RunStateFollows`: the collected run is what happened; `UserComponentsKept`; `ScriptSandboxed`: no run leaves the network on, a script reads back the body it set; `RunsFinish` |
| `remote` | 2 clients of the author, 1 reader, 3 versions (the third too large), 1 removal, any number of failures, 2 policies | `FeedIsInLog`, `PushedIsServed`: what is listed or reported pushed is there; `PulledWhole`: what a reader's reference names is there |
| `instance` | 2 peers, of which one has the reference; 2 connections, 3 calls, online twice, 3 remote clients | `NotFoundMeansAll`: "not found" means that every peer asked has said so or was lost; `WaitsAreServed`: whoever waits for a profile, the handler of a disconnect above all, waits for a request that is under way; `ShutdownIsReported` |
| `identity` | revisions 0 to 3, lists of up to 3 addresses; 2 names, 2 keys, 2 threads, another user, 3 calls, 2 failures or deaths | `NothingMislaid`: the store is where the config says, addresses are merged and nobody's own is lost; `MigrationCompletes`; `SignupRepairs`: a sign-up that returns has repaired what earlier attempts left, where the references could be listed |
| `requests` | see below | one property per component |

In `requests` one component moves in a behaviour, from its own initial states:
`CachedHeadIsNewest` (2 callers, 2 names, 2 logs, 3 saves, one or two users);
`HistoryReadBack` (2 walkers of 3 versions: pages and revisions of components are
exact, beside a revision of the whole dataset too, a walker and its caller meet or
part); `StatsOfBody` (2 readers, 2 keys, room for 1, 2 edits);
`ProfilesKept` (3 threads in 2 processes, 3 calls, kills: the files answer as
`MemStore` does, a profile has its key); `NamesKept` (titles of 5 characters against a
limit of 4, every form of a reference: names are valid, references survive printing and
parsing, completion is stable); `ComparedFairly` (tables of 2 columns: a report is the
mirror of the report the other way round and of the versions its two references
resolve to, diff compares what its parameters name);
`RequestsAnswered` (every route, method and outcome, every selector and format of
`/get`, everything that can be given to validate).

The bounds hold what each hazard needs: two datasets of one name to use a name again
after a removal; five operations for an init, a run with its commit, a push and a
delete in every order; a body of four rows for two full batches and an unfinished one;
one version more than a page; one entry more than the cache holds; a title longer than
a name may be; two threads beside another process. One failure or death per behaviour
(two for sign-ups and migrations, which are to be repeated, and for `datasets`) may come at any step.
`logsync` and `datasets` have one client on purpose: with two the properties fail, and
the code promises nothing else (see below).

`CHECK_DEADLOCK FALSE` stands where requests are counted and run out; the other runs
check that a request can always go on.

### Fairness

Liveness is claimed only of goroutines, timers and retries:

- `DatasetWrite`: weak fairness of the store, of `handleRows` and of the event
  goroutine. The Go scheduler runs what can run.
- `Transform`: weak fairness of caller, forwarder and runner of every run, and of the
  writer that waits for the bus's lock (`sync.RWMutex` lets it in). A script makes
  finitely many calls.
- `Instance`: weak fairness of the goroutines that hold the wait group, wait for it and
  report. Network, users and peers owe nothing, and of `Node` no liveness is claimed.
- `Migrate`: the user starts the program again while it is to be migrated (weak), and a
  step tried again and again succeeds at last (strong). Failures are bounded as well.

Requests and crashes are never fair.

### Mutants

Every property has a mutant in `PROJECT.json`: a definition changed as a plausible bug
would change it, which the property then refutes. Where a property is a conjunction of
named parts (`RequestsAnswered`, `NamesKept`, `RecordsAgree` ...) the other parts have a
`MUTANT` operator in the module too, each seen to break the conjunction.

### What is assumed of the outside

- `WriteWithHooks` adds a file once what it requires is there; the store is
  content-addressed.
- `InternalizeIPFSRepo` copies whole or returns an error, and can be repeated; renaming
  a file is atomic; `PinsetDifference` is complete.
- `Dataset.Assign` merges field by field; `dataset.json` holds no body.
- A file's size and time change with every edit. The sort of `dscache` is stable for the
  few entries of the model; its file is written whole, and a handler reads the buffer in
  one step.
- A file lock is held per read and per write of `peers.json` and `keystore.json`, and a
  file is torn only by a kill; nobody changes a profile through a pointer `MemStore` gave
  out. Usernames in the store are distinct in `Names`.
- dsync transfers all, some or none of the blocks; libp2p delivers its events in order.
- Parameters of an API request are readable or not; what is wrong with them is not told
  apart.

## Findings

`push_rollback` is a run that is expected to fail: the rollback of a failed push takes
off whatever operation is last, here another request's commit, although the comments say
it "removes the operation" (`logbook/logbook.go:743`, `:775`, `:789`).

Other places where the code does not do what its comments or names say are modelled as
they are, and the properties are stated where they hold:

| Where | What the model does, as the code |
|---|---|
| `logbook/logbook.go:281` | `save` drops the error of its `Put` (a shadowed `err`): `QuiescentDurable` holds where no `Put` fails |
| `logbook/logbook.go:958` | `latestSavePath` gives the removed version after a delete |
| `logbook/logbook.go:1242` | a push of a dataset without versions makes the listing index at -1: `ReadersAgree` is stated where it is defined |
| `logbook/logbook.go:727` | a delete announces the oldest remaining version as the new head, and renames are not followed (`dscache/dscache.go:262`): `CachedHeadIsNewest` is about datasets without either |
| `dscache/dscache.go:302` | rebuilding copies as many references as there are users |
| `logbook/oplog/log.go:266` | a log is removed by name, removed ones included: it may be another's, with overlapping requests or once two live logs have one name; `VersionStack` has `shared` for it |
| `logbook/oplog/log.go:639` | after two overlapping pushes were taken back, the next push succeeds and is not merged: `logsync` has one client |
| `repo/fs/refstore.go:38` | references are read, changed and written back without a lock: `datasets` has one client |
| `base/dsfs/compute_fields.go:274` | when the row handler gives up with rows left, nobody reads the pipe and the save hangs: the exception in `SaveReturns` |
| `transform/apply.go:150` | after a cancel the forwarder leaves and the runner waits forever: the exception in `RunsFinish` |
| `p2p/profile_service.go:22` | `ProfileTimeout`, "how long we will wait for a response", is used nowhere: a disconnect (line 89) waits as long as the request for the peer's profile takes. `WaitsAreServed` says that there is one, not when it ends |
| `p2p/resolve_ref.go:94` | a peer that cannot be reached gives the answer of one that does not have the reference: `NotFoundMeansAll` says so |
| `lib/lib.go:751` | a goroutine of an earlier client that runs late dereferences the client of a failed reconnect: the exception in `ShutdownIsReported` |
| `base/dsfs/commit.go:225`, `:411` | the previous body is read by its own length and the new one judged by its own: a body that comes down from over the limit is not compared, and its change is refused, against "no values changed" (`base/dsfs/dsfs.go:12`): `Shrunk` in `OutcomeReported` |
| `lib/datasets.go:938`, `logbook/logbook.go:1230`, `:1237` | a transform run without a version is an item: two versions, such a run and a remove of 1 take the newest version from the store and the run off the log. `RecordsAgree` and `HistoryReachable` end there (`muddled`) |
| `lib/datasets.go:1150`, `logbook/logbook.go:1272` | a remove of all versions asks for a history of 0 items and finds none: the versions stay in the store |
| `remote/client.go:514` | a pull reads the reference and puts it without a lock: of two that overlap the older may be put last. `remote` has one pull at a time |
| `base/ref.go:109` | a list of references that fails is dropped, and the sign-up succeeds with the references under the old name: the exception in `SignupRepairs` |
| `transform/startf/sandbox.go:11` | the guard of the network is one for the process: with two runs a script may find it off in its download, or on outside it, against line 13. `ScriptSandboxed` says that no run leaves it on |
| `base/component/kinds.go:678` | of a transform only the script is compared: `CleanMeansHead` is about the script |
| `base/revisions.go:46` | a revision of the whole dataset is assigned to a parameter, nothing is returned: `RevsExact` is about components |
| `base/log.go:144`, `logbook/logbook.go:1111` | the log made from history is given newest first, where oldest first is asked for: `WalkExact` says that it is whole |
| `stats/cache.go:104` | the properties of a body are noted after its stats were computed: an edit in between gives it the stats of another (`crossed`) |
| `changes/changes.go:342` | a column of no comparable type on one side only ends in a nil dereference: the report of `Changes` panics |
| `fsi/mapping.go:71`, `lib/datasets.go:961` | errors of writing component files are dropped: `SettledIsClean` is about writes that succeed |
| `base/save.go:93` | a save patches the previous version field by field, so that a component removed from the directory, or a field taken out of a file, is in the next version all the same: `SaveCommitsStatus` is about what the directory has |

## The proofs

The proofs hold for every value of the constants that the named `ASSUME`s of the
modules allow: any clients, names, versions, bodies, plans, and any bounds. Each
invariant below that is not itself a property of a run was checked by TLC on that
module's run before it was proved.

| Module | Theorems | From |
|---|---|---|
| `LogbookProofs` | `TypeCorrect`, `InitIsKept` (`InitKept`), `DurableWithoutFaults` (`QuiescentDurable`), `ReadersDoAgree` (`ReadersAgree`), `ImplementsStack` (`ImplementsVersionStack`) | `Inductive`: `IInv`; `ReadersInductive`: `ReadInv`; `VInv` |
| `LogsyncProofs` | `Refines` (`ImplementsReplicas`), `PushDone` (`PushPlacesLog`) | `Inductive`: `SInv` |
| `DatasetWriteProofs` | `TypeCorrect`, `StructureCounts`, `PackageIsComplete`, `OutcomeIsReported` | `Inductive`: `IInv` |
| `DatasetsProofs` | `InitUndone` (`InitAllOrNothing`), `RecordsDoAgree` (`RecordsAgree`), `CleanUpSpares` (`CleanUpSparesHistory`), `HistoryIsReachable` (`HistoryReachable`) | `InvStep`: `Inv`; `WholeStep`: `Whole` |
| `WorkdirProofs` | `TypeCorrect`, `CleanIsHead`, `Settles`, `SaveCommits` | `Inductive`: `WInv` |
| `TransformProofs` | `TypeCorrect`, `UserKept`, `Sandboxed`, `StateFollows` | `SandboxInductive`, `FollowInductive` |
| `RemoteProofs` | `TypeCorrect`, `FeedInLog`, `PushServed`, `PullWhole`; `SignupDoesRepair` (`SignupRepairs`), `StoreStaysReachable` (`StoreReachable`, the first half of `NothingMislaid`) | `Inductive`: `IInv`; `Typed`, `Repairing`; `Migrating` |
| `RequestsProofs` | `StatsAreOfBody`, `ProfilesAreKept`, `HistoryIsReadBack`, `NotFoundIsAll`, `WaitsAreFetched` (`WaitsAreServed`) | `StatsInv`, `ProfilesInv`, `WalkInv`, `AskInv`, `Served` |

**Logbook.** `InitKept` says more than that the first operation is there: a branch has
at least one operation besides those that rollbacks under way may still take. That
alone is not inductive. A restart replaces memory by the file, so `IInv` adds
`Rooted(disk)`: the file's logs begin with their init (they need no room for
rollbacks, because a restart ends the pushes). And creating a dataset must not meet
a push that already speaks of its init ID, so `Allotted` says that every log and
every request only speaks of init IDs handed out. `KeptWhenLonger` and `GentleWrite`
carry the steps that only lengthen a branch, remove a log or end a request; creating
a dataset, pushing, rolling back and restarting each have an argument of their own,
about how the set of pushes in flight changes by one. `DurableWithoutFaults` needs
only that the location is never lost, and is about instances where no `Put` fails.

`ReadersDoAgree` is about the three readers of a branch log, which are recursive functions
or folds of it. What each gives for a log is stated as a table of its values at every
prefix, which is shown to exist from the least prefix where it would not. `ReadInv` says
what the logs must be like for the tables to agree: only what the Book writes
(`Recorded`), a commit that names a run only right behind a run, because
`branchToVersionInfos` puts the two in one entry, and no run ID twice in a row, for which
no ID may be newer than the last run (`BranchOK`). With those, and while the
listing stays within its slices, one operation more keeps the listing the reverse of the
versions and the paths in use equal to them (`ReadsBack`). It holds for any number of
clients: a rollback that takes another request's commit takes it from all three.

`ImplementsStack` has the hypothesis `OneClient`, as the command line has: with two a
rollback takes a commit off (`push_rollback`), which is no step of the stacks. It allows
for faults of the filesystem. `VInv` says that a log that is not there has no branch, no version
is newer than the last one saved (a new one is new), a request that may give its dataset
up has a log without versions under its name, and one whose push may be rolled back finds
that push last. The attempt at this proof corrected the abstract specification:
`Journal.RemoveLog` takes out the first log with a name, removed ones too
(`logbook/oplog/log.go:266`), so that the clean-up before a new dataset can take an old
removed log, leave the stray one, and make two live logs of one name; a later clean-up by
name then takes the first, with its versions. It takes four datasets, more than the run
has; TLC shows it there. `VersionStack` now allows a dataset that shares its name to be
forgotten, and the run passes with four datasets and three operations per branch too. In
`Datasets`, which has the refstore that callers ask first, such states are `muddled`.

**Logsync.** Both theorems have the hypothesis `OneAtATime`, that the author has one
request under way: with two they are false (see the findings). `SInv` says that every log
in a book, a call or a late request is `Near` the author's: equal but perhaps for the
record of a push at its end, and at most one longer. For a rollback to keep that, no log
may be longer than the author's while a push is under way (`PushLast`). The mapping of
the refinement, `Strip`, is a recursive function of the log: that its recursion has a
solution, and what it gives for one operation more and for a prefix, is proved from the
least counterexample (`FoldExists`, `StripAppend`, `StripGrows`). Of two logs near the
author's the longer one has the history of the other (`StripCatchesUp`), which is what
`Log.Merge` relies on.

**DatasetWrite.** `IInv` ties the counters of `handleRows`, spread over finished batches
and the open one, to the rows the store has read (`Counted`); says that each file is
there after what it requires (`InOrder`), what the dataset file refers to, that a commit
is only written where there is something to commit, and how often an end was announced.
The counting is by cardinality, so that no induction over the body is needed.

**Datasets.** `InitUndone` and `HistoryIsReachable` hold whatever fails. All but the first
have the hypothesis `OneClient`: the refstore reads its file, changes the list and writes
it back without a lock (`repo/fs/refstore.go:38`), so that two requests can lose each
other's references. `RecordsDoAgree` and `CleanUpSpares` are about accesses that do not
fail, as the properties are. `Inv` says what the
one request under way has changed so far. Its first part, `Undoing`, is about
an init: what it read is what is there, what it is to take back is what it did. `Agreed`
is the rest, while nothing has failed. `LinkInv` relates references, link files and logs:
each holds at rest, and for each step of each request it says which of them is ahead,
and by what (a rename has changed the log but not yet the reference, a save has dropped
the directory it will put back). `ChainInv` holds while the log is not
`muddled`: the versions of a log are distinct, stored, and chained by their previous
paths up to the path of the reference (`Sound`, `Kept`); a save is ahead of the log by
the version it just stored, a remove goes back along the chain one version at a time, and
what it deletes is the newest of the log (`ChainPcs`), because the plan of a remove that
would meet a bare run, or leave no version, has set `muddled`. The clean-ups remove a log by its
name: that it is a log without versions follows from `LinkInv`, which keeps for a save
that began a log that the log is still empty and still the one with the name.

`HistoryReachable` is about the states that failures and crashes leave, where the refstore
may be ahead of the logbook or the other way round, so that `Agreed` is of no use. `Whole`
gives every name a history `H[x]` of its own, a sequence of different stored versions each
of which names the one before it (`Lines`); no version is in two of them. The reference has
the end of its history and the log fits into it (`Told`): version by version, with at least
as many of the history above each of them as of the log (`Fits`), so that a remove that
takes as many off both leaves a log that still fits. The history is not the log: a save
that fails after it put its reference leaves a version in the one that is not in the other.
For the name of the request under way `HistPcs` says instead how far the request is with
the three. A rename or remove that fails ends the claim (`Clean`), and so does `muddled`.
`Reaches` is a recursion over a map that is not known to be well-founded: that it has a
solution is shown by the least set closed under it (`BackIs`), and that the versions of
`H[x]` are in every solution by the least place in the history that is not (`LineReached`).

**Workdir.** `WInv` says what a stored version and a directory can hold (`StoredOK`,
`DirOK`: a component is in its own file or in `dataset.json`, and what formats allow),
and for each client how far its call has got with the files of its version while nobody
else touched them (`ClientOK`). Six components with a file each make the long list of
lemmas: what reading a directory, status and the merge of a save give after one file was
written or deleted. `DirOK` also says that `transform.star` holds a script and no
configuration. That contents are closed under merging fields and under taking the script
alone is `FieldsAssumption`.

**Transform.** Two invariants. `SandboxInv`: who made each component of a run, and that
the network is on only for a runner inside its download function. `FollowInv`: where each
event is on its way from the runner over the forwarder and the bus to the run state, as
long as the run was not cancelled and the bus not closed.

**Remote.** While requests are under way log, store and refstore of a side are behind one
another in a fixed order: `LogFirst`, `StoreNext`, and for the reader `PullInLog` and
`PullInStore`. All but the last hold while nothing was removed, as do the properties.

**Identity, Migrate.** Both theorems are about a program that is started on the repo an
earlier release left (`IdentityInit`), with any requests, failures and stops.
`SignupRepairs` speaks of the records only at the end of a signup, so `Repairing` says
where they can be before. It names what all of them last agreed on, a name `b` and an ID
`i`; as long as no name but `n` was asked for since, every record has `b` or `n` and the
ID `i`, and they change in one order: the references and the logbook first (`Renamed`),
then the owner, then the configuration in memory and on disk (`DiskSide`, `UpSide`). A
request has the name `n` and has come as far along that order as its step says
(`TaskSide`); a signup that is about to write the configuration has all the others behind
it, and the write is the last of them. While it renames the references each one has the
new name, is gone, or is still on the list. The steps that
replace the ID (`ProveProfileKey`) are those after which two names or more were tried.
`Typed`, that a program that runs has a profile, an owner and a logbook, is what the
steps need of the types.

`Migrating` says that what a migration is about to write is one revision ahead of the
file, and that from revision 2 on the copy is there before it is written; the original
goes only at revision 2 and only where nothing else is pinned. That a torn file is no
configuration (`TornIsNone`) is a hypothesis, about the constant that stands for one.

**StatsCache, Profiles, HistoryWalk.** The theorems are about `StatsSpec`, `ProfilesSpec`
and `WalkSpec`, the specifications of the three components, which the run `requests`
takes through `focus`.
`StatsInv`: properties that were noted, in memory or in the file, are of an earlier body
or the stats file is not of another; and a request between its look into the map and its
decoding has noted what then or later was true of a body. `ProfilesInv`: what each thread holds between
reading and writing a file is what the file says, by the mutex. `WalkInv`: the offset
counts down with the path and the limit with the list, so a listing holds the page as far
as its walker has come, and a walker that is done has listed all of it; a caller that
gives up changes neither. What `LoadRevs` returns is a recursion over the history: a table
of its versions is shown to exist, by the least length without one, and what is known
after each version to agree with the number of newer versions that have the component.
The lemma `RevsFound` holds for any two generations, `RevsExact` asks for those up to 2.

**Instance.** `AskInv`: the counter of `ResolveRef` is the number of answers it has not
read, and an answer without the reference is of a peer that does not have it. It needs
that the peers are finitely many. `Served`: every open channel has a request under
way that will close it, whoever waits on it.

What is only model-checked:

- liveness under fairness (`SaveReturns`, `RunsFinish`, `ShutdownIsReported`,
  `MigrationCompletes`), which is out of the prover's reach;
- functions that are compared with a reference definition over bounded inputs, without a
  step to reason about: `NamesKept`, `ComparedFairly`, `RequestsAnswered`;
- that a migration merges the addresses (`AddrsMerged`, the second half of
  `NothingMislaid`): the merge is a fold over the list, whose array its rounds shift;
- `Catalog` (`CachedHeadIsNewest`): the cache is a sorted sequence and the head of a log a
  fold over its operations.

## Not modelled

- `cmd`: flags, prompts and printing around the methods of `lib`; it keeps no state.
- Body formats, detection of formats, SQL, rendering of readmes and vizzes, archives,
  previews: conversions, most of them in external libraries.
- Encryption, signatures and tokens, the flatbuffer encodings, HTTP framing, the
  websocket of the API.
- The watcher of the filesystem (`watchfs`): what it reports depends on the platform.
- The p2p transport of logsync but for its waits (the same protocol over another stream;
  `Node` has the stream), the deprecated p2p messages, search.
- The fields of the configuration and their validation.

## Plan

What is left is what is only model-checked above: `AddrsMerged` and `CachedHeadIsNewest`
each need what a fold gives for lists of every length, and with it an induction that the
prover cannot instantiate.
