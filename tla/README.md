# A verification development of anhur

anhur turns folders of content (Markdown, MDX, YAML, JSON...) into typed
JavaScript modules: a config names collections with a schema, a build validates
every document, runs transforms, and writes modules, declarations and an index
into an output folder that the application imports. The same engine runs once
(`anhur build`), in a watch session (`anhur watch`), and inside a Vite dev server.

What is hard about it is not the modules it prints but what it promises while
it works incrementally: several processes may build one folder, any of them may
be killed, files change while they are read, and nearly every stage remembers
something from the build before. This folder holds TLA+ models of those parts,
TLC runs that check them on small instances, and TLAPS proofs of what matters
most. All paths below are relative to `src/`.

1. [The system](#1-the-system)
2. [Modules](#2-modules)
3. [Runs, and what they show](#3-runs-and-what-they-show)
4. [Bounds](#4-bounds)
5. [Fairness](#5-fairness)
6. [What is proved](#6-what-is-proved)
7. [Where code and documentation disagree](#7-where-code-and-documentation-disagree)
8. [What is not modelled](#8-what-is-not-modelled)
9. [Plan](#9-plan)

To check a model: `tlc -config OutputWriter.cfg MCOutputWriter`. To check the
proofs of a module: `tlapm OutputWriterProofs.tla`.

## 1. The system

    CLI  ──►  Watcher ──┐                        ┌─► OutputWriter (diff writer)
                        ├─► Engine (buildPermit) │       one per output
    Vite dev server ────┘      │                 │   under OutputWriter.lock
                               ▼                 │
          ConfigLoader ─► Collector ─► transform ─► relations ─► derive ─► scope
                            │   │                               ─► publishAll
          document store ◄──┘   └─► validation workers
          field cache

A build is one pass through the engine (`runBuild`,
`packages/core/src/engine/engine.service.ts`). Inside one process a permit
(`buildPermit`) keeps builds apart; between processes only the lock file beside
each output folder does.

| Component | State it keeps | Operations | Talks to | What is hard |
|---|---|---|---|---|
| **Output writer** `engine/output-files.ts` | the output folder, its manifest, per session an `OutputState` (manifest, its signature, folder mtimes, the plan's revision) | `writeOutputFiles`, `currentManifest`, `saveManifest`, `removeStale`, ownership check | called by `publish` while it holds the lock | killed or failing between any two file operations; a memory that another process made stale; the order of index and modules; case-only renames |
| **Output lock** `engine/output.service.ts` | `<output>.lock` with pid, host, token, time | `lock`, `clearIfStale`, heartbeat, release, keeping the lock of a write that does not stop | `publish`, `publishAll` | every file system call is a separate step; a pid means nothing on another machine; time limits |
| **Publication** `engine.service.ts:742-` | which outputs are locked and written | `publishAll`, `publish`, hooks before and after | lock, writer, plugins | several outputs, several processes, orders that differ, a failure in the middle |
| **Watch session** `watcher.service.ts` | watched folders, their fibers, a queue of changes | `run`, `sync`, `watchEarly` | engine, file system events | the first build runs while nothing is watched; a folder is deleted and made again |
| **Vite dev server** `packages/vite/src/index.ts` | `DevServerState`: timer, building, pending, failing, targets, the promise `settled`; the session shared by servers | `configureServer`, `onFileEvent`, `rebuild`, `syncWatched`, `hotUpdate`, `release` | engine, Vite | events, timers, builds and hot updates in any order |
| **Validation workers** `validation-pool.ts`, `worker/validation.ts` | workers, batches, results | start, send, receive, limits, terminate | collector | a document can block its thread for ever; threads die, answer late or never |
| **Collector** `collector.service.ts` | session cache of documents with signatures and dependencies | discovery, `checkFile`, `reuseUnchanged`, `validateFresh` | stores, workers, plugins | an mtime that does not tell two edits apart, dependencies that change between read and check, a tree that changes while it is walked |
| **Document store, field cache** `document-store.ts`, `field-cache.service.ts` | files shared by processes and by builds | lookup, save, clean-up | collector | killed while writing; clean-up against use |
| **Config loader** `config-loader.service.ts` | the project, and a record of every module the config is made from | `load`, `inspect`, `resolveProject`, `setup` of plugins | engine, Vite, Watcher (targets) | modules that change, appear or move while they are read; two readers that share the records; options that collide only in combination |
| **Transforms, relations, uniqueness, views, scopes** `transform.ts`, `relations.ts`, `constraints.ts`, `derive.ts`, `scope.ts` | what each stage remembers of the last build | one pass each | engine | reusing a result must equal computing it again |
| **Code generation** `codegen.ts`, `serialize.ts`, `naming.ts` | none | plan of files with ranks and texts | output writer | unique names, imports that are closed |
| **Asset plugin** `packages/assets` | the asset folder and its manifest, the storage, per session what it left there | hash, copy, upload, prune | hooks of `publish` | a file that changes between hash and copy, a folder another session changed, partial uploads and deletes |
| **Release script** `scripts/release.ts` | versions, lockfile, builds, what npm has | set a version, gate, publish | npm | failing in the middle, answers that are lost, starting again |
| **CLI, loaders, compilers, search index, schemas** | none that outlives a call | | | little: sequential, or pure |

For each, the properties that make it correct:

- *Writer*: the manifest never gives a hash to a file with another text, no
  file is ever lost sight of, an index never points at a module that is not
  there, nothing that has to be written is skipped, success means the plan is
  on disk.
- *Lock*: a fresh lock of a living build is not taken from it, who waits is
  answered, a dead builder's lock goes.
- *Publication*: main output and scopes are of one version of the content.
- *Watch session, dev server*: an edit is built in the end; nobody is told a
  change is built before it is; nobody waits for ever.
- *Workers*: the pool ends, after its threads; a result is never taken twice; a
  file that blocks is not run again in the main thread.
- *Collector and stores*: what is reused is what would be computed from the
  files now.
- *Incremental stages*: the same, of every output; and nothing is refused, or
  done again, because of what is remembered.
- *Config loader*: the project is the one the files make; nothing it exports
  collides; exactly the files it names are found.
- *Asset plugin*: what is published points at files that are there and stored;
  what was copied can be pruned.
- *Release script*: what is on npm can be installed, and a release that failed
  can be finished.

`PROJECT.json` lists every part with its sources, and the hazards of the code
line by line with the properties that cover them.

## 2. Modules

One module per component, one `MC` module per component with its small
instance, and a module of proofs where there are any.

| Module | Models | Extended by |
|---|---|---|
| `OutputWriter` | the diff writer | `MCOutputWriter`, `OutputWriterProofs` |
| `OutputLock` | the lock file | `MCOutputLock`, `ConcurrentPartsProofs` |
| `Publish` | `publishAll` over several outputs and processes | `MCPublish`, `PublicationProofs` |
| `Watcher` | the watch session of the CLI | `MCWatcher`, `ConcurrentPartsProofs` |
| `ViteDevServer` | one Vite dev server | `MCViteDevServer`, `ViteDevServerProofs` |
| `ValidationPool` | the worker pool and its threads | `MCValidationPool`, `ConcurrentPartsProofs` |
| `DocumentReuse` | documents made again or reused, the store, the field cache | `MCDocumentReuse`, `DocumentReuseProofs` |
| `Stages` | what each stage makes of its input, as functions | `FreshBuild`, `IncrementalBuild` |
| `FreshBuild` | the abstract specification: builds that remember nothing | instanced by `IncrementalBuild` |
| `IncrementalBuild` | the stages with what a session remembers | `MCIncrementalBuild`, `IncrementalBuildProofs` |
| `Resolve` | `resolveProject`, and the names codegen emits, as functions | `ConfigLoader` |
| `ConfigLoader` | loading and inspecting the config | `Project` |
| `ContentFiles` | the globs and the places of a walk in them, as functions | `Project` |
| `Project` | the loader and the walk over the content, composed | `MCProject`, `ProjectProofs` |
| `Assets` | the asset plugin | `MCAssets`, `AssetsProofs` |
| `Release` | the release script | `MCRelease`, `PublicationProofs` |

`Project` composes the loader and the walk in one state machine: a walk begins
from the project that is loaded. The other modules lean on each other by what
they promise, not by `INSTANCE`: `OutputWriter` has one `writer` at a time
because `OutputLock` describes who that is; a `WriteMain` or `WriteScope` step
of `Publish` is a whole call of `OutputWriter` (done, failed half way, or
nothing done) and its locks are those of `OutputLock` as long as holders
refresh them; `Write` of `Assets` is that call too, and its `Lock` that lock;
`Watcher` and `ViteDevServer` see a build as "read the config, read the content,
end"; the documents `IncrementalBuild` begins with are those `DocumentReuse`
returns, and its `Publish` step writes to each target what `OutputWriter` brings
to disk.

### OutputWriter

`disk` is what each path holds, `manifest` the parsed `.anhur-manifest.json` file or
`None`. A text stands for a file's contents and for its hash; `Unknown` is the
empty hash the manifest gives to a file that is about to be written. `mem[s]`
is the `OutputState` of a session: the manifest it remembers, `known` (the
signature it remembers is that of the manifest on disk), `verified` (it has
looked at the files once), `folders` (would `folderState` find the folders the
same now, changed, or changed so recently that the mtime cannot tell), and
`revision` (the plan it wrote last). The other variables are the locals of
the one running call of `writeOutputFiles`.

| Action | Code (`output-files.ts`) |
|---|---|
| `CheckOwnership` | `checkOwnership` reading the manifest before the lock |
| `FastExit`, `BeginWrite` | the early exit, then the diff: what to write, what is stale |
| `RefuseWrite` | an unsafe path or link |
| `ListPending`, `ListPendingFails` | the first save: every pending file with an unknown hash |
| `WriteFile` | temp file and rename, then the hash into the manifest in memory |
| `Stop` | an abort, or a failed file: what is in work ends, nothing is started |
| `RemoveStale`, `RemoveStaleFails` | stale files, case-only renames before the writes |
| `EndWrites`, `Finish`, `FinishFails` | the last save and the look at the folders |
| `Rescue`, `RescueFails` | the save in the failure path |
| `Crash`, `UserEdits`, `UserDeletes`, `UserDeletesFolder` | around the writer |

### OutputLock

`lock` is the file: whose it is, whether its token is that of its process's
current call, whether the pid is dead, whether it is old. `pc` walks through
`lock` (create by hard link, read, read again, remove, wait), the write, and
the finalizer (stop the heartbeat, read, remove). `same[p]` is false once the
file was replaced after `p` read it, so every act on an outdated read is
visible. `beat` is the heartbeat fiber: asleep, or between its read and its
rename. `KeepLock` is a write that was told to stop and did not;
`GiveUp` is a build interrupted while it waits; `GrowOld` is a lock nobody
refreshed for `STALE_LOCK_MS`.

### Publish

`out` is the version of the content an output was made from, or `Mixed` after a
write that failed half way. A build locks its scopes in the order of its config
(`LockScope`), then the main output (`LockMain`), writes it, runs hooks,
unlocks it (`HooksAreDone`) and writes each scope (`WriteScope`). Every step
can fail (`...Fails`) or be the last (`Crash`); closing the scope releases the
locks.

### Watcher

Two fibers: `build` (build, sync, wait for a change, debounce, build again) and
`early` (polls while the first build runs and syncs as soon as the config is
loaded). `watching` are the folders with a running watcher, `active` the list
the code keeps, `targets` what it last computed, `permit` who syncs. A folder
stands for its files. Only a watched folder has events.

### ViteDevServer

A step is what JavaScript runs between two awaits. `server` is
`DevServerState`, `open` the promise `settled`, `pc[r]` where a call of
`rebuild` is (several may overlap while no config was ever loaded), `snap` what
the running build read, `attempted` what finished builds have dealt with (built
or reported as failed), `hot` the `hotUpdate` calls of Vite that wait for
`settled`. Every version of the config names folders of its own (`Named`). The
engine knows them as soon as the config is loaded (`watch`), the server takes
them over only when the build is over (`server.targets`, in `SyncWatched`), and
an event of a file that is no target then is dropped. `taken` is the history of
what the server took up, `healthy` whether it started with a config that loads.

### ValidationPool

`worker[w]` is what the pool believes of a worker, `thread[w]` what its thread
does, `mail[w]` a message not yet received: the three differ all the time, and
that is what the properties are about. Blocking files never give back their
thread; a thread can die, load late or never.

### DocumentReuse

One document is made from its own file, from files its pure fields report and
from files a cached field reads; a config stands for everything else it is made
with. `state` and `text` are what `stat` and a read show of a file; a stamp is
coarse (`TimeStep`), and `ProvesUnchanged` with its window (`RacyWindow`) is
`file-signature.ts`. `cache` is a session's memory, `store` and `fields` the
folders all sessions share, `job` the work on a document: `CheckFile` (by
`stat`), `CompareContent` (by its text), `DependencyChanged`, `Reuse`, or
`Load`, `Lookup`, `CompileReads`, `KeepField`, `Finish`, `Fail`. `Written` can
be lost, `Cleanup` removes what another session may want, `Replace` moves an
older file over one. `seen` are the texts a file had since the build began, and
`hasty` the files of cached fields of whose stamps an edit cannot be told: these
are compared by their stamps alone.

### Stages, FreshBuild, IncrementalBuild

`Stages` defines, for callbacks that are constants, what transforms, `prepare`,
scopes, references, uniqueness, views and the output plan make of documents.
The documents of a source are a function on its files: the code keeps them in
the order of locale and path, so the order carries nothing, unless a `prepare`
hook returns them in another order or one of them twice
(`engine.service.ts:539-564`), which is left out. A unique value comes in its
bucket (`Uniq`), that of a source, a locale or the project.
`FreshBuild` is the specification one would like to rely on: a build takes the
content as it is and writes what the stages make of it, or changes nothing.
`IncrementalBuild` is the code: documents are objects, `memory` is what each
stage keeps of the last build (`TransformMemory`, `RelationMemory`,
`DeriveMemory`, `PlanMemory`), and every stage decides by it what to do again:
`Validate`, `TransformDocument`, `AfterTransforms`, `Prepare`, then for each
target `LinkSource`, `Derive`, `PlanTarget`, and `Publish`. A view with
`generate: { cache: false }` (`CachesViews`) is resolved anew at every build, and
a plan with such a view has a revision of its own (`IsAnew`). A build can fail or
be interrupted at any of them (`Fail`), and what it had replaced in the memory
stays replaced. `IncrementalBuild` implements `FreshBuild` under the refinement
mapping that takes `project`, `text` and `output` as they are and for `taken`
what the running build read.

### Resolve, ConfigLoader, ContentFiles, Project

A name is its words and how they are written, a path its folders, a config the
record of its entries. `Accepted` are the checks of `resolveProject`,
`ResolveProject` what it returns, `Symbols` the table it checks for collisions
and `Emitted` what codegen makes of the project: two translations of two files,
which a run compares.

`ConfigLoader`: `disk` is what every module holds, `records` what a session
remembers of modules (and `resolvedWith` the lockfile it remembers it for),
`jobs` a `load` and an `inspect` that can overlap. `ReadModule` is one round of
`collectSources` (a module and the packages it imports), `Collected` its end,
`ImportConfig` jiti and `resolveProject`, `RunSetup` the plugins, with the
check of the asset folder (`SetupOk`).

`ContentFiles` says when a folder is entered: a `stage` is the set of places in
the patterns where a walk stands. `Project` walks, for all sources at once, four
at a time: `ReadFolder`, `CannotRead`, `ListingFails`, `EndLocale`, and for a link
the calls that the code makes of it one by one, `LookAtLink` (`stat`), `FindTarget`
and `FindRoot` (the two `realpath`), `EnterLink`. A task holds a path with links
on it, and every call goes through them anew (`Route`, `KindAt`, `RealIn`), so
what is read is what the path leads to by then; roots, folders of locales and
files of singletons may be links too. `seen` are the trees since the discovery
began, while the user edits.

### Assets

A copy is named by its file and the hash of its text. `folder`, `manifest`,
`mtime` are the assets folder, `storage` the bucket, `session[p]` the hashes,
the `FolderRecord` and the `stored` keys of a session. A build hashes
(`CheckAssetFile`), takes the lock, copies (`CopyAssets`, `CopyOne`, `Record`),
uploads (`SyncOne`), publishes (`Write`) and prunes (`PruneAssets`, `PruneOne`,
`EndPrune`, `FolderMtime`, `PruneStorage`). Each write of the manifest can fail
(`ManifestFails`): the manifest is the one before, the folder may be touched.
`IsSettled` is what lets it look at nothing. `taken`, `unrecorded` and `lost`
only record what the properties except: copies the user took away, copies of a
session that could not write the manifest, and keys that are known although they
were deleted.

### Release

A command is a list of steps (`Plan`); each step can fail, and the process can
be interrupted between two. `npm` is what npm took, `visible` what it shows.
`SourceOk`, `DistOk` and `PackedOk` are the gates, `Staged` what is packed.

## 3. Runs, and what they show

`pass` runs find no violation.

**writer** (`OutputWriter.cfg`) - two sessions, three plans, one folder, on a
case-sensitive file system, with kills, failures of every save, removal and
write, hand edits and deletions.
- `ManifestTruthful`: no file is listed with the hash of a text while another
  generated text is there. This is what lets the next build skip it.
- `NothingOrphaned`: every file a build ever put there is listed, or the folder
  is one the next build adopts. This is what lets the next build remove it.
- `IndexPointsAtFiles`: the index on disk imports modules that are on disk, in
  the middle of a write, after a kill, after an abort.
- `FastExitSafe`: whenever the early exit would be taken, the folder holds the plan.
- `SuccessMeansOnDisk`: what a call that succeeds leaves.

**lock** (`OutputLock.cfg`) - two processes on two machines, a kill, lost
heartbeats and removals.
- `TakenOnlyInAWindow`: a fresh lock of a living build is lost only to a
  process between a look and an act; the three windows are named in the module.
- `WaiterIsAnswered`, `KilledHolderIsCleared`: the loop of `lock` ends; the
  lock of a dead process of this machine goes. Both except a build that fails to
  remove a stale lock again and again, which the code really repeats for ever.

**publish** (`Publish.cfg`) - two builders, two scopes in both orders, two edits.
- `OutputsAgree`: main output and scopes are of one version when nobody writes
  and the last build that wrote something succeeded.
- `ScopesStayLocked`: who writes has all scopes locked, also after the main
  output was unlocked. (The argument behind `OutputsAgree`.)
- `BuildsEnd`: opposite lock orders do not hang.

**watcher** (`Watcher.cfg`) - a config that names another folder after an edit,
a folder deleted and made again.
- `EditsAreAccountedFor`: an edit that was seen and is not built yet is reported,
  queued, or in what the running build still has to read; a session that waits
  judges events by the folders its config names, and watches no other.
- `WatchedEditsAreBuilt`, `FoldersAreWatchedAgain`: what follows in the end.

**vite** (`ViteDevServer.cfg`) - one server from `configureServer` to release,
with a good or a broken config at first, and edits of the config that drop the
folder of a file and name it again.
- `SettledMeansBuilt`: while `settled` is resolved, a build that began after the
  latest edit the server took up has ended, for every target. After a broken
  start, where two rebuild loops can overlap, when both have ended.
- `EditsAreBuilt`: an edit of a target, or of any file before the server is
  ready, is built in the end, unless the file is no target any more. Edits whose
  event comes while the file is no target are dropped, also when a running build
  has just named its folder (section 7).
- `HotUpdatesReturn`: nobody waits for `settled` for ever.

**pool** (`ValidationPool.cfg`) - two workers, three batches, two blocking files.
- `NothingRunsAfter`, `PoolResolves`: it ends, after its threads.
- `BlockersAreNotGivenBack`: what it gives back to the main thread.

**reuse** (`DocumentReuse.cfg`) - a session that builds as often as it likes
next to a store that others share, one document, edits at any time.
- `ProvenIsCurrent`: whenever `stat` alone would prove a file unchanged, the
  entry was made from what the file holds.
- `DocumentsAreCurrent`: a build returns documents of texts that were there
  since it began, reused or not. Both except a file that only cached fields read
  while an edit is hidden in its stamps (`hasty`, section 7); of the document
  and of files of other fields, every edit is seen.
- `UnchangedIsNotRead`: after a good build of settled files nothing is read again.

**pipeline** (`IncrementalBuild.cfg`) - authors, posts that embed one, a scope,
a view, a `prepare` hook, a transform that reads the other source, two configs,
builds that fail.
- `WritesWhatAFreshBuildWould`: `IncrementalBuild` implements `FreshBuild`.
- `OutputIsCurrent`: while nothing changed since a good build, every target
  holds what a build from nothing would write.
- `RefusedForAReason`: a refused build has a problem in what it read.
- `UnchangedIsNotRedone`: when nothing changed since a good build, no cached
  transform runs and every file planned is the one that is there; if every view
  is cached, every plan has the revision that was written. (One config caches
  the view, the other does not.)

**project** (`Project.cfg`) - a config with a helper and a package that becomes
a workspace package, edited while it is loaded and inspected; content edited
while it is walked; and 6,079 configs that are loaded once.
- `LoadedIsCurrent`: a load during which nothing changed gives the project that
  the files make, whatever was remembered.
- `NamesAreUnique`: what codegen emits for a project that was accepted has names
  of its own, files also where case is not told apart.
- `EmbedsComeFirst`: what is embedded is linked before what embeds it.
- `DiscoveredIsThere`: a discovery without errors has every file that is named
  and whose path led through the same folders throughout, and only files with a
  name that is wanted that were there at some time; of a path that was the same
  throughout, only what is named: nothing behind a link to a folder on the way.

**assets** (`Assets.cfg`) - a session that builds and prunes the storage, one
that develops and uploads, two files and one that may not be used; copies,
removals, uploads and writes of the manifest fail.
- `PublishedAreThere`: at every moment, the copies that the generated modules
  point at are in the folder and are what an app is shipped with.
- `CopiesAreListed`: between builds the manifest lists every copy there is, but
  for those of a session that was killed or could not write the manifest.
- `PublishedAreStored`: what is published for the storage is stored, but for
  keys that a batch deleted in part or another session deleted (section 7).

**release** (`Release.cfg`) - two packages, two versions, three faults.
- `PinsAreOnNpm`: what is on npm can be installed, whatever failed.
- `InvalidIsNotPublished`: nothing goes out that a gate would refuse.
- `ReleaseCompletes`: a release that is started again and again ends.

**config_lost** is the `violation` run: section 7.

Every property of a passing run has a mutant in `PROJECT.json`: a definition of
the model changed the way a bug would change the code, after which TLC finds
the property violated. The mutated forms are operators of the modules, next to
the definitions they stand in for (`RecordAsBefore`, `StaleOnAnyHost`,
`ForgetWhileBuilding`, `SettledAtOnce`...), so that a reader sees which line
carries which property. The type invariants of `ViteDevServer`, `Watcher`,
`ValidationPool`, `DocumentReuse`, `Stages`, `IncrementalBuild` and `Release`
say what their variables hold and are not part of the runs.

## 4. Bounds

- *writer*: two sessions (anything a third does to one of them, the second
  can), three plans that between them change, remove, add, and rename in case
  only; a file no text of which can be told by its size (`MCSize`), the worst
  case for the size check; one file (`UserFiles`) the user edits or deletes, as
  often as he likes; two writes in work at a time (16 in the code). There is
  no bound on the number of builds, kills or failures: the state space is
  finite by itself. `MCView` drops what a session remembers under a manifest
  that is no longer on disk, because `currentManifest` reads that again before
  anything else is used; sessions are symmetric. Both are only used by safety
  properties.
- *lock*: two builds per process (a lock that an earlier build of the same
  process left behind is the interesting case), one kill, `MaxWaits` = 1 look
  at a lock in use. Three processes only add waiters; each pair of windows
  needs two.
- *publish*: two builders are enough for opposite lock orders and for one
  build to come between another's outputs; the proofs hold for any number.
- *watcher*: two content folders, of which the config names one before and
  the other after its edit; two edits per folder (one that is built, one that
  races), one folder deletion.
- *vite*: one content file and the config, each edited twice; the first edit of
  the config drops the folder of the file and the second names it again. Two
  loops and the first build: a third loop would only overlap as the second does.
- *pool*: five files in batches of two, so that the last batch is a single
  file; two workers at first, four in all; blockers in two different batches.
- *reuse*: one session in full next to what others leave in the store (lost and
  cleaned-up entries), two texts, a file of every kind. There is no bound on
  builds or edits: `MCView` keeps of the times their distances, and of an entry
  what `stat` can prove with it. `MaxTime` and `MaxReplaces` are never reached
  under that view. Two texts are enough for an edit to be hidden and to be undone.
- *pipeline*: two texts and two configs, one of which caches the view; four
  events (edits, restarts, failures), enough to change a thing, fail, and change
  it back. A build works on what it read at its beginning, so edits during its
  stages are made before `Publish` (`EditsBetweenStages`).
- *project*: two edits of modules and one of the tree (which may lead a link
  elsewhere, or put links in the place of two folders), one inspection, one
  failing listing; an import chain as long as `MaxModules`. `MCEdits` does not
  mix edits of the config with a walk: a walk works on the project it began with.
- *assets*: three builds (a session finds what another did between two of its
  own), two edits, a clock of two steps (the same and another), and two things
  that happen around the builds, one of which goes wrong. `MCSteps` leaves out
  orders that make no difference and says which. Texts are symmetric.
- *release*: two packages, one pinned by the other, and two versions; two
  failures of any step.

`CHECK_DEADLOCK FALSE` is in the runs of `OutputLock` and `Assets` (all builds
used up), `Watcher`, `ViteDevServer`, `IncrementalBuild`, `Project` and
`DocumentReuse` (nothing left to edit) and `ValidationPool` (resolved).
`OutputWriter`, `Publish` and `Release` never stop.

## 5. Fairness

Only steps the code itself brings about are fair; nothing is assumed of users,
edits, kills, failures or the threads of workers.

- `OutputLock`: the steps of `lock`, of the write (`WRITE_TIMEOUT`) and of the
  finalizer are taken, each of which may fail (weak fairness). Nothing says that
  a removal ever succeeds. A stale lock that cannot be removed makes the loop of
  `lock` spin: the failure is ignored (`output.service.ts:267-273`) and the path
  neither sleeps nor counts its waits (323-325). That is what the code does, and
  its hazard in `PROJECT.json` (`output.service.ts:326`) says so; the two
  liveness properties except just the builds whose removals fail again and again
  (`KeepsFailingToRemove`).
- `Publish`: a build that runs goes on, because waiting for a lock, writing
  and hooks have time limits (`LOCK_WAIT_MS`, `WRITE_TIMEOUT`, `HOOK_TIMEOUT`).
- `Watcher`: events of watched folders are delivered, builds end, the poll
  goes on. The early sync and the sync after a build compete for a permit that
  is handed on in order, hence strong fairness of `SyncBegins`.
- `ViteDevServer`: events are delivered, timers fire, builds end, promises
  that are resolved go on.
- `ValidationPool`: messages are received, `START_TIMEOUT_MS` and
  `BATCH_TIMEOUT_MS` fire, `terminate()` ends or `STOP_TIMEOUT_MS` does. Not:
  that a thread does anything.
- `Release`: steps end, npm shows what it took, and the operator starts a
  publication again and again (strong fairness of `Start`): the property is
  about resuming.

The other modules have safety properties only.

## 6. What is proved

TLAPS proves the following for every value of the constants that satisfies the
named assumptions. TLC finds each of the inductive invariants to hold in the
states of the component's run. Beyond the types, none of the properties is
inductive as it stands; what had to be added, and why, is what each paragraph
says. The bounds of the runs
(`MaxEdits`, `MaxKills`, ...) are only natural numbers here, however large.

**OutputWriterProofs** (from `Markers`, `PlansAreComplete`, `FileFacts`,
`IndexesAreClosed`). A first invariant, `Inv`, gives
- `TypeOK` (`TypeCorrectness`),
- `ManifestTruthful` (`ManifestIsTruthful`),
- `NothingOrphaned` (`NothingIsOrphaned`).

A build starts from the manifest in its *memory*, so `Inv` says when that is the
one on disk (`KnownIsCurrent`, `WriterKnows`); it works on the manifest it is
going to save, so that one has to be truthful and complete as well at every step
(`RecordedTruthful`, `RecordedComplete`); and a file may be moved into place
only while the manifest on disk already lists it with an unknown hash
(`PendingUnknown`), which is what the first save is for. A second one, `DiskInv`,
says what the sessions know of the files themselves, and gives
- `IndexPointsAtFiles` (`IndexesPointAtFiles`),
- `FastExitSafe` (`FastExitIsSafe`), if `CaseSensitive`,
- `SuccessMeansOnDisk` (`SuccessIsOnDisk`), if `CaseSensitive`.

A planned file that is not pending is on disk (`WrittenIsThere`); after an abort
that can be said only of the files whose rank is below one that is still in
work, which is just what an index needs of its modules. The early exit relies on
what a session saw when it verified: as long as the folders look the same, the
files that its manifest lists are there (`SameIsThere`, and for the manifest in
work `WriterSameIsThere`) and are those of the plan it wrote (`SameIsAsPlanned`).
`CaseSensitive` says that no two paths lead to the same file. The hypothesis is
needed: two paths that differ by case share an entry elsewhere, and one of the
two is then what a removal or a failed rename leaves (section 7). The proofs of
`ManifestTruthful`, `NothingOrphaned` and `IndexPointsAtFiles` do without it.

**ConcurrentPartsProofs**, of the lock (from `Bounds`):
- `LockTypeOK` (`LockTypeCorrectness`),
- `TakenOnlyInAWindow` (`LockIsTakenOnlyInAWindow`), an action property.

`same[p]` is the history of whether the file still has the text that `p` read.
While it does, what `p` is about to remove is the lock it found stale
(`SameIsStale`); while it does not, the lock there is somebody else's
(`OthersReplace`). With these a step that ends a fresh lock of a living process
is shown to be one of the named windows.

**PublicationProofs**, of the outputs of a build (from `Inputs`,
`OrdersAreComplete`):
- `TypeOK` (`TypeCorrectness`),
- `ScopesStayLocked` (`ScopesAreLocked`),
- `OutputsAgree` (`OutputsAreOfOneVersion`).

The invariant: the scopes a build has locked so far it still holds, and past
`"locks"` it holds all (`LocksAreKept`); while somebody writes, the outputs he
is through with are of the version he read and `whole` is false
(`WrittenSoFar`); `whole` means one version (`WholeIsUniform`). The central
step is `OneHasScopes`: since there is at least one scope, two builds never
hold all of them, so there is one writer. Each config may list the scopes in
an order of its own.

**ConcurrentPartsProofs**, of the worker pool (from `Inputs`):
- `NothingRunsAfter` (`NothingRunsOnceResolved`),
- `BlockersAreNotGivenBack` (`BlockersFail`).

The pool sees its workers, the properties are about their threads. The invariant
ties the two: a worker that is gone has no thread (`ThreadsAnswer`), a thread
that computes belongs to a busy worker or to a batch whose files have already
failed (`ComputingIsKnown`), and a file that blocked a thread has failed or is
still in the batch of a worker that is waited for (`StuckAreKnown`). Files of a
batch have no result as long as its worker is busy (`BatchesAreOpen`), so a late
answer cannot meet a result.

**ConcurrentPartsProofs**, of the watch session (from `WatchInputs`):
- `WatchTypeOK` (`WatchTypeCorrectness`),
- `EditsAreAccountedFor` (`SeenEditsAreAccountedFor`).

The build and the early sync work on the same folders; the types say beside what
the variables hold that whoever syncs has the permit. The invariant adds
that nobody sees an edit that was not made (`OwedIsSeen`), where the early sync
can be while the build is where it is (`EarlyIsFirst`), that the config is always
among what a session looks at (`ConfIsWanted`), and that no watcher runs that the
next sync would not find (`WatchedAreListed`): that one makes the folders of a
waiting session the ones its config names, in whatever order the two syncs came.

**DocumentReuseProofs** (from `Windows`, `Kinds`, `Bounds`, `NoneIsNone`):
- `UnchangedIsNotRead` (`AnUnchangedDocumentIsNotRead`),
- `ProvenIsCurrent` (`WhatIsProvenIsCurrent`),
- `DocumentsAreCurrent` (`ReturnedDocumentsAreCurrent`).

There are two layers. The *shape* (`ShapeInv`) is about time stamps and control:
no stamp is to come (`Stamped`); a build has seen the text of every file, and
what it remembers of a `stat` is the state of the file now, unless it saw an
edit (`Witnessed`); what each step of `validate` holds in its hands (`Shapes`);
and that after a quiet build stat proves every remembered document (`Calm`). It
holds however files are edited. The *truth* (`TruthInv`) is about texts. That
an entry is right about a file now is not inductive, since a running build
compares it with a state of the file that may be over. The formula that is,
`Vouches`, says of a signature and the time of the read: if it is still the
file's own and settled by then, the text is in the file; and a build that looked
at the file when it had that signature has seen the text. `ReadSince` and
`Identifies` say the same of a file in the middle of a compile and of a value of
the field cache. The proof rests on `TimeStep <= RacyWindow + 1`: an edit after a
read that is out of the racy window has another stamp.

Nothing is assumed of edits. Files that only cached fields read are compared by
their stamps alone, so an edit with the stamp of the one before, or one between
the read of a compile and the stat after it, is not seen (section 7). `hasty` is
the set of such files: an edit that hides puts a file in, and the next one with
a stamp of its own, when no build is under way, takes it out. `Identifies` speaks
of the other files, and the two properties except only these.

**PublicationProofs**, of the release (from `Shape`, `DependenciesFirst`):
- `PinsAreOnNpm` (`PinsCanBeInstalled`),
- `InvalidIsNotPublished` (`NothingInvalidIsPublished`).

A publish command checks early and publishes late, and what earlier commands
left was edited since; nobody edits during a command. The invariant says what
the steps so far have left behind (`OrderlyRun`, by `Reached(n)`): from the load
on all packages have the same version, a build made of tests does not get past
the tests, the packages before `at` are built, then gated, then on npm. `Pinned`
is the global half: a package on npm pins the version it has, and its
dependencies are there in that version. `DependenciesFirst` is what makes the
order of publication matter; the script says so of its own list of packages.

**AssetsProofs** (from `AssetConstants`, `NoteIsNoCopy`, `NoneIsNone`):
- `PublishedAreThere` (`ThePublishedAreThere`),
- `CopiesAreListed` (`TheCopiesAreListed`),
- `PublishedAreStored` (`ThePublishedAreStored`).

The lock gives one publication at a time (`OneAtATime`). What it knows of the
folder at each step is `ProgressOf`: while it copies, everything in the folder
is in the manifest it started from or was copied by itself; while it prunes, its
own assets are in the manifest and in the folder; its session trusts no record
meanwhile. A later session skips all this when its record says that the folder
has not changed, so a record to be trusted (`Trusted`: the mtime is still that
of the folder, and was over when the folder was read) has to equal the manifest
and be in the folder (`RecordsAreRight`). For that no time is to come
(`ClockIsAhead`). `KnownAreStored` says the same of the keys a session remembers
from the storage.

**ViteDevServerProofs** (from `Inputs`, `NoneIsNone`):
- `TypeOK` (`TypeCorrectness`),
- `SettledMeansBuilt` (`SettledIsBuilt`), an action property.

A hot update waits for `settled`, one promise for all edits. The invariant says
that of every file that is a target, or that the engine will make one at the next
sync (`Watched`), the latest version the server took up is accounted for (`Owed`,
`Handled`): dealt with, or a timer runs, or a build is `pending`, or a loop that
is under way has not yet read the file or stops watching it (`Covers`). `Running`
says that what was put off has a loop that takes it up and that `settled` is open
while a timer runs; `Starting` that edits during the first build are remembered.
That no two loops overlap (`OneAtATime`) is true only of a server that started
with a config that loads, hence the case in the property. What is promised ends
when the server is released.

**IncrementalBuildProofs** (from `Shape`, `TargetsInOrder`, `NoneIsNone`):
- `Inv` (`MemoryIsSound`),
- `WritesWhatAFreshBuildWould` (`SessionIsFresh`), the refinement of `FreshBuild`,
- `RefusedForAReason` (`RefusalHasAReason`),
- `OutputIsCurrent` (`OutputStaysCurrent`),
- `UnchangedIsNotRedone` (`NothingIsRedone`).

Nothing is assumed of the callbacks but that they are functions of what they are
given; which views and transforms are cached is up to the config. A result that
is reused was made from *equal objects*, while a fresh build makes objects of
its own: two builds agree only in what documents show. `Alike` is that relation
(same file, data, validated data and embedded document), and for every stage
there is a lemma that it makes alike of alike (`AlikeData`, `AlikeScopes`,
`AlikeLinked`, `AlikeRows`, `AlikeFiles`...).

The invariant says of everything that is remembered that it is what *its own
inputs* make, whether or not they are still there (`MemoryOk`): a transform
record of its document and of the groups it read (`IsTransform`), a pair of
groups linked without an error (`IsKnown`), a view of its inputs (`IsDerived`),
a file of the objects it is built from, a set of groups free of conflicts. An
invariant about the inputs of now would not be inductive, since a build that
fails half way leaves what it replaced. `BuildOk` follows the running build: its
documents are those it read (`ReadOk`), what each stage left is alike to what
the stage of a fresh build leaves (`TransformsOk`, `SetsOk`, `LinkOk`,
`PlansOk`); so a record is used only where its inputs are equal to those of now.
`WrittenOk` is the link to the writer, which compares revisions and nothing
else: when the revision written last is that of the remembered plan, the files
of the output are those of the plan. `NewRevision` avoids both numbers, which is
why it keeps this true. `CalmOk` is `OutputIsCurrent` for what was read.

That nothing is done again is a claim about objects, not about what they show: a
stage that returned an equal object of its own would make every later stage
work. `StillOk` therefore says which objects there are. After a good build the
memory determines the very objects each stage returns (`Given`, `After`,
`LinkedOf`), and it is closed under the stages (`Settled`); a build of a content
that did not change is followed towards it step by step (`Progress`), each stage
returning what the last build kept. A view that is resolved anew is where this
stops: its objects are new, and so is the revision of the plan; what remains is
that it shows the same, so the files planned are those that are there.

Linking goes through the sources in embed order, and its lemma says what holds
after the first n of them. Induction theorems of the library cannot be cited
here, but induction up to a number follows from the pigeonhole principle
(`UpTo`): a set that has 0 and every successor up to n, and lacks a number,
could be mapped one to one into a smaller one.

**ProjectProofs**:
- `NamesAreUnique` (`GeneratedNamesDiffer`), if `ConfigsAreTyped`;
- `EmbedsComeFirst` (`EmbeddedAreLinkedFirst`), if `ConfigsAreTyped`;
- the stages of a walk come to the same as matching whole paths
  (`StagesReadWholePaths`);
- every file of a discovery is one that was looked for (`OnlyWantedFilesAreFound`),
  if `PatternsAreParsed`;
- a discovery without errors has every file that patterns name and whose path was
  the same throughout, of collections and of singletons (`NoFileIsMissed`);
- every file of a discovery was there at some time of it, and if its path was the
  same throughout, its links may be followed (`FoundFilesWereThere`);
- no file of a discovery lies in the folder of a scope (`NothingOfAScopeIsFound`).

The last three are for trees and edits that are finite and of real paths (the
first tree is finite and `AreNodes`, `EditsAreTrees`), if `PatternsAreParsed`,
`PathsAreLists` and `NoneIsNoPath`; the last one also if `ScopesAreLists`.

The loader is simple here: what waits for its setup, and what is loaded, was
accepted (`NamesInv`). The work is in what `resolveProject` computes.

The names: `resolve.ts` refuses a config two symbols of whose table collide, and
`codegen.ts` has code of its own for what it writes. Neither list is a part of
the other: codegen leaves out what a source does not emit, and takes the rest in
another order. Both are lists of blocks, one for each entry. `Within` says that
a block has only names of another, and that they differ if the other's do; each
block of codegen is within that of the table (`CollectionWithin`,
`SingletonWithin`, `DerivedWithin`), and blocks within blocks stay so when they
are joined (`FlattenWithin`). Joining a list of lists is a recursive function,
about which `UpTo` serves again: that there is one (`FlattenExists`), and what
it does to names (`ListsFlatten`).

The order of linking: `visit` calls itself, with the order so far, a name, and
the names on its way. A name that is on the way already ends the visit with a
cycle, so on the way down fewer names are left (`Left`), and `UpTo` over their
number shows that there is such a function (`VisitExists`) and that what `CHOOSE`
takes is one, with walks for values (`VisitIs`). The lemma that is then shown by
the same induction (`VisitArrives`) holds for whatever a visit is called with: a
cycle stays one, nothing is taken out of the order, nothing that is on the way is
put into it (`Leads`), and without a cycle the name has arrived. The third part
is the one that is easily missed: without it a source could be put into the order
by a source it embeds, before the rest of what it embeds, and then once more.
`InOrder` is what the order keeps (`AppendInOrder`): every name once, and what it
embeds before it.

`ConfigsAreTyped` says of a config that is accepted what its TypeScript types
say: entries and views are lists, a view is of one of the three kinds, and a
schema has a list of references. The model has `ConfigOf` as a constant, so
nothing else can say so; the configs of the run **project** are such configs.

The walk: it never looks at a whole path. It goes down a folder at a time with a
`stage`, the places of the patterns that the next name may be at, and reads no
folder for which there is none; that a file belongs to a source is elsewhere
decided with a regular expression for the path. `StageOf` is the stage after a
path of any depth in terms of the ways to read it, and `Start`, `Enter` and
`Follow` step from one `StageOf` to the next (`StageStart`, `StageStep`), so a
file is taken if and only if a pattern names its path (`StageMatches`).

A file is found at the end of a *way* (`IsWay`): the names below the base, the
real folder after each of them, and which of them are links. A way is named
(`IsNamedWay`) if a pattern reads its names, links to folders by literal segments,
if none of them is hidden, no folder is excluded or belongs to the output or the
cache, and if no link leads to a folder it came through. The walk goes through the
links of a path anew at every call, so what it came through is a fact about each
tree there was, and only of a way that is the same in all of them (`IsSteadyWay`,
`IsFixed`) can be said which links it took. Three invariants say what the tasks of
the walks have to do with such ways, while the tree is edited:
- `WalkInv`: the path of a task is open and its stage is one of that path. Only
  what is wanted is found.
- `HeldInv`: of every named way that was the same since the discovery began, the
  walk has the file, or a task that stands on the way with the stage of the way
  (`IsAhead`), or an error. The task must also not be taken for one that ran into
  a cycle: `Trail` and `Covers` say that the folders `IsOnPath` compares with are
  those of the way and no others. Two files of one id are an error, so none is
  dropped silently. The files of a singleton are counted instead: `FiniteInv`
  keeps the trees, and so what a walk finds, finite, and if there is one file it
  is that one.
- `RightInv`: a file that was found was there in one of the trees; and of a path
  that is the same in all of them, every task on it came down it with the stage
  of its links and with all its folders in what `IsOnPath` compares with
  (`CameDown`), so the links of a file at its end may be followed (`MayBeFound`).
  `SeenInv` keeps what is true of every tree there was.

None of this bounds the depth of the tree, the number of links or of edits.
`PatternsAreParsed` says of the patterns of an accepted config what `readGlob` and
`readSegments` leave (`content-files.ts:338`): no empty alternative, and no two
`**` in a row. `PathsAreLists` says that roots and folders of locales are lists of
names, `AreNodes` and `EditsAreTrees` that a tree maps such lists to nodes; the
first tree is a constant of the run and not of `Init`, which is why it is a
hypothesis of its own. `NoneIsNoPath` says that the path of a file is not `None`: a
singleton whose path is `None` is one that has a file for each locale
(`SingletonsAreLocalized`).

The folders of scopes are not known to the walk: that generated files of a scope
are not content again is due to the check of the config (`ScopeDirsApart`, with
`ManagedOk`). `AcceptedInv` keeps that what is walked was accepted, and two paths
that one path is inside of are inside one another (`InsideBoth`).

Together these theorems say of every tree what `DiscoveredIsThere` is about. The
property itself looks four folders deep (`Below`), and so holds of the run but not
of every tree; that is why it stays with TLC as it is stated.

The proofs have one lemma per action or group of actions, and one per operator
that several of them use.

Only model-checked:
- the liveness properties: `WaiterIsAnswered`, `KilledHolderIsCleared`,
  `BuildsEnd`, `WatchedEditsAreBuilt`, `FoldersAreWatchedAgain`,
  `EditsAreBuilt`, `HotUpdatesReturn`, `PoolResolves`,
  `ReleaseCompletes`. Temporal reasoning
  under fairness and `ENABLED` are out of the prover's reach;
- `LoadedIsCurrent` of `Project`. Imports are a recursive function over a graph,
  for which the library's induction theorems cannot be cited (they take an
  operator as a parameter). It would also need two hypotheses that the run has in
  its constants and the code does not justify: no text of a module comes back
  (section 7), and an import that leads somewhere else does so by the lockfile
  only;
- `DiscoveredIsThere` as it is stated, for the reasons above. What it is about is
  proved for every tree by the last four theorems of `ProjectProofs`.

## 7. Where code and documentation disagree

**config_lost** - `configFiles` is "Config file plus every local module it
imports" (`config-loader.service.ts:88`). A settled record keeps where its
imports led when it was read, and an import that led nowhere is not looked for
again. A module that appears later is loaded with the config, but is in neither
the watched files nor the fingerprint: its edits are not seen until the module
that imports it is edited. The run allows a file to appear (`Appearing`); in
**project** none does, which is what `LoadedIsCurrent` assumes.

Met while modelling, with no run of their own:

- `assets`: when storage deletes a batch in part, `pruneStorage` throws before
  it takes the deleted keys out of `known` ("Deleted keys are removed from
  `known`", `storage.ts:183`). A later build of that session with one of these
  assets skips the upload. The same holds of keys another session deleted.
  `PublishedAreStored` excepts exactly these (`lost`).
- `assets`: a copy that is deleted by hand while a session publishes, after it
  was seen, is not missed as long as the folder's mtime stays; the model has
  the user clean the folder between publications. Temporary files of a killed
  session, or of a manifest that could not be written, start with a dot and are
  never removed.
- `assets`: `hashFile` compares stamps without the margin of
  `file-signature.ts`; two edits within the time step leave an old hash, and
  `copyOne` then fails the build, again at every rebuild, until the file is
  saved once more.
- `DocumentReuse`: a file that only a cached field depends on is compared by its
  stamps without the margin. Two quick saves of it, or a save between the read of
  a compile and the stat after it, can stay unseen until it is saved again,
  though "two quick saves are never missed" (`packages/core/README.md:169`). The
  run has such edits; `ProvenIsCurrent` and `DocumentsAreCurrent` except the files
  of which one is hidden (`hasty`).
- `OutputWriter`: when the removal before a case-only rename fails
  (`output-files.ts:552`), the writer goes on, and on a file system that ignores
  case the next build removes the renamed file: with `Lower` so that the two names
  are one path TLC finds `SuccessMeansOnDisk` violated. The run and the theorems
  about what is on disk are of file systems that tell case apart.
- `OutputLock`: while a stale lock cannot be removed, `lock` tries again at once,
  for ever; it never comes to "output-locked", and `LOCK_WAIT_MS` does not count
  (`output.service.ts:267-273`, 323-325).
- `OutputLock`: the heartbeat, `clearIfStale` and the finalizer act on what they
  read before; `TakenOnlyInAWindow` names the windows.
- `Publish`: "A build either succeeds completely or changes nothing"
  (`README.md:48`); a hook or a scope can fail when the main output has been
  changed. `OutputsAgree` is what holds.
- `Watcher`: a change after a build read a folder and before the sync watches it
  has no event.
- `ViteDevServer`: the server judges events by the targets of its last sync, which
  comes when a build is over (`packages/vite/src/index.ts:382`, 454). An edit in a
  folder that the config of the running build names for the first time, made after
  the build read that folder, is dropped (479) and not built until the file is
  saved again. And after a start with a broken config two rebuild loops can
  overlap, and the one that ends first resolves `settled` (459) while the other
  has still to build the edit that `settled` "picks up" (156-160).
- Content files: a link is entered "never when it is the root or a folder the
  walk is already in" (`content-files.ts:704-706`). `isOnPath` checks that of
  the link as it was when `realpath` was called; the folder is then read by the
  path of the link (`content-files.ts:748`, 763, 784). A link that is led
  elsewhere in between, or a folder that is replaced by a link, is read as what
  it is now, so a file can be found that no single state of the tree names.
  `DiscoveredIsThere` says what is left of it.
- `ConfigLoader`: an edit between `collectSources` and the import, undone later,
  leaves a project of the text in between under the fingerprint of the first.
  And when an import has several candidates and the file it led to is deleted,
  the settled record of its module keeps leading to that file, while the config
  is loaded with the next candidate: like a module that appears, that one is not
  watched. In **project** every import has one candidate for a lockfile.
- `Resolve`: `checkPaths` lets an output be equal to a content root, or to the
  folder of a locale, and the walk then does not skip it; the asset folder is
  never compared with the cache; paths are compared with their case.

## 8. What is not modelled

Inside the modelled components: temporary files, folders made and removed,
symbolic links and the layout of the manifest (`OutputWriter`); lock files that
cannot be read, since locks are made and replaced whole (`OutputLock`); what
documents look like on the wire (`ValidationPool`); the difference between kinds
of file events, the error overlay, content outside of Vite's root (whose events
come only once it is watched) and Vite's module graph beyond "the old output is
dropped" (`ViteDevServer`); what hooks do (`Publish`). Logging, diagnostics and
wording are left out everywhere.

In the modules of the second half: the texts of generated modules, sorting and
paging of lists, a `prepare` hook that reorders or repeats documents, references
with `embed: false`, timings, diagnostics (`Stages`); what a loader or a field
computes, as long as it is a function of the files it reports (`DocumentReuse`);
brace expressions and escapes inside one segment of a glob (`ContentFiles`);
links that lead to each other in a circle (`Project`); checks of single option
values, which are the flag `valid` (`Resolve`); `ReadModule` is one step, and a
`tsconfig` has no say in where imports lead (`ConfigLoader`); dry runs, the
sanitizing of SVGs and image sizes, folders that cannot be made (`Assets`);
edits during a command (`Release`).

Components: loaders, schemas, compilers, search index, serving of assets and
CLI are sequential or pure, or call libraries; they keep nothing that could be
stale and have no properties a test would not reach. Of Vite, the session that
servers share (its count of users, restarts with other options, `closeBundle`
per environment) is not modelled.

## 9. Plan

1. `LoadedIsCurrent` under the two hypotheses of section 6: the modules that
   `collectSources` saw are closed under the imports they had then.
2. Sharing of a session between Vite servers, if it is modelled.
