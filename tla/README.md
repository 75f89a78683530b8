# The Azure Linux toolkit, in TLA+

This directory specifies `toolkit/tools`, the programs that build packages and
images: how dependencies are resolved; the scheduler, its workers and the graph
they share; what every tool does with chroots, mounts and devices when a step
fails or a signal comes; the compiler cache; and what the image tools leave on the
kernel command line. TLC checks the specifications on small instances, and TLAPS
proves some of the results for every instance. All source paths below are
relative to `src/toolkit/tools/`.

## 1. The system

`make build-packages` runs a chain of tools. `srpmpacker` packs sources,
`specreader` reads the spec files, `grapher` turns them into a dependency graph,
`graphpkgfetcher` resolves what has to be downloaded, and `scheduler` builds the
graph, each SRPM by a `pkgworker` process in a chroot of its own. Image tools
(`imager`, `imagecustomizer`, `isomaker`, `osmodifier`, ...) use the resulting RPMs.
The tools talk to each other through files; what they share at run time is the
kernel's mounts and devices, and the store of compiler caches. Inside a process
the concurrency is that of the scheduler and its workers, of the worker pools of
`srpmpacker` and `specreader`, and of the signal handler of `safechroot`.

| Component | State it keeps | Operations | Talks to |
|---|---|---|---|
| scheduler loop (`scheduler/scheduler.go`) | current graph and goal, nodes to build, `stopBuilding`, `useCachedImplicit`, `isGraphOptimized` | start at the leaves; convert nodes to requests; submit; take a result; record it; redirect deltas; inject provides; find unblocked nodes; stop, drain, return | workers, by five channels; build state, by calls |
| build state (`schedulerutils/graphbuildstate.go`) | active builds by node ID, node states with freshness, failures, toolchain conflicts, license errors | `RecordBuildRequest`, `RemoveBuildRequest`, `RecordBuildResult`, queries | only the scheduler goroutine |
| request preparation (`preparerequest.go`) | none; removes edges from the graph | group by SRPM, decide on the cache, attach tests, compute freshness | graph under `graphMutex` |
| dependency solving (`depsolver.go`) | none | `LeafNodes`, `FindUnblockedNodesFromResult`, hidden blockers | graph under `graphMutex` |
| build workers (`buildworker.go`) | one request each | three nested selects; build, test, ignore, use the cache; set node states; send a result | channels, graph, build agent |
| build retry (`internal/retry/retry.go`, `buildSRPMFile`, `testSRPMFile`) | failures, attempts, deadline | try, back off, cancel | build agent, context |
| package graph (`internal/pkggraph`) | nodes, edges, IDs, lookup table | goals, subgraphs, collapsed nodes, cycle search and repair | everybody, under `graphMutex` |
| implicit provides and preparation (`implicitprovides.go`, `initializegraph.go`) | none | inject, collapse, make a DAG, optimise | graph under the write lock |
| `graphMutex` (a `sync.RWMutex`) | readers, writer, waiting writer | lock, unlock | scheduler, workers, summaries |
| build lists (`buildlist.go`) | none | names to packages, conflict checks | before the build |
| license check, summaries | results | check after each result; print and save at the end | scheduler |
| grapher (`grapher/grapher.go`, `pkggraph`, `pkgjson`, `versioncompare`) | nodes and `nodeLookup`, sorted by version intervals | add local packages; resolve each dependency, adding remote nodes | spec reader, by a JSON file |
| chroots (`internal/safechroot`, `safemount`, `safeloopback`, `shell`) | `activeChroots`, two mutexes, the root of the process, child processes | initialize, run, close; clean up all on a signal or a fatal error | every tool below |
| package worker, spec reader, SRPM packer, cloner and fetchers, license check, precacher | a chroot, temporary directories, pools of goroutines | one pass from `main` to exit | chroots; tdnf, rpmbuild |
| imager, image customizer, ISO maker, live OS ISO | disks, loop devices, mounts, overlays, nested chroots, directories | one pass from `main` to exit | chroots, disk utilities |
| boot configuration (`grubcfgutils.go`, `bootcustomizer.go`, `installutils.go`, `osmodifierlib`) | `grub.cfg`, `/etc/default/grub`, the configuration saved in an ISO | install, customize, modify, convert to ISO | the kernel that boots |
| compiler cache (`internal/ccachemanager`) | remote archives and tag, local copy of the tag | download, build, upload, move the tag, delete the old archive | other builds, through the store |

What is hard here, and hard to test:

- The graph is rewritten (collapsed, made acyclic, pruned to a subgraph) while
  requests made from the old graph are queued or being built. IDs are per graph,
  and are reused.
- Go map order decides which node stands for an SRPM, which cycle is found and
  which edge of it is broken.
- The loop can be left in several ways, while workers race it for the last requests.
- A failure must block exactly what depends on it; a rebuild must cascade exactly
  as far as asked.
- One mutex guards the graph, but not every section that changes the graph takes
  it for writing, and one section takes it twice.
- Deadlines pass between any two steps of a retried build.
- Changing the root is process-wide, while goroutines and a signal handler go on;
  mounts outlive the process that made them.
- Deferred calls undo nested mounts, devices and directories after a failure at any
  of hundreds of steps, and may fail themselves.
- The kernel command line is edited in several files, by several tools, repeatedly,
  each relying on what the others wrote.
- Builds that follow one another share a remote cache; any of them may die between
  the upload, the move of the tag and the removal of the old archive.
- What a dependency is resolved to depends on which were resolved before.

`PROJECT.json` lists these hazards at the line where each bites.

What correctness means, component by component: *scheduler loop and build state* -
everything outstanding is known, nothing is built before what it needs or twice at
once, success means that the wanted RPMs exist, giving up means that something is
blocked, and everyone stops; *workers* - at most one request after a cancellation,
and only RPMs that exist are installed; *package graph and provides* - rewriting
never loses a dependency or withdraws what was available; *retry* - the deadline
bounds the work and every attempt is used; *graphMutex* - no unguarded change of
the graph and no deadlock; *grapher* - a local package that is used meets every
condition, the highest one is used, and a remote one only with reason; *chroots and
tools* - nothing is used that is not there, nothing is removed that something rests
on, nothing is left behind, and the process ends; *boot configuration* - what was
asked for is what the kernel gets, however often it is customized; *compiler cache* -
there always is a latest archive, and it never gets older.

## 2. Modules

| Module | Models |
|---|---|
| `PkgGraph` | `internal/pkggraph` as operators on graphs; gonum's ID allocator is included, as `maxID` and `free` |
| `BuildState` | the variables of a build, `graphbuildstate.go`, `depsolver.go`, and the decisions of `preparerequest.go` |
| `SchedulerLoop` | the scheduler goroutine, one action per operation |
| `BuildWorker` | one worker goroutine |
| `Scheduler` | the two composed: `Init`, `Next`, fairness and all the properties |
| `MCScheduler` | packages and command lines as small instances |
| `SchedulerProofs` | proofs about the shutdown, the types and freshness, the build state, and builds of one SRPM, for every instance |
| `BuildOrderProofs` | proofs about the order of a build whose graph is not rewritten: what waits for what, where every request is, which RPMs exist, what becomes of tests, when the scheduler gives up, and which copies of an RPM are installed |
| `GraphMutex`, `GraphMutexProofs` | the critical sections of `graphMutex`, in order, with the queueing of `sync.RWMutex` |
| `BuildRetry`, `BuildRetryProofs` | one retried build or test |
| `PkgVersions`, `PkgVersionProofs` | versions, conditions and intervals, as operators, and their laws |
| `Grapher`, `MCGrapher`, `GrapherProofs` | `populateGraph`, for the packages and dependencies of one name |
| `LatestArchive` | what the store of compiler caches promises: the abstract specification |
| `CCache`, `CCacheProofs` | the compiler cache of one package group, shown to implement `LatestArchive` |
| `ChrootProcess`, `ChrootProofs` | one process with its chroot: the two mutexes, the root, the pools of goroutines, the build command with its timer, the signal handler |
| `GoCall` | calls, deferred calls, errors, panics and fatal exits of Go, over resources that rest on one another |
| `SafeChroot` | `safechroot`, `safemount` and `safeloopback` in terms of `GoCall` |
| `InstallUtils`, `Imager` | `imagegen/diskutils`, `imagegen/installutils` and the imager |
| `ImageConnection`, `CustomizeOS`, `LiveOSIso`, `Customizer` | the image customizer: how an image is attached, what is done inside it, the ISO it can become, the whole |
| `IsoMaker` | the ISO maker |
| `PkgWorker`, `SpecTools`, `RepoTools` | the package worker; SRPM packer, spec reader, versions processor, license check, chroot validation; cloner, fetchers, grapher and precacher |
| `MCTools` | the tools of the five rows above under one `Init`, with their properties |
| `BootConfig` | the files that hold kernel arguments, and the operations on them |
| `BootTools`, `MCBoot` | image customizer, OS modifier and live ISO as sequences of these operations |

How the state corresponds to the code:

- `graph[0]` is the graph `PrepareGraphForBuild` returned; `graph[1]` is the solvable
  subgraph, once there is one. A request remembers which graph it was made from,
  like `BuildRequest.PkgGraph`. `attr` holds the fields of the `*PkgNode`s, which
  both graphs share.
- `pc` is the control point of `buildAllNodes`; `flags` holds its Boolean locals.
  One iteration is `convert`, `submit`, a result, then `delta`, `inject`,
  `makeDAG`, `optimize` as needed, then `advance`.
- A section under the mutex is one step here, except that the injection has a step
  per provide and per cycle; while it holds the write lock (`GraphLocked`) no
  worker reads the graph. `GraphMutex` opens up the sections and looks at the lock.
- `wpc[w]` is the control point of a worker. The first three values are the three
  selects of `selectNextBuildRequest`.
- `channelBufferSize` is the number of nodes of the prepared graph: `buildGraph` takes it
  before the build, and the channels keep it while nodes are added to the graph.
- `disk` holds the RPM files that exist, in the output directory or in the cache.
- `input` names one of the things a scheduler can be started with: an input graph,
  a command line, and which builds may fail. It never changes.

- `Grapher`: `lookup` is `nodeLookup` of one name; an entry is a run node with the
  build and test nodes beside it, identified by its interval because `Equal` and the
  skipping of duplicates do so. A version string is what the regular expressions
  split it into. `resolved` records each `addSingleDependency`.
- `GoCall`: a tool is a sequence of statements, one action each: `Use` runs a command
  on resources and may fail, `Acquire` and `Release` take and give back a resource
  that rests on others, `Call`, `Defer`, `OrElse` and `Try` are Go's control flow. A
  frame per call holds what is left to do and the deferred calls; `held` maps each
  resource to what it rests on. Every statement may fail, up to `MaxFaults` times.
  The modules of the tools keep every step of the code that can fail, in order, and
  nothing of what files contain.
- `ChrootProcess`: `pc` has the goroutine of `main` and the signal handler, `root` the
  root of the process, `mounted` the mounts. Children killed by the cleanup end
  with an error, which may be swallowed (`tdnfInstall`).
- `BootConfig`: an argument is a name with a value; a command line is a sequence of
  arguments, of which the kernel takes the last of a name.
- `CCache`: a folder is the number of the build that uploads to it. `local` is the
  file `downloads/<group>-latest-build.txt`, which the processes of a host share.

External code is modelled from how it is used: gonum's graph and IDs, the answers
of the build agent, of `rpm -q --provides` and of the license checker,
`sync.RWMutex` (a waiting writer keeps new readers out), Go's calls, and the kernel
(an unmount fails while something is mounted below).

Operators whose comment starts with "Seeded fault" or "Mutant" are not part of the
model. Each is a plausible bug in the definition that follows it; with it in place,
TLC finds the property it is listed with in `PROJECT.json` violated.

## 3. Runs

The runs of the scheduler have two workers, which is the least with races between
workers; `maxCascadingRebuilds` is 2, so that a cascade is neither empty nor
unbounded. `Spare` bounds how many nodes can be created (goals, collapsed nodes,
meta nodes, prebuilt nodes): a new node is one that nothing refers to (`Referenced`), and
the step that needs one waits when there is none (`CanAllocate`), which TLC would report
as a deadlock. Each run has more than it uses.

| Run | Shows |
|---|---|
| `packages` | On graphs that do not change: the cascade of rebuilds is exact, tests are skipped only with their build, only RPMs that exist are installed, rebuilt deltas never next to the cached copy, giving up means that something is blocked, and success that the RPMs exist |
| `shutdown` | Every way out of the loop, against two workers: with three independent packages (`stop`), and with a graph that is cut to what is wanted while another package is being built, so that the goal is available with a request outstanding (`unwanted`, `scheduler.go:536`). Channels are closed once, what is drained leaves the build state, a worker starts at most one request late, and everyone stops (liveness) |
| `dynamic` | On graphs rewritten during the build: every package is built with a provider of each implicit package it asked for, nothing available is withdrawn, sends never block although nodes are added after the channels were made, the build state knows of everything outstanding, and no SRPM is built twice at once although built nodes are requested again |
| `retry` | Up to three attempts and a deadline at any moment: at most one late attempt, no early failure, no success without an attempt, termination |
| `graph_mutex` | Two iterations, two requests per worker, no test nodes: no race on the graph, the loop is not starved |
| `grapher` | Every pair of conditions on four versions against up to two local packages, and up to four dependencies in any order on up to three: a local package that is used meets each condition (evaluated one by one, without intervals), is the highest that does, a remote node is used only after another dependency asked for one no lower, and never exchanged for another |
| `tools` | Thirteen tools, in the configurations of `MCTools`, with up to two failing steps: no command works on what is not there, nothing is released while something rests on it, nothing is left behind, and files that were labelled or hashed do not change afterwards |
| `chroot` | Four kinds of process (two pools, a build with a timer, nested chroots), a signal at any step: pools run only inside the chroot, the cleanup only outside, no mount is left, success covers every spec, and the process ends (liveness) |
| `boot` | Up to three customizations of nine images: SELinux is as asked, extra arguments reach the kernel, a verity root boots, a live ISO boots live, and stamping arguments twice changes nothing |
| `ccache` | Three builds, two package workers and the scheduler, two faults: `CCache` implements `LatestArchive` (refinement, `ImplementsLatest`) |

Scenarios are chosen so that each rule meets its exception: a chain longer than the
cascade, an SRPM with two packages of which one is missing, a test that needs more
than its build, a delta with a subpackage, an alias of a cached RPM, an implicit
package found in a wanted or unwanted RPM or in the second RPM of an SRPM, a build cycle, a run-time cycle, and two
that overlap. Workers are symmetric in the runs that check no liveness.

The other bounds: in `tools` two faults, because one makes an error path run and the
second makes that error path fail; each tool is run with every option that adds or
removes a resource. In `chroot` three specs for two workers and one network operation
at a time, so that workers wait for work, for results and for the semaphore. In
`boot` three operations: the second meets what the first wrote, and the third what an
ISO saved. In `ccache` three builds, so that an archive can be replaced while an older
tag is still known locally; the theorem of section 4 has no bound. In `grapher` the
versions include one with an epoch, ones with and without a release, and none; pairs of
conditions are complete, sequences use single conditions. The inductive
invariants of `Scheduler` (section 4) are not part of a run; added to the INVARIANTS of
`Packages.cfg` all of them hold, in `Shutdown.cfg` and `Dynamic.cfg` those that are about
any graph (`TypeInv`, `ActiveInv`, `BuildsInv`).

`tools` excludes from three of its properties what follows a failed release (`stuck`: the
kernel refused) and a failure of the steps in `Watched`, which the code is known not to
undo; section 3.2 lists them. `NothingLeft` further exempts two directories of the image
customizer when it fails: those of the ISO it reads stay if no writeable image can be made
of its root (`imagecustomizer.go:305-308`).

### 3.1 Where the code departs from what is said of it

Two runs are expected to end in a violation; `findings` in `PROJECT.json` quotes the
line that says otherwise.

| Run | What happens |
|---|---|
| `interval` | `foo >= 1, foo <= 1`, in this order, becomes "every version up to 1" and is resolved to foo 0.9; in the other order, which has a unit test, it is [1,1] |
| `signal_nested` | A signal while the imager is between its setup chroot and the chroot inside it: the cleanup and the imager wait for each other's mutex for ever |

### 3.2 Further counterexamples

These configurations are not runs of the project; TLC finds the property violated with
`tlc -config <cfg> <module>`.

| Configuration (module) | Property | What happens |
|---|---|---|
| `GraphMutexBlocked.cfg` (`GraphMutex`) | `SchedulerFinishes` | `PrintHiddenBuildBlockers` takes the read lock twice (`printresults.go:135`, `depsolver.go:171`); with a worker asking for the write lock in between (`buildworker.go:360`), both wait for ever. `scheduler.go:554-555`: "we don't want to actually block here" |
| `GraphMutexRace.cfg` (`GraphMutex`) | `GraphRaceFree` | With test nodes, `ConvertNodesToRequests` removes edges (`preparerequest.go:159`) under a read lock. `scheduler.go:285`: "graphMutex guards pkgGraph from concurrent reads and writes during build" |
| `Panic.cfg` (`MCScheduler`) | `NeverPanics` | If tests are wanted for one package of an SRPM only, the missing test node of another is dereferenced (`preparerequest.go:155-159`) |
| `GivesUp.cfg` (`MCScheduler`) | `GivesUpOnlyIfBlocked` | After a run-time cycle is broken, a node is unblocked that no result leads to: "could not build all packages" (`scheduler.go:437`), though nothing failed |
| `Reuse.cfg` (`MCScheduler`) | `OutstandingIsActive` | The goal of the subgraph gets the ID of a node with an outstanding request; `activeBuilds` loses one of them (`graphbuildstate.go:219`) |
| `StopsOnlyOnFailure.cfg` (`MCScheduler`) | `StopsOnlyOnFailure` | The goal is reached while an unwanted SRPM is still being built; the next result ends a successful build with a fatal error (`scheduler.go:516`, against the comment at 514) |
| `BuildTimeout.cfg` (`ChrootProcess`) | `BuildsInsideChroot` | After the timeout the build goroutine goes on outside the chroot: its next command starts on the host, and so does `removeLibArchivesFromSystem` (`pkgworker.go:241-257`) |
| `OsExit.cfg` (`MCTools`) | `UnmountedOnExit` | `os.Exit` in `versionsprocessor.go` runs neither the deferred `Close` nor the exit handlers. `safechroot.go:58`: "It is guaranteed to be unmounted on application exit" |

Observations that have no configuration of their own:

- Chroots. The steps of `Watched`: `CreateInstallRoot` fails after some mounts and the
  imager drops the list of them (`imager.go:540`, against `installutils.go:249`), both for
  partitions and in an existing root; the cloner leaves its chroot open if
  `addNetworkFiles` fails (`rpmrepocloner.go:84-102`), and its callers panic, which runs no
  exit handler; a chroot whose RPM macros cannot be written stays in `activeChroots`. A
  cleanup that cannot unmount calls `Fatalf`, whose exit handler is the same cleanup and
  waits for the mutexes it holds. A failed `Initialize` of an existing directory removes it.
- Pools. `versionsprocessor` and `licensecheck` return at the first error without waiting
  for their goroutines; with no workers, or no concurrent network operations, `srpmpacker`
  waits for ever. `packSingleSPEC` overwrites the error of updating the signatures
  (`srpmpacker.go:822-825`).
- Versions. Two conditions on versions that compare as equal lose one of them in most
  orders (`LocalMeetsRequirements` excludes such ties); "1" equals both "1-1" and "1-2", so
  that with and without releases the lookup table is not sorted and the highest version
  may be missed (`HighestLocal` excludes it with `Comparable`). A local "1" is taken for
  "foo > 1-1, foo < 1-2", and for one of which it only meets one requirement (`Ambiguous`).
  With locals "1-2" and "1", that request goes to a remote node, which then stands behind
  "1-2" in the table: a later "foo > 1-1" gets the remote node, though the local 1-2 serves
  it and is higher (why the second half of `RemoteOnlyIfAskedFor` needs `Comparable`). A
  third requirement of a spec file replaces the first two if their versions are the same,
  and not only then is it needed: "foo >= 1" twice and "foo < 2" leave "foo < 2" alone
  (`specreaderutil.go:598-603`; `Grapher` has lists of one or two); a component of more than 64 bits in base 36,
  such as a time stamp of 14 digits, counts as 0; the comment of `Compare`
  (`versioncompare.go:69-70`) has its results the wrong way round. A dependency may be
  resolved to a local node for one package of an SRPM and to a remote one for the next,
  after another dependency added a remote node in between.
- Compiler cache. The tag is taken from the local copy if there is one, against the header
  of `ccachemanager.go:61-64`: without `make clean-ccache` later builds download from, and
  delete, a folder that is gone, and archives pile up; a download that is killed leaves an
  empty local tag for good; builds on two hosts at once can leave the tag naming a deleted
  archive (`CCache` has one host). `scheduler.go:240-243` logs the wrong error.
- License check. `NewPackageLicenseChecker`'s error is not looked at (`scheduler.go:384`)
  and is overwritten by the next result; the checker is nil then, and fails at its first use.
- Image tools. The result of `CustomizeImage` is unnamed, so errors of its deferred cleanup
  are lost; LUKS and LVM devices are closed only on success and swap is never turned off;
  `shrinkfilesystems.go:57-63` continues the wrong loop; `getPartitionNum` checks the match
  and not the error.
- Boot configuration. Modifying an in-place `grub.cfg` removes `root=`; arguments are not
  replaced when they are in `GRUB_CMDLINE_LINUX_DEFAULT`, and extra SELinux arguments there
  override the mode; regenerating `grub.cfg` before `--update-grub` loses verity arguments;
  an ISO made from an ISO repeats its extra arguments; `UpdateDefaultGrubFileVariable`
  accepts a line that occurs twice. `BootTools` keeps to the sequences that are supported.

Smaller departures, noted while modelling and not given a run: a build node can
become ready again after it was built, which `preparerequest.go:94` calls unexpected;
whether an SRPM used the cache is answered for whichever of its build nodes the
iteration over a Go map meets first (`graphbuildstate.go:122-130`; `IsSRPMCached` asks for
any of them, and TLC finds them to agree in every state of the three runs);
only the first node of an SRPM is compared with the rebuild list
(`preparerequest.go:89`, `136`, against `buildlist.go:24`); the build nodes of a
rebuilt delta keep the cached path (`scheduler.go:612` against `630`); a test can
report a failed check together with a timeout (`buildworker.go:308` against `346`);
and an ignored package is not built even if its RPMs are missing (`scheduler.go:107`
against `buildworker.go:160`; `docs/building/building.md` agrees with the code).

### Fairness

`Scheduler` assumes weak fairness of the scheduler goroutine and of each worker: Go
runs every goroutine that can run. A step of the build agent is included, because
every attempt ends: the agent is called with the context of `--timeout`, and
`BuildRetry` shows (`Terminates`) that a call then returns. `GraphMutex` assumes
weak fairness of each goroutine's steps; `sync.RWMutex` guarantees that a waiting
writer gets the lock. No fairness is assumed of the deadline or of a failure.
`ChrootProcess` assumes it of `main` (including the build's timer, which Go fires), of
the cleanup on a signal, and of the workers of a pool, whose commands and downloads end;
not of the command of a build, which may hang, nor of the signal. `Exits` excludes a
chroot that the kernel will not unmount and a signal to the imager (`signal_nested`).

`CHECK_DEADLOCK FALSE` is set in `GraphMutex`, where goroutines have a bounded number
of sections and stop after them, in `ChrootProcess`, where `Exits` is the property
that finds a stuck process, and in `Grapher`, which ends with its last dependency. In
`Scheduler`, a stuck scheduler is a deadlock that every run would report.

## 4. Proofs

All theorems are checked by TLAPS, with no assumption but the named ones on the
constants: `SchedulerAssumption` (`BuildState`: finitely many nodes, inputs of the right
types, a build node has an SRPM, what `buildlist.go` guarantees, two nodes to spare for the
goals that preparation adds, no `PackagesToBuild` goal in the input graph, since
`AddGoalNodeWithExtraLayers` refuses a second one (`pkggraph.go:1111-1114`), and goals, which
have no package, are not implicit), `MutexAssumption`, `MaxAttemptsAssumption`,
`ProcessAssumption` (`ChrootProcess`: some tools, at least one spec, one network operation
and one worker, finitely many workers), `MaxComponentAssumption` and `InputAssumption`
(`Grapher`: any packages that each provide one version or a lower bound of one, any
dependencies of one or two requirements), and in `CCache` `BoundsAssumption`,
`ProcsAssumption` and `FlagsAssumption`.

- `SchedulerProofs`: `ClosedOnce` and `CancelStopsWorkers`, for any graph, any
  number of workers and any command line. The inductive invariant is
  `ShutdownInv = ClosedSoFar /\ LateWorkers`. `ChannelsClosedOnce` alone is not
  inductive: at `closePriority` one must know what was closed before. That a worker
  takes at most one request late needs to know where it is: a worker that took one
  is not at the second or third select again without passing the first. Lemma
  `LoopSteps` disposes of the sixteen actions that neither close nor take anything.
  Then, in the same module and with the same generality:
  - `TypeCorrect` and `ResultsAreAccepted`, from `TypeInv`. `TypeOK` alone is not
    inductive. The freshness of a result is that of its request, so the bound must hold
    of requests in the channels and at the workers (`AcceptedJob`); a request inherits it
    from `nodeToState` or takes `maxCascadingRebuilds`, so it must hold there as well. A
    build node has an SRPM, also after nodes were allocated, because `RpmsBuiltBy` is
    looked up with it. Each operator of `PkgGraph` has a lemma that its result is a graph.
    `Reach` and `AddGoalNodeLayers` recurse: lemma `RecursionExists` shows that a function
    which is defined by its value at the predecessor exists, from `LeastNat`, so that its
    equation can be used.
  - `DrainIsComplete`, from `ActiveInv`. That what is drained leaves the build state
    depends on `activeBuilds` being indexed by the IDs that the nodes have now: rewriting
    the graph removes nodes, adds others and reuses IDs while requests are queued, and
    `TypeStep` also shows that a requested node stays what it was (`KeepsNodes`). No
    hypothesis on reused IDs is needed: two requests with one ID leave too little in
    `activeBuilds`, not too much.
  - `OneBuildPerSRPM`, from `BuildsInv`, under the hypothesis `[]NoReusedIDs`. The property
    itself is not inductive: a second request for the SRPM could wait in a
    channel, or its result. `BuildsDistinct` says that one place at most has a build of an
    SRPM, and holds because the scheduler looks in the build state before it asks for
    another; so `BuildsActive` is needed, that the build state knows of every outstanding
    build. That fails if two requested nodes share an ID (`Reuse.cfg`), and is what
    the hypothesis excludes. It is no empty one: TLC finds `NoReusedIDs` to hold in every
    state of `packages`, `shutdown` and `dynamic`, and only in `Reuse.cfg` violated.
- `BuildOrderProofs`: `DependenciesComeFirst`, `OutstandingIsKnown`, `SendsAreFree`,
  `NothingIsWithdrawn` and `OneBuildPerSRPMInOrder`, for any number of workers, any command
  line and any build that starts with `OrderlyBuild`: no package of the graph is implicit
  (so that it is not rewritten), IDs are unique, and tests have the edges that the grapher
  gives them (one to the build of their own package, `grapher.go:185-199`, and those of the
  one spec's TestRequires, 323-332). All inputs of `packages`, and `stop` of `shutdown`, start so. The
  invariant is `OrderInv`. That the build state knows of what is outstanding is not
  inductive: a second request for a node would take the place of the first in
  `activeBuilds`, and the first result would remove both. Only builds and tests are looked
  up before they are requested (`preparerequest.go:54-58`), so one has to know that no node
  becomes ready twice. It becomes ready when the last of its dependencies is recorded, and
  then all of them are available: `DepsFirst` says that what has been asked for has nothing
  left to wait for, so that nothing it depends on can still be recorded (`FollowedUp`), and
  `OneRequestPerNode` that a node is in one request or has its result. Tests are what makes
  it hard: they are requested with their builds, before these are available, after the edge
  between them was cut (`OrderConvert`; this is where the tests of one SRPM must need the
  same packages, since only one of them is looked at, `preparerequest.go:164`). The
  requests are followed through the lines they wait in - those not submitted, three
  channels, the desk of each worker - and each step moves them along an injection of places
  (`Moved`), so that no case distinction over pairs of channels is needed. `SendsAreFree`
  then is a count: every request in a channel holds a node of its own, and the sender's
  is not among them; and the buffers, made for the nodes of the prepared graph, still have a
  place for each node, because no node is added to a graph without implicit packages.
  Then, in the same module:
  - `InstallsExist` and `SuccessLeavesRPMs`, for any build that also starts with
    `FilledBuild`: a build or run node names an RPM that exists or that a build of its SRPM
    produces, any other node one that exists (it was fetched before the scheduler starts) or
    none; a run node has an edge to the build of its package (`grapher.go:173-178`);
    and the RPMs of ignored packages exist. The last is a real limit: for
    an ignored package the worker reports success without looking for its files
    (`buildworker.go:160-165`), and a package that depends on it is then built from files that
    need not exist. That a file exists when it is installed needs `FileInv`: what is available and was built has
    all the RPMs of its SRPM on disk (`BuiltMeansPresent`), therefore a
    request that may use the cache was made when these existed and they still do (`Filed`), and a result
    that is not an error was left by a build that produced them (`Left`); a run node inherits
    this from its build, which by `DepsFirst` was available before it. `GoalInv` says that
    every wanted run node is a dependency of the goal, and that the loop is left without an
    error only with the goal available.
  - `PreparationKeepsOrder`: both hypotheses follow from the same of the input file
    (`OrderlyFile`, `FilledFile`) through all of `PrepareGraphForBuild`: the goal it adds, the subgraph below
    it, the builds that the lookup table drops from that, and the second goal with whichever ID gonum gives it.
    A subgraph is closed because a walk of as many steps as there are nodes has
    stopped growing (`ReachClosed`, by counting). A build that a run node needs is not
    dropped, since it has the same package, and the new ID is that of no node that is left.
  - `TestsFollowBuilds`, from `OrderlyBuild`: a test is skipped only together with its build.
    Whether a test may use the cache is decided when its request is made
    (`preparerequest.go:168`, 193-200), from a request of its build that has not been carried out,
    and may never be. `TestInv` follows that request: it stays in the build state, ahead of
    the test in the FIFO channel (`Covered`, `QueuedBehind`), until its result is recorded, so
    that a worker that skips the test finds the build taken before it. Needed for this are
    that the build state and the request agree on the use of the cache, that a test request is
    for tests of one SRPM, and that nothing overtakes in the priority channel but prebuilt
    packages (`RequestsKnown`). A shutdown removes only builds that are still in the channel;
    those cover no test that was skipped (`SkippedBehind`).
  - `NothingIsLeftBehind`, from `PairedBuild`: the scheduler reports that it could not build
    all packages only if a build or a test failed, or something that the goal needs is
    unresolved. `PairedBuild` is `OrderlyBuild` for a graph without cycles, in which the builds
    of a spec file have the same dependencies (its BuildRequires, `grapher.go:313-320`), a build
    has at most one test and a test has its build (196), and only remote nodes are unresolved
    (`pkggraph.go:527`); all inputs of `packages`, and `stop`, start so. `GivesUp.cfg`
    shows that it fails once a cycle is broken while the build runs. The invariant is
    `WakeInv`: no wakeup is lost. What waits for nothing any more has been asked for, or is to be
    built, or depends on the result that is being followed up (`Awake`). Two things could break
    it. `ConvertNodesToRequests` drops a group whose SRPM is active or whose first node has its
    result (`preparerequest.go:54-58`), so the nodes of an SRPM must become ready together
    (`BuildsTogether`, `TestsTogether`). And it takes away edges, those from tests to their
    builds, so that a test becomes ready with no result at all: then it is asked for in
    the same step (`UnblockedAsked`), although only one test of the group is
    looked at. With nothing outstanding, the nodes that are needed and not available would
    have one that depends on none of the others (`LastOfAll`, by counting what each reaches),
    which was then asked for, has its result, and is available. `Stopping` says why the goal
    itself is not available then: the loop goes on with it only while an SRPM is being built.
  - `CopiesDoNotMix`, from `CopiesBuild`: no package is built with two copies of one RPM, the
    cached one of a delta and the rebuilt one, as long as the sanity check of
    `setAssociatedDeltaPaths` has not failed. `CopiesBuild` is `FilledBuild` for a graph whose nodes
    name one path for each file (the fetcher sets the path of a delta in its build node and its run
    node, `graphpkgfetcher.go:440-445`), and in which every node that is installed from the file of a
    delta is a preferred run node, the only ones the code looks at; all inputs of
    `packages`, and `stop`, start so, `alias` with two nodes for one cached file. The
    invariant is `CopyInv`. The nodes that are installed agree on the path (`OneCopyNamed`); a
    build node of a delta keeps the cached path, so that a build that uses the cache may report both
    copies. Therefore a file that a node which is no delta names too has one path everywhere,
    and no result names two copies of it (`BuiltOnce`): when the check passes, such a node names
    what was built, and so do the deltas that are redirected. After the check has failed some run
    nodes may be redirected and others not, and the build is cancelled; that the requests which a
    worker still starts then have one copy too is only model-checked: it would need that
    the builds of an SRPM are requested together also after failures.
- `GraphMutexProofs`: `MutexExcludes` and `NoRaceWithoutTests`, for any number of
  workers, iterations and requests. The invariant is `MutexTypeOK /\ MutexInv`;
  lemma `LocksMatch` says that without test nodes the sections that change the graph
  are those that take the write lock.
- `BuildRetryProofs`: `RetryInvariant`, and from it `DeadlineBoundsWork`,
  `NoEarlyFailure`, `SuccessIsReal` and `TypeCorrect`, for any number of attempts.
  The invariant counts the attempts made at each control point, and says that after
  a late attempt the only way on is through the check of the context.

- `CCacheProofs`: `StoreIsConsistent` (`CCacheInv`) and `PublishesLatest`, the refinement
  of `LatestArchive`, for any number of builds, processes and faults. That the tag names
  a stored archive is not inductive: a process at its removal must have moved the tag
  to the current build, and one past its upload must have its archive stored
  (`UploadInv`); the removal spares the current build (`Replaces`), and `tag <= build`
  makes every move of the tag one to a newer folder. Lemma `TagStep` maps each action
  to a publication or a stutter.

- `ChrootProofs`: all four safety properties of `chroot` (`WorkersStayInChroot`,
  `CleanupOnHost`, `NothingStaysMounted`, `SuccessIsComplete`), for any number of specs,
  workers and network operations. They follow from `ChrootInv`, which has a part per
  question. `RootInv`: the root follows `main`, and whoever is inside or cleans up holds
  `inChrootMutex`; without the mutexes `CleanupSeesHostRoot` is not inductive. `PoolInv`:
  workers exist only where `main` waits for them. `MountInv`: `activeChroots` is what
  `main` has opened, and is what is mounted. `SpecsInv` is the accounting of a pool: until
  the first failure the requests, the busy workers and the results add up to what was
  sent (`CountInv`), and each spec is in one of these or done (`CoverInv`). When `main` has
  received as many results as there are specs, the counts leave no spec waiting, so all
  are done (`EndInv`): that is why counting results is enough.
- `PkgVersionProofs`: `CompareTransitive`. A version without a release equals all the
  releases of it, so `Compare` is not transitive; the theorem says where the release has
  to be for each conclusion. It rests on lemma `LessTransitive`, about the first component
  in which two versions differ, whose existence comes from well-foundedness of the
  naturals (`MinNat`), not from induction.
- `GrapherProofs`: all four properties of `grapher`, for any packages, dependencies and
  order of them. `IntervalMeaning` says that an interval is what its conditions mean, up to
  `Tied` and `Ambiguous`; `LocalSatisfies` reduces the six comparisons of `Satisfies` to it.
  `GrapherInv` says what the table looks like. `HighestLocal` needs the local entries in
  order, while remote ones, which may have any interval, stand between them: `LocalsSorted`
  does not follow from sorting, because the order of intervals is not transitive either,
  but from `InsertPlace` (a new local entry moves past exactly the higher ones) because
  remote entries come later. For a remote node to be no lower than a local one it hides,
  `OpenEndedLast` and `RemoteBehindIsHigher` are needed: a remote entry behind a local one
  is there because it, or one that pushed it, is higher. `RemoteForGood` needs
  `RemoteStays`: no later insertion makes a local entry the last that satisfies a request.

TLC checked `ChrootInv` (61,401 states, the constants of `Chroot.cfg`), `GrapherInv`
(136,682 states, those of `Grapher.cfg`), `TypeInv`, `ActiveInv` and `BuildsInv` (58,945,
67,400 and 20,323 states, those of `Packages.cfg`, `Shutdown.cfg` and `Dynamic.cfg`), and
`OrderInv`, `FileInv`, `GoalInv`, `TestInv`, `WakeInv` and `CopyInv` (the first of these, and the
51,597 states of `stop`, whose inputs satisfy `OrderlyFile` and `FilledFile` and start with
`PairedBuild` and `CopiesBuild`) before they were proved. For both properties of the
grapher that changed, TLC had the counterexample first: `LocalMeetsRequirements` without
`Ambiguous` and `RemoteOnlyIfAskedFor` without `Comparable` fail for every inductive invariant.

Only model-checked, and why:

- Liveness (`EveryoneStops`, `Terminates`, `ReachesSummary`, `Exits`): fairness and ENABLED
  are out of the prover's reach.
- The remaining properties of `Scheduler`. `CascadeIsExact` and
  `ImplicitDependenciesInstalled` are about paths in the graph:
  the recursion can be unfolded (`RecursionExists`), but what it computes for every graph
  would need induction over data. `OutstandingIsActive`, `SendsNeverBlock`, `AvailableForGood`,
  `InstallsOnDisk`, `SuccessMeansRPMsExist` and `TestSkippedOnlyWithBuild` on graphs that are
  rewritten: the first does not hold of every one (`Reuse.cfg`), and the others build on it.
  `GivesUpOnlyIfBlocked` does not hold of every such graph either (`GivesUp.cfg`).
  `OneCopyInstalled` after the sanity check has failed, and on graphs that are rewritten.
- `tools`: the tools are programs that `GoCall` interprets; an invariant would have to
  speak of every suffix of every program, stacks of them included.
- `boot`: command lines are filtered with `SelectSeq` and folded, whose values for every
  input need induction over data.

## 5. Not modelled

- Wording and layout of logs and summaries, the DOT format, the saved graph.
- Errors of `PrepareGraphForBuild` with strict goals, duplicate entries of the lookup
  table, and several remote nodes for one package in the scheduler: the instances have none.
- Cycle resolution from upstream repositories beyond the resources it takes; its second
  search (`pkggraph.go:1702`) is listed as a hazard without a property.
- The Docker pipeline, in which chroots are directories without mounts, and
  `--no-cleanup` options.
- What external tools compute (rpmbuild, tdnf, rpmspec, parted, grub2-mkconfig beyond
  the arguments): they succeed or fail.
- Contents of files other than boot configurations, versions and the cache's tag:
  users, services, packages, scripts and file lists are steps that may fail.
- The attended installer, `roast`, configuration schemas, graph reports, small helpers:
  user interface, I/O and field-by-field checks without state that others rely on; see
  `components` in `PROJECT.json`.
- The scheduler's process is not composed with `ChrootProcess`: it enters no chroot
  itself, apart from the license check.

## 6. Plan

Done: scheduler, workers, graph, retries and mutex; the grapher's resolution; chroots,
signals and pools; the error paths of the tools; boot configuration; the compiler
cache with its refinement. Proofs of the shutdown, the mutex, retries, the compiler cache,
the chroot process and the grapher, and of the scheduler's types, freshness, build state,
builds of one SRPM, the order of a build, the files it leaves, the tests it skips, when it gives up and the
copies it installs.

Next, in this order:

1. An abstract scheduler - nodes that are waiting, in progress, available or failed,
   each finishing after its dependencies - and `Scheduler` shown to implement it.
2. `BuildList`: `buildlist.go`, with what it guarantees to the scheduler shown instead
   of assumed.
3. Scenarios with extra layers, `--optimize-with-cached-implicit`, and tests to rerun.
