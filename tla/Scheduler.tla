----------------------------- MODULE Scheduler ------------------------------
(***************************************************************************)
(* The package build: the scheduler goroutine and its pool of workers, and *)
(* what makes their cooperation correct.                                   *)
(***************************************************************************)
EXTENDS SchedulerLoop, BuildWorker
-----------------------------------------------------------------------------
\* buildGraph has prepared the graph and started the worker pool.
Init ==
    /\ input \in DOMAIN Inputs
    /\ \E p \in Prepared :
          /\ graph = [i \in {0, 1} |-> IF i = 0 THEN p.graph ELSE EmptyGraph]
          /\ attr = p.attr
          /\ goalNode = p.goal
          /\ channelBufferSize = NumberOfNodes(p.graph)
    /\ disk = FileDisk
    /\ pc = "start"
    /\ flags = {}
    /\ nodesToBuild = {}
    /\ newRequests = <<>>
    /\ result = NoJob
    /\ unread = {}
    /\ activeBuilds = [i \in {} |-> NoJob]
    /\ nodeToState = [n \in Node |-> Unprocessed]
    /\ failures = {}
    /\ conflicts = {}
    /\ badLicenses = {}
    /\ err = {}
    /\ requests = <<>> /\ priorityRequests = <<>> /\ results = <<>>
    /\ closed = {}
    /\ wpc = [w \in Worker |-> "poll"]
    /\ job = [w \in Worker |-> NoJob]
    /\ installs = [w \in Worker |-> {}]
    /\ late = [w \in Worker |-> 0]

SchedulerStep ==
    \/ StartAtLeaves \/ ConvertNodesToRequests \/ ConvertPanics \/ SubmitRequest
    \/ EnableCachedImplicit \/ CouldNotBuildAll
    \/ LicenseCheckerFails \/ ReceiveResult \/ SetAssociatedDeltaPaths
    \/ InjectProvide \/ FinishFile \/ FinishInject
    \/ BreakCycle \/ NoMoreCycles \/ Optimize
    \/ Advance \/ StopBuild \/ DoneBuild
    \/ CloseRequests \/ ClosePriority \/ DrainPriority \/ DrainRequests

WorkerStep(w) ==
    \/ PollCancel(w) \/ PollPriority(w) \/ Select(w)
    \/ PassThrough(w) \/ SkipIgnored(w) \/ UseCached(w) \/ StartBuild(w)
    \/ BuildSRPMFile(w) \/ TestSRPMFile(w)
    \/ SetAncillaryBuildNodesStatus(w) \/ PublishResult(w)

\* The process has ended, or has nothing left to run.
Finished ==
    /\ \/ pc = "panic"
       \/ pc = "returned" /\ \A w \in Worker : wpc[w] = "stopped"
    /\ UNCHANGED vars

Next == SchedulerStep \/ (\E w \in Worker : WorkerStep(w)) \/ Finished

\* Go runs every goroutine that can run, and every build ends (BuildRetry).
Spec == /\ Init /\ [][Next]_vars
        /\ WF_vars(SchedulerStep)
        /\ \A w \in Worker : WF_vars(WorkerStep(w))
-----------------------------------------------------------------------------
\* The values of the variables; the freshness a request asks for is within what
\* RecordBuildResult accepts back.
TypeOK ==
    /\ input \in DOMAIN Inputs
    /\ graph \in [{0, 1} -> Graph]
    /\ attr \in [Node -> PkgNode]
    /\ disk \subseteq Path
    /\ pc \in Control
    /\ flags \subseteq SchedulerFlags
    /\ goalNode \in Node
    /\ nodesToBuild \subseteq Node
    /\ newRequests \in Seq(Job)
    /\ result \in Job
    /\ unread \subseteq Path
    /\ Active \subseteq Job
    /\ nodeToState \in [Node -> BuildState]
    /\ failures \subseteq Node
    /\ err \subseteq Errors
    /\ requests \in Seq(Job) /\ priorityRequests \in Seq(Job) /\ results \in Seq(Job)
    /\ closed \subseteq Channels
    /\ channelBufferSize \in Nat
    /\ wpc \in [Worker -> WorkerControl]
    /\ job \in [Worker -> Job]
    /\ installs \in [Worker -> SUBSET Path]
    /\ late \in [Worker -> Nat]
    /\ \A r \in Active : r.freshness <= MaxFreshness
-----------------------------------------------------------------------------
(* Safety.                                                                 *)

\* The package manager is never asked to install an RPM that does not exist:
\* when a worker hands its dependency list to the agent, all of it is on disk.
InstallsOnDisk == \A w \in Worker : wpc[w] = "build" => installs[w] \subseteq disk

\* The build state knows of everything that is queued, being built or waiting
\* as a result, so that the scheduler never gives up, nor leaves its loop,
\* while work it asked for is still under way.
OutstandingIsActive ==
    \A j \in Outstanding :
        /\ attr[j.node].id \in DOMAIN activeBuilds
        /\ activeBuilds[attr[j.node].id].node = j.node

\* Two workers never build the same SRPM at the same time (they would share a
\* chroot directory and overwrite each other's RPMs).
NoConcurrentBuildOfSRPM ==
    \A v, w \in Worker :
        /\ wpc[v] = "build" /\ wpc[w] = "build"
        /\ TypeOf(v) = "LocalBuild" /\ TypeOf(w) = "LocalBuild"
        /\ attr[job[v].node].srpm = attr[job[w].node].srpm
        => v = w

\* What has become available to build with is never withdrawn, although a
\* second result of the same node would overwrite its state.
AvailableForGood ==
    [][\A n \in Node : IsNodeAvailable(n) => IsNodeAvailable(n)']_vars

\* A build that returns no error has put the RPM of every wanted package
\* where the node says it is.
SuccessMeansRPMsExist ==
    pc = "returned" /\ err = {} =>
        \A n \in WantedNodes :
            attr[n].type = "LocalRun" => IsNodeAvailable(n) /\ attr[n].rpm \in disk

\* "could not build all packages" is reported only when a build or a test
\* failed, or a dependency is left that nothing provides.
GivesUpOnlyIfBlocked ==
    "couldNotBuildAll" \in err =>
        \/ failures # {}
        \/ \E n \in Reach(G, goalNode) : attr[n].state = "Unresolved"

\* Once Cancel is closed a worker starts at most the one request it had
\* already decided to wait for.
AtMostOneLateRequest == \A w \in Worker : late[w] <= 1

\* The channels are never full when the scheduler sends (it is the only one
\* that empties the results, so a blocked send could block everyone).
SendsNeverBlock ==
    /\ pc = "submit" /\ newRequests # <<>> =>
          Len(requests) < channelBufferSize /\ Len(priorityRequests) < channelBufferSize
    /\ \A w \in Worker : wpc[w] = "publish" => Len(results) < channelBufferSize

\* drainChannels leaves in the build state only what some worker had already
\* taken, and the result that a failing license checker dropped.
DrainSyncsActiveBuilds ==
    pc = "returned" =>
        \A r \in Active :
            \/ r.node \in {j.node : j \in Outstanding}
            \/ "licenseChecker" \in err /\ r.node = result.node

\* No request is sent on a closed channel and no channel is closed twice, on
\* whichever path the loop is left: either would panic.
ChannelsClosedOnce ==
    /\ pc = "submit" => closed = {}
    /\ pc \in {"stopBuild", "doneBuild"} => closed \cap {"Cancel", "Done"} = {}
    /\ pc = "closeRequests" => "Requests" \notin closed
    /\ pc = "closePriority" => "PriorityRequests" \notin closed

\* A package is built with an RPM that provides each implicit package which
\* the graph that was read says it needs, or with the cached copy of it, however
\* the graph has been rewritten in between.
ImplicitDependenciesInstalled ==
    \A w \in Worker : wpc[w] = "build" =>
        \A d \in {m \in RuntimeClosure(FileGraph, job[w].node) : IsImplicit(FileAttr, m)} :
            \/ FileAttr[d].rpm \in installs[w]
            \/ \E f \in installs[w] : \E p \in ProvidesOf[f[1]] :
                   <<p, FileAttr[d].pkg>> \in Satisfies

\* A test is skipped only together with the build it belongs to.
TestSkippedOnlyWithBuild ==
    \A n \in Node :
        /\ attr[n].type = "Test"
        /\ {"processed", "cached"} \subseteq nodeToState[n].flags
        => \/ IsSRPMCached(attr[n].srpm)
           \/ \E r \in ActiveFromSRPM(attr[n].srpm, "LocalBuild") : "UseCache" \in r.flags

\* Reference definition of the cascade: the nodes that n reaches by edges that
\* enter at most k run nodes.
ReachedWithin(g, n, k) ==
    LET Flat(S) ==
            UNION {Reach([g EXCEPT !.deps = [m \in Node |->
                       {d \in From(g, m) : attr[d].type \notin {"LocalRun", "RemoteRun"}}]], x) :
                   x \in S}
        Near[i \in Nat] ==
            IF i = 0 THEN Flat({n})
            ELSE LET S == Near[i - 1]
                 IN  Flat(S \cup {d \in UNION {From(g, m) : m \in S} :
                                     attr[d].type = "LocalRun"})
    IN  Near[k]

MustRebuild(n) ==
    \/ ~CanUseCache
    \/ attr[n].pkg \in PackagesToRebuild
    \/ ~(RPMsOf(G, attr, attr[n].srpm) \subseteq FileDisk)

\* A package is rebuilt exactly when it has to be or when one that has to be is
\* at most maxCascadingRebuilds run dependencies below it.  (Looked at whenever a
\* result has been followed up, and at the end.)
CascadeIsExact ==
    pc \in {"advance", "returned"} =>
        \A n \in G.nodes :
            attr[n].type = "LocalBuild" /\ IsNodeProcessed(n) =>
                ("cached" \notin nodeToState[n].flags <=>
                    \E b \in ReachedWithin(G, n, MaxFreshness) :
                        attr[b].type = "LocalBuild" /\ MustRebuild(b))

\* A package is never built with two copies of one RPM, the cached one and the
\* rebuilt one: what the sanity check of setAssociatedDeltaPaths is for.
OneCopyInstalled ==
    \A w \in Worker : wpc[w] = "build" =>
        \A f1, f2 \in installs[w] : f1[1] = f2[1] => f1 = f2

-----------------------------------------------------------------------------
(* The inductive invariants.                                               *)

\* No request asks for more freshness than RecordBuildResult accepts.
AcceptedJob == {j \in Job : j.freshness <= MaxFreshness}

GraphsOK ==
    /\ input \in DOMAIN Inputs
    /\ graph \in [{0, 1} -> Graph]
    /\ attr \in [Node -> PkgNode]
    /\ goalNode \in Node
    /\ \A n \in Node : attr[n].type = "LocalBuild" => attr[n].srpm \in SRPM

LoopOK ==
    /\ pc \in Control
    /\ flags \subseteq SchedulerFlags
    /\ nodesToBuild \subseteq Node
    /\ newRequests \in Seq(AcceptedJob)
    /\ pc # "submit" => newRequests = <<>>
    /\ result \in AcceptedJob
    /\ unread \subseteq Path
    /\ err \subseteq Errors \ {"recording"}

StateOK ==
    /\ Active \subseteq AcceptedJob
    /\ nodeToState \in [Node -> BuildState]
    /\ \A n \in Node : nodeToState[n].freshness <= MaxFreshness
    /\ failures \subseteq Node

ChannelsOK ==
    /\ requests \in Seq(AcceptedJob) /\ priorityRequests \in Seq(AcceptedJob)
    /\ results \in Seq(AcceptedJob)
    /\ closed \subseteq Channels

WorkersOK ==
    /\ disk \subseteq Path
    /\ wpc \in [Worker -> WorkerControl]
    /\ job \in [Worker -> AcceptedJob]
    /\ installs \in [Worker -> SUBSET Path]
    /\ late \in [Worker -> Nat]

TypeInv == GraphsOK /\ LoopOK /\ StateOK /\ ChannelsOK /\ WorkersOK

\* The control points after the first close.
Closing == {"closeRequests", "closePriority", "drainPriority", "drainRequests",
            "returned"}

\* activeBuilds is indexed by the IDs that the nodes have, and has nothing that
\* is neither outstanding nor dropped by a failing license checker.
ActiveInv ==
    /\ \A i \in DOMAIN activeBuilds : attr[activeBuilds[i].node].id = i
    /\ \A i \in DOMAIN activeBuilds :
          \/ \E j \in Outstanding : j.node = activeBuilds[i].node
          \/ "licenseChecker" \in err /\ activeBuilds[i].node = result.node
    /\ "licenseChecker" \in err => pc \in {"doneBuild"} \cup Closing

\* No two of the nodes that requests are made for have the same ID, although
\* gonum hands out again the IDs of nodes that were removed.
NoReusedIDs ==
    \A j, k \in JobsIn(newRequests) \cup Outstanding :
        attr[j.node].id = attr[k.node].id => j.node = k.node

IsBuild(a, j) == a[j.node].type = "LocalBuild"

SameBuild(a, j, k) ==
    IsBuild(a, j) /\ IsBuild(a, k) /\ a[j.node].srpm = a[k.node].srpm

Distinct(a, q) == \A i, k \in DOMAIN q : SameBuild(a, q[i], q[k]) => i = k

\* One place at most holds a request for a build of an SRPM, or its result,
BuildsDistinct ==
    /\ Distinct(attr, newRequests) /\ Distinct(attr, requests) /\ Distinct(attr, results)
    /\ \A v, w \in Busy : SameBuild(attr, job[v], job[w]) => v = w
    /\ \A j \in JobsIn(newRequests), k \in Outstanding : ~SameBuild(attr, j, k)
    /\ \A j \in JobsIn(requests), k \in JobsIn(results) : ~SameBuild(attr, j, k)
    /\ \A j \in JobsIn(requests) \cup JobsIn(results), w \in Busy :
          ~SameBuild(attr, j, job[w])
    /\ \A j \in JobsIn(priorityRequests) : ~IsBuild(attr, j)

\* because the build state knows of each.
BuildsActive ==
    \A j \in Outstanding : IsBuild(attr, j) =>
        \E i \in DOMAIN activeBuilds : activeBuilds[i].node = j.node

BuildsInv == BuildsDistinct /\ BuildsActive
-----------------------------------------------------------------------------
(* The order of a build: what every request waits for, and where it is.    *)

\* Where requests and results wait: those that are not submitted yet, the three
\* channels, and the desk of each worker.
Queue(name) == <<"queue", name>>

Desk(w) == <<"worker", w>>

LineNames == ({"queue"} \X {"new", "requests", "priority", "results"})
             \cup ({"worker"} \X Worker)

LineOf(new, req, prio, res, busy, jobs) ==
    [c \in LineNames |->
        IF c[1] = "worker" THEN (IF c[2] \in busy THEN <<jobs[c[2]]>> ELSE <<>>)
        ELSE IF c[2] = "new" THEN new
        ELSE IF c[2] = "requests" THEN req
        ELSE IF c[2] = "priority" THEN prio ELSE res]

Line == LineOf(newRequests, requests, priorityRequests, results, Busy, job)

Places(L) == UNION {{c} \X DOMAIN L[c] : c \in LineNames}

At(L, p) == L[p[1]][p[2]]

\* The nodes that are being taken care of somewhere in L.
HeldIn(L) == UNION {At(L, p).ancillary : p \in Places(L)}

Separate(L) ==
    \A p, q \in Places(L) : At(L, p).ancillary \cap At(L, q).ancillary # {} => p = q

ForNodes(L, S) ==
    \A p \in Places(L) : At(L, p).node \in At(L, p).ancillary /\ At(L, p).ancillary \subseteq S

\* What the grapher writes when no package is implicit: edges lead to nodes of the
\* graph, IDs are unique, a test node has an edge to the build node of its own
\* package and to no other (grapher.go:185-199), and the tests of an SRPM need the
\* same packages, because they have the TestRequires of one spec (323-332).
OrderlyGraph(g, a) ==
    /\ \A n \in g.nodes : From(g, n) \subseteq g.nodes /\ ~IsImplicit(a, n)
    /\ \A m, n \in g.nodes : a[m].id = a[n].id => m = n
    /\ \A t, b, c \in g.nodes :
          /\ a[t].type = "Test" /\ {b, c} \subseteq From(g, t)
          /\ a[b].type = "LocalBuild" /\ a[c].type = "LocalBuild"
          => b = c /\ a[b].srpm = a[t].srpm
    /\ \A t, u, d \in g.nodes :
          /\ a[t].type = "Test" /\ a[u].type = "Test" /\ a[t].srpm = a[u].srpm
          /\ a[d].type # "LocalBuild"
          => (d \in From(g, t) <=> d \in From(g, u))

\* The builds whose graph is not rewritten.
OrderlyBuild == OrderlyGraph(graph[0], attr) /\ goalNode \in graph[0].nodes

\* They are those whose input file has such a graph, and the IDs it was written with.
OrderlyFile ==
    /\ OrderlyGraph(FileGraph, FileAttr)
    /\ \A n \in FileGraph.nodes : FileAttr[n].id <= FileGraph.maxID

Processed == {n \in Node : IsNodeProcessed(n)}

Held == HeldIn(Line)

Started == Held \cup Processed

\* The graph stays orderly: only edges from tests to builds are removed.
Orderly ==
    /\ OrderlyBuild
    /\ flags \cap {"isGraphOptimized", "didInjectAny"} = {}
    /\ pc \notin {"makeDAG", "optimize"}

\* A node is asked for at most once: it is in one request, or has its result.
OneRequestPerNode ==
    /\ ForNodes(Line, graph[0].nodes)
    /\ Separate(Line)
    /\ Held \cap Processed = {}
    /\ \A n \in Node : IsNodeAvailable(n) => IsNodeProcessed(n)

AllAvailable(g, n) == \A d \in From(g, n) : IsNodeAvailable(d)

\* Nothing is asked for before all that it depends on is available.
DepsFirst == \A n \in Started : AllAvailable(graph[0], n)

\* What is about to be requested was not asked for before, and waits for nothing.
ReadyToStart ==
    /\ pc = "start" => Started = {}
    /\ pc = "convert" =>
          \A n \in nodesToBuild :
              n \in graph[0].nodes \ Started /\ AllAvailable(graph[0], n)

\* Nothing that depends on a result has been asked for before the result is
\* followed up.
FollowedUp ==
    pc \in {"delta", "inject", "advance"} =>
        /\ result.ancillary \subseteq graph[0].nodes
        /\ \A n \in Started : From(graph[0], n) \cap result.ancillary = {}

\* The nodes of what is queued, being worked on or waiting as a result.
OutstandingNodes == {j.node : j \in Outstanding}

AllKnown ==
    \A n \in OutstandingNodes :
        attr[n].id \in DOMAIN activeBuilds /\ activeBuilds[attr[n].id].node = n

OrderInv ==
    /\ Orderly /\ OneRequestPerNode /\ DepsFirst
    /\ ReadyToStart /\ FollowedUp /\ AllKnown
-----------------------------------------------------------------------------
(* The files of a build: which RPMs exist when a node is done.             *)

OutputOf(srpm) == {<<r, "out">> : r \in RpmsBuiltBy[srpm]}

\* What grapher and fetchers say of RPMs: a package of a spec file has an RPM that
\* its SRPM builds, or that was fetched (a delta); every other RPM that a node names
\* was fetched; and a run node has an edge to the build node of its package
\* (grapher.go:173-178).
FilledGraph(g, a, files) ==
    \A n \in g.nodes :
        /\ IF a[n].type \in {"LocalBuild", "LocalRun"}
           THEN a[n].srpm \in SRPM \ {NoSRPM} /\ a[n].rpm \in files \cup OutputOf(a[n].srpm)
           ELSE a[n].rpm \in files \cup {NoRPM}
        /\ a[n].type = "LocalRun" =>
              \E b \in From(g, n) :
                  a[b].type = "LocalBuild" /\ a[b].srpm = a[n].srpm /\ a[b].pkg = a[n].pkg

\* Packages that are ignored are there already.
IgnoredExist(g, a, files) ==
    \A n \in g.nodes :
        a[n].type = "LocalBuild" /\ a[n].pkg \in IgnoredPackages
            => RPMsOf(g, a, a[n].srpm) \subseteq files

FilledBuild ==
    OrderlyBuild /\ FilledGraph(graph[0], attr, disk) /\ IgnoredExist(graph[0], attr, disk)

FilledFile ==
    /\ OrderlyFile
    /\ FilledGraph(FileGraph, FileAttr, FileDisk) /\ IgnoredExist(FileGraph, FileAttr, FileDisk)

\* All the RPMs of an SRPM exist.
Present(srpm) == RPMsOf(graph[0], attr, srpm) \subseteq disk

\* A request or result is for one kind of node, and names files that exist; a build
\* that may use the cache can.
Filed(j, g, a, files) ==
    /\ j.graph = 0
    /\ j.built \subseteq files
    /\ \A n \in j.ancillary :
          a[n].type = "LocalBuild" => IsBuild(a, j) /\ a[n].srpm = a[j.node].srpm
    /\ IsBuild(a, j) /\ "UseCache" \in j.flags => RPMsOf(g, a, a[j.node].srpm) \subseteq files

\* What a worker has finished: its own result, and those it has sent.
Ended == JobsIn(results) \cup {job[w] : w \in {v \in Worker : wpc[v] \in {"status", "publish"}}}

\* A build that ends without an error leaves all the RPMs of its SRPM,
Left(j, g, a, files) ==
    IsBuild(a, j) /\ "Err" \notin j.flags => RPMsOf(g, a, a[j.node].srpm) \subseteq files

\* so that they exist once it is recorded.
BuiltMeansPresent ==
    /\ \A j \in Ended : Left(j, graph[0], attr, disk)
    /\ \A n \in graph[0].nodes :
          attr[n].type = "LocalBuild" /\ IsNodeAvailable(n) => Present(attr[n].srpm)

\* Every request and every result, wherever it is.
AllJobs == JobsIn(newRequests) \cup Outstanding

FileInv ==
    /\ FilledGraph(graph[0], attr, disk) /\ IgnoredExist(graph[0], attr, disk)
    /\ \A j \in AllJobs : Filed(j, graph[0], attr, disk)
    /\ result.built \subseteq disk
    /\ BuiltMeansPresent
    /\ InstallsOnDisk

\* The wanted run nodes are dependencies of the goal, and the loop is left without
\* an error only when the goal is available.
GoalInv ==
    /\ attr[goalNode].type = "Goal"
    /\ \A n \in WantedNodes : attr[n].type = "LocalRun" => n \in From(graph[0], goalNode)
    /\ "stopBuilding" \in flags => IsNodeAvailable(goalNode)
    /\ pc \in {"doneBuild"} \cup Closing /\ err = {} => IsNodeAvailable(goalNode)
-----------------------------------------------------------------------------
(* The tests of a build: which are skipped, and where their builds are.    *)

Skips(a, j) == a[j.node].type = "Test" /\ "UseCache" \in j.flags

UsesCache(a, j, srpm) ==
    a[j.node].type = "LocalBuild" /\ a[j.node].srpm = srpm /\ "UseCache" \in j.flags

NodesFrom(q, i) == {q[k].node : k \in {l \in DOMAIN q : l >= i}}

\* The build of an SRPM used the cache, or is known to be going to, and does not
\* wait with S.
Covered(srpm, S) ==
    IsSRPMCached(srpm) \/ \E r \in Active : UsesCache(attr, r, srpm) /\ r.node \notin S

\* A test that was skipped, or that a worker has, is behind its build in the channel;
SkippedBehind ==
    \A n \in Node :
        attr[n].type = "Test" /\ {"processed", "cached"} \subseteq nodeToState[n].flags
            => Covered(attr[n].srpm, NodesFrom(requests, 1))

InHand == JobsIn(results) \cup {job[w] : w \in Busy}

TakenBehind ==
    \A j \in InHand : Skips(attr, j) => Covered(attr[j.node].srpm, NodesFrom(requests, 1))

\* one in the channel has its build ahead of it, and one that is not submitted yet too.
QueuedBehind ==
    \A i \in DOMAIN requests :
        Skips(attr, requests[i]) => Covered(attr[requests[i].node].srpm, NodesFrom(requests, i))

NewBehind ==
    \A i \in DOMAIN newRequests :
        Skips(attr, newRequests[i]) =>
            LET srpm == attr[newRequests[i].node].srpm
            IN  \/ Covered(srpm, {})
                \/ \E k \in DOMAIN newRequests : k < i /\ UsesCache(attr, newRequests[k], srpm)

\* The build state knows whether a request uses the cache, a test request is for
\* tests of one SRPM, and only prebuilt packages have priority.
RequestsKnown ==
    /\ \A r \in Active, j \in AllJobs :
          r.node = j.node /\ "UseCache" \in r.flags => "UseCache" \in j.flags
    /\ \A j \in AllJobs : \A n \in j.ancillary :
          attr[n].type = "Test" =>
              attr[j.node].type = "Test" /\ attr[n].srpm = attr[j.node].srpm
    /\ \A j \in JobsIn(priorityRequests) : attr[j.node].type = "PreBuilt"

TestInv ==
    /\ SkippedBehind /\ RequestsKnown
    /\ pc \notin Closing => TakenBehind /\ QueuedBehind /\ NewBehind
-----------------------------------------------------------------------------
(* Giving up: what can be started is started.                              *)

SameKind(a, type, m, n) ==
    a[m].type = type /\ a[n].type = type /\ a[m].srpm = a[n].srpm

\* What the grapher writes of the packages of one spec file, besides: their builds
\* need the same packages, its BuildRequires (grapher.go:313-320), a build has one
\* test, and only remote nodes are unresolved (pkggraph.go:527).
PairedGraph(g, a) ==
    /\ \A b, c \in g.nodes : SameKind(a, "LocalBuild", b, c) => From(g, b) = From(g, c)
    /\ \A t, u \in g.nodes : \A b \in From(g, t) \cap From(g, u) :
          a[t].type = "Test" /\ a[u].type = "Test" /\ a[b].type = "LocalBuild" => t = u
    /\ \A n \in g.nodes : a[n].state = "Unresolved" => a[n].type = "RemoteRun"

BuildsOf(g, a, t) == {b \in From(g, t) : a[b].type = "LocalBuild"}

\* The builds whose graph has no cycle, and whose tests have a build (grapher.go:196).
PairedBuild ==
    /\ OrderlyBuild /\ PairedGraph(graph[0], attr) /\ OnSomeCycle(graph[0]) = {}
    /\ \A t \in graph[0].nodes : attr[t].type = "Test" => BuildsOf(graph[0], attr, t) # {}

\* What the goal needs, and what starts when its last dependency is available.
Needed == Reach(graph[0], goalNode)

Live(n) == n \in Needed \/ (attr[n].type = "LocalBuild" /\ From(graph[0], n) # {})

\* The builds of an SRPM are in one request, and have their results together;
OfOneKind == \A j \in AllJobs : \A n \in j.ancillary : SameKind(attr, attr[j.node].type, n, j.node)

BuildsTogether ==
    \A b, c \in graph[0].nodes :
        SameKind(attr, "LocalBuild", b, c) /\ Live(c) =>
            /\ IsNodeProcessed(b) => IsNodeProcessed(c)
            /\ IsNodeAvailable(b) => IsNodeAvailable(c)
            /\ \A j \in AllJobs : b \in j.ancillary => c \in j.ancillary

\* of its tests none is left behind.
TestsTogether ==
    \A t, u \in graph[0].nodes :
        SameKind(attr, "Test", t, u) /\ u \in Needed =>
            /\ t \in Started => u \in Started
            /\ BuildsOf(graph[0], attr, t) = {} => BuildsOf(graph[0], attr, u) = {}

\* What waits for nothing has been asked for, or is about to be: it is to be built,
\* or depends on the result that is followed up.
Awake ==
    \A n \in graph[0].nodes :
        Live(n) /\ attr[n].state # "Unresolved" /\ AllAvailable(graph[0], n) =>
            \/ n \in Started
            \/ pc = "convert" /\ n \in nodesToBuild
            \/ pc \in {"delta", "inject", "advance"} /\ From(graph[0], n) \cap result.ancillary # {}

\* The loop goes on after the goal is available only while an SRPM is being built,
\* and then for one more result.
Stopping ==
    /\ IsNodeAvailable(goalNode) =>
          "stopBuilding" \in flags \/ pc \in {"delta", "inject", "advance"}
    /\ "stopBuilding" \in flags =>
          pc \in {"convert", "submit"} /\ \E r \in Active : attr[r.node].type = "LocalBuild"

NothingFailed ==
    /\ \A n \in Node : IsNodeProcessed(n) => IsNodeAvailable(n)
    /\ pc \in {"delta", "inject", "advance"} => "Err" \notin result.flags

Looping == {"start", "convert", "submit", "delta", "inject", "advance"}

Wakeful ==
    /\ OfOneKind /\ BuildsTogether /\ TestsTogether
    /\ NothingFailed /\ Stopping
    /\ pc # "start" => Awake
    /\ pc = "convert" => \A n \in nodesToBuild : attr[n].type = "LocalBuild" => Live(n)

WakeInv ==
    /\ PairedGraph(graph[0], attr) /\ OnSomeCycle(graph[0]) = {}
    /\ pc \in Looping => "couldNotBuildAll" \notin err
    /\ pc \in Looping /\ failures = {} => Wakeful
    /\ GivesUpOnlyIfBlocked
-----------------------------------------------------------------------------
(* The copies of an RPM: the cached one of a delta, and the rebuilt one.   *)

\* The nodes name one RPM file, in whatever directories.
SameFile(a, m, n) ==
    a[m].rpm # NoRPM /\ a[n].rpm # NoRPM /\ a[m].rpm[1] = a[n].rpm[1]

\* Nodes that are installed name one copy of a file.  Only the build nodes of deltas,
\* which are not installed, keep the cached path when the run nodes are redirected.
OneCopyNamed(g, a) ==
    \A m, n \in g.nodes :
        /\ SameFile(a, m, n) /\ a[m].type # "LocalBuild"
        /\ a[m].state # "Delta" \/ a[n].type # "LocalBuild"
        => a[m].rpm = a[n].rpm

\* setAssociatedDeltaPaths looks at every node that is installed from the file of a
\* delta: the fetcher makes only local packages deltas (graphpkgfetcher.go:357-445).
DeltasListed(g, a) ==
    \A m, n \in g.nodes :
        /\ SameFile(a, m, n) /\ a[n].state = "Delta"
        /\ a[m].type # "LocalBuild" /\ a[n].type # "LocalBuild"
        => m \in AllPreferredRunNodes(g, a)

\* The builds whose graph names one copy of each RPM at first.
CopiesBuild ==
    FilledBuild /\ OneCopyNamed(graph[0], attr) /\ DeltasListed(graph[0], attr)

\* Nothing was built in two copies of which an RPM that is no delta is one.
BuiltOnce(files, g, a) ==
    \A f1, f2 \in files : \A m \in g.nodes :
        /\ a[m].type # "LocalBuild" /\ a[m].state # "Delta" /\ a[m].rpm # NoRPM
        /\ f1[1] = a[m].rpm[1] /\ f2[1] = a[m].rpm[1]
        => f1 = f2

\* When the sanity check fails, some of the run nodes may be redirected already; the
\* build ends with its error.
CopyInv ==
    /\ DeltasListed(graph[0], attr)
    /\ "deltaPaths" \in err => pc \in {"stopBuild"} \cup Closing
    /\ "deltaPaths" \notin err =>
          /\ OneCopyNamed(graph[0], attr)
          /\ \A j \in AllJobs : BuiltOnce(j.built, graph[0], attr)
          /\ BuiltOnce(result.built, graph[0], attr)
          /\ OneCopyInstalled
-----------------------------------------------------------------------------
(* What comments of the code say and the code does not keep.               *)

\* scheduler.go:514: "stopBuilding will be set to true here only if the build
\* has failed".
StopsOnlyOnFailure == pc = "stopBuild" => err # {}

\* preparerequest.go:23: once a build node is unblocked its partner test node
\* is analyzed, which needs every node of the SRPM to have one.
NeverPanics == pc # "panic"

-----------------------------------------------------------------------------
(* Liveness.                                                               *)

\* Whatever fails, the scheduler returns and every worker stops: nobody is left
\* waiting for a result that no worker will send, or on a channel.
EveryoneStops ==
    <>(\/ pc = "panic"
       \/ pc = "returned" /\ \A w \in Worker : wpc[w] = "stopped")
=============================================================================
