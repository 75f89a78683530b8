----------------------------- MODULE BuildState -----------------------------
(***************************************************************************)
(* The state of a package build: the build state kept by the scheduler     *)
(* (GraphBuildState of schedulerutils/graphbuildstate.go), the channels to *)
(* the workers, and the questions asked of that state by depsolver.go and  *)
(* preparerequest.go.  SchedulerLoop and BuildWorker have the steps.       *)
(*                                                                         *)
(* The scheduler goroutine is the only writer of the build state; the      *)
(* variable pc is its control point.  A worker shares with it the channels, *)
(* the graph (under graphMutex), the fields of the nodes and the RPM files. *)
(***************************************************************************)
EXTENDS PkgGraph, Sequences

CONSTANTS
    Worker,   \* the worker goroutines
    Spare,    \* nodes that only exist once the scheduler creates them
    Inputs    \* the things a scheduler may be started with, by name

VARIABLE input    \* the name of the input of this build

\* What the scheduler reads, and the outside world answers, with that input.
FileGraph == Inputs[input].FileGraph    \* the graph of the input file, with its ALL goal
FileAttr == Inputs[input].FileAttr      \* its node fields
FileDisk == Inputs[input].FileDisk      \* the RPM files on disk when it starts
RpmsBuiltBy == Inputs[input].RpmsBuiltBy  \* SRPM -> the RPMs a build of it produces
ProvidesOf == Inputs[input].ProvidesOf  \* RPM -> the packages `rpm -q --provides' reports
Unbuildable == Inputs[input].Unbuildable  \* SRPMs whose build may fail (the agent decides)
Untestable == Inputs[input].Untestable  \* SRPMs whose test may fail
LicenseOutcomes == Inputs[input].LicenseOutcomes  \* of "ok", "errors" and "crash"

\* The command line: the wanted packages and tests, {} for all of them, and so on.
PackagesToBuild == Inputs[input].PackagesToBuild
TestsToRun == Inputs[input].TestsToRun
ExtraLayers == Inputs[input].ExtraLayers
PackagesToRebuild == Inputs[input].PackagesToRebuild
TestsToRerun == Inputs[input].TestsToRerun
IgnoredPackages == Inputs[input].IgnoredPackages
IgnoredTests == Inputs[input].IgnoredTests
ReservedFiles == Inputs[input].ReservedFiles    \* RPMs of the toolchain manifest
AllowToolchainRebuilds == Inputs[input].AllowToolchainRebuilds
CanUseCache == Inputs[input].CanUseCache
OptimizeWithCachedImplicit == Inputs[input].OptimizeWithCachedImplicit
StopOnFailure == Inputs[input].StopOnFailure
MaxFreshness == Inputs[input].MaxFreshness      \* maxCascadingRebuilds

ASSUME SchedulerAssumption ==
    /\ Node # {} /\ IsFiniteSet(Node)
    /\ Spare \subseteq Node
    /\ NoRPM \notin Path /\ NoPkg \notin Implicit
    /\ \A i \in DOMAIN Inputs :
          /\ Inputs[i].MaxFreshness \in Nat
          /\ Inputs[i].FileGraph \in Graph
          /\ Inputs[i].FileAttr \in [Node -> PkgNode]
          /\ \A n \in Node : Inputs[i].FileAttr[n].type = "LocalBuild"
                             => Inputs[i].FileAttr[n].srpm # NoSRPM
          \* AddGoalNodeWithExtraLayers refuses a second goal of that name.
          /\ FindGoalNode(Inputs[i].FileGraph, Inputs[i].FileAttr, "PackagesToBuild") = {}
          \* For the two goals that PrepareGraphForBuild may add.
          /\ \E m, n \in Spare \ Inputs[i].FileGraph.nodes : m # n
          /\ Inputs[i].ExtraLayers \in Nat
          /\ Inputs[i].FileDisk \subseteq Path
          /\ Inputs[i].RpmsBuiltBy \in [SRPM -> SUBSET RPM]
          /\ Inputs[i].ProvidesOf \in [RPM -> SUBSET Pkg]
          \* buildlist.go adds the first two, and refuses the others.
          /\ Inputs[i].PackagesToRebuild \subseteq Inputs[i].PackagesToBuild
          /\ Inputs[i].TestsToRerun \subseteq Inputs[i].TestsToRun
          /\ Inputs[i].PackagesToRebuild \cap Inputs[i].IgnoredPackages = {}
          /\ Inputs[i].TestsToRerun \cap Inputs[i].IgnoredTests = {}

VARIABLES
    graph,        \* graph[0]: as prepared for the build; graph[1]: its solvable
                  \* subgraph, once there is one
    attr,         \* the fields of the nodes
    disk,         \* the RPM files that exist
    pc,           \* control point of the scheduler goroutine
    flags,        \* the Boolean locals of buildAllNodes and its callees
    goalNode,
    nodesToBuild,
    newRequests,  \* requests of this iteration that are not submitted yet
    result,       \* the result being processed
    unread,       \* its RPM files whose provides are not injected yet
    activeBuilds, \* node ID -> outstanding request
    nodeToState,  \* node -> its build state
    failures,     \* nodes with a failed build or a failed test
    conflicts,    \* SRPMs that rebuilt a toolchain RPM
    badLicenses,  \* SRPMs with license errors
    err           \* what is joined or wrapped in the error it returns; {} is nil

VARIABLES
    requests, priorityRequests, results, \* the buffered channels
    channelBufferSize, \* of each of them, fixed when startWorkerPool makes them
    closed        \* which of Cancel, Done and the two request channels are closed

VARIABLES
    wpc,          \* control point of each worker
    job,          \* the request, then the result, each worker holds
    installs,     \* the RPMs each building worker installs first
    late          \* history: requests each worker took after Cancel was closed

schedVars == <<pc, flags, goalNode, nodesToBuild, newRequests, result, unread, err>>
stateVars == <<activeBuilds, nodeToState, failures, conflicts, badLicenses>>
chanVars == <<requests, priorityRequests, results, closed, channelBufferSize>>
workerVars == <<wpc, job, installs, late>>
vars == <<input, graph, attr, disk, schedVars, stateVars, chanVars, workerVars>>
-----------------------------------------------------------------------------
(* A BuildRequest and the BuildResult made from it have the same shape.    *)

JobFlags == {"UseCache", "IsDelta", "Err", "CheckFailed", "Ignored"}

Job == [node : Node, ancillary : SUBSET Node, graph : {0, 1},
        freshness : Nat, flags : SUBSET JobFlags, built : SUBSET Path]

NoJob == [node |-> CHOOSE n \in Node : TRUE, ancillary |-> {}, graph |-> 0,
          freshness |-> 0, flags |-> {}, built |-> {}]

\* nodeState of graphbuildstate.go; {} is a node that has not been processed.
BuildState == [flags : SUBSET {"processed", "available", "cached", "usedDelta"},
               freshness : Nat]

Unprocessed == [flags |-> {}, freshness |-> 0]

SchedulerFlags == {"stopBuilding", "useCachedImplicit", "isGraphOptimized",
                   "didInjectAny"}

Errors == {"couldNotBuildAll", "licenseChecker", "recording", "deltaPaths",
           "graph", "build", "fatal", "toolchainRebuilt", "licenses"}

Control == {"start", "convert", "submit", "delta", "inject",
            "makeDAG", "optimize", "advance", "stopBuild", "doneBuild",
            "closeRequests", "closePriority", "drainPriority", "drainRequests",
            "returned", "panic"}

WorkerControl == {"poll", "pollPriority", "select", "work", "build", "status",
                  "publish", "stopped"}

Channels == {"Cancel", "Done", "Requests", "PriorityRequests"}

Current == IF "isGraphOptimized" \in flags THEN 1 ELSE 0

G == graph[Current]

\* The scheduler holds graphMutex for writing, which it takes with the first
\* change it makes: no worker then reads the graph or writes a node.
GraphLocked ==
    \/ pc \in {"makeDAG", "optimize"}
    \/ pc = "inject" /\ (unread # result.built \/ "didInjectAny" \in flags)

\* Seeded fault: the buffers are sized for the workers, not for the nodes.
BufferPerWorker(g) == Cardinality(Worker)

\* What buildGraph sizes the buffers for: the nodes of the graph it has prepared.
\* Nodes that the scheduler adds later do not enlarge them.
NumberOfNodes(g) == Cardinality(g.nodes)

IsNodeProcessed(n) == "processed" \in nodeToState[n].flags

IsNodeAvailable(n) == "available" \in nodeToState[n].flags

JobsIn(q) == {q[i] : i \in DOMAIN q}

Busy == {w \in Worker : wpc[w] \in {"work", "build", "status", "publish"}}

\* The requests and results that the scheduler has handed out and not got back.
Outstanding ==
    JobsIn(requests) \cup JobsIn(priorityRequests) \cup JobsIn(results)
    \cup {job[w] : w \in Busy}

Active == {activeBuilds[i] : i \in DOMAIN activeBuilds}

\* The nodes that somebody has a pointer to.
Referenced ==
    graph[0].nodes \cup {j.node : j \in Active \cup Outstanding}
    \cup {n \in Node : IsNodeProcessed(n)}

\* The bound on allocations: without a node to spare the scheduler is stuck.
CanAllocate == ~(Spare \subseteq Referenced)

ActiveFromSRPM(srpm, type) ==
    {r \in Active : attr[r.node].type = type /\ attr[r.node].srpm = srpm}

\* IsSRPMCached answers for the build node of the SRPM that the iteration over the
\* Go map meets first. All build nodes of an SRPM that have been processed agree,
\* as TLC finds in every state of the scheduler's runs, so any of them will do.
IsSRPMCached(srpm) ==
    \E n \in Node : /\ IsNodeProcessed(n)
                    /\ attr[n].type = "LocalBuild" /\ attr[n].srpm = srpm
                    /\ "cached" \in nodeToState[n].flags
-----------------------------------------------------------------------------
(* depsolver.go                                                            *)

IsNodeUnblocked(g, n) == \A d \in From(g, n) : IsNodeAvailable(d)

LeafNodes(g, root, useCachedImplicit) ==
    {n \in Reach(g, root) :
        /\ ~IsNodeProcessed(n)
        /\ attr[n].state # "Unresolved"
        /\ From(g, n) = {}
        /\ \/ useCachedImplicit
           \/ ~(IsImplicit(attr, n) /\ attr[n].state = "Cached")}

\* Seeded fault: whether the dependent is blocked is not looked at.
FindDependents(g, finished) ==
    UNION {To(g, attr, attr[a].id) : a \in finished}

\* Seeded fault: only one of the nodes that finished together is followed up.
FindUnblockedByOne(g, finished) ==
    {n \in To(g, attr, attr[CHOOSE a \in finished : TRUE].id) :
        \A d \in From(g, n) : "available" \in nodeToState[d].flags}

\* The dependents of what has finished that wait for nothing else.
FindUnblockedNodes(g, finished) ==
    {n \in UNION {To(g, attr, attr[a].id) : a \in finished} :
        \A d \in From(g, n) : "available" \in nodeToState[d].flags}
-----------------------------------------------------------------------------
(* preparerequest.go                                                       *)

NodeHasMissingRPMs(g, n) ==
    attr[n].srpm # NoSRPM /\ ~(RPMsOf(g, attr, attr[n].srpm) \subseteq disk)

IsRequiredRebuild(g, n, rebuild) ==
    NodeHasMissingRPMs(g, n) \/ attr[n].pkg \in rebuild

\* Seeded fault: every edge costs one.
ExpectedFreshnessEveryEdge(d) ==
    IF attr[d].type = "RemoteRun" \/ nodeToState[d].freshness = 0
    THEN 0 ELSE nodeToState[d].freshness - 1

\* calculateExpectedFreshness: remote nodes are stale, and an edge to a local
\* run node costs one.
ExpectedFreshness(d) ==
    LET f == nodeToState[d].freshness
    IN  CASE attr[d].type = "RemoteRun" -> 0
          [] attr[d].type = "LocalRun" /\ f # 0 -> f - 1
          [] OTHER -> f

ShouldRebuild(d) == attr[d].type # "RemoteRun" /\ nodeToState[d].freshness > 0

InheritedFreshness(g, n) ==
    LET inherited == {0} \cup {ExpectedFreshness(d) : d \in From(g, n)}
    IN  CHOOSE f \in inherited : \A i \in inherited : i <= f

BuildRequest(g, n, ancillary, rebuild, cacheAllowed, delta) ==
    LET mayUseCache == cacheAllowed /\ ~IsRequiredRebuild(g, n, rebuild)
    IN  [node |-> n, ancillary |-> ancillary, graph |-> Current,
         freshness |-> IF mayUseCache THEN InheritedFreshness(g, n) ELSE MaxFreshness,
         flags |-> (IF mayUseCache /\ \A d \in From(g, n) : ~ShouldRebuild(d)
                    THEN {"UseCache"} ELSE {})
                   \cup (IF delta THEN {"IsDelta"} ELSE {}),
         built |-> {}]

NodesOfType(S, type) == {n \in S : attr[n].type = type}

\* Seeded fault: every node is a group of its own.
Ungrouped(type) == {{n} : n \in NodesOfType(nodesToBuild, type)}

\* The nodes of one type that are ready, grouped by SRPM.
Groups(type) ==
    LET ready == NodesOfType(nodesToBuild, type)
    IN  {{m \in ready : attr[m].srpm = attr[n].srpm} : n \in ready}

SRPMOf(group) == attr[CHOOSE n \in group : TRUE].srpm

IsDelta(group) == \E n \in group : attr[n].state = "Delta"

\* buildNodeToTestNode.
PartnerTests(g, build) ==
    {t \in To(g, attr, attr[build].id) : attr[t].type = "Test"}

PartnerTest(g, build) == CHOOSE t \in PartnerTests(g, build) : TRUE

\* Seeded fault: the test of an SRPM goes by its RPMs only.
BuildAssumedCached(srpm) == TRUE

\* testNodesToRequests: whether the build of the SRPM used the cache.
BuildUsedCache(srpm) ==
    LET active == ActiveFromSRPM(srpm, "LocalBuild")
    IN  IF active # {} THEN \E r \in active : "UseCache" \in r.flags
                       ELSE IsSRPMCached(srpm)

\* The orders in which a set of requests can be submitted.
Orders(S) ==
    {q \in [1..Cardinality(S) -> S] :
        q \in Seq(S) /\ \A i, j \in DOMAIN q : i # j => q[i] # q[j]}
=============================================================================
