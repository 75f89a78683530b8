--------------------------- MODULE SchedulerLoop ----------------------------
(***************************************************************************)
(* The scheduler goroutine: buildGraph and buildAllNodes of                *)
(* scheduler/scheduler.go, with the calls they make into schedulerutils.   *)
(* One iteration of the loop converts the nodes that are ready to requests, *)
(* submits them, takes one result, records it, injects the implicit        *)
(* provides of the RPMs it brought, and finds what it unblocked.           *)
(***************************************************************************)
EXTENDS BuildState
-----------------------------------------------------------------------------
(* initializegraph.go, and the start of buildAllNodes.                     *)

\* A node that is allocated differs from all that are in use.
NewNode(used) == CHOOSE n \in Spare : n \notin used

\* OptimizeGraph on a graph g that can be subgraphed: the subgraph with its own
\* ALL goal, whose ID gonum may have a choice of.
Optimized(g, a, used) ==
    LET root == CHOOSE n \in FindGoalNode(g, a, "PackagesToBuild") : TRUE
        sub  == DropOrphanBuilds(CreateSubGraph(g, a, root), a)
        goal == NewNode(used)
        all  == AllPreferredRunNodes(sub, a) \cup AllTestNodes(sub, a)
    IN  {[graph |-> AddGoalNode(sub, a, goal, id, all, 0),
          attr  |-> [a EXCEPT ![goal] = GoalNode("ALL", id)],
          goal  |-> goal] : id \in NewIDs(sub)}

WantedNodes ==
    LET Selected(S, pkgs) ==
            IF pkgs = {} THEN S ELSE {n \in S : FileAttr[n].pkg \in pkgs}
    IN  Selected(AllPreferredRunNodes(FileGraph, FileAttr), PackagesToBuild)
        \cup Selected(AllTestNodes(FileGraph, FileAttr), TestsToRun)

\* PrepareGraphForBuild on the graph of the input file.
Prepared ==
    LET goal == NewNode(FileGraph.nodes)
        id   == FileGraph.maxID + 1
        a    == [FileAttr EXCEPT ![goal] = GoalNode("PackagesToBuild", id)]
        g    == AddGoalNode(FileGraph, FileAttr, goal, id, WantedNodes, ExtraLayers)
    IN  IF CanSubGraph(g, a, goal, CanUseCache /\ OptimizeWithCachedImplicit)
        THEN Optimized(g, a, g.nodes)
        ELSE {[graph |-> g, attr |-> a, goal |-> n] : n \in FindGoalNode(g, a, "ALL")}

StartAtLeaves ==
    /\ pc = "start"
    /\ nodesToBuild' = LeafNodes(G, goalNode, FALSE)
    /\ pc' = "convert"
    /\ UNCHANGED <<graph, attr, disk, flags, goalNode, newRequests, result,
                   unread, err, stateVars, chanVars, workerVars, input>>
-----------------------------------------------------------------------------
(* The scheduler loop: convert the ready nodes, and submit the requests.   *)

\* Go's maps decide which node of a group comes first, and which last.
Choices(groups) == {c \in [groups -> UNION groups] : \A gr \in groups : c[gr] \in gr}

\* Seeded fault: only builds under way count as duplicates.
NewIfNotActive(first) ==
    {gr \in DOMAIN first : ActiveFromSRPM(SRPMOf(gr), "LocalBuild") = {}}

\* A build group is skipped when its SRPM is being built, or its default node
\* has been: "unexpected duplicate build".
NewBuildGroups(first) ==
    {gr \in DOMAIN first : /\ ActiveFromSRPM(SRPMOf(gr), "LocalBuild") = {}
                          /\ ~IsNodeProcessed(first[gr])}

NewTestGroups(first) ==
    {gr \in DOMAIN first : /\ ActiveFromSRPM(SRPMOf(gr), "Test") = {}
                          /\ ~IsNodeProcessed(first[gr])}

\* The groups whose default node has a partner test.
TestedGroups(first) ==
    {gr \in NewBuildGroups(first) : PartnerTests(G, first[gr]) # {}}

\* Seeded fault: the other dependencies of a test are not looked at.
ReadyPartnersUnchecked(g, tested, last) == tested

\* The groups whose test can be requested with them: only the last test node is
\* looked at, in the graph without the edges from the tests to their builds.
ReadyPartners(g, tested, last) ==
    {gr \in tested : IsNodeUnblocked(g, PartnerTest(G, last[gr]))}

\* The requests of one call of ConvertNodesToRequests, in three classes.
OtherRequests ==
    {BuildRequest(G, n, {n}, PackagesToRebuild, CanUseCache, attr[n].state = "Delta") :
        n \in {m \in nodesToBuild : attr[m].type \notin {"LocalBuild", "Test"}}}

BuildGroupRequest(first, gr) ==
    BuildRequest(G, first[gr], gr, PackagesToRebuild, CanUseCache, IsDelta(gr))

PartnerRequest(g, first, last, gr) ==
    BuildRequest(g, PartnerTest(G, last[gr]), {PartnerTest(G, b) : b \in gr},
                 TestsToRerun, "UseCache" \in BuildGroupRequest(first, gr).flags, FALSE)

TestGroupRequest(g, first, gr) ==
    BuildRequest(g, first[gr], gr, TestsToRerun, BuildUsedCache(SRPMOf(gr)), FALSE)

\* Everything else first, then the builds, each followed by its partner test,
\* then the other tests.
InClassOrder(q, builds, partners, tests) ==
    LET Class(r) == CASE r \in builds \cup partners -> 1
                      [] r \in tests \ partners -> 2
                      [] OTHER -> 0
    IN  /\ \A i, j \in DOMAIN q : i < j => Class(q[i]) <= Class(q[j])
        /\ \A i \in DOMAIN q : q[i] \in partners =>
               /\ i > 1
               /\ q[i - 1] \in builds
               /\ attr[q[i - 1].node].srpm = attr[q[i].node].srpm

ConvertNodesToRequests ==
    /\ pc = "convert"
    /\ \E first, last \in Choices(Groups("LocalBuild")),
          firstTest \in Choices(Groups("Test")) :
        LET tested   == TestedGroups(first)
            pruned   == RemoveEdges(G, {<<PartnerTest(G, b), b>> : b \in UNION tested})
            builds   == {BuildGroupRequest(first, gr) : gr \in NewBuildGroups(first)}
            partners == {PartnerRequest(pruned, first, last, gr) :
                            gr \in ReadyPartners(pruned, tested, last)}
            tests    == {TestGroupRequest(pruned, firstTest, gr) :
                            gr \in NewTestGroups(firstTest)}
        IN  /\ \A gr \in DOMAIN first : Cardinality(gr) > 1 => first[gr] # last[gr]
            /\ \A b \in UNION tested : PartnerTests(G, b) # {}
            /\ graph' = [graph EXCEPT ![Current] = pruned]
            /\ \E q \in Orders(OtherRequests \cup builds \cup partners \cup tests) :
                   /\ InClassOrder(q, builds, partners, tests)
                   /\ newRequests' = q
    /\ nodesToBuild' = {}
    /\ pc' = "submit"
    /\ UNCHANGED <<attr, disk, flags, goalNode, result, unread, err, stateVars,
                   chanVars, workerVars, input>>

\* partnerTestNodesToRequest dereferences the test node of every build node of
\* the group, which only the default node is known to have.
ConvertPanics ==
    /\ pc = "convert"
    /\ \E first \in Choices(Groups("LocalBuild")) :
          \E gr \in TestedGroups(first) : \E b \in gr : PartnerTests(G, b) = {}
    /\ pc' = "panic"
    /\ UNCHANGED <<graph, attr, disk, flags, goalNode, nodesToBuild, newRequests,
                   result, unread, err, stateVars, chanVars, workerVars, input>>

\* RecordBuildRequest and the send, which blocks while the buffer is full.
SubmitRequest ==
    /\ pc = "submit"
    /\ newRequests # <<>>
    /\ LET req == Head(newRequests)
           id  == attr[req.node].id
       IN  /\ activeBuilds' = [i \in DOMAIN activeBuilds \cup {id} |->
                                 IF i = id THEN req ELSE activeBuilds[i]]
           /\ IF attr[req.node].type = "PreBuilt"
              THEN /\ Len(priorityRequests) < channelBufferSize
                   /\ priorityRequests' = Append(priorityRequests, req)
                   /\ UNCHANGED requests
              ELSE /\ Len(requests) < channelBufferSize
                   /\ requests' = Append(requests, req)
                   /\ UNCHANGED priorityRequests
    /\ newRequests' = Tail(newRequests)
    /\ UNCHANGED <<graph, attr, disk, pc, flags, goalNode, nodesToBuild, result,
                   unread, err, nodeToState, failures, conflicts, badLicenses,
                   results, closed, channelBufferSize, workerVars, input>>

\* Every request is submitted, nothing is outstanding and no result waits.
NothingOutstanding ==
    /\ pc = "submit"
    /\ newRequests = <<>>
    /\ DOMAIN activeBuilds = {}
    /\ results = <<>>

EnableCachedImplicit ==
    /\ NothingOutstanding
    /\ "useCachedImplicit" \notin flags
    /\ flags' = flags \cup {"useCachedImplicit"}
    /\ nodesToBuild' = LeafNodes(G, goalNode, TRUE)
    /\ pc' = "convert"
    /\ UNCHANGED <<graph, attr, disk, goalNode, newRequests, result, unread, err,
                   stateVars, chanVars, workerVars, input>>

CouldNotBuildAll ==
    /\ NothingOutstanding
    /\ "useCachedImplicit" \in flags
    /\ err' = {"couldNotBuildAll"}
    /\ pc' = "doneBuild"
    /\ UNCHANGED <<graph, attr, disk, flags, goalNode, nodesToBuild, newRequests,
                   result, unread, stateVars, chanVars, workerVars, input>>
-----------------------------------------------------------------------------
(* The scheduler loop: take one result, record it and follow it up.        *)

CheckPkgLicenses(res) ==
    IF "Err" \in res.flags \/ res.built = {} THEN {"ok"} ELSE LicenseOutcomes

\* The license checker itself fails: the result is dropped.
LicenseCheckerFails ==
    /\ pc = "submit"
    /\ newRequests = <<>>
    /\ results # <<>>
    /\ "crash" \in CheckPkgLicenses(Head(results))
    /\ result' = Head(results)
    /\ results' = Tail(results)
    /\ err' = {"licenseChecker"}
    /\ pc' = "doneBuild"
    /\ UNCHANGED <<graph, attr, disk, flags, goalNode, nodesToBuild, newRequests,
                   unread, stateVars, requests, priorityRequests, closed,
                   channelBufferSize, workerVars, input>>

\* Seeded fault: every request for the SRPM is forgotten.
WithoutActiveSRPM(id) ==
    [i \in {k \in DOMAIN activeBuilds :
              attr[activeBuilds[k].node].srpm # attr[activeBuilds[id].node].srpm} |->
        activeBuilds[i]]

WithoutActive(id) ==
    [i \in DOMAIN activeBuilds \ {id} |-> activeBuilds[i]]

StateOf(res) ==
    [flags |-> {"processed"}
               \cup (IF "Err" \in res.flags THEN {} ELSE {"available"})
               \cup (IF "UseCache" \in res.flags THEN {"cached"} ELSE {})
               \cup (IF "IsDelta" \in res.flags THEN {"usedDelta"} ELSE {}),
     freshness |-> res.freshness]

RebuildsReserved(res) ==
    /\ ~AllowToolchainRebuilds
    /\ res.flags \cap {"Ignored", "UseCache"} = {}
    /\ \E f \in res.built : f[1] \in ReservedFiles

\* RecordBuildResult of a result that the license checker gave `license'.
RecordBuildResult(res, license) ==
    /\ activeBuilds' = WithoutActive(attr[res.node].id)
    /\ failures' = IF res.flags \cap {"Err", "CheckFailed"} # {}
                   THEN failures \cup {res.node} ELSE failures
    /\ IF res.freshness > MaxFreshness
       THEN /\ err' = {"recording"}
            /\ UNCHANGED <<nodeToState, conflicts, badLicenses>>
       ELSE /\ err' = IF "Err" \in res.flags /\ StopOnFailure
                         /\ "stopBuilding" \notin flags
                      THEN {"build"} ELSE {}
            /\ nodeToState' = [n \in Node |-> IF n \in res.ancillary
                                              THEN StateOf(res) ELSE nodeToState[n]]
            /\ conflicts' = IF RebuildsReserved(res)
                            THEN conflicts \cup {attr[res.node].srpm} ELSE conflicts
            /\ badLicenses' = IF license = "errors"
                              THEN badLicenses \cup {attr[res.node].srpm}
                              ELSE badLicenses

\* What follows the recording of a result.
AfterRecording(res) ==
    IF \/ "stopBuilding" \in flags
       \/ res.freshness > MaxFreshness
       \/ "Err" \in res.flags /\ StopOnFailure
    THEN "stopBuild"
    ELSE IF "Err" \in res.flags THEN "advance"
    ELSE IF attr[res.node].type = "LocalBuild" /\ "IsDelta" \in res.flags THEN "delta"
    ELSE IF "isGraphOptimized" \in flags THEN "advance" ELSE "inject"

ReceiveResult ==
    /\ pc = "submit"
    /\ newRequests = <<>>
    /\ results # <<>>
    /\ LET res == Head(results)
       IN  /\ \E license \in CheckPkgLicenses(res) \ {"crash"} :
                 RecordBuildResult(res, license)
           /\ result' = res
           /\ unread' = res.built
           /\ pc' = AfterRecording(res)
    /\ results' = Tail(results)
    /\ flags' = flags \ {"didInjectAny"}
    /\ UNCHANGED <<graph, attr, disk, goalNode, nodesToBuild, newRequests,
                   requests, priorityRequests, closed, channelBufferSize, workerVars,
                   input>>

\* setAssociatedDeltaPaths: the preferred run nodes that point at a built RPM
\* are redirected from the cache; another path there is an error.
BuiltInstead(n) == {f \in result.built : attr[n].rpm # NoRPM /\ f[1] = attr[n].rpm[1]}

\* Seeded fault: other paths are accepted.
NothingStrange(rebuilt) == {}

StrangeRunNodes(rebuilt) ==
    {n \in rebuilt : /\ attr[n].state # "Delta"
                     /\ ~IsImplicit(attr, n)
                     /\ attr[n].rpm \notin BuiltInstead(n)}

SetAssociatedDeltaPaths ==
    /\ pc = "delta"
    /\ LET rebuilt == {n \in AllPreferredRunNodes(G, attr) : BuiltInstead(n) # {}}
           deltas  == {n \in rebuilt : attr[n].state = "Delta"}
           strange == StrangeRunNodes(rebuilt)
       IN  /\ \E updated \in (IF strange = {} THEN {deltas} ELSE SUBSET deltas) :
                 attr' = [n \in Node |->
                            IF n \in updated
                            THEN [attr[n] EXCEPT !.rpm = CHOOSE f \in BuiltInstead(n) : TRUE]
                            ELSE attr[n]]
           /\ err' = IF strange = {} THEN err ELSE {"deltaPaths"}
           /\ pc' = IF strange # {} THEN "stopBuild"
                    ELSE IF "isGraphOptimized" \in flags THEN "advance" ELSE "inject"
    /\ UNCHANGED <<graph, disk, flags, goalNode, nodesToBuild, newRequests, result,
                   unread, stateVars, chanVars, workerVars, input>>
-----------------------------------------------------------------------------
(* The scheduler loop: updateGraphWithImplicitProvides, under the lock.    *)

GraphFails ==
    /\ err' = {"graph"}
    /\ pc' = "stopBuild"
    /\ UNCHANGED <<graph, attr, flags, goalNode>>

\* The files are read in the order of BuiltFiles.
NextFile == CHOOSE file \in unread : TRUE

\* The implicit nodes a provide satisfies.
Satisfied(provide) ==
    {n \in ImplicitNodes(G, attr) : <<provide, attr[n].pkg>> \in Satisfies}

MatchingProvides == {p \in ProvidesOf[NextFile[1]] : Satisfied(p) # {}}

\* replaceNodesWithProvides needs a local run node that is backed by the file.
ProviderParents ==
    {n \in AllPreferredRunNodes(G, attr) :
        attr[n].type = "LocalRun" /\ attr[n].rpm = NextFile}

\* One provide of the next file takes the place of the nodes it satisfies.  A
\* file that rpm cannot query, or that has no run node, is fatal, and so is a
\* provide that some other node has already.
InjectProvide ==
    /\ pc = "inject"
    /\ unread # {}
    /\ \E provide \in MatchingProvides :
          IF \/ NextFile \notin disk \/ ProviderParents = {}
             \/ HasLocalRunNode(G, attr, provide, Satisfied(provide))
          THEN GraphFails
          ELSE \E parent \in ProviderParents, id \in NewIDs(G) :
                 LET new == NewNode(Referenced)
                 IN  /\ CanAllocate
                     /\ graph' = [graph EXCEPT ![Current] =
                            CreateCollapsedNode(G, attr, new, id, parent, Satisfied(provide))]
                     /\ attr' = [attr EXCEPT ![new] =
                                    CollapsedNode(attr, provide, parent, id)]
                     /\ flags' = flags \cup {"didInjectAny"}
                     /\ UNCHANGED <<pc, goalNode, err>>
    /\ UNCHANGED <<disk, nodesToBuild, newRequests, result, unread, stateVars,
                   chanVars, workerVars, input>>

\* No provide of the file is missing any more.
FinishFile ==
    /\ pc = "inject"
    /\ unread # {}
    /\ MatchingProvides = {}
    /\ unread' = unread \ {NextFile}
    /\ IF NextFile \notin disk
       THEN GraphFails
       ELSE UNCHANGED <<graph, attr, flags, goalNode, err, pc>>
    /\ UNCHANGED <<disk, nodesToBuild, newRequests, result, stateVars, chanVars,
                   workerVars, input>>

FinishInject ==
    /\ pc = "inject"
    /\ unread = {}
    /\ pc' = IF "didInjectAny" \in flags THEN "makeDAG" ELSE "advance"
    /\ UNCHANGED <<graph, attr, disk, flags, goalNode, nodesToBuild, newRequests,
                   result, unread, err, stateVars, chanVars, workerVars, input>>

\* MakeDAG: the search for a cycle, and the fix of the one it finds.
BreakCycle ==
    /\ pc = "makeDAG"
    /\ LET searched == ReleaseTemporaryRoot(G)
           new      == NewNode(Referenced)
       IN  \E succ \in Cycles(G), id \in NewIDs(searched) :
             \/ /\ CanFixIntraSpec(attr, DOMAIN succ) /\ CanAllocate
                /\ graph' = [graph EXCEPT ![Current] =
                       FixIntraSpecCycle(searched, new, id, DOMAIN succ)]
                /\ attr' = [attr EXCEPT ![new] = MetaNode(id)]
                /\ UNCHANGED <<pc, flags, goalNode, err>>
             \/ /\ ~CanFixIntraSpec(attr, DOMAIN succ)
                /\ CanAllocate
                /\ \E b \in BreakableEdges(G, attr, disk, succ) :
                      /\ graph' = [graph EXCEPT ![Current] =
                             ReplaceSRPMBuildDependency(searched, attr, new, id, b, succ[b])]
                      /\ attr' = [attr EXCEPT ![new] = PreBuiltNode(attr, succ[b], id)]
                /\ UNCHANGED <<pc, flags, goalNode, err>>
             \/ /\ ~CanFixIntraSpec(attr, DOMAIN succ)
                /\ BreakableEdges(G, attr, disk, succ) = {}
                /\ GraphFails
    /\ UNCHANGED <<disk, nodesToBuild, newRequests, result, unread, stateVars,
                   chanVars, workerVars, input>>

NoMoreCycles ==
    /\ pc = "makeDAG"
    /\ OnSomeCycle(G) = {}
    /\ graph' = [graph EXCEPT ![Current] = ReleaseTemporaryRoot(G)]
    /\ pc' = "optimize"
    /\ UNCHANGED <<attr, disk, flags, goalNode, nodesToBuild, newRequests, result,
                   unread, err, stateVars, chanVars, workerVars, input>>

\* OptimizeGraph; that it does not succeed is not an error.
Optimize ==
    /\ pc = "optimize"
    /\ \E root \in FindGoalNode(G, attr, "PackagesToBuild") :
          IF CanSubGraph(G, attr, root, "useCachedImplicit" \in flags)
          THEN /\ CanAllocate
               /\ \E o \in Optimized(G, attr, Referenced) :
                    /\ graph' = [graph EXCEPT ![1] = o.graph]
                    /\ attr' = o.attr
                    /\ goalNode' = o.goal
               /\ flags' = flags \cup {"isGraphOptimized"}
          ELSE UNCHANGED <<graph, attr, goalNode, flags>>
    /\ pc' = "advance"
    /\ UNCHANGED <<disk, nodesToBuild, newRequests, result, unread, err, stateVars,
                   chanVars, workerVars, input>>
-----------------------------------------------------------------------------
(* The scheduler loop: find what is unblocked, and stop.                   *)

\* The end of an iteration.  Once the goal is available the loop is left, as
\* soon as no SRPM is being built.
Advance ==
    /\ pc = "advance"
    /\ nodesToBuild' = IF "Err" \in result.flags THEN {}
                       ELSE FindUnblockedNodes(G, result.ancillary)
    /\ flags' = IF IsNodeAvailable(goalNode) THEN flags \cup {"stopBuilding"} ELSE flags
    /\ pc' = IF /\ "stopBuilding" \in flags'
                /\ \A r \in Active : attr[r.node].type # "LocalBuild"
             THEN "doneBuild" ELSE "convert"
    /\ UNCHANGED <<graph, attr, disk, goalNode, newRequests, result, unread, err,
                   stateVars, chanVars, workerVars, input>>

CloseChannel(from, channel, to) ==
    /\ pc = from
    /\ closed' = closed \cup {channel}
    /\ pc' = to
    /\ UNCHANGED <<graph, attr, disk, flags, goalNode, nodesToBuild, newRequests,
                   result, unread, stateVars, requests, priorityRequests, results,
                   channelBufferSize, workerVars, input>>

StopBuild ==
    /\ CloseChannel("stopBuild", "Cancel", "closeRequests")
    /\ err' = err \cup {"fatal"}

DoneBuild == CloseChannel("doneBuild", "Done", "closeRequests") /\ UNCHANGED err

CloseRequests ==
    CloseChannel("closeRequests", "Requests", "closePriority") /\ UNCHANGED err

ClosePriority ==
    /\ CloseChannel("closePriority", "PriorityRequests", "drainPriority")
    /\ UNCHANGED err

\* drainChannels: the workers may still take requests too.
DrainPriority ==
    /\ pc = "drainPriority"
    /\ IF priorityRequests # <<>>
       THEN /\ activeBuilds' = WithoutActive(attr[Head(priorityRequests).node].id)
            /\ priorityRequests' = Tail(priorityRequests)
            /\ UNCHANGED pc
       ELSE /\ pc' = "drainRequests"
            /\ UNCHANGED <<activeBuilds, priorityRequests>>
    /\ UNCHANGED <<graph, attr, disk, flags, goalNode, nodesToBuild, newRequests,
                   result, unread, err, nodeToState, failures, conflicts,
                   badLicenses, requests, results, closed, channelBufferSize, workerVars,
                   input>>

\* performPostBuildChecks, which the fatal exit does not reach.
PostBuildErrors ==
    IF "Cancel" \in closed THEN {}
    ELSE (IF ~AllowToolchainRebuilds /\ conflicts # {} THEN {"toolchainRebuilt"} ELSE {})
         \cup (IF badLicenses # {} THEN {"licenses"} ELSE {})

\* Seeded fault: the drained requests stay in the build state.
DrainRequestsUnsynced ==
    /\ pc = "drainRequests"
    /\ requests' = <<>>
    /\ pc' = "returned"
    /\ err' = err \cup PostBuildErrors
    /\ UNCHANGED <<graph, attr, disk, flags, goalNode, nodesToBuild, newRequests,
                   result, unread, stateVars, priorityRequests, results, closed,
                   channelBufferSize, workerVars, input>>

\* Seeded fault: the loop goes on after stopBuild.
DrainRequestsNoReturn ==
    /\ pc = "drainRequests"
    /\ pc' = IF "Cancel" \in closed THEN "submit" ELSE "returned"
    /\ requests' = <<>>
    /\ UNCHANGED <<graph, attr, disk, flags, goalNode, nodesToBuild, newRequests,
                   result, unread, err, stateVars, priorityRequests, results, closed,
                   channelBufferSize, workerVars, input>>

DrainRequests ==
    /\ pc = "drainRequests"
    /\ IF requests # <<>>
       THEN /\ activeBuilds' = WithoutActive(attr[Head(requests).node].id)
            /\ requests' = Tail(requests)
            /\ UNCHANGED <<pc, err>>
       ELSE /\ pc' = "returned"
            /\ err' = err \cup PostBuildErrors
            /\ UNCHANGED <<activeBuilds, requests>>
    /\ UNCHANGED <<graph, attr, disk, flags, goalNode, nodesToBuild, newRequests,
                   result, unread, nodeToState, failures, conflicts, badLicenses,
                   priorityRequests, results, closed, channelBufferSize, workerVars,
                   input>>
=============================================================================
