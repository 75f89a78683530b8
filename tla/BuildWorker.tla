---------------------------- MODULE BuildWorker -----------------------------
(***************************************************************************)
(* A worker goroutine: BuildNodeWorker of schedulerutils/buildworker.go.   *)
(* Any number of them take requests from the two request channels and send *)
(* one result for each.                                                    *)
(***************************************************************************)
EXTENDS BuildState
-----------------------------------------------------------------------------
(* BuildNodeWorker: selectNextBuildRequest.                                *)

WorkerAt(w, at) == wpc[w] = at /\ pc # "panic"

Goto(w, to) == wpc' = [wpc EXCEPT ![w] = to]

KeepWork == UNCHANGED <<job, installs, late>>

KeepChannels == UNCHANGED chanVars

\* What no worker step touches.
KeepScheduler == UNCHANGED <<input, graph, schedVars, stateVars>>

Accept(w, req) ==
    /\ job' = [job EXCEPT ![w] = req]
    /\ late' = IF "Cancel" \in closed THEN [late EXCEPT ![w] = @ + 1] ELSE late
    /\ Goto(w, "work")
    /\ UNCHANGED installs

AcceptPriority(w) ==
    /\ priorityRequests # <<>>
    /\ Accept(w, Head(priorityRequests))
    /\ priorityRequests' = Tail(priorityRequests)
    /\ UNCHANGED <<requests, results, closed, channelBufferSize>>

AcceptNormal(w) ==
    /\ requests # <<>>
    /\ Accept(w, Head(requests))
    /\ requests' = Tail(requests)
    /\ UNCHANGED <<priorityRequests, results, closed, channelBufferSize>>

\* Seeded fault: a closed channel is taken for an empty one.
LeaveNever(w) == Goto(w, "poll")

\* The worker is told to finish, or reads nil from a closed channel.
Leave(w) == Goto(w, "stopped")

\* Seeded fault: the cancellation is not looked at first.
PollCancelUnchecked(w) ==
    /\ WorkerAt(w, "poll")
    /\ Goto(w, "pollPriority")
    /\ KeepWork /\ KeepChannels /\ KeepScheduler
    /\ UNCHANGED <<attr, disk>>

\* First select: only a cancellation is looked at.
PollCancel(w) ==
    /\ WorkerAt(w, "poll")
    /\ IF "Cancel" \in closed THEN Leave(w) ELSE Goto(w, "pollPriority")
    /\ KeepWork /\ KeepChannels /\ KeepScheduler
    /\ UNCHANGED <<attr, disk>>

\* Second select: a priority request; a closed channel yields nil.
PollPriority(w) ==
    /\ WorkerAt(w, "pollPriority")
    /\ \/ AcceptPriority(w)
       \/ /\ priorityRequests = <<>>
          /\ IF "PriorityRequests" \in closed THEN Leave(w) ELSE Goto(w, "select")
          /\ KeepWork /\ KeepChannels
    /\ KeepScheduler
    /\ UNCHANGED <<attr, disk>>

\* Third select: whichever of the four channels is ready.
Select(w) ==
    /\ WorkerAt(w, "select")
    /\ \/ AcceptPriority(w)
       \/ AcceptNormal(w)
       \/ /\ \/ closed \cap {"Cancel", "Done"} # {}
             \/ "Requests" \in closed /\ requests = <<>>
             \/ "PriorityRequests" \in closed /\ priorityRequests = <<>>
          /\ Leave(w)
          /\ KeepWork /\ KeepChannels
    /\ KeepScheduler
    /\ UNCHANGED <<attr, disk>>
-----------------------------------------------------------------------------
(* BuildNodeWorker: one request.                                           *)

TypeOf(w) == attr[job[w].node].type

IsBuildOrTest(w) == TypeOf(w) \in {"LocalBuild", "Test"}

IsIgnored(w) ==
    \/ TypeOf(w) = "LocalBuild" /\ attr[job[w].node].pkg \in IgnoredPackages
    \/ TypeOf(w) = "Test" /\ attr[job[w].node].pkg \in IgnoredTests

\* getBuildDependencies: what is reached without passing a build node, and the
\* RPMs there.
RuntimeClosure(g, n) ==
    Reach([g EXCEPT !.deps = [m \in Node |->
              {d \in From(g, m) : attr[d].type # "LocalBuild"}]], n)

BuildDependencies(g, n) ==
    {attr[m].rpm : m \in RuntimeClosure(g, n)} \ {NoRPM, attr[n].rpm}

\* Run, remote, meta, goal and prebuilt nodes need no work.
PassThrough(w) ==
    /\ WorkerAt(w, "work")
    /\ ~IsBuildOrTest(w)
    /\ Goto(w, "publish")
    /\ KeepWork /\ KeepChannels /\ KeepScheduler
    /\ UNCHANGED <<attr, disk>>

SkipIgnored(w) ==
    /\ WorkerAt(w, "work")
    /\ IsIgnored(w)
    /\ job' = [job EXCEPT ![w].flags = @ \cup {"Ignored"}]
    /\ Goto(w, "status")
    /\ KeepChannels /\ KeepScheduler
    /\ UNCHANGED <<attr, disk, installs, late>>

\* The cached RPMs are the result; a test is skipped with its build.
UseCached(w) ==
    /\ WorkerAt(w, "work")
    /\ IsBuildOrTest(w) /\ ~IsIgnored(w)
    /\ "UseCache" \in job[w].flags
    /\ \/ /\ TypeOf(w) = "LocalBuild"
          /\ ~GraphLocked
          /\ job' = [job EXCEPT ![w].built =
                        RPMsOf(graph[job[w].graph], attr, attr[job[w].node].srpm)]
       \/ /\ TypeOf(w) = "Test"
          /\ UNCHANGED job
    /\ Goto(w, "status")
    /\ KeepChannels /\ KeepScheduler
    /\ UNCHANGED <<attr, disk, installs, late>>

StartBuild(w) ==
    /\ WorkerAt(w, "work")
    /\ IsBuildOrTest(w) /\ ~IsIgnored(w)
    /\ "UseCache" \notin job[w].flags
    /\ ~GraphLocked
    /\ installs' = [installs EXCEPT ![w] =
                       BuildDependencies(graph[job[w].graph], job[w].node)]
    /\ Goto(w, "build")
    /\ KeepChannels /\ KeepScheduler
    /\ UNCHANGED <<attr, disk, job, late>>

\* buildSRPMFile: the agent leaves all the RPMs of the SRPM in the output
\* directory, or fails.
BuildSRPMFile(w) ==
    /\ WorkerAt(w, "build")
    /\ TypeOf(w) = "LocalBuild"
    /\ LET srpm  == attr[job[w].node].srpm
           files == {<<r, "out">> : r \in RpmsBuiltBy[srpm]}
       IN  \/ /\ job' = [job EXCEPT ![w].built = files]
              /\ disk' = disk \cup files
           \/ /\ srpm \in Unbuildable
              /\ job' = [job EXCEPT ![w].flags = @ \cup {"Err"}]
              /\ UNCHANGED disk
    /\ installs' = [installs EXCEPT ![w] = {}]
    /\ Goto(w, "status")
    /\ KeepChannels /\ KeepScheduler
    /\ UNCHANGED <<attr, late>>

\* testSRPMFile: no RPM is kept; see BuildRetry for the outcomes.
TestSRPMFile(w) ==
    /\ WorkerAt(w, "build")
    /\ TypeOf(w) = "Test"
    /\ \E outcome \in (IF attr[job[w].node].srpm \in Untestable
                        THEN SUBSET {"Err", "CheckFailed"} ELSE {{}}) :
          job' = [job EXCEPT ![w].flags = @ \cup outcome]
    /\ installs' = [installs EXCEPT ![w] = {}]
    /\ Goto(w, "status")
    /\ KeepChannels /\ KeepScheduler
    /\ UNCHANGED <<attr, disk, late>>

SetAncillaryBuildNodesStatus(w) ==
    /\ WorkerAt(w, "status")
    /\ ~GraphLocked
    /\ attr' = [n \in Node |->
                  IF n \in job[w].ancillary /\ attr[n].type \in {"LocalBuild", "Test"}
                  THEN [attr[n] EXCEPT !.state = IF "Err" \in job[w].flags
                                                 THEN "BuildError" ELSE "UpToDate"]
                  ELSE attr[n]]
    /\ Goto(w, "publish")
    /\ KeepWork /\ KeepChannels /\ KeepScheduler
    /\ UNCHANGED disk

\* The send of the result, which blocks while the buffer is full.
PublishResult(w) ==
    /\ WorkerAt(w, "publish")
    /\ Len(results) < channelBufferSize
    /\ results' = Append(results, job[w])
    /\ job' = [job EXCEPT ![w] = NoJob]
    /\ Goto(w, "poll")
    /\ KeepScheduler
    /\ UNCHANGED <<attr, disk, installs, late, requests, priorityRequests, closed,
                   channelBufferSize>>
=============================================================================
