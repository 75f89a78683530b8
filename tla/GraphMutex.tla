----------------------------- MODULE GraphMutex -----------------------------
(***************************************************************************)
(* graphMutex, the sync.RWMutex that guards the package graph: the         *)
(* critical sections the scheduler goroutine and the workers go through,   *)
(* in the order they do, and what each does to the graph inside.  What the *)
(* sections compute is in SchedulerLoop and BuildWorker; there a section is *)
(* one step, here it has a beginning and an end.                           *)
(***************************************************************************)
EXTENDS Integers, Sequences

CONSTANTS
    Worker,      \* the worker goroutines
    Scheduler,   \* the scheduler goroutine
    Iterations,  \* bound: iterations of the scheduler loop
    Jobs,        \* bound: requests a worker serves
    WithTests,   \* whether the graph has test nodes
    Nobody

ASSUME MutexAssumption ==
    /\ Scheduler \notin Worker
    /\ Nobody \notin Worker \cup {Scheduler}
    /\ Iterations \in Nat
    /\ Jobs \in Nat
    /\ WithTests \in BOOLEAN

VARIABLES
    at,        \* where each goroutine is with respect to the mutex
    section,   \* the number of the critical section it is in, or goes to next
    announced  \* the goroutine inside Lock, or past it: new readers wait

vars == <<at, section, announced>>

Proc == Worker \cup {Scheduler}

Places == {"out", "parkedRead", "reading", "parkedNested", "nested",
           "queued", "parkedWrite", "writing"}

\* The places where a read lock is held.
Reading == {"reading", "parkedNested", "nested"}

\* The places where the code of the section runs.
Inside == {"reading", "nested", "writing"}
-----------------------------------------------------------------------------
(* The critical sections.                                                  *)

\* LeafNodes; in every iteration ConvertNodesToRequests, setAssociatedDeltaPaths,
\* updateGraphWithImplicitProvides and FindUnblockedNodesFromResult (or LeafNodes
\* again, when nothing is outstanding); after the loop the three summaries and
\* the saving of the graph.
SchedulerSection(k) ==
    IF k = 1 THEN "leaves"
    ELSE IF k <= 1 + 4 * Iterations
    THEN <<"convert", "delta", "inject", "unblocked">>[1 + ((k - 2) % 4)]
    ELSE <<"summary", "csv", "blockers", "save">>[k - 1 - 4 * Iterations]

\* getBuildDependencies or FindRPMFiles, then setAncillaryBuildNodesStatus.
WorkerSection(k) == IF k % 2 = 1 THEN "dependencies" ELSE "status"

SectionOf(p) ==
    IF p = Scheduler THEN SchedulerSection(section[p]) ELSE WorkerSection(section[p])

LastSection(p) == IF p = Scheduler THEN 5 + 4 * Iterations ELSE 2 * Jobs

\* Seeded fault: the status of the nodes is written under the read lock.
GraphOnlyWrites(p) == SectionOf(p) \in {"delta", "inject"}

\* The sections that call Lock, not RLock.
TakesWriteLock(p) == SectionOf(p) \in {"delta", "inject", "status"}

\* The sections whose purpose is to change the graph or its nodes.
Updates(p) == SectionOf(p) \in {"delta", "inject", "status"}

\* ConvertNodesToRequests removes the edge from a test to its build as well.
Edits(p) == Updates(p) \/ (WithTests /\ SectionOf(p) = "convert")

\* Requests exist once the first nodes have been converted.
MayEnter(p) ==
    /\ at[p] = "out"
    /\ section[p] <= LastSection(p)
    /\ p = Scheduler \/ section[Scheduler] > 2

MoveOn(p) == section' = [section EXCEPT ![p] = @ + 1]

Goto(p, place) == at' = [at EXCEPT ![p] = place]
-----------------------------------------------------------------------------
(* sync.RWMutex: a writer that waits keeps new readers out; when it unlocks, *)
(* the readers that wait get the lock before the next writer.              *)

Init ==
    /\ at = [p \in Proc |-> "out"]
    /\ section = [p \in Proc |-> 1]
    /\ announced = Nobody

RLock(p) ==
    /\ MayEnter(p) /\ ~TakesWriteLock(p)
    /\ Goto(p, IF announced = Nobody THEN "reading" ELSE "parkedRead")
    /\ UNCHANGED <<section, announced>>

\* PrintHiddenBuildBlockers calls buildBlockedNodesGraph, which locks again.
RLockAgain(p) ==
    /\ at[p] = "reading" /\ SectionOf(p) = "blockers"
    /\ Goto(p, IF announced = Nobody THEN "nested" ELSE "parkedNested")
    /\ UNCHANGED <<section, announced>>

RUnlock(p) ==
    /\ \/ at[p] = "reading" /\ SectionOf(p) # "blockers"
       \/ at[p] = "nested"
    /\ Goto(p, "out")
    /\ MoveOn(p)
    /\ UNCHANGED announced

Lock(p) ==
    /\ MayEnter(p) /\ TakesWriteLock(p)
    /\ Goto(p, "queued")
    /\ UNCHANGED <<section, announced>>

\* One writer at a time passes the inner mutex.
Announce(p) ==
    /\ at[p] = "queued"
    /\ announced = Nobody
    /\ announced' = p
    /\ Goto(p, "parkedWrite")
    /\ UNCHANGED section

\* The readers that were there before it have left.
EnterWrite(p) ==
    /\ at[p] = "parkedWrite"
    /\ \A q \in Proc : at[q] \notin Reading
    /\ Goto(p, "writing")
    /\ UNCHANGED <<section, announced>>

\* Seeded fault: an early return without Unlock.
UnlockMissing(p) ==
    /\ at[p] = "writing"
    /\ Goto(p, "out")
    /\ MoveOn(p)
    /\ UNCHANGED announced

Unlock(p) ==
    /\ at[p] = "writing"
    /\ announced' = Nobody
    /\ at' = [q \in Proc |-> IF q = p THEN "out"
                             ELSE IF at[q] = "parkedRead" THEN "reading"
                             ELSE IF at[q] = "parkedNested" THEN "nested"
                             ELSE at[q]]
    /\ MoveOn(p)

\* An ignored package needs no dependencies, only a delta build new paths, an
\* optimized graph no provides, and a failed build unblocks nothing.
SkipSection(p) ==
    /\ MayEnter(p)
    /\ SectionOf(p) \in {"dependencies", "delta", "inject", "unblocked"}
    /\ MoveOn(p)
    /\ UNCHANGED <<at, announced>>

\* The loop is left before a result is taken, once one is recorded, or at the
\* end of an iteration: by doneBuild, or by stopBuild, which skips the summaries.
LeaveLoop(p) ==
    /\ p = Scheduler /\ MayEnter(p)
    /\ section[p] > 2
    /\ SectionOf(p) \in {"convert", "delta"}
    /\ \E exit \in {2 + 4 * Iterations, LastSection(p)} :
          section' = [section EXCEPT ![p] = exit]
    /\ UNCHANGED <<at, announced>>

Step(p) ==
    \/ RLock(p) \/ RLockAgain(p) \/ RUnlock(p)
    \/ Lock(p) \/ Announce(p) \/ EnterWrite(p) \/ Unlock(p)
    \/ SkipSection(p) \/ LeaveLoop(p)

Next == \E p \in Proc : Step(p)

\* Go runs every goroutine that can run.
Spec == Init /\ [][Next]_vars /\ \A p \in Proc : WF_vars(Step(p))
-----------------------------------------------------------------------------
\* The mutex at work: whoever is in a writing section has announced itself and
\* is alone, and no section that is to change the graph has a read lock only.
MutexInv ==
    /\ \A p \in Proc : at[p] \in {"parkedWrite", "writing"} => announced = p
    /\ \A p, q \in Proc : at[p] = "writing" => at[q] \notin Reading
    /\ \A p \in Proc : at[p] \in Reading \cup {"parkedRead"} => ~Updates(p)

\* scheduler.go:285: "graphMutex guards pkgGraph from concurrent reads and
\* writes": while one goroutine changes the graph no other is reading or
\* changing it.
GraphRaceFree ==
    \A p, q \in Proc :
        p # q /\ at[p] \in Inside /\ Edits(p) => at[q] \notin Inside

\* The loop of the scheduler always gets through: workers that keep taking the
\* mutex do not keep it from its summary.
ReachesSummary == <>(section[Scheduler] > 1 + 4 * Iterations)

\* scheduler.go:554: builds that still run when the loop has ended are not
\* waited for ("we don't want to actually block here"): the scheduler gets
\* through its summaries whatever the workers do.
SchedulerFinishes == <>(section[Scheduler] > LastSection(Scheduler))
=============================================================================
