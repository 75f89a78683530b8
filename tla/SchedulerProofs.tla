-------------------------- MODULE SchedulerProofs ---------------------------
(***************************************************************************)
(* The package build, for any graph, any number of workers and any command *)
(* line: the shutdown of the worker pool, the types and the freshness of   *)
(* the requests, the build state that the shutdown leaves, and that no two *)
(* workers build the same SRPM.                                            *)
(***************************************************************************)
EXTENDS Scheduler, FiniteSetTheorems, SequenceTheorems, TLAPS
-----------------------------------------------------------------------------
(* The shutdown of the worker pool.                                        *)

\* What is closed depends on how far the shutdown has got.
ClosedSoFar ==
    /\ pc \notin Closing => closed = {}
    /\ pc = "closeRequests" => closed \subseteq {"Cancel", "Done"}
    /\ pc = "closePriority" => closed \subseteq {"Cancel", "Done", "Requests"}

\* A worker that took a request after the cancellation does not look for
\* another without passing the check for the cancellation.
LateWorkers ==
    /\ wpc \in [Worker -> WorkerControl]
    /\ late \in [Worker -> Nat]
    /\ \A w \in Worker :
          \/ late[w] = 0
          \/ /\ late[w] = 1 /\ "Cancel" \in closed
             /\ wpc[w] \notin {"pollPriority", "select"}

ShutdownInv == ClosedSoFar /\ LateWorkers

\* A step of the loop: nothing is closed, before or after.
LoopStep ==
    /\ pc \notin Closing /\ pc' \notin Closing
    /\ UNCHANGED <<closed, wpc, late>>

\* Nothing is closed when the workers start.
LEMMA InitShutdown == Init => ShutdownInv
  BY DEF Init, ShutdownInv, ClosedSoFar, LateWorkers, Closing, WorkerControl

\* Every step of the scheduler before stopBuild or doneBuild is a loop step.
LEMMA LoopSteps ==
  ASSUME \/ StartAtLeaves \/ ConvertNodesToRequests \/ ConvertPanics \/ SubmitRequest
         \/ EnableCachedImplicit \/ CouldNotBuildAll
         \/ LicenseCheckerFails \/ ReceiveResult \/ SetAssociatedDeltaPaths
         \/ InjectProvide \/ FinishFile \/ FinishInject
         \/ BreakCycle \/ NoMoreCycles \/ Optimize \/ Advance
  PROVE  LoopStep
<1> USE DEF LoopStep, Closing, chanVars, workerVars
<1>1. CASE StartAtLeaves
  BY <1>1 DEF StartAtLeaves
<1>2. CASE ConvertNodesToRequests
  BY <1>2 DEF ConvertNodesToRequests
<1>3. CASE ConvertPanics
  BY <1>3 DEF ConvertPanics
<1>4. CASE SubmitRequest
  BY <1>4 DEF SubmitRequest
<1>5. CASE EnableCachedImplicit
  BY <1>5 DEF EnableCachedImplicit, NothingOutstanding
<1>6. CASE CouldNotBuildAll
  BY <1>6 DEF CouldNotBuildAll, NothingOutstanding
<1>7. CASE LicenseCheckerFails
  BY <1>7 DEF LicenseCheckerFails
<1>8. CASE ReceiveResult
  BY <1>8 DEF ReceiveResult, AfterRecording
<1>9. CASE SetAssociatedDeltaPaths
  BY <1>9 DEF SetAssociatedDeltaPaths
<1>10. CASE InjectProvide
  BY <1>10 DEF InjectProvide, GraphFails
<1>11. CASE FinishFile
  BY <1>11 DEF FinishFile, GraphFails
<1>12. CASE FinishInject
  BY <1>12 DEF FinishInject
<1>13. CASE BreakCycle
  BY <1>13 DEF BreakCycle, GraphFails
<1>14. CASE NoMoreCycles
  BY <1>14 DEF NoMoreCycles
<1>15. CASE Optimize
  BY <1>15 DEF Optimize
<1>16. CASE Advance
  BY <1>16 DEF Advance
<1> QED
  BY <1>1, <1>2, <1>3, <1>4, <1>5, <1>6, <1>7, <1>8, <1>9, <1>10, <1>11, <1>12,
     <1>13, <1>14, <1>15, <1>16

\* The scheduler closes each channel when it is still open.
LEMMA SchedulerShutdown ==
  ASSUME ShutdownInv, SchedulerStep
  PROVE  ShutdownInv'
<1> USE DEF ShutdownInv, ClosedSoFar, LateWorkers, Closing
<1>1. CASE LoopStep
  BY <1>1 DEF LoopStep
<1>2. CASE StopBuild
  BY <1>2 DEF StopBuild, CloseChannel, workerVars
<1>3. CASE DoneBuild
  BY <1>3 DEF DoneBuild, CloseChannel, workerVars
<1>4. CASE CloseRequests
  BY <1>4 DEF CloseRequests, CloseChannel, workerVars
<1>5. CASE ClosePriority
  BY <1>5 DEF ClosePriority, CloseChannel, workerVars
<1>6. CASE DrainPriority
  BY <1>6 DEF DrainPriority, workerVars
<1>7. CASE DrainRequests
  BY <1>7 DEF DrainRequests, workerVars
<1> QED
  BY <1>1, <1>2, <1>3, <1>4, <1>5, <1>6, <1>7, LoopSteps DEF SchedulerStep

\* A worker closes nothing, and takes a late request only where it has taken
\* none before.
LEMMA WorkerShutdown ==
  ASSUME ShutdownInv, NEW w \in Worker, WorkerStep(w)
  PROVE  ShutdownInv'
<1> USE DEF ShutdownInv, LateWorkers
<1>1. pc' = pc /\ closed' = closed
  BY DEF WorkerStep, PollCancel, PollPriority, Select, PassThrough, SkipIgnored,
         UseCached, StartBuild, BuildSRPMFile, TestSRPMFile,
         SetAncillaryBuildNodesStatus, PublishResult, AcceptPriority, AcceptNormal,
         KeepScheduler, KeepChannels, schedVars, chanVars
<1>2. ClosedSoFar'
  BY <1>1 DEF ClosedSoFar
<1> SUFFICES LateWorkers'
  BY <1>2
<1>3. CASE PollCancel(w)
  BY <1>1, <1>3 DEF PollCancel, WorkerAt, Goto, Leave, KeepWork, WorkerControl
<1>4. ASSUME NEW req, Accept(w, req), wpc[w] \in {"pollPriority", "select"}
      PROVE  LateWorkers'
  BY <1>1, <1>4 DEF Accept, Goto, WorkerControl
<1>5. CASE PollPriority(w)
  <2>1. CASE AcceptPriority(w)
    BY <1>4, <1>5, <2>1 DEF PollPriority, AcceptPriority, WorkerAt
  <2>2. CASE ~AcceptPriority(w)
    BY <1>1, <1>5, <2>2 DEF PollPriority, WorkerAt, Goto, Leave, KeepWork, WorkerControl
  <2> QED BY <2>1, <2>2
<1>6. CASE Select(w)
  <2>1. CASE AcceptPriority(w) \/ AcceptNormal(w)
    BY <1>4, <1>6, <2>1 DEF Select, AcceptPriority, AcceptNormal, WorkerAt
  <2>2. CASE ~(AcceptPriority(w) \/ AcceptNormal(w))
    BY <1>1, <1>6, <2>2 DEF Select, WorkerAt, Goto, Leave, KeepWork, WorkerControl
  <2> QED BY <2>1, <2>2
<1>7. ASSUME NEW to \in WorkerControl \ {"pollPriority", "select"},
             Goto(w, to), late' = late
      PROVE  LateWorkers'
  BY <1>1, <1>7 DEF Goto
<1>8. CASE \/ PassThrough(w) \/ SkipIgnored(w) \/ UseCached(w) \/ StartBuild(w)
           \/ BuildSRPMFile(w) \/ TestSRPMFile(w)
           \/ SetAncillaryBuildNodesStatus(w) \/ PublishResult(w)
  <2>1. late' = late
    BY <1>8 DEF PassThrough, SkipIgnored, UseCached, StartBuild, BuildSRPMFile,
                TestSRPMFile, SetAncillaryBuildNodesStatus, PublishResult, KeepWork
  <2>2. \E to \in {"publish", "status", "build", "poll"} : Goto(w, to)
    BY <1>8 DEF PassThrough, SkipIgnored, UseCached, StartBuild, BuildSRPMFile,
                TestSRPMFile, SetAncillaryBuildNodesStatus, PublishResult
  <2> QED BY <1>7, <2>1, <2>2 DEF WorkerControl
<1> QED
  BY <1>2, <1>3, <1>5, <1>6, <1>8 DEF WorkerStep

\* Every step of the whole system keeps the shutdown in order.
LEMMA NextShutdown == ShutdownInv /\ [Next]_vars => ShutdownInv'
<1> SUFFICES ASSUME ShutdownInv, [Next]_vars PROVE ShutdownInv'
  OBVIOUS
<1>1. CASE SchedulerStep
  BY <1>1, SchedulerShutdown
<1>2. CASE \E w \in Worker : WorkerStep(w)
  BY <1>2, WorkerShutdown
<1>3. CASE UNCHANGED vars
  BY <1>3 DEF vars, schedVars, chanVars, workerVars, ShutdownInv, ClosedSoFar, LateWorkers
<1> QED
  BY <1>1, <1>2, <1>3 DEF Next, Finished

\* No request is sent on a closed channel, and no channel is closed twice.
THEOREM ClosedOnce == Spec => []ChannelsClosedOnce
<1>1. ShutdownInv => ChannelsClosedOnce
  BY DEF ShutdownInv, ClosedSoFar, ChannelsClosedOnce, Closing
<1> QED BY InitShutdown, NextShutdown, <1>1, PTL DEF Spec

\* After stopBuild has closed Cancel, each worker starts at most one more
\* request, whatever is still queued.
THEOREM CancelStopsWorkers == Spec => []AtMostOneLateRequest
<1>1. ShutdownInv => AtMostOneLateRequest
  BY DEF ShutdownInv, LateWorkers, AtMostOneLateRequest
<1> QED BY InitShutdown, NextShutdown, <1>1, PTL DEF Spec
-----------------------------------------------------------------------------
(* Natural numbers, and functions defined by recursion on them.            *)

\* A set of natural numbers has a least element.
LEMMA LeastNat ==
  ASSUME NEW S, S \subseteq Nat, S # {}
  PROVE  \E x \in S : \A y \in S : x <= y
<1>1. PICK x \in S : \A y \in S : ~(<<y, x>> \in OpToRel(<, Nat))
  BY NatLessThanWellFounded, WFMin
<1>2. \A a, b \in Nat : a < b => <<a, b>> \in OpToRel(<, Nat)
  BY Zenon DEF OpToRel
<1>3. \A y \in S : ~(y < x)
  BY <1>1, <1>2, Zenon
<1> QED BY <1>3

\* A finite one has a greatest element.
LEMMA GreatestNat ==
  ASSUME NEW S, S \subseteq Nat, S # {}, IsFiniteSet(S)
  PROVE  \E x \in S : \A y \in S : y <= x
<1> DEFINE NoGreatest(A) == ~ \E x \in A : \A y \in A : y <= x
           Sizes == {k \in Nat : \E A \in SUBSET S :
                                    A # {} /\ Cardinality(A) = k /\ NoGreatest(A)}
<1> SUFFICES ASSUME NoGreatest(S) PROVE FALSE
  OBVIOUS
<1>1. Cardinality(S) \in Sizes
  BY FS_CardinalityType
<1>2. PICK k \in Sizes : \A i \in Sizes : k <= i
  BY <1>1, LeastNat
<1>3. PICK A \in SUBSET S : A # {} /\ Cardinality(A) = k /\ NoGreatest(A)
  OBVIOUS
<1>4. PICK x \in A : TRUE
  BY <1>3
<1>5. IsFiniteSet(A) /\ k \in Nat
  BY FS_Subset
<1>6. IsFiniteSet(A \ {x}) /\ Cardinality(A \ {x}) = k - 1
  BY <1>3, <1>4, <1>5, FS_RemoveElement
<1>7. k - 1 \in Nat
  BY <1>6, FS_CardinalityType
<1>8. A \ {x} # {}
  BY <1>3, <1>4
<1>9. ~ NoGreatest(A \ {x})
  <2>1. k - 1 \notin Sizes
    BY <1>2, <1>5, <1>7
  <2>2. A \ {x} \in SUBSET S
    OBVIOUS
  <2> HIDE DEF NoGreatest
  <2> QED BY <1>6, <1>7, <1>8, <2>1, <2>2
<1>10. PICK m \in A \ {x} : \A y \in A \ {x} : y <= m
  BY <1>9
<1>11. x \in Nat /\ m \in Nat /\ \A y \in A : y \in Nat
  OBVIOUS
<1>12. CASE m <= x
  <2>1. \A y \in A : y <= x
    BY <1>10, <1>11, <1>12
  <2> QED BY <1>3, <2>1
<1>13. CASE x <= m
  <2>1. \A y \in A : y <= m
    BY <1>10, <1>13
  <2> QED BY <1>3, <2>1
<1> QED BY <1>11, <1>12, <1>13

\* A function on the natural numbers can be defined by recursion: what a
\* definition by recursion defines exists.
LEMMA RecursionExists ==
  ASSUME NEW S, NEW x \in S, NEW F \in [S -> S]
  PROVE  \E h \in [Nat -> S] : h[0] = x /\ \A k \in Nat \ {0} : h[k] = F[h[k - 1]]
<1> DEFINE Approx(n) == {g \in [0..n -> S] : /\ g[0] = x
                                             /\ \A k \in 1..n : g[k] = F[g[k - 1]]}
           Missing == {n \in Nat : Approx(n) = {}}
           Part(n) == CHOOSE g \in Approx(n) : TRUE
           h == [n \in Nat |-> Part(n)[n]]
<1>1. Missing = {}
  <2> SUFFICES ASSUME Missing # {} PROVE FALSE
    OBVIOUS
  <2>1. PICK n \in Missing : \A m \in Missing : n <= m
    BY LeastNat
  <2>2. CASE n = 0
    <3>1. [k \in 0..0 |-> x] \in Approx(0)
      OBVIOUS
    <3> QED BY <2>2, <3>1
  <2>3. CASE n # 0
    <3>1. n - 1 \in Nat /\ n - 1 \notin Missing
      <4> HIDE DEF Approx
      <4>1. n - 1 \in Nat
        BY <2>3
      <4>2. n - 1 \in Missing => n <= n - 1
        BY <2>1
      <4> QED BY <4>1, <4>2
    <3>2. PICK g : g \in Approx(n - 1)
      BY <3>1
    <3>3. [k \in 0..n |-> IF k = n THEN F[g[n - 1]] ELSE g[k]] \in Approx(n)
      <4> DEFINE e == [k \in 0..n |-> IF k = n THEN F[g[n - 1]] ELSE g[k]]
      <4>1. g \in [0 .. n - 1 -> S] /\ g[0] = x
            /\ \A k \in 1 .. n - 1 : g[k] = F[g[k - 1]]
        BY <3>2
      <4>2. e \in [0..n -> S]
        BY <3>1, <4>1
      <4>3. e[0] = x
        BY <2>3, <4>1
      <4>4. ASSUME NEW k \in 1..n PROVE e[k] = F[e[k - 1]]
        <5>1. k - 1 \in 0..n /\ k - 1 # n /\ e[k - 1] = g[k - 1]
          OBVIOUS
        <5> QED BY <4>1, <5>1
      <4> QED BY <4>2, <4>3, <4>4
    <3> QED BY <3>3
  <2> QED BY <2>2, <2>3
<1>2. \A n \in Nat : Part(n) \in Approx(n)
  BY <1>1
<1> HIDE DEF Part
<1>3. ASSUME NEW n \in Nat, NEW m \in Nat, NEW k \in Nat, k <= m, k <= n
      PROVE  Part(n)[k] = Part(m)[k]
  <2> DEFINE Differ == {i \in Nat : i <= m /\ i <= n /\ Part(n)[i] # Part(m)[i]}
  <2> SUFFICES ASSUME Differ # {} PROVE FALSE
    BY <1>3
  <2>1. PICK i \in Differ : \A j \in Differ : i <= j
    BY LeastNat
  <2>2. i # 0
    BY <1>2
  <2>3. i - 1 \in Nat /\ Part(n)[i - 1] = Part(m)[i - 1]
    BY <2>1, <2>2
  <2>4. i \in 1..n /\ i \in 1..m
    BY <2>2
  <2>5. Part(n)[i] = F[Part(n)[i - 1]] /\ Part(m)[i] = F[Part(m)[i - 1]]
    BY <1>2, <2>4
  <2> QED BY <2>3, <2>5
<1>4. h \in [Nat -> S]
  <2>1. ASSUME NEW n \in Nat PROVE Part(n)[n] \in S
    BY <1>2
  <2> QED BY <2>1
<1>5. ASSUME NEW n \in Nat PROVE h[n] = IF n = 0 THEN x ELSE F[h[n - 1]]
  <2>1. CASE n = 0
    BY <1>2, <2>1
  <2>2. CASE n # 0
    <3>1. n - 1 \in Nat /\ n \in 1..n
      BY <2>2
    <3>2. Part(n)[n] = F[Part(n)[n - 1]]
      BY <1>2, <3>1
    <3>3. Part(n)[n - 1] = Part(n - 1)[n - 1]
      BY <1>3, <3>1
    <3> QED BY <2>2, <3>1, <3>2, <3>3
  <2> QED BY <2>1, <2>2
<1> HIDE DEF h
<1> QED BY <1>4, <1>5
-----------------------------------------------------------------------------
(* The operators on graphs.                                                *)

\* W has what a walk from n has visited after each number of steps.
IsWalk(g, n, W) ==
    \A k \in Nat : W[k] = IF k = 0 THEN {n} ELSE UNION {{m} \cup From(g, m) : m \in W[k - 1]}

\* A walk of the graph, one step after the other.
LEMMA ReachSteps ==
  ASSUME NEW g, g.deps \in [Node -> SUBSET Node], g.nodes \in SUBSET Node, NEW n \in Node
  PROVE  /\ Cardinality(g.nodes) \in Nat
         /\ \E W : Reach(g, n) = W[Cardinality(g.nodes)] /\ IsWalk(g, n, W)
<1> DEFINE Step == [T \in SUBSET Node |-> UNION {{m} \cup From(g, m) : m \in T}]
           Body(f) == [k \in Nat |-> IF k = 0 THEN {n}
                                     ELSE UNION {{m} \cup From(g, m) : m \in f[k - 1]}]
           W == CHOOSE f : f = Body(f)
<1>1. Reach(g, n) = W[Cardinality(g.nodes)]
  BY DEF Reach
<1>2. Cardinality(g.nodes) \in Nat
  BY FS_Subset, FS_CardinalityType, SchedulerAssumption
<1>3. Step \in [SUBSET Node -> SUBSET Node]
  BY DEF From
<1>4. PICK h \in [Nat -> SUBSET Node] :
             /\ h[0] = {n}
             /\ \A k \in Nat \ {0} : h[k] = Step[h[k - 1]]
  <2> HIDE DEF Step
  <2>1. ASSUME NEW T, T = SUBSET Node
        PROVE  \E h \in [Nat -> T] :
                  h[0] = {n} /\ \A k \in Nat \ {0} : h[k] = Step[h[k - 1]]
    <3>1. {n} \in T /\ Step \in [T -> T]
      BY <1>3, <2>1
    <3> QED BY <3>1, RecursionExists
  <2> QED BY <2>1
<1>5. h = Body(h)
  <2>1. ASSUME NEW k \in Nat, k # 0
        PROVE  Step[h[k - 1]] = UNION {{m} \cup From(g, m) : m \in h[k - 1]}
    <3>1. h[k - 1] \in SUBSET Node
      BY <2>1
    <3> QED BY <3>1
  <2>2. ASSUME NEW k \in Nat PROVE h[k] = Body(h)[k]
    <3> HIDE DEF Step
    <3> QED BY <1>4, <2>1
  <2> QED BY <2>2
<1>6. W = Body(W)
  <2> HIDE DEF Body
  <2> QED BY <1>5
<1>7. IsWalk(g, n, W)
  <2> HIDE DEF W
  <2> QED BY <1>6 DEF IsWalk
<1> HIDE DEF W
<1> QED BY <1>1, <1>2, <1>7

\* A walk stays within a set of nodes that no edge leaves.
LEMMA ReachWithin ==
  ASSUME NEW g, g.deps \in [Node -> SUBSET Node], g.nodes \in SUBSET Node, NEW S \in SUBSET Node,
         NEW n \in S, \A m \in S : From(g, m) \subseteq S
  PROVE  Reach(g, n) \subseteq S /\ n \in Reach(g, n)
<1>0. n \in Node
  OBVIOUS
<1>1. PICK W : Reach(g, n) = W[Cardinality(g.nodes)] /\ IsWalk(g, n, W)
  BY <1>0, ReachSteps
<1>2. \A k \in Nat : W[k] \subseteq S /\ n \in W[k]
  <2> DEFINE Bad == {k \in Nat : ~(W[k] \subseteq S /\ n \in W[k])}
  <2> SUFFICES ASSUME Bad # {} PROVE FALSE
    OBVIOUS
  <2>1. PICK k \in Bad : \A i \in Bad : k <= i
    BY LeastNat
  <2>2. W[k] = IF k = 0 THEN {n} ELSE UNION {{m} \cup From(g, m) : m \in W[k - 1]}
    BY <1>1 DEF IsWalk
  <2>3. CASE k = 0
    BY <2>2, <2>3
  <2>4. CASE k # 0
    <3>1. k - 1 \in Nat /\ ~(k <= k - 1)
      BY <2>4
    <3>2. W[k - 1] \subseteq S /\ n \in W[k - 1]
      BY <2>1, <3>1
    <3> QED BY <2>2, <2>4, <3>2
  <2> QED BY <2>3, <2>4
<1>3. Cardinality(g.nodes) \in Nat
  BY <1>0, ReachSteps
<1> QED BY <1>1, <1>2, <1>3

\* What a walk of the graph visits are nodes, the first of them included.
LEMMA ReachNodes ==
  ASSUME NEW g, g.deps \in [Node -> SUBSET Node], g.nodes \in SUBSET Node, NEW n \in Node
  PROVE  Reach(g, n) \in SUBSET Node /\ n \in Reach(g, n)
<1>1. \A m \in Node : From(g, m) \subseteq Node
  BY DEF From
<1> QED BY <1>1, ReachWithin

\* The layers that AddGoalNodeWithExtraLayers adds are made of nodes, the ones it
\* starts with included.
LEMMA LayerNodes ==
  ASSUME NEW g, g.nodes \in SUBSET Node, NEW a, NEW S \in SUBSET Node, NEW layers \in Nat
  PROVE  /\ AddGoalNodeLayers(g, a, S, layers) \in SUBSET Node
         /\ S \subseteq AddGoalNodeLayers(g, a, S, layers)
         /\ (S \subseteq g.nodes => AddGoalNodeLayers(g, a, S, layers) \subseteq g.nodes)
         /\ (layers = 0 => AddGoalNodeLayers(g, a, S, layers) = S)
<1> DEFINE Step == [T \in SUBSET Node |-> UNION {{n} \cup NextGoalLayer(g, a, n) : n \in T}]
           Body(f) == [k \in Nat |-> IF k = 0 THEN S
                           ELSE UNION {{n} \cup NextGoalLayer(g, a, n) : n \in f[k - 1]}]
           W == CHOOSE f : f = Body(f)
<1>0. AddGoalNodeLayers(g, a, S, layers) = W[layers]
  BY DEF AddGoalNodeLayers
<1>1. \A n : NextGoalLayer(g, a, n) \in SUBSET Node /\ NextGoalLayer(g, a, n) \subseteq g.nodes
  BY DEF NextGoalLayer
<1>2. \A T \in SUBSET Node :
         UNION {{n} \cup NextGoalLayer(g, a, n) : n \in T} \in SUBSET Node
  BY <1>1
<1>3. Step \in [SUBSET Node -> SUBSET Node]
  BY <1>2
<1>4. PICK h \in [Nat -> SUBSET Node] :
             /\ h[0] = S
             /\ \A k \in Nat \ {0} : h[k] = Step[h[k - 1]]
  <2> HIDE DEF Step
  <2>1. ASSUME NEW T, T = SUBSET Node
        PROVE  \E h \in [Nat -> T] :
                  h[0] = S /\ \A k \in Nat \ {0} : h[k] = Step[h[k - 1]]
    <3>1. S \in T /\ Step \in [T -> T]
      BY <1>3, <2>1
    <3> QED BY <3>1, RecursionExists
  <2> QED BY <2>1
<1>5. h = Body(h)
  <2>1. ASSUME NEW k \in Nat, k # 0
        PROVE  Step[h[k - 1]] = UNION {{n} \cup NextGoalLayer(g, a, n) : n \in h[k - 1]}
    <3>1. h[k - 1] \in SUBSET Node
      BY <2>1
    <3> QED BY <3>1
  <2>2. ASSUME NEW k \in Nat PROVE h[k] = Body(h)[k]
    <3> HIDE DEF Step
    <3> QED BY <1>4, <2>1
  <2> QED BY <2>2
<1>6. W = Body(W)
  <2> HIDE DEF Body
  <2> QED BY <1>5
<1>7. \A k \in Nat : /\ W[k] \in SUBSET Node /\ S \subseteq W[k]
                      /\ (S \subseteq g.nodes => W[k] \subseteq g.nodes)
  <2> HIDE DEF W
  <2> DEFINE Bad == {k \in Nat : ~(W[k] \in SUBSET Node /\ S \subseteq W[k]
                                   /\ (S \subseteq g.nodes => W[k] \subseteq g.nodes))}
  <2> SUFFICES ASSUME Bad # {} PROVE FALSE
    OBVIOUS
  <2>1. PICK k \in Bad : \A i \in Bad : k <= i
    BY LeastNat
  <2>2. W[k] = IF k = 0 THEN S
               ELSE UNION {{n} \cup NextGoalLayer(g, a, n) : n \in W[k - 1]}
    BY <1>6
  <2>3. CASE k = 0
    BY <2>2, <2>3
  <2>4. CASE k # 0
    <3>1. k - 1 \in Nat /\ ~(k <= k - 1)
      BY <2>4
    <3>2. /\ W[k - 1] \in SUBSET Node /\ S \subseteq W[k - 1]
          /\ (S \subseteq g.nodes => W[k - 1] \subseteq g.nodes)
      BY <2>1, <3>1
    <3>3. S \subseteq g.nodes => W[k] \subseteq g.nodes
      BY <1>1, <2>2, <2>4, <3>2
    <3> QED BY <1>2, <2>1, <2>2, <2>4, <3>2, <3>3
  <2> QED BY <2>3, <2>4
<1>8. W[0] = S
  <2> HIDE DEF W
  <2> QED BY <1>6
<1> HIDE DEF W
<1>9. /\ W[layers] \in SUBSET Node /\ S \subseteq W[layers]
      /\ (S \subseteq g.nodes => W[layers] \subseteq g.nodes)
  BY <1>7
<1>10. layers = 0 => W[layers] = S
  BY <1>8
<1> QED BY <1>0, <1>9, <1>10

\* The operations of pkggraph lead from graphs to graphs.
LEMMA GraphFields ==
  ASSUME NEW g \in Graph
  PROVE  /\ g.nodes \in SUBSET Node /\ g.deps \in [Node -> SUBSET Node]
         /\ g.maxID \in Nat \cup {-1} /\ g.free \in SUBSET Nat
         /\ \A n \in Node : From(g, n) \in SUBSET Node
  BY DEF Graph, From

\* The IDs that gonum hands out are natural numbers.
LEMMA NewIDType ==
  ASSUME NEW g \in Graph, NEW id \in NewIDs(g)
  PROVE  id \in Nat
  BY GraphFields DEF NewIDs

\* Adding a node to a graph, whatever the new edges.
LEMMA AddNodeType ==
  ASSUME NEW g \in Graph, NEW n \in Node, NEW id \in Nat, NEW D \in [Node -> SUBSET Node]
  PROVE  /\ AddNode(g, n, id) \in Graph
         /\ AddNode(g, n, id).deps = g.deps
         /\ [AddNode(g, n, id) EXCEPT !.deps = D] \in Graph
  BY GraphFields DEF AddNode, Graph

\* Removing nodes, or edges.
LEMMA RemoveType ==
  ASSUME NEW g \in Graph, NEW a \in [Node -> PkgNode], NEW S, NEW edges
  PROVE  RemoveNodes(g, a, S) \in Graph /\ RemoveEdges(g, edges) \in Graph
<1>1. RemoveEdges(g, edges) \in Graph
  BY GraphFields DEF RemoveEdges, Graph
<1>2. \A n \in Node : a[n].id \in Nat
  BY DEF PkgNode
<1>3. RemoveNodes(g, a, S) \in Graph
  BY <1>2, GraphFields DEF RemoveNodes, Graph
<1> QED BY <1>1, <1>3

\* The search for a cycle leaves a graph.
LEMMA ReleaseType ==
  ASSUME NEW g \in Graph
  PROVE  ReleaseTemporaryRoot(g) \in Graph
<1>1. CASE g.free # {}
  BY <1>1 DEF ReleaseTemporaryRoot
<1>2. CASE g.free = {}
  <2>1. g.maxID + 1 \in Nat
    BY GraphFields
  <2>2. [g EXCEPT !.maxID = @ + 1, !.free = {g.maxID + 1}] \in Graph
    BY <2>1, GraphFields DEF Graph
  <2> QED BY <1>2, <2>2 DEF ReleaseTemporaryRoot
<1> QED BY <1>1, <1>2

\* The subgraph below a node is a graph, with the greatest ID of its nodes.
LEMMA SubGraphType ==
  ASSUME NEW g \in Graph, NEW a \in [Node -> PkgNode], NEW root \in Node
  PROVE  /\ DropOrphanBuilds(CreateSubGraph(g, a, root), a) \in Graph
         /\ \A n \in Reach(g, root) : a[n].id <= CreateSubGraph(g, a, root).maxID
<1> DEFINE inside == Reach(g, root)
           ids == {a[n].id : n \in inside}
<1>1. inside \in SUBSET Node /\ root \in inside
  BY GraphFields, ReachNodes
<1> HIDE DEF inside
<1>2. ids \subseteq Nat /\ ids # {}
  BY <1>1 DEF PkgNode
<1>3. IsFiniteSet(ids)
  <2>1. IsFiniteSet(inside)
    BY <1>1, FS_Subset, SchedulerAssumption
  <2>2. [n \in inside |-> a[n].id] \in Surjection(inside, ids)
    BY DEF Surjection
  <2> QED BY <2>1, <2>2, FS_Surjection
<1>4. PICK i \in ids : \A j \in ids : j <= i
  BY <1>2, <1>3, GreatestNat
<1>5. /\ CreateSubGraph(g, a, root).maxID \in Nat
      /\ \A n \in inside : a[n].id <= CreateSubGraph(g, a, root).maxID
  <2>1. \E k \in ids : \A n \in inside : a[n].id <= k
    BY <1>4
  <2> QED BY <1>2, <2>1 DEF CreateSubGraph, inside
<1>6. CreateSubGraph(g, a, root) \in Graph
  BY <1>1, <1>5, GraphFields DEF CreateSubGraph, Graph, inside
<1>7. DropOrphanBuilds(CreateSubGraph(g, a, root), a) \in Graph
  BY <1>6, RemoveType DEF DropOrphanBuilds
<1> QED BY <1>5, <1>7 DEF inside

\* A graph with a goal is a graph.
LEMMA GoalType ==
  ASSUME NEW g \in Graph, NEW a, NEW goal \in Node, NEW id \in Nat,
         NEW wanted \in SUBSET Node, NEW layers \in Nat
  PROVE  AddGoalNode(g, a, goal, id, wanted, layers) \in Graph
<1> DEFINE linked == AddGoalNodeLayers(g, a, wanted, layers)
<1>1. linked \in SUBSET Node
  BY LayerNodes, GraphFields
<1> HIDE DEF linked
<1>2. AddNode(g, goal, id) \in Graph /\ AddNode(g, goal, id).deps \in [Node -> SUBSET Node]
  BY AddNodeType, GraphFields
<1>3. [AddNode(g, goal, id) EXCEPT !.deps[goal] = linked] \in Graph
  BY <1>1, <1>2 DEF Graph
<1> QED BY <1>3 DEF AddGoalNode, linked

\* A node that is created is one of the spare ones that are not in use.
LEMMA NewNodeType ==
  ASSUME NEW used, ~(Spare \subseteq used)
  PROVE  NewNode(used) \in Spare \ used /\ NewNode(used) \in Node
<1>1. \E n \in Spare : n \notin used
  OBVIOUS
<1>2. NewNode(used) \in Spare /\ NewNode(used) \notin used
  BY <1>1, Zenon DEF NewNode
<1> QED BY <1>2, SchedulerAssumption

\* OptimizeGraph gives a graph, with a new goal.
LEMMA OptimizedType ==
  ASSUME NEW g \in Graph, NEW a \in [Node -> PkgNode], NEW used, ~(Spare \subseteq used),
         FindGoalNode(g, a, "PackagesToBuild") # {}, NEW o \in Optimized(g, a, used)
  PROVE  /\ o.graph \in Graph /\ o.goal = NewNode(used) /\ o.goal \in Node
         /\ \E id \in Nat : o.attr = [a EXCEPT ![o.goal] = GoalNode("ALL", id)]
<1> DEFINE root == CHOOSE n \in FindGoalNode(g, a, "PackagesToBuild") : TRUE
           sub == DropOrphanBuilds(CreateSubGraph(g, a, root), a)
           goal == NewNode(used)
           all == AllPreferredRunNodes(sub, a) \cup AllTestNodes(sub, a)
<1>1. root \in Node
  <2>1. FindGoalNode(g, a, "PackagesToBuild") \in SUBSET Node
    BY GraphFields DEF FindGoalNode
  <2> QED BY <2>1
<1> HIDE DEF root
<1>2. sub \in Graph
  BY <1>1, SubGraphType
<1>3. goal \in Spare \ used /\ goal \in Node
  BY NewNodeType
<1> HIDE DEF sub, goal
<1>4. all \in SUBSET Node
  BY <1>2, GraphFields DEF AllPreferredRunNodes, AllTestNodes
<1> HIDE DEF all
<1>5. PICK id \in NewIDs(sub) :
         o = [graph |-> AddGoalNode(sub, a, goal, id, all, 0),
              attr |-> [a EXCEPT ![goal] = GoalNode("ALL", id)], goal |-> goal]
  BY DEF Optimized, root, sub, goal, all
<1>6. id \in Nat
  BY <1>2, NewIDType
<1>7. AddGoalNode(sub, a, goal, id, all, 0) \in Graph
  BY <1>2, <1>3, <1>4, <1>6, GoalType
<1>8. o.goal = NewNode(used)
  BY <1>5 DEF goal
<1> QED BY <1>3, <1>5, <1>6, <1>7, <1>8

\* What the input says of itself.
LEMMA InputTypes ==
  ASSUME input \in DOMAIN Inputs
  PROVE  /\ FileGraph \in Graph /\ FileAttr \in [Node -> PkgNode]
         /\ \A n \in Node : FileAttr[n].type = "LocalBuild" => FileAttr[n].srpm \in SRPM
         /\ FileDisk \subseteq Path /\ RpmsBuiltBy \in [SRPM -> SUBSET RPM]
         /\ ProvidesOf \in [RPM -> SUBSET Pkg] /\ MaxFreshness \in Nat /\ ExtraLayers \in Nat
         /\ \E m, n \in Spare \ FileGraph.nodes : m # n
<1> USE SchedulerAssumption
<1>1. \A n \in Node : FileAttr[n].srpm \in SRPM \cup {NoSRPM}
  BY DEF FileAttr, PkgNode
<1> QED BY <1>1 DEF FileGraph, FileAttr, FileDisk, RpmsBuiltBy, ProvidesOf, MaxFreshness,
                    ExtraLayers

\* The scheduler starts with a graph.
LEMMA PreparedType ==
  ASSUME input \in DOMAIN Inputs, NEW p \in Prepared
  PROVE  /\ p.graph \in Graph /\ p.attr \in [Node -> PkgNode] /\ p.goal \in Node
         /\ \A n \in Node : p.attr[n].type = "LocalBuild" => p.attr[n].srpm \in SRPM
<1> DEFINE goal == NewNode(FileGraph.nodes)
           id == FileGraph.maxID + 1
           a == [FileAttr EXCEPT ![goal] = GoalNode("PackagesToBuild", id)]
           g == AddGoalNode(FileGraph, FileAttr, goal, id, WantedNodes, ExtraLayers)
<1>1. /\ FileGraph \in Graph /\ FileAttr \in [Node -> PkgNode] /\ ExtraLayers \in Nat
      /\ \A n \in Node : FileAttr[n].type = "LocalBuild" => FileAttr[n].srpm \in SRPM
      /\ \E m, n \in Spare \ FileGraph.nodes : m # n
  BY InputTypes
<1>2. goal \in Spare \ FileGraph.nodes /\ goal \in Node
  BY <1>1, NewNodeType
<1>3. id \in Nat
  BY <1>1, GraphFields
<1>4. WantedNodes \in SUBSET Node
  BY <1>1, GraphFields DEF WantedNodes, AllPreferredRunNodes, AllTestNodes
<1>5. g \in Graph
  BY <1>1, <1>2, <1>3, <1>4, GoalType
<1>6. GoalNode("PackagesToBuild", id) \in PkgNode
  BY <1>3 DEF GoalNode, PkgNode, NodeTypes, NodeStates, GoalNames
<1>7. /\ GoalNode("PackagesToBuild", id).type = "Goal"
      /\ GoalNode("PackagesToBuild", id).goal = "PackagesToBuild"
  BY DEF GoalNode
<1>8. a \in [Node -> PkgNode] /\ a[goal] = GoalNode("PackagesToBuild", id)
      /\ \A n \in Node : a[n].type = "LocalBuild" => a[n].srpm \in SRPM
  BY <1>1, <1>2, <1>6, <1>7
<1>9. g.nodes = FileGraph.nodes \cup {goal}
  <2>1. AddNode(FileGraph, goal, id).nodes = FileGraph.nodes \cup {goal}
    BY <1>1, GraphFields DEF AddNode, Graph
  <2>2. AddNode(FileGraph, goal, id) \in Graph
    BY <1>1, <1>2, <1>3, AddNodeType, GraphFields
  <2> QED BY <2>1, <2>2 DEF AddGoalNode, Graph
<1>10. \/ p \in Optimized(g, a, g.nodes)
       \/ \E n \in FindGoalNode(g, a, "ALL") : p = [graph |-> g, attr |-> a, goal |-> n]
  BY DEF Prepared
<1> HIDE DEF goal, id, a, g
<1>11. CASE p \in Optimized(g, a, g.nodes)
  <2>1. ~(Spare \subseteq g.nodes)
    BY <1>1, <1>9
  <2>2. FindGoalNode(g, a, "PackagesToBuild") # {}
    BY <1>7, <1>8, <1>9 DEF FindGoalNode
  <2>3. /\ p.graph \in Graph /\ p.goal \in Node
        /\ \E i \in Nat : p.attr = [a EXCEPT ![p.goal] = GoalNode("ALL", i)]
    BY <1>5, <1>8, <1>11, <2>1, <2>2, OptimizedType
  <2>4. PICK i \in Nat : p.attr = [a EXCEPT ![p.goal] = GoalNode("ALL", i)]
    BY <2>3
  <2>5. GoalNode("ALL", i) \in PkgNode /\ GoalNode("ALL", i).type = "Goal"
    BY DEF GoalNode, PkgNode, NodeTypes, NodeStates, GoalNames
  <2>6. /\ p.attr \in [Node -> PkgNode]
        /\ \A n \in Node : p.attr[n].type = "LocalBuild" => p.attr[n].srpm \in SRPM
    BY <1>8, <2>3, <2>4, <2>5
  <2> QED BY <2>3, <2>6
<1>12. CASE \E n \in FindGoalNode(g, a, "ALL") : p = [graph |-> g, attr |-> a, goal |-> n]
  <2>1. FindGoalNode(g, a, "ALL") \subseteq Node
    BY <1>5, GraphFields DEF FindGoalNode
  <2> QED BY <1>5, <1>8, <1>12, <2>1
<1> QED BY <1>10, <1>11, <1>12

\* Nothing is requested when the scheduler starts.
LEMMA InitInv == Init => TypeInv /\ ActiveInv /\ BuildsInv
<1> SUFFICES ASSUME Init PROVE TypeInv /\ ActiveInv /\ BuildsInv
  OBVIOUS
<1>1. input \in DOMAIN Inputs /\ MaxFreshness \in Nat /\ FileDisk \subseteq Path
  BY InputTypes DEF Init
<1>2. NoJob \in AcceptedJob
  <2>1. (CHOOSE n \in Node : TRUE) \in Node
    BY SchedulerAssumption
  <2> QED BY <1>1, <2>1 DEF NoJob, AcceptedJob, Job
<1>3. EmptyGraph \in Graph
  BY DEF EmptyGraph, Graph
<1>4. GraphsOK
  BY <1>1, <1>3, PreparedType DEF Init, GraphsOK
<1>5. LoopOK
  BY <1>2 DEF Init, LoopOK, Control
<1>6. Active = {} /\ Outstanding = {}
  BY DEF Init, Active, Outstanding, JobsIn, Busy
<1>7. StateOK
  BY <1>1, <1>6 DEF Init, StateOK, Unprocessed, BuildState
<1>8. ChannelsOK
  BY DEF Init, ChannelsOK
<1>9. WorkersOK
  BY <1>1, <1>2 DEF Init, WorkersOK, WorkerControl
<1>10. ActiveInv
  BY DEF Init, ActiveInv
<1>11. BuildsInv
  BY <1>6 DEF Init, BuildsInv, BuildsDistinct, BuildsActive, Distinct, JobsIn, Busy
<1> QED BY <1>4, <1>5, <1>7, <1>8, <1>9, <1>10, <1>11 DEF TypeInv
-----------------------------------------------------------------------------
(* The types.                                                              *)

\* What does not change stays of its type.
LEMMA Stutters ==
  ASSUME TypeInv, input' = input
  PROVE  /\ UNCHANGED <<graph, attr, goalNode>> => GraphsOK'
         /\ UNCHANGED <<pc, flags, nodesToBuild, newRequests, result, unread, err>> => LoopOK'
         /\ UNCHANGED <<activeBuilds, nodeToState, failures>> => StateOK'
         /\ UNCHANGED <<requests, priorityRequests, results, closed>> => ChannelsOK'
         /\ UNCHANGED <<disk, wpc, job, installs, late>> => WorkersOK'
         /\ AcceptedJob' = AcceptedJob /\ MaxFreshness' = MaxFreshness
<1>1. AcceptedJob' = AcceptedJob /\ MaxFreshness' = MaxFreshness
  BY DEF AcceptedJob, MaxFreshness
<1>2. UNCHANGED <<graph, attr, goalNode>> => GraphsOK'
  BY DEF TypeInv, GraphsOK
<1>3. UNCHANGED <<pc, flags, nodesToBuild, newRequests, result, unread, err>> => LoopOK'
  BY <1>1 DEF TypeInv, LoopOK
<1>4. UNCHANGED <<activeBuilds, nodeToState, failures>> => StateOK'
  BY <1>1 DEF TypeInv, StateOK, Active
<1>5. UNCHANGED <<requests, priorityRequests, results, closed>> => ChannelsOK'
  BY <1>1 DEF TypeInv, ChannelsOK
<1>6. UNCHANGED <<disk, wpc, job, installs, late>> => WorkersOK'
  BY <1>1 DEF TypeInv, WorkersOK
<1> QED BY <1>1, <1>2, <1>3, <1>4, <1>5, <1>6

\* The nodes that requests are made for.
Requested == {j.node : j \in Active \cup Outstanding \cup JobsIn(newRequests)}

\* A step leaves alone what the build state goes by.
KeepsNodes ==
    \A n \in Node \cap Requested :
        /\ attr'[n].type = attr[n].type
        /\ attr'[n].srpm = attr[n].srpm
        /\ attr'[n].id = attr[n].id

\* Which steps change the graphs or the nodes.
LEMMA GraphCases ==
  ASSUME [Next]_vars
  PROVE  /\ input' = input
         /\ \/ UNCHANGED <<graph, attr, goalNode>>
            \/ ConvertNodesToRequests \/ SetAssociatedDeltaPaths \/ InjectProvide
            \/ BreakCycle \/ NoMoreCycles \/ Optimize
            \/ \E w \in Worker : SetAncillaryBuildNodesStatus(w)
<1> USE DEF stateVars, chanVars, workerVars
<1>1. CASE UNCHANGED vars
  BY <1>1 DEF vars, schedVars
<1>2. ASSUME NEW w \in Worker, WorkerStep(w)
      PROVE  input' = input /\ (\/ UNCHANGED <<graph, attr, goalNode>>
                                \/ SetAncillaryBuildNodesStatus(w))
  BY <1>2 DEF WorkerStep, PollCancel, PollPriority, Select, PassThrough, SkipIgnored,
         UseCached, StartBuild, BuildSRPMFile, TestSRPMFile,
         SetAncillaryBuildNodesStatus, PublishResult, KeepScheduler, schedVars
<1>3. CASE StartAtLeaves
  BY <1>3 DEF StartAtLeaves
<1>4. CASE ConvertNodesToRequests
  BY <1>4 DEF ConvertNodesToRequests
<1>5. CASE ConvertPanics
  BY <1>5 DEF ConvertPanics
<1>6. CASE SubmitRequest
  BY <1>6 DEF SubmitRequest
<1>7. CASE EnableCachedImplicit
  BY <1>7 DEF EnableCachedImplicit
<1>8. CASE CouldNotBuildAll
  BY <1>8 DEF CouldNotBuildAll
<1>9. CASE LicenseCheckerFails
  BY <1>9 DEF LicenseCheckerFails
<1>10. CASE ReceiveResult
  BY <1>10 DEF ReceiveResult
<1>11. CASE SetAssociatedDeltaPaths
  BY <1>11 DEF SetAssociatedDeltaPaths
<1>12. CASE InjectProvide
  BY <1>12 DEF InjectProvide
<1>13. CASE FinishFile
  BY <1>13 DEF FinishFile, GraphFails
<1>14. CASE FinishInject
  BY <1>14 DEF FinishInject
<1>15. CASE BreakCycle
  BY <1>15 DEF BreakCycle
<1>16. CASE NoMoreCycles
  BY <1>16 DEF NoMoreCycles
<1>17. CASE Optimize
  BY <1>17 DEF Optimize
<1>18. CASE Advance
  BY <1>18 DEF Advance
<1>19. CASE StopBuild \/ DoneBuild \/ CloseRequests \/ ClosePriority
  BY <1>19 DEF StopBuild, DoneBuild, CloseRequests, ClosePriority, CloseChannel
<1>20. CASE DrainPriority
  BY <1>20 DEF DrainPriority
<1>21. CASE DrainRequests
  BY <1>21 DEF DrainRequests
<1>22. CASE SchedulerStep
  <2> HIDE DEF stateVars, chanVars, workerVars
  <2> QED
    BY <1>3, <1>4, <1>5, <1>6, <1>7, <1>8, <1>9, <1>10, <1>11, <1>12, <1>13, <1>14, <1>15,
       <1>16, <1>17, <1>18, <1>19, <1>20, <1>21, <1>22, Zenon DEF SchedulerStep
<1>23. CASE \E w \in Worker : WorkerStep(w)
  <2>1. PICK w \in Worker : WorkerStep(w)
    BY <1>23
  <2> QED BY <1>2, <2>1, Zenon
<1>24. CASE Finished
  BY <1>1, <1>24, Zenon DEF Finished
<1>25. Next \/ UNCHANGED vars
  OBVIOUS
<1> QED BY <1>1, <1>22, <1>23, <1>24, <1>25, Zenon DEF Next

\* A node that is created is none that a request was made for.
LEMMA AllocationStep ==
  ASSUME TypeInv, pc # "submit", CanAllocate, NEW new, new = NewNode(Referenced),
         NEW rec \in PkgNode, rec.type # "LocalBuild", attr' = [attr EXCEPT ![new] = rec]
  PROVE  /\ new \in Node /\ attr' \in [Node -> PkgNode] /\ KeepsNodes
         /\ \A n \in Node : attr'[n].type = "LocalBuild" => attr'[n].srpm \in SRPM
<1>1. new \in Node /\ new \notin Referenced
  BY NewNodeType DEF CanAllocate
<1>2. attr \in [Node -> PkgNode]
      /\ \A n \in Node : attr[n].type = "LocalBuild" => attr[n].srpm \in SRPM
  BY DEF TypeInv, GraphsOK
<1>3. new \notin Requested
  <2>1. JobsIn(newRequests) = {}
    BY DEF TypeInv, LoopOK, JobsIn
  <2> QED BY <1>1, <2>1 DEF Referenced, Requested
<1>4. KeepsNodes
  BY <1>1, <1>2, <1>3 DEF KeepsNodes
<1>5. attr' \in [Node -> PkgNode] /\ attr'[new] = rec /\ \A n \in Node \ {new} : attr'[n] = attr[n]
  BY <1>1, <1>2
<1>6. ASSUME NEW n \in Node, attr'[n].type = "LocalBuild" PROVE attr'[n].srpm \in SRPM
  <2>1. n # new
    BY <1>5, <1>6
  <2> QED BY <1>2, <1>5, <1>6, <2>1
<1> QED BY <1>1, <1>4, <1>5, <1>6

\* The graphs stay graphs, and the nodes that were requested what they were.
LEMMA GraphsStep ==
  ASSUME TypeInv, [Next]_vars
  PROVE  GraphsOK' /\ KeepsNodes
<1>0. input' = input /\ input \in DOMAIN Inputs
  BY GraphCases DEF TypeInv, GraphsOK
<1>1. /\ graph \in [{0, 1} -> Graph] /\ attr \in [Node -> PkgNode] /\ goalNode \in Node
      /\ \A n \in Node : attr[n].type = "LocalBuild" => attr[n].srpm \in SRPM
      /\ result.built \subseteq Path /\ unread \subseteq Path
  BY DEF TypeInv, GraphsOK, LoopOK, AcceptedJob, Job
<1>2. Current \in {0, 1} /\ G \in Graph
  BY <1>1 DEF Current, G
<1>3. CASE UNCHANGED <<graph, attr, goalNode>>
  BY <1>0, <1>3, Stutters DEF KeepsNodes
<1>4. ASSUME NEW g \in Graph, graph' = [graph EXCEPT ![Current] = g],
             UNCHANGED <<attr, goalNode>>
      PROVE  GraphsOK' /\ KeepsNodes
  <2>1. graph' \in [{0, 1} -> Graph]
    BY <1>1, <1>2, <1>4
  <2> QED BY <1>0, <1>1, <1>4, <2>1 DEF GraphsOK, KeepsNodes
<1>5. CASE ConvertNodesToRequests
  <2>1. PICK edges : graph' = [graph EXCEPT ![Current] = RemoveEdges(G, edges)]
    BY <1>5, Zenon DEF ConvertNodesToRequests
  <2>2. UNCHANGED <<attr, goalNode>>
    BY <1>5 DEF ConvertNodesToRequests
  <2>3. RemoveEdges(G, edges) \in Graph
    BY <1>1, <1>2, RemoveType
  <2> QED BY <1>4, <2>1, <2>2, <2>3
<1>6. CASE NoMoreCycles
  <2>1. graph' = [graph EXCEPT ![Current] = ReleaseTemporaryRoot(G)] /\ UNCHANGED <<attr, goalNode>>
    BY <1>6 DEF NoMoreCycles
  <2> QED BY <1>2, <1>4, <2>1, ReleaseType
<1>7. ASSUME attr' \in [Node -> PkgNode], UNCHANGED <<graph, goalNode>>,
             \A n \in Node : /\ attr'[n].type = attr[n].type
                             /\ attr'[n].srpm = attr[n].srpm
                             /\ attr'[n].id = attr[n].id
      PROVE  GraphsOK' /\ KeepsNodes
  BY <1>0, <1>1, <1>7 DEF GraphsOK, KeepsNodes
<1>8. CASE SetAssociatedDeltaPaths
  <2>1. UNCHANGED <<graph, goalNode>>
    BY <1>8 DEF SetAssociatedDeltaPaths
  <2>2. PICK updated :
           /\ updated \subseteq {n \in AllPreferredRunNodes(G, attr) : BuiltInstead(n) # {}}
           /\ attr' = [n \in Node |->
                         IF n \in updated
                         THEN [attr[n] EXCEPT !.rpm = CHOOSE f \in BuiltInstead(n) : TRUE]
                         ELSE attr[n]]
    BY <1>8 DEF SetAssociatedDeltaPaths
  <2>3. ASSUME NEW n \in Node
        PROVE  /\ attr'[n] \in PkgNode /\ attr'[n].type = attr[n].type
               /\ attr'[n].srpm = attr[n].srpm /\ attr'[n].id = attr[n].id
    <3>1. CASE n \notin updated
      BY <1>1, <2>2, <3>1
    <3>2. CASE n \in updated
      <4> DEFINE f == CHOOSE f \in BuiltInstead(n) : TRUE
      <4>1. f \in Path
        BY <1>1, <2>2, <3>2 DEF BuiltInstead
      <4> HIDE DEF f
      <4>2. attr'[n] = [attr[n] EXCEPT !.rpm = f] /\ attr[n] \in PkgNode
        BY <1>1, <2>2, <3>2 DEF f
      <4> QED BY <4>1, <4>2 DEF PkgNode
    <3> QED BY <3>1, <3>2
  <2>4. attr' \in [Node -> PkgNode]
    BY <2>2, <2>3
  <2> QED BY <1>7, <2>1, <2>3, <2>4
<1>9. ASSUME NEW w \in Worker, SetAncillaryBuildNodesStatus(w)
      PROVE  GraphsOK' /\ KeepsNodes
  <2>1. UNCHANGED <<graph, goalNode>>
    BY <1>9 DEF SetAncillaryBuildNodesStatus, KeepScheduler, schedVars
  <2>2. ASSUME NEW n \in Node
        PROVE  /\ attr'[n] \in PkgNode /\ attr'[n].type = attr[n].type
               /\ attr'[n].srpm = attr[n].srpm /\ attr'[n].id = attr[n].id
    <3>1. PICK st \in NodeStates : attr'[n] \in {attr[n], [attr[n] EXCEPT !.state = st]}
      BY <1>9 DEF SetAncillaryBuildNodesStatus, NodeStates
    <3>2. attr[n] \in PkgNode
      BY <1>1
    <3> QED BY <3>1, <3>2 DEF PkgNode
  <2>3. attr' = [n \in Node |-> attr'[n]]
    BY <1>9 DEF SetAncillaryBuildNodesStatus
  <2>4. attr' \in [Node -> PkgNode]
    BY <2>2, <2>3
  <2> QED BY <1>7, <2>1, <2>2, <2>4
<1>10. ASSUME NEW new, new = NewNode(Referenced), CanAllocate, pc # "submit",
              NEW rec \in PkgNode, rec.type # "LocalBuild",
              attr' = [attr EXCEPT ![new] = rec], goalNode' = goalNode,
              NEW g \in Graph, graph' = [graph EXCEPT ![Current] = g]
       PROVE  GraphsOK' /\ KeepsNodes
  <2>1. /\ attr' \in [Node -> PkgNode] /\ KeepsNodes
        /\ \A n \in Node : attr'[n].type = "LocalBuild" => attr'[n].srpm \in SRPM
    BY <1>10, AllocationStep
  <2>2. graph' \in [{0, 1} -> Graph]
    BY <1>1, <1>2, <1>10
  <2> QED BY <1>0, <1>1, <1>10, <2>1, <2>2 DEF GraphsOK
<1>11. CASE InjectProvide
  <2>1. PICK provide \in MatchingProvides :
          IF \/ NextFile \notin disk \/ ProviderParents = {}
             \/ HasLocalRunNode(G, attr, provide, Satisfied(provide))
          THEN GraphFails
          ELSE \E parent \in ProviderParents, id \in NewIDs(G) :
                 LET new == NewNode(Referenced)
                 IN  /\ CanAllocate
                     /\ graph' = [graph EXCEPT ![Current] =
                            CreateCollapsedNode(G, attr, new, id, parent, Satisfied(provide))]
                     /\ attr' = [attr EXCEPT ![new] =
                                    CollapsedNode(attr, provide, parent, id)]
                     /\ flags' = flags \cup {"didInjectAny"}
                     /\ UNCHANGED <<pc, goalNode, err>>
    BY <1>11, Zenon DEF InjectProvide
  <2>2. CASE GraphFails
    BY <1>3, <2>2 DEF GraphFails
  <2>3. CASE ~GraphFails
    <3> DEFINE new == NewNode(Referenced)
    <3>1. PICK parent \in ProviderParents, id \in NewIDs(G) :
            /\ CanAllocate
            /\ graph' = [graph EXCEPT ![Current] =
                   CreateCollapsedNode(G, attr, new, id, parent, Satisfied(provide))]
            /\ attr' = [attr EXCEPT ![new] = CollapsedNode(attr, provide, parent, id)]
            /\ goalNode' = goalNode
      BY <2>1, <2>3
    <3>2. pc # "submit" /\ unread # {}
      BY <1>11 DEF InjectProvide
    <3>3. new \in Node
      BY <3>1, NewNodeType DEF CanAllocate
    <3> HIDE DEF new
    <3>4. id \in Nat
      BY <1>2, NewIDType
    <3>5. parent \in Node /\ attr[parent] \in PkgNode /\ attr[parent].type = "LocalRun"
      BY <1>1, <1>2, GraphFields DEF ProviderParents, AllPreferredRunNodes
    <3>6. provide \in Pkg
      <4>1. NextFile \in Path
        BY <1>1, <3>2 DEF NextFile
      <4>2. NextFile[1] \in RPM
        BY <4>1 DEF Path
      <4> QED BY <1>0, <4>2, InputTypes DEF MatchingProvides
    <3>7. CollapsedNode(attr, provide, parent, id) \in PkgNode
          /\ CollapsedNode(attr, provide, parent, id).type # "LocalBuild"
      BY <3>4, <3>5, <3>6 DEF CollapsedNode, PkgNode
    <3>8. CreateCollapsedNode(G, attr, new, id, parent, Satisfied(provide)) \in Graph
      <4> DEFINE D == [n \in Node |->
                        IF n = new THEN {parent}
                        ELSE IF From(G, n) \cap Satisfied(provide) # {}
                             THEN From(G, n) \cup {new}
                             ELSE From(G, n)]
      <4>1. D \in [Node -> SUBSET Node]
        BY <1>2, <3>3, <3>5, GraphFields
      <4> HIDE DEF D
      <4>2. [AddNode(G, new, id) EXCEPT !.deps = D] \in Graph
        BY <1>2, <3>3, <3>4, <4>1, AddNodeType
      <4>3. RemoveNodes([AddNode(G, new, id) EXCEPT !.deps = D], attr, Satisfied(provide))
              \in Graph
        BY <1>1, <4>2, RemoveType
      <4> QED BY <4>3 DEF CreateCollapsedNode, D
    <3> QED BY <1>10, <3>1, <3>2, <3>7, <3>8 DEF new
  <2> QED BY <2>2, <2>3
<1>12. CASE BreakCycle
  <2> DEFINE searched == ReleaseTemporaryRoot(G)
             new == NewNode(Referenced)
  <2>0. pc # "submit" /\ searched \in Graph
    BY <1>2, <1>12, ReleaseType DEF BreakCycle
  <2>1. PICK succ \in Cycles(G), id \in NewIDs(searched) :
             \/ /\ CanFixIntraSpec(attr, DOMAIN succ) /\ CanAllocate
                /\ graph' = [graph EXCEPT ![Current] =
                       FixIntraSpecCycle(searched, new, id, DOMAIN succ)]
                /\ attr' = [attr EXCEPT ![new] = MetaNode(id)]
                /\ UNCHANGED <<pc, flags, goalNode, err>>
             \/ /\ ~CanFixIntraSpec(attr, DOMAIN succ)
                /\ CanAllocate
                /\ \E b \in BreakableEdges(G, attr, disk, succ) :
                      /\ graph' = [graph EXCEPT ![Current] =
                             ReplaceSRPMBuildDependency(searched, attr, new, id, b, succ[b])]
                      /\ attr' = [attr EXCEPT ![new] = PreBuiltNode(attr, succ[b], id)]
                /\ UNCHANGED <<pc, flags, goalNode, err>>
             \/ GraphFails
    BY <1>12, Zenon DEF BreakCycle
  <2>2. CASE GraphFails
    BY <1>3, <2>2 DEF GraphFails
  <2>3. CASE CanAllocate /\ ~GraphFails
    <3>1. new \in Node
      BY <2>3, NewNodeType DEF CanAllocate
    <3>2. id \in Nat
      BY <2>0, NewIDType
    <3>3. PICK S \in SUBSET Node : succ \in [S -> S]
      <4>1. OnSomeCycle(G) \subseteq Node
        BY <1>2, GraphFields DEF OnSomeCycle
      <4> QED BY <4>1 DEF Cycles
    <3>4. DOMAIN succ \subseteq Node /\ \A b \in DOMAIN succ : succ[b] \in Node
      BY <3>3
    <3> HIDE DEF new, searched
    <3>5. CASE /\ graph' = [graph EXCEPT ![Current] =
                       FixIntraSpecCycle(searched, new, id, DOMAIN succ)]
               /\ attr' = [attr EXCEPT ![new] = MetaNode(id)]
               /\ goalNode' = goalNode
      <4> DEFINE C == DOMAIN succ
                 D == [n \in Node |->
                        IF n = new THEN C
                        ELSE IF n \in C THEN From(searched, n) \ C
                        ELSE IF From(searched, n) \cap C # {}
                             THEN (From(searched, n) \ C) \cup {new}
                        ELSE From(searched, n)]
      <4>1. D \in [Node -> SUBSET Node]
        <5>1. C \subseteq Node
          BY <3>4
        <5> HIDE DEF C
        <5> QED BY <2>0, <3>1, <5>1, GraphFields
      <4> HIDE DEF D
      <4>2. [AddNode(searched, new, id) EXCEPT !.deps = D] \in Graph
        BY <2>0, <3>1, <3>2, <4>1, AddNodeType
      <4>3. FixIntraSpecCycle(searched, new, id, DOMAIN succ) \in Graph
        BY <4>2 DEF FixIntraSpecCycle, D
      <4>4. MetaNode(id) \in PkgNode /\ MetaNode(id).type # "LocalBuild"
        BY <3>2 DEF MetaNode, PkgNode, NodeTypes, NodeStates, GoalNames
      <4> QED BY <1>10, <2>0, <2>3, <3>5, <4>3, <4>4 DEF new
    <3>6. CASE \E b \in BreakableEdges(G, attr, disk, succ) :
                 /\ graph' = [graph EXCEPT ![Current] =
                        ReplaceSRPMBuildDependency(searched, attr, new, id, b, succ[b])]
                 /\ attr' = [attr EXCEPT ![new] = PreBuiltNode(attr, succ[b], id)]
                 /\ goalNode' = goalNode
      <4>1. PICK b \in BreakableEdges(G, attr, disk, succ) :
                 /\ graph' = [graph EXCEPT ![Current] =
                        ReplaceSRPMBuildDependency(searched, attr, new, id, b, succ[b])]
                 /\ attr' = [attr EXCEPT ![new] = PreBuiltNode(attr, succ[b], id)]
                 /\ goalNode' = goalNode
        BY <3>6
      <4>2. succ[b] \in Node /\ attr[succ[b]] \in PkgNode
        BY <1>1, <3>4 DEF BreakableEdges
      <4> DEFINE D == [n \in Node |->
                        IF n = new THEN {}
                        ELSE IF /\ succ[b] \in From(searched, n)
                                /\ attr[n].type = "LocalBuild"
                                /\ attr[n].srpm = attr[b].srpm
                             THEN (From(searched, n) \ {succ[b]}) \cup {new}
                             ELSE From(searched, n)]
      <4>3. D \in [Node -> SUBSET Node]
        BY <2>0, <3>1, GraphFields
      <4> HIDE DEF D
      <4>4. [AddNode(searched, new, id) EXCEPT !.deps = D] \in Graph
        BY <2>0, <3>1, <3>2, <4>3, AddNodeType
      <4>5. ReplaceSRPMBuildDependency(searched, attr, new, id, b, succ[b]) \in Graph
        BY <4>4 DEF ReplaceSRPMBuildDependency, D
      <4>6. PreBuiltNode(attr, succ[b], id) \in PkgNode
            /\ PreBuiltNode(attr, succ[b], id).type # "LocalBuild"
        BY <3>2, <4>2 DEF PreBuiltNode, PkgNode, NodeTypes, NodeStates
      <4> QED BY <1>10, <2>0, <2>3, <4>1, <4>5, <4>6 DEF new
    <3> QED BY <2>1, <2>3, <3>5, <3>6
  <2> QED BY <2>1, <2>2, <2>3
<1>13. CASE Optimize
  <2>1. CASE UNCHANGED <<graph, attr, goalNode>>
    BY <1>3, <2>1
  <2>2. CASE ~UNCHANGED <<graph, attr, goalNode>>
    <3>1. PICK o \in Optimized(G, attr, Referenced) :
            /\ FindGoalNode(G, attr, "PackagesToBuild") # {}
            /\ CanAllocate
            /\ graph' = [graph EXCEPT ![1] = o.graph]
            /\ attr' = o.attr
            /\ goalNode' = o.goal
      BY <1>13, <2>2 DEF Optimize
    <3>2. /\ o.graph \in Graph /\ o.goal = NewNode(Referenced) /\ o.goal \in Node
          /\ \E id \in Nat : o.attr = [attr EXCEPT ![o.goal] = GoalNode("ALL", id)]
      BY <1>1, <1>2, <3>1, OptimizedType DEF CanAllocate
    <3>3. PICK id \in Nat : attr' = [attr EXCEPT ![o.goal] = GoalNode("ALL", id)]
      BY <3>1, <3>2
    <3>5. GoalNode("ALL", id) \in PkgNode /\ GoalNode("ALL", id).type # "LocalBuild"
      BY DEF GoalNode, PkgNode, NodeTypes, NodeStates, GoalNames
    <3>6. pc # "submit"
      BY <1>13 DEF Optimize
    <3>7. /\ attr' \in [Node -> PkgNode] /\ KeepsNodes
          /\ \A n \in Node : attr'[n].type = "LocalBuild" => attr'[n].srpm \in SRPM
      BY <3>1, <3>2, <3>3, <3>5, <3>6, AllocationStep
    <3>8. graph' \in [{0, 1} -> Graph]
      BY <1>1, <3>1, <3>2
    <3> QED BY <1>0, <3>1, <3>2, <3>7, <3>8 DEF GraphsOK
  <2> QED BY <2>1, <2>2
<1> QED BY <1>3, <1>5, <1>6, <1>8, <1>9, <1>11, <1>12, <1>13, GraphCases

\* A request asks for no more freshness than RecordBuildResult accepts back.
LEMMA RequestType ==
  ASSUME TypeInv, NEW g \in Graph, NEW n \in Node, NEW ancillary \in SUBSET Node,
         NEW rebuild, NEW cacheAllowed, NEW delta
  PROVE  BuildRequest(g, n, ancillary, rebuild, cacheAllowed, delta) \in AcceptedJob
<1>0. MaxFreshness \in Nat
  BY InputTypes DEF TypeInv, GraphsOK
<1>1. ASSUME NEW d \in Node
      PROVE  ExpectedFreshness(d) \in 0..MaxFreshness
  <2> DEFINE f == nodeToState[d].freshness
  <2>1. f \in Nat /\ f <= MaxFreshness
    BY DEF TypeInv, StateOK, BuildState
  <2> HIDE DEF f
  <2>2. \/ ExpectedFreshness(d) = 0
        \/ ExpectedFreshness(d) = f
        \/ f # 0 /\ ExpectedFreshness(d) = f - 1
    BY Zenon DEF ExpectedFreshness, f
  <2> QED BY <1>0, <2>1, <2>2
<1> DEFINE inherited == {0} \cup {ExpectedFreshness(d) : d \in From(g, n)}
<1>2. inherited \subseteq 0..MaxFreshness /\ inherited # {}
  BY <1>0, <1>1, GraphFields
<1>3. InheritedFreshness(g, n) \in 0..MaxFreshness
  <2>0. IsFiniteSet(0..MaxFreshness)
    <3>1. 0 \in Int /\ MaxFreshness \in Int
      BY <1>0
    <3> QED BY <3>1, FS_Interval
  <2>1. IsFiniteSet(inherited) /\ inherited \subseteq Nat
    <3>1. 0..MaxFreshness \subseteq Nat
      BY <1>0
    <3> HIDE DEF inherited
    <3> QED BY <1>2, <2>0, <3>1, FS_Subset
  <2> HIDE DEF inherited
  <2>2. \E f \in inherited : \A i \in inherited : i <= f
    BY <1>2, <2>1, GreatestNat
  <2>3. (CHOOSE f \in inherited : \A i \in inherited : i <= f) \in inherited
    BY <2>2
  <2> QED BY <1>2, <2>3 DEF InheritedFreshness, inherited
<1>4. Current \in {0, 1}
  BY DEF Current
<1> HIDE DEF inherited
<1> QED BY <1>0, <1>3, <1>4 DEF BuildRequest, AcceptedJob, Job, JobFlags

\* The nodes of a group are nodes to build of one type and of one SRPM.
LEMMA GroupNodes ==
  ASSUME nodesToBuild \subseteq Node, NEW type, NEW gr \in Groups(type)
  PROVE  /\ gr \subseteq Node /\ gr # {}
         /\ \A m \in gr : attr[m].type = type
         /\ \A m, n \in gr : attr[m].srpm = attr[n].srpm
         /\ \A m \in nodesToBuild, n \in gr :
               attr[m].type = type /\ attr[m].srpm = attr[n].srpm => m \in gr
  BY DEF Groups, NodesOfType

\* The parts of ConvertNodesToRequests.
LEMMA ConvertType ==
  ASSUME TypeInv, ConvertNodesToRequests
  PROVE  newRequests' \in Seq(AcceptedJob)
<1>0. nodesToBuild \subseteq Node /\ graph \in [{0, 1} -> Graph] /\ attr \in [Node -> PkgNode]
  BY DEF TypeInv, LoopOK, GraphsOK
<1>1. G \in Graph
  BY <1>0 DEF G, Current
<1>2. PICK first \in Choices(Groups("LocalBuild")), last \in Choices(Groups("LocalBuild")),
           firstTest \in Choices(Groups("Test")) :
        LET tested   == TestedGroups(first)
            pruned   == RemoveEdges(G, {<<PartnerTest(G, b), b>> : b \in UNION tested})
            builds   == {BuildGroupRequest(first, gr) : gr \in NewBuildGroups(first)}
            partners == {PartnerRequest(pruned, first, last, gr) :
                            gr \in ReadyPartners(pruned, tested, last)}
            tests    == {TestGroupRequest(pruned, firstTest, gr) :
                            gr \in NewTestGroups(firstTest)}
        IN  /\ \A b \in UNION tested : PartnerTests(G, b) # {}
            /\ \E q \in Orders(OtherRequests \cup builds \cup partners \cup tests) :
                   newRequests' = q
  BY Zenon DEF ConvertNodesToRequests
<1> DEFINE tested   == TestedGroups(first)
           pruned   == RemoveEdges(G, {<<PartnerTest(G, b), b>> : b \in UNION tested})
           builds   == {BuildGroupRequest(first, gr) : gr \in NewBuildGroups(first)}
           partners == {PartnerRequest(pruned, first, last, gr) :
                            gr \in ReadyPartners(pruned, tested, last)}
           tests    == {TestGroupRequest(pruned, firstTest, gr) :
                            gr \in NewTestGroups(firstTest)}
<1>3. pruned \in Graph
  BY <1>0, <1>1, RemoveType
<1> HIDE DEF pruned
<1>4. OtherRequests \subseteq AcceptedJob
  <2>1. ASSUME NEW n \in nodesToBuild
        PROVE  BuildRequest(G, n, {n}, PackagesToRebuild, CanUseCache, attr[n].state = "Delta")
                 \in AcceptedJob
    BY <1>0, <1>1, RequestType
  <2> QED BY <2>1 DEF OtherRequests
<1>5. ASSUME NEW type, NEW c \in Choices(Groups(type)), NEW gr \in DOMAIN c
      PROVE  gr \in Groups(type) /\ c[gr] \in gr /\ c[gr] \in Node /\ gr \in SUBSET Node
  BY <1>0, GroupNodes DEF Choices
<1>6. builds \subseteq AcceptedJob
  <2>1. ASSUME NEW gr \in NewBuildGroups(first)
        PROVE  BuildGroupRequest(first, gr) \in AcceptedJob
    <3>1. first[gr] \in Node /\ gr \in SUBSET Node
      BY <1>5 DEF NewBuildGroups
    <3> QED BY <1>1, <3>1, RequestType DEF BuildGroupRequest
  <2> QED BY <2>1
<1>7. tests \subseteq AcceptedJob
  <2>1. ASSUME NEW gr \in NewTestGroups(firstTest)
        PROVE  TestGroupRequest(pruned, firstTest, gr) \in AcceptedJob
    <3>1. firstTest[gr] \in Node /\ gr \in SUBSET Node
      BY <1>5 DEF NewTestGroups
    <3> QED BY <1>3, <3>1, RequestType DEF TestGroupRequest
  <2> QED BY <2>1
<1>8. partners \subseteq AcceptedJob
  <2>1. ASSUME NEW gr \in ReadyPartners(pruned, tested, last)
        PROVE  PartnerRequest(pruned, first, last, gr) \in AcceptedJob
    <3>1. gr \in tested /\ gr \in DOMAIN last /\ last[gr] \in gr
      BY <1>5 DEF ReadyPartners, TestedGroups, NewBuildGroups, Choices
    <3>2. ASSUME NEW b \in gr PROVE PartnerTest(G, b) \in Node
      <4>1. PartnerTests(G, b) # {} /\ PartnerTests(G, b) \subseteq Node
        BY <1>1, <1>2, <3>1, GraphFields DEF PartnerTests, To
      <4> QED BY <4>1 DEF PartnerTest
    <3>3. {PartnerTest(G, b) : b \in gr} \in SUBSET Node /\ PartnerTest(G, last[gr]) \in Node
      BY <3>1, <3>2
    <3> HIDE DEF tested
    <3> QED BY <1>3, <3>3, RequestType DEF PartnerRequest
  <2> QED BY <2>1
<1>9. PICK q \in Orders(OtherRequests \cup builds \cup partners \cup tests) : newRequests' = q
  BY <1>2, Zenon DEF pruned
<1> DEFINE All == OtherRequests \cup builds \cup partners \cup tests
<1>10. All \subseteq AcceptedJob /\ newRequests' \in Seq(All)
  BY <1>4, <1>6, <1>7, <1>8, <1>9 DEF Orders
<1> HIDE DEF All
<1> QED BY <1>10

\* The first of a queue of requests, the rest, and one more.
LEMMA Queues ==
  ASSUME NEW S, NEW q \in Seq(S)
  PROVE  /\ q # <<>> => Head(q) \in S /\ Tail(q) \in Seq(S)
         /\ \A j \in S : Append(q, j) \in Seq(S)
  OBVIOUS

\* The steps of the scheduler up to a result.
LEMMA SubmitTypes ==
  ASSUME TypeInv, input' = input,
         \/ StartAtLeaves \/ ConvertNodesToRequests \/ ConvertPanics \/ SubmitRequest
         \/ EnableCachedImplicit \/ CouldNotBuildAll
  PROVE  LoopOK' /\ StateOK' /\ ChannelsOK' /\ WorkersOK'
<1> USE DEF stateVars, chanVars, workerVars
<1>0. /\ LoopOK /\ StateOK /\ ChannelsOK /\ WorkersOK
      /\ AcceptedJob' = AcceptedJob /\ MaxFreshness' = MaxFreshness
  BY Stutters DEF TypeInv
<1>1. G \in Graph /\ goalNode \in Node
  BY DEF TypeInv, GraphsOK, G, Current
<1>2. \A c : LeafNodes(G, goalNode, c) \subseteq Node
  BY <1>1, GraphFields, ReachNodes DEF LeafNodes
<1>3. CASE StartAtLeaves
  BY <1>0, <1>2, <1>3, Stutters DEF StartAtLeaves, LoopOK, Control
<1>4. CASE ConvertNodesToRequests
  <2>1. newRequests' \in Seq(AcceptedJob)
    BY <1>4, ConvertType
  <2>2. UNCHANGED <<disk, flags, result, unread, err, stateVars, chanVars, workerVars>>
        /\ nodesToBuild' = {} /\ pc' = "submit"
    BY <1>4 DEF ConvertNodesToRequests
  <2> QED BY <1>0, <2>1, <2>2, Stutters DEF LoopOK, Control
<1>5. CASE ConvertPanics
  BY <1>0, <1>5, Stutters DEF ConvertPanics, LoopOK, Control
<1>6. CASE SubmitRequest
  <2> DEFINE req == Head(newRequests)
  <2>1. req \in AcceptedJob /\ Tail(newRequests) \in Seq(AcceptedJob)
    BY <1>0, <1>6, Queues DEF SubmitRequest, LoopOK
  <2>2. LoopOK'
    BY <1>0, <1>6, <2>1 DEF SubmitRequest, LoopOK
  <2> HIDE DEF req
  <2>3. StateOK'
    <3>1. activeBuilds' = [i \in DOMAIN activeBuilds \cup {attr[req.node].id} |->
                             IF i = attr[req.node].id THEN req ELSE activeBuilds[i]]
      BY <1>6 DEF SubmitRequest, req
    <3>2. Active' \subseteq AcceptedJob
      BY <1>0, <2>1, <3>1 DEF StateOK, Active
    <3>3. UNCHANGED <<nodeToState, failures>>
      BY <1>6 DEF SubmitRequest
    <3> QED BY <1>0, <3>2, <3>3 DEF StateOK
  <2>4. ChannelsOK'
    <3>1. /\ requests' \in {requests, Append(requests, req)}
          /\ priorityRequests' \in {priorityRequests, Append(priorityRequests, req)}
          /\ UNCHANGED <<results, closed>>
      BY <1>6 DEF SubmitRequest, req
    <3> QED BY <1>0, <2>1, <3>1, Queues DEF ChannelsOK
  <2>5. WorkersOK'
    BY <1>6, Stutters DEF SubmitRequest
  <2> QED BY <2>2, <2>3, <2>4, <2>5
<1>7. CASE EnableCachedImplicit
  BY <1>0, <1>2, <1>7, Stutters DEF EnableCachedImplicit, NothingOutstanding, LoopOK, Control,
                                    SchedulerFlags
<1>8. CASE CouldNotBuildAll
  BY <1>0, <1>8, Stutters DEF CouldNotBuildAll, NothingOutstanding, LoopOK, Control, Errors
<1> QED BY <1>3, <1>4, <1>5, <1>6, <1>7, <1>8, Zenon

\* The steps that take a result and follow it up.
LEMMA ResultTypes ==
  ASSUME TypeInv, input' = input,
         \/ LicenseCheckerFails \/ ReceiveResult \/ SetAssociatedDeltaPaths
         \/ InjectProvide \/ FinishFile \/ FinishInject
         \/ BreakCycle \/ NoMoreCycles \/ Optimize \/ Advance
  PROVE  LoopOK' /\ StateOK' /\ ChannelsOK' /\ WorkersOK'
<1> USE DEF stateVars, chanVars, workerVars
<1>0. /\ LoopOK /\ StateOK /\ ChannelsOK /\ WorkersOK
      /\ AcceptedJob' = AcceptedJob /\ MaxFreshness' = MaxFreshness
  BY Stutters DEF TypeInv
<1>1. G \in Graph /\ MaxFreshness \in Nat
  BY InputTypes DEF TypeInv, GraphsOK, G, Current
<1>2. CASE LicenseCheckerFails
  <2>1. Head(results) \in AcceptedJob /\ Tail(results) \in Seq(AcceptedJob)
    BY <1>0, <1>2, Queues DEF LicenseCheckerFails, ChannelsOK
  <2>2. LoopOK'
    BY <1>0, <1>2, <2>1 DEF LicenseCheckerFails, LoopOK, Control, Errors
  <2>3. ChannelsOK'
    BY <1>0, <1>2, <2>1 DEF LicenseCheckerFails, ChannelsOK
  <2> QED BY <1>2, <2>2, <2>3, Stutters DEF LicenseCheckerFails
<1>3. CASE ReceiveResult
  <2> DEFINE res == Head(results)
  <2>1. res \in AcceptedJob /\ Tail(results) \in Seq(AcceptedJob)
    BY <1>0, <1>3, Queues DEF ReceiveResult, ChannelsOK
  <2>2. PICK license : RecordBuildResult(res, license)
    BY <1>3 DEF ReceiveResult
  <2>3. /\ result' = res /\ unread' = res.built /\ pc' = AfterRecording(res)
        /\ newRequests = <<>> /\ flags' = flags \ {"didInjectAny"}
        /\ UNCHANGED <<nodesToBuild, newRequests>>
        /\ results' = Tail(results) /\ UNCHANGED <<requests, priorityRequests, closed>>
        /\ UNCHANGED <<disk, workerVars>>
    BY <1>3 DEF ReceiveResult
  <2> HIDE DEF res
  <2>4. /\ res.freshness \in Nat /\ res.freshness <= MaxFreshness /\ ~(res.freshness > MaxFreshness)
        /\ res.built \subseteq Path /\ res.node \in Node
    BY <1>1, <2>1 DEF AcceptedJob, Job
  <2>5. err' \in {{"build"}, {}}
    BY <2>2, <2>4 DEF RecordBuildResult
  <2>6. AfterRecording(res) \in Control
    BY DEF AfterRecording, Control
  <2>7. LoopOK'
    BY <1>0, <2>1, <2>3, <2>4, <2>5, <2>6 DEF LoopOK, Errors
  <2>8. StateOK'
    <3>1. StateOf(res) \in BuildState /\ StateOf(res).freshness <= MaxFreshness
      BY <2>4 DEF StateOf, BuildState
    <3>2. nodeToState' = [n \in Node |-> IF n \in res.ancillary
                                         THEN StateOf(res) ELSE nodeToState[n]]
      BY <2>2, <2>4 DEF RecordBuildResult
    <3>3. failures' \subseteq failures \cup {res.node}
      BY <2>2 DEF RecordBuildResult
    <3>4. Active' \subseteq Active
      BY <2>2 DEF RecordBuildResult, WithoutActive, Active
    <3> QED BY <1>0, <2>4, <3>1, <3>2, <3>3, <3>4 DEF StateOK
  <2>9. ChannelsOK'
    BY <1>0, <2>1, <2>3 DEF ChannelsOK
  <2> QED BY <2>3, <2>7, <2>8, <2>9, Stutters
<1>4. CASE SetAssociatedDeltaPaths
  <2>1. /\ pc' \in {"stopBuild", "advance", "inject"} /\ err' \in {err, {"deltaPaths"}}
        /\ pc = "delta"
        /\ UNCHANGED <<disk, flags, nodesToBuild, newRequests, result, unread, stateVars,
                       chanVars, workerVars>>
    BY <1>4 DEF SetAssociatedDeltaPaths
  <2> QED BY <1>0, <2>1, Stutters DEF LoopOK, Control, Errors
<1>5. CASE InjectProvide
  <2>1. /\ pc' \in {pc, "stopBuild"} /\ err' \in {err, {"graph"}}
        /\ flags' \in {flags, flags \cup {"didInjectAny"}} /\ pc = "inject"
        /\ UNCHANGED <<disk, nodesToBuild, newRequests, result, unread, stateVars,
                       chanVars, workerVars>>
    BY <1>5 DEF InjectProvide, GraphFails
  <2> QED BY <1>0, <2>1, Stutters DEF LoopOK, Control, Errors, SchedulerFlags
<1>6. CASE FinishFile
  <2>1. /\ pc' \in {pc, "stopBuild"} /\ err' \in {err, {"graph"}} /\ pc = "inject"
        /\ unread' \subseteq unread
        /\ UNCHANGED <<disk, flags, nodesToBuild, newRequests, result, stateVars,
                       chanVars, workerVars>>
    BY <1>6 DEF FinishFile, GraphFails
  <2> QED BY <1>0, <2>1, Stutters DEF LoopOK, Control, Errors
<1>7. CASE FinishInject
  BY <1>0, <1>7, Stutters DEF FinishInject, LoopOK, Control
<1>8. CASE BreakCycle
  <2>1. /\ pc' \in {pc, "stopBuild"} /\ err' \in {err, {"graph"}} /\ pc = "makeDAG"
        /\ UNCHANGED <<disk, flags, nodesToBuild, newRequests, result, unread, stateVars,
                       chanVars, workerVars>>
    BY <1>8 DEF BreakCycle, GraphFails
  <2> QED BY <1>0, <2>1, Stutters DEF LoopOK, Control, Errors
<1>9. CASE NoMoreCycles
  BY <1>0, <1>9, Stutters DEF NoMoreCycles, LoopOK, Control
<1>10. CASE Optimize
  <2>1. /\ pc' = "advance" /\ flags' \in {flags, flags \cup {"isGraphOptimized"}}
        /\ pc = "optimize"
        /\ UNCHANGED <<disk, nodesToBuild, newRequests, result, unread, err, stateVars,
                       chanVars, workerVars>>
    BY <1>10 DEF Optimize
  <2> QED BY <1>0, <2>1, Stutters DEF LoopOK, Control, SchedulerFlags
<1>11. CASE Advance
  <2>1. FindUnblockedNodes(G, result.ancillary) \subseteq Node
    BY <1>1, GraphFields DEF FindUnblockedNodes, To
  <2>2. /\ pc' \in {"doneBuild", "convert"} /\ flags' \in {flags, flags \cup {"stopBuilding"}}
        /\ pc = "advance"
        /\ nodesToBuild' \in {{}, FindUnblockedNodes(G, result.ancillary)}
        /\ UNCHANGED <<disk, newRequests, result, unread, err, stateVars, chanVars, workerVars>>
    BY <1>11 DEF Advance
  <2> QED BY <1>0, <2>1, <2>2, Stutters DEF LoopOK, Control, SchedulerFlags
<1> QED BY <1>2, <1>3, <1>4, <1>5, <1>6, <1>7, <1>8, <1>9, <1>10, <1>11, Zenon

\* The steps that shut down.
LEMMA ShutdownTypes ==
  ASSUME TypeInv, input' = input,
         \/ StopBuild \/ DoneBuild
         \/ CloseRequests \/ ClosePriority \/ DrainPriority \/ DrainRequests
  PROVE  LoopOK' /\ StateOK' /\ ChannelsOK' /\ WorkersOK'
<1> USE DEF stateVars, chanVars, workerVars
<1>0. /\ LoopOK /\ StateOK /\ ChannelsOK /\ WorkersOK
      /\ AcceptedJob' = AcceptedJob /\ MaxFreshness' = MaxFreshness
  BY Stutters DEF TypeInv
<1>1. ASSUME NEW from \in Control \ {"submit"}, NEW channel \in Channels,
             NEW to \in Control, CloseChannel(from, channel, to),
             err' \in {err, err \cup {"fatal"}}
      PROVE  LoopOK' /\ StateOK' /\ ChannelsOK' /\ WorkersOK'
  <2>1. LoopOK'
    BY <1>0, <1>1 DEF CloseChannel, LoopOK, Errors
  <2>2. ChannelsOK'
    BY <1>0, <1>1 DEF CloseChannel, ChannelsOK
  <2> QED BY <1>1, <2>1, <2>2, Stutters DEF CloseChannel
<1>2. CASE StopBuild \/ DoneBuild \/ CloseRequests \/ ClosePriority
  BY <1>1, <1>2 DEF StopBuild, DoneBuild, CloseRequests, ClosePriority, Control, Channels
<1>3. ASSUME NEW id, activeBuilds' \in {activeBuilds, WithoutActive(id)},
             UNCHANGED <<nodeToState, failures>>
      PROVE  StateOK'
  <2>1. Active' \subseteq Active
    BY <1>3 DEF WithoutActive, Active
  <2> QED BY <1>0, <1>3, <2>1 DEF StateOK
<1>4. CASE DrainPriority
  <2>1. /\ pc' \in {pc, "drainRequests"} /\ pc = "drainPriority"
        /\ UNCHANGED <<disk, flags, nodesToBuild, newRequests, result, unread, err,
                       nodeToState, failures, requests, results, closed, workerVars>>
        /\ activeBuilds' \in {activeBuilds, WithoutActive(attr[Head(priorityRequests).node].id)}
        /\ \/ priorityRequests' = priorityRequests
           \/ priorityRequests # <<>> /\ priorityRequests' = Tail(priorityRequests)
    BY <1>4 DEF DrainPriority
  <2>2. LoopOK'
    BY <1>0, <2>1 DEF LoopOK, Control
  <2>3. ChannelsOK'
    BY <1>0, <2>1, Queues DEF ChannelsOK
  <2> QED BY <1>3, <2>1, <2>2, <2>3, Stutters
<1>5. CASE DrainRequests
  <2>1. /\ pc' \in {pc, "returned"} /\ pc = "drainRequests"
        /\ UNCHANGED <<disk, flags, nodesToBuild, newRequests, result, unread,
                       nodeToState, failures, priorityRequests, results, closed, workerVars>>
        /\ err' \in {err, err \cup PostBuildErrors}
        /\ activeBuilds' \in {activeBuilds, WithoutActive(attr[Head(requests).node].id)}
        /\ \/ requests' = requests
           \/ requests # <<>> /\ requests' = Tail(requests)
    BY <1>5 DEF DrainRequests
  <2>2. PostBuildErrors \subseteq {"toolchainRebuilt", "licenses"}
    BY DEF PostBuildErrors
  <2>3. LoopOK'
    BY <1>0, <2>1, <2>2 DEF LoopOK, Control, Errors
  <2>4. ChannelsOK'
    BY <1>0, <2>1, Queues DEF ChannelsOK
  <2> QED BY <1>3, <2>1, <2>3, <2>4, Stutters
<1> QED BY <1>2, <1>4, <1>5

\* A worker changes nothing of the scheduler's.
LEMMA WorkerKeepsScheduler ==
  ASSUME NEW w \in Worker, WorkerStep(w)
  PROVE  KeepScheduler
  BY DEF WorkerStep, PollCancel, PollPriority, Select, PassThrough, SkipIgnored,
         UseCached, StartBuild, BuildSRPMFile, TestSRPMFile,
         SetAncillaryBuildNodesStatus, PublishResult

\* What a worker installs are RPM files.
LEMMA DependencyFiles ==
  ASSUME TypeInv, NEW g \in Graph, NEW n \in Node
  PROVE  BuildDependencies(g, n) \subseteq Path /\ \A s : RPMsOf(g, attr, s) \subseteq Path
<1> DEFINE h == [g EXCEPT !.deps = [m \in Node |->
                     {d \in From(g, m) : attr[d].type # "LocalBuild"}]]
<1>1. h \in Graph
  BY GraphFields DEF Graph
<1>2. RuntimeClosure(g, n) \subseteq Node
  <2> HIDE DEF h
  <2>1. Reach(h, n) \in SUBSET Node
    BY <1>1, GraphFields, ReachNodes
  <2> QED BY <2>1 DEF RuntimeClosure, h
<1>3. \A m \in Node : attr[m].rpm \in Path \cup {NoRPM}
  BY DEF TypeInv, GraphsOK, PkgNode
<1>4. \A s : RPMsOf(g, attr, s) \subseteq Path
  BY <1>3, GraphFields DEF RPMsOf
<1> QED BY <1>2, <1>3, <1>4 DEF BuildDependencies

\* The steps of a worker.
LEMMA WorkerTypes ==
  ASSUME TypeInv, NEW w \in Worker, WorkerStep(w)
  PROVE  LoopOK' /\ StateOK' /\ ChannelsOK' /\ WorkersOK'
<1> USE DEF stateVars, chanVars, schedVars
<1>1. KeepScheduler
  BY WorkerKeepsScheduler
<1>0. /\ ChannelsOK /\ WorkersOK /\ GraphsOK
      /\ AcceptedJob' = AcceptedJob /\ MaxFreshness' = MaxFreshness
  BY <1>1, Stutters DEF TypeInv, KeepScheduler
<1>2. LoopOK' /\ StateOK'
  BY <1>1, Stutters DEF KeepScheduler
<1> SUFFICES ChannelsOK' /\ WorkersOK'
  BY <1>2
<1>3. /\ job[w] \in AcceptedJob /\ job[w] \in Job /\ job[w].node \in Node
      /\ job[w].flags \in SUBSET JobFlags /\ job[w].graph \in {0, 1}
      /\ job[w].freshness <= MaxFreshness
      /\ graph[job[w].graph] \in Graph
  BY <1>0 DEF WorkersOK, GraphsOK, AcceptedJob, Job
<1>4. \A to \in WorkerControl : Goto(w, to) => wpc' \in [Worker -> WorkerControl]
  BY <1>0 DEF Goto, WorkersOK
<1>5. NoJob \in AcceptedJob
  <2>1. (CHOOSE n \in Node : TRUE) \in Node
    BY SchedulerAssumption
  <2>2. MaxFreshness \in Nat
    BY <1>0, InputTypes DEF GraphsOK
  <2> QED BY <2>1, <2>2 DEF NoJob, AcceptedJob, Job
<1>6. ASSUME NEW fl \in SUBSET JobFlags, NEW b \in SUBSET Path
      PROVE  [job[w] EXCEPT !.flags = fl, !.built = b] \in AcceptedJob
             /\ [job[w] EXCEPT !.flags = fl] \in AcceptedJob
             /\ [job[w] EXCEPT !.built = b] \in AcceptedJob
  BY <1>3 DEF AcceptedJob, Job
<1>7. ASSUME NEW to \in WorkerControl, Goto(w, to), KeepWork, KeepChannels, UNCHANGED disk
      PROVE  ChannelsOK' /\ WorkersOK'
  BY <1>0, <1>4, <1>7 DEF KeepWork, KeepChannels, ChannelsOK, WorkersOK
<1>8. CASE PollCancel(w) \/ PassThrough(w) \/ SetAncillaryBuildNodesStatus(w)
  <2>1. \E to \in {"stopped", "pollPriority", "publish"} : Goto(w, to)
    BY <1>8 DEF PollCancel, PassThrough, SetAncillaryBuildNodesStatus, Leave
  <2>2. KeepWork /\ KeepChannels /\ UNCHANGED disk
    BY <1>8 DEF PollCancel, PassThrough, SetAncillaryBuildNodesStatus
  <2> QED BY <1>7, <2>1, <2>2 DEF WorkerControl
<1>9. ASSUME NEW req \in AcceptedJob, Accept(w, req), UNCHANGED disk
      PROVE  WorkersOK'
  <2>1. job' \in [Worker -> AcceptedJob]
    BY <1>0, <1>9 DEF Accept, WorkersOK
  <2>2. late' \in [Worker -> Nat]
    BY <1>0, <1>9 DEF Accept, WorkersOK
  <2>3. wpc' \in [Worker -> WorkerControl]
    BY <1>4, <1>9 DEF Accept, WorkerControl
  <2> QED BY <1>0, <1>9, <2>1, <2>2, <2>3 DEF Accept, WorkersOK
<1>10. ASSUME AcceptPriority(w) \/ AcceptNormal(w), UNCHANGED disk
       PROVE  ChannelsOK' /\ WorkersOK'
  <2>1. CASE AcceptPriority(w)
    <3>1. Head(priorityRequests) \in AcceptedJob /\ Tail(priorityRequests) \in Seq(AcceptedJob)
      BY <1>0, <2>1, Queues DEF AcceptPriority, ChannelsOK
    <3>2. WorkersOK'
      BY <1>9, <1>10, <2>1, <3>1 DEF AcceptPriority
    <3> QED BY <1>0, <2>1, <3>1, <3>2 DEF AcceptPriority, ChannelsOK
  <2>2. CASE AcceptNormal(w)
    <3>1. Head(requests) \in AcceptedJob /\ Tail(requests) \in Seq(AcceptedJob)
      BY <1>0, <2>2, Queues DEF AcceptNormal, ChannelsOK
    <3>2. WorkersOK'
      BY <1>9, <1>10, <2>2, <3>1 DEF AcceptNormal
    <3> QED BY <1>0, <2>2, <3>1, <3>2 DEF AcceptNormal, ChannelsOK
  <2> QED BY <1>10, <2>1, <2>2
<1>11. CASE PollPriority(w)
  <2>1. CASE AcceptPriority(w)
    BY <1>10, <1>11, <2>1 DEF PollPriority
  <2>2. CASE ~AcceptPriority(w)
    <3>1. \E to \in {"stopped", "select"} : Goto(w, to)
      BY <1>11, <2>2 DEF PollPriority, Leave
    <3>2. KeepWork /\ KeepChannels /\ UNCHANGED disk
      BY <1>11, <2>2 DEF PollPriority
    <3> QED BY <1>7, <3>1, <3>2 DEF WorkerControl
  <2> QED BY <2>1, <2>2
<1>12. CASE Select(w)
  <2>1. CASE AcceptPriority(w) \/ AcceptNormal(w)
    BY <1>10, <1>12, <2>1 DEF Select
  <2>2. CASE ~(AcceptPriority(w) \/ AcceptNormal(w))
    BY <1>7, <1>12, <2>2 DEF Select, Leave, WorkerControl
  <2> QED BY <2>1, <2>2
<1>13. ASSUME NEW j \in AcceptedJob, job' = [job EXCEPT ![w] = j],
              NEW to \in WorkerControl, Goto(w, to), KeepChannels,
              NEW fs \in SUBSET Path, installs' \in {installs, [installs EXCEPT ![w] = fs]},
              late' = late, disk' \subseteq Path
       PROVE  ChannelsOK' /\ WorkersOK'
  <2>1. ChannelsOK'
    BY <1>0, <1>13 DEF KeepChannels, ChannelsOK
  <2>2. wpc' \in [Worker -> WorkerControl]
    BY <1>4, <1>13
  <2> QED BY <1>0, <1>13, <2>1, <2>2 DEF WorkersOK
<1>14. disk \subseteq Path /\ {} \in SUBSET Path /\ job = [job EXCEPT ![w] = job[w]]
       /\ "status" \in WorkerControl /\ "build" \in WorkerControl
  BY <1>0 DEF WorkersOK, WorkerControl
<1>15. CASE SkipIgnored(w)
  <2>1. job' = [job EXCEPT ![w] = [job[w] EXCEPT !.flags = job[w].flags \cup {"Ignored"}]]
    BY <1>15 DEF SkipIgnored
  <2>2. job[w].flags \cup {"Ignored"} \in SUBSET JobFlags
    BY <1>3 DEF JobFlags
  <2>3. [job[w] EXCEPT !.flags = job[w].flags \cup {"Ignored"}] \in AcceptedJob
    BY <1>6, <2>2
  <2> QED BY <1>13, <1>14, <1>15, <2>1, <2>3 DEF SkipIgnored
<1>16. CASE UseCached(w)
  <2>1. PICK b \in SUBSET Path : \/ job' = [job EXCEPT ![w] = [job[w] EXCEPT !.built = b]]
                                 \/ job' = job
    <3>1. RPMsOf(graph[job[w].graph], attr, attr[job[w].node].srpm) \in SUBSET Path
      BY <1>3, DependencyFiles
    <3> QED BY <1>16, <3>1 DEF UseCached
  <2>2. [job[w] EXCEPT !.built = b] \in AcceptedJob
    BY <1>6
  <2>3. PICK j \in AcceptedJob : job' = [job EXCEPT ![w] = j]
    BY <1>3, <1>14, <2>1, <2>2
  <2> QED BY <1>13, <1>14, <1>16, <2>3 DEF UseCached
<1>17. CASE StartBuild(w)
  <2>1. BuildDependencies(graph[job[w].graph], job[w].node) \in SUBSET Path
    BY <1>3, DependencyFiles
  <2> QED BY <1>3, <1>13, <1>14, <1>17, <2>1 DEF StartBuild
<1>18. CASE BuildSRPMFile(w)
  <2> DEFINE files == {<<r, "out">> : r \in RpmsBuiltBy[attr[job[w].node].srpm]}
  <2>1. files \in SUBSET Path
    <3>1. attr[job[w].node].srpm \in SRPM
      BY <1>0, <1>3, <1>18 DEF BuildSRPMFile, TypeOf, GraphsOK
    <3>2. RpmsBuiltBy[attr[job[w].node].srpm] \in SUBSET RPM
      BY <1>0, <3>1, InputTypes DEF GraphsOK
    <3> QED BY <3>2 DEF Path
  <2>2. job[w].flags \cup {"Err"} \in SUBSET JobFlags
    BY <1>3 DEF JobFlags
  <2>3. \/ job' = [job EXCEPT ![w] = [job[w] EXCEPT !.built = files]] /\ disk' = disk \cup files
        \/ job' = [job EXCEPT ![w] = [job[w] EXCEPT !.flags = job[w].flags \cup {"Err"}]]
           /\ disk' = disk
    BY <1>18 DEF BuildSRPMFile
  <2> HIDE DEF files
  <2>4. PICK j \in AcceptedJob : job' = [job EXCEPT ![w] = j]
    BY <1>6, <2>1, <2>2, <2>3
  <2>5. disk' \subseteq Path
    BY <1>14, <2>1, <2>3
  <2> QED BY <1>13, <1>14, <1>18, <2>4, <2>5 DEF BuildSRPMFile
<1>19. CASE TestSRPMFile(w)
  <2>1. PICK outcome \in SUBSET {"Err", "CheckFailed"} :
           job' = [job EXCEPT ![w] = [job[w] EXCEPT !.flags = job[w].flags \cup outcome]]
    BY <1>19 DEF TestSRPMFile
  <2>2. job[w].flags \cup outcome \in SUBSET JobFlags
    BY <1>3 DEF JobFlags
  <2>3. [job[w] EXCEPT !.flags = job[w].flags \cup outcome] \in AcceptedJob
    BY <1>6, <2>2
  <2> QED BY <1>13, <1>14, <1>19, <2>1, <2>3 DEF TestSRPMFile
<1>20. CASE PublishResult(w)
  <2>1. ChannelsOK'
    <3>1. results' = Append(results, job[w]) /\ UNCHANGED <<requests, priorityRequests, closed>>
      BY <1>20 DEF PublishResult
    <3> QED BY <1>0, <1>3, <3>1, Queues DEF ChannelsOK
  <2>2. job' \in [Worker -> AcceptedJob]
    BY <1>0, <1>5, <1>20 DEF PublishResult, WorkersOK
  <2>3. wpc' \in [Worker -> WorkerControl]
    BY <1>4, <1>20 DEF PublishResult, WorkerControl
  <2> QED BY <1>0, <1>20, <2>1, <2>2, <2>3 DEF PublishResult, WorkersOK
<1> HIDE DEF stateVars, chanVars, schedVars
<1> QED
  BY <1>8, <1>11, <1>12, <1>15, <1>16, <1>17, <1>18, <1>19, <1>20, Zenon DEF WorkerStep

\* Every step keeps the types.
LEMMA TypeStep == TypeInv /\ [Next]_vars => TypeInv' /\ KeepsNodes
<1> SUFFICES ASSUME TypeInv, [Next]_vars PROVE TypeInv' /\ KeepsNodes
  OBVIOUS
<1>1. GraphsOK' /\ KeepsNodes /\ input' = input
  BY GraphsStep, GraphCases
<1>2. CASE UNCHANGED vars
  BY <1>1, <1>2, Stutters DEF vars, schedVars, stateVars, chanVars, workerVars, TypeInv
<1>3. CASE SchedulerStep
  BY <1>1, <1>3, SubmitTypes, ResultTypes, ShutdownTypes, Zenon DEF SchedulerStep, TypeInv
<1>4. CASE \E w \in Worker : WorkerStep(w)
  BY <1>1, <1>4, WorkerTypes, Zenon DEF TypeInv
<1> QED BY <1>2, <1>3, <1>4 DEF Next, Finished

\* The buffers keep the size they are made with.
LEMMA BuffersStay == [Next]_vars => channelBufferSize' = channelBufferSize
<1> SUFFICES ASSUME [Next]_vars PROVE channelBufferSize' = channelBufferSize
  OBVIOUS
<1> USE DEF chanVars
<1>1. CASE UNCHANGED vars
  BY <1>1 DEF vars
<1>2. CASE StartAtLeaves \/ ConvertNodesToRequests \/ ConvertPanics \/ SubmitRequest
           \/ EnableCachedImplicit \/ CouldNotBuildAll \/ LicenseCheckerFails
  BY <1>2 DEF StartAtLeaves, ConvertNodesToRequests, ConvertPanics, SubmitRequest,
              EnableCachedImplicit, CouldNotBuildAll, LicenseCheckerFails
<1>3. CASE ReceiveResult \/ SetAssociatedDeltaPaths \/ InjectProvide \/ FinishFile
           \/ FinishInject \/ BreakCycle \/ NoMoreCycles \/ Optimize
  BY <1>3 DEF ReceiveResult, SetAssociatedDeltaPaths, InjectProvide, FinishFile,
              FinishInject, BreakCycle, NoMoreCycles, Optimize
<1>4. CASE Advance \/ StopBuild \/ DoneBuild \/ CloseRequests \/ ClosePriority
           \/ DrainPriority \/ DrainRequests
  BY <1>4 DEF Advance, StopBuild, DoneBuild, CloseRequests, ClosePriority, CloseChannel,
              DrainPriority, DrainRequests
<1>5. ASSUME NEW w \in Worker, WorkerStep(w) PROVE channelBufferSize' = channelBufferSize
  BY <1>5 DEF WorkerStep, PollCancel, PollPriority, Select, AcceptPriority, AcceptNormal,
              PassThrough, SkipIgnored, UseCached, StartBuild, BuildSRPMFile, TestSRPMFile,
              SetAncillaryBuildNodesStatus, PublishResult, KeepChannels
<1> QED BY <1>1, <1>2, <1>3, <1>4, <1>5 DEF Next, SchedulerStep, Finished

\* The prepared graph is finite, and so are the buffers made for it.
LEMMA BuffersMade ==
  ASSUME Init
  PROVE  channelBufferSize = Cardinality(graph[0].nodes) /\ channelBufferSize \in Nat
<1>1. channelBufferSize = Cardinality(graph[0].nodes)
  BY DEF Init, NumberOfNodes
<1>2. graph[0].nodes \subseteq Node
  BY InitInv, GraphFields DEF TypeInv, GraphsOK
<1>3. Cardinality(graph[0].nodes) \in Nat
  BY <1>2, SchedulerAssumption, FS_Subset, FS_CardinalityType
<1> QED BY <1>1, <1>3

\* The variables keep their types, and no request asks for more freshness than
\* RecordBuildResult accepts.
THEOREM TypeCorrect == Spec => []TypeOK
<1>1. TypeInv /\ channelBufferSize \in Nat => TypeOK
  <2> SUFFICES ASSUME TypeInv, channelBufferSize \in Nat PROVE TypeOK
    OBVIOUS
  <2>1. AcceptedJob \subseteq Job
    BY DEF AcceptedJob
  <2>2. Seq(AcceptedJob) \subseteq Seq(Job)
    BY <2>1
  <2>3. \A r \in Active : r \in Job /\ r.freshness <= MaxFreshness
    BY DEF TypeInv, StateOK, AcceptedJob
  <2>4. job \in [Worker -> Job]
    BY <2>1 DEF TypeInv, WorkersOK
  <2>5. result \in Job
    BY <2>1 DEF TypeInv, LoopOK
  <2> HIDE DEF AcceptedJob
  <2> QED BY <2>2, <2>3, <2>4, <2>5 DEF TypeInv, GraphsOK, LoopOK, StateOK, ChannelsOK,
                                        WorkersOK, TypeOK
<1>2. Init => TypeInv /\ channelBufferSize \in Nat
  BY InitInv, BuffersMade
<1>3. (TypeInv /\ channelBufferSize \in Nat) /\ [Next]_vars
        => (TypeInv /\ channelBufferSize \in Nat)'
  BY TypeStep, BuffersStay
<1> QED BY <1>1, <1>2, <1>3, PTL DEF Spec

\* RecordBuildResult never refuses a result for its freshness, which would stop
\* the whole build: no request asks for more than maxCascadingRebuilds.
THEOREM ResultsAreAccepted == Spec => []("recording" \notin err)
<1>1. TypeInv => "recording" \notin err
  BY DEF TypeInv, LoopOK
<1> QED BY InitInv, TypeStep, <1>1, PTL DEF Spec
-----------------------------------------------------------------------------
(* The build state goes by what is outstanding.                            *)

\* What is in a queue when its first element is taken or one is added.
LEMMA JobsOfQueue ==
  ASSUME NEW S, NEW q \in Seq(S)
  PROVE  /\ q # <<>> => JobsIn(q) = {Head(q)} \cup JobsIn(Tail(q))
         /\ \A j \in S : JobsIn(Append(q, j)) = JobsIn(q) \cup {j}
<1>1. ASSUME q # <<>>
      PROVE  JobsIn(q) = {Head(q)} \cup JobsIn(Tail(q))
  <2>1. /\ Len(q) \in Nat \ {0} /\ Head(q) = q[1] /\ DOMAIN q = 1..Len(q)
        /\ DOMAIN Tail(q) = 1..(Len(q) - 1)
        /\ \A i \in 1..(Len(q) - 1) : Tail(q)[i] = q[i + 1]
    BY <1>1
  <2>2. ASSUME NEW x \in JobsIn(q) PROVE x \in {Head(q)} \cup JobsIn(Tail(q))
    <3>1. PICK i \in 1..Len(q) : x = q[i]
      BY <2>1 DEF JobsIn
    <3>2. CASE i = 1
      BY <2>1, <3>1, <3>2
    <3>3. CASE i # 1
      <4>1. i - 1 \in 1..(Len(q) - 1) /\ q[i] = Tail(q)[i - 1]
        BY <2>1, <3>1, <3>3
      <4> QED BY <2>1, <3>1, <4>1 DEF JobsIn
    <3> QED BY <3>2, <3>3
  <2>3. ASSUME NEW x \in {Head(q)} \cup JobsIn(Tail(q)) PROVE x \in JobsIn(q)
    <3>1. CASE x = Head(q)
      BY <2>1, <3>1 DEF JobsIn
    <3>2. CASE x \in JobsIn(Tail(q))
      <4>1. PICK i \in 1..(Len(q) - 1) : x = Tail(q)[i]
        BY <2>1, <3>2 DEF JobsIn
      <4>2. i + 1 \in 1..Len(q) /\ x = q[i + 1]
        BY <2>1, <4>1
      <4> QED BY <2>1, <4>2 DEF JobsIn
    <3> QED BY <3>1, <3>2
  <2> QED BY <2>2, <2>3
<1>2. ASSUME NEW j \in S PROVE JobsIn(Append(q, j)) = JobsIn(q) \cup {j}
  <2>1. /\ Len(q) \in Nat /\ DOMAIN q = 1..Len(q)
        /\ DOMAIN Append(q, j) = 1..(Len(q) + 1)
        /\ \A i \in 1..Len(q) : Append(q, j)[i] = q[i]
        /\ Append(q, j)[Len(q) + 1] = j
    OBVIOUS
  <2>2. 1..(Len(q) + 1) = 1..Len(q) \cup {Len(q) + 1}
    BY <2>1
  <2> QED BY <2>1, <2>2 DEF JobsIn
<1> QED BY <1>1, <1>2

\* The steps that work on a request keep it, and what it is for.
LEMMA WorkSteps ==
  ASSUME TypeInv, NEW w \in Worker,
         \/ PassThrough(w) \/ SkipIgnored(w) \/ UseCached(w) \/ StartBuild(w)
         \/ BuildSRPMFile(w) \/ TestSRPMFile(w) \/ SetAncillaryBuildNodesStatus(w)
  PROVE  KeepChannels /\ Busy' = Busy /\ \A v \in Worker : job'[v].node = job[v].node
<1>0. job \in [Worker -> AcceptedJob] /\ wpc \in [Worker -> WorkerControl]
  BY DEF TypeInv, WorkersOK
<1>1. KeepChannels /\ wpc[w] \in {"work", "build", "status", "publish"}
  BY DEF PassThrough, SkipIgnored, UseCached, StartBuild, BuildSRPMFile,
         TestSRPMFile, SetAncillaryBuildNodesStatus, WorkerAt
<1>2. \E to \in {"work", "build", "status", "publish"} : Goto(w, to)
  BY DEF PassThrough, SkipIgnored, UseCached, StartBuild, BuildSRPMFile,
         TestSRPMFile, SetAncillaryBuildNodesStatus
<1>3. ASSUME NEW v \in Worker PROVE job'[v].node = job[v].node
  <2>1. job[v] \in Job /\ job[w] \in Job
    BY <1>0 DEF AcceptedJob
  <2>2. \/ job' = job
        \/ \E x : job' = [job EXCEPT ![w] = [job[w] EXCEPT !.flags = x]]
        \/ \E x : job' = [job EXCEPT ![w] = [job[w] EXCEPT !.built = x]]
    BY DEF PassThrough, SkipIgnored, UseCached, StartBuild, BuildSRPMFile,
           TestSRPMFile, SetAncillaryBuildNodesStatus, KeepWork
  <2> QED BY <1>0, <2>1, <2>2 DEF Job
<1>4. Busy' = Busy
  BY <1>0, <1>1, <1>2 DEF Goto, Busy
<1> QED BY <1>1, <1>3, <1>4

\* No step of a worker loses a request or a result, or makes one up.
LEMMA WorkerKeepsOutstanding ==
  ASSUME TypeInv, NEW w \in Worker, WorkerStep(w)
  PROVE  OutstandingNodes' = OutstandingNodes
<1> USE DEF chanVars
<1>0. ChannelsOK /\ WorkersOK /\ job \in [Worker -> AcceptedJob] /\ wpc \in [Worker -> WorkerControl]
  BY DEF TypeInv, WorkersOK
<1> DEFINE AtWork == {job[v].node : v \in Busy}
           Nodes(q) == {j.node : j \in JobsIn(q)}
<1>1. OutstandingNodes = Nodes(requests) \cup Nodes(priorityRequests) \cup Nodes(results) \cup AtWork
  BY DEF OutstandingNodes, Outstanding
<1>2. OutstandingNodes' = Nodes(requests') \cup Nodes(priorityRequests') \cup Nodes(results') \cup AtWork'
  BY DEF OutstandingNodes, Outstanding, JobsIn
<1>4. CASE \/ PassThrough(w) \/ SkipIgnored(w) \/ UseCached(w) \/ StartBuild(w)
           \/ BuildSRPMFile(w) \/ TestSRPMFile(w) \/ SetAncillaryBuildNodesStatus(w)
  <2>1. KeepChannels /\ Busy' = Busy /\ \A v \in Worker : job'[v].node = job[v].node
    BY <1>4, WorkSteps
  <2>2. AtWork' = AtWork
    BY <2>1 DEF Busy
  <2> QED BY <1>1, <1>2, <2>1, <2>2 DEF KeepChannels
<1>5. ASSUME wpc[w] \in {"pollPriority", "select"}, AcceptPriority(w) \/ AcceptNormal(w)
      PROVE  OutstandingNodes' = OutstandingNodes
  <2>1. PICK req : Accept(w, req) /\ req = IF AcceptPriority(w) THEN Head(priorityRequests)
                                           ELSE Head(requests)
    BY <1>5 DEF AcceptPriority, AcceptNormal
  <2>2. AtWork' = AtWork \cup {req.node}
    BY <1>0, <1>5, <2>1 DEF Accept, Goto, Busy
  <2>3. CASE AcceptPriority(w)
    <3>1. JobsIn(priorityRequests) = {Head(priorityRequests)} \cup JobsIn(Tail(priorityRequests))
      BY <1>0, <2>3, JobsOfQueue DEF AcceptPriority, ChannelsOK
    <3>2. /\ priorityRequests' = Tail(priorityRequests) /\ requests' = requests
          /\ results' = results /\ req = Head(priorityRequests)
      BY <2>1, <2>3 DEF AcceptPriority
    <3>3. Nodes(priorityRequests) = {req.node} \cup Nodes(priorityRequests')
      BY <3>1, <3>2
    <3> HIDE DEF AtWork, Nodes
    <3> QED BY <1>1, <1>2, <2>2, <3>2, <3>3
  <2>4. CASE ~AcceptPriority(w)
    <3>0. AcceptNormal(w)
      BY <1>5, <2>4
    <3>1. JobsIn(requests) = {Head(requests)} \cup JobsIn(Tail(requests))
      BY <1>0, <3>0, JobsOfQueue DEF AcceptNormal, ChannelsOK
    <3>2. /\ requests' = Tail(requests) /\ priorityRequests' = priorityRequests
          /\ results' = results /\ req = Head(requests)
      BY <2>1, <2>4, <3>0 DEF AcceptNormal
    <3>3. Nodes(requests) = {req.node} \cup Nodes(requests')
      BY <3>1, <3>2
    <3> HIDE DEF AtWork, Nodes
    <3> QED BY <1>1, <1>2, <2>2, <3>2, <3>3
  <2> QED BY <2>3, <2>4
<1>6. ASSUME wpc[w] \in {"poll", "pollPriority", "select"},
             NEW to \in {"pollPriority", "select", "stopped"}, Goto(w, to),
             KeepWork, KeepChannels
      PROVE  OutstandingNodes' = OutstandingNodes
  <2>1. Busy' = Busy /\ job' = job
    BY <1>0, <1>6 DEF Goto, Busy, KeepWork
  <2> QED BY <1>1, <1>2, <1>6, <2>1 DEF KeepChannels
<1>7. CASE PollCancel(w)
  BY <1>6, <1>7 DEF PollCancel, WorkerAt, Leave
<1>8. CASE PollPriority(w)
  BY <1>5, <1>6, <1>8 DEF PollPriority, WorkerAt, Leave
<1>9. CASE Select(w)
  BY <1>5, <1>6, <1>9 DEF Select, WorkerAt, Leave
<1>10. CASE PublishResult(w)
  <2>1. /\ results' = Append(results, job[w]) /\ UNCHANGED <<requests, priorityRequests>>
        /\ job' = [job EXCEPT ![w] = NoJob] /\ wpc' = [wpc EXCEPT ![w] = "poll"]
        /\ wpc[w] = "publish"
    BY <1>10 DEF PublishResult, Goto, WorkerAt
  <2>2. AtWork = AtWork' \cup {job[w].node}
    BY <1>0, <2>1 DEF Busy
  <2>3. JobsIn(results') = JobsIn(results) \cup {job[w]}
    BY <1>0, <2>1, JobsOfQueue DEF ChannelsOK
  <2>4. Nodes(results') = Nodes(results) \cup {job[w].node}
    BY <2>3
  <2> HIDE DEF AtWork, Nodes
  <2> QED BY <1>1, <1>2, <2>1, <2>2, <2>4
<1> QED BY <1>4, <1>7, <1>8, <1>9, <1>10 DEF WorkerStep

\* A step that leaves the requests and the results where they are.
Quiet ==
    /\ UNCHANGED <<activeBuilds, requests, priorityRequests, results, wpc, job, result>>
    /\ newRequests' = newRequests \/ ConvertNodesToRequests
    /\ "licenseChecker" \in err' => "licenseChecker" \in err
    /\ pc \in {"doneBuild"} \cup Closing =>
          pc' \in {"doneBuild"} \cup Closing /\ err \subseteq err'

\* Which steps move a request or a result.
LEMMA MovingSteps ==
  ASSUME [Next]_vars
  PROVE  \/ Quiet \/ SubmitRequest \/ LicenseCheckerFails \/ ReceiveResult
         \/ DrainPriority \/ DrainRequests \/ \E w \in Worker : WorkerStep(w)
<1> USE DEF stateVars, chanVars, workerVars, Quiet, Closing
<1>1. CASE UNCHANGED vars
  BY <1>1 DEF vars, schedVars
<1>2. CASE StartAtLeaves
  BY <1>2 DEF StartAtLeaves
<1>3. CASE ConvertNodesToRequests
  BY <1>3 DEF ConvertNodesToRequests
<1>4. CASE ConvertPanics
  BY <1>4 DEF ConvertPanics
<1>5. CASE EnableCachedImplicit
  BY <1>5 DEF EnableCachedImplicit, NothingOutstanding
<1>6. CASE CouldNotBuildAll
  BY <1>6 DEF CouldNotBuildAll, NothingOutstanding
<1>7. CASE SetAssociatedDeltaPaths
  BY <1>7 DEF SetAssociatedDeltaPaths
<1>8. CASE InjectProvide
  BY <1>8 DEF InjectProvide, GraphFails
<1>9. CASE FinishFile
  BY <1>9 DEF FinishFile, GraphFails
<1>10. CASE FinishInject
  BY <1>10 DEF FinishInject
<1>11. CASE BreakCycle
  BY <1>11 DEF BreakCycle, GraphFails
<1>12. CASE NoMoreCycles
  BY <1>12 DEF NoMoreCycles
<1>13. CASE Optimize
  BY <1>13 DEF Optimize
<1>14. CASE Advance
  BY <1>14 DEF Advance
<1>15. CASE StopBuild \/ DoneBuild \/ CloseRequests \/ ClosePriority
  BY <1>15 DEF StopBuild, DoneBuild, CloseRequests, ClosePriority, CloseChannel
<1> HIDE DEF stateVars, chanVars, workerVars, Quiet
<1>16. CASE SchedulerStep
  BY <1>2, <1>3, <1>4, <1>5, <1>6, <1>7, <1>8, <1>9, <1>10, <1>11, <1>12, <1>13, <1>14,
     <1>15, <1>16, Zenon DEF SchedulerStep
<1>17. CASE Finished
  BY <1>1, <1>17, Zenon DEF Finished
<1> QED BY <1>1, <1>16, <1>17, Zenon DEF Next

\* A request or result that is taken out of a queue is no longer outstanding.
Taken(j) ==
    /\ j \in Outstanding
    /\ Outstanding = Outstanding' \cup {j}
    /\ activeBuilds' = WithoutActive(attr[j.node].id)
    /\ attr' = attr

\* The scheduler takes the first of a queue.
LEMMA TakingSteps ==
  ASSUME TypeInv
  PROVE  /\ ReceiveResult => results # <<>> /\ Taken(Head(results))
         /\ LicenseCheckerFails => /\ results # <<>> /\ attr' = attr
                                   /\ Outstanding = Outstanding' \cup {Head(results)}
         /\ DrainPriority => \/ priorityRequests # <<>> /\ Taken(Head(priorityRequests))
                             \/ UNCHANGED <<attr, activeBuilds, priorityRequests>>
         /\ DrainRequests => \/ requests # <<>> /\ Taken(Head(requests))
                             \/ UNCHANGED <<attr, activeBuilds, requests>>
<1> USE DEF workerVars
<1>0. ChannelsOK
  BY DEF TypeInv
<1>1. ASSUME ReceiveResult \/ LicenseCheckerFails
      PROVE  results # <<>> /\ attr' = attr /\ Outstanding = Outstanding' \cup {Head(results)}
             /\ Head(results) \in Outstanding
  <2>1. /\ results # <<>> /\ attr' = attr /\ results' = Tail(results)
        /\ UNCHANGED <<requests, priorityRequests, wpc, job>>
    BY <1>1 DEF ReceiveResult, LicenseCheckerFails
  <2>2. JobsIn(results) = {Head(results)} \cup JobsIn(results')
    BY <1>0, <2>1, JobsOfQueue DEF ChannelsOK
  <2>3. JobsIn(requests)' = JobsIn(requests) /\ JobsIn(priorityRequests)' = JobsIn(priorityRequests)
        /\ JobsIn(results)' = JobsIn(results') /\ Busy' = Busy /\ job' = job
    BY <2>1 DEF JobsIn, Busy
  <2> QED BY <2>1, <2>2, <2>3 DEF Outstanding
<1>2. ASSUME ReceiveResult PROVE activeBuilds' = WithoutActive(attr[Head(results).node].id)
  BY <1>2 DEF ReceiveResult, RecordBuildResult
<1>3. ASSUME DrainPriority, priorityRequests # <<>>
      PROVE  Taken(Head(priorityRequests))
  <2>1. /\ attr' = attr /\ priorityRequests' = Tail(priorityRequests)
        /\ activeBuilds' = WithoutActive(attr[Head(priorityRequests).node].id)
        /\ UNCHANGED <<requests, results, wpc, job>>
    BY <1>3 DEF DrainPriority
  <2>2. JobsIn(priorityRequests) = {Head(priorityRequests)} \cup JobsIn(priorityRequests')
    BY <1>0, <1>3, <2>1, JobsOfQueue DEF ChannelsOK
  <2>3. JobsIn(requests)' = JobsIn(requests) /\ JobsIn(results)' = JobsIn(results)
        /\ JobsIn(priorityRequests)' = JobsIn(priorityRequests') /\ Busy' = Busy /\ job' = job
    BY <2>1 DEF JobsIn, Busy
  <2> QED BY <2>1, <2>2, <2>3 DEF Outstanding, Taken
<1>4. ASSUME DrainRequests, requests # <<>>
      PROVE  Taken(Head(requests))
  <2>1. /\ attr' = attr /\ requests' = Tail(requests)
        /\ activeBuilds' = WithoutActive(attr[Head(requests).node].id)
        /\ UNCHANGED <<priorityRequests, results, wpc, job>>
    BY <1>4 DEF DrainRequests
  <2>2. JobsIn(requests) = {Head(requests)} \cup JobsIn(requests')
    BY <1>0, <1>4, <2>1, JobsOfQueue DEF ChannelsOK
  <2>3. JobsIn(priorityRequests)' = JobsIn(priorityRequests) /\ JobsIn(results)' = JobsIn(results)
        /\ JobsIn(requests)' = JobsIn(requests') /\ Busy' = Busy /\ job' = job
    BY <2>1 DEF JobsIn, Busy
  <2> QED BY <2>1, <2>2, <2>3 DEF Outstanding, Taken
<1>5. ASSUME DrainPriority, priorityRequests = <<>>
      PROVE  UNCHANGED <<attr, activeBuilds, priorityRequests>>
  BY <1>5 DEF DrainPriority
<1>6. ASSUME DrainRequests, requests = <<>>
      PROVE  UNCHANGED <<attr, activeBuilds, requests>>
  BY <1>6 DEF DrainRequests
<1> QED BY <1>1, <1>2, <1>3, <1>4, <1>5, <1>6 DEF Taken

\* The build state goes by the IDs of the nodes, and has nothing else than what
\* is outstanding or was dropped.
LEMMA ActiveStep ==
  ASSUME TypeInv, ActiveInv, [Next]_vars
  PROVE  ActiveInv'
<1> DEFINE Known(i) == \/ \E j \in Outstanding : j.node = activeBuilds[i].node
                       \/ "licenseChecker" \in err /\ activeBuilds[i].node = result.node
<1>0. /\ \A i \in DOMAIN activeBuilds : attr[activeBuilds[i].node].id = i
      /\ \A i \in DOMAIN activeBuilds : Known(i)
      /\ "licenseChecker" \in err => pc \in {"doneBuild"} \cup Closing
  BY DEF ActiveInv
<1>1. \A i \in DOMAIN activeBuilds : activeBuilds[i].node \in Node \cap Requested
  BY DEF TypeInv, StateOK, Active, AcceptedJob, Job, Requested
<1>2. KeepsNodes
  BY TypeStep
<1>3. \A i \in DOMAIN activeBuilds : attr'[activeBuilds[i].node].id = i
  BY <1>0, <1>1, <1>2 DEF KeepsNodes
<1>4. ASSUME UNCHANGED activeBuilds, OutstandingNodes' = OutstandingNodes, result' = result,
             "licenseChecker" \in err' <=> "licenseChecker" \in err,
             pc \in {"doneBuild"} \cup Closing => pc' \in {"doneBuild"} \cup Closing
      PROVE  ActiveInv'
  <2>1. ASSUME NEW i \in DOMAIN activeBuilds PROVE Known(i)'
    <3>1. Known(i) <=> \/ activeBuilds[i].node \in OutstandingNodes
                       \/ "licenseChecker" \in err /\ activeBuilds[i].node = result.node
      BY DEF OutstandingNodes
    <3>2. Known(i)' <=> \/ activeBuilds'[i].node \in OutstandingNodes'
                        \/ "licenseChecker" \in err' /\ activeBuilds'[i].node = result'.node
      BY DEF OutstandingNodes
    <3> QED BY <1>0, <1>4, <2>1, <3>1, <3>2
  <2> QED BY <1>0, <1>3, <1>4, <2>1 DEF ActiveInv
<1>5. CASE Quiet
  <2>1. OutstandingNodes' = OutstandingNodes
    BY <1>5 DEF Quiet, OutstandingNodes, Outstanding, JobsIn, Busy
  <2>2. "licenseChecker" \in err' <=> "licenseChecker" \in err
    BY <1>0, <1>5 DEF Quiet
  <2> QED BY <1>4, <1>5, <2>1, <2>2 DEF Quiet
<1>6. CASE \E w \in Worker : WorkerStep(w)
  <2>1. PICK w \in Worker : WorkerStep(w)
    BY <1>6
  <2>2. KeepScheduler
    BY <2>1, WorkerKeepsScheduler
  <2>3. UNCHANGED <<activeBuilds, result, err, pc>>
    BY <2>2 DEF KeepScheduler, schedVars, stateVars
  <2>4. OutstandingNodes' = OutstandingNodes
    BY <2>1, WorkerKeepsOutstanding
  <2> QED BY <1>4, <2>3, <2>4
<1>7. CASE SubmitRequest
  <2> DEFINE req == Head(newRequests)
             id == attr[req.node].id
  <2>1. /\ activeBuilds' = [i \in DOMAIN activeBuilds \cup {id} |->
                              IF i = id THEN req ELSE activeBuilds[i]]
        /\ attr' = attr /\ err' = err /\ pc = "submit" /\ pc' = pc
        /\ newRequests # <<>>
        /\ \/ /\ priorityRequests' = Append(priorityRequests, req) /\ requests' = requests
           \/ /\ requests' = Append(requests, req) /\ priorityRequests' = priorityRequests
        /\ UNCHANGED <<results, wpc, job>>
    BY <1>7 DEF SubmitRequest, workerVars
  <2>2. req \in AcceptedJob /\ ChannelsOK
    BY <2>1, Queues DEF TypeInv, LoopOK
  <2> HIDE DEF req
  <2>3. Outstanding' = Outstanding \cup {req}
    <3>1. /\ JobsIn(Append(requests, req)) = JobsIn(requests) \cup {req}
          /\ JobsIn(Append(priorityRequests, req)) = JobsIn(priorityRequests) \cup {req}
      BY <2>2, JobsOfQueue DEF ChannelsOK
    <3>2. /\ Busy' = Busy /\ job' = job /\ JobsIn(results)' = JobsIn(results)
          /\ JobsIn(requests)' = JobsIn(requests')
          /\ JobsIn(priorityRequests)' = JobsIn(priorityRequests')
      BY <2>1 DEF Busy, JobsIn
    <3> QED BY <2>1, <3>1, <3>2 DEF Outstanding
  <2>4. "licenseChecker" \notin err
    BY <1>0, <2>1 DEF Closing
  <2>5. ASSUME NEW i \in DOMAIN activeBuilds'
        PROVE  attr'[activeBuilds'[i].node].id = i
               /\ \E j \in Outstanding' : j.node = activeBuilds'[i].node
    <3>1. CASE i = id
      BY <2>1, <2>3, <3>1
    <3>2. CASE i # id
      <4>1. i \in DOMAIN activeBuilds /\ activeBuilds'[i] = activeBuilds[i]
        BY <2>1, <3>2
      <4> QED BY <1>0, <2>1, <2>3, <2>4, <4>1
    <3> QED BY <3>1, <3>2
  <2> QED BY <2>1, <2>4, <2>5 DEF ActiveInv
<1>8. ASSUME NEW j, Taken(j), result' = result \/ "licenseChecker" \notin err,
             "licenseChecker" \in err' <=> "licenseChecker" \in err,
             pc \in {"doneBuild"} \cup Closing => pc' \in {"doneBuild"} \cup Closing
      PROVE  ActiveInv'
  <2>1. /\ DOMAIN activeBuilds' = DOMAIN activeBuilds \ {attr[j.node].id}
        /\ \A i \in DOMAIN activeBuilds' : activeBuilds'[i] = activeBuilds[i]
    BY <1>8 DEF Taken, WithoutActive
  <2>2. ASSUME NEW i \in DOMAIN activeBuilds' PROVE Known(i)'
    <3>1. CASE \E k \in Outstanding : k.node = activeBuilds[i].node
      <4>1. PICK k \in Outstanding : k.node = activeBuilds[i].node
        BY <3>1
      <4>2. k # j
        BY <1>0, <2>1, <4>1
      <4>3. k \in Outstanding'
        BY <1>8, <4>2 DEF Taken
      <4> QED BY <2>1, <4>1, <4>3
    <3>2. CASE "licenseChecker" \in err /\ activeBuilds[i].node = result.node
      BY <1>8, <2>1, <3>2
    <3> QED BY <1>0, <2>1, <3>1, <3>2
  <2> QED BY <1>0, <1>3, <1>8, <2>1, <2>2 DEF ActiveInv
<1>9. CASE ReceiveResult
  <2>1. pc = "submit" /\ "licenseChecker" \notin err
    BY <1>0, <1>9 DEF ReceiveResult, Closing
  <2>2. "licenseChecker" \notin err'
    BY <1>9 DEF ReceiveResult, RecordBuildResult
  <2> QED BY <1>8, <1>9, <2>1, <2>2, TakingSteps DEF Closing
<1>10. CASE DrainPriority
  <2>1. /\ result' = result /\ err' = err /\ pc' \in {pc, "drainRequests"}
        /\ UNCHANGED <<requests, results, wpc, job>>
    BY <1>10 DEF DrainPriority, workerVars
  <2>2. CASE Taken(Head(priorityRequests))
    BY <1>8, <2>1, <2>2 DEF Closing
  <2>3. CASE UNCHANGED <<attr, activeBuilds, priorityRequests>>
    <3>1. OutstandingNodes' = OutstandingNodes
      BY <2>1, <2>3 DEF OutstandingNodes, Outstanding, JobsIn, Busy
    <3> QED BY <1>4, <2>1, <2>3, <3>1 DEF Closing
  <2> QED BY <1>10, <2>2, <2>3, TakingSteps
<1>11. CASE DrainRequests
  <2>1. /\ result' = result /\ err' \in {err, err \cup PostBuildErrors} /\ pc' \in {pc, "returned"}
        /\ UNCHANGED <<priorityRequests, results, wpc, job>>
    BY <1>11 DEF DrainRequests, workerVars
  <2>0. "licenseChecker" \in err' <=> "licenseChecker" \in err
    BY <2>1 DEF PostBuildErrors
  <2>2. CASE Taken(Head(requests))
    BY <1>8, <2>0, <2>1, <2>2 DEF Closing
  <2>3. CASE UNCHANGED <<attr, activeBuilds, requests>>
    <3>1. OutstandingNodes' = OutstandingNodes
      BY <2>1, <2>3 DEF OutstandingNodes, Outstanding, JobsIn, Busy
    <3> QED BY <1>4, <2>0, <2>1, <2>3, <3>1 DEF Closing
  <2> QED BY <1>11, <2>2, <2>3, TakingSteps
<1>12. CASE LicenseCheckerFails
  <2>1. /\ result' = Head(results) /\ err' = {"licenseChecker"} /\ pc' = "doneBuild"
        /\ activeBuilds' = activeBuilds /\ pc = "submit"
    BY <1>12 DEF LicenseCheckerFails, stateVars
  <2>2. "licenseChecker" \notin err
    BY <1>0, <2>1 DEF Closing
  <2>3. Outstanding = Outstanding' \cup {Head(results)}
    BY <1>12, TakingSteps
  <2>4. ASSUME NEW i \in DOMAIN activeBuilds PROVE Known(i)'
    BY <1>0, <2>1, <2>2, <2>3
  <2> QED BY <1>3, <2>1, <2>4 DEF ActiveInv
<1> QED BY <1>5, <1>6, <1>7, <1>9, <1>10, <1>11, <1>12, MovingSteps

\* When the scheduler returns, the build state has forgotten the requests that
\* drainChannels took back: what is left some worker had taken before, or is the
\* result that a failing license checker dropped.
THEOREM DrainIsComplete == Spec => []DrainSyncsActiveBuilds
<1>1. ActiveInv => DrainSyncsActiveBuilds
  BY DEF ActiveInv, DrainSyncsActiveBuilds, Active
<1>2. TypeInv /\ ActiveInv /\ [Next]_vars => TypeInv' /\ ActiveInv'
  BY TypeStep, ActiveStep
<1> QED BY InitInv, <1>1, <1>2, PTL DEF Spec
-----------------------------------------------------------------------------
(* One build of an SRPM at a time.                                         *)

\* A queue in which no SRPM is built twice stays one when its first element is
\* taken, or one is added that is not in it.
LEMMA DistinctQueue ==
  ASSUME NEW a, NEW S, NEW q \in Seq(S), Distinct(a, q)
  PROVE  /\ q # <<>> => /\ Distinct(a, Tail(q))
                        /\ \A j \in JobsIn(Tail(q)) : ~SameBuild(a, Head(q), j)
         /\ \A j \in S : (\A k \in JobsIn(q) : ~SameBuild(a, k, j)) => Distinct(a, Append(q, j))
<1>0. \A j, k : SameBuild(a, j, k) <=> SameBuild(a, k, j)
  BY DEF SameBuild
<1>1. ASSUME q # <<>>
      PROVE  Distinct(a, Tail(q)) /\ \A j \in JobsIn(Tail(q)) : ~SameBuild(a, Head(q), j)
  <2>1. /\ Len(q) \in Nat \ {0} /\ Head(q) = q[1] /\ DOMAIN q = 1..Len(q)
        /\ DOMAIN Tail(q) = 1..(Len(q) - 1)
        /\ \A i \in 1..(Len(q) - 1) : Tail(q)[i] = q[i + 1]
    BY <1>1
  <2>2. ASSUME NEW i \in DOMAIN Tail(q), NEW k \in DOMAIN Tail(q), SameBuild(a, Tail(q)[i], Tail(q)[k])
        PROVE  i = k
    <3>1. i + 1 \in DOMAIN q /\ k + 1 \in DOMAIN q /\ SameBuild(a, q[i + 1], q[k + 1])
      BY <2>1, <2>2
    <3>2. i + 1 = k + 1
      BY <3>1 DEF Distinct
    <3> QED BY <2>1, <3>2
  <2>3. ASSUME NEW j \in JobsIn(Tail(q)), SameBuild(a, Head(q), j) PROVE FALSE
    <3>1. PICK i \in 1..(Len(q) - 1) : j = q[i + 1]
      BY <2>1 DEF JobsIn
    <3>2. 1 \in DOMAIN q /\ i + 1 \in DOMAIN q /\ i + 1 # 1 /\ SameBuild(a, q[1], q[i + 1])
      BY <2>1, <2>3, <3>1
    <3> QED BY <3>2 DEF Distinct
  <2> QED BY <2>2, <2>3 DEF Distinct
<1>2. ASSUME NEW j \in S, \A k \in JobsIn(q) : ~SameBuild(a, k, j)
      PROVE  Distinct(a, Append(q, j))
  <2>1. /\ Len(q) \in Nat /\ DOMAIN q = 1..Len(q)
        /\ DOMAIN Append(q, j) = 1..(Len(q) + 1)
        /\ \A i \in 1..Len(q) : Append(q, j)[i] = q[i]
        /\ Append(q, j)[Len(q) + 1] = j
    OBVIOUS
  <2>2. 1..(Len(q) + 1) = 1..Len(q) \cup {Len(q) + 1}
    BY <2>1
  <2>3. \A i \in 1..Len(q) : q[i] \in JobsIn(q)
    BY <2>1 DEF JobsIn
  <2> HIDE DEF SameBuild
  <2>4. ASSUME NEW i \in 1..(Len(q) + 1), NEW k \in 1..(Len(q) + 1),
               SameBuild(a, Append(q, j)[i], Append(q, j)[k])
        PROVE  i = k
    <3>1. CASE i \in 1..Len(q) /\ k \in 1..Len(q)
      BY <2>1, <2>4, <3>1 DEF Distinct
    <3>2. CASE i \in 1..Len(q) /\ k = Len(q) + 1
      BY <1>2, <2>1, <2>3, <2>4, <3>2
    <3>3. CASE i = Len(q) + 1 /\ k \in 1..Len(q)
      BY <1>0, <1>2, <2>1, <2>3, <2>4, <3>3
    <3> QED BY <2>2, <3>1, <3>2, <3>3
  <2> QED BY <2>1, <2>4 DEF Distinct
<1> QED BY <1>1, <1>2

\* The steps that leave every request and result where it is.
LEMMA BuildsStay ==
  ASSUME TypeInv, BuildsInv, KeepsNodes, TypeInv',
         UNCHANGED <<newRequests, requests, priorityRequests, results, activeBuilds>>,
         Busy' = Busy, \A w \in Busy : job'[w].node = job[w].node
  PROVE  BuildsInv'
<1> DEFINE N == {j.node : j \in JobsIn(newRequests) \cup Outstanding}
<1>1. \A m \in N : /\ attr'[m].type = attr[m].type
                   /\ attr'[m].srpm = attr[m].srpm
  <2>1. N \subseteq Requested
    BY DEF Requested
  <2>2. \A j \in JobsIn(newRequests) \cup Outstanding : j \in AcceptedJob
    BY DEF TypeInv, LoopOK, ChannelsOK, WorkersOK, Outstanding, JobsIn, Busy
  <2>3. N \subseteq Node
    BY <2>2 DEF AcceptedJob, Job
  <2> QED BY <2>1, <2>3 DEF KeepsNodes
<1>2. /\ \A w \in Busy : job[w].node \in N /\ job'[w].node \in N
      /\ \A j \in JobsIn(newRequests) : j.node \in N
      /\ \A j \in JobsIn(requests) : j.node \in N
      /\ \A j \in JobsIn(priorityRequests) : j.node \in N
      /\ \A j \in JobsIn(results) : j.node \in N
      /\ \A j \in Outstanding : j.node \in N
  BY DEF Outstanding
<1>3. OutstandingNodes' = OutstandingNodes
  <2>1. {job'[w].node : w \in Busy} = {job[w].node : w \in Busy}
    OBVIOUS
  <2> QED BY <2>1 DEF OutstandingNodes, Outstanding, JobsIn
<1>4. \A k \in Outstanding' : \E j \in Outstanding : j.node = k.node
  BY <1>3 DEF OutstandingNodes
<1> HIDE DEF N
<1>5. ASSUME NEW j, NEW k, NEW i, NEW l, i.node = j.node, l.node = k.node, i.node \in N, l.node \in N
      PROVE  (SameBuild(attr', j, k) <=> SameBuild(attr, i, l))
             /\ (IsBuild(attr', j) <=> IsBuild(attr, i))
  BY <1>1, <1>5 DEF SameBuild, IsBuild
<1>6. ASSUME NEW q, Distinct(attr, q), \A j \in JobsIn(q) : j.node \in N
      PROVE  Distinct(attr', q)
  <2>1. ASSUME NEW i \in DOMAIN q, NEW k \in DOMAIN q, SameBuild(attr', q[i], q[k]) PROVE i = k
    <3>1. q[i].node \in N /\ q[k].node \in N
      BY <1>6 DEF JobsIn
    <3>2. SameBuild(attr, q[i], q[k])
      BY <1>5, <2>1, <3>1
    <3> QED BY <1>6, <3>2 DEF Distinct
  <2> QED BY <2>1 DEF Distinct
<1>7. /\ Distinct(attr, newRequests)' /\ Distinct(attr, requests)' /\ Distinct(attr, results)'
  <2>1. /\ Distinct(attr', newRequests) /\ Distinct(attr', requests) /\ Distinct(attr', results)
    BY <1>2, <1>6 DEF BuildsInv, BuildsDistinct
  <2> QED BY <2>1
<1>8. \A v, w \in Busy' : SameBuild(attr', job'[v], job'[w]) => v = w
  <2>1. \A v, w \in Busy : SameBuild(attr', job'[v], job'[w]) => SameBuild(attr, job[v], job[w])
    BY <1>2, <1>5
  <2> QED BY <2>1 DEF BuildsInv, BuildsDistinct
<1>9. \A j \in JobsIn(newRequests), k \in Outstanding' : ~SameBuild(attr', j, k)
  <2>1. ASSUME NEW j \in JobsIn(newRequests), NEW k \in Outstanding' PROVE ~SameBuild(attr', j, k)
    <3>1. PICK l \in Outstanding : l.node = k.node
      BY <1>4
    <3>2. ~SameBuild(attr, j, l)
      BY DEF BuildsInv, BuildsDistinct
    <3> QED BY <1>2, <1>5, <3>1, <3>2
  <2> QED BY <2>1
<1>10. /\ \A j \in JobsIn(requests), k \in JobsIn(results) : ~SameBuild(attr', j, k)
       /\ \A j \in JobsIn(priorityRequests) : ~IsBuild(attr', j)
  BY <1>2, <1>5 DEF BuildsInv, BuildsDistinct
<1>11. \A j \in JobsIn(requests) \cup JobsIn(results), w \in Busy : ~SameBuild(attr', j, job'[w])
  <2>1. \A j \in JobsIn(requests) \cup JobsIn(results), w \in Busy : ~SameBuild(attr, j, job[w])
    BY DEF BuildsInv, BuildsDistinct
  <2> QED BY <1>2, <1>5, <2>1
<1>12. BuildsDistinct'
  <2>1. /\ JobsIn(newRequests)' = JobsIn(newRequests) /\ JobsIn(requests)' = JobsIn(requests)
        /\ JobsIn(results)' = JobsIn(results) /\ JobsIn(priorityRequests)' = JobsIn(priorityRequests)
    BY DEF JobsIn
  <2> QED BY <1>7, <1>8, <1>9, <1>10, <1>11, <2>1 DEF BuildsDistinct
<1>13. BuildsActive'
  <2>1. ASSUME NEW j \in Outstanding', IsBuild(attr', j)
        PROVE  \E i \in DOMAIN activeBuilds : activeBuilds[i].node = j.node
    <3>1. PICK l \in Outstanding : l.node = j.node
      BY <1>4
    <3>2. IsBuild(attr, l)
      BY <1>2, <1>5, <2>1, <3>1
    <3> QED BY <3>1, <3>2 DEF BuildsInv, BuildsActive
  <2> QED BY <2>1 DEF BuildsActive
<1> QED BY <1>12, <1>13 DEF BuildsInv

\* A request is submitted once, and recorded with an ID of its own.
LEMMA BuildsSubmit ==
  ASSUME TypeInv, ActiveInv, BuildsInv, NoReusedIDs, SubmitRequest
  PROVE  BuildsInv'
<1> DEFINE req == Head(newRequests)
           id == attr[req.node].id
<1>1. /\ activeBuilds' = [i \in DOMAIN activeBuilds \cup {id} |->
                            IF i = id THEN req ELSE activeBuilds[i]]
      /\ attr' = attr /\ newRequests # <<>> /\ newRequests' = Tail(newRequests)
      /\ \/ /\ priorityRequests' = Append(priorityRequests, req) /\ requests' = requests
            /\ ~IsBuild(attr, req)
         \/ /\ requests' = Append(requests, req) /\ priorityRequests' = priorityRequests
      /\ UNCHANGED <<results, wpc, job>>
  BY DEF SubmitRequest, workerVars, IsBuild
<1>2. req \in AcceptedJob /\ ChannelsOK /\ newRequests \in Seq(AcceptedJob)
  BY <1>1, Queues DEF TypeInv, LoopOK
<1>3. JobsIn(newRequests) = {req} \cup JobsIn(newRequests')
  BY <1>1, <1>2, JobsOfQueue
<1>4. /\ Distinct(attr, newRequests')
      /\ \A j \in JobsIn(newRequests') : ~SameBuild(attr, req, j)
  BY <1>1, <1>2, DistinctQueue DEF BuildsInv, BuildsDistinct
<1> HIDE DEF req
<1>5. \A k \in Outstanding : ~SameBuild(attr, req, k)
  BY <1>3 DEF BuildsInv, BuildsDistinct
<1>6. \A j, k : SameBuild(attr, j, k) <=> SameBuild(attr, k, j)
  BY DEF SameBuild
<1>7. /\ \/ JobsIn(requests') = JobsIn(requests) \cup {req}
         \/ JobsIn(requests') = JobsIn(requests) /\ ~IsBuild(attr, req)
      /\ \/ JobsIn(priorityRequests') = JobsIn(priorityRequests) \cup {req} /\ ~IsBuild(attr, req)
         \/ JobsIn(priorityRequests') = JobsIn(priorityRequests)
      /\ Outstanding' = Outstanding \cup {req}
      /\ JobsIn(results') = JobsIn(results) /\ Busy' = Busy
  <2>1. /\ JobsIn(Append(requests, req)) = JobsIn(requests) \cup {req}
        /\ JobsIn(Append(priorityRequests, req)) = JobsIn(priorityRequests) \cup {req}
    BY <1>2, JobsOfQueue DEF ChannelsOK
  <2>2. /\ Busy' = Busy /\ job' = job /\ JobsIn(results)' = JobsIn(results)
        /\ JobsIn(results') = JobsIn(results)
        /\ JobsIn(requests)' = JobsIn(requests')
        /\ JobsIn(priorityRequests)' = JobsIn(priorityRequests')
    BY <1>1 DEF Busy, JobsIn
  <2> QED BY <1>1, <2>1, <2>2 DEF Outstanding
<1>8. Distinct(attr, requests')
  <2>1. \A k \in JobsIn(requests) : ~SameBuild(attr, k, req)
    BY <1>5, <1>6 DEF Outstanding
  <2>2. Distinct(attr, requests)
    BY DEF BuildsInv, BuildsDistinct
  <2>3. Distinct(attr, Append(requests, req))
    BY <1>2, <2>1, <2>2, DistinctQueue DEF ChannelsOK
  <2> QED BY <1>1, <2>2, <2>3
<1>9. \A j \in JobsIn(newRequests'), k \in Outstanding' : ~SameBuild(attr, j, k)
  <2>1. \A j \in JobsIn(newRequests'), k \in Outstanding : ~SameBuild(attr, j, k)
    BY <1>3 DEF BuildsInv, BuildsDistinct
  <2> QED BY <1>4, <1>6, <1>7, <2>1
<1>10. \A j \in JobsIn(requests'), k \in JobsIn(results) : ~SameBuild(attr, j, k)
  <2>1. \A k \in JobsIn(results) : ~SameBuild(attr, req, k)
    BY <1>5 DEF Outstanding
  <2>2. \A j \in JobsIn(requests), k \in JobsIn(results) : ~SameBuild(attr, j, k)
    BY DEF BuildsInv, BuildsDistinct
  <2> QED BY <1>7, <2>1, <2>2
<1>11. \A j \in JobsIn(requests') \cup JobsIn(results), w \in Busy : ~SameBuild(attr, j, job[w])
  <2>1. \A w \in Busy : ~SameBuild(attr, req, job[w])
    BY <1>5 DEF Outstanding
  <2>2. \A j \in JobsIn(requests) \cup JobsIn(results), w \in Busy : ~SameBuild(attr, j, job[w])
    BY DEF BuildsInv, BuildsDistinct
  <2> QED BY <1>7, <2>1, <2>2
<1>12. \A j \in JobsIn(priorityRequests') : ~IsBuild(attr, j)
  BY <1>7 DEF BuildsInv, BuildsDistinct
<1>13. BuildsDistinct'
  <2>1. /\ JobsIn(newRequests)' = JobsIn(newRequests') /\ JobsIn(requests)' = JobsIn(requests')
        /\ JobsIn(results)' = JobsIn(results') /\ JobsIn(priorityRequests)' = JobsIn(priorityRequests')
    BY DEF JobsIn
  <2>2. Distinct(attr, results) /\ \A v, w \in Busy : SameBuild(attr, job[v], job[w]) => v = w
    BY DEF BuildsInv, BuildsDistinct
  <2> QED BY <1>1, <1>4, <1>7, <1>8, <1>9, <1>10, <1>11, <1>12, <2>1, <2>2 DEF BuildsDistinct
<1>14. BuildsActive'
  <2>1. ASSUME NEW j \in Outstanding', IsBuild(attr, j)
        PROVE  \E i \in DOMAIN activeBuilds' : activeBuilds'[i].node = j.node
    <3>1. CASE j = req
      BY <1>1, <3>1
    <3>2. CASE j # req
      <4>1. j \in Outstanding
        BY <1>7, <3>2
      <4>2. PICK i \in DOMAIN activeBuilds : activeBuilds[i].node = j.node
        BY <2>1, <4>1 DEF BuildsInv, BuildsActive
      <4>3. CASE i # id
        BY <1>1, <4>2, <4>3
      <4>4. CASE i = id
        <5>1. attr[j.node].id = attr[req.node].id
          BY <4>2, <4>4 DEF ActiveInv
        <5>2. req \in JobsIn(newRequests)
          BY <1>3
        <5>3. j.node = req.node
          BY <4>1, <5>1, <5>2 DEF NoReusedIDs
        <5> QED BY <1>1, <5>3
      <4> QED BY <4>3, <4>4
    <3> QED BY <3>1, <3>2
  <2> QED BY <1>1, <2>1 DEF BuildsActive
<1> QED BY <1>13, <1>14 DEF BuildsInv

\* What the scheduler takes back is not outstanding any more, and only its own
\* entry leaves the build state.
LEMMA BuildsTaken ==
  ASSUME TypeInv, ActiveInv, BuildsInv, NoReusedIDs,
         \/ ReceiveResult \/ LicenseCheckerFails
         \/ DrainPriority \/ DrainRequests
  PROVE  BuildsInv'
<1>0. ChannelsOK
  BY DEF TypeInv
<1>1. /\ attr' = attr /\ UNCHANGED <<newRequests, wpc, job>>
  BY DEF ReceiveResult, LicenseCheckerFails, DrainPriority, DrainRequests, workerVars
<1>2. \/ /\ results # <<>> /\ results' = Tail(results)
         /\ UNCHANGED <<requests, priorityRequests>>
         /\ activeBuilds' \in {activeBuilds, WithoutActive(attr[Head(results).node].id)}
      \/ /\ requests # <<>> /\ requests' = Tail(requests)
         /\ UNCHANGED <<results, priorityRequests>>
         /\ activeBuilds' = WithoutActive(attr[Head(requests).node].id)
      \/ /\ priorityRequests # <<>> /\ priorityRequests' = Tail(priorityRequests)
         /\ UNCHANGED <<requests, results>>
         /\ activeBuilds' = WithoutActive(attr[Head(priorityRequests).node].id)
      \/ UNCHANGED <<activeBuilds, requests, priorityRequests, results>>
  BY DEF ReceiveResult, RecordBuildResult, LicenseCheckerFails, DrainPriority, DrainRequests,
         stateVars
<1>3. Busy' = Busy
  BY <1>1 DEF Busy
<1>4. \A j, k : SameBuild(attr, j, k) <=> SameBuild(attr, k, j)
  BY DEF SameBuild
<1>5. ASSUME Outstanding' \subseteq Outstanding,
             JobsIn(requests') \subseteq JobsIn(requests),
             JobsIn(results') \subseteq JobsIn(results),
             JobsIn(priorityRequests') \subseteq JobsIn(priorityRequests),
             Distinct(attr, requests'), Distinct(attr, results')
      PROVE  BuildsDistinct'
  <2>1. /\ JobsIn(newRequests)' = JobsIn(newRequests) /\ JobsIn(requests)' = JobsIn(requests')
        /\ JobsIn(results)' = JobsIn(results') /\ JobsIn(priorityRequests)' = JobsIn(priorityRequests')
    BY <1>1 DEF JobsIn
  <2>2. BuildsDistinct
    BY DEF BuildsInv
  <2>3. Distinct(attr, newRequests) /\ \A v, w \in Busy : SameBuild(attr, job[v], job[w]) => v = w
    BY <2>2 DEF BuildsDistinct
  <2>4. \A j \in JobsIn(newRequests), k \in Outstanding' : ~SameBuild(attr, j, k)
    BY <1>5, <2>2 DEF BuildsDistinct
  <2>5. /\ \A j \in JobsIn(requests'), k \in JobsIn(results') : ~SameBuild(attr, j, k)
        /\ \A j \in JobsIn(priorityRequests') : ~IsBuild(attr, j)
    BY <1>5, <2>2 DEF BuildsDistinct
  <2>6. \A j \in JobsIn(requests') \cup JobsIn(results'), w \in Busy : ~SameBuild(attr, j, job[w])
    BY <1>5, <2>2 DEF BuildsDistinct
  <2> QED BY <1>1, <1>3, <1>5, <2>1, <2>3, <2>4, <2>5, <2>6 DEF BuildsDistinct
<1>6. ASSUME NEW h, h \in Outstanding, Outstanding' \subseteq Outstanding,
             IsBuild(attr, h) => \A k \in Outstanding' : ~SameBuild(attr, h, k),
             activeBuilds' \in {activeBuilds, WithoutActive(attr[h.node].id)}
      PROVE  BuildsActive'
  <2>1. ASSUME NEW j \in Outstanding', IsBuild(attr, j)
        PROVE  \E i \in DOMAIN activeBuilds' : activeBuilds'[i].node = j.node
    <3>1. PICK i \in DOMAIN activeBuilds : activeBuilds[i].node = j.node
      BY <1>6, <2>1 DEF BuildsInv, BuildsActive
    <3>2. CASE i # attr[h.node].id
      BY <1>6, <3>1, <3>2 DEF WithoutActive
    <3>3. CASE i = attr[h.node].id
      <4>1. attr[j.node].id = attr[h.node].id
        BY <3>1, <3>3 DEF ActiveInv
      <4>2. j.node = h.node
        BY <1>6, <4>1 DEF NoReusedIDs
      <4>3. SameBuild(attr, h, j) /\ IsBuild(attr, h)
        BY <2>1, <4>2 DEF SameBuild, IsBuild
      <4> QED BY <1>6, <4>3
    <3> QED BY <3>2, <3>3
  <2> QED BY <1>1, <2>1 DEF BuildsActive
<1>7. /\ JobsIn(results)' = JobsIn(results') /\ JobsIn(requests)' = JobsIn(requests')
      /\ JobsIn(priorityRequests)' = JobsIn(priorityRequests')
  BY DEF JobsIn
<1>8. BuildsDistinct
  BY DEF BuildsInv
<1>9. CASE /\ results # <<>> /\ results' = Tail(results)
           /\ UNCHANGED <<requests, priorityRequests>>
           /\ activeBuilds' \in {activeBuilds, WithoutActive(attr[Head(results).node].id)}
  <2> DEFINE h == Head(results)
  <2>1. JobsIn(results) = {h} \cup JobsIn(results')
    BY <1>0, <1>9, JobsOfQueue DEF ChannelsOK
  <2>2. Distinct(attr, results') /\ \A j \in JobsIn(results') : ~SameBuild(attr, h, j)
    BY <1>0, <1>8, <1>9, DistinctQueue DEF ChannelsOK, BuildsDistinct
  <2> HIDE DEF h
  <2>3. /\ Outstanding' = JobsIn(requests) \cup JobsIn(priorityRequests) \cup JobsIn(results')
                          \cup {job[w] : w \in Busy}
        /\ h \in Outstanding /\ Outstanding' \subseteq Outstanding
    BY <1>1, <1>3, <1>7, <1>9, <2>1 DEF Outstanding
  <2>4. ASSUME IsBuild(attr, h), NEW k \in Outstanding' PROVE ~SameBuild(attr, h, k)
    <3>1. CASE k \in JobsIn(results')
      BY <2>2, <3>1
    <3>2. CASE k \in JobsIn(requests)
      BY <1>4, <1>8, <2>1, <3>2 DEF BuildsDistinct
    <3>3. CASE k \in JobsIn(priorityRequests)
      BY <1>8, <3>3 DEF BuildsDistinct, SameBuild
    <3>4. CASE k \in {job[w] : w \in Busy}
      BY <1>8, <2>1, <3>4 DEF BuildsDistinct
    <3> QED BY <2>3, <3>1, <3>2, <3>3, <3>4
  <2>5. BuildsActive'
    BY <1>6, <1>9, <2>3, <2>4 DEF h
  <2>6. BuildsDistinct'
    <3>1. Distinct(attr, requests')
      BY <1>8, <1>9 DEF BuildsDistinct
    <3> QED BY <1>5, <1>9, <2>1, <2>2, <2>3, <3>1
  <2> QED BY <2>5, <2>6 DEF BuildsInv
<1>10. CASE /\ requests # <<>> /\ requests' = Tail(requests)
            /\ UNCHANGED <<results, priorityRequests>>
            /\ activeBuilds' = WithoutActive(attr[Head(requests).node].id)
  <2> DEFINE h == Head(requests)
  <2>1. JobsIn(requests) = {h} \cup JobsIn(requests')
    BY <1>0, <1>10, JobsOfQueue DEF ChannelsOK
  <2>2. Distinct(attr, requests') /\ \A j \in JobsIn(requests') : ~SameBuild(attr, h, j)
    BY <1>0, <1>8, <1>10, DistinctQueue DEF ChannelsOK, BuildsDistinct
  <2> HIDE DEF h
  <2>3. /\ Outstanding' = JobsIn(requests') \cup JobsIn(priorityRequests) \cup JobsIn(results)
                          \cup {job[w] : w \in Busy}
        /\ h \in Outstanding /\ Outstanding' \subseteq Outstanding
    BY <1>1, <1>3, <1>7, <1>10, <2>1 DEF Outstanding
  <2>4. ASSUME IsBuild(attr, h), NEW k \in Outstanding' PROVE ~SameBuild(attr, h, k)
    <3>1. CASE k \in JobsIn(requests')
      BY <2>2, <3>1
    <3>2. CASE k \in JobsIn(results)
      BY <1>8, <2>1, <3>2 DEF BuildsDistinct
    <3>3. CASE k \in JobsIn(priorityRequests)
      BY <1>8, <3>3 DEF BuildsDistinct, SameBuild
    <3>4. CASE k \in {job[w] : w \in Busy}
      BY <1>8, <2>1, <3>4 DEF BuildsDistinct
    <3> QED BY <2>3, <3>1, <3>2, <3>3, <3>4
  <2>5. BuildsActive'
    BY <1>6, <1>10, <2>3, <2>4 DEF h
  <2>6. BuildsDistinct'
    <3>1. Distinct(attr, results')
      BY <1>8, <1>10 DEF BuildsDistinct
    <3> QED BY <1>5, <1>10, <2>1, <2>2, <2>3, <3>1
  <2> QED BY <2>5, <2>6 DEF BuildsInv
<1>11. CASE /\ priorityRequests # <<>> /\ priorityRequests' = Tail(priorityRequests)
            /\ UNCHANGED <<requests, results>>
            /\ activeBuilds' = WithoutActive(attr[Head(priorityRequests).node].id)
  <2> DEFINE h == Head(priorityRequests)
  <2>1. JobsIn(priorityRequests) = {h} \cup JobsIn(priorityRequests')
    BY <1>0, <1>11, JobsOfQueue DEF ChannelsOK
  <2> HIDE DEF h
  <2>2. ~IsBuild(attr, h)
    BY <1>8, <2>1 DEF BuildsDistinct
  <2>3. h \in Outstanding /\ Outstanding' \subseteq Outstanding
    BY <1>1, <1>3, <1>7, <1>11, <2>1 DEF Outstanding, JobsIn
  <2>5. BuildsActive'
    BY <1>6, <1>11, <2>2, <2>3 DEF h
  <2>6. BuildsDistinct'
    <3>1. Distinct(attr, requests') /\ Distinct(attr, results')
      BY <1>8, <1>11 DEF BuildsDistinct
    <3> QED BY <1>5, <1>11, <2>1, <2>3, <3>1
  <2> QED BY <2>5, <2>6 DEF BuildsInv
<1>12. CASE UNCHANGED <<activeBuilds, requests, priorityRequests, results>>
  BY <1>1, <1>3, <1>12 DEF BuildsInv, BuildsDistinct, BuildsActive, Outstanding, JobsIn
<1> QED BY <1>2, <1>9, <1>10, <1>11, <1>12

\* A worker that takes a request holds the only build of its SRPM.
LEMMA BuildsAccept ==
  ASSUME TypeInv, BuildsInv, NEW w \in Worker, w \notin Busy,
         AcceptPriority(w) \/ AcceptNormal(w), KeepScheduler, attr' = attr,
         OutstandingNodes' = OutstandingNodes
  PROVE  BuildsInv'
<1>0. ChannelsOK /\ WorkersOK /\ BuildsDistinct
  BY DEF TypeInv, BuildsInv
<1>1. UNCHANGED <<newRequests, activeBuilds, results>>
  BY DEF KeepScheduler, schedVars, stateVars, AcceptPriority, AcceptNormal
<1>2. PICK req : /\ Accept(w, req)
                 /\ \/ /\ priorityRequests # <<>> /\ req = Head(priorityRequests)
                       /\ priorityRequests' = Tail(priorityRequests) /\ requests' = requests
                    \/ /\ requests # <<>> /\ req = Head(requests)
                       /\ requests' = Tail(requests) /\ priorityRequests' = priorityRequests
  BY DEF AcceptPriority, AcceptNormal
<1>3. /\ Busy' = Busy \cup {w} /\ job'[w] = req /\ \A v \in Busy : job'[v] = job[v]
  BY <1>0, <1>2 DEF Accept, Goto, Busy, WorkersOK
<1>4. /\ JobsIn(requests') \subseteq JobsIn(requests)
      /\ JobsIn(priorityRequests') \subseteq JobsIn(priorityRequests)
      /\ Distinct(attr, requests')
      /\ \/ ~IsBuild(attr, req)
         \/ req \in JobsIn(requests) /\ \A j \in JobsIn(requests') : ~SameBuild(attr, req, j)
  <2>1. CASE /\ priorityRequests # <<>> /\ req = Head(priorityRequests)
             /\ priorityRequests' = Tail(priorityRequests) /\ requests' = requests
    <3>1. JobsIn(priorityRequests) = {req} \cup JobsIn(priorityRequests')
      BY <1>0, <2>1, JobsOfQueue DEF ChannelsOK
    <3> QED BY <1>0, <2>1, <3>1 DEF BuildsDistinct
  <2>2. CASE /\ requests # <<>> /\ req = Head(requests)
             /\ requests' = Tail(requests) /\ priorityRequests' = priorityRequests
    <3>1. JobsIn(requests) = {req} \cup JobsIn(requests')
      BY <1>0, <2>2, JobsOfQueue DEF ChannelsOK
    <3>2. Distinct(attr, requests') /\ \A j \in JobsIn(requests') : ~SameBuild(attr, req, j)
      BY <1>0, <2>2, DistinctQueue DEF ChannelsOK, BuildsDistinct
    <3> QED BY <2>2, <3>1, <3>2
  <2> QED BY <1>2, <2>1, <2>2
<1>5. \A j, k : SameBuild(attr, j, k) => SameBuild(attr, k, j) /\ IsBuild(attr, j) /\ IsBuild(attr, k)
  BY DEF SameBuild
<1>6. \A k \in Outstanding' : \E j \in Outstanding : j.node = k.node
  BY DEF OutstandingNodes
<1>7. \A v \in Busy : ~SameBuild(attr, req, job[v])
  BY <1>0, <1>4, <1>5 DEF BuildsDistinct
<1>8. \A u, v \in Busy' : SameBuild(attr, job'[u], job'[v]) => u = v
  <2>1. \A u, v \in Busy : SameBuild(attr, job[u], job[v]) => u = v
    BY <1>0 DEF BuildsDistinct
  <2> QED BY <1>3, <1>5, <1>7, <2>1
<1>9. \A j \in JobsIn(newRequests), k \in Outstanding' : ~SameBuild(attr, j, k)
  <2>1. ASSUME NEW j \in JobsIn(newRequests), NEW k \in Outstanding' PROVE ~SameBuild(attr, j, k)
    <3>1. PICK l \in Outstanding : l.node = k.node
      BY <1>6
    <3>2. ~SameBuild(attr, j, l)
      BY <1>0 DEF BuildsDistinct
    <3> QED BY <3>1, <3>2 DEF SameBuild, IsBuild
  <2> QED BY <2>1
<1>10. \A j \in JobsIn(requests') \cup JobsIn(results), v \in Busy' : ~SameBuild(attr, j, job'[v])
  <2>1. \A j \in JobsIn(requests) \cup JobsIn(results), v \in Busy : ~SameBuild(attr, j, job[v])
    BY <1>0 DEF BuildsDistinct
  <2>2. \A j \in JobsIn(results) : ~SameBuild(attr, j, req)
    BY <1>0, <1>4, <1>5 DEF BuildsDistinct
  <2>3. \A j \in JobsIn(requests') : ~SameBuild(attr, j, req)
    BY <1>4, <1>5
  <2> QED BY <1>3, <1>4, <2>1, <2>2, <2>3
<1>11. /\ \A j \in JobsIn(requests'), k \in JobsIn(results) : ~SameBuild(attr, j, k)
       /\ \A j \in JobsIn(priorityRequests') : ~IsBuild(attr, j)
       /\ Distinct(attr, newRequests) /\ Distinct(attr, results)
  BY <1>0, <1>4 DEF BuildsDistinct
<1>12. BuildsDistinct'
  <2>1. /\ JobsIn(newRequests)' = JobsIn(newRequests) /\ JobsIn(requests)' = JobsIn(requests')
        /\ JobsIn(results)' = JobsIn(results) /\ JobsIn(priorityRequests)' = JobsIn(priorityRequests')
    BY <1>1 DEF JobsIn
  <2> QED BY <1>1, <1>4, <1>8, <1>9, <1>10, <1>11, <2>1 DEF BuildsDistinct
<1>13. BuildsActive'
  <2>1. ASSUME NEW j \in Outstanding', IsBuild(attr, j)
        PROVE  \E i \in DOMAIN activeBuilds : activeBuilds[i].node = j.node
    <3>1. PICK l \in Outstanding : l.node = j.node
      BY <1>6
    <3>2. IsBuild(attr, l)
      BY <2>1, <3>1 DEF IsBuild
    <3> QED BY <3>1, <3>2 DEF BuildsInv, BuildsActive
  <2> QED BY <1>1, <2>1 DEF BuildsActive
<1> QED BY <1>12, <1>13 DEF BuildsInv

\* A result takes the place of the request it is for.
LEMMA BuildsPublish ==
  ASSUME TypeInv, BuildsInv, NEW w \in Worker, PublishResult(w),
         OutstandingNodes' = OutstandingNodes
  PROVE  BuildsInv'
<1>0. ChannelsOK /\ WorkersOK /\ BuildsDistinct
  BY DEF TypeInv, BuildsInv
<1>1. /\ UNCHANGED <<newRequests, activeBuilds, requests, priorityRequests, attr>>
      /\ results' = Append(results, job[w]) /\ wpc[w] = "publish"
      /\ wpc' = [wpc EXCEPT ![w] = "poll"] /\ job' = [job EXCEPT ![w] = NoJob]
  BY DEF PublishResult, KeepScheduler, schedVars, stateVars, WorkerAt, Goto
<1>2. /\ w \in Busy /\ Busy' = Busy \ {w} /\ \A v \in Busy' : job'[v] = job[v]
      /\ job[w] \in AcceptedJob
  BY <1>0, <1>1 DEF Busy, WorkersOK
<1>3. JobsIn(results') = JobsIn(results) \cup {job[w]}
  BY <1>0, <1>1, <1>2, JobsOfQueue DEF ChannelsOK
<1>4. \A j, k : SameBuild(attr, j, k) => SameBuild(attr, k, j)
  BY DEF SameBuild
<1>5. Distinct(attr, results')
  <2>1. \A k \in JobsIn(results) : ~SameBuild(attr, k, job[w])
    BY <1>0, <1>2 DEF BuildsDistinct
  <2>2. Distinct(attr, results)
    BY <1>0 DEF BuildsDistinct
  <2> QED BY <1>0, <1>1, <1>2, <2>1, <2>2, DistinctQueue DEF ChannelsOK
<1>6. \A k \in Outstanding' : \E j \in Outstanding : j.node = k.node
  BY DEF OutstandingNodes
<1>7. \A u, v \in Busy' : SameBuild(attr, job'[u], job'[v]) => u = v
  <2>1. \A u, v \in Busy : SameBuild(attr, job[u], job[v]) => u = v
    BY <1>0 DEF BuildsDistinct
  <2> QED BY <1>2, <2>1
<1>8. \A j \in JobsIn(newRequests), k \in Outstanding' : ~SameBuild(attr, j, k)
  <2>1. ASSUME NEW j \in JobsIn(newRequests), NEW k \in Outstanding' PROVE ~SameBuild(attr, j, k)
    <3>1. PICK l \in Outstanding : l.node = k.node
      BY <1>6
    <3>2. ~SameBuild(attr, j, l)
      BY <1>0 DEF BuildsDistinct
    <3> QED BY <3>1, <3>2 DEF SameBuild, IsBuild
  <2> QED BY <2>1
<1>9. \A j \in JobsIn(requests), k \in JobsIn(results') : ~SameBuild(attr, j, k)
  <2>1. /\ \A j \in JobsIn(requests), k \in JobsIn(results) : ~SameBuild(attr, j, k)
        /\ \A j \in JobsIn(requests) : ~SameBuild(attr, j, job[w])
    BY <1>0, <1>2 DEF BuildsDistinct
  <2> QED BY <1>3, <2>1
<1>10. \A j \in JobsIn(requests) \cup JobsIn(results'), v \in Busy' : ~SameBuild(attr, j, job'[v])
  <2>1. \A j \in JobsIn(requests) \cup JobsIn(results), v \in Busy : ~SameBuild(attr, j, job[v])
    BY <1>0 DEF BuildsDistinct
  <2>2. \A v \in Busy \ {w} : ~SameBuild(attr, job[w], job[v])
    BY <1>0, <1>2 DEF BuildsDistinct
  <2> QED BY <1>2, <1>3, <2>1, <2>2
<1>11. BuildsDistinct'
  <2>1. /\ JobsIn(newRequests)' = JobsIn(newRequests) /\ JobsIn(requests)' = JobsIn(requests)
        /\ JobsIn(results)' = JobsIn(results') /\ JobsIn(priorityRequests)' = JobsIn(priorityRequests)
    BY <1>1 DEF JobsIn
  <2>2. /\ Distinct(attr, newRequests) /\ Distinct(attr, requests)
        /\ \A j \in JobsIn(priorityRequests) : ~IsBuild(attr, j)
    BY <1>0 DEF BuildsDistinct
  <2> QED BY <1>1, <1>5, <1>7, <1>8, <1>9, <1>10, <2>1, <2>2 DEF BuildsDistinct
<1>12. BuildsActive'
  <2>1. ASSUME NEW j \in Outstanding', IsBuild(attr, j)
        PROVE  \E i \in DOMAIN activeBuilds : activeBuilds[i].node = j.node
    <3>1. PICK l \in Outstanding : l.node = j.node
      BY <1>6
    <3>2. IsBuild(attr, l)
      BY <2>1, <3>1 DEF IsBuild
    <3> QED BY <3>1, <3>2 DEF BuildsInv, BuildsActive
  <2> QED BY <1>1, <2>1 DEF BuildsActive
<1> QED BY <1>11, <1>12 DEF BuildsInv

\* The steps of a worker keep the builds apart.
LEMMA BuildsWorker ==
  ASSUME TypeInv, BuildsInv, KeepsNodes, TypeInv', NEW w \in Worker, WorkerStep(w)
  PROVE  BuildsInv'
<1>0. job \in [Worker -> AcceptedJob] /\ wpc \in [Worker -> WorkerControl]
  BY DEF TypeInv, WorkersOK
<1>1. OutstandingNodes' = OutstandingNodes
  BY WorkerKeepsOutstanding
<1>2. KeepScheduler
  BY WorkerKeepsScheduler
<1>3. UNCHANGED <<newRequests, activeBuilds>>
  BY <1>2 DEF KeepScheduler, schedVars, stateVars
<1>4. CASE PublishResult(w)
  BY <1>1, <1>4, BuildsPublish
<1>5. ASSUME wpc[w] \in {"pollPriority", "select"}, AcceptPriority(w) \/ AcceptNormal(w), attr' = attr
      PROVE  BuildsInv'
  <2>1. w \notin Busy
    BY <1>5 DEF Busy
  <2> QED BY <1>1, <1>2, <1>5, <2>1, BuildsAccept
<1>6. ASSUME wpc[w] \in {"poll", "pollPriority", "select"},
             NEW to \in {"pollPriority", "select", "stopped"}, Goto(w, to),
             KeepWork, KeepChannels
      PROVE  BuildsInv'
  <2>1. Busy' = Busy /\ job' = job
    BY <1>0, <1>6 DEF Goto, Busy, KeepWork
  <2> QED BY <1>3, <1>6, <2>1, BuildsStay DEF KeepChannels, chanVars
<1>7. CASE PollCancel(w)
  BY <1>6, <1>7 DEF PollCancel, WorkerAt, Leave
<1>8. CASE PollPriority(w)
  BY <1>5, <1>6, <1>8 DEF PollPriority, WorkerAt, Leave
<1>9. CASE Select(w)
  BY <1>5, <1>6, <1>9 DEF Select, WorkerAt, Leave
<1>10. CASE \/ PassThrough(w) \/ SkipIgnored(w) \/ UseCached(w) \/ StartBuild(w)
            \/ BuildSRPMFile(w) \/ TestSRPMFile(w) \/ SetAncillaryBuildNodesStatus(w)
  <2>1. KeepChannels /\ Busy' = Busy /\ \A v \in Worker : job'[v].node = job[v].node
    BY <1>10, WorkSteps
  <2> QED BY <1>3, <2>1, BuildsStay DEF KeepChannels, chanVars, Busy
<1> QED BY <1>4, <1>7, <1>8, <1>9, <1>10 DEF WorkerStep

\* ConvertNodesToRequests asks for one build of an SRPM at most, and for none
\* that is under way.
LEMMA BuildsConvert ==
  ASSUME TypeInv, BuildsInv, ConvertNodesToRequests
  PROVE  BuildsInv'
<1>0. /\ nodesToBuild \subseteq Node /\ G \in Graph
  BY DEF TypeInv, LoopOK, GraphsOK, G, Current
<1>1. UNCHANGED <<attr, activeBuilds, requests, priorityRequests, results, wpc, job>>
  BY DEF ConvertNodesToRequests, stateVars, chanVars, workerVars
<1>2. PICK first \in Choices(Groups("LocalBuild")), last \in Choices(Groups("LocalBuild")),
           firstTest \in Choices(Groups("Test")) :
        LET tested   == TestedGroups(first)
            pruned   == RemoveEdges(G, {<<PartnerTest(G, b), b>> : b \in UNION tested})
            builds   == {BuildGroupRequest(first, gr) : gr \in NewBuildGroups(first)}
            partners == {PartnerRequest(pruned, first, last, gr) :
                            gr \in ReadyPartners(pruned, tested, last)}
            tests    == {TestGroupRequest(pruned, firstTest, gr) :
                            gr \in NewTestGroups(firstTest)}
        IN  /\ \A b \in UNION tested : PartnerTests(G, b) # {}
            /\ \E q \in Orders(OtherRequests \cup builds \cup partners \cup tests) :
                   newRequests' = q
  BY Zenon DEF ConvertNodesToRequests
<1> DEFINE tested   == TestedGroups(first)
           pruned   == RemoveEdges(G, {<<PartnerTest(G, b), b>> : b \in UNION tested})
           builds   == {BuildGroupRequest(first, gr) : gr \in NewBuildGroups(first)}
           partners == {PartnerRequest(pruned, first, last, gr) :
                            gr \in ReadyPartners(pruned, tested, last)}
           tests    == {TestGroupRequest(pruned, firstTest, gr) :
                            gr \in NewTestGroups(firstTest)}
           All == OtherRequests \cup builds \cup partners \cup tests
<1>3. PICK q \in Orders(All) : newRequests' = q
  BY <1>2, Zenon
<1> HIDE DEF pruned
<1>4. /\ \A i \in DOMAIN q : q[i] \in All
      /\ \A i, k \in DOMAIN q : i # k => q[i] # q[k]
  BY DEF Orders
<1>5. ASSUME NEW type, NEW c \in Choices(Groups(type)), NEW gr \in DOMAIN c
      PROVE  gr \in Groups(type) /\ c[gr] \in gr /\ attr[c[gr]].type = type
  BY <1>0, GroupNodes DEF Choices
<1>6. ASSUME NEW r \in All, IsBuild(attr, r)
      PROVE  \E gr \in NewBuildGroups(first) :
                /\ r = BuildGroupRequest(first, gr) /\ r.node = first[gr]
                /\ gr \in Groups("LocalBuild") /\ first[gr] \in gr
  <2>1. r \notin OtherRequests
    BY <1>6 DEF OtherRequests, BuildRequest, IsBuild
  <2>2. r \notin tests
    <3>1. ASSUME NEW gr \in NewTestGroups(firstTest)
          PROVE  ~IsBuild(attr, TestGroupRequest(pruned, firstTest, gr))
      <4>1. attr[firstTest[gr]].type = "Test"
        BY <1>5 DEF NewTestGroups
      <4>2. TestGroupRequest(pruned, firstTest, gr).node = firstTest[gr]
        BY DEF TestGroupRequest, BuildRequest
      <4> QED BY <4>1, <4>2 DEF IsBuild
    <3> QED BY <1>6, <3>1
  <2>3. r \notin partners
    <3>1. ASSUME NEW gr \in ReadyPartners(pruned, tested, last)
          PROVE  ~IsBuild(attr, PartnerRequest(pruned, first, last, gr))
      <4>1. gr \in tested /\ last[gr] \in gr
        BY <1>5 DEF ReadyPartners, TestedGroups, NewBuildGroups, Choices
      <4>2. PartnerTests(G, last[gr]) # {}
        BY <1>2, <4>1
      <4>3. attr[PartnerTest(G, last[gr])].type = "Test"
        BY <4>2 DEF PartnerTest, PartnerTests
      <4>4. PartnerRequest(pruned, first, last, gr).node = PartnerTest(G, last[gr])
        BY DEF PartnerRequest, BuildRequest
      <4> QED BY <4>3, <4>4 DEF IsBuild
    <3> QED BY <1>6, <3>1
  <2>4. PICK gr \in NewBuildGroups(first) : r = BuildGroupRequest(first, gr)
    BY <2>1, <2>2, <2>3
  <2>5. r.node = first[gr]
    BY <2>4 DEF BuildGroupRequest, BuildRequest
  <2>6. gr \in Groups("LocalBuild") /\ first[gr] \in gr
    BY <1>5 DEF NewBuildGroups
  <2> QED BY <2>4, <2>5, <2>6
<1> HIDE DEF All
<1>7. Distinct(attr, q)
  <2>1. ASSUME NEW i \in DOMAIN q, NEW k \in DOMAIN q, SameBuild(attr, q[i], q[k]) PROVE i = k
    <3>1. PICK gr \in NewBuildGroups(first) :
             /\ q[i] = BuildGroupRequest(first, gr) /\ q[i].node = first[gr]
             /\ gr \in Groups("LocalBuild") /\ first[gr] \in gr
      BY <1>4, <1>6, <2>1 DEF SameBuild
    <3>2. PICK hr \in NewBuildGroups(first) :
             /\ q[k] = BuildGroupRequest(first, hr) /\ q[k].node = first[hr]
             /\ hr \in Groups("LocalBuild") /\ first[hr] \in hr
      BY <1>4, <1>6, <2>1 DEF SameBuild
    <3>3. attr[first[gr]].srpm = attr[first[hr]].srpm
      BY <2>1, <3>1, <3>2 DEF SameBuild
    <3>4. gr = hr
      BY <3>1, <3>2, <3>3 DEF Groups
    <3> QED BY <1>4, <3>1, <3>2, <3>4
  <2> QED BY <2>1 DEF Distinct
<1>8. ASSUME NEW j \in JobsIn(q), NEW k \in Outstanding, SameBuild(attr, j, k)
      PROVE  FALSE
  <2>1. j \in All /\ IsBuild(attr, j) /\ IsBuild(attr, k) /\ attr[j.node].srpm = attr[k.node].srpm
    BY <1>4, <1>8 DEF JobsIn, SameBuild
  <2>2. PICK gr \in NewBuildGroups(first) :
           j.node = first[gr] /\ gr \in Groups("LocalBuild") /\ first[gr] \in gr
    BY <1>6, <2>1
  <2>3. SRPMOf(gr) = attr[j.node].srpm
    <3>1. (CHOOSE n \in gr : TRUE) \in gr
      BY <2>2
    <3> QED BY <1>0, <2>2, <3>1, GroupNodes DEF SRPMOf
  <2>4. PICK i \in DOMAIN activeBuilds : activeBuilds[i].node = k.node
    BY <2>1 DEF BuildsInv, BuildsActive
  <2>5. activeBuilds[i] \in ActiveFromSRPM(SRPMOf(gr), "LocalBuild")
    BY <2>1, <2>3, <2>4 DEF ActiveFromSRPM, Active, IsBuild
  <2> QED BY <2>2, <2>5 DEF NewBuildGroups
<1>9. Outstanding' = Outstanding /\ Busy' = Busy
  BY <1>1 DEF Outstanding, JobsIn, Busy
<1>10. /\ JobsIn(newRequests)' = JobsIn(q) /\ JobsIn(requests)' = JobsIn(requests)
       /\ JobsIn(results)' = JobsIn(results)
       /\ JobsIn(priorityRequests)' = JobsIn(priorityRequests)
  BY <1>1, <1>3 DEF JobsIn
<1>11. BuildsActive'
  BY <1>1, <1>9 DEF BuildsInv, BuildsActive
<1>12. BuildsDistinct'
  <2>1. /\ Distinct(attr, requests) /\ Distinct(attr, results)
        /\ \A v, w \in Busy : SameBuild(attr, job[v], job[w]) => v = w
        /\ \A j \in JobsIn(requests), k \in JobsIn(results) : ~SameBuild(attr, j, k)
        /\ \A j \in JobsIn(requests) \cup JobsIn(results), w \in Busy :
              ~SameBuild(attr, j, job[w])
        /\ \A j \in JobsIn(priorityRequests) : ~IsBuild(attr, j)
    BY DEF BuildsInv, BuildsDistinct
  <2> QED BY <1>1, <1>3, <1>7, <1>8, <1>9, <1>10, <2>1 DEF BuildsDistinct
<1> QED BY <1>11, <1>12 DEF BuildsInv

\* Every step keeps the builds apart, as long as no ID is reused.
LEMMA BuildsStep ==
  ASSUME TypeInv, ActiveInv, BuildsInv, NoReusedIDs, [Next]_vars
  PROVE  BuildsInv'
<1>1. KeepsNodes /\ TypeInv'
  BY TypeStep
<1>2. CASE Quiet
  <2>1. CASE ConvertNodesToRequests
    BY <2>1, BuildsConvert
  <2>2. CASE newRequests' = newRequests
    <3>1. Busy' = Busy /\ job' = job
      BY <1>2 DEF Quiet, Busy
    <3> QED BY <1>1, <1>2, <2>2, <3>1, BuildsStay DEF Quiet
  <2> QED BY <1>2, <2>1, <2>2 DEF Quiet
<1>3. CASE SubmitRequest
  BY <1>3, BuildsSubmit
<1>4. CASE ReceiveResult \/ LicenseCheckerFails \/ DrainPriority \/ DrainRequests
  BY <1>4, BuildsTaken
<1>5. CASE \E w \in Worker : WorkerStep(w)
  BY <1>1, <1>5, BuildsWorker
<1> QED BY <1>2, <1>3, <1>4, <1>5, MovingSteps

\* Two workers never build the same SRPM at the same time, whatever the graph and
\* the number of workers, as long as the graph's allocator hands out no ID of a
\* node that is still requested.
THEOREM OneBuildPerSRPM == Spec /\ []NoReusedIDs => []NoConcurrentBuildOfSRPM
<1>1. BuildsInv => NoConcurrentBuildOfSRPM
  <2> SUFFICES ASSUME BuildsInv, NEW v \in Worker, NEW w \in Worker,
                      wpc[v] = "build", wpc[w] = "build",
                      TypeOf(v) = "LocalBuild", TypeOf(w) = "LocalBuild",
                      attr[job[v].node].srpm = attr[job[w].node].srpm
               PROVE  v = w
    BY DEF NoConcurrentBuildOfSRPM
  <2>1. v \in Busy /\ w \in Busy /\ SameBuild(attr, job[v], job[w])
    BY DEF Busy, SameBuild, IsBuild, TypeOf
  <2> QED BY <2>1 DEF BuildsInv, BuildsDistinct
<1>2. TypeInv /\ ActiveInv /\ BuildsInv /\ NoReusedIDs /\ [Next]_vars
        => TypeInv' /\ ActiveInv' /\ BuildsInv'
  BY TypeStep, ActiveStep, BuildsStep
<1> QED BY InitInv, <1>1, <1>2, PTL DEF Spec
=============================================================================
