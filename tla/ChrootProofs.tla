---------------------------- MODULE ChrootProofs ----------------------------
(***************************************************************************)
(* Proofs about ChrootProcess, for any pool of workers, any number of SPEC *)
(* files and any capacity of the network semaphore.  The inductive         *)
(* invariant ChrootInv has three threads.  RootInv ties the root directory *)
(* and inChrootMutex to what main does, so that cleanup finds the host's   *)
(* root.  MountInv ties activeChroots and the mounts to it, so that every  *)
(* way out unmounts them.  SpecsInv follows the SPECs of a pool: while no  *)
(* error is known, the requests, the busy workers and the results add up   *)
(* to what main still has to receive (CountInv), and every SPEC that was   *)
(* sent is in one of them or completed (CoverInv); so when the last result *)
(* is in without an error all SPECs are completed (EndInv).  One lemma per *)
(* conjunct, with one case per group of steps, shows that a step keeps it. *)
(***************************************************************************)
EXTENDS ChrootProcess, FiniteSetTheorems, SequenceTheorems, TLAPS

-----------------------------------------------------------------------------
(* The steps of main, by what they are about.                              *)

OpenAndClose ==
    \/ LockActive("main", "start", "initialize")
    \/ Initialized("setup", "initialize", "ready")
    \/ InitializeFails("setup", "initialize", "end")
    \/ EnterChroot \/ LeaveChroot
    \/ LockActive("main", "close", "unmount")
    \/ CloseChroot("setup", "unmount", "end")

RunPool == StartWorkers \/ SendRequest \/ ReceiveResult \/ WaitWorkers

RunBuild == StartBuild \/ ReceiveBuild \/ BuildTimesOut

RunNested ==
    \/ LockActive("main", "nest", "nestinit")
    \/ Initialized("install", "nestinit", "image")
    \/ InitializeFails("install", "nestinit", "leave")
    \/ PopulateInstallRoot
    \/ LockActive("main", "unnest", "nestunmount")
    \/ CloseChroot("install", "nestunmount", "leave")

Goroutine == {"main", "signal"}

\* Every step of a process that is alive is one of these.
LEMMA StepCases ==
  ASSUME Next, Alive
  PROVE  \/ OpenAndClose \/ RunPool \/ RunBuild \/ RunNested \/ End
         \/ SignalArrives \/ (\E p \in Goroutine : Cleanup(p))
         \/ (\E w \in Workers : Worker(w)) \/ BuildGoroutine
BY DEF Next, Main, OpenAndClose, RunPool, RunBuild, RunNested, Goroutine, Exited

-----------------------------------------------------------------------------
(* Types.                                                                  *)

\* Every step keeps the control variables in their types.
LEMMA ControlStep ==
  ASSUME ControlOK, Next, Alive
  PROVE  ControlOK'
<1> USE DEF ControlOK, Pooled, Inside, Outside, Cleaning, Pooling, Nested, Goto
<1>1. CASE OpenAndClose
  <2>1. CASE LockActive("main", "start", "initialize")
    BY <2>1 DEF LockActive
  <2>2. CASE Initialized("setup", "initialize", "ready")
    BY <2>2 DEF Initialized
  <2>3. CASE InitializeFails("setup", "initialize", "end")
    BY <2>3 DEF InitializeFails
  <2>4. CASE EnterChroot
    BY <2>4 DEF EnterChroot
  <2>5. CASE LeaveChroot
    BY <2>5 DEF LeaveChroot
  <2>6. CASE LockActive("main", "close", "unmount")
    BY <2>6 DEF LockActive
  <2>7. CASE CloseChroot("setup", "unmount", "end")
    BY <2>7 DEF CloseChroot
  <2> QED BY <1>1, <2>1, <2>2, <2>3, <2>4, <2>5, <2>6, <2>7 DEF OpenAndClose
<1>2. CASE RunPool
  <2>1. CASE StartWorkers
    BY <2>1 DEF StartWorkers
  <2>2. CASE SendRequest
    BY <2>2 DEF SendRequest
  <2>3. CASE ReceiveResult
    BY <2>3 DEF ReceiveResult, ReceiveResultThen
  <2>4. CASE WaitWorkers
    BY <2>4 DEF WaitWorkers
  <2> QED BY <1>2, <2>1, <2>2, <2>3, <2>4 DEF RunPool
<1>3. CASE RunBuild
  BY <1>3 DEF RunBuild, StartBuild, ReceiveBuild, BuildTimesOut
<1>4. CASE RunNested
  <2>1. CASE LockActive("main", "nest", "nestinit")
    BY <2>1 DEF LockActive
  <2>2. CASE Initialized("install", "nestinit", "image")
    BY <2>2 DEF Initialized
  <2>3. CASE InitializeFails("install", "nestinit", "leave")
    BY <2>3 DEF InitializeFails
  <2>4. CASE PopulateInstallRoot
    BY <2>4 DEF PopulateInstallRoot
  <2>5. CASE LockActive("main", "unnest", "nestunmount")
    BY <2>5 DEF LockActive
  <2>6. CASE CloseChroot("install", "nestunmount", "leave")
    BY <2>6 DEF CloseChroot
  <2> QED BY <1>4, <2>1, <2>2, <2>3, <2>4, <2>5, <2>6 DEF RunNested
<1>5. CASE End
  BY <1>5 DEF End
<1>6. CASE SignalArrives
  BY <1>6 DEF SignalArrives
<1>7. ASSUME NEW p \in Goroutine, Cleanup(p) PROVE ControlOK'
  <2>1. CASE LockActive(p, "lock", "stop")
    BY <2>1 DEF LockActive, Goroutine
  <2>2. CASE PermanentlyStopAllChildProcesses(p)
    BY <2>2 DEF PermanentlyStopAllChildProcesses, Goroutine
  <2>3. CASE LockIn(p)
    BY <2>3 DEF LockIn, Goroutine
  <2>4. CASE CleanupAllChroots(p)
    BY <2>4 DEF CleanupAllChroots, Goroutine
  <2> QED BY <1>7, <2>1, <2>2, <2>3, <2>4 DEF Cleanup
<1>8. ASSUME NEW w \in Workers, Worker(w) PROVE ControlOK'
  BY <1>8 DEF Worker, TakeRequest, Hydrate, Download, FinishSpec, Answer, WorkerOnly,
     procVars
<1>9. CASE BuildGoroutine
  BY <1>9 DEF BuildGoroutine, StartCommand, EndCommand, RemoveLibArchivesFromSystem,
     procVars, poolVars
<1> QED BY <1>1, <1>2, <1>3, <1>4, <1>5, <1>6, <1>7, <1>8, <1>9, StepCases

\* A build goroutine has a command only in the steps that run one.
LEMMA BuildStep ==
  ASSUME BuildOK, Next, Alive
  PROVE  BuildOK'
<1> USE DEF BuildOK, Commands, AfterStep, AfterFailure, StopAllChildProcesses, buildVars,
     Goto
<1>1. CASE OpenAndClose
  BY <1>1 DEF OpenAndClose, LockActive, Initialized, InitializeFails, EnterChroot,
     LeaveChroot, CloseChroot
<1>2. CASE RunPool
  BY <1>2 DEF RunPool, StartWorkers, SendRequest, ReceiveResult, ReceiveResultThen,
     WaitWorkers
<1>3. CASE RunBuild
  BY <1>3 DEF RunBuild, StartBuild, ReceiveBuild, BuildTimesOut
<1>4. CASE RunNested
  BY <1>4 DEF RunNested, LockActive, Initialized, InitializeFails, PopulateInstallRoot,
     CloseChroot
<1>5. CASE End
  BY <1>5 DEF End
<1>6. CASE SignalArrives
  BY <1>6 DEF SignalArrives
<1>7. ASSUME NEW p \in Goroutine, Cleanup(p) PROVE BuildOK'
  BY <1>7 DEF Goroutine, Cleanup, LockActive, PermanentlyStopAllChildProcesses, LockIn,
     CleanupAllChroots
<1>8. ASSUME NEW w \in Workers, Worker(w) PROVE BuildOK'
  BY <1>8 DEF Worker, TakeRequest, Hydrate, Download, FinishSpec, Answer, WorkerOnly,
     procVars
<1>9. CASE BuildGoroutine
  BY <1>9 DEF BuildGoroutine, StartCommand, EndCommand, RemoveLibArchivesFromSystem,
     procVars, poolVars
<1> QED BY <1>1, <1>2, <1>3, <1>4, <1>5, <1>6, <1>7, <1>8, <1>9, StepCases

\* What a worker can be.
WorkerState == [at : {"idle", "gone"}, spec : {0}] \cup [at : Busy, spec : Specs]

\* A worker that answers sends a result about a SPEC, and is idle again.
LEMMA AnswerType ==
  ASSUME PoolOK, NEW w \in Workers, NEW ok \in BOOLEAN, worker[w].at \in Busy, Answer(w, ok)
  PROVE  /\ worker' \in [Workers -> WorkerState]
         /\ results' \in Seq([spec : Specs, ok : BOOLEAN])
<1> USE DEF PoolOK, WorkerState, Idle, Busy
<1>1. worker' \in [Workers -> WorkerState]
  BY DEF Answer
<1>2. worker[w].spec \in Specs
  OBVIOUS
<1>3. [spec |-> worker[w].spec, ok |-> ok] \in [spec : Specs, ok : BOOLEAN]
  BY <1>2
<1>4. results' \in Seq([spec : Specs, ok : BOOLEAN])
  BY <1>3 DEF Answer
<1> QED BY <1>1, <1>4

\* Every step of a worker keeps the variables of the pool in their types.
LEMMA WorkerType ==
  ASSUME PoolOK, NEW w \in Workers, Worker(w)
  PROVE  PoolOK'
<1> USE DEF WorkerOnly, procVars
<1>1. ASSUME worker' \in [Workers -> WorkerState], requests' \in Seq(Specs),
             results' \in Seq([spec : Specs, ok : BOOLEAN]), WorkerOnly,
             checked' \subseteq Specs, toPack' \subseteq Specs, packed' \subseteq Specs
      PROVE  PoolOK'
  BY <1>1 DEF PoolOK, WorkerState
<1>2. ASSUME NEW to \in Busy, worker[w].at \in Busy, worker' = [worker EXCEPT ![w].at = to]
      PROVE  worker' \in [Workers -> WorkerState]
  BY <1>2 DEF PoolOK, WorkerState, Busy
<1>3. CASE TakeRequest(w)
  <2>1. CASE requests = <<>>
    BY <1>1, <1>3, <2>1 DEF TakeRequest, PoolOK, Gone, WorkerState
  <2>2. CASE requests # <<>>
    <3> DEFINE at == IF pool # "pack" THEN "work"
                     ELSE IF Head(requests) \in toPack THEN "hydrate" ELSE "skip"
    <3>1. Head(requests) \in Specs /\ Tail(requests) \in Seq(Specs)
      BY <2>2 DEF PoolOK
    <3>2. worker' = [worker EXCEPT ![w] =
                       IF cancelled THEN Gone ELSE [at |-> at, spec |-> Head(requests)]]
      BY <1>3, <2>2 DEF TakeRequest
    <3>3. at \in Busy
      BY DEF Busy
    <3> HIDE DEF at
    <3>4. worker' \in [Workers -> WorkerState]
      BY <3>1, <3>2, <3>3 DEF PoolOK, WorkerState, Gone
    <3> QED BY <1>1, <1>3, <2>2, <3>1, <3>4 DEF TakeRequest, PoolOK
  <2> QED BY <2>1, <2>2
<1>4. CASE Hydrate(w) \/ Download(w)
  <2>1. worker[w].at \in Busy
    BY <1>4 DEF Hydrate, Download, Busy
  <2>2. /\ worker' \in [Workers -> WorkerState]
        /\ results' \in Seq([spec : Specs, ok : BOOLEAN])
    BY <1>2, <1>4, <2>1, AnswerType DEF Hydrate, Download, Busy, PoolOK
  <2> QED BY <1>1, <1>4, <2>2 DEF Hydrate, Download, PoolOK
<1>5. CASE FinishSpec(w)
  <2>1. worker[w].at \in Busy /\ worker[w].spec \in Specs
    BY <1>5 DEF FinishSpec, Busy, PoolOK
  <2>2. /\ worker' \in [Workers -> WorkerState]
        /\ results' \in Seq([spec : Specs, ok : BOOLEAN])
    BY <1>5, <2>1, AnswerType DEF FinishSpec
  <2> QED BY <1>1, <1>5, <2>1, <2>2 DEF FinishSpec, PoolOK
<1> QED BY <1>3, <1>4, <1>5 DEF Worker

\* Every step keeps the variables of a pool in their types.
LEMMA PoolTypeStep ==
  ASSUME ControlOK, PoolOK, StageInv, Next, Alive
  PROVE  PoolOK'
<1> USE DEF PoolOK, FirstPool, Gone, Idle, poolVars, Goto
<1>1. CASE OpenAndClose
  BY <1>1 DEF OpenAndClose, LockActive, Initialized, InitializeFails, EnterChroot,
     LeaveChroot, CloseChroot
<1>2. CASE RunPool
  <2>1. CASE StartWorkers
    <3>1. worker' \in [Workers -> WorkerState]
      BY <2>1 DEF StartWorkers, WorkerState
    <3>2. requests' \in Seq(Specs) /\ results' \in Seq([spec : Specs, ok : BOOLEAN])
      BY <2>1 DEF StartWorkers
    <3> QED BY <2>1, <3>1, <3>2 DEF StartWorkers, WorkerState
  <2>2. CASE SendRequest
    <3>1. sent + 1 \in Specs
      BY <2>2, ProcessAssumption DEF SendRequest, StageInv, Specs
    <3> QED BY <2>2, <3>1 DEF SendRequest
  <2>3. CASE ReceiveResult
    <3>1. Tail(results) \in Seq([spec : Specs, ok : BOOLEAN])
      BY <2>3 DEF ReceiveResult, ReceiveResultThen
    <3>2. cancelled' \in BOOLEAN
      BY <2>3 DEF ReceiveResult, ReceiveResultThen
    <3> QED BY <2>3, <3>1, <3>2 DEF ReceiveResult, ReceiveResultThen
  <2>4. CASE WaitWorkers
    BY <2>4 DEF WaitWorkers
  <2> QED BY <1>2, <2>1, <2>2, <2>3, <2>4 DEF RunPool
<1>3. CASE RunBuild
  BY <1>3 DEF RunBuild, StartBuild, ReceiveBuild, BuildTimesOut
<1>4. CASE RunNested
  BY <1>4 DEF RunNested, LockActive, Initialized, InitializeFails, PopulateInstallRoot,
     CloseChroot
<1>5. CASE End
  BY <1>5 DEF End
<1>6. CASE SignalArrives
  BY <1>6 DEF SignalArrives
<1>7. ASSUME NEW p \in Goroutine, Cleanup(p) PROVE PoolOK'
  BY <1>7 DEF Goroutine, Cleanup, LockActive, PermanentlyStopAllChildProcesses, LockIn,
     CleanupAllChroots
<1>8. ASSUME NEW w \in Workers, Worker(w) PROVE PoolOK'
  BY <1>8, WorkerType
<1>9. CASE BuildGoroutine
  BY <1>9 DEF BuildGoroutine, StartCommand, EndCommand, RemoveLibArchivesFromSystem,
     procVars, poolVars
<1> QED BY <1>1, <1>2, <1>3, <1>4, <1>5, <1>6, <1>7, <1>8, <1>9, StepCases

-----------------------------------------------------------------------------
(* The chroot and its mounts.                                              *)

\* The root directory follows main; the mutex keeps cleanup out of a chroot.
LEMMA RootStep ==
  ASSUME ControlOK, RootInv, Next, Alive
  PROVE  RootInv'
<1> USE DEF RootInv, ControlOK, Inside, Outside, Cleaning, Pooling, Nested, Goto
<1>1. CASE OpenAndClose
  BY <1>1 DEF OpenAndClose, LockActive, Initialized, InitializeFails, EnterChroot,
     LeaveChroot, CloseChroot
<1>2. CASE RunPool
  BY <1>2 DEF RunPool, StartWorkers, SendRequest, ReceiveResult, ReceiveResultThen,
     WaitWorkers
<1>3. CASE RunBuild
  BY <1>3 DEF RunBuild, StartBuild, ReceiveBuild, BuildTimesOut
<1>4. CASE RunNested
  BY <1>4 DEF RunNested, LockActive, Initialized, InitializeFails, PopulateInstallRoot,
     CloseChroot
<1>5. CASE End
  BY <1>5 DEF End
<1>6. CASE SignalArrives
  BY <1>6 DEF SignalArrives
<1>7. ASSUME NEW p \in Goroutine, Cleanup(p) PROVE RootInv'
  BY <1>7 DEF Goroutine, Cleanup, LockActive, PermanentlyStopAllChildProcesses, LockIn,
     CleanupAllChroots
<1>8. ASSUME NEW w \in Workers, Worker(w) PROVE RootInv'
  BY <1>8 DEF Worker, TakeRequest, Hydrate, Download, FinishSpec, Answer, WorkerOnly,
     procVars
<1>9. CASE BuildGoroutine
  BY <1>9 DEF BuildGoroutine, StartCommand, EndCommand, RemoveLibArchivesFromSystem,
     procVars, poolVars
<1> QED BY <1>1, <1>2, <1>3, <1>4, <1>5, <1>6, <1>7, <1>8, <1>9, StepCases

\* Main goes the way of its tool.
LEMMA ToolStep ==
  ASSUME ControlOK, ToolInv, Next, Alive
  PROVE  ToolInv'
<1> USE DEF ToolInv, ControlOK, Pooled, FirstPool, poolVars, Inside, Outside, Cleaning,
     Pooling, Nested, Goto
<1>1. CASE OpenAndClose
  <2>1. CASE LockActive("main", "start", "initialize")
    BY <2>1 DEF LockActive
  <2>2. CASE Initialized("setup", "initialize", "ready")
    BY <2>2 DEF Initialized
  <2>3. CASE InitializeFails("setup", "initialize", "end")
    BY <2>3 DEF InitializeFails
  <2>4. CASE EnterChroot
    BY <2>4, ProcessAssumption DEF EnterChroot
  <2>5. CASE LeaveChroot
    BY <2>5 DEF LeaveChroot
  <2>6. CASE LockActive("main", "close", "unmount")
    BY <2>6 DEF LockActive
  <2>7. CASE CloseChroot("setup", "unmount", "end")
    BY <2>7 DEF CloseChroot
  <2> QED BY <1>1, <2>1, <2>2, <2>3, <2>4, <2>5, <2>6, <2>7 DEF OpenAndClose
<1>2. CASE RunPool
  <2>1. CASE StartWorkers
    BY <2>1 DEF StartWorkers
  <2>2. CASE SendRequest
    BY <2>2 DEF SendRequest
  <2>3. CASE ReceiveResult
    BY <2>3 DEF ReceiveResult, ReceiveResultThen
  <2>4. CASE WaitWorkers
    BY <2>4 DEF WaitWorkers
  <2> QED BY <1>2, <2>1, <2>2, <2>3, <2>4 DEF RunPool
<1>3. CASE RunBuild
  BY <1>3 DEF RunBuild, StartBuild, ReceiveBuild, BuildTimesOut
<1>4. CASE RunNested
  BY <1>4 DEF RunNested, LockActive, Initialized, InitializeFails, PopulateInstallRoot,
     CloseChroot
<1>5. CASE End
  BY <1>5 DEF End
<1>6. CASE SignalArrives
  BY <1>6 DEF SignalArrives
<1>7. ASSUME NEW p \in Goroutine, Cleanup(p) PROVE ToolInv'
  BY <1>7 DEF Goroutine, Cleanup, LockActive, PermanentlyStopAllChildProcesses, LockIn,
     CleanupAllChroots
<1>8. ASSUME NEW w \in Workers, Worker(w) PROVE ToolInv'
  BY <1>8 DEF Worker, TakeRequest, Hydrate, Download, FinishSpec, Answer, WorkerOnly,
     procVars
<1>9. CASE BuildGoroutine
  BY <1>9 DEF BuildGoroutine, StartCommand, EndCommand, RemoveLibArchivesFromSystem,
     procVars, poolVars
<1> QED BY <1>1, <1>2, <1>3, <1>4, <1>5, <1>6, <1>7, <1>8, <1>9, StepCases

\* The lists of chroots that main works with.
LEMMA ChrootLists ==
  /\ Append(<<>>, "setup") = <<"setup">>
  /\ Append(<<"setup">>, "install") = <<"setup", "install">>
  /\ RemoveAt(<<"setup">>, 1) = <<>>
  /\ RemoveAt(<<"setup", "install">>, 2) = <<"setup">>
<1> DEFINE S == {"setup", "install"}
           one == <<"setup">>
           two == <<"setup", "install">>
<1>1. Append(<<>>, "setup") = one /\ RemoveAt(one, 1) = <<>>
  BY DEF RemoveAt
<1>2. /\ one \in Seq(S) /\ Len(one) = 1 /\ one[1] = "setup"
      /\ two \in Seq(S) /\ Len(two) = 2 /\ two[1] = "setup" /\ two[2] = "install"
  OBVIOUS
<1>3. /\ Append(one, "install") \in Seq(S) /\ Len(Append(one, "install")) = 2
      /\ Append(one, "install")[1] = "setup" /\ Append(one, "install")[2] = "install"
  BY <1>2, AppendProperties
<1> HIDE DEF S, one, two
<1>4. Append(one, "install") = two
  <2>1. \A i \in 1..2 : Append(one, "install")[i] = two[i]
    BY <1>2, <1>3
  <2> QED BY <1>2, <1>3, <2>1, SeqEqual
<1>5. RemoveAt(two, 2) = one
  <2>1. SubSeq(two, 1, 1) = one
    <3>1. SubSeq(two, 1, 1) \in Seq(S) /\ Len(SubSeq(two, 1, 1)) = 1
          /\ SubSeq(two, 1, 1)[1] = "setup"
      BY <1>2, SubSeqProperties DEF S
    <3> QED BY <1>2, <3>1, SeqEqual
  <2>2. SubSeq(two, 3, 2) = <<>>
    BY <1>2
  <2>3. RemoveAt(two, 2) = SubSeq(two, 1, 1) \o SubSeq(two, 3, 2)
    BY <1>2 DEF RemoveAt
  <2> QED BY <1>2, <2>1, <2>2, <2>3, ConcatEmptySeq
<1> QED BY <1>1, <1>4, <1>5 DEF one, two

\* What is in them.
LEMMA ChrootSets ==
  /\ Range(<<>>) = {}
  /\ Range(<<"setup">>) = {"setup"}
  /\ Range(<<"setup", "install">>) = {"setup", "install"}
BY DEF Range

\* Where the chroot that main closes is in them.
LEMMA ChrootIndex ==
  /\ activeChroots = <<"setup">> => IndexOf("setup") = 1
  /\ activeChroots = <<"setup", "install">> => IndexOf("install") = 2
BY DEF IndexOf

\* Main keeps activeChroots in step with what it has mounted.
LEMMA MountStep ==
  ASSUME ControlOK, MountInv, Next, Alive
  PROVE  MountInv'
<1> USE DEF MountInv, Alive, ControlOK, Inside, Outside, Cleaning, Pooling, Nested, Goto
<1>1. CASE OpenAndClose
  <2>1. CASE LockActive("main", "start", "initialize")
    BY <2>1 DEF LockActive
  <2>2. CASE Initialized("setup", "initialize", "ready")
    BY <2>2, ChrootLists, ChrootSets, ChrootIndex DEF Initialized
  <2>3. CASE InitializeFails("setup", "initialize", "end")
    BY <2>3 DEF InitializeFails
  <2>4. CASE EnterChroot
    BY <2>4 DEF EnterChroot
  <2>5. CASE LeaveChroot
    BY <2>5 DEF LeaveChroot
  <2>6. CASE LockActive("main", "close", "unmount")
    BY <2>6 DEF LockActive
  <2>7. CASE CloseChroot("setup", "unmount", "end")
    BY <2>7, ChrootLists, ChrootSets, ChrootIndex DEF CloseChroot
  <2> QED BY <1>1, <2>1, <2>2, <2>3, <2>4, <2>5, <2>6, <2>7 DEF OpenAndClose
<1>2. CASE RunPool
  BY <1>2 DEF RunPool, StartWorkers, SendRequest, ReceiveResult, ReceiveResultThen,
     WaitWorkers
<1>3. CASE RunBuild
  BY <1>3 DEF RunBuild, StartBuild, ReceiveBuild, BuildTimesOut
<1>4. CASE RunNested
  <2>1. CASE LockActive("main", "nest", "nestinit")
    BY <2>1 DEF LockActive
  <2>2. CASE Initialized("install", "nestinit", "image")
    BY <2>2, ChrootLists, ChrootSets, ChrootIndex DEF Initialized
  <2>3. CASE InitializeFails("install", "nestinit", "leave")
    BY <2>3 DEF InitializeFails
  <2>4. CASE PopulateInstallRoot
    BY <2>4 DEF PopulateInstallRoot
  <2>5. CASE LockActive("main", "unnest", "nestunmount")
    BY <2>5 DEF LockActive
  <2>6. CASE CloseChroot("install", "nestunmount", "leave")
    BY <2>6, ChrootLists, ChrootSets, ChrootIndex DEF CloseChroot
  <2> QED BY <1>4, <2>1, <2>2, <2>3, <2>4, <2>5, <2>6 DEF RunNested
<1>5. CASE End
  BY <1>5, ChrootSets DEF End
<1>6. CASE SignalArrives
  BY <1>6 DEF SignalArrives
<1>7. ASSUME NEW p \in Goroutine, Cleanup(p) PROVE MountInv'
  <2>1. CASE LockActive(p, "lock", "stop")
    BY <2>1 DEF LockActive, Goroutine
  <2>2. CASE PermanentlyStopAllChildProcesses(p)
    BY <2>2 DEF PermanentlyStopAllChildProcesses, Goroutine
  <2>3. CASE LockIn(p)
    BY <2>3 DEF LockIn, Goroutine
  <2>4. CASE CleanupAllChroots(p)
    BY <2>4, ChrootSets DEF CleanupAllChroots, Goroutine, Range
  <2> QED BY <1>7, <2>1, <2>2, <2>3, <2>4 DEF Cleanup
<1>8. ASSUME NEW w \in Workers, Worker(w) PROVE MountInv'
  BY <1>8 DEF Worker, TakeRequest, Hydrate, Download, FinishSpec, Answer, WorkerOnly,
     procVars
<1>9. CASE BuildGoroutine
  BY <1>9 DEF BuildGoroutine, StartCommand, EndCommand, RemoveLibArchivesFromSystem,
     procVars, poolVars
<1> QED BY <1>1, <1>2, <1>3, <1>4, <1>5, <1>6, <1>7, <1>8, <1>9, StepCases

\* Success is the end of main without an error.
LEMMA ExitStep ==
  ASSUME ControlOK, ExitInv, Next, Alive
  PROVE  ExitInv'
<1> USE DEF ExitInv, ControlOK, Alive, Inside, Outside, Cleaning, Pooling, Nested, Goto
<1>1. CASE OpenAndClose
  BY <1>1 DEF OpenAndClose, LockActive, Initialized, InitializeFails, EnterChroot,
     LeaveChroot, CloseChroot
<1>2. CASE RunPool
  BY <1>2 DEF RunPool, StartWorkers, SendRequest, ReceiveResult, ReceiveResultThen,
     WaitWorkers
<1>3. CASE RunBuild
  BY <1>3 DEF RunBuild, StartBuild, ReceiveBuild, BuildTimesOut
<1>4. CASE RunNested
  BY <1>4 DEF RunNested, LockActive, Initialized, InitializeFails, PopulateInstallRoot,
     CloseChroot
<1>5. CASE End
  BY <1>5 DEF End
<1>6. CASE SignalArrives
  BY <1>6 DEF SignalArrives
<1>7. ASSUME NEW p \in Goroutine, Cleanup(p) PROVE ExitInv'
  BY <1>7 DEF Goroutine, Cleanup, LockActive, PermanentlyStopAllChildProcesses, LockIn,
     CleanupAllChroots
<1>8. ASSUME NEW w \in Workers, Worker(w) PROVE ExitInv'
  BY <1>8 DEF Worker, TakeRequest, Hydrate, Download, FinishSpec, Answer, WorkerOnly,
     procVars
<1>9. CASE BuildGoroutine
  BY <1>9 DEF BuildGoroutine, StartCommand, EndCommand, RemoveLibArchivesFromSystem,
     procVars, poolVars
<1> QED BY <1>1, <1>2, <1>3, <1>4, <1>5, <1>6, <1>7, <1>8, <1>9, StepCases

-----------------------------------------------------------------------------
(* The pools.                                                              *)

\* Workers start with a pool, and main waits for them at its end.
LEMMA PoolStep ==
  ASSUME ControlOK, PoolInv, Next, Alive
  PROVE  PoolInv'
<1> USE DEF PoolInv, ControlOK, Gone, Idle, poolVars, Inside, Outside, Cleaning, Pooling,
     Nested, Goto
<1>1. CASE OpenAndClose
  BY <1>1 DEF OpenAndClose, LockActive, Initialized, InitializeFails, EnterChroot,
     LeaveChroot, CloseChroot
<1>2. CASE RunPool
  <2>1. CASE StartWorkers
    BY <2>1 DEF StartWorkers
  <2>2. CASE SendRequest
    BY <2>2 DEF SendRequest
  <2>3. CASE ReceiveResult
    BY <2>3 DEF ReceiveResult, ReceiveResultThen
  <2>4. CASE WaitWorkers
    BY <2>4 DEF WaitWorkers
  <2> QED BY <1>2, <2>1, <2>2, <2>3, <2>4 DEF RunPool
<1>3. CASE RunBuild
  BY <1>3 DEF RunBuild, StartBuild, ReceiveBuild, BuildTimesOut
<1>4. CASE RunNested
  BY <1>4 DEF RunNested, LockActive, Initialized, InitializeFails, PopulateInstallRoot,
     CloseChroot
<1>5. CASE End
  BY <1>5 DEF End
<1>6. CASE SignalArrives
  BY <1>6 DEF SignalArrives
<1>7. ASSUME NEW p \in Goroutine, Cleanup(p) PROVE PoolInv'
  BY <1>7 DEF Goroutine, Cleanup, LockActive, PermanentlyStopAllChildProcesses, LockIn,
     CleanupAllChroots
<1>8. ASSUME NEW w \in Workers, Worker(w) PROVE PoolInv'
  <2>1. CASE TakeRequest(w)
    BY <2>1 DEF TakeRequest, WorkerOnly, procVars
  <2>2. CASE Hydrate(w)
    BY <2>2 DEF Hydrate, Answer, WorkerOnly, procVars
  <2>3. CASE Download(w)
    BY <2>3 DEF Download, Answer, WorkerOnly, procVars
  <2>4. CASE FinishSpec(w)
    BY <2>4 DEF FinishSpec, Answer, WorkerOnly, procVars
  <2> QED BY <1>8, <2>1, <2>2, <2>3, <2>4 DEF Worker
<1>9. CASE BuildGoroutine
  BY <1>9 DEF BuildGoroutine, StartCommand, EndCommand, RemoveLibArchivesFromSystem,
     procVars, poolVars
<1> QED BY <1>1, <1>2, <1>3, <1>4, <1>5, <1>6, <1>7, <1>8, <1>9, StepCases

\* Only SPECs that were marked are packed.
LEMMA PackStep ==
  ASSUME ControlOK, PoolOK, PoolInv, ToolInv, PackInv, EndInv, Next, Alive
  PROVE  PackInv'
<1> USE DEF PackInv, PoolOK, Gone, Idle, Busy, poolVars, Goto
<1>1. CASE OpenAndClose
  BY <1>1 DEF OpenAndClose, LockActive, Initialized, InitializeFails, EnterChroot,
     LeaveChroot, CloseChroot
<1>2. CASE RunPool
  <2>1. CASE StartWorkers
    BY <2>1 DEF StartWorkers, ToolInv, EndInv, FirstPool, ControlOK, Pooled
  <2>2. CASE SendRequest
    BY <2>2 DEF SendRequest
  <2>3. CASE ReceiveResult
    BY <2>3 DEF ReceiveResult, ReceiveResultThen
  <2>4. CASE WaitWorkers
    BY <2>4 DEF WaitWorkers
  <2> QED BY <1>2, <2>1, <2>2, <2>3, <2>4 DEF RunPool
<1>3. CASE RunBuild
  BY <1>3 DEF RunBuild, StartBuild, ReceiveBuild, BuildTimesOut
<1>4. CASE RunNested
  BY <1>4 DEF RunNested, LockActive, Initialized, InitializeFails, PopulateInstallRoot,
     CloseChroot
<1>5. CASE End
  BY <1>5 DEF End
<1>6. CASE SignalArrives
  BY <1>6 DEF SignalArrives
<1>7. ASSUME NEW p \in Goroutine, Cleanup(p) PROVE PackInv'
  BY <1>7 DEF Goroutine, Cleanup, LockActive, PermanentlyStopAllChildProcesses, LockIn,
     CleanupAllChroots
<1>8. ASSUME NEW w \in Workers, Worker(w) PROVE PackInv'
  <2>1. CASE TakeRequest(w)
    BY <2>1 DEF TakeRequest, WorkerOnly, procVars
  <2>2. CASE Hydrate(w)
    <3>1. \A v \in Workers : worker'[v].at \in Busy =>
             /\ worker[v].at \in Busy /\ worker'[v].spec = worker[v].spec
             /\ worker'[v].at = "skip" <=> worker[v].at = "skip"
      <4>1. CASE \E ok \in BOOLEAN : Answer(w, ok)
        BY <4>1 DEF Answer
      <4>2. ASSUME NEW to \in {"work", "download"}, worker' = [worker EXCEPT ![w].at = to]
            PROVE  \A v \in Workers : worker'[v].at \in Busy =>
                      /\ worker[v].at \in Busy /\ worker'[v].spec = worker[v].spec
                      /\ worker'[v].at = "skip" <=> worker[v].at = "skip"
        BY <2>2, <4>2 DEF Hydrate
      <4> QED BY <2>2, <4>1, <4>2 DEF Hydrate
    <3>2. UNCHANGED <<pool, checked, toPack, packed>>
      BY <2>2 DEF Hydrate, WorkerOnly
    <3> QED BY <3>1, <3>2
  <2>3. CASE Download(w)
    BY <2>3 DEF Download, Answer, WorkerOnly, procVars
  <2>4. CASE FinishSpec(w)
    <3>1. \A v \in Workers : worker'[v].at \in Busy => worker'[v] = worker[v]
      BY <2>4 DEF FinishSpec, Answer
    <3>2. /\ pool' = pool
          /\ pool # "calculate" => toPack' = toPack
          /\ packed' = packed \/ (pool = "pack" /\ worker[w].at = "work"
                                  /\ packed' = packed \cup {worker[w].spec})
          /\ checked' = checked \/ checked' = checked \cup {worker[w].spec}
      BY <2>4 DEF FinishSpec, WorkerOnly
    <3>3. worker[w].at \in Busy /\ worker[w].spec \in Specs
      BY <2>4 DEF FinishSpec
    <3> QED BY <3>1, <3>2, <3>3
  <2> QED BY <1>8, <2>1, <2>2, <2>3, <2>4 DEF Worker
<1>9. CASE BuildGoroutine
  BY <1>9 DEF BuildGoroutine, StartCommand, EndCommand, RemoveLibArchivesFromSystem,
     procVars, poolVars
<1> QED BY <1>1, <1>2, <1>3, <1>4, <1>5, <1>6, <1>7, <1>8, <1>9, StepCases

\* Main sends every SPEC, then receives until the first error.
LEMMA StageStep ==
  ASSUME ControlOK, PoolOK, ToolInv, StageInv, Next, Alive
  PROVE  StageInv'
<1> USE ProcessAssumption DEF StageInv, ToolInv, PoolOK, ControlOK, poolVars, Inside,
     Outside, Cleaning, Pooling, Nested, Goto
<1>1. CASE OpenAndClose
  <2>1. CASE LockActive("main", "start", "initialize")
    BY <2>1 DEF LockActive
  <2>2. CASE Initialized("setup", "initialize", "ready")
    BY <2>2 DEF Initialized
  <2>3. CASE InitializeFails("setup", "initialize", "end")
    BY <2>3 DEF InitializeFails
  <2>4. CASE EnterChroot
    BY <2>4 DEF EnterChroot
  <2>5. CASE LeaveChroot
    BY <2>5 DEF LeaveChroot
  <2>6. CASE LockActive("main", "close", "unmount")
    BY <2>6 DEF LockActive
  <2>7. CASE CloseChroot("setup", "unmount", "end")
    BY <2>7 DEF CloseChroot
  <2> QED BY <1>1, <2>1, <2>2, <2>3, <2>4, <2>5, <2>6, <2>7 DEF OpenAndClose
<1>2. CASE RunPool
  <2>1. CASE StartWorkers
    BY <2>1 DEF StartWorkers
  <2>2. CASE SendRequest
    BY <2>2 DEF SendRequest
  <2>3. CASE ReceiveResult
    BY <2>3 DEF ReceiveResult, ReceiveResultThen
  <2>4. CASE WaitWorkers
    BY <2>4 DEF WaitWorkers
  <2> QED BY <1>2, <2>1, <2>2, <2>3, <2>4 DEF RunPool
<1>3. CASE RunBuild
  BY <1>3 DEF RunBuild, StartBuild, ReceiveBuild, BuildTimesOut
<1>4. CASE RunNested
  <2>1. CASE LockActive("main", "nest", "nestinit")
    BY <2>1 DEF LockActive
  <2>2. CASE Initialized("install", "nestinit", "image")
    BY <2>2 DEF Initialized
  <2>3. CASE InitializeFails("install", "nestinit", "leave")
    BY <2>3 DEF InitializeFails
  <2>4. CASE PopulateInstallRoot
    BY <2>4 DEF PopulateInstallRoot
  <2>5. CASE LockActive("main", "unnest", "nestunmount")
    BY <2>5 DEF LockActive
  <2>6. CASE CloseChroot("install", "nestunmount", "leave")
    BY <2>6 DEF CloseChroot
  <2> QED BY <1>4, <2>1, <2>2, <2>3, <2>4, <2>5, <2>6 DEF RunNested
<1>5. CASE End
  BY <1>5 DEF End
<1>6. CASE SignalArrives
  BY <1>6 DEF SignalArrives
<1>7. ASSUME NEW p \in Goroutine, Cleanup(p) PROVE StageInv'
  <2>1. CASE LockActive(p, "lock", "stop")
    BY <2>1 DEF LockActive, Goroutine
  <2>2. CASE PermanentlyStopAllChildProcesses(p)
    BY <2>2 DEF PermanentlyStopAllChildProcesses, Goroutine
  <2>3. CASE LockIn(p)
    BY <2>3 DEF LockIn, Goroutine
  <2>4. CASE CleanupAllChroots(p)
    BY <2>4 DEF CleanupAllChroots, Goroutine
  <2> QED BY <1>7, <2>1, <2>2, <2>3, <2>4 DEF Cleanup
<1>8. ASSUME NEW w \in Workers, Worker(w) PROVE StageInv'
  <2>1. CASE TakeRequest(w)
    BY <2>1 DEF TakeRequest, WorkerOnly, procVars
  <2>2. CASE Hydrate(w)
    BY <2>2 DEF Hydrate, Answer, WorkerOnly, procVars
  <2>3. CASE Download(w)
    BY <2>3 DEF Download, Answer, WorkerOnly, procVars
  <2>4. CASE FinishSpec(w)
    BY <2>4 DEF FinishSpec, Answer, WorkerOnly, procVars
  <2> QED BY <1>8, <2>1, <2>2, <2>3, <2>4 DEF Worker
<1>9. CASE BuildGoroutine
  BY <1>9 DEF BuildGoroutine, StartCommand, EndCommand, RemoveLibArchivesFromSystem,
     procVars, poolVars
<1> QED BY <1>1, <1>2, <1>3, <1>4, <1>5, <1>6, <1>7, <1>8, <1>9, StepCases

\* A worker step without a failure moves a SPEC on and loses none.
LEMMA WorkerCount ==
  ASSUME PoolOK, StageInv, CountInv, NEW w \in Workers, Worker(w)
  PROVE  CountInv'
<1>0. pc' = pc /\ err' = err
  BY DEF Worker, TakeRequest, Hydrate, Download, FinishSpec, WorkerOnly, procVars
<1> SUFFICES ASSUME pc.main \in Pooling, ~err
             PROVE  (received + Len(results) + Cardinality(BusyWorkers) + Len(requests) = sent)'
  BY <1>0 DEF CountInv
<1>1. received + Len(results) + Cardinality(BusyWorkers) + Len(requests) = sent
  BY DEF CountInv
<1>2. received' = received /\ sent' = sent /\ ~cancelled
  BY DEF Worker, TakeRequest, Hydrate, Download, FinishSpec, WorkerOnly, StageInv
<1>3. IsFiniteSet(BusyWorkers) /\ Cardinality(BusyWorkers) \in Nat
  BY ProcessAssumption, FS_Subset, FS_CardinalityType DEF BusyWorkers
<1>4. Len(requests) \in Nat /\ Len(results) \in Nat /\ received \in Nat
  BY DEF PoolOK
<1>5. ASSUME worker[w].at \in Busy, NEW ok \in BOOLEAN, Answer(w, ok), requests' = requests
      PROVE  (received + Len(results) + Cardinality(BusyWorkers) + Len(requests) = sent)'
  <2>1. BusyWorkers' = BusyWorkers \ {w} /\ w \in BusyWorkers
    BY <1>5 DEF BusyWorkers, Answer, Idle, Busy, PoolOK
  <2>2. Cardinality(BusyWorkers') = Cardinality(BusyWorkers) - 1
    BY <1>3, <2>1, FS_RemoveElement
  <2>3. Len(results') = Len(results) + 1
    BY <1>5 DEF Answer, PoolOK
  <2> QED BY <1>1, <1>2, <1>3, <1>4, <1>5, <2>2, <2>3
<1>6. ASSUME worker[w].at \in Busy, NEW to \in Busy, worker' = [worker EXCEPT ![w].at = to],
             results' = results, requests' = requests
      PROVE  (received + Len(results) + Cardinality(BusyWorkers) + Len(requests) = sent)'
  <2>1. BusyWorkers' = BusyWorkers
    BY <1>6 DEF BusyWorkers, Busy, PoolOK
  <2> QED BY <1>1, <1>2, <1>6, <2>1
<1>7. CASE TakeRequest(w)
  <2>1. CASE requests = <<>>
    <3>1. BusyWorkers' = BusyWorkers
      BY <1>7, <2>1 DEF TakeRequest, BusyWorkers, Busy, Gone, PoolOK
    <3> QED BY <1>1, <1>2, <1>7, <2>1, <3>1 DEF TakeRequest
  <2>2. CASE requests # <<>>
    <3>1. BusyWorkers' = BusyWorkers \cup {w} /\ w \notin BusyWorkers
      BY <1>2, <1>7, <2>2 DEF TakeRequest, BusyWorkers, Busy, PoolOK
    <3>2. Cardinality(BusyWorkers') = Cardinality(BusyWorkers) + 1
      BY <1>3, <3>1, FS_AddElement
    <3>3. Len(requests') = Len(requests) - 1
      BY <1>7, <2>2 DEF TakeRequest, PoolOK
    <3>4. results' = results
      BY <1>7 DEF TakeRequest
    <3> QED BY <1>1, <1>2, <1>3, <1>4, <3>2, <3>3, <3>4
  <2> QED BY <2>1, <2>2
<1>8. CASE Hydrate(w) \/ Download(w)
  BY <1>5, <1>6, <1>8 DEF Hydrate, Download, Busy
<1>9. CASE FinishSpec(w)
  BY <1>5, <1>9 DEF FinishSpec, Busy
<1> QED BY <1>7, <1>8, <1>9 DEF Worker

\* As many results are to come as there are SPECs out.
LEMMA CountStep ==
  ASSUME ControlOK, PoolOK, ToolInv, StageInv, CountInv, Next, Alive
  PROVE  CountInv'
<1> USE DEF CountInv, BusyWorkers, Pooling, ControlOK, poolVars, Goto
<1>1. CASE OpenAndClose
  <2>1. CASE LockActive("main", "start", "initialize")
    BY <2>1 DEF LockActive
  <2>2. CASE Initialized("setup", "initialize", "ready")
    BY <2>2 DEF Initialized
  <2>3. CASE InitializeFails("setup", "initialize", "end")
    BY <2>3 DEF InitializeFails
  <2>4. CASE EnterChroot
    BY <2>4 DEF EnterChroot
  <2>5. CASE LeaveChroot
    BY <2>5 DEF LeaveChroot
  <2>6. CASE LockActive("main", "close", "unmount")
    BY <2>6 DEF LockActive
  <2>7. CASE CloseChroot("setup", "unmount", "end")
    BY <2>7 DEF CloseChroot
  <2> QED BY <1>1, <2>1, <2>2, <2>3, <2>4, <2>5, <2>6, <2>7 DEF OpenAndClose
<1>2. CASE RunPool
  <2>1. CASE StartWorkers
    <3>1. BusyWorkers' = {}
      BY <2>1 DEF StartWorkers, Idle, Busy
    <3>2. Cardinality(BusyWorkers') = 0
      BY <3>1, FS_EmptySet
    <3> HIDE DEF BusyWorkers
    <3>3. Len(results') = 0 /\ Len(requests') = 0 /\ received' = 0 /\ sent' = 0
      BY <2>1 DEF StartWorkers
    <3> QED BY <3>2, <3>3
  <2>2. CASE SendRequest
    <3>1. BusyWorkers' = BusyWorkers
      BY <2>2 DEF SendRequest
    <3>2. Cardinality(BusyWorkers) \in Nat
      BY ProcessAssumption, FS_Subset, FS_CardinalityType DEF BusyWorkers
    <3> HIDE DEF BusyWorkers
    <3>3. Len(requests') = Len(requests) + 1 /\ sent' = sent + 1 /\ Len(requests) \in Nat
      BY <2>2 DEF SendRequest, PoolOK
    <3> QED BY <2>2, <3>1, <3>2, <3>3 DEF SendRequest, PoolOK
  <2>3. CASE ReceiveResult
    <3>1. BusyWorkers' = BusyWorkers
      BY <2>3 DEF ReceiveResult, ReceiveResultThen
    <3>2. Cardinality(BusyWorkers) \in Nat
      BY ProcessAssumption, FS_Subset, FS_CardinalityType DEF BusyWorkers
    <3> HIDE DEF BusyWorkers
    <3>3. Len(results') = Len(results) - 1 /\ Len(results) \in Nat /\ Len(requests) \in Nat
      BY <2>3 DEF ReceiveResult, ReceiveResultThen, PoolOK
    <3> QED BY <2>3, <3>1, <3>2, <3>3 DEF ReceiveResult, ReceiveResultThen, PoolOK, StageInv
  <2>4. CASE WaitWorkers
    BY <2>4 DEF WaitWorkers
  <2> QED BY <1>2, <2>1, <2>2, <2>3, <2>4 DEF RunPool
<1>3. CASE RunBuild
  BY <1>3 DEF RunBuild, StartBuild, ReceiveBuild, BuildTimesOut
<1>4. CASE RunNested
  <2>1. CASE LockActive("main", "nest", "nestinit")
    BY <2>1 DEF LockActive
  <2>2. CASE Initialized("install", "nestinit", "image")
    BY <2>2 DEF Initialized
  <2>3. CASE InitializeFails("install", "nestinit", "leave")
    BY <2>3 DEF InitializeFails
  <2>4. CASE PopulateInstallRoot
    BY <2>4 DEF PopulateInstallRoot
  <2>5. CASE LockActive("main", "unnest", "nestunmount")
    BY <2>5 DEF LockActive
  <2>6. CASE CloseChroot("install", "nestunmount", "leave")
    BY <2>6 DEF CloseChroot
  <2> QED BY <1>4, <2>1, <2>2, <2>3, <2>4, <2>5, <2>6 DEF RunNested
<1>5. CASE End
  BY <1>5 DEF End
<1>6. CASE SignalArrives
  BY <1>6 DEF SignalArrives
<1>7. ASSUME NEW p \in Goroutine, Cleanup(p) PROVE CountInv'
  <2>1. CASE LockActive(p, "lock", "stop")
    BY <2>1 DEF LockActive, Goroutine
  <2>2. CASE PermanentlyStopAllChildProcesses(p)
    BY <2>2 DEF PermanentlyStopAllChildProcesses, Goroutine
  <2>3. CASE LockIn(p)
    BY <2>3 DEF LockIn, Goroutine
  <2>4. CASE CleanupAllChroots(p)
    BY <2>4 DEF CleanupAllChroots, Goroutine
  <2> QED BY <1>7, <2>1, <2>2, <2>3, <2>4 DEF Cleanup
<1>8. ASSUME NEW w \in Workers, Worker(w) PROVE CountInv'
  BY <1>8, WorkerCount
<1>9. CASE BuildGoroutine
  BY <1>9 DEF BuildGoroutine, StartCommand, EndCommand, RemoveLibArchivesFromSystem,
     procVars, poolVars
<1> QED BY <1>1, <1>2, <1>3, <1>4, <1>5, <1>6, <1>7, <1>8, <1>9, StepCases

\* A worker step without a failure keeps account of every SPEC.
LEMMA WorkerCover ==
  ASSUME PoolOK, PackInv, StageInv, CoverInv, NEW w \in Workers, Worker(w)
  PROVE  CoverInv'
<1>1. pc' = pc /\ err' = err /\ sent' = sent /\ pool' = pool
  BY DEF Worker, TakeRequest, Hydrate, Download, FinishSpec, WorkerOnly, procVars
<1> SUFFICES ASSUME pc.main \in Pooling, ~err, NEW s \in 1..sent
             PROVE  Accounted(s)'
  BY <1>1 DEF CoverInv
<1>2. Accounted(s) /\ ~cancelled
  BY DEF CoverInv, StageInv
<1>3. /\ checked \subseteq checked' /\ packed \subseteq packed'
      /\ pool = "pack" => toPack' = toPack
  BY DEF Worker, TakeRequest, Hydrate, Download, FinishSpec, WorkerOnly
<1>4. Completed(s) => Accounted(s)'
  BY <1>1, <1>3 DEF Completed, Accounted
<1>5. ASSUME worker[w].at \in Busy, NEW ok \in BOOLEAN, Answer(w, ok), requests' = requests,
             ok => \A t \in Specs : t = worker[w].spec => Completed(t)'
      PROVE  Accounted(s)'
  <2>1. CASE \E i \in DOMAIN requests : requests[i] = s
    BY <1>5, <2>1 DEF Accounted
  <2>2. CASE worker[w].spec = s
    <3>1. CASE ok
      <4>1. worker[w].spec \in Specs
        BY <1>5 DEF PoolOK, Busy
      <4> QED BY <1>5, <2>2, <3>1, <4>1 DEF Accounted
    <3>2. CASE ~ok
      <4>1. Len(results) + 1 \in DOMAIN results'
            /\ results'[Len(results) + 1] = [spec |-> s, ok |-> ok]
        BY <1>5, <2>2 DEF Answer, PoolOK
      <4> QED BY <3>2, <4>1 DEF Accounted
    <3> QED BY <3>1, <3>2
  <2>3. ASSUME NEW v \in Workers, worker[v].at \in Busy, worker[v].spec = s, v # w
        PROVE  Accounted(s)'
    BY <1>5, <2>3 DEF Answer, Accounted, PoolOK
  <2>4. ASSUME NEW i \in DOMAIN results, results[i].spec = s, ~results[i].ok
        PROVE  Accounted(s)'
    <3>1. i \in DOMAIN results' /\ results'[i] = results[i]
      BY <1>5, <2>4 DEF Answer, PoolOK
    <3> QED BY <2>4, <3>1 DEF Accounted
  <2> QED BY <1>2, <1>4, <2>1, <2>2, <2>3, <2>4 DEF Accounted
<1>6. ASSUME worker[w].at \in Busy, NEW to \in Busy, worker' = [worker EXCEPT ![w].at = to],
             results' = results, requests' = requests
      PROVE  Accounted(s)'
  <2>1. \A v \in Workers : worker[v].at \in Busy =>
           worker'[v].at \in Busy /\ worker'[v].spec = worker[v].spec
    BY <1>6 DEF PoolOK, Busy
  <2> QED BY <1>2, <1>4, <1>6, <2>1 DEF Accounted
<1>7. CASE TakeRequest(w)
  <2>1. results' = results
    BY <1>7 DEF TakeRequest
  <2>2. \A v \in Workers : worker[v].at \in Busy => worker'[v] = worker[v]
    BY <1>7 DEF TakeRequest, Busy, PoolOK
  <2>3. ASSUME NEW i \in DOMAIN requests, requests[i] = s
        PROVE  Accounted(s)'
    <3>1. requests # <<>> /\ requests' = Tail(requests)
      BY <1>7, <2>3 DEF TakeRequest, PoolOK
    <3>2. CASE i = 1
      <4>1. worker'[w].at \in Busy /\ worker'[w].spec = s
        BY <1>2, <1>7, <2>3, <3>1, <3>2 DEF TakeRequest, PoolOK, Busy
      <4> QED BY <4>1 DEF Accounted
    <3>3. CASE i # 1
      <4>1. i - 1 \in DOMAIN requests' /\ requests'[i - 1] = s
        BY <2>3, <3>1, <3>3 DEF PoolOK
      <4> QED BY <4>1 DEF Accounted
    <3> QED BY <3>2, <3>3
  <2> QED BY <1>2, <1>4, <2>1, <2>2, <2>3 DEF Accounted
<1>8. CASE Hydrate(w) \/ Download(w)
  BY <1>5, <1>6, <1>8 DEF Hydrate, Download, Busy
<1>9. CASE FinishSpec(w)
  <2>1. worker[w].at \in Busy /\ requests' = requests
    BY <1>9 DEF FinishSpec, Busy
  <2>2. CASE Answer(w, FALSE)
    BY <1>5, <2>1, <2>2
  <2>3. CASE ~Answer(w, FALSE)
    <3>1. /\ Answer(w, TRUE)
          /\ checked' = checked \cup {worker[w].spec}
          /\ pool = "pack" /\ worker[w].at = "work" => packed' = packed \cup {worker[w].spec}
          /\ worker[w].at \in {"work", "skip"}
      BY <1>9, <2>3 DEF FinishSpec
    <3>2. pool = "pack" /\ worker[w].at = "skip" => worker[w].spec \notin toPack
      BY <2>1 DEF PackInv
    <3>3. ASSUME NEW t \in Specs, t = worker[w].spec PROVE Completed(t)'
      BY <1>1, <1>3, <3>1, <3>2, <3>3 DEF Completed
    <3> QED BY <1>5, <2>1, <3>1, <3>3
  <2> QED BY <2>2, <2>3
<1> QED BY <1>7, <1>8, <1>9 DEF Worker

\* Until the first failure every SPEC that was sent is accounted for.
LEMMA CoverStep ==
  ASSUME ControlOK, PoolOK, ToolInv, PackInv, StageInv, CoverInv, Next, Alive
  PROVE  CoverInv'
<1> USE DEF Pooling, ControlOK, poolVars, Goto
<1>a. ASSUME pc'.main \notin Pooling PROVE CoverInv'
  BY <1>a DEF CoverInv
<1>b. ASSUME pc'.main = pc.main, pc.main \in Pooling => err' = err, UNCHANGED poolVars
      PROVE  CoverInv'
  BY <1>b DEF CoverInv, Accounted, Completed
<1>1. CASE OpenAndClose
  <2>1. CASE LockActive("main", "start", "initialize")
    BY <2>1, <1>a, <1>b DEF LockActive
  <2>2. CASE Initialized("setup", "initialize", "ready")
    BY <2>2, <1>a, <1>b DEF Initialized
  <2>3. CASE InitializeFails("setup", "initialize", "end")
    BY <2>3, <1>a, <1>b DEF InitializeFails
  <2>4. CASE EnterChroot
    BY <2>4, <1>a, <1>b DEF EnterChroot
  <2>5. CASE LeaveChroot
    BY <2>5, <1>a, <1>b DEF LeaveChroot
  <2>6. CASE LockActive("main", "close", "unmount")
    BY <2>6, <1>a, <1>b DEF LockActive
  <2>7. CASE CloseChroot("setup", "unmount", "end")
    BY <2>7, <1>a, <1>b DEF CloseChroot
  <2> QED BY <1>1, <2>1, <2>2, <2>3, <2>4, <2>5, <2>6, <2>7 DEF OpenAndClose
<1>2. CASE RunPool
  <2>1. CASE StartWorkers
    BY <2>1, <1>a, <1>b DEF StartWorkers, CoverInv
  <2>2. CASE SendRequest
    <3> SUFFICES ASSUME NEW s \in 1..sent'
                 PROVE  Accounted(s)'
      BY <2>2 DEF CoverInv
    <3>1. sent' = sent + 1 /\ sent \in Nat
      BY <2>2 DEF SendRequest, PoolOK
    <3>2. CASE s = sent + 1
      <4>1. Len(requests) + 1 \in DOMAIN requests' /\ requests'[Len(requests) + 1] = s
        BY <2>2, <3>2 DEF SendRequest, PoolOK
      <4> QED BY <4>1 DEF Accounted
    <3>3. CASE s # sent + 1
      <4>1. Accounted(s)
        BY <2>2, <3>1, <3>3 DEF CoverInv, StageInv, SendRequest
      <4>2. \A i \in DOMAIN requests : i \in DOMAIN requests' /\ requests'[i] = requests[i]
        BY <2>2 DEF SendRequest, PoolOK
      <4>3. UNCHANGED <<results, worker, pool, checked, toPack, packed>>
        BY <2>2 DEF SendRequest
      <4> QED BY <4>1, <4>2, <4>3 DEF Accounted, Completed
    <3> QED BY <3>2, <3>3
  <2>3. CASE ReceiveResult
    <3> SUFFICES ASSUME ~err', NEW s \in 1..sent
                 PROVE  Accounted(s)'
      BY <2>3 DEF CoverInv, ReceiveResult, ReceiveResultThen
    <3>1. ~err /\ results # <<>> /\ results' = Tail(results) /\ Head(results).ok
      BY <2>3 DEF ReceiveResult, ReceiveResultThen
    <3>2. Accounted(s)
      BY <2>3, <3>1 DEF CoverInv, ReceiveResult, ReceiveResultThen
    <3>3. UNCHANGED <<requests, worker, pool, checked, toPack, packed>>
      BY <2>3 DEF ReceiveResult, ReceiveResultThen
    <3>4. ASSUME NEW i \in DOMAIN results, results[i].spec = s, ~results[i].ok
          PROVE  Accounted(s)'
      <4>1. i # 1
        BY <3>1, <3>4 DEF PoolOK
      <4>2. i - 1 \in DOMAIN results' /\ results'[i - 1] = results[i]
        BY <3>1, <4>1 DEF PoolOK
      <4> QED BY <3>4, <4>2 DEF Accounted
    <3> QED BY <3>2, <3>3, <3>4 DEF Accounted, Completed
  <2>4. CASE WaitWorkers
    BY <2>4, <1>a, <1>b DEF WaitWorkers, CoverInv
  <2> QED BY <1>2, <2>1, <2>2, <2>3, <2>4 DEF RunPool
<1>3. CASE RunBuild
  BY <1>3, <1>a, <1>b DEF RunBuild, StartBuild, ReceiveBuild, BuildTimesOut
<1>4. CASE RunNested
  <2>1. CASE LockActive("main", "nest", "nestinit")
    BY <2>1, <1>a, <1>b DEF LockActive
  <2>2. CASE Initialized("install", "nestinit", "image")
    BY <2>2, <1>a, <1>b DEF Initialized
  <2>3. CASE InitializeFails("install", "nestinit", "leave")
    BY <2>3, <1>a, <1>b DEF InitializeFails
  <2>4. CASE PopulateInstallRoot
    BY <2>4, <1>a, <1>b DEF PopulateInstallRoot
  <2>5. CASE LockActive("main", "unnest", "nestunmount")
    BY <2>5, <1>a, <1>b DEF LockActive
  <2>6. CASE CloseChroot("install", "nestunmount", "leave")
    BY <2>6, <1>a, <1>b DEF CloseChroot
  <2> QED BY <1>4, <2>1, <2>2, <2>3, <2>4, <2>5, <2>6 DEF RunNested
<1>5. CASE End
  BY <1>5, <1>a, <1>b DEF End
<1>6. CASE SignalArrives
  BY <1>6, <1>a, <1>b DEF SignalArrives
<1>7. ASSUME NEW p \in Goroutine, Cleanup(p) PROVE CoverInv'
  <2>1. CASE LockActive(p, "lock", "stop")
    BY <2>1, <1>a, <1>b DEF LockActive, Goroutine
  <2>2. CASE PermanentlyStopAllChildProcesses(p)
    BY <2>2, <1>a, <1>b DEF PermanentlyStopAllChildProcesses, Goroutine
  <2>3. CASE LockIn(p)
    BY <2>3, <1>a, <1>b DEF LockIn, Goroutine
  <2>4. CASE CleanupAllChroots(p)
    BY <2>4, <1>a, <1>b DEF CleanupAllChroots, Goroutine
  <2> QED BY <1>7, <2>1, <2>2, <2>3, <2>4 DEF Cleanup
<1>8. ASSUME NEW w \in Workers, Worker(w) PROVE CoverInv'
  BY <1>8, WorkerCover
<1>9. CASE BuildGoroutine
  BY <1>9, <1>a, <1>b DEF BuildGoroutine, StartCommand, EndCommand,
     RemoveLibArchivesFromSystem, procVars, poolVars
<1> QED BY <1>1, <1>2, <1>3, <1>4, <1>5, <1>6, <1>7, <1>8, <1>9, StepCases

\* A pool that ends without an error has completed every SPEC.
LEMMA EndStep ==
  ASSUME TypeOK, PoolInv, ToolInv, SpecsInv, Next, Alive
  PROVE  EndInv'
<1> USE DEF TypeOK, SpecsInv, Pooling, Nested, Pooled, poolVars, Goto
<1>a. ASSUME pc'.main \notin {"wait", "startpool", "leave", "close", "unmount", "end"}
      PROVE  EndInv'
  BY <1>a DEF EndInv
<1>b. ASSUME pc'.main = pc.main, err' = err, tool' = tool, UNCHANGED poolVars PROVE EndInv'
  BY <1>b DEF EndInv, AllCompleted, Completed
<1>c. ASSUME pc'.main \in {"leave", "close", "unmount", "end"}, tool' = tool,
             UNCHANGED poolVars,
             err' \/ ~Pooled \/ (pc.main \in {"leave", "close", "unmount", "end"} /\ ~err)
      PROVE  EndInv'
  BY <1>c DEF EndInv
<1>d. ASSUME pc'.main = "startpool", UNCHANGED poolVars, pool = "none" PROVE EndInv'
  BY <1>d DEF EndInv
<1>1. CASE OpenAndClose
  <2>1. CASE LockActive("main", "start", "initialize")
    BY <2>1, <1>a, <1>b, <1>c, <1>d DEF ToolInv, ControlOK, LockActive
  <2>2. CASE Initialized("setup", "initialize", "ready")
    BY <2>2, <1>a, <1>b, <1>c, <1>d DEF ToolInv, ControlOK, Initialized
  <2>3. CASE InitializeFails("setup", "initialize", "end")
    BY <2>3, <1>a, <1>b, <1>c, <1>d DEF ToolInv, ControlOK, InitializeFails
  <2>4. CASE EnterChroot
    BY <2>4, <1>a, <1>b, <1>c, <1>d DEF ToolInv, ControlOK, EnterChroot
  <2>5. CASE LeaveChroot
    BY <2>5, <1>a, <1>b, <1>c, <1>d DEF ToolInv, ControlOK, LeaveChroot
  <2>6. CASE LockActive("main", "close", "unmount")
    BY <2>6, <1>a, <1>b, <1>c, <1>d DEF ToolInv, ControlOK, LockActive
  <2>7. CASE CloseChroot("setup", "unmount", "end")
    BY <2>7, <1>a, <1>b, <1>c, <1>d DEF ToolInv, ControlOK, CloseChroot
  <2> QED BY <1>1, <2>1, <2>2, <2>3, <2>4, <2>5, <2>6, <2>7 DEF OpenAndClose
<1>2. CASE RunPool
  <2>1. CASE StartWorkers
    BY <2>1, <1>a, <1>b, <1>c, <1>d DEF ToolInv, ControlOK, StartWorkers, EndInv
  <2>2. CASE SendRequest
    BY <2>2, <1>a, <1>b, <1>c, <1>d DEF ToolInv, ControlOK, SendRequest, EndInv
  <2>3. CASE ReceiveResult
    <3> SUFFICES ASSUME pc'.main = "wait", ~err', NEW s \in Specs
                 PROVE  Completed(s)'
      BY <2>3 DEF EndInv, AllCompleted, ReceiveResult, ReceiveResultThen, ControlOK
    <3>1. pc.main = "collect" /\ ~err /\ results # <<>> /\ Head(results).ok
      BY <2>3 DEF ReceiveResult, ReceiveResultThen
    <3>a. ~(received + 1 < NumSpecs)
      BY <2>3, <3>1 DEF ReceiveResult, ReceiveResultThen, ControlOK
    <3>b. received < NumSpecs /\ sent = NumSpecs /\ NumSpecs \in Nat
      BY <3>1, ProcessAssumption DEF StageInv
    <3>2. Len(results) \in Nat \ {0} /\ Len(requests) \in Nat /\ received \in Nat
      BY <3>1 DEF PoolOK
    <3>3. IsFiniteSet(BusyWorkers) /\ Cardinality(BusyWorkers) \in Nat
      BY ProcessAssumption, FS_Subset, FS_CardinalityType DEF BusyWorkers
    <3>4. received + Len(results) + Cardinality(BusyWorkers) + Len(requests) = sent
      BY <3>1 DEF CountInv
    <3>5. Len(results) = 1 /\ Cardinality(BusyWorkers) = 0 /\ Len(requests) = 0
      <4> HIDE DEF SpecsInv, TypeOK
      <4>1. sent = received + 1
        BY <3>2, <3>a, <3>b
      <4>2. \A a, b, c, d \in Nat :
               a # 0 /\ d + a + b + c = d + 1 => a = 1 /\ b = 0 /\ c = 0
        OBVIOUS
      <4>3. received + Len(results) + Cardinality(BusyWorkers) + Len(requests) = received + 1
        BY <3>4, <4>1
      <4> QED BY <3>2, <3>3, <4>2, <4>3
    <3>6. BusyWorkers = {} /\ DOMAIN requests = {} /\ DOMAIN results = {1}
      BY <3>3, <3>5, FS_EmptySet DEF PoolOK
    <3>7. Accounted(s)
      BY <3>1, <3>b DEF CoverInv, Specs
    <3>8. Completed(s)
      BY <3>1, <3>6, <3>7 DEF Accounted, BusyWorkers, PoolOK
    <3>9. UNCHANGED <<pool, checked, toPack, packed>>
      BY <2>3 DEF ReceiveResult, ReceiveResultThen
    <3> QED BY <3>8, <3>9 DEF Completed
  <2>4. CASE WaitWorkers
    <3>1. UNCHANGED <<pool, checked, toPack, packed, err, tool>>
      BY <2>4 DEF WaitWorkers
    <3>2. /\ pc.main = "wait"
          /\ pc'.main = IF pool = "calculate" /\ ~err THEN "startpool" ELSE "leave"
      BY <2>4 DEF WaitWorkers, ControlOK
    <3>3. ~err => AllCompleted
      BY <3>2 DEF EndInv
    <3>4. AllCompleted /\ pool # "pack" => checked = Specs
      BY DEF AllCompleted, Completed, PoolOK
    <3>5. AllCompleted /\ pool = "pack" => checked = Specs /\ packed = toPack
      BY DEF AllCompleted, Completed, PoolOK, PackInv
    <3>6. pool = "parse" => packed = toPack
      BY DEF PackInv
    <3>7. pool \in {"calculate", "pack", "parse"}
      BY <3>2 DEF ToolInv, PoolOK
    <3> QED BY <3>1, <3>2, <3>3, <3>4, <3>5, <3>6, <3>7 DEF EndInv
  <2> QED BY <1>2, <2>1, <2>2, <2>3, <2>4 DEF RunPool
<1>3. CASE RunBuild
  <2>1. CASE StartBuild
    BY <2>1, <1>a, <1>b, <1>c, <1>d DEF ToolInv, ControlOK, StartBuild
  <2>2. CASE ReceiveBuild
    BY <2>2, <1>a, <1>b, <1>c, <1>d DEF ToolInv, ControlOK, ReceiveBuild
  <2>3. CASE BuildTimesOut
    BY <2>3, <1>a, <1>b, <1>c, <1>d DEF ToolInv, ControlOK, BuildTimesOut
  <2> QED BY <1>3, <2>1, <2>2, <2>3 DEF RunBuild
<1>4. CASE RunNested
  <2>1. CASE LockActive("main", "nest", "nestinit")
    BY <2>1, <1>a, <1>b, <1>c, <1>d DEF ToolInv, ControlOK, LockActive
  <2>2. CASE Initialized("install", "nestinit", "image")
    BY <2>2, <1>a, <1>b, <1>c, <1>d DEF ToolInv, ControlOK, Initialized
  <2>3. CASE InitializeFails("install", "nestinit", "leave")
    BY <2>3, <1>a, <1>b, <1>c, <1>d DEF ToolInv, ControlOK, InitializeFails
  <2>4. CASE PopulateInstallRoot
    BY <2>4, <1>a, <1>b, <1>c, <1>d DEF ToolInv, ControlOK, PopulateInstallRoot
  <2>5. CASE LockActive("main", "unnest", "nestunmount")
    BY <2>5, <1>a, <1>b, <1>c, <1>d DEF ToolInv, ControlOK, LockActive
  <2>6. CASE CloseChroot("install", "nestunmount", "leave")
    BY <2>6, <1>a, <1>b, <1>c, <1>d DEF ToolInv, ControlOK, CloseChroot
  <2> QED BY <1>4, <2>1, <2>2, <2>3, <2>4, <2>5, <2>6 DEF RunNested
<1>5. CASE End
  BY <1>5, <1>a, <1>b, <1>c, <1>d DEF ToolInv, ControlOK, End
<1>6. CASE SignalArrives
  BY <1>6, <1>a, <1>b, <1>c, <1>d DEF ToolInv, ControlOK, SignalArrives
<1>7. ASSUME NEW p \in Goroutine, Cleanup(p) PROVE EndInv'
  <2>1. CASE LockActive(p, "lock", "stop")
    BY <2>1, <1>a, <1>b, <1>c, <1>d DEF ToolInv, ControlOK, LockActive, Goroutine
  <2>2. CASE PermanentlyStopAllChildProcesses(p)
    BY <2>2, <1>a, <1>b, <1>c, <1>d DEF ToolInv, ControlOK,
       PermanentlyStopAllChildProcesses, Goroutine
  <2>3. CASE LockIn(p)
    BY <2>3, <1>a, <1>b, <1>c, <1>d DEF ToolInv, ControlOK, LockIn, Goroutine
  <2>4. CASE CleanupAllChroots(p)
    BY <2>4, <1>a, <1>b, <1>c, <1>d DEF ToolInv, ControlOK, CleanupAllChroots, Goroutine
  <2> QED BY <1>7, <2>1, <2>2, <2>3, <2>4 DEF Cleanup
<1>8. ASSUME NEW w \in Workers, Worker(w) PROVE EndInv'
  <2>1. pc' = pc /\ err' = err /\ tool' = tool /\ pool' = pool
    BY <1>8 DEF Worker, TakeRequest, Hydrate, Download, FinishSpec, WorkerOnly, procVars
  <2>2. CASE pc.main \in Pooling
    <3>1. checked \subseteq checked' /\ packed \subseteq packed'
          /\ (pool = "pack" => toPack' = toPack)
      BY <1>8 DEF Worker, TakeRequest, Hydrate, Download, FinishSpec, WorkerOnly
    <3>2. AllCompleted => AllCompleted'
      BY <2>1, <3>1 DEF AllCompleted, Completed
    <3> QED BY <2>1, <2>2, <3>2 DEF EndInv
  <2>3. CASE pc.main \notin Pooling
    <3>1. worker[w].at = "gone"
      BY <2>3 DEF PoolInv, Gone
    <3> QED BY <1>8, <3>1 DEF Worker, TakeRequest, Hydrate, Download, FinishSpec
  <2> QED BY <2>2, <2>3
<1>9. CASE BuildGoroutine
  BY <1>9, <1>a, <1>b, <1>c, <1>d DEF ToolInv, ControlOK, BuildGoroutine, StartCommand,
     EndCommand, RemoveLibArchivesFromSystem, procVars, poolVars
<1> QED BY <1>1, <1>2, <1>3, <1>4, <1>5, <1>6, <1>7, <1>8, <1>9, StepCases

-----------------------------------------------------------------------------
(* The invariant holds at first, and every step keeps it.                  *)

\* A tool starts on the host, with nothing mounted and no goroutine but main.
LEMMA InitInv == Init => ChrootInv
<1> SUFFICES ASSUME Init PROVE ChrootInv
  OBVIOUS
<1>1. ControlOK
  BY DEF Init, ControlOK, Inside, Outside, Cleaning, Pooling, Nested
<1>2. BuildOK
  BY DEF Init, BuildOK
<1>3. PoolOK
  <2>1. worker \in [Workers -> [at : {"idle", "gone"}, spec : {0}]
                                \cup [at : Busy, spec : Specs]]
    BY DEF Init, Gone
  <2>2. requests \in Seq(Specs) /\ results \in Seq([spec : Specs, ok : BOOLEAN])
    BY DEF Init
  <2> QED BY <2>1, <2>2 DEF Init, PoolOK
<1>4. RootInv /\ PoolInv /\ ToolInv /\ ExitInv
  BY DEF Init, RootInv, PoolInv, ToolInv, ExitInv, Pooling, Nested, Inside, Gone, Pooled
<1>5. MountInv
  <2>1. activeChroots = <<>> /\ mounted = {} /\ pc.main = "start"
    BY DEF Init
  <2>2. Range(activeChroots) = {}
    BY <2>1 DEF Range
  <2> QED BY <2>1, <2>2 DEF MountInv
<1>6. SpecsInv
  BY DEF Init, SpecsInv, PackInv, StageInv, CountInv, CoverInv, EndInv, Pooling, Gone, Busy
<1> QED BY <1>1, <1>2, <1>3, <1>4, <1>5, <1>6 DEF ChrootInv, TypeOK

\* Every step of the process keeps the invariant.
LEMMA NextInv == ChrootInv /\ [Next]_vars => ChrootInv'
<1> SUFFICES ASSUME ChrootInv, [Next]_vars PROVE ChrootInv'
  OBVIOUS
<1>1. CASE Next /\ Alive
  <2> USE <1>1 DEF ChrootInv, TypeOK, SpecsInv
  <2>1. ControlOK'
    BY ControlStep
  <2>2. BuildOK'
    BY BuildStep
  <2>3. PoolOK'
    BY PoolTypeStep
  <2>4. RootInv'
    BY RootStep
  <2>5. PoolInv'
    BY PoolStep
  <2>6. MountInv'
    BY MountStep
  <2>7. ToolInv'
    BY ToolStep
  <2>8. PackInv'
    BY PackStep
  <2>9. StageInv'
    BY StageStep
  <2>10. CountInv'
    BY CountStep
  <2>11. CoverInv'
    BY CoverStep
  <2>12. EndInv'
    BY EndStep
  <2>13. ExitInv'
    BY ExitStep
  <2> QED BY <2>1, <2>2, <2>3, <2>4, <2>5, <2>6, <2>7, <2>8, <2>9, <2>10, <2>11, <2>12,
         <2>13
<1>2. CASE UNCHANGED vars
  <2> USE <1>2 DEF vars, procVars, poolVars, buildVars
  <2>1. TypeOK'
    BY DEF ChrootInv, TypeOK, ControlOK, BuildOK, PoolOK
  <2>2. RootInv' /\ PoolInv' /\ ToolInv' /\ ExitInv'
    BY DEF ChrootInv, RootInv, PoolInv, ToolInv, ExitInv, Pooled
  <2>3. MountInv'
    BY DEF ChrootInv, MountInv, Alive, Range
  <2>4. PackInv' /\ StageInv' /\ EndInv'
    BY DEF ChrootInv, SpecsInv, PackInv, StageInv, EndInv, AllCompleted, Completed, Pooled
  <2>5. CountInv'
    BY DEF ChrootInv, SpecsInv, CountInv, BusyWorkers
  <2>6. CoverInv'
    BY DEF ChrootInv, SpecsInv, CoverInv, Accounted, Completed
  <2> QED BY <2>1, <2>2, <2>3, <2>4, <2>5, <2>6 DEF ChrootInv, SpecsInv
<1>3. Next => Alive \/ UNCHANGED vars
  BY DEF Next, Exited
<1> QED BY <1>1, <1>2, <1>3

-----------------------------------------------------------------------------
(* The results.                                                            *)

\* Every reachable state satisfies the inductive invariant: the types of
\* all variables, and how the root directory, the mutex, activeChroots, the
\* mounts and the SPECs of a pool go with what main does.
THEOREM InvariantHolds == Spec => []ChrootInv
  BY InitInv, NextInv, PTL DEF Spec

\* specsToPackWorker, packSRPMWorker and readSpecWorker run only while the
\* process is inside the chroot, however many there are and whichever result
\* is the first to fail: main waits for all of them before Run restores root.
THEOREM WorkersStayInChroot == Spec => []PoolInsideChroot
<1>1. ChrootInv => PoolInsideChroot
  BY DEF ChrootInv, RootInv, PoolInv, PoolInsideChroot, Inside
<1> QED BY <1>1, InvariantHolds, PTL

\* cleanupAllChroots starts to unmount only when the process is out of every
\* chroot, whether the signal's goroutine runs it or main after a fatal error.
THEOREM CleanupOnHost == Spec => []CleanupSeesHostRoot
<1>1. ChrootInv => CleanupSeesHostRoot
  <2> SUFFICES ASSUME ChrootInv, NEW p \in {"main", "signal"}, pc[p] = "clean"
               PROVE  root = "host"
    BY DEF CleanupSeesHostRoot
  <2> USE DEF ChrootInv, TypeOK, ControlOK, RootInv
  <2>1. CASE p = "main"
    BY <2>1 DEF Inside, Pooling, Nested
  <2>2. CASE p = "signal"
    BY <2>2
  <2> QED BY <2>1, <2>2
<1> QED BY <1>1, InvariantHolds, PTL

\* However the process ends, it leaves no chroot mounted on the host unless
\* the kernel refused to unmount one.
THEOREM NothingStaysMounted == Spec => []ExitLeavesNoMounts
<1>1. ChrootInv => ExitLeavesNoMounts
  BY DEF ChrootInv, MountInv, ExitLeavesNoMounts
<1> QED BY <1>1, InvariantHolds, PTL

\* A packer or spec reader that exits with success has looked at every SPEC
\* and packed exactly the marked ones, for any number of SPECs and workers.
THEOREM SuccessIsComplete == Spec => []SuccessCoversAllSpecs
<1>1. ChrootInv => SuccessCoversAllSpecs
  BY DEF ChrootInv, SpecsInv, EndInv, ExitInv, SuccessCoversAllSpecs
<1> QED BY <1>1, InvariantHolds, PTL
=============================================================================
