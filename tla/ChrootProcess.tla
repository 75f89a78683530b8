--------------------------- MODULE ChrootProcess ---------------------------
(***************************************************************************)
(* The goroutines of a tool that works inside a safe chroot.  The root     *)
(* directory belongs to the whole process: while one goroutine is inside   *)
(* chroot.Run, all of them are.  The SRPM packer and the spec reader fill  *)
(* pools of workers there, the package worker builds in a goroutine with a *)
(* timeout, the imager opens a second chroot from inside the first; at any *)
(* moment SIGTERM starts a goroutine that cleans every chroot up.          *)
(***************************************************************************)
EXTENDS SequencesExt

CONSTANTS
    Tools,              \* subset of {"packer", "specreader", "pkgworker", "imager"}
    Workers,            \* the worker goroutines of a pool
    NumSpecs,           \* how many SPEC files there are
    MaxNetOps           \* capacity of netOpsSemaphore

ASSUME ProcessAssumption ==
    /\ Tools \subseteq {"packer", "specreader", "pkgworker", "imager"}
    /\ NumSpecs \in Nat \ {0} /\ MaxNetOps \in Nat \ {0}
    /\ IsFiniteSet(Workers) /\ Workers # {}

VARIABLES
    tool,               \* the tool that runs
    unmountFails,       \* unmount(2) fails, lazy or not, in this run
    pc,                 \* where the main and the signal goroutine are
    err,                \* whether main's function returns an error
    activeMutex,        \* who holds activeChrootsMutex
    inMutex,            \* who holds inChrootMutex
    root,               \* the root directory of the process
    activeChroots,      \* the chroots to clean up, oldest first
    mounted,            \* the chroots whose mount points exist
    allowed,            \* allowProcessCreation
    pool,               \* the pool main has started, if any
    requests, sent,     \* the channel of SPECs and how many were put into it
    results, received,  \* the channel of results and how many were read
    cancelled,          \* ctx.Done() is closed
    worker,             \* what each worker does, and with which SPEC
    checked, toPack, packed,    \* SPECs looked at, marked for packing, packed
    build, child,       \* the build goroutine and its running command
    exit                \* "none", or how the process ended

procVars == <<tool, unmountFails, pc, err, activeMutex, inMutex, root,
              activeChroots, mounted, allowed>>
poolVars == <<pool, requests, sent, results, received, cancelled, worker,
              checked, toPack, packed>>
buildVars == <<build, child>>
vars == <<procVars, poolVars, buildVars, exit>>

Specs == 1..NumSpecs

Pooled == tool \in {"packer", "specreader"}

Gone == [at |-> "gone", spec |-> 0]

Idle == [at |-> "idle", spec |-> 0]

Init ==
    /\ tool \in Tools
    /\ unmountFails \in BOOLEAN
    /\ pc = [main |-> "start", signal |-> "none"]
    /\ err = FALSE
    /\ activeMutex = "free" /\ inMutex = "free"
    /\ root = "host"
    /\ activeChroots = <<>> /\ mounted = {}
    /\ allowed = TRUE
    /\ pool = "none"
    /\ requests = <<>> /\ sent = 0
    /\ results = <<>> /\ received = 0
    /\ cancelled = FALSE
    /\ worker = [w \in Workers |-> Gone]
    /\ checked = {} /\ toPack = {} /\ packed = {}
    /\ build = "none" /\ child = "none"
    /\ exit = "none"
-----------------------------------------------------------------------------
(* Chroots: Initialize, Run and Close.                                     *)

Goto(p, from, to) == pc[p] = from /\ pc' = [pc EXCEPT ![p] = to]

LockActive(p, from, to) ==
    /\ Goto(p, from, to)
    /\ activeMutex = "free" /\ activeMutex' = p
    /\ UNCHANGED <<tool, unmountFails, err, inMutex, root, activeChroots, mounted,
                   allowed, poolVars, buildVars, exit>>

Initialized(c, from, to) ==
    /\ Goto("main", from, to)
    /\ activeMutex' = "free"
    /\ mounted' = mounted \cup {c}
    /\ activeChroots' = Append(activeChroots, c)
    /\ UNCHANGED <<tool, unmountFails, err, inMutex, root, allowed, poolVars,
                   buildVars, exit>>

\* Mutant: the mounts made before the failure are left.
InitializeFailsDirty(c, from, to) ==
    /\ Goto("main", from, to)
    /\ activeMutex' = "free"
    /\ mounted' = mounted \cup {c}
    /\ err' = TRUE
    /\ UNCHANGED <<tool, unmountFails, inMutex, root, activeChroots, allowed,
                   poolVars, buildVars, exit>>

\* A mount that fails half way is undone by the deferred unmountAndRemove.
InitializeFails(c, from, to) ==
    /\ Goto("main", from, to)
    /\ activeMutex' = "free"
    /\ mounted' = IF unmountFails THEN mounted \cup {c} ELSE mounted
    /\ err' = TRUE
    /\ UNCHANGED <<tool, unmountFails, inMutex, root, activeChroots, allowed,
                   poolVars, buildVars, exit>>

EnterChroot ==
    /\ Goto("main", "ready", IF Pooled THEN "startpool"
                             ELSE IF tool = "pkgworker" THEN "startbuild" ELSE "nest")
    /\ inMutex = "free" /\ inMutex' = "main"
    /\ root' = "setup"
    /\ UNCHANGED <<tool, unmountFails, err, activeMutex, activeChroots, mounted,
                   allowed, poolVars, buildVars, exit>>

\* restoreRoot, then the deferred Unlock; later work on the host may fail.
LeaveChroot ==
    /\ Goto("main", "leave", "close")
    /\ inMutex' = "free"
    /\ root' = "host"
    /\ err' \in {err, TRUE}
    /\ UNCHANGED <<tool, unmountFails, activeMutex, activeChroots, mounted, allowed,
                   poolVars, buildVars, exit>>

\* Where a chroot is in activeChroots.
IndexOf(c) ==
    CHOOSE i \in DOMAIN activeChroots :
        activeChroots[i] = c /\ \A j \in 1 .. i - 1 : activeChroots[j] # c

\* A chroot that cannot be unmounted stays in activeChroots.
CloseChroot(c, from, to) ==
    /\ Goto("main", from, to)
    /\ activeMutex' = "free"
    /\ IF unmountFails \/ c \notin Range(activeChroots)
       THEN UNCHANGED <<mounted, activeChroots>>
       ELSE /\ mounted' = mounted \ {c}
            /\ activeChroots' = RemoveAt(activeChroots, IndexOf(c))
    /\ UNCHANGED <<tool, unmountFails, err, inMutex, root, allowed, poolVars,
                   buildVars, exit>>
-----------------------------------------------------------------------------
(* cleanupAllChroots: on a signal, or as the exit handler of a fatal error. *)

SignalArrives ==
    /\ Goto("signal", "none", "lock")
    /\ UNCHANGED <<tool, unmountFails, err, activeMutex, inMutex, root,
                   activeChroots, mounted, allowed, poolVars, buildVars, exit>>

StopAllChildProcesses == child' = IF child = "running" THEN "killed" ELSE child

PermanentlyStopAllChildProcesses(p) ==
    /\ Goto(p, "stop", "lockin")
    /\ allowed' = FALSE
    /\ StopAllChildProcesses
    /\ UNCHANGED <<tool, unmountFails, err, activeMutex, inMutex, root,
                   activeChroots, mounted, poolVars, build, exit>>

\* Mutant: cleanup does not wait for the commands inside a chroot.
LockInAtOnce(p) ==
    /\ Goto(p, "lockin", "clean")
    /\ inMutex' = p
    /\ UNCHANGED <<tool, unmountFails, err, activeMutex, root, activeChroots,
                   mounted, allowed, poolVars, buildVars, exit>>

LockIn(p) ==
    /\ Goto(p, "lockin", "clean")
    /\ inMutex = "free" /\ inMutex' = p
    /\ UNCHANGED <<tool, unmountFails, err, activeMutex, root, activeChroots,
                   mounted, allowed, poolVars, buildVars, exit>>

\* Every active chroot is unmounted, the newest first.  If one fails, Fatalf
\* runs the exit handlers, and cleanupAllChroots waits for its own mutex.
CleanupAllChroots(p) ==
    LET failed == unmountFails /\ activeChroots # <<>>
    IN /\ Goto(p, "clean", IF failed THEN "hung" ELSE "done")
       /\ mounted' = IF failed THEN mounted
                     ELSE mounted \ {activeChroots[i] : i \in DOMAIN activeChroots}
       /\ exit' = IF failed THEN "none" ELSE "failed"
       /\ UNCHANGED <<tool, unmountFails, err, activeMutex, inMutex, root,
                      activeChroots, allowed, poolVars, buildVars>>

Cleanup(p) ==
    \/ LockActive(p, "lock", "stop")
    \/ PermanentlyStopAllChildProcesses(p)
    \/ LockIn(p)
    \/ CleanupAllChroots(p)

\* pkgworker ends with FatalOnError, the others with PanicOnError.
End ==
    /\ pc.main = "end"
    /\ IF err /\ tool = "pkgworker"
       THEN pc' = [pc EXCEPT !.main = "lock"] /\ UNCHANGED exit
       ELSE exit' = (IF err THEN "failed" ELSE "ok") /\ UNCHANGED pc
    /\ UNCHANGED <<tool, unmountFails, err, activeMutex, inMutex, root,
                   activeChroots, mounted, allowed, poolVars, buildVars>>
-----------------------------------------------------------------------------
(* Pools: calculateSPECsToRepack, packSRPMs, parseSPECs.                   *)

FirstPool == IF tool = "packer" THEN "calculate" ELSE "parse"

StartWorkers ==
    /\ Goto("main", "startpool", "fill")
    /\ pool' = IF pool = "none" THEN FirstPool ELSE "pack"
    /\ sent' = 0 /\ received' = 0
    /\ requests' = <<>> /\ results' = <<>>
    /\ cancelled' = FALSE
    /\ worker' = [w \in Workers |-> Idle]
    /\ UNCHANGED <<tool, unmountFails, err, activeMutex, inMutex, root,
                   activeChroots, mounted, allowed, checked, toPack, packed,
                   buildVars, exit>>

\* The channel has room for every SPEC; it is closed after the last one.
SendRequest ==
    /\ Goto("main", "fill", IF sent + 1 = NumSpecs THEN "collect" ELSE "fill")
    /\ sent' = sent + 1
    /\ requests' = Append(requests, sent + 1)
    /\ UNCHANGED <<tool, unmountFails, err, activeMutex, inMutex, root,
                   activeChroots, mounted, allowed, pool, results, received,
                   cancelled, worker, checked, toPack, packed, buildVars, exit>>

ReceiveResultThen(Continue(_), Failed(_)) ==
    /\ results # <<>>
    /\ LET r == Head(results)
       IN /\ Goto("main", "collect",
                  IF received + 1 < NumSpecs /\ Continue(r) THEN "collect" ELSE "wait")
          /\ err' = (err \/ Failed(r))
          /\ cancelled' = (cancelled \/ ~r.ok)
    /\ received' = received + 1
    /\ results' = Tail(results)
    /\ UNCHANGED <<tool, unmountFails, activeMutex, inMutex, root, activeChroots,
                   mounted, allowed, pool, requests, sent, worker, checked, toPack,
                   packed, buildVars, exit>>

\* Mutants: the loop goes on after an error; the error is not kept.
ReceiveResultGoesOn == ReceiveResultThen(LAMBDA r : TRUE, LAMBDA r : ~r.ok)

ReceiveResultForgets == ReceiveResultThen(LAMBDA r : r.ok, LAMBDA r : FALSE)

\* The first error cancels the context and ends the loop.
ReceiveResult == ReceiveResultThen(LAMBDA r : r.ok, LAMBDA r : ~r.ok)

\* Mutant: main does not wait for the workers.
WaitWorkersNot ==
    /\ Goto("main", "wait", IF pool = "calculate" /\ ~err THEN "startpool" ELSE "leave")
    /\ UNCHANGED <<tool, unmountFails, err, activeMutex, inMutex, root,
                   activeChroots, mounted, allowed, poolVars, buildVars, exit>>

WaitWorkers ==
    /\ \A w \in Workers : worker[w] = Gone
    /\ Goto("main", "wait", IF pool = "calculate" /\ ~err THEN "startpool" ELSE "leave")
    /\ UNCHANGED <<tool, unmountFails, err, activeMutex, inMutex, root,
                   activeChroots, mounted, allowed, poolVars, buildVars, exit>>

WorkerOnly == UNCHANGED <<procVars, pool, sent, received, cancelled, buildVars, exit>>

\* The loop over the channel ends when it is closed and empty, or when the
\* context is cancelled by the time a SPEC has been taken out.
TakeRequest(w) ==
    /\ worker[w].at = "idle"
    /\ \/ /\ requests # <<>>
          /\ requests' = Tail(requests)
          /\ worker' = [worker EXCEPT ![w] =
                IF cancelled THEN Gone
                ELSE [at |-> IF pool # "pack" THEN "work"
                             ELSE IF Head(requests) \in toPack THEN "hydrate" ELSE "skip",
                      spec |-> Head(requests)]]
       \/ /\ requests = <<>> /\ sent = NumSpecs
          /\ worker' = [worker EXCEPT ![w] = Gone]
          /\ UNCHANGED requests
    /\ UNCHANGED <<results, checked, toPack, packed>>
    /\ WorkerOnly

Answer(w, ok) ==
    /\ results' = Append(results, [spec |-> worker[w].spec, ok |-> ok])
    /\ worker' = [worker EXCEPT ![w] = Idle]

\* The sources are found locally or fetched; at most MaxNetOps downloads at
\* a time.  A worker that waits for its turn also listens to the context.
Hydrate(w) ==
    /\ worker[w].at = "hydrate"
    /\ \/ worker' = [worker EXCEPT ![w].at = "work"] /\ UNCHANGED results
       \/ /\ Cardinality({v \in Workers : worker[v].at = "download"}) < MaxNetOps
          /\ worker' = [worker EXCEPT ![w].at = "download"]
          /\ UNCHANGED results
       \/ cancelled /\ Answer(w, FALSE)
    /\ UNCHANGED <<requests, checked, toPack, packed>>
    /\ WorkerOnly

\* A download that fails or is cancelled leaves a source missing.
Download(w) ==
    /\ worker[w].at = "download"
    /\ \/ worker' = [worker EXCEPT ![w].at = "work"] /\ UNCHANGED results
       \/ Answer(w, FALSE)
    /\ UNCHANGED <<requests, checked, toPack, packed>>
    /\ WorkerOnly

\* The rpm commands run; they fail when processes are stopped for good.
FinishSpec(w) ==
    /\ worker[w].at \in {"work", "skip"}
    /\ \/ /\ worker[w].at = "work" => allowed
          /\ Answer(w, TRUE)
          /\ checked' = checked \cup {worker[w].spec}
          /\ toPack' \in {toPack} \cup (IF pool = "calculate"
                                        THEN {toPack \cup {worker[w].spec}} ELSE {})
          /\ packed' = IF pool = "pack" /\ worker[w].at = "work"
                       THEN packed \cup {worker[w].spec} ELSE packed
       \/ /\ worker[w].at = "work"
          /\ Answer(w, FALSE)
          /\ UNCHANGED <<checked, toPack, packed>>
    /\ UNCHANGED requests
    /\ WorkerOnly
-----------------------------------------------------------------------------
(* The package worker's build goroutine.                                   *)

StartBuild ==
    /\ Goto("main", "startbuild", "select")
    /\ build' = "createrepo"
    /\ UNCHANGED <<tool, unmountFails, err, activeMutex, inMutex, root,
                   activeChroots, mounted, allowed, poolVars, child, exit>>

ReceiveBuild ==
    /\ build \in {"built", "failed"}
    /\ Goto("main", "select", "leave")
    /\ err' = (build = "failed")
    /\ build' = "gone"
    /\ UNCHANGED <<tool, unmountFails, activeMutex, inMutex, root, activeChroots,
                   mounted, allowed, poolVars, child, exit>>

\* The goroutine is left running; only the command it runs is killed.
BuildTimesOut ==
    /\ Goto("main", "select", "leave")
    /\ err' = TRUE
    /\ StopAllChildProcesses
    /\ UNCHANGED <<tool, unmountFails, activeMutex, inMutex, root, activeChroots,
                   mounted, allowed, poolVars, build, exit>>

Commands == {"createrepo", "tdnf", "rpmbuild"}

AfterStep == [createrepo |-> "tdnf", tdnf |-> "clean", clean |-> "rpmbuild",
              rpmbuild |-> "built"]

\* tdnfInstall looks for errors in tdnf's stderr; a tdnf that was killed or
\* never started has written none.
AfterFailure(step) == IF step = "tdnf" THEN {"failed", AfterStep[step]} ELSE {"failed"}

StartCommand ==
    /\ build \in Commands /\ child = "none"
    /\ IF allowed THEN child' = "running" /\ UNCHANGED build
       ELSE build' \in AfterFailure(build) /\ UNCHANGED child
    /\ UNCHANGED <<procVars, poolVars, exit>>

EndCommand ==
    /\ child # "none"
    /\ build' \in AfterFailure(build)
                  \cup (IF child = "running" THEN {AfterStep[build]} ELSE {})
    /\ child' = "none"
    /\ UNCHANGED <<procVars, poolVars, exit>>

\* Walks "/" and removes every libtool archive.
RemoveLibArchivesFromSystem ==
    /\ build = "clean"
    /\ build' \in {AfterStep[build], "failed"}
    /\ UNCHANGED <<procVars, poolVars, child, exit>>

BuildGoroutine == StartCommand \/ EndCommand \/ RemoveLibArchivesFromSystem
-----------------------------------------------------------------------------
(* The imager runs buildImage in the setup chroot, and opens and closes    *)
(* the install chroot there.                                               *)

\* The commands of the installation end, well or not.
PopulateInstallRoot ==
    /\ Goto("main", "image", "unnest")
    /\ err' \in (IF allowed THEN {FALSE, TRUE} ELSE {TRUE})
    /\ UNCHANGED <<tool, unmountFails, activeMutex, inMutex, root, activeChroots,
                   mounted, allowed, poolVars, buildVars, exit>>
-----------------------------------------------------------------------------
Main ==
    \/ LockActive("main", "start", "initialize")
    \/ Initialized("setup", "initialize", "ready")
    \/ InitializeFails("setup", "initialize", "end")
    \/ EnterChroot \/ LeaveChroot
    \/ LockActive("main", "close", "unmount")
    \/ CloseChroot("setup", "unmount", "end")
    \/ End \/ Cleanup("main")
    \/ StartWorkers \/ SendRequest \/ ReceiveResult \/ WaitWorkers
    \/ StartBuild \/ ReceiveBuild \/ BuildTimesOut
    \/ LockActive("main", "nest", "nestinit")
    \/ Initialized("install", "nestinit", "image")
    \/ InitializeFails("install", "nestinit", "leave")
    \/ PopulateInstallRoot
    \/ LockActive("main", "unnest", "nestunmount")
    \/ CloseChroot("install", "nestunmount", "leave")

Worker(w) == TakeRequest(w) \/ Hydrate(w) \/ Download(w) \/ FinishSpec(w)

Alive == exit = "none"

Exited == ~Alive /\ UNCHANGED vars

Next ==
    \/ Alive /\ Main
    \/ Alive /\ SignalArrives
    \/ Alive /\ Cleanup("signal")
    \/ Alive /\ \E w \in Workers : Worker(w)
    \/ Alive /\ BuildGoroutine
    \/ Exited

\* Every goroutine gets its turn, commands of a pool and downloads end, and
\* the build timer fires.  The commands of a build may run for ever.
Fairness ==
    /\ WF_vars(Alive /\ Main)
    /\ WF_vars(Alive /\ Cleanup("signal"))
    /\ \A w \in Workers : WF_vars(Alive /\ Worker(w))

Spec == Init /\ [][Next]_vars /\ Fairness
-----------------------------------------------------------------------------
(* The inductive invariant.                                                *)

\* Main is inside chroot.Run; the pool runs; the install chroot is open too.
Pooling == {"fill", "collect", "wait"}

Nested == {"image", "unnest", "nestunmount"}

Inside == Pooling \cup Nested
          \cup {"startpool", "startbuild", "select", "nest", "nestinit", "leave"}

Outside == {"start", "initialize", "ready", "close", "unmount", "end"}

Cleaning == {"lock", "stop", "lockin", "clean", "hung", "done"}

Busy == {"hydrate", "download", "work", "skip"}

ControlOK ==
    /\ tool \in Tools
    /\ unmountFails \in BOOLEAN /\ err \in BOOLEAN /\ allowed \in BOOLEAN
    /\ pc \in [main : Inside \cup Outside \cup Cleaning, signal : Cleaning \cup {"none"}]
    /\ inMutex \in {"free", "main", "signal"}
    /\ root \in {"host", "setup"}
    /\ exit \in {"none", "ok", "failed"}

BuildOK ==
    /\ build \in {"none", "createrepo", "tdnf", "clean", "rpmbuild", "built", "failed", "gone"}
    /\ child \in {"none", "running", "killed"}
    /\ child # "none" => build \in Commands

PoolOK ==
    /\ pool \in {"none", "calculate", "pack", "parse"}
    /\ requests \in Seq(Specs) /\ sent \in Nat
    /\ results \in Seq([spec : Specs, ok : BOOLEAN]) /\ received \in Nat
    /\ cancelled \in BOOLEAN
    /\ worker \in [Workers -> [at : {"idle", "gone"}, spec : {0}] \cup [at : Busy, spec : Specs]]
    /\ checked \subseteq Specs /\ toPack \subseteq Specs /\ packed \subseteq Specs

TypeOK == ControlOK /\ BuildOK /\ PoolOK

\* The root directory follows main, and whoever is in a chroot or cleans them
\* up holds inChrootMutex.
RootInv ==
    /\ root = "setup" <=> pc.main \in Inside
    /\ pc.main \in Inside => inMutex = "main"
    /\ pc.signal = "clean" => inMutex = "signal"

\* There are workers only between their start and main's wait for them.
PoolInv == pc.main \notin Pooling => \A w \in Workers : worker[w] = Gone

\* Unless the kernel refuses to unmount, what is mounted is what is active, and
\* that is what main has opened and not closed.
MountInv ==
    ~unmountFails =>
        /\ activeChroots =
              IF pc.main \in {"start", "initialize", "end"} \cup Cleaning THEN <<>>
              ELSE IF pc.main \in Nested THEN <<"setup", "install">>
              ELSE <<"setup">>
        /\ mounted = IF Alive THEN Range(activeChroots) ELSE {}

\* Which tool is where, and which pool it runs.
ToolInv ==
    /\ pc.main \in Pooling \cup {"startpool"} => Pooled
    /\ pc.main \in {"startbuild", "select"} => tool = "pkgworker"
    /\ pc.main \in Nested \cup {"nest", "nestinit"} => tool = "imager"
    /\ pool \in {"calculate", "pack"} => tool = "packer"
    /\ pool = "parse" => tool = "specreader"
    /\ pc.main \in Pooling => pool # "none"
    /\ pc.main \in {"start", "initialize", "ready"} => pool = "none" /\ ~err
    /\ pc.main = "startpool" => pool \in {"none", "calculate"} /\ ~err

\* A pool has done what it is for with a SPEC.
Completed(s) == IF pool = "pack" THEN s \in toPack => s \in packed ELSE s \in checked

AllCompleted == \A s \in Specs : Completed(s)

BusyWorkers == {w \in Workers : worker[w].at \in Busy}

\* The first pool looks at every SPEC and marks some; only the last one packs,
\* and it packs no other.
PackInv ==
    /\ pool \in {"none", "calculate", "parse"} => packed = {}
    /\ pool \in {"none", "parse"} => toPack = {}
    /\ pool = "pack" => checked = Specs /\ packed \subseteq toPack
    /\ \A w \in Workers : worker[w].at \in Busy /\ pool = "pack" =>
          (worker[w].at = "skip" <=> worker[w].spec \notin toPack)

\* How far main is with a pool; the context is cancelled only on an error.
StageInv ==
    /\ pc.main \in Pooling => (cancelled => err)
    /\ pc.main \in {"fill", "collect"} => ~err
    /\ pc.main = "fill" => sent < NumSpecs /\ received = 0
    /\ pc.main \in {"collect", "wait"} => sent = NumSpecs
    /\ pc.main = "collect" => received < NumSpecs

\* Until the first failure as many results are to come as there are SPECs out,
CountInv ==
    pc.main \in Pooling /\ ~err =>
        received + Len(results) + Cardinality(BusyWorkers) + Len(requests) = sent

\* and every SPEC that was sent is accounted for: it waits, a worker has it, its
\* failure is to be received, or it is done with.
Accounted(s) ==
    \/ \E i \in DOMAIN requests : requests[i] = s
    \/ \E w \in Workers : worker[w].at \in Busy /\ worker[w].spec = s
    \/ \E i \in DOMAIN results : results[i].spec = s /\ ~results[i].ok
    \/ Completed(s)

CoverInv == pc.main \in Pooling /\ ~err => \A s \in 1..sent : Accounted(s)

\* So a pool that ends without an error has completed every SPEC.
EndInv ==
    /\ pc.main = "wait" /\ ~err => AllCompleted
    /\ pc.main = "startpool" /\ pool = "calculate" => checked = Specs
    /\ pc.main \in {"leave", "close", "unmount", "end"} /\ Pooled /\ ~err =>
          checked = Specs /\ packed = toPack

SpecsInv == PackInv /\ StageInv /\ CountInv /\ CoverInv /\ EndInv

\* A process has succeeded only if main came to its end without an error.
ExitInv == exit = "ok" => pc.main = "end" /\ ~err

ChrootInv ==
    TypeOK /\ RootInv /\ PoolInv /\ MountInv /\ ToolInv /\ SpecsInv /\ ExitInv
-----------------------------------------------------------------------------
(* Properties.                                                             *)

\* A pool's workers (specsToPackWorker, packSRPMWorker, readSpecWorker) run
\* only while the process is inside the chroot: main waits for all of them,
\* also when the first error ended its loop, before Run restores the root.
PoolInsideChroot == \A w \in Workers : worker[w] # Gone => root = "setup"

\* cleanupAllChroots unmounts paths of the host, so it may only start when no
\* goroutine holds the process inside a chroot.
CleanupSeesHostRoot == \A p \in {"main", "signal"} : pc[p] = "clean" => root = "host"

\* However a tool ends (its own way, a fatal error, or SIGTERM in any state
\* of its goroutines), no mount of a chroot is left on the host, unless the
\* kernel refused to unmount it.
ExitLeavesNoMounts == ~Alive /\ ~unmountFails => mounted = {}

\* A pool tool that reports success has looked at every SPEC and has packed
\* every one that was marked, whatever order the results came in.
SuccessCoversAllSpecs ==
    exit = "ok" /\ Pooled => checked = Specs /\ packed = toPack

\* A tool ends: workers that stop early never leave main waiting for their
\* results, a build that hangs is ended by its timer, and a signal is never
\* blocked by the goroutines it stops.  Excluded: a chroot that cannot be
\* unmounted, and a signal during the imager's nested chroot.
Exits == <>(~Alive \/ unmountFails \/ (tool = "imager" /\ pc.signal # "none"))

\* pkgworker.go: the timeout is handled inside chroot.Run so that the build is
\* over when the chroot is left: commands and the removal of libtool archives
\* happen inside the chroot.
BuildsInsideChroot == Alive /\ (child = "running" \/ build = "clean") => root = "setup"

\* safechroot.go: cleanup is guaranteed to run, also on SIGTERM.
SignalCleansUp == pc.signal # "none" ~> (~Alive \/ unmountFails)
=============================================================================
