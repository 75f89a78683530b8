----------------------------- MODULE SafeChroot -----------------------------
(***************************************************************************)
(* Chroots, mounts and loop devices as the tools use them: safechroot,     *)
(* safemount and safeloopback, and the loop device helpers of diskutils.   *)
(* The default mounts of a chroot are represented by /dev and the /dev/pts *)
(* that sits inside it; the Docker pipeline, which mounts nothing, is not  *)
(* modelled.                                                               *)
(***************************************************************************)
EXTENDS GoCall

\* Paths are tuples of names.
Dir(path) == <<"dir">> \o path

Mount(path) == <<"mount">> \o path

Loop(file) == <<"loop">> \o file

Active(ch) == <<"active">> \o ch.dir

Inside(ch) == <<"inside">> \o ch.dir
-----------------------------------------------------------------------------
(* safeloopback and the loop devices of diskutils.                         *)

SetupLoopbackDevice(file, on) == <<Acquire("losetup", Loop(file), on)>>

DetachLoopbackDevice(file) == <<Release("losetup -d", Loop(file))>>

\* sync, then poll /proc/diskstats until no operation is outstanding.
BlockOnDiskIO(file) == <<Use("diskstats", {Loop(file)})>>

WaitForLoopbackToDetach == <<Step("losetup --list")>>

WaitForDiskDevice(file) == <<Use("udevadm settle", {Loop(file)})>>

\* Close, and CleanClose, which also waits until the device is gone.
CloseLoopback(file) == <<IfHeld(Loop(file), DetachLoopbackDevice(file))>>

CleanCloseLoopback(file) ==
    CloseLoopback(file) \o WaitForLoopbackToDetach \o <<Step("diskstats by id")>>

NewLoopback(file, on) ==
    <<Call(<<DeferOnError(CloseLoopback(file))>>
           \o SetupLoopbackDevice(file, on)
           \o <<Step("lsblk")>>
           \o WaitForDiskDevice(file))>>
-----------------------------------------------------------------------------
(* safemount: a mount, with the directory made for it.                     *)

CloseMount(at) ==
    <<IfHeld(Mount(at), <<Release("umount", Mount(at))>>),
      IfHeld(Dir(at), <<RemoveAll("rmdir", Dir(at))>>)>>

NewMount(at, on, makeDir) ==
    <<Call(<<DeferOnError(CloseMount(at))>>
           \o When(makeDir, <<Acquire("mkdir", Dir(at), {})>>)
           \o <<Acquire("mount", Mount(at),
                        on \cup (IF makeDir THEN {Dir(at)} ELSE {}))>>)>>
-----------------------------------------------------------------------------
(* safechroot.                                                             *)

MountPoint(target, on) == [target |-> target, on |-> on]

ChrootMount(ch, target) == Mount(Append(ch.dir, target))

defaultMountPoints(ch) ==
    <<MountPoint("/dev", {}), MountPoint("/dev/pts", {ChrootMount(ch, "/dev")})>>

\* A chroot: its directory, what that consists of if it was there before, the
\* mounts that come before and after the default ones.
Chroot(dir, existing, pre, post, defaults) ==
    LET ch == [dir |-> dir]
    IN [dir |-> dir, existing |-> existing, defaults |-> defaults,
        mounts |-> pre \o When(defaults, defaultMountPoints(ch)) \o post]

\* The root of the chroot: a partition mounted at / hides the directory.
BaseOf(ch) == IF ch.existing = {} THEN {Dir(ch.dir)} ELSE ch.existing

RootOf(ch) ==
    BaseOf(ch) \cup {ChrootMount(ch, ch.mounts[i].target) :
                       i \in {j \in DOMAIN ch.mounts : ch.mounts[j].target = "/"}}

createMountPoints(ch) ==
    ForEach(ch.mounts, LAMBDA m :
        <<Acquire(IF ch.existing = {} THEN "chroot mount" ELSE "mount in existing root",
                  ChrootMount(ch, m.target),
                  m.on \cup (IF m.target = "/" THEN BaseOf(ch) ELSE RootOf(ch)))>>)

\* Mutant: the mounts in the order in which they were made.
unmountInOrder(ch, leaveOnDisk) ==
    ForEach(ch.mounts, LAMBDA m :
        <<IfHeld(ChrootMount(ch, m.target),
                 <<Release("chroot umount", ChrootMount(ch, m.target))>>)>>)
    \o When(~leaveOnDisk, <<RemoveAll("chroot remove", Dir(ch.dir))>>)

\* The directory goes only when every mount is gone.
unmountAndRemove(ch, leaveOnDisk) ==
    ForEach(Reversed(ch.mounts), LAMBDA m :
        <<IfHeld(ChrootMount(ch, m.target),
                 <<Release("chroot umount", ChrootMount(ch, m.target))>>)>>)
    \o When(~leaveOnDisk, <<RemoveAll("chroot remove", Dir(ch.dir))>>)

\* Entering the chroot and coming back; the way back must not fail.
UnsafeRun(ch, body) ==
    <<Call(<<Step("open /"),
             Acquire("chroot", Inside(ch), RootOf(ch)),
             Defer(<<OrElse(<<Release("restoreRoot", Inside(ch))>>, <<PanicNow>>)>>)>>
           \o body)>>

Run(ch, body) == UnsafeRun(ch, body)

AddRPMMacrosFile(ch) ==
    <<Try(Run(ch, <<Step("rpm --eval")>>)),
      Either(<<Return>>, <<>>),
      Use("copy macros", RootOf(ch))>>

\* A chroot that fails to come up is taken down again, its directory with it.
Initialize(ch, on) ==
    <<Call((IF ch.existing = {} THEN <<Acquire("mkdir", Dir(ch.dir), on)>>
            ELSE <<Step("stat")>>)
           \o <<DeferOnError(unmountAndRemove(ch, FALSE))>>
           \o When(ch.existing = {}, <<Step("extract"), Step("mkdir extra")>>)
           \o createMountPoints(ch)
           \o <<Acquire("", Active(ch), {})>>)>>

InitializeWithMacros(ch, on) ==
    Initialize(ch, on)
    \o <<Call(<<DeferOnError(unmountAndRemove(ch, FALSE))>> \o AddRPMMacrosFile(ch))>>

\* gpg-agent and keyboxd would keep /dev busy.
stopGPGComponents(ch) ==
    When(ch.defaults, UnsafeRun(ch, <<Either(<<Step("gpgconf --kill")>>, <<>>)>>))

\* A second attempt unmounts lazily; only then is the chroot forgotten.
CloseChroot(ch, leaveOnDisk) ==
    <<IfHeld(Active(ch),
        <<Try(stopGPGComponents(ch)),
          OrElse(unmountAndRemove(ch, leaveOnDisk),
                 <<Call(unmountAndRemove(ch, leaveOnDisk))>>),
          Release("", Active(ch))>>)>>

\* cleanupAllChroots, which logrus runs before a fatal error ends the process:
\* the newest chroot first, each as far as it goes.
cleanupAllChroots(chs) ==
    ForEach(Reversed(chs), LAMBDA ch :
        <<IfHeld(Active(ch),
                 <<Try(unmountAndRemove(ch, FALSE)), Release("", Active(ch))>>)>>)

Fatal(chs) == cleanupAllChroots(chs) \o <<Raise>>

\* FatalOnError, PanicOnError.
FatalOnError(chs, body) == <<OrElse(body, Fatal(chs))>>

PanicOnError(body) == <<OrElse(body, <<PanicNow>>)>>

AddFiles(ch) == <<Use("copy into chroot", RootOf(ch))>>

MoveOutFile(ch) == <<Use("move out of chroot", RootOf(ch))>>
=============================================================================
