------------------------------- MODULE Imager -------------------------------
(***************************************************************************)
(* The imager (imager.go, with imagegen/installutils): it builds a root    *)
(* file system directory, a disk image on a loop device, or installs onto  *)
(* a real disk.                                                            *)
(*                                                                         *)
(* A configuration is a record: kind ("rootfs", "disk", "live"), encrypt,  *)
(* overlay, swap, selinux, removeRpmDb, artifacts, scripts (Booleans).     *)
(* The disk has a root partition and a separate /boot.                     *)
(***************************************************************************)
EXTENDS InstallUtils

DiskFile == <<"disk.raw">>

IsRootFS(c) == c.kind = "rootfs"

IsLoopDevice(c) == c.kind = "disk"

\* A real disk is there all along; a disk image is a loop device.
Disk(c) == IF IsLoopDevice(c) THEN {Loop(DiskFile)} ELSE {}

LowerDir == Mount(<<"lowerdir">>)

BaseImage == <<"base.img">>

Part(mountPoint) == Mount(<<"installroot", mountPoint>>)

\* sortMountPoints: parents first.
MountPoints == <<"/", "/boot">>

setupChroot(c) ==
    Chroot(<<"setuproot">>, {},
           <<>>,
           When(IsRootFS(c), <<MountPoint("/installroot", {})>>)
           \o <<MountPoint("/mnt/cdrom/RPMS", {})>>,
           TRUE)

\* The directory that /installroot is in: the setup chroot or the live system.
Host(c) == IF c.kind = "live" THEN {} ELSE {Dir(<<"setuproot">>)}

InstallRoot(c) ==
    IF IsRootFS(c) THEN {ChrootMount(setupChroot(c), "/installroot")} ELSE {Part("/")}

installChroot(c) ==
    Chroot(<<"installroot">>, InstallRoot(c), <<>>, <<>>, TRUE)
-----------------------------------------------------------------------------
(* The mounts of the install root.                                         *)

umount(r) == <<Release("umount", r)>>

\* Overlay.setupFolders, Overlay.unmount.
setupFolders(c) ==
    <<Step("mkdir overlay"), Acquire("mount lower", LowerDir, {Loop(BaseImage)} \cup Host(c))>>

unmountOverlay == <<Try(umount(LowerDir)), Try(DetachLoopbackDevice(BaseImage))>>

createOverlayPartition(c) == SetupLoopbackDevice(BaseImage, {})

UpdatePartitionMapWithOverlays(c) == When(c.overlay, createOverlayPartition(c))

OverlayUnmount(c) == When(c.overlay, unmountOverlay)

\* What the partition of a mount point rests on.
PartOn(c, mountPoint) ==
    Host(c) \cup (IF mountPoint = "/" THEN {} ELSE {Part("/")})
    \cup (IF mountPoint = "/" /\ c.overlay THEN {LowerDir}
          ELSE IF mountPoint = "/" /\ c.encrypt THEN {LVM}
          ELSE Disk(c))

mountSingleMountPoint(c, mountPoint) ==
    <<Step("mount partition")>>
    \o When(c.overlay /\ mountPoint = "/", setupFolders(c))
    \o <<Acquire("mount partition", Part(mountPoint), PartOn(c, mountPoint))>>

CreateInstallRoot(c) == ForEach(MountPoints, LAMBDA p : mountSingleMountPoint(c, p))

\* Stops at the first mount that does not come off.
DestroyInstallRoot(c) ==
    <<Defer(OverlayUnmount(c))>>
    \o ForEach(Reversed(MountPoints), LAMBDA p :
           <<Try(<<Step("diskstats")>>)>> \o umount(Part(p)))
-----------------------------------------------------------------------------
(* Filling the install root.                                               *)

initializeRpmDatabase(c, ch) == When(~c.overlay, <<InRoot(ch, "rpm --initdb")>>)

cleanupRpmDatabase(ch) == <<InRoot(ch, "remove rpmdb")>>

TdnfInstallWithProgress(ch) == <<Step("releasever"), InRoot(ch, "tdnf install")>>

TdnfInstallPriorityPackage(ch) == TdnfInstallWithProgress(ch)

calculateTotalPackages(ch) == <<Step("releasever"), ReadRoot(ch, "tdnf --assumeno")>>

updateHostname(ch) == <<InRoot(ch, "hostname")>>

updateHosts(ch) == sed(ch)

copyAdditionalFiles(ch) ==
    <<Change("copy files", FstabContents, RootOf(ch))>>

\* An entry for each partition that is mounted, and for swap.
addEntryToFstab(disk, at) ==
    FormatMountIdentifier(disk)
    \o <<Change("append fstab", FstabContents, at)>>

UpdateFstabFile(disk, at) ==
    ForEach(MountPoints, LAMBDA p : addEntryToFstab(disk, at))

UpdateFstab(c, ch) == UpdateFstabFile(Disk(c), RootOf(ch))

addEntryToCrypttab(ch) ==
    <<Change("append crypttab", FstabContents, RootOf(ch))>>

updateCrypttab(c, ch) == When(c.encrypt, addEntryToCrypttab(ch))

configureSystemFiles(c, ch) ==
    updateHosts(ch) \o UpdateFstab(c, ch) \o updateCrypttab(c, ch)

clearSystemdState(ch) == <<InRoot(ch, "machine-id"), InRoot(ch, "remove seeds")>>

\* dracut packs crypttab, the key file and fstab into the initrd.
updateInitramfsForEncrypt(ch) ==
    UnsafeRun(ch, <<ReadRoot(ch, "find initrd"), InRoot(ch, "dracut"), Seal({"initrd inputs"})>>)

generateContainerManifests(ch) == <<Try(<<InRoot(ch, "rpm -qa")>>)>>

ConfigureNetwork(ch) == <<InRoot(ch, "networkd")>>

\* The script is copied without looking at the error, run, and removed.
RunScript(ch) ==
    <<Try(<<ReadRoot(ch, "copy script")>>)>>
    \o UnsafeRun(ch, <<ReadRoot(ch, "script"), ReadRoot(ch, "remove script")>>)

runPostInstallScripts(c, ch) == When(c.scripts, RunScript(ch))

cleanupTdnfCache(ch) == InChroot(ch, "tdnf clean") \o <<InRoot(ch, "remove cache")>>

\* The packages, with the users in between, and the configuration.
PopulateInstallRoot(c, ch) ==
    <<Call(initializeRpmDatabase(c, ch)
           \o When(c.removeRpmDb, <<DeferJoin(cleanupRpmDatabase(ch))>>)
           \o calculateTotalPackages(ch)
           \o <<Step("write manifest")>>
           \o TdnfInstallPriorityPackage(ch)
           \o <<Either(TdnfInstallPriorityPackage(ch), <<>>)>>
           \o When(~IsRootFS(c) /\ ~c.overlay, updateHostname(ch))
           \o addGroups(ch) \o addUsers(ch)
           \o TdnfInstallWithProgress(ch)
           \o copyAdditionalFiles(ch)
           \o When(~IsRootFS(c), configureSystemFiles(c, ch))
           \o clearSystemdState(ch)
           \o When(c.encrypt, updateInitramfsForEncrypt(ch))
           \o When(c.removeRpmDb, generateContainerManifests(ch))
           \o <<Either(ConfigureNetwork(ch), <<>>)>>
           \o runPostInstallScripts(c, ch)
           \o <<Either(<<>>, cleanupTdnfCache(ch))>>)>>
-----------------------------------------------------------------------------
(* Boot loader, labels, artifacts.                                         *)

\* An overlay root has no boot loader of its own.
ConfigureDiskBootloader(c, ch) ==
    When(~c.overlay,
         <<Step("root partition setting")>>
         \o ConfigureDiskBootloaderWithRootMountIdType(ch, Disk(c), c.encrypt))

SELinuxConfigure(c, ch) ==
    <<Call(SELinuxUpdateConfig(ch)
           \o SELinuxRelabelFiles(ch,
                  IF IsRootFS(c) THEN <<InstallRoot(c)>>
                  ELSE [i \in DOMAIN MountPoints |-> {Part(MountPoints[i])}]))>>

RunFinalizeImageScripts(c, ch) == When(c.scripts, RunScript(ch))

AddImageIDFile(ch) ==
    <<ReadRoot(ch, "stat etc"), InRoot(ch, "create image-id"), InRoot(ch, "write image-id")>>

createRawArtifact(c) == <<Use("dd partition", Disk(c))>>

createDiffArtifact(c) == <<Use("tar upper", Host(c))>>

createRDiffArtifact(c) ==
    <<Call(<<Step("rdiff signature"), Defer(<<Step("remove signature")>>),
             Use("rdiff delta", Disk(c))>>)>>

ExtractPartitionArtifacts(c) ==
    When(c.artifacts,
         createRawArtifact(c)
         \o <<Either(When(c.overlay, createDiffArtifact(c)), createRDiffArtifact(c))>>)
-----------------------------------------------------------------------------
(* imager.go.                                                              *)

setupRootFS(c) ==
    <<OrElse(<<Step("stat rootfs")>>, <<PanicNow>>), Step("mkdir rootfs")>>

setupRealDisk(c) ==
    <<Call(CreatePartitions(Disk(c), MountPoints \o When(c.swap, <<"swap">>), c.encrypt)
           \o ApplyRawBinaries(Disk(c)))>>

\* The loop device goes again if the disk cannot be prepared.
setupLoopDeviceDisk(c) ==
    <<Call(<<DeferOnError(<<IfHeld(Loop(DiskFile), DetachLoopbackDevice(DiskFile))>>),
             Step("create disk")>>
           \o SetupLoopbackDevice(DiskFile, {})
           \o setupRealDisk(c))>>

setupDisk(c) == IF c.kind = "live" THEN setupRealDisk(c) ELSE setupLoopDeviceDisk(c)

setupDiskEncryption(c) == When(c.encrypt, AddDefaultKeyfile)

fixupExtraFilesIntoChroot(c) == AddFiles(setupChroot(c))

cleanupExtraFilesInChroot(c) == Run(setupChroot(c), <<Step("remove temp files")>>)

buildImage(c) ==
    LET ch == installChroot(c)
    IN <<Call(When(~IsRootFS(c),
                   <<Call(CreateInstallRoot(c)), Defer(DestroyInstallRoot(c))>>)
              \o Initialize(ch, {})
              \o <<Defer(CloseChroot(ch, TRUE)),
                   Either(<<Step("package repos")>>, <<>>),
                   Step("tdnf setup packages"), Step("macros")>>
              \o PopulateInstallRoot(c, ch)
              \o AddImageIDFile(ch)
              \o <<Either(<<InRoot(ch, "snapshot time")>>, <<>>), InRoot(ch, "macros")>>
              \o When(~IsRootFS(c), ConfigureDiskBootloader(c, ch))
              \o When(c.selinux, SELinuxConfigure(c, ch))
              \o RunFinalizeImageScripts(c, ch))>>

\* In the setup chroot, from which the manifest and the artifacts are taken.
buildOffline(c) ==
    <<Call(Initialize(setupChroot(c), {})),
      Defer(CloseChroot(setupChroot(c), FALSE))>>
    \o fixupExtraFilesIntoChroot(c)
    \o Run(setupChroot(c), buildImage(c))
    \o MoveOutFile(setupChroot(c))
    \o cleanupExtraFilesInChroot(c)
    \o ExtractPartitionArtifacts(c)
    \o When(IsLoopDevice(c) /\ c.artifacts, <<Step("copy disk")>>)

buildSystemConfig(c) ==
    <<Step("package lists")>>
    \o (IF IsRootFS(c) THEN <<Call(setupRootFS(c))>>
        ELSE setupDisk(c)
             \o When(IsLoopDevice(c),
                     <<Defer(DetachLoopbackDevice(DiskFile)),
                       Defer(BlockOnDiskIO(DiskFile))>>)
             \o <<Call(setupDiskEncryption(c)), Step("kernel package")>>)
    \o When(c.overlay, <<Call(UpdatePartitionMapWithOverlays(c)), Defer(OverlayUnmount(c))>>)
    \o (IF c.kind = "live" THEN buildImage(c) ELSE buildOffline(c))
    \o When(c.encrypt, <<Call(CleanupEncryptedDisks(c.kind # "live"))>>)

ImagerMain(c) ==
    <<OrElse(<<Step("load configuration"),
               Either(<<Step("preinstall scripts"), Step("kickstart partitions")>>, <<>>)>>
             \o <<Call(buildSystemConfig(c))>>,
             <<PanicNow>>)>>
=============================================================================
