----------------------------- MODULE LiveOSIso -----------------------------
(***************************************************************************)
(* The image customizer's ISO images (liveosisobuilder.go).  From a raw    *)
(* image: its files are copied to a writeable directory, squashed, an      *)
(* initrd is made in a chroot of the copy, and the ISO maker packs them.   *)
(* From an ISO: it is expanded, and its squashed root becomes a raw image  *)
(* if the OS is to be customized.                                          *)
(*                                                                         *)
(* Both directions work in the same directory (tmp), which also has the    *)
(* copy of the root; see Customizer for c.                                 *)
(***************************************************************************)
EXTENDS CustomizeOS, IsoMaker

IsoBuildDir == Dir(<<"tmp">>)

InBuildDir(at) == Use(at, {IsoBuildDir})

InputIso == <<"input.iso">>

OutputIso == <<"output.iso">>

Squashfs == <<"rootfs.img">>

ExpandedIso == Dir(<<"expanded-input-iso">>)

\* A chroot of the copied root, which stays on disk.
writeableRootfs == Chroot(<<"tmp", "writeable-rootfs">>, {IsoBuildDir}, <<>>, <<>>, TRUE)

\* The file named by path is mounted read-only at a temporary directory.
WithMountedFile(path, on, Body(_)) ==
    LET tmpDir == Dir(path \o <<"mount-dir">>)
        at == path \o <<"mount">>
    IN <<Call(<<Acquire("mkdirtemp", tmpDir, {}),
                Defer(<<RemoveAll("remove temp", tmpDir)>>)>>
              \o NewLoopback(path, on)
              \o <<Defer(CloseLoopback(path))>>
              \o NewMount(at, {Loop(path), tmpDir}, FALSE)
              \o <<Defer(CloseMount(at))>>
              \o Body({Mount(at)})
              \o CloseMount(at)
              \o CleanCloseLoopback(path))>>
-----------------------------------------------------------------------------
(* A raw image becomes an ISO.                                             *)

populateWriteableRootfsDir(from) ==
    <<Acquire("mkdir", IsoBuildDir, {}), Use("cp", RootOf(from) \cup {IsoBuildDir})>>

findKernelVersion == <<InBuildDir("lib/modules"), Step("one kernel")>>

getPackageInformation(ch) ==
    UnsafeRun(ch, <<ReadRoot(ch, "rpm -q")>>) \o UnsafeRun(ch, <<ReadRoot(ch, "rpm -q")>>)
    \o <<Step("parse release")>>

\* The chroot is closed also if it does not come up.
getDracutVersion ==
    <<Call(<<Defer(CloseChroot(writeableRootfs, TRUE))>>
           \o Initialize(writeableRootfs, {})
           \o getPackageInformation(writeableRootfs))>>

extractBootDirFiles == <<InBuildDir("copy boot files"), Step("shim and grub")>>

persistSavedConfigs(at) == <<Use("write saved configs", at)>>

loadSavedConfigs(at) == <<Use("read saved configs", at)>>

updateSavedConfigs(at) == loadSavedConfigs(at) \o persistSavedConfigs(at)

verifyDracutPXESupport == <<Step("dracut version")>>

generatePxeGrubCfg(at) == <<Step("pxe command line"), Use("write pxe grub.cfg", at)>>

\* Without PXE support only its configuration is left out.
updateGrubCfg(at) ==
    <<Use("read grub.cfg", at), Step("grub commands"), Use("write grub.cfg", at),
      OrElse(verifyDracutPXESupport, <<Return>>)>>
    \o generatePxeGrubCfg(at)

stageIsoMakerInitrdArtifacts ==
    <<InBuildDir("mkdir staging"), InBuildDir("copy boot loaders"), InBuildDir("copy kernel")>>

\* The copy's fstab names partitions that the ISO does not have.
prepareRootfsForDracut ==
    <<Change("remove fstab", {"live rootfs"}, {IsoBuildDir}),
      Change("dracut config", {"live rootfs"}, {IsoBuildDir})>>

prepareLiveOSDir ==
    findKernelVersion \o getDracutVersion \o extractBootDirFiles
    \o <<Either(<<InBuildDir("copy saved configs")>>, <<>>)>>
    \o updateSavedConfigs({IsoBuildDir})
    \o <<Call(updateGrubCfg({IsoBuildDir}))>>
    \o stageIsoMakerInitrdArtifacts
    \o prepareRootfsForDracut

\* What is squashed is what the initrd will find.
createSquashfsImage ==
    <<Either(<<InBuildDir("remove old squashfs")>>, <<>>),
      InBuildDir("mksquashfs"), Seal({"live rootfs"})>>

generateInitrdImage ==
    <<Call(<<Defer(CloseChroot(writeableRootfs, TRUE))>>
           \o Initialize(writeableRootfs, {})
           \o isPackageInstalled(writeableRootfs)
           \o UnsafeRun(writeableRootfs, <<ReadRoot(writeableRootfs, "dracut")>>)
           \o <<InBuildDir("copy initrd")>>)>>

\* The image is only read, and its connection closed without a check.
prepareArtifactsFromFullImage(file) ==
    LET ch == ImageChroot(file, "readonly-rootfs-mount", FALSE)
    IN <<Call(connectToExistingImage(file, ch)
              \o <<Defer(CloseConnection(file, ch))>>
              \o populateWriteableRootfsDir(ch)
              \o <<Call(prepareLiveOSDir)>>
              \o createSquashfsImage
              \o generateInitrdImage)>>

micIsoConfigToIsoMakerConfig == <<Step("additional files")>>

createIsoImage ==
    <<Step("saved configs"), Step("pxe grub.cfg"), Step("mkdir output")>>
    \o NewIsoMakerWithConfig
    \o Make(FALSE, {IsoBuildDir})
    \o <<Acquire("", File(OutputIso), {})>>

\* The ISO maker made the file; its contents are served over the network.
extractIsoImageContents(iso, on) ==
    WithMountedFile(iso, on, LAMBDA m : <<Step("mkdir expansion"), Use("cp", m)>>)

populatePXEArtifactsDir ==
    <<Step("remove old artifacts")>>
    \o extractIsoImageContents(OutputIso, {File(OutputIso)})
    \o <<Step("pxe grub.cfg"), Step("move boot loaders"), Step("remove efi"),
         Use("copy iso", {File(OutputIso)})>>

createIsoImageAndPXEFolder(c) ==
    createIsoImage
    \o When(c.pxe, verifyDracutPXESupport \o <<Call(populatePXEArtifactsDir)>>)

createLiveOSIsoImage(c, file) ==
    <<Call(micIsoConfigToIsoMakerConfig
           \o <<DeferJoin(<<RemoveAll("remove build dir", IsoBuildDir)>>)>>
           \o prepareArtifactsFromFullImage(file)
           \o createIsoImageAndPXEFolder(c))>>
-----------------------------------------------------------------------------
(* An ISO is read.                                                         *)

\* The last directory first; each is tried.
cleanUpIsoBuilder ==
    <<Call(JoinErrors(<< <<IfHeld(ExpandedIso, <<RemoveAll("remove expansion", ExpandedIso)>>)>>,
                         <<IfHeld(IsoBuildDir, <<RemoveAll("remove build dir", IsoBuildDir)>>)>> >>))>>

createIsoBuilderFromIsoImage ==
    <<Call(<<DeferOnError(cleanUpIsoBuilder),
             Acquire("mkdir", IsoBuildDir, {}),
             Acquire("mkdirtemp", ExpandedIso, {})>>
           \o extractIsoImageContents(InputIso, {})
           \o <<Use("list files", {ExpandedIso})>>)>>

createImageFromUnchangedOS(c) ==
    <<Call(micIsoConfigToIsoMakerConfig
           \o updateSavedConfigs({ExpandedIso})
           \o <<Call(updateGrubCfg({ExpandedIso}))>>
           \o createIsoImageAndPXEFolder(c))>>

getSizeOnDiskInBytes(m) == <<Use("du", m), Step("parse du")>>

getDiskSizeEstimateInMBs(m) == getSizeOnDiskInBytes(m)

createWriteableImageFromSquashfs(file) ==
    LET ch == ImageChroot(file, "writeable-raw-image", FALSE)
    IN WithMountedFile(Squashfs, {ExpandedIso}, LAMBDA m :
           getDiskSizeEstimateInMBs(m)
           \o createNewImage(file, ch,
                             <<Change("cp", RootContents, RootOf(ch) \cup m)>>))
=============================================================================
