------------------------------ MODULE IsoMaker ------------------------------
(***************************************************************************)
(* The ISO maker (pkg/isomakerlib): it gathers the files of an ISO image   *)
(* in a work directory, among them a FAT image with the boot loader that   *)
(* is filled through a loop device, and runs mkisofs on the directory.     *)
(* As a tool of its own it packs the RPM repository and the configuration  *)
(* of an installer; for the image customizer, a LiveOS.                    *)
(*                                                                         *)
(* installer: whether it is the tool.  on: what holds the work directory.  *)
(***************************************************************************)
EXTENDS SafeChroot

IsoMakerDir == <<"isomaker-tmp">>

EfiBootImg == <<"isomaker-tmp", "efiboot.img">>

EfiBootMount == <<"isomaker-tmp", "efiboot_temp">>

InWorkDir(at) == Use(at, {Dir(IsoMakerDir)})

recursiveCopyDereferencingLinks == <<InWorkDir("mkdir"), InWorkDir("cp -r -L")>>

extractFromInitrdAndCopy(to) == <<Step("open initrd"), Step("read cpio"), Use("write", to)>>

verifyConfig == <<Step("one system config")>>

NewIsoMaker == <<Step("read config")>> \o verifyConfig

NewIsoMakerWithConfig == verifyConfig
-----------------------------------------------------------------------------
(* The work directory.                                                     *)

copyStaticIsoRootFiles(installer) ==
    IF installer THEN recursiveCopyDereferencingLinks ELSE <<InWorkDir("copy grub.cfg")>>

copyArchitectureDependentIsoRootFiles(installer) ==
    When(installer, recursiveCopyDereferencingLinks)

copyFileToConfigRoot == <<InWorkDir("mkdir config"), InWorkDir("copy config file")>>

\* copyAndRenameAdditionalFiles and the five functions after it: each copies the
\* files of one kind, if there are any.
copyAndRename ==
    ForEach(<<"additionalfiles", "packages", "preinstallscripts", "postinstallscripts",
              "finalizeimagescripts", "sshpublickeys">>,
            LAMBDA kind : <<Either(copyFileToConfigRoot, <<>>)>>)

saveConfigJSON == <<InWorkDir("write config")>>

addSnapshotTimeFile(installer) == When(installer, <<InWorkDir("snapshot time")>>)

copyAndRenameConfigFiles(installer) ==
    <<InWorkDir("mkdir config")>>
    \o When(installer, copyAndRename)
    \o saveConfigJSON \o addSnapshotTimeFile(installer)

copyIsoAdditionalFiles == <<InWorkDir("copy additional files")>>

\* From here on the directory is removed when Make returns.
prepareWorkDirectory(installer, on) ==
    <<Step("stat"), RemoveAll("remove old", Dir(IsoMakerDir)),
      Acquire("mkdir", Dir(IsoMakerDir), on)>>
    \o copyStaticIsoRootFiles(installer)
    \o copyArchitectureDependentIsoRootFiles(installer)
    \o copyAndRenameConfigFiles(installer)
    \o copyIsoAdditionalFiles

isoMakerCleanUp == <<IfHeld(Dir(IsoMakerDir), <<RemoveAll("remove", Dir(IsoMakerDir))>>)>>

createIsoRpmsRepo(installer) == When(installer, recursiveCopyDereferencingLinks)
-----------------------------------------------------------------------------
(* The boot loader and the image.                                          *)

applyRufusWorkaround ==
    extractFromInitrdAndCopy({Dir(IsoMakerDir)}) \o extractFromInitrdAndCopy({Dir(IsoMakerDir)})

copyShimFromInitrd ==
    extractFromInitrdAndCopy({Mount(EfiBootMount)})
    \o extractFromInitrdAndCopy({Mount(EfiBootMount)})
    \o applyRufusWorkaround

setUpIsoGrub2Bootloader ==
    <<Call(<<InWorkDir("dd"), InWorkDir("mkdosfs")>>
           \o NewLoopback(EfiBootImg, {Dir(IsoMakerDir)})
           \o <<Defer(CloseLoopback(EfiBootImg))>>
           \o NewMount(EfiBootMount, {Loop(EfiBootImg), Dir(IsoMakerDir)}, TRUE)
           \o <<Defer(CloseMount(EfiBootMount))>>
           \o copyShimFromInitrd
           \o CloseMount(EfiBootMount)
           \o CleanCloseLoopback(EfiBootImg))>>

createVmlinuzImage == extractFromInitrdAndCopy({Dir(IsoMakerDir)})

copyInitrd == <<InWorkDir("copy initrd")>>

prepareIsoBootLoaderFilesAndFolders ==
    setUpIsoGrub2Bootloader \o createVmlinuzImage \o copyInitrd

buildIsoImage == <<InWorkDir("mkisofs")>>

Make(installer, on) ==
    <<Call(<<DeferJoin(isoMakerCleanUp)>>
           \o <<Step("paths")>>
           \o prepareWorkDirectory(installer, on)
           \o createIsoRpmsRepo(installer)
           \o prepareIsoBootLoaderFilesAndFolders
           \o buildIsoImage)>>

IsoMakerMain == <<OrElse(NewIsoMaker \o Make(TRUE, {}), <<PanicNow>>)>>
=============================================================================
