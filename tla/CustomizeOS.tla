----------------------------- MODULE CustomizeOS -----------------------------
(***************************************************************************)
(* What the image customizer does inside the root of an image              *)
(* (imagecustomizerlib, doOsCustomizations): packages from mounted         *)
(* repositories, files, users, services, modules, the boot loader,         *)
(* SELinux, overlays, verity, the initrd and the user's scripts.  The      *)
(* os-modifier tool runs some of the same functions on a live root.        *)
(*                                                                         *)
(* c is the configuration (see Customizer), file the image's file, ch the  *)
(* chroot of its root.                                                     *)
(***************************************************************************)
EXTENDS ImageConnection

\* resolv.conf is the host's while the image is customized.
overrideResolvConf(ch) ==
    <<ReadRoot(ch, "read resolv.conf"), InRoot(ch, "remove resolv.conf"),
      InRoot(ch, "copy resolv.conf")>>

IsServiceEnabled(ch) == UnsafeRun(ch, <<ReadRoot(ch, "systemctl is-enabled")>>)

restoreResolvConf(ch) ==
    <<InRoot(ch, "remove resolv.conf"),
      Either(IsServiceEnabled(ch)
             \o <<Either(<<InRoot(ch, "link resolv.conf")>>, <<>>)>>,
             <<InRoot(ch, "write resolv.conf")>>)>>
-----------------------------------------------------------------------------
(* Packages.                                                               *)

RpmsParent(ch) == Append(ch.dir, "_localrpms")

RpmsMount(ch, i) == Append(RpmsParent(ch), i)

AllRepos(ch) == File(Append(RpmsParent(ch), "allrepos.repo"))

\* Two sources: a directory and a .repo file that names a local directory.
RpmsSources == <<"00", "01">>

mountRpmsDirectory(ch, i) == NewMount(RpmsMount(ch, i), {Dir(RpmsParent(ch))}, TRUE)

CreateOrUpdateRepo == <<Step("createrepo")>>

createRepoFromDirectory(ch, i) ==
    CreateOrUpdateRepo \o mountRpmsDirectory(ch, i) \o <<Step("append repo")>>

createRepoFromRepoConfig(ch, i) ==
    <<Step("load repo")>> \o mountRpmsDirectory(ch, i) \o <<Step("append section")>>

mountRpmSourcesHelper(ch) ==
    <<Acquire("mkdir", Dir(RpmsParent(ch)), RootOf(ch)),
      Either(<<ReadRoot(ch, "image repos")>>, <<>>),
      Step("source type")>>
    \o createRepoFromDirectory(ch, "00")
    \o createRepoFromRepoConfig(ch, "01")
    \o <<Acquire("save repos", AllRepos(ch), {Dir(RpmsParent(ch))})>>

\* All mounts are tried; the parent directory goes only when all came off,
\* and only if it was made here.
closeRpmSources(ch) ==
    <<Call(JoinErrors(<<<<RemoveAll("remove repos", AllRepos(ch))>>>>
                      \o [i \in DOMAIN RpmsSources |-> CloseMount(RpmsMount(ch, RpmsSources[i]))])
           \o <<IfHeld(Dir(RpmsParent(ch)), <<Release("rmdir", Dir(RpmsParent(ch)))>>)>>)>>

mountRpmSources(ch) ==
    <<Call(<<OrElse(mountRpmSourcesHelper(ch),
                    <<Try(closeRpmSources(ch)), Raise>>)>>)>>

callTdnf(ch) == UnsafeRun(ch, <<InRoot(ch, "tdnf")>>)

refreshTdnfMetadata(ch) ==
    UnsafeRun(ch, <<Change("tdnf check-update", RootContents, {AllRepos(ch)})>>)

removePackages(ch) == <<Either(callTdnf(ch), <<>>)>>

\* These need the repositories.
updateAllPackages(ch) ==
    UnsafeRun(ch, <<Change("tdnf update", RootContents, {AllRepos(ch)})>>)

installOrUpdatePackages(ch) ==
    <<Either(UnsafeRun(ch, <<Change("tdnf install", RootContents, {AllRepos(ch)})>>), <<>>)>>

cleanTdnfCache(ch) == InChroot(ch, "tdnf clean")

addRemoveAndUpdatePackages(c, ch) ==
    <<Call(When(c.packages,
                mountRpmSources(ch) \o <<Defer(closeRpmSources(ch))>> \o refreshTdnfMetadata(ch))
           \o removePackages(ch)
           \o When(c.packages,
                   <<Either(updateAllPackages(ch), <<>>)>>
                   \o installOrUpdatePackages(ch)
                   \o closeRpmSources(ch)
                   \o cleanTdnfCache(ch)))>>
-----------------------------------------------------------------------------
(* Files, users, services, modules.                                        *)

UpdateHostname(ch) == <<Either(<<InRoot(ch, "hostname")>>, <<>>)>>

copyAdditionalDirs(ch) == <<Either(<<InRoot(ch, "add dirs")>>, <<>>)>>

copyAdditionalFiles(ch) == <<Either(<<InRoot(ch, "add files")>>, <<>>)>>

\* What exists is updated, except for its UID and home directory.
addOrUpdateUser(ch) ==
    UserExists(ch)
    \o <<Either(HashPassword, <<>>)>>
    \o <<Either(<<Step("uid or home of existing user")>> \o UpdateUserPassword(ch),
                AddUser(ch)),
         Either(Chage(ch), <<>>)>>
    \o ConfigureUserPrimaryGroupMembership(ch)
    \o ConfigureUserSecondaryGroupMembership(ch)
    \o ProvisionUserSSHCerts(ch)
    \o ConfigureUserStartupCommand(ch)

AddOrUpdateUsers(ch) == <<Either(addOrUpdateUser(ch), <<>>)>>

enableOrDisableServices(ch) ==
    <<Either(InChroot(ch, "systemctl enable"), <<>>),
      Either(IsServiceEnabled(ch) \o InChroot(ch, "systemctl disable"), <<>>)>>

removeModuleFromDisableList(ch) == <<InRoot(ch, "module disable list")>>

isModuleDisabled(ch) == <<ReadRoot(ch, "module disable list")>>

ensureModulesLoaded(ch) == <<InRoot(ch, "module load list")>>

ensureModulesDisabled(ch) == <<InRoot(ch, "module disable list")>>

updateModulesOptions(ch) == <<InRoot(ch, "module options")>>

loadOrDisableModules(ch) ==
    <<Either(removeModuleFromDisableList(ch), isModuleDisabled(ch))>>
    \o ensureModulesLoaded(ch) \o ensureModulesDisabled(ch) \o updateModulesOptions(ch)

addCustomizerRelease(ch) == <<InRoot(ch, "release file")>>
-----------------------------------------------------------------------------
(* Boot loader and SELinux.                                                *)

ReadGrub2ConfigFile(ch) == <<ReadRoot(ch, "read grub.cfg")>>

readDefaultGrubFile(ch) == <<ReadRoot(ch, "read default grub")>>

NewBootCustomizer(ch) == ReadGrub2ConfigFile(ch) \o readDefaultGrubFile(ch)

\* Either the defaults, from which grub2-mkconfig makes grub.cfg, or grub.cfg.
WriteToFile(ch) ==
    <<Either(<<InRoot(ch, "write default grub")>> \o CallGrubMkconfig(ch),
             <<InRoot(ch, "write grub.cfg")>>)>>

\* The arguments of the kernel are BootConfig's subject; finding them may fail.
AddKernelCommandLine == <<Step("command line")>>

UpdateSELinuxCommandLine == <<Step("command line")>>

PrepareForVerity == <<Step("default grub variables")>>

getSELinuxModeFromConfigFile(ch) == <<ReadRoot(ch, "selinux config")>>

GetSELinuxMode(ch) ==
    <<Step("command line"), Either(getSELinuxModeFromConfigFile(ch), <<>>)>>

addKernelCommandLine(ch) ==
    <<Either(NewBootCustomizer(ch) \o AddKernelCommandLine \o WriteToFile(ch), <<>>)>>

hardResetBootLoader(c, file, ch) ==
    NewBootCustomizer(ch) \o GetSELinuxMode(ch)
    \o (IF c.partitions = "new" THEN <<Step("root file system")>>
        ELSE findRootMountIdTypeFromFstabFile(ch) \o getImageBootType(file))
    \o configureDiskBootLoader(file, ch)

handleBootLoader(c, file, ch) ==
    IF c.hardReset THEN hardResetBootLoader(c, file, ch) ELSE addKernelCommandLine(ch)

\* There must be a policy unless SELinux is to be disabled.
UpdateSELinuxModeInConfigFile(ch) ==
    <<ReadRoot(ch, "stat selinux config"), Step("policy installed"),
      Either(SELinuxUpdateConfig(ch), <<>>)>>

\* The boot loader that was just made has the mode already.
handleSELinux(c, ch) ==
    NewBootCustomizer(ch)
    \o <<Either(GetSELinuxMode(ch),
                When(~c.hardReset, UpdateSELinuxCommandLine \o WriteToFile(ch))
                \o UpdateSELinuxModeInConfigFile(ch))>>

selinuxSetFiles(c, file, ch) ==
    When(c.selinux,
         SELinuxRelabelFiles(ch, <<{ChrootMount(ch, "/")}, {ChrootMount(ch, "/boot")}>>))
-----------------------------------------------------------------------------
(* Overlays, verity, initrd, scripts.                                      *)

addDracutConfig(ch) ==
    <<ReadRoot(ch, "stat dracut config"),
      Change("write dracut config", FstabContents, RootOf(ch))>>

addDracutDriver(ch) == addDracutConfig(ch)

addDracutModuleAndDriver(ch) == addDracutConfig(ch)

updateFstabForOverlays(ch) ==
    ReadFstabFile(RootOf(ch)) \o <<Step("overlay fields")>> \o WriteFstabFile(RootOf(ch))

createOverlayDirectories(ch) == <<InRoot(ch, "mkdir overlay")>>

\* The labels of an overlay are those of the directory it covers.
addEquivalencyRules(c, ch) == When(c.selinux, InChroot(ch, "semanage"))

enableOverlays(c, ch) ==
    When(c.overlay,
         addDracutDriver(ch) \o updateFstabForOverlays(ch)
         \o createOverlayDirectories(ch) \o addEquivalencyRules(c, ch))

isPackageInstalled(ch) == UnsafeRun(ch, <<ReadRoot(ch, "rpm -qi")>>)

validateVerityDependencies(ch) == isPackageInstalled(ch)

updateFstabForVerity(ch) == ReadFstabFile(RootOf(ch)) \o WriteFstabFile(RootOf(ch))

prepareGrubConfigForVerity(ch) ==
    NewBootCustomizer(ch) \o PrepareForVerity \o WriteToFile(ch)

enableVerityPartition(c, ch) ==
    When(c.verity,
         validateVerityDependencies(ch) \o addDracutModuleAndDriver(ch)
         \o updateFstabForVerity(ch) \o prepareGrubConfigForVerity(ch))

regenerateInitrd(ch) ==
    UnsafeRun(ch, <<ReadRoot(ch, "find mkinitrd"), InRoot(ch, "mkinitrd"),
                    Seal({"initrd inputs"})>>)

ConfigMount(ch) == Append(ch.dir, "_imageconfigs")

createTempScriptFile(ch, script) ==
    <<Acquire("create temp script", script, RootOf(ch)), Step("write temp script")>>

\* A script of the configuration directory, or one that is written to /tmp.
runUserScript(ch) ==
    LET script == File(Append(ch.dir, "script"))
        run(s) == UnsafeRun(ch, <<Use("user script", s)>>)
    IN <<Call(<<Either(run({Mount(ConfigMount(ch))}),
                       createTempScriptFile(ch, script)
                       \o <<Defer(<<RemoveAll("", script)>>)>>
                       \o run({script}) \o <<Release("remove script", script)>>)>>)>>

runUserScripts(c, ch) ==
    When(c.scripts,
         <<Call(NewMount(ConfigMount(ch), RootOf(ch), TRUE)
                \o <<Defer(CloseMount(ConfigMount(ch)))>>
                \o runUserScript(ch)
                \o CloseMount(ConfigMount(ch)))>>)

checkForInstalledKernel(ch) == <<ReadRoot(ch, "lib/modules"), Step("a kernel")>>


doOsCustomizations(c, file, ch) ==
    overrideResolvConf(ch)
    \o addRemoveAndUpdatePackages(c, ch)
    \o UpdateHostname(ch)
    \o copyAdditionalDirs(ch) \o copyAdditionalFiles(ch)
    \o AddOrUpdateUsers(ch)
    \o enableOrDisableServices(ch)
    \o loadOrDisableModules(ch)
    \o addCustomizerRelease(ch)
    \o handleBootLoader(c, file, ch)
    \o handleSELinux(c, ch)
    \o enableOverlays(c, ch)
    \o enableVerityPartition(c, ch)
    \o When(c.partitions # "none" \/ c.overlay \/ c.verity, regenerateInitrd(ch))
    \o runUserScripts(c, ch)
    \o restoreResolvConf(ch)
    \o selinuxSetFiles(c, file, ch)
    \o runUserScripts(c, ch)
    \o checkForInstalledKernel(ch)
=============================================================================
