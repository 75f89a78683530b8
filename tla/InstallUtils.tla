---------------------------- MODULE InstallUtils ----------------------------
(***************************************************************************)
(* What the imager and the image customizer share: the partitioning of a   *)
(* disk (imagegen/diskutils) and the commands that fill and configure the  *)
(* root file system of an image (imagegen/installutils, userutils).        *)
(*                                                                         *)
(* disk is the set of devices that the partitions are on, ch the chroot of *)
(* the image's root.                                                       *)
(***************************************************************************)
EXTENDS SafeChroot

Luks == <<"luks">>

LVM == <<"lvm">>

KeyFile == <<"keyfile">>

Swap == <<"swap">>

\* What a file written in the root of an image changes; the files that dracut
\* packs into the initrd change it too.
RootContents == {"labels", "root content"}

FstabContents == RootContents \cup {"initrd inputs"}
-----------------------------------------------------------------------------
(* diskutils.                                                              *)

CreateSparseDisk == <<Step("truncate"), Step("chmod")>>

createPartitionTable(disk) == <<Use("flock sfdisk label", disk), Step("partition table")>>

GetSectorSize(disk) == <<Use("sector size", disk)>>

\* sfdisk succeeds before the kernel shows the partition: poll with lsblk.
waitForPartitionCreation(disk) == <<Use("wait partition", disk)>>

createSinglePartition(disk) ==
    GetSectorSize(disk) \o <<Use("flock sfdisk append", disk)>>
    \o waitForPartitionCreation(disk)

FormatSinglePartition(disk, part) ==
    IF part = "swap"
    THEN <<Use("mkswap", disk), Acquire("swapon", Swap, disk)>>
    ELSE <<Use("mkfs", disk)>>

\* lvm.go: enableLVMForEncryptedRoot.
enableLVMForEncryptedRoot ==
    <<Use("pvcreate", {Luks}), Use("vgcreate", {Luks}), Acquire("lvcreate", LVM, {Luks})>>

encryptRootPartition(disk) ==
    <<Use("luksFormat", disk), Step("blkid"), Acquire("cryptsetup open", Luks, disk)>>
    \o enableLVMForEncryptedRoot
    \o <<Use("mkfs", {LVM})>>

waitForDevicesToSettle(disk) == <<Use("udevadm settle", disk)>>

CreatePartitions(disk, parts, encrypt) ==
    createPartitionTable(disk)
    \o ForEach(parts, LAMBDA p :
           createSinglePartition(disk) \o FormatSinglePartition(disk, p)
           \o When(encrypt /\ p = "/", encryptRootPartition(disk)))
    \o waitForDevicesToSettle(disk)

GetDiskPartitions(disk) == <<Use("lsblk", disk)>>

ApplyRawBinaries(disk) == <<Either(<<Use("dd", disk)>>, <<>>)>>

createDefaultKeyFile == <<Acquire("dd keyfile", KeyFile, {})>>

AddDefaultKeyfile ==
    createDefaultKeyFile \o <<Use("luksAddKey", {Luks, KeyFile}), Step("chmod keyfile")>>

deactivateLVM == <<Release("vgchange", LVM)>>

closeEncryptedDisks == <<Step("dmsetup info"), Release("cryptsetup close", Luks)>>

\* A key file that stays behind is only a warning.
CleanupEncryptedDisks(isOfflineInstall) ==
    <<Try(<<Release("rm keyfile", KeyFile)>>)>>
    \o deactivateLVM \o closeEncryptedDisks
    \o When(isOfflineInstall, <<Step("restart lvmetad")>>)

\* fstab.go.
ReadFstabFile(at) == <<Use("findmnt --fstab", at)>>

WriteFstabFile(at) == <<Change("write fstab", FstabContents, at)>>
-----------------------------------------------------------------------------
(* Commands on the image's root.                                           *)

\* A command or file operation that leaves files in the image's root, on the
\* root itself or from within the chroot.
InRoot(ch, at) == Change(at, RootContents, RootOf(ch))

InChroot(ch, at) == UnsafeRun(ch, <<InRoot(ch, at)>>)

\* One that only reads.
ReadRoot(ch, at) == Use(at, RootOf(ch))

sed(ch) == <<InRoot(ch, "sed")>>

addGroups(ch) == InChroot(ch, "groupadd")

HashPassword == <<Step("openssl passwd")>>

UpdateUserPassword(ch) == <<ReadRoot(ch, "read shadow"), InRoot(ch, "write shadow")>>

AddUser(ch) == InChroot(ch, "useradd")

UserExists(ch) == UnsafeRun(ch, <<ReadRoot(ch, "id")>>)

\* The user's entry of the shadow file is rewritten; it may not be there, or have
\* the wrong fields.
Chage(ch) ==
    <<ReadRoot(ch, "read shadow"), Step("shadow entry"), InRoot(ch, "write shadow")>>

createUserWithPassword(ch) ==
    <<Either(HashPassword, <<>>),
      Either(UpdateUserPassword(ch), <<Either(AddUser(ch), <<>>)>>),
      Either(Chage(ch), <<>>)>>

ConfigureUserPrimaryGroupMembership(ch) == <<Either(InChroot(ch, "usermod -g"), <<>>)>>

ConfigureUserSecondaryGroupMembership(ch) == <<Either(InChroot(ch, "usermod -a"), <<>>)>>

ConfigureUserStartupCommand(ch) == <<Either(sed(ch), <<>>)>>

\* The keys are gathered in a temporary file of the host.
ProvisionUserSSHCerts(ch) ==
    LET keys == Dir(<<"authorized_keys">>)
    IN <<Call(<<Either(<<Return>>, <<>>),
                ReadRoot(ch, "home directory"),
                Acquire("create temp", keys, {}),
                Defer(<<RemoveAll("", keys)>>),
                Step("close temp"),
                Either(<<ReadRoot(ch, "existing keys")>>, <<>>),
                InRoot(ch, "copy key files"),
                Use("append keys", {keys}),
                InRoot(ch, "add authorized_keys")>>
              \o InChroot(ch, "chown and chmod"))>>

addUsers(ch) ==
    <<Either(createUserWithPassword(ch)
             \o ConfigureUserSecondaryGroupMembership(ch)
             \o ProvisionUserSSHCerts(ch)
             \o ConfigureUserStartupCommand(ch),
             <<>>),
      Either(Chage(ch), <<>>)>>
-----------------------------------------------------------------------------
(* The boot loader.                                                        *)

\* blkid of the partition that / or /boot is on.
GetUUID(disk) == <<Use("blkid", disk)>>

FormatMountIdentifier(disk) == <<Either(GetUUID(disk), <<>>)>>

enableCryptoDisk == <<Step("append cryptodisk"), Step("append preload modules")>>

installLegacyBootloader(ch, disk, encrypt) ==
    When(encrypt, enableCryptoDisk)
    \o <<Step("find grub-install"),
         Change("grub2-install", RootContents, RootOf(ch) \cup disk),
         InRoot(ch, "chmod grub2")>>

\* setGrubCfgBootUUID, PrefixPath, BootPrefix, EncryptedVolume, RootDevice,
\* LuksUUID: where the system is.
setGrubCfgDevice(ch) == sed(ch)

\* setGrubCfgAdditionalCmdLine, IMA, SELinux, FIPS, CGroup, LVM.
setGrubCfgCommandLine(ch) == sed(ch)

installEfiBootloader(ch) ==
    <<InRoot(ch, "copy efi grub.cfg")>> \o setGrubCfgDevice(ch)

InstallBootloader(ch, disk, encrypt) ==
    <<Either(installLegacyBootloader(ch, disk, encrypt),
             <<Either(installEfiBootloader(ch), <<>>)>>)>>

installGrubTemplateFile(ch) ==
    <<InRoot(ch, "copy grub template")>> \o setGrubCfgDevice(ch) \o setGrubCfgCommandLine(ch)

InstallGrubDefaults(ch) ==
    installGrubTemplateFile(ch) \o <<Either(installGrubTemplateFile(ch), <<>>)>>

InstallGrubEnv(ch) == <<InRoot(ch, "grubenv")>>

CallGrubMkconfig(ch) == InChroot(ch, "grub2-mkconfig")

ConfigureDiskBootloaderWithRootMountIdType(ch, disk, encrypt) ==
    GetUUID(disk)
    \o InstallBootloader(ch, disk, encrypt)
    \o When(~encrypt, FormatMountIdentifier(disk))
    \o InstallGrubDefaults(ch) \o InstallGrubEnv(ch)
    \o <<Either(CallGrubMkconfig(ch), <<>>)>>
-----------------------------------------------------------------------------
(* Labels.                                                                 *)

SELinuxUpdateConfig(ch) == sed(ch)

\* Each file system is labelled through a bind mount that shows it alone;
\* views are the mounts of the image's partitions.
SELinuxRelabelFiles(ch, views) ==
    LET bind == Append(ch.dir, "_bindmountroot")
    IN <<Call(<<Step("file system types"), ReadRoot(ch, "policy type")>>
              \o ForEach(views, LAMBDA on :
                     NewMount(bind, on, TRUE)
                     \o <<Defer(CloseMount(bind))>>
                     \o UnsafeRun(ch, <<Use("setfiles", {Mount(bind)})>>)
                     \o CloseMount(bind)
                     \o <<ReadRoot(ch, "remove bind root")>>)
              \o <<Seal({"labels"})>>)>>
=============================================================================
