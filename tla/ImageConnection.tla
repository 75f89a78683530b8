--------------------------- MODULE ImageConnection ---------------------------
(***************************************************************************)
(* The image customizer's hold on an image (pkg/imagecustomizerlib): an    *)
(* image file is attached to a loop device, its partitions are found by    *)
(* mounting them one after the other, and its root becomes a chroot.  Then *)
(* the operations on a whole image: new partitions, new UUIDs, shrinking,  *)
(* dm-verity hashes, file system checks and extracted partitions.          *)
(*                                                                         *)
(* An image has a root partition and /boot, which is also the ESP.         *)
(***************************************************************************)
EXTENDS InstallUtils

TmpPartition == <<"tmppartition">>

ImagePartitions == <<"/", "/boot">>

Image(file) == {Loop(file)}

File(path) == <<"file">> \o path

\* A step on each partition of the image.
EachPartition(body) == ForEach(ImagePartitions, LAMBDA p : body)
-----------------------------------------------------------------------------
(* partitionutils.                                                         *)

\* A partition is mounted at the same temporary directory each time.
WithTmpMount(file, body) ==
    NewMount(TmpPartition, Image(file), TRUE)
    \o <<Defer(CloseMount(TmpPartition))>>
    \o body
    \o CloseMount(TmpPartition)

InTmpMount(at) == Use(at, {Mount(TmpPartition)})

\* The one partition that has an /etc/fstab.
findRootfsPartition(file) ==
    <<Call(EachPartition(WithTmpMount(file, <<InTmpMount("stat fstab")>>))
           \o <<Step("one root partition")>>)>>

findSourcePartition == <<Step("source partition")>>

findMountsFromFstabFile(at) == ReadFstabFile(at) \o findSourcePartition

findMountsFromRootfs(file) ==
    <<Call(WithTmpMount(file, findMountsFromFstabFile({Mount(TmpPartition)})))>>

findPartitions(file) ==
    GetDiskPartitions(Image(file))
    \o findRootfsPartition(file) \o findMountsFromRootfs(file)

findSystemBootPartition == <<Step("one boot partition")>>

findBootPartitionFromEsp(file) ==
    <<Call(WithTmpMount(file, <<InTmpMount("read grub.cfg")>>)
           \o <<Step("boot partition of UUID")>>)>>

findRootMountIdTypeFromFstabFile(ch) == ReadFstabFile(RootOf(ch)) \o findSourcePartition

getImageBootType(file) == GetDiskPartitions(Image(file)) \o findSystemBootPartition

getPartitionNum == <<Step("partition number")>>
-----------------------------------------------------------------------------
(* imageConnection and imageutils.                                         *)

ImageChroot(file, dir, defaults) ==
    Chroot(<<dir>>, {}, <<MountPoint("/", Image(file))>>,
           <<MountPoint("/boot", Image(file))>>, defaults)

ConnectLoopback(file) == NewLoopback(file, {File(file)})

ConnectChroot(ch) == Initialize(ch, {})

CloseConnection(file, ch) ==
    <<Try(CloseChroot(ch, FALSE)), Try(CloseLoopback(file))>>

CleanCloseConnection(file, ch) ==
    <<Call(CloseChroot(ch, FALSE)), Call(CleanCloseLoopback(file))>>

connectToExistingImageHelper(file, ch) ==
    ConnectLoopback(file) \o findPartitions(file) \o ConnectChroot(ch)

connectToExistingImage(file, ch) ==
    <<Call(<<OrElse(connectToExistingImageHelper(file, ch),
                    CloseConnection(file, ch) \o <<Raise>>)>>)>>

\* typeConversion: the customizer's configuration as the imager's.
diskConfigToImager == <<Step("disk config")>>

partitionSettingsToImager == <<Step("partition settings")>>

bootTypeToImager == <<Step("boot type")>>

kernelCommandLineToImager == <<Step("SELinux mode")>>

mountIdentifierTypeToImager == <<Step("mount identifier")>>

createPartIdToPartUuidMap == <<Step("partition of id")>>

\* The fstab waits beside the image: the installed files come with their own.
createImageBoilerplate(file, ch) ==
    <<Call(<<Acquire("truncate", File(file), {}), Step("chmod")>>
           \o ConnectLoopback(file)
           \o CreatePartitions(Image(file), ImagePartitions, FALSE)
           \o GetDiskPartitions(Image(file))
           \o createPartIdToPartUuidMap
           \o <<Step("remove old fstab"), Step("write tmp fstab")>>
           \o findMountsFromFstabFile({})
           \o ConnectChroot(ch))>>

createNewImageHelper(file, ch, installOS) ==
    diskConfigToImager \o partitionSettingsToImager
    \o createImageBoilerplate(file, ch)
    \o <<Call(installOS),
         Change("move fstab", FstabContents, RootOf(ch))>>

createNewImage(file, ch, installOS) ==
    <<Call(<<Defer(CloseConnection(file, ch)),
             Call(createNewImageHelper(file, ch, installOS))>>
           \o CleanCloseConnection(file, ch))>>

configureDiskBootLoader(file, ch) ==
    bootTypeToImager \o kernelCommandLineToImager \o mountIdentifierTypeToImager
    \o <<ReadRoot(ch, "read default grub")>>
    \o <<Call(ConfigureDiskBootloaderWithRootMountIdType(ch, Image(file), FALSE))>>

\* A loop device for the time of the body.
WithLoopback(file, body) ==
    <<Call(NewLoopback(file, {File(file)})
           \o <<Defer(CloseLoopback(file))>>
           \o body
           \o CleanCloseLoopback(file))>>
-----------------------------------------------------------------------------
(* New partitions: the files are copied into a new image, or the UUIDs of  *)
(* the partitions change.                                                  *)

copyPartitionFiles(from, to) ==
    <<Change("cp", RootContents, RootOf(from) \cup RootOf(to))>>

copyFilesIntoNewDisk(from, to) == copyPartitionFiles(from, to)

customizePartitionsUsingFileCopy(file, newFile) ==
    LET old == ImageChroot(file, "imageroot", FALSE)
        new == ImageChroot(newFile, "newimageroot", FALSE)
    IN <<Call(connectToExistingImage(file, old)
              \o <<Defer(CloseConnection(file, old))>>
              \o createNewImage(newFile, new, copyFilesIntoNewDisk(old, new))
              \o CleanCloseConnection(file, old))>>

resetFileSystemUuid(file) == <<Use("e2fsck", Image(file)), Use("tune2fs", Image(file))>>

resetPartitionUuid(file) == <<Use("sfdisk", Image(file))>>

fixPartitionUuidsInFstabFile(file) ==
    <<Call(findRootfsPartition(file)
           \o WithTmpMount(file, ReadFstabFile({Mount(TmpPartition)})
                                 \o findSourcePartition
                                 \o WriteFstabFile({Mount(TmpPartition)})))>>

resetPartitionsUuids(file) ==
    WithLoopback(file,
        GetDiskPartitions(Image(file))
        \o EachPartition(resetFileSystemUuid(file))
        \o EachPartition(resetPartitionUuid(file))
        \o WaitForDiskDevice(file)
        \o fixPartitionUuidsInFstabFile(file))

customizePartitions(how, file, newFile) ==
    CASE how = "new"   -> customizePartitionsUsingFileCopy(file, newFile)
      [] how = "uuids" -> resetPartitionsUuids(file)
      [] how = "none"  -> <<>>
-----------------------------------------------------------------------------
(* The file systems of an image that is no longer mounted.                 *)

checkDmVerityEnabled(file) ==
    WithLoopback(file, GetDiskPartitions(Image(file)) \o <<Step("verity image")>>)

getStartSectors(file) == <<Use("fdisk", Image(file))>>

getFilesystemSizeInSectors(file) ==
    <<Step("resize2fs output")>> \o GetSectorSize(Image(file))

getNewPartitionEndInSectors(file) == getFilesystemSizeInSectors(file)

\* The partition follows its file system, unless that kept its size.
shrinkFilesystems(file) ==
    GetDiskPartitions(Image(file))
    \o getStartSectors(file)
    \o EachPartition(getPartitionNum
           \o <<Use("e2fsck", Image(file)),
                Change("flock resize2fs", {"root content"}, Image(file))>>
           \o getNewPartitionEndInSectors(file)
           \o <<Either(<<Change("flock parted", {"root content"}, Image(file))>>
                       \o WaitForDiskDevice(file), <<>>)>>)

shrinkFilesystemsHelper(file) == WithLoopback(file, <<Call(shrinkFilesystems(file))>>)

checkFileSystem(file) == <<Use("fsck -n", Image(file))>>

\* Every file system is checked, whatever the others say.
checkFileSystemsHelper(file) ==
    GetDiskPartitions(Image(file))
    \o JoinErrors([i \in DOMAIN ImagePartitions |-> checkFileSystem(file)])

checkFileSystems(file) == WithLoopback(file, <<Call(checkFileSystemsHelper(file))>>)

checkFileSystemFile(file) == WithLoopback(file, checkFileSystem(file))

\* A copy of a partition beside the output image.
PartitionFile == <<"partition.raw">>

copyBlockDeviceToFile(file) ==
    <<Use("dd", Image(file)), Acquire("", File(PartitionFile), {})>>

compressWithZstd ==
    <<Use("zstd", {File(PartitionFile)}), Acquire("", File(<<"temp.zst">>), {})>>

\* The frame carries the image's UUID.
addSkippableFrame ==
    <<Use("open", {File(<<"temp.zst">>)}),
      Acquire("create", File(<<"partition.zst">>), {}),
      Step("write frame"), Use("copy", {File(<<"temp.zst">>)})>>

extractRawZstPartition ==
    compressWithZstd
    \o <<Release("remove", File(PartitionFile))>>
    \o addSkippableFrame
    \o <<Release("remove", File(<<"temp.zst">>))>>

writePartitionMetadataJson == <<Step("write json")>>

\* The output has one partition here: a second one has files of its own.
extractPartitions(file) ==
    GetDiskPartitions(Image(file))
    \o getPartitionNum
    \o copyBlockDeviceToFile(file)
    \o checkFileSystemFile(PartitionFile)
    \o <<Either(<<Call(extractRawZstPartition)>>, <<>>)>>
    \o writePartitionMetadataJson

extractPartitionsHelper(file) == WithLoopback(file, <<Call(extractPartitions(file))>>)

\* customizeverity: the arguments of the verity device in grub.cfg.
idToPartitionBlockDevicePath == <<Step("partition of id")>>

updateGrubConfigForVerity(at) ==
    <<Use("read grub.cfg", at), Step("verity partitions"), Step("kernel arguments"),
      Change("write grub.cfg", {"boot content"}, at)>>

\* From here on the root partition is covered by its hash.
customizeVerityImageHelper(file) ==
    WithLoopback(file,
        GetDiskPartitions(Image(file))
        \o idToPartitionBlockDevicePath
        \o <<Use("veritysetup format", Image(file)), Seal({"root content"}),
             Step("root hash")>>
        \o findSystemBootPartition
        \o findBootPartitionFromEsp(file)
        \o WithTmpMount(file, updateGrubConfigForVerity({Mount(TmpPartition)})))
=============================================================================
