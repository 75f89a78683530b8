----------------------------- MODULE Customizer -----------------------------
(***************************************************************************)
(* The image customizer (pkg/imagecustomizerlib, imagecustomizer.go): an   *)
(* image or a LiveOS ISO is made writeable, customized, and converted to   *)
(* the output format.                                                      *)
(*                                                                         *)
(* A configuration is a record: input and output ("image" or "iso"),       *)
(* partitions ("none", "new", "uuids"), and the Booleans os (whether the   *)
(* OS is customized), packages, hardReset, selinux, overlay, verity,       *)
(* shrink, split, scripts, pxe.                                            *)
(***************************************************************************)
EXTENDS LiveOSIso

RawImage == <<"image.raw">>

NewRawImage == <<"image2.raw">>

\* ImageCustomizerParameters.rawImageFile names the new image.
UsesNewImage == <<"var", "rawImageFile">>

\* The image file from when the partitions are done.
CustomizedImage(c) == IF c.partitions = "new" THEN NewRawImage ELSE RawImage
-----------------------------------------------------------------------------
(* The configuration is checked before anything is touched.                *)

validateAdditionalFiles == <<Either(<<Step("stat additional file")>>, <<>>)>>

validateIsoConfig == validateAdditionalFiles

collectPackagesList == <<Step("read package list")>>

\* Packages can be installed or updated only from some source.
validatePackageLists == collectPackagesList \o <<Step("rpm sources")>>

validateSystemConfig == <<Either(validatePackageLists \o validateAdditionalFiles, <<>>)>>

validateScript == <<Step("stat script")>>

validateScripts(c) == When(c.scripts, validateScript)

validateConfig(c) ==
    <<Step("config is valid")>>
    \o validateIsoConfig \o validateSystemConfig \o validateScripts(c)

createImageCustomizerParameters == <<Step("paths"), Step("formats"), Step("iso input needs iso output")>>

checkEnvironmentVars == <<Step("HOME or USER")>>

logVersionsOfToolDeps == <<Try(<<Step("tool versions")>>)>>

createUuid == <<Step("random")>>
-----------------------------------------------------------------------------

\* It must succeed for the input to count as an ISO builder: one whose root
\* cannot be made writeable is not cleaned up.
convertInputImageToWriteableFormat(c) ==
    <<Call(IF c.input = "iso"
           THEN createIsoBuilderFromIsoImage
                \o When(c.os, createWriteableImageFromSquashfs(RawImage))
           ELSE <<Acquire("qemu-img", File(RawImage), {})>>)>>

warnOnLowFreeSpace(ch) == <<Try(<<ReadRoot(ch, "df")>>)>>

\* How full the disk is can explain a failure: it is reported before.
customizeImageHelper(c, file) ==
    LET ch == ImageChroot(file, "imageroot", TRUE)
    IN <<Call(connectToExistingImage(file, ch)
              \o <<Defer(CloseConnection(file, ch)),
                   OrElse(doOsCustomizations(c, file, ch),
                          warnOnLowFreeSpace(ch) \o <<Raise>>)>>
              \o warnOnLowFreeSpace(ch)
              \o CleanCloseConnection(file, ch))>>

customizeOSContents(c) ==
    LET file == CustomizedImage(c)
    IN <<Call(When(~c.os /\ c.input = "iso", <<Return>>)
              \o checkDmVerityEnabled(RawImage)
              \o customizePartitions(c.partitions, RawImage, NewRawImage)
              \o When(c.partitions = "new", <<Acquire("", UsesNewImage, {})>>)
              \o createUuid
              \o customizeImageHelper(c, file)
              \o When(c.shrink, shrinkFilesystemsHelper(file))
              \o When(c.verity, customizeVerityImageHelper(file))
              \o checkFileSystems(file)
              \o When(c.split, extractPartitionsHelper(file)))>>

convertImageFile(file) == <<Use("qemu-img", {File(file)})>>

convertWriteableFormatToOutputImage(c) ==
    <<Call(IF c.output = "image" THEN convertImageFile(CustomizedImage(c))
           ELSE IF c.os \/ c.input = "image" THEN createLiveOSIsoImage(c, CustomizedImage(c))
           ELSE createImageFromUnchangedOS(c))>>

\* Of the image that was customized last.
cleanUp ==
    <<IfHeld(UsesNewImage, <<RemoveAll("remove image", File(NewRawImage)), Return>>),
      RemoveAll("remove image", File(RawImage))>>

\* The errors of the deferred calls are assigned to a result that has been
\* returned already.
CustomizeImage(c) ==
    <<Call(validateConfig(c)
           \o createImageCustomizerParameters
           \o <<Defer(cleanUp)>>
           \o checkEnvironmentVars
           \o <<Step("mkdir build"), Step("mkdir output")>>
           \o convertInputImageToWriteableFormat(c)
           \o When(c.input = "iso", <<Defer(cleanUpIsoBuilder)>>)
           \o customizeOSContents(c)
           \o convertWriteableFormatToOutputImage(c))>>

CustomizeImageWithConfigFile(c) ==
    logVersionsOfToolDeps
    \o <<Step("read config"), Step("config path")>>
    \o CustomizeImage(c)

CustomizerMain(c) == <<OrElse(CustomizeImageWithConfigFile(c), <<PanicNow>>)>>
=============================================================================
