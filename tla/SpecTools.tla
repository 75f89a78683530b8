----------------------------- MODULE SpecTools ------------------------------
(***************************************************************************)
(* The tools that read SPEC files and packages in a worker chroot: the     *)
(* SRPM packer (srpmpacker), the spec reader (specreader), the versions    *)
(* processor (versionsprocessor), the license checker (licensecheck) and   *)
(* the check of the worker chroot (validatechroot).  Here a pool of        *)
(* workers is its work on one SPEC; how the pool hands out its requests    *)
(* and stops is modelled in ChrootProcess.                                 *)
(***************************************************************************)
EXTENDS SafeChroot

InChroot(ch, at) == Use(at, {Inside(ch)})

TdnfInstall(ch) == <<InChroot(ch, "tdnf install")>>

\* A glob over the SPEC directory, or one for each name asked for.
findSPECFiles(ch) == <<InChroot(ch, "glob specs"), Either(<<Raise>>, <<>>)>>
-----------------------------------------------------------------------------
(* The SRPM packer.  azureCli: how sources are fetched.                    *)

addAzureConfigMountPoint == <<Step("home directory")>>

PackerChroot(azureCli) ==
    Chroot(<<"SRPM_packaging">>, {}, <<>>,
           <<MountPoint("/output", {}), MountPoint("/specs", {})>>
           \o When(azureCli, <<MountPoint("/root/.azure", {})>>), TRUE)

installAzureCliPackage(ch) == Run(ch, TdnfInstall(ch) \o TdnfInstall(ch))

\* Mutant: no deferred Close.
createPackerChrootOnly(azureCli) ==
    LET ch == PackerChroot(azureCli)
    IN <<Call(When(azureCli, addAzureConfigMountPoint)
              \o InitializeWithMacros(ch, {})
              \o AddFiles(ch)
              \o When(azureCli, installAzureCliPackage(ch)))>>

createPackerChroot(azureCli) ==
    LET ch == PackerChroot(azureCli)
    IN <<Call(When(azureCli, addAzureConfigMountPoint)
              \o InitializeWithMacros(ch, {})
              \o <<DeferOnError(CloseChroot(ch, FALSE))>>
              \o AddFiles(ch)
              \o When(azureCli, installAzureCliPackage(ch)))>>

\* The working directory of one SRPM lies in the chroot.
WorkingDir == Dir(<<"SRPM_packaging", "build">>)

InWorkingDir(at) == Use(at, {WorkingDir})

createRPMBuildFolderStructure == <<InWorkingDir("mkdir SOURCES, SPECS, SRPMS")>>

\* A missing signature file is an empty one.
readSignatures(ch) == <<InChroot(ch, "read signatures")>>

initializeSourceConfig(ch) == <<Either(readSignatures(ch), <<>>)>>

validateSignature(ch) == <<InChroot(ch, "lookup and sha256"), Either(<<Raise>>, <<>>)>>

tryToHydrateFromLocalSource(ch, patch) ==
    When(~patch, validateSignature(ch)) \o <<InWorkingDir("copy source")>>

\* A file that cannot be fetched, or has the wrong signature, is left out.
hydrateFromRemoteSource(ch, azureCli) ==
    When(azureCli, <<Step("blob client")>>)
    \o <<Either(<<Raise>>,
                <<Try(<<InWorkingDir("download source"),
                        OrElse(validateSignature(ch),
                               <<InWorkingDir("remove source")>>)>>)>>)>>

hydrateFiles(ch, azureCli, patch) ==
    <<Call(<<InChroot(ch, "read tags")>>
           \o tryToHydrateFromLocalSource(ch, patch)
           \o When(~patch, hydrateFromRemoteSource(ch, azureCli))
           \o <<Either(<<Raise>>, <<>>)>>)>>

updateSignaturesIfApplicable(ch) == <<Either(<<InChroot(ch, "write signatures")>>, <<>>)>>

GenerateSRPMFromSPEC == <<InWorkingDir("rpmbuild -bs")>>

copyOutput == <<InWorkingDir("copy SRPM")>>

cleanupSRPMWorkingDir == <<RemoveAll("remove working directory", WorkingDir)>>

\* The error of writing the signatures is overwritten by the next result.
packSingleSPEC(ch, azureCli) ==
    <<Call(<<Acquire("mkdir", WorkingDir, {Inside(ch)}), Defer(cleanupSRPMWorkingDir)>>
           \o createRPMBuildFolderStructure
           \o <<InWorkingDir("copy SPEC")>>
           \o hydrateFiles(ch, azureCli, TRUE) \o hydrateFiles(ch, azureCli, FALSE)
           \o <<Try(updateSignaturesIfApplicable(ch))>>
           \o GenerateSRPMFromSPEC \o copyOutput)>>

\* specsToPackWorker: an SRPM newer than everything it is made from is kept.
calculateSPECsToRepack(ch) ==
    <<InChroot(ch, "architecture"), InChroot(ch, "query SRPM"), InChroot(ch, "compatible"),
      InChroot(ch, "compare times")>>

packSRPMs(ch, azureCli) ==
    <<Either(initializeSourceConfig(ch) \o <<InChroot(ch, "mkdir output")>>
             \o packSingleSPEC(ch, azureCli),
             <<>>)>>

createAllSRPMs(ch, azureCli) ==
    findSPECFiles(ch) \o calculateSPECsToRepack(ch) \o packSRPMs(ch, azureCli)

createAllSRPMsWrapper(azureCli) ==
    LET ch == PackerChroot(azureCli)
    IN <<Call(createPackerChroot(azureCli)
              \o <<Defer(CloseChroot(ch, FALSE))>>
              \o Run(ch, createAllSRPMs(ch, azureCli)))>>

SrpmPackerMain(azureCli) ==
    PanicOnError(<<Step("certificates"), Step("package list")>>
                 \o createAllSRPMsWrapper(azureCli))
-----------------------------------------------------------------------------
(* The spec reader.                                                        *)

ParserChroot ==
    Chroot(<<"specparser_chroot">>, {}, <<>>,
           <<MountPoint("/specs", {}), MountPoint("/srpms", {})>>, TRUE)

CreateChroot(ch, macros) == IF macros THEN InitializeWithMacros(ch, {}) ELSE Initialize(ch, {})

readBuildRequires(ch) == <<InChroot(ch, "query BuildRequires"), Either(<<Raise>>, <<>>)>>

\* The provides and requires of each RPM of the SPEC; rich dependencies may be
\* of a form that is not supported.
parseProvides(ch) == <<InChroot(ch, "query provides"), Either(<<Raise>>, <<>>)>>

readSpecWorker(ch) ==
    <<InChroot(ch, "query SRPM"), InChroot(ch, "compatible")>>
    \o parseProvides(ch) \o readBuildRequires(ch)
    \o <<InChroot(ch, "query check section"), Either(readBuildRequires(ch), <<>>)>>

parseSPECs(ch) == findSPECFiles(ch) \o readSpecWorker(ch)

ParseSPECsWrapper ==
    LET ch == ParserChroot
    IN <<Call(CreateChroot(ch, TRUE)
              \o <<Defer(CloseChroot(ch, FALSE)), Step("architecture")>>
              \o Run(ch, parseSPECs(ch))
              \o <<Step("marshal"), Step("write")>>)>>

SpecReaderMain ==
    PanicOnError(<<Step("toolchain manifest"), Step("package list"), Step("paths")>>
                 \o ParseSPECsWrapper)
-----------------------------------------------------------------------------
(* The versions processor.                                                 *)

processSpecFile(ch) == <<InChroot(ch, "query NAME: evr")>>

\* An extra file that cannot be read is left out.
writeExtraFilesToOutput == <<Try(<<Step("read extra file")>>), Step("write macros")>>

VersionsChroot ==
    Chroot(<<"versionprocessor_chroot">>, {}, <<>>, <<MountPoint("/specs", {})>>, TRUE)

\* os.Exit(1) runs neither deferred calls nor exit handlers.
VersionsProcessorMain ==
    LET ch == VersionsChroot
    IN <<Step("architecture")>>
       \o PanicOnError(CreateChroot(ch, FALSE))
       \o <<Defer(CloseChroot(ch, FALSE))>>
       \o FatalOnError(<<ch>>, Run(ch, findSPECFiles(ch) \o processSpecFile(ch)))
       \o <<OrElse(writeExtraFilesToOutput, <<Exit>>)>>
-----------------------------------------------------------------------------
(* The license checker, a tool of its own and a part of the scheduler.     *)

LicenseChroot == Chroot(<<"license_chroot">>, {}, <<>>, <<MountPoint("/mnt", {})>>, TRUE)

InitializeChroot == Initialize(LicenseChroot, {})

Cleanup == CloseChroot(LicenseChroot, FALSE)

\* New: the chroot is given back if the lists of names do not load.
NewLicenseChecker ==
    <<Call(InitializeChroot
           \o <<DeferOnError(Cleanup), Step("license names"), Step("exceptions")>>)>>

checkRpmLicenses == <<InChroot(LicenseChroot, "query files"), InChroot(LicenseChroot, "query name")>>

runLicenseCheckInChroot ==
    <<InChroot(LicenseChroot, "find RPMs"), Either(checkRpmLicenses, <<>>)>>

CheckLicenses == Run(LicenseChroot, runLicenseCheckInChroot)

validateRpmDir ==
    <<Call(NewLicenseChecker \o <<DeferJoin(Cleanup)>> \o CheckLicenses)>>

\* One chroot after the other, for each directory.
scanDirectories ==
    LET scan == FatalOnError(<<LicenseChroot>>, validateRpmDir) IN scan \o scan

LicenseCheckMain ==
    scanDirectories
    \o FatalOnError(<<LicenseChroot>>, <<Step("save results"), Step("write summary")>>)
    \o <<Either(Fatal(<<LicenseChroot>>), <<>>)>>
-----------------------------------------------------------------------------
(* The check of the worker chroot.                                         *)

ValidateChroot ==
    Chroot(<<"validatechroot">>, {}, <<>>, <<MountPoint("/toolchainrpms", {})>>, TRUE)

\* An RPM of the manifest that does not install is noted.
validateWorker ==
    LET ch == ValidateChroot
    IN <<Call(<<Defer(PanicOnError(CloseChroot(ch, FALSE)))>>
              \o Initialize(ch, {})
              \o <<Step("read manifest")>>
              \o Run(ch, <<Either(<<Raise>>, <<>>), Try(<<InChroot(ch, "rpm -i")>>)>>)
              \o <<Either(<<Raise>>, <<>>)>>)>>

ValidateChrootMain == FatalOnError(<<ValidateChroot>>, validateWorker)
=============================================================================
