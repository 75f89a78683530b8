----------------------------- MODULE PkgWorker ------------------------------
(***************************************************************************)
(* The package worker (pkgworker), which the scheduler starts once for     *)
(* each build and each test of an SRPM: it unpacks a chroot, lays the RPM  *)
(* directories over it, builds inside and moves the RPMs out.  That a      *)
(* build goes on after its timeout is modelled in ChrootProcess, and the   *)
(* ccache archives in CCache.                                              *)
(*                                                                         *)
(* c.check: a test run.  c.ccache: whether ccache is used.                 *)
(***************************************************************************)
EXTENDS SafeChroot

BuildChroot(c) ==
    Chroot(<<"build">>, {}, <<>>,
           <<MountPoint("/localrpms", {}), MountPoint("/toolchainrpms", {}),
             MountPoint("/upstream-cached-rpms", {})>>
           \o When(c.ccache, <<MountPoint("/ccache-dir", {})>>),
           TRUE)

In(ch, at) == Use(at, {Inside(ch)})
-----------------------------------------------------------------------------
(* Inside the chroot.                                                      *)

CreateRepo(ch) == <<In(ch, "find repodata"), In(ch, "remove repodata"), In(ch, "createrepo")>>

\* An error of tdnf counts only if its output names a package that is neither
\* there already nor unknown.
tdnfInstall(ch) ==
    <<Call(<<In(ch, "releasever"), Try(<<In(ch, "tdnf install")>>),
             Either(<<Raise>>, <<>>)>>)>>

removeLibArchivesFromSystem(ch) == <<In(ch, "remove .la files")>>

buildRPMFromSRPMInChroot(ch, c) ==
    CreateRepo(ch) \o CreateRepo(ch)
    \o tdnfInstall(ch) \o When(c.ccache, tdnfInstall(ch))
    \o removeLibArchivesFromSystem(ch)
    \o <<In(ch, IF c.check THEN "rpmbuild check" ELSE "rpmbuild")>>
-----------------------------------------------------------------------------
(* On the host.                                                            *)

copyFilesIntoChroot(ch) == AddFiles(ch)

\* What was moved before an error stays in the output directory, and the error
\* is the function's.
moveBuiltRPMs(ch) == MoveOutFile(ch) \o MoveOutFile(ch)

DownloadCCache(c) == When(c.ccache, <<Try(<<Step("download ccache")>>)>>)

UploadCCache(c) ==
    When(c.ccache, <<Either(<<Try(<<Step("upload ccache")>>)>>, <<>>)>>)

\* Mutant: the chroot is closed as soon as the build is done.
buildAndCloseEarly(c) ==
    LET ch == BuildChroot(c)
    IN <<Call(DownloadCCache(c)
              \o InitializeWithMacros(ch, {})
              \o <<Defer(CloseChroot(ch, FALSE))>>
              \o copyFilesIntoChroot(ch)
              \o Run(ch, <<Either(<<Raise>>, buildRPMFromSRPMInChroot(ch, c))>>)
              \o CloseChroot(ch, FALSE)
              \o When(~c.check, <<OrElse(moveBuiltRPMs(ch), UploadCCache(c) \o <<Raise>>)>>)
              \o UploadCCache(c))>>

\* A timeout leaves the chroot while the build is still running.
buildSRPMInChroot(c) ==
    LET ch == BuildChroot(c)
    IN <<Call(DownloadCCache(c)
              \o InitializeWithMacros(ch, {})
              \o <<Defer(CloseChroot(ch, FALSE))>>
              \o copyFilesIntoChroot(ch)
              \o Run(ch, <<Either(<<Raise>>, buildRPMFromSRPMInChroot(ch, c))>>)
              \o When(~c.check, <<OrElse(moveBuiltRPMs(ch), UploadCCache(c) \o <<Raise>>)>>)
              \o UploadCCache(c))>>

copySRPMToOutput == <<Step("copy SRPM")>>

\* An error of the ccache manager only turns ccache off.
CreateCCacheManager == <<Try(<<Step("ccache manager"), Step("package group")>>)>>

PkgWorkerMain(c) ==
    LET chs == <<BuildChroot(c)>>
    IN FatalOnError(chs, <<Step("absolute paths")>>)
       \o CreateCCacheManager
       \o FatalOnError(chs, buildSRPMInChroot(c))
       \o When(~c.check, FatalOnError(chs, copySRPMToOutput))
=============================================================================
