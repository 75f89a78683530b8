----------------------------- MODULE RepoTools ------------------------------
(***************************************************************************)
(* The tools that download packages through tdnf in a worker chroot: the   *)
(* repository cloner (rpmrepocloner) and the tools built on it, the graph  *)
(* package fetcher (graphpkgfetcher), the image package fetcher            *)
(* (imagepkgfetcher) and the grapher (grapher), and the precacher          *)
(* (precacher) with its query of the upstream repositories (repoquery).    *)
(***************************************************************************)
EXTENDS SafeChroot

\* RPMs built here and the toolchain's are overlays; the cache is written.
ClonerChroot ==
    Chroot(<<"cloner">>, {}, <<>>,
           <<MountPoint("/localrpms", {}), MountPoint("/outputrpms", {}),
             MountPoint("/toolchainrpms", {})>>, TRUE)

InCloner(at) == Use(at, {Inside(ClonerChroot)})

OnCloner(at) == Use(at, RootOf(ClonerChroot))
-----------------------------------------------------------------------------
(* The repository cloner.                                                  *)

refreshPackagesCache == <<InCloner("releasever"), InCloner("tdnf makecache")>>

initializeMountedChrootRepo ==
    Run(ClonerChroot,
        <<InCloner("mkdir"), InCloner("createrepo")>> \o refreshPackagesCache)

appendRepoFile == <<OnCloner("append repo file")>>

readRepoIDs == <<OnCloner("scan repo IDs")>>

\* All repository files become one, the user's first; the IDs of the chroot's
\* own are remembered so that they can be disabled.
initializeRepoDefinitions ==
    <<OnCloner("mkdir"), OnCloner("glob repo files"), OnCloner("open repo file")>>
    \o appendRepoFile \o readRepoIDs \o appendRepoFile \o <<OnCloner("remove repo file")>>

\* Only the cloner that could not be initialized closes its chroot.
initializeCloner ==
    <<Call(<<Step("mkdir output")>>
           \o Initialize(ClonerChroot, {})
           \o <<DeferOnError(PanicOnError(CloseChroot(ClonerChroot, FALSE)))>>
           \o ForEach(<<"/localrpms", "/outputrpms", "/upstream-cached-rpms", "/toolchainrpms">>,
                      LAMBDA dir : initializeMountedChrootRepo)
           \o initializeRepoDefinitions)>>

addNetworkFiles == <<Use("network files", RootOf(ClonerChroot))>>

\* A failure to add the network files leaves the chroot to its caller, which
\* has no cloner to close.
ConstructCloner == initializeCloner \o addNetworkFiles

\* tdnfDownload: an error is retried if the server may recover.
tdnfDownload == <<OrElse(<<InCloner("tdnf download")>>, <<InCloner("tdnf download")>>)>>

\* Each set of repositories in turn, until one has the package.
clonePackage ==
    <<InCloner("releasever"), OrElse(tdnfDownload, tdnfDownload)>>

cloneRawPackageNames(n) ==
    ForEach([i \in 1..n |-> i], LAMBDA i : Run(ClonerChroot, clonePackage))

WhatProvides ==
    <<Step("releasever")>>
    \o Run(ClonerChroot, <<InCloner("tdnf provides")>>)
    \o <<Either(Run(ClonerChroot, <<InCloner("tdnf provides")>>), <<>>),
         Either(<<Raise>>, <<>>)>>

ConvertDownloadedPackagesIntoRepo ==
    initializeMountedChrootRepo \o <<Try(<<OnCloner("validate RPM paths")>>)>>

ClonedRepoContents ==
    <<Step("releasever")>> \o Run(ClonerChroot, <<InCloner("tdnf list")>>)

CloseCloner == CloseChroot(ClonerChroot, FALSE)

\* repoutils: the packages of a summary are downloaded again and compared.
verifyClonedRepoContents == <<Either(<<Raise>>, <<>>)>>

RestoreClonedRepoContents ==
    <<Step("read summary")>> \o cloneRawPackageNames(1)
    \o ConvertDownloadedPackagesIntoRepo \o ClonedRepoContents
    \o verifyClonedRepoContents

SaveClonedRepoContents == ClonedRepoContents \o <<Step("write summary")>>
-----------------------------------------------------------------------------
(* The graph package fetcher.  c.summary: packages of an earlier run are   *)
(* restored.  c.delta: published RPMs stand in for builds.                 *)

assignRPMPath == <<Either(<<Step("rpm -i --test")>>, <<>>)>>

resolveSingleNode == WhatProvides \o cloneRawPackageNames(1) \o assignRPMPath

\* A node that is not found fails the tool only if it is to stop on failure.
resolveGraphNodes(c) ==
    <<Call(When(c.summary, RestoreClonedRepoContents)
           \o <<OrElse(<<Call(resolveSingleNode)>>, <<Either(<<Raise>>, <<>>)>>)>>)>>

\* A published RPM that cannot be had leaves the node to be built.
downloadSingleDeltaRPM ==
    <<Call(<<Step("lookup"), Step("stat RPM"),
             Either(<<Return>>, <<>>),
             Step("stat cached RPM"),
             Either(<<OrElse(cloneRawPackageNames(1), <<Return>>)>>, <<>>),
             Step("stat cached RPM")>>)>>

downloadAllAvailableDeltaRPMs == downloadSingleDeltaRPM \o downloadSingleDeltaRPM

downloadDeltaNodes ==
    <<Step("build list"), Step("test list"), Step("copy graph"), Step("prepare graph")>>
    \o downloadAllAvailableDeltaRPMs

setupCloner == ConstructCloner

fetchPackages(c) ==
    <<Call(setupCloner
           \o <<Defer(CloseCloner), Step("toolchain manifest")>>
           \o resolveGraphNodes(c)
           \o When(c.delta, downloadDeltaNodes)
           \o ConvertDownloadedPackagesIntoRepo
           \o SaveClonedRepoContents)>>

GraphPkgFetcherMain(c) ==
    FatalOnError(<<ClonerChroot>>, <<Step("read graph")>> \o fetchPackages(c) \o <<Step("write graph")>>)
-----------------------------------------------------------------------------
(* The image package fetcher.                                              *)

filterExternalPackagesOnly == <<Step("read graph")>>

\* One transaction for all packages, or else one for each.
cloneSystemConfigs ==
    <<Step("load config"), Step("package names"), Either(filterExternalPackagesOnly, <<>>),
      OrElse(cloneRawPackageNames(1), cloneRawPackageNames(2))>>

ImagePkgFetcherMain(c) ==
    PanicOnError(ConstructCloner)
    \o <<Defer(CloseCloner)>>
    \o PanicOnError(IF c.summary THEN RestoreClonedRepoContents ELSE cloneSystemConfigs)
    \o <<Either(PanicOnError(<<Step("validate signatures")>>), <<>>)>>
    \o PanicOnError(ConvertDownloadedPackagesIntoRepo \o SaveClonedRepoContents)
-----------------------------------------------------------------------------
(* The grapher asks the cloner for packages that break a cycle.            *)

MakeDAGUsingUpstreamRepos == <<Either(WhatProvides, <<>>)>>

GrapherMain ==
    PanicOnError(<<Step("read packages"), Step("populate graph"), Step("goal node")>>)
    \o PanicOnError(ConstructCloner)
    \o <<Defer(CloseCloner)>>
    \o PanicOnError(MakeDAGUsingUpstreamRepos)
    \o PanicOnError(<<Step("write graph")>>)
-----------------------------------------------------------------------------
(* The precacher.                                                          *)

QueryChroot == Chroot(<<"repoquery">>, {}, <<>>, <<>>, TRUE)

InQuery(at) == Use(at, {Inside(QueryChroot)})

copyRepoFile == AddFiles(QueryChroot)

installRepoQuery(repoFile) ==
    <<Call(When(repoFile, copyRepoFile) \o Run(QueryChroot, <<InQuery("tdnf install")>>))>>

\* With the chroot's own repositories first, then with the user's.
createQueryChroot ==
    <<Call(Initialize(QueryChroot, {})
           \o <<DeferOnError(CloseChroot(QueryChroot, FALSE))>>
           \o AddFiles(QueryChroot)
           \o <<OrElse(installRepoQuery(FALSE), installRepoQuery(TRUE))>>
           \o Run(QueryChroot, <<InQuery("remove repos")>>))>>

getPackageRepoPathsFromUrl == <<InQuery("random name"), InQuery("repoquery")>>

getPackageRepoUrlsFromRepoFiles == <<InQuery("repoquery")>>

GetAllRepoData ==
    <<Call(createQueryChroot
           \o <<Defer(CloseChroot(QueryChroot, FALSE))>>
           \o Run(QueryChroot, getPackageRepoPathsFromUrl)
           \o copyRepoFile
           \o Run(QueryChroot, getPackageRepoUrlsFromRepoFiles)
           \o <<Step("write URLs")>>)>>

\* A package that is there, that no repository has, or that fails.
precachePackage == <<Call(<<Step("stat package"), Either(<<Return>>, <<Step("download")>>)>>)>>

downloadMissingPackages == JoinErrors(<<precachePackage, precachePackage>>)

\* In the non-fatal mode an error ends the tool without failing it.
PrecacherMain ==
    LET orEnd(body) == <<OrElse(body, <<Either(<<Return>>, Fatal(<<QueryChroot>>))>>)>>
    IN orEnd(<<Step("read snapshot")>>)
       \o orEnd(GetAllRepoData)
       \o <<Try(downloadMissingPackages)>>
       \o orEnd(<<Step("write summary")>>)
=============================================================================
