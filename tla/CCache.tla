------------------------------- MODULE CCache -------------------------------
(***************************************************************************)
(* The compiler cache of one package group (ccachemanager), kept on a      *)
(* remote store as one archive per build and a tag file that names the     *)
(* folder of the latest one.  Builds that mark their upload as the latest  *)
(* follow one another on a production host: each downloads, uploads, moves *)
(* the tag and deletes the archive it replaces.  What builds elsewhere,    *)
(* which only download, find is LatestArchive.                             *)
(*                                                                         *)
(* A group of one package is uploaded by each package worker of its SRPM   *)
(* (the build, its retries and its test, one after the other); a larger    *)
(* group by the scheduler at the end, which does not wait for package      *)
(* workers it no longer needs.  All processes of the host share the file   *)
(* downloads/<group>-latest-build.txt, the local copy of the tag, which    *)
(* only "make clean-ccache" removes.  Remote operations may fail and a     *)
(* process may be killed at any step.  DownloadLatest and UpdateLatest are *)
(* set, as in the flow that the header of ccachemanager.go calls typical;  *)
(* the contents of archives are left out.                                  *)
(***************************************************************************)
EXTENDS Integers

CONSTANTS
    Workers,         \* package workers
    Scheduler,       \* the scheduler
    MaxBuilds,       \* bound on the builds, and the folders, of the host
    MaxFaults,       \* bound on failed remote operations and killed processes
    KeepLatestOnly   \* remoteStore.keepLatestOnly

ASSUME BoundsAssumption == MaxBuilds \in Nat \ {0} /\ MaxFaults \in Nat
ASSUME ProcsAssumption == Scheduler \notin Workers
ASSUME FlagsAssumption == KeepLatestOnly \in BOOLEAN

VARIABLES
    archives,   \* folders of the remote store that hold the group's archive
    tag,        \* content of the remote tag file, or None
    build,      \* UploadFolder of the current build
    clean,      \* whether "make clean-ccache" runs before each build
    groupSize,  \* 1, or 2 for "more than one package"
    local,      \* the local tag file: Absent, Empty or a folder
    pc,         \* what each process is about to do
    use,        \* what each process asks getLatestTag for: "source", the folder
                \* to download from, or "previous", the archive to delete
    previous,   \* latest tag captured by each process, or Absent
    faults

vars == <<archives, tag, build, clean, groupSize, local, pc, use, previous,
          faults>>

None == 0
Empty == 0
Absent == -1

Procs == Workers \cup {Scheduler}

Init ==
    /\ archives = {}
    /\ tag = None
    /\ build = 1
    /\ clean \in BOOLEAN
    /\ groupSize \in {1, 2}
    /\ local = Absent
    /\ pc = [p \in Procs |-> "idle"]
    /\ use = [p \in Procs |-> "source"]
    /\ previous = [p \in Procs |-> Absent]
    /\ faults = 0
-----------------------------------------------------------------------------
Remote == <<archives, tag>>
Config == <<build, clean, groupSize>>
Folders == <<use, previous>>

Goto(p, from, to) == pc[p] = from /\ pc' = [pc EXCEPT ![p] = to]

AllIdle(procs) == \A p \in procs : pc[p] = "idle"

\* A remote operation fails.
Fault == faults < MaxFaults /\ faults' = faults + 1

\* Whether p uploads: UploadPkgGroupCCache for a group of one package,
\* UploadMultiPkgGroupCCaches for the others.
Uploads(p) == p \in (IF groupSize = 1 THEN Workers ELSE {Scheduler})

\* The next build has a folder of its own.
NewBuild ==
    /\ AllIdle(Procs)
    /\ build < MaxBuilds /\ build' = build + 1
    /\ local' = IF clean THEN Absent ELSE local
    /\ UNCHANGED <<Remote, clean, groupSize, pc, Folders, faults>>

\* CreateManager and SetCurrentPkgGroup, up to getLatestTag.
Start(p) ==
    /\ Goto(p, "idle", "stat")
    /\ p = Scheduler => Uploads(p)
    /\ p \in Workers /\ Uploads(p) => AllIdle(Workers)
    /\ use' = [use EXCEPT ![p] = "source"]
    /\ previous' = [previous EXCEPT ![p] = Absent]
    /\ UNCHANGED <<Remote, Config, local, faults>>

\* A killed process leaves the local tag file as it is.
Kill(p) ==
    /\ pc[p] # "idle" /\ pc' = [pc EXCEPT ![p] = "idle"]
    /\ Fault
    /\ UNCHANGED <<Remote, Config, local, Folders>>
-----------------------------------------------------------------------------
(* getLatestTag, called for the folder to download from and again for the  *)
(* archive to delete: the local file is used if there is one.              *)

\* What follows getLatestTag.  Only the package workers download.
AfterTag(p) ==
    IF use[p] = "previous" THEN "tag" ELSE IF p = Scheduler THEN "pack" ELSE "download"

StatTag(p) ==
    /\ Goto(p, "stat", IF local = Absent THEN "create" ELSE "read")
    /\ UNCHANGED <<Remote, Config, local, Folders, faults>>

\* Download creates the file, or truncates it, before it asks for the blob.
CreateTag(p) ==
    /\ Goto(p, "create", "fetch")
    /\ local' = Empty
    /\ UNCHANGED <<Remote, Config, Folders, faults>>

FetchTag(p) ==
    /\ Goto(p, "fetch", "read")
    /\ tag # None
    /\ local' = tag
    /\ UNCHANGED <<Remote, Config, Folders, faults>>

\* No blob, or no connection: the file is removed and there is no latest tag.
FetchTagFails(p) ==
    /\ Goto(p, "fetch", AfterTag(p))
    /\ IF tag = None THEN UNCHANGED faults ELSE Fault
    /\ local' = Absent
    /\ UNCHANGED <<Remote, Config, Folders>>

\* The file may have been removed by another process since it was looked for.
\* What the first call reads decides what is downloaded, and nothing else.
ReadTag(p) ==
    /\ Goto(p, "read", AfterTag(p))
    /\ previous' = IF use[p] = "previous" THEN [previous EXCEPT ![p] = local] ELSE previous
    /\ UNCHANGED <<Remote, Config, local, use, faults>>

GetLatestTag(p) ==
    \/ StatTag(p)
    \/ CreateTag(p)
    \/ FetchTag(p)
    \/ FetchTagFails(p)
    \/ ReadTag(p)
-----------------------------------------------------------------------------
\* DownloadPkgGroupCCache, then the build; neither an error nor an empty
\* DownloadFolder, which disables the download, is more than logged.
DownloadAndBuild(p) ==
    /\ Goto(p, "download", IF Uploads(p) THEN "pack" ELSE "idle")
    /\ UNCHANGED <<Remote, Config, local, Folders, faults>>

\* UploadPkgGroupCCache up to the archive: the build may have left nothing in
\* the cache directory.
NothingToUpload(p) ==
    /\ Goto(p, "pack", "idle")
    /\ UNCHANGED <<Remote, Config, local, Folders, faults>>

UploadArchive(p) ==
    /\ Goto(p, "pack", IF KeepLatestOnly THEN "stat" ELSE "tag")
    /\ archives' = archives \cup {build}
    /\ use' = [use EXCEPT ![p] = "previous"]
    /\ UNCHANGED <<tag, Config, local, previous, faults>>

UploadTag(p) ==
    /\ Goto(p, "tag", IF KeepLatestOnly THEN "delete" ELSE "idle")
    /\ tag' = build
    /\ UNCHANGED <<archives, Config, local, Folders, faults>>

\* Mutant: whatever the tag named is deleted.
ReplacesAny(p) == previous[p] # Absent

\* Nothing to delete without a previous tag, nor if it named this folder.
Replaces(p) == previous[p] # Absent /\ previous[p] # build

\* Deleting a blob that is not there is an error, and changes nothing.
DeletePrevious(p) ==
    /\ Goto(p, "delete", "idle")
    /\ archives' = IF Replaces(p) THEN archives \ {previous[p]} ELSE archives
    /\ UNCHANGED <<tag, Config, local, Folders, faults>>

\* Upload or Delete fails: UploadPkgGroupCCache returns, the error is logged.
RemoteFails(p) ==
    /\ pc[p] \in {"pack", "tag", "delete"} /\ pc' = [pc EXCEPT ![p] = "idle"]
    /\ pc[p] = "delete" => Replaces(p)
    /\ Fault
    /\ UNCHANGED <<Remote, Config, local, Folders>>

Upload(p) ==
    \/ NothingToUpload(p)
    \/ UploadArchive(p)
    \/ UploadTag(p)
    \/ DeletePrevious(p)
    \/ RemoteFails(p)

Next ==
    \/ NewBuild
    \/ \E p \in Procs :
         \/ Start(p)
         \/ GetLatestTag(p)
         \/ DownloadAndBuild(p)
         \/ Upload(p)
         \/ Kill(p)

Spec == Init /\ [][Next]_vars
-----------------------------------------------------------------------------
(* Properties.                                                             *)

TypeOK ==
    /\ archives \subseteq 1..MaxBuilds
    /\ tag \in 0..MaxBuilds
    /\ build \in 1..MaxBuilds
    /\ clean \in BOOLEAN
    /\ groupSize \in {1, 2}
    /\ local \in -1..MaxBuilds
    /\ pc \in [Procs -> {"idle", "stat", "create", "fetch", "read", "download",
                         "pack", "tag", "delete"}]
    /\ use \in [Procs -> {"source", "previous"}]
    /\ previous \in [Procs -> -1..MaxBuilds]
    /\ faults \in 0..MaxFaults

\* What a process past its first call of getLatestTag relies on.
UploadInv ==
    \A p \in Procs :
        /\ pc[p] \in {"tag", "delete"} => use[p] = "previous"
        /\ pc[p] # "idle" /\ use[p] = "previous" => build \in archives
        /\ pc[p] = "delete" => tag = build

\* The tag file never names an archive that is not there: uploads, tags and
\* deletions of successive builds, cut short anywhere, keep that order.
TagNamesArchive == tag # None => tag \in archives

CCacheInv == TypeOK /\ tag <= build /\ UploadInv /\ TagNamesArchive

\* To a build that downloads the latest archive the store is LatestArchive:
\* from the first publication on there is one, and never an older one.
Latest == INSTANCE LatestArchive WITH latest <- IF tag \in archives THEN tag ELSE None
ImplementsLatest == Latest!Spec
=============================================================================
