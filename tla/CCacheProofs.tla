---------------------------- MODULE CCacheProofs ----------------------------
(***************************************************************************)
(* Proofs about CCache, for any number of package workers, builds and      *)
(* faults.  The argument: a process moves the tag, and deletes, only after *)
(* it has uploaded to the folder of the current build, which does not      *)
(* change while any process runs; what it deletes is another folder.       *)
(***************************************************************************)
EXTENDS CCache, TLAPS

\* The store is empty and nobody has uploaded: the invariant holds at first.
LEMMA InitInv == Init => CCacheInv
BY BoundsAssumption DEF Init, CCacheInv, TypeOK, UploadInv, TagNamesArchive, None, Absent

\* One step of the store's protocol keeps the type invariant.
LEMMA TypePreserved == TypeOK /\ [Next]_vars => TypeOK'
<1> SUFFICES ASSUME TypeOK, [Next]_vars PROVE TypeOK'
    OBVIOUS
<1> USE BoundsAssumption, FlagsAssumption DEF TypeOK, Remote, Config, Folders, Goto, Fault, None, Empty, Absent
<1>1. CASE NewBuild
    BY <1>1 DEF NewBuild
<1>2. ASSUME NEW p \in Procs, Start(p) PROVE TypeOK'
    BY <1>2 DEF Start
<1>3. ASSUME NEW p \in Procs, GetLatestTag(p) PROVE TypeOK'
  <2>0. AfterTag(p) \in {"tag", "pack", "download"}
      BY DEF AfterTag
  <2>1. CASE StatTag(p)
      BY <2>1 DEF StatTag
  <2>2. CASE CreateTag(p)
      BY <2>2 DEF CreateTag
  <2>3. CASE FetchTag(p)
      BY <2>3 DEF FetchTag
  <2>4. CASE FetchTagFails(p)
      BY <2>0, <2>4 DEF FetchTagFails
  <2>5. CASE ReadTag(p)
      BY <2>0, <2>5 DEF ReadTag
  <2> QED
      BY <1>3, <2>1, <2>2, <2>3, <2>4, <2>5 DEF GetLatestTag
<1>4. ASSUME NEW p \in Procs, DownloadAndBuild(p) PROVE TypeOK'
    BY <1>4 DEF DownloadAndBuild
<1>5. ASSUME NEW p \in Procs, Upload(p) PROVE TypeOK'
  <2>1. CASE NothingToUpload(p)
      BY <2>1 DEF NothingToUpload
  <2>2. CASE UploadArchive(p)
      BY <2>2 DEF UploadArchive
  <2>3. CASE UploadTag(p)
      BY <2>3 DEF UploadTag
  <2>4. CASE DeletePrevious(p)
      BY <2>4 DEF DeletePrevious
  <2>5. CASE RemoteFails(p)
      BY <2>5 DEF RemoteFails
  <2> QED
      BY <1>5, <2>1, <2>2, <2>3, <2>4, <2>5 DEF Upload
<1>6. ASSUME NEW p \in Procs, Kill(p) PROVE TypeOK'
    BY <1>6 DEF Kill
<1>7. CASE UNCHANGED vars
    BY <1>7 DEF vars
<1> QED
    BY <1>1, <1>2, <1>3, <1>4, <1>5, <1>6, <1>7 DEF Next

\* getLatestTag, wherever it is called, leaves the remote store and the build
\* alone, and leads to the upload of the tag only for the archive to delete.
LEMMA GetLatestTagEffect ==
    ASSUME TypeOK, NEW p \in Procs, GetLatestTag(p)
    PROVE  /\ UNCHANGED <<archives, tag, build, use>>
           /\ \E step \in {"create", "read", "fetch", "tag", "pack", "download"} :
                 /\ pc' = [pc EXCEPT ![p] = step]
                 /\ step = "tag" => use[p] = "previous"
           /\ pc[p] # "idle"
<1> USE DEF GetLatestTag, Goto, Remote, Config, Folders, AfterTag
<1>1. CASE StatTag(p)
    BY <1>1 DEF StatTag
<1>2. CASE CreateTag(p)
    BY <1>2 DEF CreateTag
<1>3. CASE FetchTag(p)
    BY <1>3 DEF FetchTag
<1>4. CASE FetchTagFails(p)
    BY <1>4 DEF FetchTagFails
<1>5. CASE ReadTag(p)
    BY <1>5 DEF ReadTag
<1> QED
    BY <1>1, <1>2, <1>3, <1>4, <1>5

\* The invariant is inductive: only the upload of the tag, the upload of the
\* archive and its deletion touch the store, all for one build's folder.
LEMMA InvPreserved == CCacheInv /\ [Next]_vars => CCacheInv'
<1> SUFFICES ASSUME CCacheInv, [Next]_vars PROVE CCacheInv'
    OBVIOUS
<1>0. TypeOK /\ TypeOK'
    BY TypePreserved DEF CCacheInv
<1> DEFINE Rest == tag <= build /\ UploadInv /\ TagNamesArchive
<1> SUFFICES Rest'
    BY <1>0 DEF CCacheInv
<1> USE <1>0 DEF CCacheInv, TypeOK, UploadInv, TagNamesArchive, Remote, Config, Folders, Goto, None
<1>1. CASE NewBuild
    BY <1>1 DEF NewBuild, AllIdle
<1>2. ASSUME NEW p \in Procs, Start(p) PROVE Rest'
    BY <1>2 DEF Start
<1>3. ASSUME NEW p \in Procs, GetLatestTag(p) PROVE Rest'
    BY <1>3, GetLatestTagEffect
<1>4. ASSUME NEW p \in Procs, DownloadAndBuild(p) PROVE Rest'
    BY <1>4 DEF DownloadAndBuild
<1>5. ASSUME NEW p \in Procs, Upload(p) PROVE Rest'
  <2>1. CASE NothingToUpload(p)
      BY <2>1 DEF NothingToUpload
  <2>2. CASE UploadArchive(p)
      BY <2>2 DEF UploadArchive
  <2>3. CASE UploadTag(p)
      BY <2>3 DEF UploadTag
  <2>4. CASE DeletePrevious(p)
      BY <2>4 DEF DeletePrevious, Replaces
  <2>5. CASE RemoteFails(p)
      BY <2>5 DEF RemoteFails
  <2> QED
      BY <1>5, <2>1, <2>2, <2>3, <2>4, <2>5 DEF Upload
<1>6. ASSUME NEW p \in Procs, Kill(p) PROVE Rest'
    BY <1>6 DEF Kill
<1>7. CASE UNCHANGED vars
    BY <1>7 DEF vars
<1> QED
    BY <1>1, <1>2, <1>3, <1>4, <1>5, <1>6, <1>7 DEF Next

\* The tag never names a missing archive, whatever fails and whoever is
\* killed (UploadPkgGroupCCache).
THEOREM StoreIsConsistent == Spec => []CCacheInv
BY InitInv, InvPreserved, PTL DEF Spec

\* A step moves the tag only to the folder of the current build.
LEMMA TagStep ==
    ASSUME CCacheInv, [Next]_vars
    PROVE  tag' = tag \/ tag' = build
<1> USE DEF Remote, Config, Folders
<1>1. ASSUME NEW p \in Procs, GetLatestTag(p) PROVE tag' = tag
    BY <1>1, GetLatestTagEffect DEF CCacheInv
<1>2. ASSUME NEW p \in Procs, Upload(p) PROVE tag' = tag \/ tag' = build
    BY <1>2 DEF Upload, NothingToUpload, UploadArchive, UploadTag, DeletePrevious, RemoteFails
<1> QED
    BY <1>1, <1>2 DEF Next, NewBuild, Start, DownloadAndBuild, Kill, vars

\* Downloading builds always find the latest archive once there is one, and
\* never an older one: the protocol of UploadPkgGroupCCache, tag and archives
\* together, implements LatestArchive.
THEOREM PublishesLatest == Spec => ImplementsLatest
<1> DEFINE Found == IF tag \in archives THEN tag ELSE None
<1>1. Init => Latest!Init
    BY DEF Init, Latest!Init, None
<1>2. CCacheInv /\ CCacheInv' /\ [Next]_vars => [Latest!Next]_Found
  <2> SUFFICES ASSUME CCacheInv, CCacheInv', [Next]_vars
               PROVE  Found' = Found \/ Latest!Next
      OBVIOUS
  <2>1. Found = tag /\ Found' = tag'
      BY DEF CCacheInv, TagNamesArchive, TypeOK, None
  <2>2. CASE tag' = tag
      BY <2>1, <2>2
  <2>3. CASE tag' = build
    <3>1. build \in 1..MaxBuilds /\ build >= tag
        BY DEF CCacheInv, TypeOK
    <3> QED
        BY <2>1, <2>3, <3>1 DEF Latest!Next, Latest!Publish
  <2> QED
      BY <2>2, <2>3, TagStep
<1> QED
    BY <1>1, <1>2, StoreIsConsistent, PTL DEF Spec, ImplementsLatest, Latest!Spec
=============================================================================
