--------------------------- MODULE LatestArchive ----------------------------
(***************************************************************************)
(* What the remote store promises the builds that download "the latest"    *)
(* compiler cache of a package group: once an archive has been published   *)
(* there is always one to fetch, and it is never replaced by an older one. *)
(***************************************************************************)
EXTENDS Naturals

CONSTANT MaxBuilds   \* upload folders are numbered 1..MaxBuilds, 0 is none

VARIABLE latest      \* the folder of the archive a download would find

Init == latest = 0

\* A build publishes the archive of its own folder.
Publish(folder) == folder >= latest /\ latest' = folder

Next == \E folder \in 1..MaxBuilds : Publish(folder)

Spec == Init /\ [][Next]_latest
=============================================================================
