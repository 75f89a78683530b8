------------------------------ MODULE MCTools -------------------------------
(***************************************************************************)
(* Every sequential tool of the toolkit, in the configurations in which    *)
(* they take different ways, with any MaxFaults of their steps failing.    *)
(***************************************************************************)
EXTENDS GoCall

CONSTANT Tools          \* the tools that are run

IM == INSTANCE Imager
IC == INSTANCE Customizer
IS == INSTANCE IsoMaker
PW == INSTANCE PkgWorker
ST == INSTANCE SpecTools
RT == INSTANCE RepoTools

Image(kind, encrypt, overlay, swap, selinux, rest) ==
    [name |-> "imager", kind |-> kind, encrypt |-> encrypt, overlay |-> overlay,
     swap |-> swap, selinux |-> selinux, removeRpmDb |-> rest, artifacts |-> rest,
     scripts |-> rest]

Images ==
    {Image("rootfs", FALSE, FALSE, FALSE, TRUE, TRUE),
     Image("disk", FALSE, FALSE, FALSE, TRUE, TRUE),
     Image("disk", TRUE, FALSE, FALSE, FALSE, FALSE),
     Image("disk", FALSE, TRUE, FALSE, FALSE, TRUE),
     Image("live", FALSE, FALSE, TRUE, FALSE, FALSE)}

Custom(input, output, os, partitions, verity, rest) ==
    [name |-> "imagecustomizer", input |-> input, output |-> output, os |-> os,
     partitions |-> partitions, verity |-> verity, packages |-> rest,
     hardReset |-> rest, selinux |-> rest, overlay |-> ~rest, shrink |-> rest,
     split |-> rest, scripts |-> rest, pxe |-> rest]

Customs ==
    {Custom("image", "image", TRUE, "new", TRUE, TRUE),
     Custom("image", "image", TRUE, "uuids", FALSE, FALSE),
     Custom("image", "iso", TRUE, "none", FALSE, TRUE),
     Custom("iso", "iso", TRUE, "none", FALSE, FALSE),
     Custom("iso", "iso", FALSE, "none", FALSE, TRUE)}

Builds == [name : {"pkgworker"}, check : BOOLEAN, ccache : BOOLEAN]

Fetchers == [name : {"graphpkgfetcher", "imagepkgfetcher"}, summary : BOOLEAN, delta : BOOLEAN]

Packers == [name : {"srpmpacker"}, azureCli : BOOLEAN]

Others == [name : {"isomaker", "specreader", "versionsprocessor", "licensecheck",
                   "validatechroot", "grapher", "precacher"}]

Main(c) ==
    CASE c.name = "imager" -> IM!ImagerMain(c)
      [] c.name = "imagecustomizer" -> IC!CustomizerMain(c)
      [] c.name = "isomaker" -> IS!IsoMakerMain
      [] c.name = "pkgworker" -> PW!PkgWorkerMain(c)
      [] c.name = "srpmpacker" -> ST!SrpmPackerMain(c.azureCli)
      [] c.name = "specreader" -> ST!SpecReaderMain
      [] c.name = "versionsprocessor" -> ST!VersionsProcessorMain
      [] c.name = "licensecheck" -> ST!LicenseCheckMain
      [] c.name = "validatechroot" -> ST!ValidateChrootMain
      [] c.name = "grapher" -> RT!GrapherMain
      [] c.name = "precacher" -> RT!PrecacherMain
      [] c.name = "graphpkgfetcher" -> RT!GraphPkgFetcherMain(c)
      [] c.name = "imagepkgfetcher" -> RT!ImagePkgFetcherMain(c)

Init ==
    \/ \E c \in Images : c.name \in Tools /\ Start(c, Main(c))
    \/ \E c \in Customs : c.name \in Tools /\ Start(c, Main(c))
    \/ \E c \in Builds \cup Fetchers \cup Packers \cup Others :
          c.name \in Tools /\ Start(c, Main(c))

Spec == Init /\ [][GoNext]_goVars
-----------------------------------------------------------------------------
(* What a run of a tool must keep to.                                      *)

Executing(ops) == Running /\ Top.todo # <<>> /\ Next1.op \in ops

\* No release has failed, and none of the watched steps, whose failure the
\* code is known not to undo (see the findings).
Undisturbed == stuck = {} /\ \A i \in DOMAIN failures : failures[i] \notin Watched

\* What the tools are to give back: directories, mounts, loop devices and
\* their place in a chroot.  LUKS and LVM devices, key files and swap are
\* closed only on the way to success; files belong to the user.
Managed(r) == r[1] \in {"dir", "mount", "loop", "inside"}

\* A command never works on what is not there: not on a chroot that has been
\* left, a partition that is not mounted, or a device that has been detached,
\* whatever failed before and in whatever order the deferred calls run.
UsesAreHeld ==
    Executing({"use", "acquire"}) /\ Undisturbed => Next1.rs \subseteq DOMAIN held

\* Nothing is unmounted, detached or removed while something still rests on
\* it: a chroot directory whose /dev is still mounted is never removed.
ReleasedInOrder ==
    Executing({"release", "remove"}) /\ Undisturbed =>
        \A s \in DOMAIN held : Managed(s) => Next1.r \notin held[s]

\* However a tool ends, it leaves no mount, no loop device and no temporary
\* directory behind, and it is back in the host's root.  Two directories are
\* exempt when the image customizer fails: those of the ISO it reads stay if no
\* writeable image can be made of its root, because no builder is returned then
\* that the caller would clean up (imagecustomizer.go:305-308).
NothingLeft ==
    ~Running /\ Undisturbed =>
        \A s \in DOMAIN held :
            Managed(s) => outcome # "ok" /\ s \in {IC!IsoBuildDir, IC!ExpandedIso}


\* "It is guaranteed to be unmounted on application exit" (safechroot.go): a
\* mount is gone when the tool has ended.
UnmountedOnExit == ~Running /\ stuck = {} => \A s \in DOMAIN held : s[1] # "mount"
=============================================================================
