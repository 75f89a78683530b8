------------------------------ MODULE Grapher -------------------------------
(***************************************************************************)
(* populateGraph: the local packages of the spec files become nodes of the *)
(* dependency graph, then every dependency becomes an edge to the node it  *)
(* is resolved to, which is created if no local package will do.  Nodes    *)
(* are found through nodeLookup, a list of the nodes of each name sorted   *)
(* by the version intervals they provide.                                  *)
(*                                                                         *)
(* Which packages have which dependencies is an input: each step takes the *)
(* next dependency of the sorted packages to be any of the world's.  The   *)
(* order of names is free, so all orders of dependencies are possible.     *)
(***************************************************************************)
EXTENDS PkgVersions

CONSTANTS
    Worlds,         \* the spec files that may be read
    Dependencies    \* the dependencies that they may have, see world

\* A package provides at most one version: parseProvides takes the first one.  A
\* dependency has one or two requirements.  Longer lists are left out: those that
\* dedupPackageVersionArray accepts repeat a version, or have entries without one.
ASSUME InputAssumption ==
    /\ \A w \in Worlds :
          /\ w.packages \in Seq([provides : PackageVers, rpm : Nat])
          /\ \A i \in DOMAIN w.packages :
                LET p == w.packages[i].provides IN p.scond = "" /\ p.sver = NoVersion
          /\ w.asked \in DOMAIN Dependencies
    /\ \A a \in DOMAIN Dependencies : \A d \in Dependencies[a] :
          /\ d.requirements \in Seq(Conditions \X Texts)
          /\ Len(d.requirements) \in 1..2

VARIABLES
    world,      \* packages: the local packages of one name, in the order of the
                \* package list; asked: which of the Dependencies others, or they,
                \* have on that name; count: how many; strict: strictUnresolved
    next,       \* index of the next package to add
    lookup,     \* nodeLookup of the name
    resolved,   \* the dependencies so far, with the node each was resolved to and
                \* whether an edge was added
    err         \* populateGraph returned an error: the grapher panics

vars == <<world, next, lookup, resolved, err>>

\* What a dependency comes from, if not from a package of this name.
Other == 0

Init ==
    /\ world \in Worlds
    /\ next = 1
    /\ lookup = <<>>
    /\ resolved = <<>>
    /\ err = FALSE
-----------------------------------------------------------------------------
(* The lookup table.  An entry stands for the run node with this interval  *)
(* and the nodes beside it: only local packages have a build node.         *)

Remote == 0
Entry(interval, package) == [interval |-> interval, package |-> package]
IsLocal(entry) == entry.package # Remote

\* Mutant: the first one.
FindFirst(interval) ==
    LET found == {i \in DOMAIN lookup : Satisfies(lookup[i].interval, interval)} IN
    IF found = {} THEN {} ELSE {lookup[Min(found)]}

\* FindBestPkgNode: the last entry that satisfies the request, if there is one.
FindBest(interval) ==
    LET found == {i \in DOMAIN lookup : Satisfies(lookup[i].interval, interval)} IN
    IF found = {} THEN {} ELSE {lookup[Max(found)]}

\* FindExactPkgNodeFromPkg: Equal compares the bounds as strings.
FindExact(interval) == {e \in Range(lookup) : e.interval = interval}

\* Mutant: the list is not sorted again.
InsertLast(entry) == Append(lookup, entry)

\* addToLookup sorts with a new entry at the end: it moves down past the entries
\* that it is less than.
Insert(entry) ==
    LET kept == {i \in DOMAIN lookup :
                   CompareIntervals(entry.interval, lookup[i].interval) >= 0} IN
    InsertAt(lookup, Max(kept \cup {0}) + 1, entry)
-----------------------------------------------------------------------------
(* First loop of populateGraph: addNodesForPackage.                        *)

\* validateNodeForLookup, of a local node: one version, or a lower bound.
ValidLocal(interval) ==
    /\ \/ Compare(interval.high, MaxVer) = 0
       \/ Compare(interval.high, interval.low) = 0
    /\ interval.lowIn

\* Run, build and test nodes share one entry; a duplicate is skipped.
AddNodesForPackage ==
    /\ ~err /\ next \in DOMAIN world.packages
    /\ LET provides == world.packages[next].provides
           interval == Interval(provides)
       IN  \/ /\ validatedIntervals(provides)
              /\ IF FindExact(interval) # {}
                 THEN UNCHANGED lookup
                 ELSE ValidLocal(interval) /\ lookup' = Insert(Entry(interval, next))
              /\ UNCHANGED err
           \/ /\ \/ ~validatedIntervals(provides)
                 \/ FindExact(interval) = {} /\ ~ValidLocal(interval)
              /\ err' = TRUE
              /\ UNCHANGED lookup
    /\ next' = next + 1
    /\ UNCHANGED <<world, resolved>>
-----------------------------------------------------------------------------
(* Second loop: addSingleDependency.                                       *)

\* Only packages that were not duplicates have their dependencies added.
HasNodes(package) == package = Other \/ \E e \in Range(lookup) : e.package = package

\* No edge from a run node to itself or to a run node of the same RPM.
NeedsEdge(d, entry) ==
    ~ /\ d.kind = "run" /\ d.from # Other
      /\ IsLocal(entry)
      /\ world.packages[d.from].rpm = world.packages[entry.package].rpm

Resolve(d, entry) ==
    resolved' = Append(resolved, [dep |-> d, to |-> entry, edge |-> NeedsEdge(d, entry)])

NextDependency(d) ==
    /\ ~err /\ next > Len(world.packages)
    /\ Len(resolved) < world.count
    /\ HasNodes(d.from)

\* The best node, if it is local.
UseLocal(d, interval) ==
    \E e \in FindBest(interval) :
        IsLocal(e) /\ Resolve(d, e) /\ UNCHANGED <<lookup, err>>

\* Mutant: any remote node that satisfies the dependency is used.
UseBestRemote(d, interval) ==
    /\ ~ \E e \in FindBest(interval) : IsLocal(e)
    /\ IF FindBest(interval) # {}
       THEN \E e \in FindBest(interval) : Resolve(d, e) /\ UNCHANGED <<lookup, err>>
       ELSE LET e == Entry(interval, Remote) IN
            Resolve(d, e) /\ lookup' = Insert(e) /\ UNCHANGED err

\* findOrAddExactRemoteDependency and addUnresolvedPackage.
UseExact(d, interval) ==
    /\ ~ \E e \in FindBest(interval) : IsLocal(e)
    /\ IF FindExact(interval) # {}
       THEN \E e \in FindExact(interval) : Resolve(d, e) /\ UNCHANGED <<lookup, err>>
       ELSE IF world.strict
       THEN err' = TRUE /\ UNCHANGED <<lookup, resolved>>
       ELSE LET e == Entry(interval, Remote) IN
            Resolve(d, e) /\ lookup' = Insert(e) /\ UNCHANGED err

\* What the dependency asks for.
Request(d) == Interval(dedupPackageVersionArray(d.requirements))

AddSingleDependency(d) ==
    LET asked == dedupPackageVersionArray(d.requirements) IN
    /\ NextDependency(d)
    /\ \/ validatedIntervals(asked) /\ UseLocal(d, Request(d))
       \/ validatedIntervals(asked) /\ UseExact(d, Request(d))
       \/ ~validatedIntervals(asked) /\ err' = TRUE /\ UNCHANGED <<lookup, resolved>>
    /\ UNCHANGED <<world, next>>

Next == AddNodesForPackage \/ \E d \in Dependencies[world.asked] : AddSingleDependency(d)

Spec == Init /\ [][Next]_vars
-----------------------------------------------------------------------------
(* Properties.  They compare what was resolved with the requirements as    *)
(* the spec file states them, each evaluated on its own.                   *)

\* A version meets every requirement of a dependency.
Meets(v, d) ==
    \A r \in Range(d.requirements) :
        r[2] = NoVersion \/ MeetsCondition(v, r[1], r[2])

\* A local node can serve a dependency: it provides no version in particular, or
\* one that meets every requirement.
Serves(entry, d) == entry.interval.low = MinVer \/ Meets(entry.interval.low, d)

Locals == {e \in Range(lookup) : IsLocal(e)}

\* Two different conditions,
TwoConditions(p) ==
    NoVersion \notin {p.ver, p.sver} /\ <<p.cond, p.ver>> # <<p.scond, p.sver>>

\* on versions that compare as equal.
Tied(p) == TwoConditions(p) /\ Compare(p.ver, p.sver) = 0

\* A version without a release that compares as equal to both releases of it
\* that two conditions name.
Ambiguous(v, p) ==
    TwoConditions(p) /\ Compare(v, p.ver) = 0 /\ Compare(v, p.sver) = 0

\* A dependency is resolved to a local package only if the version of that
\* package meets every requirement: the intervals lose nothing of them.
MeetsEveryRequirement ==
    \A i \in DOMAIN resolved :
        IsLocal(resolved[i].to) => Serves(resolved[i].to, resolved[i].dep)

\* The package provides one version, not all from a lower bound on.
ProvidesOne(entry) == entry.interval = Exactly(entry.interval.low)

\* The same, of packages that provide one version, and of requirements whose
\* versions differ from each other or from that one.
LocalMeetsRequirements ==
    \A i \in DOMAIN resolved :
        LET r == resolved[i]
            asked == dedupPackageVersionArray(r.dep.requirements)
        IN  /\ IsLocal(r.to) /\ ProvidesOne(r.to)
            /\ ~Tied(asked) /\ ~Ambiguous(r.to.interval.low, asked)
            => Serves(r.to, r.dep)

\* Either all the versions of the local packages have releases or none has.
Comparable ==
    \A e, f \in {g \in Locals : g.interval.low # MinVer} :
        (e.interval.low.rel = <<>>) = (f.interval.low.rel = <<>>)

\* A dependency before the i-th was resolved to a remote node that satisfies the
\* i-th too.
SatisfiedByRemote(i) ==
    \E j \in 1 .. (i - 1) :
        /\ ~IsLocal(resolved[j].to)
        /\ Satisfies(resolved[j].to.interval, Request(resolved[i].dep))

\* Of the local packages that can serve a dependency it gets the highest
\* version, whatever was added to the lookup table before.
HighestLocal ==
    \A i \in DOMAIN resolved :
        LET r == resolved[i] IN
        Comparable /\ IsLocal(r.to) =>
            \A e \in Locals :
                Serves(e, r.dep) => Compare(e.interval.low, r.to.interval.low) <= 0

\* A dependency that local packages can serve is resolved to a remote node only
\* if another one, resolved before, asked for a remote node that satisfies it.
RemoteSatisfies ==
    \A i \in DOMAIN resolved :
        ~IsLocal(resolved[i].to) /\ (\E e \in Locals : Serves(e, resolved[i].dep)) =>
            SatisfiedByRemote(i)

\* The same, and for every one of the local packages there was a remote node
\* that is no lower, if the local versions can be compared.
RemoteOnlyIfAskedFor ==
    /\ RemoteSatisfies
    /\ Comparable =>
          \A i \in DOMAIN resolved :
              ~IsLocal(resolved[i].to) =>
                  \A e \in Locals : Serves(e, resolved[i].dep) =>
                      \E j \in 1 .. (i - 1) :
                          /\ ~IsLocal(resolved[j].to)
                          /\ CompareIntervals(resolved[j].to.interval, e.interval) >= 0

\* The same requirements, asked for again by another package of the SRPM, never
\* lead to another remote node, nor back from a remote node to a local one.
RemoteForGood ==
    \A i, j \in DOMAIN resolved :
        /\ i < j
        /\ resolved[i].dep.requirements = resolved[j].dep.requirements
        /\ ~IsLocal(resolved[i].to)
        => resolved[j].to = resolved[i].to
-----------------------------------------------------------------------------
(* The inductive invariant.                                                *)

\* What ValidLocal accepts: any version, one version, or all from one on.
LocalShape(interval) ==
    \/ interval = AnyVersion
    \/ /\ interval.low \in Texts /\ interval.lowIn /\ interval.highIn
       /\ interval.high \in {interval.low, MaxVer}

\* No two entries have the same interval, and there is a remote one only if a
\* dependency was resolved to it.
LookupShape ==
    /\ world \in Worlds /\ next \in Nat
    /\ lookup \in Seq(Range(lookup)) /\ resolved \in Seq(Range(resolved))
    /\ \A i, j \in DOMAIN lookup : lookup[i].interval = lookup[j].interval => i = j
    /\ \A i \in DOMAIN lookup :
          IF IsLocal(lookup[i]) THEN LocalShape(lookup[i].interval)
          ELSE \E j \in DOMAIN resolved : resolved[j].to = lookup[i]

\* The dependencies are resolved when all packages are in the table, to entries
\* that satisfy them or have the very interval.
ResolvedShape ==
    /\ resolved # <<>> => next > Len(world.packages)
    /\ \A i \in DOMAIN resolved :
          LET r == resolved[i] IN
          /\ r.dep \in Dependencies[world.asked]
          /\ validatedIntervals(dedupPackageVersionArray(r.dep.requirements))
          /\ r.to \in Range(lookup)
          /\ IF IsLocal(r.to)
             THEN Satisfies(r.to.interval, Request(r.dep))
             ELSE r.to.interval = Request(r.dep)

\* FindBest finds a local entry: no entry behind it satisfies the request.
BestIsLocal(q) ==
    \E i \in DOMAIN lookup :
        /\ IsLocal(lookup[i]) /\ Satisfies(lookup[i].interval, q)
        /\ \A j \in DOMAIN lookup : Satisfies(lookup[j].interval, q) => j <= i

\* What was resolved to a remote node would be again.
RemoteStays ==
    \A i \in DOMAIN resolved :
        ~IsLocal(resolved[i].to) => ~BestIsLocal(Request(resolved[i].dep))

\* If the local versions can be compared, the local entries are in their order;
LocalsSorted ==
    Comparable =>
        \A i, j \in DOMAIN lookup :
            i < j /\ IsLocal(lookup[i]) /\ IsLocal(lookup[j]) =>
                Compare(lookup[i].interval.low, lookup[j].interval.low) <= 0

\* a local entry without an upper bound is behind all remote ones;
OpenEndedLast ==
    Comparable =>
        \A i, j \in DOMAIN lookup :
            /\ IsLocal(lookup[i]) /\ lookup[i].interval.high = MaxVer
            /\ ~IsLocal(lookup[j])
            => j < i

\* and with a remote entry behind a local one there is a remote one that is no
\* lower than it.
RemoteBehindIsHigher ==
    Comparable =>
        \A i, j \in DOMAIN lookup :
            i < j /\ IsLocal(lookup[i]) /\ ~IsLocal(lookup[j]) =>
                \E k \in DOMAIN lookup :
                    /\ ~IsLocal(lookup[k])
                    /\ CompareIntervals(lookup[k].interval, lookup[i].interval) >= 0

GrapherInv ==
    /\ LookupShape
    /\ ResolvedShape
    /\ RemoteStays
    /\ LocalsSorted
    /\ OpenEndedLast
    /\ RemoteBehindIsHigher
    /\ HighestLocal
    /\ RemoteOnlyIfAskedFor
    /\ RemoteForGood
=============================================================================
