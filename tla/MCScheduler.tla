---------------------------- MODULE MCScheduler -----------------------------
(***************************************************************************)
(* Instances of Scheduler.  A scenario is a small set of packages and a    *)
(* command line; the graph below is the one the grapher would write for    *)
(* the packages: a build and a run node per package, an edge from run to   *)
(* build, a test node with an edge to its build node, and a remote node    *)
(* per package that no spec provides.  Every package has one RPM, with the *)
(* package's name.                                                         *)
(***************************************************************************)
EXTENDS Scheduler, TLC

CONSTANT Scenarios    \* name -> scenario

Build(p) == <<"build", p>>
Run(p) == <<"run", p>>
Test(p) == <<"test", p>>
Remote(p) == <<"remote", p>>
ALL == <<"goal", "ALL">>

NewNodes(k) == {<<"new", ToString(i)>> : i \in 1..k}

FileNodes(sc) == {sc.order[i] : i \in DOMAIN sc.order}

LocalPkgs(sc) == DOMAIN sc.srpm

AnyScenario == {Scenarios[i] : i \in DOMAIN Scenarios}

ScNode == UNION {FileNodes(sc) : sc \in AnyScenario} \cup Spare

ScSRPM == UNION {{sc.srpm[p] : p \in LocalPkgs(sc)} : sc \in AnyScenario}

ScRPM == UNION {LocalPkgs(sc) \cup DOMAIN sc.remote : sc \in AnyScenario}

\* The RPM a cached remote package is in: p for its alias.
CopyOf(r) == IF r = "alias" THEN "p" ELSE r

DiskOf(sc) ==
    {<<p, "out">> : p \in sc.built}
    \cup {<<p, "cache">> : p \in sc.delta \cup
             {CopyOf(r) : r \in {x \in DOMAIN sc.remote : sc.remote[x] = "Cached"}}}

DepsOf(sc, n) ==
    CASE n = ALL -> {m \in FileNodes(sc) : m[1] \in {"run", "test", "remote"}}
      [] n[1] = "build" -> sc.build[n[2]]
      [] n[1] = "run" -> {Build(n[2])} \cup sc.run[n[2]]
      [] n[1] = "test" -> {Build(n[2])} \cup sc.test[n[2]]
      [] OTHER -> {}

GraphOf(sc) ==
    [nodes |-> FileNodes(sc), maxID |-> Len(sc.order) - 1, free |-> {},
     deps |-> [n \in ScNode |-> IF n \in FileNodes(sc) THEN DepsOf(sc, n) ELSE {}]]

IDOf(sc, n) == (CHOOSE i \in DOMAIN sc.order : sc.order[i] = n) - 1

LocalAttr(sc, type, n) ==
    [type |-> type, goal |-> "none", pkg |-> n[2], srpm |-> sc.srpm[n[2]],
     rpm |-> IF type = "Test" THEN NoRPM
             ELSE <<n[2], IF n[2] \in sc.delta THEN "cache" ELSE "out">>,
     id |-> IDOf(sc, n),
     state |-> IF n[2] \in sc.delta /\ type # "Test" THEN "Delta"
               ELSE IF type = "LocalRun" THEN "Meta" ELSE "Build"]

RemoteAttr(sc, n) ==
    [type |-> "RemoteRun", goal |-> "none", pkg |-> n[2], srpm |-> NoSRPM,
     rpm |-> IF sc.remote[n[2]] = "Cached" THEN <<CopyOf(n[2]), "cache">> ELSE NoRPM,
     id |-> IDOf(sc, n), state |-> sc.remote[n[2]]]

AttrOf(sc) == [n \in ScNode |->
    CASE n \notin FileNodes(sc) -> MetaNode(0)
      [] n = ALL -> GoalNode("ALL", IDOf(sc, n))
      [] n[1] = "build" -> LocalAttr(sc, "LocalBuild", n)
      [] n[1] = "run" -> LocalAttr(sc, "LocalRun", n)
      [] n[1] = "test" -> LocalAttr(sc, "Test", n)
      [] n[1] = "remote" -> RemoteAttr(sc, n)]

\* What the scheduler is given in each of the scenarios (TLC evaluates a function
\* made by @@ once and for all).
ScInputs == [i \in DOMAIN Scenarios |->
    LET sc == Scenarios[i]
    IN  [FileGraph |-> GraphOf(sc),
         FileAttr |-> AttrOf(sc),
         FileDisk |-> DiskOf(sc),
         RpmsBuiltBy |-> [s \in ScSRPM |-> {p \in LocalPkgs(sc) : sc.srpm[p] = s}],
         ProvidesOf |-> [r \in ScRPM |-> IF r \in DOMAIN sc.provides
                                         THEN sc.provides[r] ELSE {}]]
        @@ sc] @@ [i \in {} |-> {}]

\* A provide satisfies the implicit package with its own name.
ScSatisfies == {<<p, p>> : p \in Implicit}

\* The command line that asks for everything, with no other option given.
DefaultOptions ==
    [PackagesToBuild |-> {}, TestsToRun |-> {}, ExtraLayers |-> 0,
     PackagesToRebuild |-> {}, TestsToRerun |-> {},
     IgnoredPackages |-> {}, IgnoredTests |-> {}, ReservedFiles |-> {},
     AllowToolchainRebuilds |-> FALSE, CanUseCache |-> TRUE,
     OptimizeWithCachedImplicit |-> FALSE, StopOnFailure |-> FALSE, MaxFreshness |-> 2,
     Unbuildable |-> {}, Untestable |-> {}, LicenseOutcomes |-> {"ok"}]

With(sc, options) == options @@ sc @@ DefaultOptions

Plain(sc) == sc @@ DefaultOptions

\* For the runs without liveness.
WorkerSymmetry == Permutations(Worker)
-----------------------------------------------------------------------------
Nothing == [p \in {} |-> {}]

\* Four packages in a chain, each built with the one before, the first of which
\* is not built yet, and e beside them.
Cascade ==
    [order  |-> <<ALL, Build("a"), Run("a"), Build("b"), Run("b"), Build("c"), Run("c"),
                  Build("d"), Run("d"), Build("e"), Run("e"), Remote("r")>>,
     srpm   |-> [p \in {"a", "b", "c", "d", "e"} |-> p],
     build  |-> [a |-> {Remote("r")}, b |-> {Run("a")}, c |-> {Run("b"), Remote("r")},
                 d |-> {Run("c")}, e |-> {Run("a")}],
     run    |-> [a |-> {}, b |-> {Run("a")}, c |-> {}, d |-> {}, e |-> {Run("d")}],
     test   |-> Nothing,
     remote |-> [r |-> "Cached"],
     delta  |-> {},
     built  |-> {"b", "c", "d", "e"},
     provides |-> Nothing]

\* An SRPM with two packages and their tests; app is built with one of them, and
\* its test needs tool.
Library ==
    [order  |-> <<ALL, Build("lib"), Run("lib"), Build("devel"), Run("devel"),
                  Test("lib"), Test("devel"), Build("app"), Run("app"), Test("app"),
                  Build("tool"), Run("tool")>>,
     srpm   |-> [lib |-> "lib", devel |-> "lib", app |-> "app", tool |-> "tool"],
     build  |-> [lib |-> {}, devel |-> {}, app |-> {Run("devel")}, tool |-> {}],
     run    |-> [lib |-> {}, devel |-> {Run("lib")}, app |-> {Run("lib")}, tool |-> {}],
     test   |-> [lib |-> {}, devel |-> {}, app |-> {Run("tool")}],
     remote |-> Nothing,
     delta  |-> {},
     built  |-> {"tool", "lib"},
     provides |-> Nothing]

\* Three packages that do not depend on each other, with the names of Implicits.
Independent ==
    [order  |-> <<ALL, Build("prov"), Run("prov"), Build("user"), Run("user"),
                  Build("other"), Run("other")>>,
     srpm   |-> [p \in {"prov", "user", "other"} |-> p],
     build  |-> [p \in {"prov", "user", "other"} |-> {}],
     run    |-> [p \in {"prov", "user", "other"} |-> {}],
     test   |-> Nothing,
     remote |-> Nothing,
     delta  |-> {},
     built  |-> {"other"},
     provides |-> Nothing]

\* user needs the implicit package i, which is found in the RPM of prov; other
\* is not wanted.
Implicits ==
    [order  |-> <<ALL, Build("prov"), Run("prov"), Build("user"), Run("user"),
                  Remote("i"), Build("other"), Run("other")>>,
     srpm   |-> [p \in {"prov", "user", "other"} |-> p],
     build  |-> [prov |-> {}, user |-> {Remote("i")}, other |-> {}],
     run    |-> [prov |-> {}, user |-> {}, other |-> {}],
     test   |-> Nothing,
     remote |-> [i |-> "Unresolved"],
     delta  |-> {},
     built  |-> {},
     provides |-> [prov |-> {"i"}]]

\* user is built with two packages of one SRPM: one by its name, the other because
\* its RPM provides the implicit package i.  other is not wanted.
Split ==
    [order  |-> <<ALL, Build("prov"), Run("prov"), Build("sub"), Run("sub"),
                  Build("user"), Run("user"), Remote("i"), Build("other"), Run("other")>>,
     srpm   |-> [prov |-> "prov", sub |-> "prov", user |-> "user", other |-> "other"],
     build  |-> [prov |-> {}, sub |-> {}, user |-> {Remote("i"), Run("prov")}, other |-> {}],
     run    |-> [p \in {"prov", "sub", "user", "other"} |-> {}],
     test   |-> Nothing,
     remote |-> [i |-> "Unresolved"],
     delta  |-> {},
     built  |-> {},
     provides |-> [sub |-> {"i"}]]

\* q needs the implicit package i, a cached copy of which is at hand; its real
\* provider prov is built with q.
Bootstrap ==
    [order  |-> <<ALL, Build("prov"), Run("prov"), Build("q"), Run("q"), Remote("i")>>,
     srpm   |-> [p \in {"prov", "q"} |-> p],
     build  |-> [prov |-> {Run("q")}, q |-> {Remote("i")}],
     run    |-> [prov |-> {}, q |-> {}],
     test   |-> Nothing,
     remote |-> [i |-> "Cached"],
     delta  |-> {},
     built  |-> {},
     provides |-> [prov |-> {"i"}]]

\* At run time lib needs the implicit package i, which plugin provides, and
\* plugin needs lib; app is built with lib.
RunCycle ==
    [order  |-> <<ALL, Build("lib"), Run("lib"), Build("plugin"), Run("plugin"),
                  Remote("i"), Build("app"), Run("app")>>,
     srpm   |-> [p \in {"lib", "plugin", "app"} |-> p],
     build  |-> [lib |-> {}, plugin |-> {}, app |-> {Run("lib")}],
     run    |-> [lib |-> {Remote("i")}, plugin |-> {Run("lib")}, app |-> {}],
     test   |-> Nothing,
     remote |-> [i |-> "Unresolved"],
     delta  |-> {},
     built  |-> {},
     provides |-> [plugin |-> {"i"}]]

\* lib needs the implicit package i at run time, a cached copy of which is at
\* hand; plugin, which provides it, needs lib at run time and is built with x,
\* which is built with lib.
Knot ==
    [order  |-> <<ALL, Build("lib"), Run("lib"), Build("plugin"), Run("plugin"),
                  Remote("i"), Build("x"), Run("x")>>,
     srpm   |-> [p \in {"lib", "plugin", "x"} |-> p],
     build  |-> [lib |-> {}, plugin |-> {Run("x")}, x |-> {Run("lib")}],
     run    |-> [lib |-> {Remote("i")}, plugin |-> {Run("lib")}, x |-> {}],
     test   |-> Nothing,
     remote |-> [i |-> "Cached"],
     delta  |-> {},
     built  |-> {},
     provides |-> [plugin |-> {"i"}]]

\* user needs i, which prov provides; other, which is not wanted, needs j, which
\* the RPM of base provides.
Reuse ==
    [order  |-> <<ALL, Build("prov"), Run("prov"), Build("user"), Run("user"),
                  Remote("i"), Build("base"), Run("base"), Remote("j"),
                  Build("other"), Run("other")>>,
     srpm   |-> [p \in {"prov", "user", "base", "other"} |-> p],
     build  |-> [prov |-> {}, user |-> {Remote("i")}, base |-> {}, other |-> {Remote("j")}],
     run    |-> [p \in {"prov", "user", "base", "other"} |-> {}],
     test   |-> Nothing,
     remote |-> [i |-> "Unresolved", j |-> "Unresolved"],
     delta  |-> {},
     built  |-> {"prov", "base"},
     provides |-> [prov |-> {"i"}, base |-> {"j"}]]

\* p and its subpackage are deltas, and are built with q, which is not built yet.
Delta ==
    [order  |-> <<ALL, Build("p"), Run("p"), Build("sub"), Run("sub"), Build("q"), Run("q"),
                  Build("user"), Run("user")>>,
     srpm   |-> [p |-> "p", sub |-> "p", q |-> "q", user |-> "user"],
     build  |-> [p |-> {Run("q")}, sub |-> {Run("q")}, q |-> {}, user |-> {Run("sub")}],
     run    |-> [x \in {"p", "sub", "q", "user"} |-> {}],
     test   |-> Nothing,
     remote |-> Nothing,
     delta  |-> {"p", "sub"},
     built  |-> {},
     provides |-> Nothing]

\* The same p, and a remote package that is found in the cached RPM of p.
Alias ==
    [order  |-> <<ALL, Build("p"), Run("p"), Build("q"), Run("q"), Build("user"), Run("user"),
                  Remote("alias")>>,
     srpm   |-> [x \in {"p", "q", "user"} |-> x],
     build  |-> [p |-> {Run("q")}, q |-> {}, user |-> {Run("p"), Remote("alias")}],
     run    |-> [x \in {"p", "q", "user"} |-> {}],
     test   |-> Nothing,
     remote |-> [alias |-> "Cached"],
     delta  |-> {"p"},
     built  |-> {},
     provides |-> Nothing]

\* An SRPM with two packages and their tests, and an application.
Subpackages ==
    [order  |-> <<ALL, Build("lib"), Run("lib"), Build("devel"), Run("devel"),
                  Test("lib"), Test("devel"), Build("app"), Run("app")>>,
     srpm   |-> [lib |-> "lib", devel |-> "lib", app |-> "app"],
     build  |-> [lib |-> {}, devel |-> {}, app |-> {Run("devel")}],
     run    |-> [lib |-> {}, devel |-> {}, app |-> {}],
     test   |-> [lib |-> {}, devel |-> {}],
     remote |-> Nothing,
     delta  |-> {},
     built  |-> {"lib"},
     provides |-> Nothing]

-----------------------------------------------------------------------------
\* Packages, subpackages, tests, deltas: the graph does not change.
Packages ==
    [library |-> With(Library,
        [PackagesToBuild |-> {"lib", "devel", "app", "tool"},
         PackagesToRebuild |-> {"lib", "devel"}, ReservedFiles |-> {"lib"},
         Unbuildable |-> {"lib", "app"}, Untestable |-> {"app"}]),
     test_needs_build |-> With(Library,
        [built |-> {"lib"}, PackagesToBuild |-> {"app"}, TestsToRun |-> {"app"}]),
     ignored_test |-> With(Subpackages,
        [PackagesToBuild |-> {"lib", "devel", "app"}, TestsToRun |-> {"devel"},
         IgnoredTests |-> {"devel"}]),
     delta |-> With(Delta, [Unbuildable |-> {"q"}, LicenseOutcomes |-> {"ok", "errors"}]),
     alias |-> Plain(Alias),
     cascade |-> With(Cascade, [Unbuildable |-> {"c"}])]

\* A build that stops early, with a license checker that may fail, and one in which
\* a failure keeps the goal blocked or, when the graph has been rewritten, the goal
\* is available while a package that is not wanted any more is still built.
Shutdowns ==
    [stop |-> With(Independent,
        [StopOnFailure |-> TRUE, Unbuildable |-> {"prov"},
         LicenseOutcomes |-> {"ok", "crash"}]),
     unwanted |-> With(Implicits,
        [PackagesToBuild |-> {"user"}, Unbuildable |-> {"prov", "other"}])]

\* Graphs that change while they are built.
Dynamic ==
    [implicits |-> With(Implicits, [PackagesToBuild |-> {"user"}]),
     split |-> With(Split, [PackagesToBuild |-> {"user"}]),
     bootstrap |-> With(Bootstrap, [CanUseCache |-> FALSE, Unbuildable |-> {"prov", "q"}]),
     run_cycle |-> Plain(RunCycle),
     knot |-> Plain(Knot),
     knot_ignored |-> With(Knot, [IgnoredPackages |-> {"x"}])]

\* One build each, in which the code departs from what is said of it.
UserOnly == [implicits |-> With(Implicits, [PackagesToBuild |-> {"user"}])]

UserReuse == [reuse |-> With(Reuse, [PackagesToBuild |-> {"user"}])]

RunCycleOnly == [run_cycle |-> Plain(RunCycle)]

TestOfSubpackage ==
    [panic |-> With(Subpackages, [PackagesToBuild |-> {"lib", "app"},
                                  TestsToRun |-> {"devel"}])]

Spare2 == NewNodes(2)
Spare3 == NewNodes(3)
Spare5 == NewNodes(5)
Spare8 == NewNodes(8)
=============================================================================
