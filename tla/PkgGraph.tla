------------------------------ MODULE PkgGraph ------------------------------
(***************************************************************************)
(* The package dependency graph of internal/pkggraph: a gonum directed     *)
(* graph whose nodes are shared *PkgNode pointers.  A graph is a record    *)
(*     nodes   the nodes it contains                                       *)
(*     deps    n -> the nodes n has an edge to (gonum's From)              *)
(*     maxID, free   the state of gonum's ID allocator                     *)
(* and the fields of the PkgNodes, shared by all graphs that contain the   *)
(* node, are in a function `attr' from nodes to records.  This module has  *)
(* no state: it gives the operations of pkggraph.go, cyclefind.go and of   *)
(* the graph half of schedulerutils as operators on graphs.                *)
(***************************************************************************)
EXTENDS Integers, FiniteSets

CONSTANTS
    Node,       \* every *PkgNode that can ever exist
    SRPM,       \* paths of .src.rpm files
    RPM,        \* base names of .rpm files
    Pkg,        \* versioned packages (pkgjson.PackageVer)
    Implicit,   \* the packages that only a built RPM can reveal a provider of
    Satisfies,  \* pairs <<p, q>>: the version interval of p satisfies that of q
    NoSRPM,     \* pkggraph.NoSRPMPath
    NoRPM,      \* pkggraph.NoRPMPath
    NoPkg       \* the VersionedPkg of goal and meta nodes

NodeTypes == {"LocalBuild", "LocalRun", "RemoteRun", "Test", "Goal",
              "PureMeta", "PreBuilt"}

NodeStates == {"Meta", "Build", "UpToDate", "Unresolved", "Cached",
               "BuildError", "Delta"}

GoalNames == {"none", "ALL", "PackagesToBuild"}

\* An RPM is either in the output directory or, for a delta node, in the cache.
Path == RPM \X {"out", "cache"}

PkgNode == [type : NodeTypes, state : NodeStates, srpm : SRPM \cup {NoSRPM},
            rpm : Path \cup {NoRPM}, pkg : Pkg \cup {NoPkg},
            goal : GoalNames, id : Nat]

Graph == [nodes : SUBSET Node, deps : [Node -> SUBSET Node],
          maxID : Nat \cup {-1}, free : SUBSET Nat]

EmptyGraph == [nodes |-> {}, deps |-> [n \in Node |-> {}], maxID |-> -1,
               free |-> {}]

IsImplicit(attr, n) == attr[n].pkg \in Implicit
-----------------------------------------------------------------------------
(* Edges and reachability.                                                 *)

From(g, n) == g.deps[n]

\* gonum's To takes a node ID, and answers for whatever node has that ID.
To(g, attr, id) == {d \in g.nodes : \E m \in From(g, d) : attr[m].id = id}

\* The nodes a breadth- or depth-first walk from n visits.
Reach(g, n) ==
    LET Within[k \in Nat] ==
            IF k = 0 THEN {n}
            ELSE UNION {{m} \cup From(g, m) : m \in Within[k - 1]}
    IN  Within[Cardinality(g.nodes)]

RemoveEdges(g, edges) ==
    [g EXCEPT !.deps =
        [n \in Node |-> {m \in From(g, n) : <<n, m>> \notin edges}]]
-----------------------------------------------------------------------------
(* Node IDs: uid.Set of gonum.  A released ID is reused before a new one.  *)

NewIDs(g) == IF g.free # {} THEN g.free ELSE {g.maxID + 1}

AddNode(g, n, id) ==
    [g EXCEPT !.nodes = @ \cup {n},
              !.maxID = IF id > @ THEN id ELSE @,
              !.free  = @ \ {id}]

\* RemovePkgNode: the node, its edges, and its ID.
RemoveNodes(g, attr, S) ==
    [nodes |-> g.nodes \ S,
     deps  |-> [n \in Node |-> IF n \in S THEN {} ELSE From(g, n) \ S],
     maxID |-> g.maxID,
     free  |-> g.free \cup {attr[n].id : n \in S \cap g.nodes}]

\* FindAnyDirectedCycle adds a temporary root node and removes it again: the
\* edges come back as they were, the ID allocator does not.
ReleaseTemporaryRoot(g) ==
    IF g.free # {} THEN g
    ELSE [g EXCEPT !.maxID = @ + 1, !.free = {g.maxID + 1}]
-----------------------------------------------------------------------------
(* Lookups.                                                                *)

\* The run nodes of the lookup table, where a local one hides a remote one.
AllPreferredRunNodes(g, attr) ==
    LET OfType(type) == {n \in g.nodes : attr[n].type = type}
    IN  OfType("LocalRun") \cup
        {n \in OfType("RemoteRun") :
            attr[n].pkg \notin {attr[m].pkg : m \in OfType("LocalRun")}}

AllTestNodes(g, attr) == {n \in g.nodes : attr[n].type = "Test"}

\* rpmsProvidedBySRPM.
RPMsOf(g, attr, srpm) ==
    {attr[n].rpm : n \in {m \in g.nodes : attr[m].srpm = srpm}} \ {NoRPM}

FindGoalNode(g, attr, name) ==
    {n \in g.nodes : attr[n].type = "Goal" /\ attr[n].goal = name}
-----------------------------------------------------------------------------
(* Goals and subgraphs.                                                    *)

\* The run and test nodes one layer above n: everything between them and n is
\* neither a run nor a test nor a goal node.
NextGoalLayer(g, attr, n) ==
    LET Above(m) == {d \in g.nodes : m \in From(g, d)}
        Climb[k \in Nat] ==
            IF k = 0 THEN {n}
            ELSE UNION {{m} \cup {d \in Above(m) :
                                    attr[d].type \notin {"LocalRun", "Test", "Goal"}} :
                            m \in Climb[k - 1]}
    IN  {d \in UNION {Above(m) : m \in Climb[Cardinality(g.nodes)]} :
            attr[d].type \in {"LocalRun", "Test"}}

AddGoalNodeLayers(g, attr, S, layers) ==
    LET Layer[k \in Nat] ==
            IF k = 0 THEN S
            ELSE UNION {{n} \cup NextGoalLayer(g, attr, n) : n \in Layer[k - 1]}
    IN  Layer[layers]

GoalNode(name, id) ==
    [type |-> "Goal", state |-> "Meta", srpm |-> NoSRPM, rpm |-> NoRPM,
     pkg |-> NoPkg, goal |-> name, id |-> id]

\* AddGoalNodeWithExtraLayers: `goal' is a node not used before, `wanted' the
\* run and test nodes to link it to.
AddGoalNode(g, attr, goal, id, wanted, layers) ==
    LET linked == AddGoalNodeLayers(g, attr, wanted, layers)
    IN  [AddNode(g, goal, id) EXCEPT !.deps[goal] = linked]

\* CreateSubGraph: what is reachable from root, with a fresh ID allocator.
CreateSubGraph(g, attr, root) ==
    LET inside == Reach(g, root)
    IN  [nodes |-> inside,
         deps  |-> [n \in Node |-> IF n \in inside THEN From(g, n) ELSE {}],
         maxID |-> CHOOSE i \in {attr[n].id : n \in inside} :
                       \A n \in inside : attr[n].id <= i,
         free  |-> {}]

\* initLookup, which runs at the first lookup in a subgraph: a build node with
\* neither the run nor the test node of its package is removed.
DropOrphanBuilds(g, attr) ==
    LET partners == {n \in g.nodes :
                        attr[n].type \in {"LocalRun", "RemoteRun", "Test"}}
    IN  RemoveNodes(g, attr,
            {n \in g.nodes : /\ attr[n].type = "LocalBuild"
                             /\ attr[n].pkg \notin {attr[m].pkg : m \in partners}})

\* CanSubGraph.
CanSubGraph(g, attr, root, useCachedImplicit) ==
    \A n \in Reach(g, root) :
        \/ ~IsImplicit(attr, n)
        \/ useCachedImplicit /\ attr[n].state = "Cached"
        \/ attr[n].state \notin {"Unresolved", "Cached"}
-----------------------------------------------------------------------------
(* Implicit provides.                                                      *)

\* implicitPackageNamesToNodesInGraph.
ImplicitNodes(g, attr) ==
    {n \in AllPreferredRunNodes(g, attr) :
        IsImplicit(attr, n) /\ attr[n].state \in {"Cached", "Unresolved"}}

\* CreateCollapsedNode: `new', with the parent's attributes and the package
\* `provide', takes the place of the nodes in `collapsed'.
CollapsedNode(attr, provide, parent, id) ==
    [attr[parent] EXCEPT !.pkg = provide, !.id = id]

\* addToLookup refuses a second local run node for the package.
HasLocalRunNode(g, attr, pkg, collapsed) ==
    \E n \in g.nodes \ collapsed : attr[n].type = "LocalRun" /\ attr[n].pkg = pkg

CreateCollapsedNode(g, attr, new, id, parent, collapsed) ==
    LET linked == [AddNode(g, new, id) EXCEPT !.deps =
                     [n \in Node |->
                        IF n = new THEN {parent}
                        ELSE IF From(g, n) \cap collapsed # {}
                             THEN From(g, n) \cup {new}
                             ELSE From(g, n)]]
    IN  RemoveNodes(linked, attr, collapsed)
-----------------------------------------------------------------------------
(* Cycles.                                                                 *)

\* S is the set of nodes of a simple cycle along succ.
IsCycle(g, S, succ) ==
    /\ S # {}
    /\ \A n \in S : succ[n] \in From(g, n) \cap S
    /\ \A T \in (SUBSET S) \ {{}, S} : \E n \in T : succ[n] \notin T

OnSomeCycle(g) == {n \in g.nodes : \E m \in From(g, n) : n \in Reach(g, m)}

\* The cycles FindAnyDirectedCycle may return, each as its successor function.
\* Which one it finds depends on the order of Go's maps.
Cycles(g) ==
    UNION {{succ \in [S -> S] : IsCycle(g, S, succ)} :
               S \in (SUBSET OnSomeCycle(g)) \ {{}}}

MetaNode(id) ==
    [type |-> "PureMeta", state |-> "Meta", srpm |-> NoSRPM, rpm |-> NoRPM,
     pkg |-> NoPkg, goal |-> "none", id |-> id]

\* fixIntraSpecCycle: no build node on the cycle.  The edges between its nodes
\* go, and whoever depended on one of them now depends on all, through `new'.
CanFixIntraSpec(attr, S) == \A n \in S : attr[n].type # "LocalBuild"

\* Seeded fault: who depended on the cycle loses the dependency.
CutIntraSpecCycle(g, new, id, S) ==
    [AddNode(g, new, id) EXCEPT !.deps =
        [n \in Node |-> IF n = new THEN S ELSE From(g, n) \ S]]

FixIntraSpecCycle(g, new, id, S) ==
    [AddNode(g, new, id) EXCEPT !.deps =
        [n \in Node |->
            IF n = new THEN S
            ELSE IF n \in S THEN From(g, n) \ S
            ELSE IF From(g, n) \cap S # {} THEN (From(g, n) \ S) \cup {new}
            ELSE From(g, n)]]

\* fixCyclesWithExistingRPMS: the build -> run edges of the cycle whose run
\* node comes from an SRPM with no RPM missing.
BreakableEdges(g, attr, disk, succ) ==
    {b \in DOMAIN succ :
        /\ attr[b].type = "LocalBuild"
        /\ attr[succ[b]].type = "LocalRun"
        /\ RPMsOf(g, attr, attr[succ[b]].srpm) \subseteq disk}

PreBuiltNode(attr, run, id) ==
    [attr[run] EXCEPT !.type = "PreBuilt", !.state = "UpToDate", !.id = id]

ReplaceSRPMBuildDependency(g, attr, new, id, build, run) ==
    [AddNode(g, new, id) EXCEPT !.deps =
        [n \in Node |->
            IF n = new THEN {}
            ELSE IF /\ run \in From(g, n)
                    /\ attr[n].type = "LocalBuild"
                    /\ attr[n].srpm = attr[build].srpm
                 THEN (From(g, n) \ {run}) \cup {new}
                 ELSE From(g, n)]]
=============================================================================
