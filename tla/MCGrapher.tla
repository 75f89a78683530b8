----------------------------- MODULE MCGrapher ------------------------------
(***************************************************************************)
(* Spec files for Grapher: local packages of one name with and without     *)
(* releases, and the dependencies on it.                                   *)
(***************************************************************************)
EXTENDS Grapher

v0 == Text(NoEpoch, <<0, 9>>, <<>>)
v1 == Text(NoEpoch, <<1>>, <<>>)
v1r1 == Text(NoEpoch, <<1>>, <<1>>)
v1r2 == Text(0, <<1>>, <<2>>)
v2 == Text(NoEpoch, <<1, 1>>, <<>>)
v2r1 == Text(NoEpoch, <<1, 1>>, <<1>>)
e1 == Text(1, <<0>>, <<1>>)

Requirements(versions) == {<<"", NoVersion>>} \cup Conditions \X versions

Package(c, v, rpm) == [provides |-> PackageVer(c, v, "", NoVersion), rpm |-> rpm]
Asked(requirements) == [from |-> Other, kind |-> "build", requirements |-> requirements]

World(packages, asked, count, strict) ==
    [packages |-> packages, asked |-> asked, count |-> count, strict |-> strict]

\* Lists of up to n different local packages, each in an RPM of its own.
PackageLists(versions, n) ==
    {[i \in 1..Len(s) |-> Package(IF s[i] = NoVersion THEN "" ELSE "=", s[i], i)] :
        s \in UNION {[1..m -> versions] : m \in 0..n}}

\* Every pair of requirements; single ones to be repeated in any order; and
\* those of packages on each other.
AllDependencies ==
    [pairs |-> {Asked(<<r, s>>) : r, s \in Requirements({v1, v1r1, v1r2, v2r1})},
     singles |-> {Asked(<<r>>) : r \in {<<"", NoVersion>>}
                     \cup {"=", "<", ">", ">="} \X {v1, v1r2, v2r1}},
     mutual |-> {[from |-> f, kind |-> k, requirements |-> <<r>>] :
                    f \in 1..3, k \in {"run", "build"}, r \in {"=", ">"} \X {v1r1, v2r1}},
     few |-> {Asked(<<r>>) : r \in {<<"", NoVersion>>, <<"=", v1>>, <<">=", v1>>,
                                   <<"=", v2r1>>, <<">", v2r1>>}},
     tied |-> {Asked(<<<<">=", v1>>, <<"<=", v1>>>>), Asked(<<<<"<=", v1>>, <<">=", v1>>>>)},
     gap |-> {Asked(<<<<">", v1r1>>, <<"<", v1r2>>>>), Asked(<<<<">", v1r1>>>>)},
     one |-> {Asked(<<<<"=", v1>>>>)}]

Pairs ==
    {World(p, "pairs", 1, FALSE) : p \in PackageLists({NoVersion, v0, v1, v1r1, v1r2, e1}, 2)}

Histories ==
    {World(p, "singles", 3, FALSE) : p \in PackageLists({v1r1, v1r2, v2r1}, 2)}
    \cup {World(p, "gap", 2, FALSE) : p \in PackageLists({v1, v1r1, v1r2}, 3)}
    \cup {World(p, "few", 4, FALSE) : p \in PackageLists({NoVersion, v1, v1r1, v2r1}, 3)}

\* One RPM for two packages and two, with a duplicate, strict-unresolved or not;
\* provides that are not accepted; and a lower bound.
Others ==
    {World(<<Package("=", v1r1, 1), Package("=", v2r1, rpm), Package("=", v1r1, 2)>>,
           "mutual", 2, strict) : rpm \in {1, 2}, strict \in BOOLEAN}
    \cup {World(<<Package(c, v1, 1)>>, "one", 1, FALSE) : c \in Conditions}
    \cup {World(<<Package(">=", v, 1), Package("=", w, 2)>>, "singles", 3, FALSE) :
             v, w \in {v1r1, v1r2, v2r1}}

\* "foo >= 1, foo <= 1" in both orders, with foo 0.9.
TiedWorlds == {World(<<Package("=", v0, 1)>>, "tied", 1, FALSE)}

AllWorlds == Pairs \cup Histories \cup Others
=============================================================================
