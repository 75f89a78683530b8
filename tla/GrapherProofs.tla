---------------------------- MODULE GrapherProofs ---------------------------
(***************************************************************************)
(* How dependencies are resolved, for all spec files: the properties of    *)
(* Grapher as invariants, for any number of packages and of dependencies.  *)
(*                                                                         *)
(* The lookup table is a sorted list, but the order of versions is no      *)
(* order where releases are missing, and a request is compared with what   *)
(* is there by other rules than it is found.  The inductive invariant says *)
(* what is left: where remote entries can be among the local ones.         *)
(***************************************************************************)
EXTENDS Grapher, PkgVersionProofs

-----------------------------------------------------------------------------
(* What a dependency asks for.                                             *)

\* dedupPackageVersionArray keeps the meaning of up to two requirements.
LEMMA DedupMeaning ==
  ASSUME NEW d, d.requirements \in Seq(Conditions \X Texts), Len(d.requirements) \in 1..2
  PROVE  /\ dedupPackageVersionArray(d.requirements) \in PackageVers
         /\ \A v \in Versions :
               Meets(v, d) <=> MeetsBoth(v, dedupPackageVersionArray(d.requirements))
<1> DEFINE reqs == d.requirements
           p == dedupPackageVersionArray(reqs)
<1>0. NoVersion \in Texts /\ "" \in Conditions
  BY NoVersionType
<1>1. CASE Len(reqs) = 1
  <2>1. reqs[1] \in Conditions \X Texts /\ Range(reqs) = {reqs[1]}
    BY <1>1 DEF Range
  <2> HIDE DEF reqs
  <2>2. p = PackageVer(reqs[1][1], reqs[1][2], "", NoVersion)
    BY <1>1, <2>1, DedupCases, AddRequirements, NoVersionType DEF reqs
  <2> HIDE DEF p
  <2>3. p \in PackageVers
    <3>1. reqs[1][1] \in Conditions /\ reqs[1][2] \in Texts
      BY <2>1
    <3> QED BY <1>0, <2>2, <3>1, PackageVerType
  <2>4. ASSUME NEW v \in Versions PROVE Meets(v, d) <=> MeetsBoth(v, p)
    <3>1. Meets(v, d) <=> Holds(v, reqs[1][1], reqs[1][2])
      BY <2>1 DEF Meets, Holds, reqs
    <3>2. MeetsBoth(v, p) <=> Holds(v, reqs[1][1], reqs[1][2])
      BY <2>2 DEF MeetsBoth, Holds, PackageVer
    <3> QED BY <3>1, <3>2
  <2> QED BY <2>3, <2>4 DEF p, reqs
<1>2. CASE Len(reqs) = 2
  <2>0. reqs[1] \in Conditions \X Texts /\ reqs[2] \in Conditions \X Texts
    BY <1>2
  <2>a. DOMAIN reqs = {1, 2}
    BY <1>2
  <2>1. /\ reqs[1] \in Conditions \X Texts /\ reqs[2] \in Conditions \X Texts
        /\ Range(reqs) = {reqs[1], reqs[2]}
    BY <2>0, <2>a DEF Range
  <2> HIDE DEF reqs
  <2>2. p = IF reqs[1][2] = NoVersion THEN PackageVer(reqs[2][1], reqs[2][2], "", NoVersion)
            ELSE PackageVer(reqs[1][1], reqs[1][2], reqs[2][1], reqs[2][2])
    <3>1. p = addRequirement(addRequirement(None, reqs[1]), reqs[2])
      BY <1>2, DedupCases DEF reqs
    <3>2. addRequirement(None, reqs[1]) = PackageVer(reqs[1][1], reqs[1][2], "", NoVersion)
      BY <2>1, AddRequirements, NoVersionType
    <3>3. reqs[1][1] \in Conditions /\ reqs[1][2] \in Texts
      BY <2>1
    <3>4. addRequirement(PackageVer(reqs[1][1], reqs[1][2], "", NoVersion), reqs[2]) =
             IF reqs[1][2] = NoVersion THEN PackageVer(reqs[2][1], reqs[2][2], "", NoVersion)
             ELSE PackageVer(reqs[1][1], reqs[1][2], reqs[2][1], reqs[2][2])
      BY <2>1, <3>3, AddRequirements
    <3> HIDE DEF p
    <3> QED BY <3>1, <3>2, <3>4
  <2> HIDE DEF p
  <2>3. p \in PackageVers
    <3>1. /\ reqs[1][1] \in Conditions /\ reqs[1][2] \in Texts
          /\ reqs[2][1] \in Conditions /\ reqs[2][2] \in Texts
      BY <2>1
    <3>2. PackageVer(reqs[2][1], reqs[2][2], "", NoVersion) \in PackageVers
      BY <1>0, <3>1, PackageVerType
    <3>3. PackageVer(reqs[1][1], reqs[1][2], reqs[2][1], reqs[2][2]) \in PackageVers
      BY <3>1 DEF PackageVer, PackageVers
    <3> QED BY <2>2, <3>2, <3>3
  <2>4. ASSUME NEW v \in Versions PROVE Meets(v, d) <=> MeetsBoth(v, p)
    <3>1. Meets(v, d) <=> /\ Holds(v, reqs[1][1], reqs[1][2])
                          /\ Holds(v, reqs[2][1], reqs[2][2])
      BY <2>1 DEF Meets, Holds, reqs
    <3>2. MeetsBoth(v, p) <=> /\ Holds(v, reqs[1][1], reqs[1][2])
                              /\ Holds(v, reqs[2][1], reqs[2][2])
      BY <2>2 DEF MeetsBoth, Holds, PackageVer
    <3> QED BY <3>1, <3>2
  <2> QED BY <2>3, <2>4 DEF p, reqs
<1> QED BY <1>1, <1>2

\* The interval of a PackageVer: every version that meets both conditions is
\* within it, and with the exceptions that the properties name no other.
THEOREM IntervalMeaning ==
  ASSUME NEW p \in PackageVers, validatedIntervals(p), NEW q, q = Interval(p)
  PROVE  /\ Proper(q) /\ q.low \in Texts \cup {MinVer} /\ q.high \in Texts \cup {MaxVer}
         /\ \A v \in Texts : MeetsBoth(v, p) => Within(v, q)
         /\ \A v \in Texts :
               (Within(v, q) /\ ~Tied(p) /\ ~Ambiguous(v, p)) => MeetsBoth(v, p)
         /\ \A v \in Texts :
               (/\ Compare(v, q.low) = 0 /\ Compare(v, q.high) = 0
                /\ ~(q.lowIn /\ q.highIn))
                  => Ambiguous(v, p)
<1>1. /\ p.cond \in Conditions /\ p.scond \in Conditions
      /\ p.ver \in Texts /\ p.sver \in Texts
      /\ p.ver \in Versions /\ p.sver \in Versions
  BY BoundVersions DEF PackageVers
<1>2. /\ Compare(MinVer, MaxVer) = -1 /\ MinVer \in Versions /\ MaxVer \in Versions
      /\ \A v \in Texts : Compare(v, MinVer) = 1 /\ Compare(v, MaxVer) = -1
  BY BoundVersions
<1>3. CASE p.ver = NoVersion /\ p.sver = NoVersion
  <2>1. q.low = MinVer /\ q.high = MaxVer /\ q.lowIn /\ q.highIn
    BY <1>3, IntervalFields DEF Interval
  <2>2. Proper(q)
    BY <1>2, <2>1 DEF Proper
  <2>3. \A v \in Texts : Within(v, q)
    BY <1>2, <2>1 DEF Within
  <2>4. \A v \in Texts : MeetsBoth(v, p)
    BY <1>3 DEF MeetsBoth, Holds
  <2> QED BY <2>1, <2>2, <2>3, <2>4
<1> DEFINE Meaning(c, w) ==
        /\ q = SingleInterval(c, w) /\ c \in Conditions /\ w \in Texts
        /\ \A v \in Texts : MeetsBoth(v, p) <=> MeetsCondition(v, c, w)
<1>4. ASSUME NEW c, NEW w, Meaning(c, w)
      PROVE  /\ Proper(q) /\ q.low \in Texts \cup {MinVer} /\ q.high \in Texts \cup {MaxVer}
             /\ \A v \in Texts : MeetsBoth(v, p) => Within(v, q)
             /\ \A v \in Texts : Within(v, q) => MeetsBoth(v, p)
             /\ \A v \in Texts :
                   (Compare(v, q.low) = 0 /\ Compare(v, q.high) = 0) => (q.lowIn /\ q.highIn)
  <2>1. /\ Proper(q) /\ q.low \in Texts \cup {MinVer} /\ q.high \in Texts \cup {MaxVer}
        /\ \A v \in Texts : Within(v, q) <=> MeetsCondition(v, c, w)
    BY <1>4, SingleMeaning
  <2>2. q \in {From(c, w), UpTo(c, w), Exactly(w)}
    BY <1>4 DEF SingleInterval
  <2>3. \/ q.high = MaxVer
        \/ q.low = MinVer
        \/ q.lowIn /\ q.highIn
    BY <2>2, IntervalFields
  <2> QED BY <1>2, <1>4, <2>1, <2>3
<1>5. CASE p.ver = NoVersion /\ p.sver # NoVersion
  <2>1. Meaning(p.scond, p.sver)
    BY <1>1, <1>5 DEF Interval, MeetsBoth, Holds
  <2> HIDE DEF Meaning
  <2> QED BY <1>4, <2>1
<1>6. CASE p.ver # NoVersion /\ (p.sver = NoVersion \/ (p.ver = p.sver /\ p.cond = p.scond))
  <2>1. Meaning(p.cond, p.ver)
    BY <1>1, <1>6 DEF Interval, MeetsBoth, Holds
  <2> HIDE DEF Meaning
  <2> QED BY <1>4, <2>1
<1> HIDE DEF Meaning
<1>7. CASE p.ver # NoVersion /\ p.sver # NoVersion /\ ~(p.ver = p.sver /\ p.cond = p.scond)
  <2>1. TwoConditions(p)
    <3>1. <<p.cond, p.ver>> # <<p.scond, p.sver>>
      BY <1>7
    <3> QED BY <1>7, <3>1 DEF TwoConditions
  <2>2. /\ Tied(p) <=> Compare(p.ver, p.sver) = 0
        /\ \A v : Ambiguous(v, p) <=> Compare(v, p.ver) = 0 /\ Compare(v, p.sver) = 0
    BY <2>1 DEF Tied, Ambiguous
  <2>3. \A v : MeetsBoth(v, p) <=> /\ MeetsCondition(v, p.cond, p.ver)
                                   /\ MeetsCondition(v, p.scond, p.sver)
    BY <1>7 DEF MeetsBoth, Holds
  <2>4. /\ Compare(p.ver, p.sver) \in {-1, 0, 1}
        /\ Compare(p.ver, p.sver) = -1 <=> Compare(p.sver, p.ver) = 1
        /\ Compare(p.ver, p.sver) = 0 <=> Compare(p.sver, p.ver) = 0
        /\ Compare(p.sver, p.ver) \in {-1, 0, 1}
        /\ p.ver = p.sver => Compare(p.ver, p.sver) = 0
    BY <1>1, CompareSwap, BoundVersions
  <2>5. \/ sameDirection(p.cond, p.scond) /\ (equals(p.cond) => p.ver = p.sver)
        \/ /\ ~sameDirection(p.cond, p.scond)
           /\ Compare(p.ver, p.sver) < 0 =>
                 ~upperBound(p.cond) /\ (equals(p.cond) => upperBound(p.scond))
           /\ Compare(p.ver, p.sver) = 0 => canEqual(p.cond) /\ canEqual(p.scond)
           /\ Compare(p.ver, p.sver) > 0 =>
                 ~upperBound(p.scond) /\ (equals(p.scond) => upperBound(p.cond))
    BY <1>7 DEF validatedIntervals
  <2>6. /\ sameDirection(p.cond, p.scond) => sameDirection(p.scond, p.cond)
        /\ sameDirection(p.scond, p.cond) => sameDirection(p.cond, p.scond)
        /\ sameDirection(p.cond, p.scond) => (equals(p.cond) <=> equals(p.scond))
    BY DEF sameDirection, equals, lowerBound, upperBound
  <2>7. CASE Compare(p.ver, p.sver) < 0
    <3>1. Compatible(p.cond, p.ver, p.scond, p.sver)
      BY <2>4, <2>5, <2>7 DEF Compatible
    <3>2. q = DoubleInterval(p.cond, p.ver, p.scond, p.sver)
      BY <1>7, <2>7 DEF Interval
    <3>3. /\ Proper(q) /\ q.low \in Texts \cup {MinVer} /\ q.high \in Texts \cup {MaxVer}
          /\ \A v \in Texts : MeetsBoth(v, p) => Within(v, q)
      BY <1>1, <2>3, <3>1, <3>2, DoubleMeaning
    <3>4. \A v \in Texts : (Within(v, q) /\ ~Tied(p) /\ ~Ambiguous(v, p)) => MeetsBoth(v, p)
      BY <1>1, <2>2, <2>3, <2>7, <3>1, <3>2, DoubleMeaning
    <3>5. \A v \in Texts :
               (/\ Compare(v, q.low) = 0 /\ Compare(v, q.high) = 0
                /\ ~(q.lowIn /\ q.highIn))
                  => (q.low = p.ver /\ q.high = p.sver)
      BY <1>1, <3>1, <3>2, DoubleMeaning
    <3> QED BY <2>2, <3>3, <3>4, <3>5
  <2>8. CASE ~(Compare(p.ver, p.sver) < 0)
    <3>1. Compatible(p.scond, p.sver, p.cond, p.ver)
      BY <2>4, <2>5, <2>6, <2>8 DEF Compatible
    <3>2. q = DoubleInterval(p.scond, p.sver, p.cond, p.ver)
      BY <1>7, <2>8 DEF Interval
    <3>3. /\ Proper(q) /\ q.low \in Texts \cup {MinVer} /\ q.high \in Texts \cup {MaxVer}
          /\ \A v \in Texts : MeetsBoth(v, p) => Within(v, q)
      BY <1>1, <2>3, <3>1, <3>2, DoubleMeaning
    <3>a. ~Tied(p) => Compare(p.sver, p.ver) < 0
      BY <2>2, <2>4, <2>8
    <3>4. \A v \in Texts : (Within(v, q) /\ ~Tied(p) /\ ~Ambiguous(v, p)) => MeetsBoth(v, p)
      BY <1>1, <2>2, <2>3, <3>a, <3>1, <3>2, DoubleMeaning
    <3>5. \A v \in Texts :
               (/\ Compare(v, q.low) = 0 /\ Compare(v, q.high) = 0
                /\ ~(q.lowIn /\ q.highIn))
                  => (q.low = p.sver /\ q.high = p.ver)
      BY <1>1, <3>1, <3>2, DoubleMeaning
    <3> QED BY <2>2, <3>3, <3>4, <3>5
  <2> QED BY <2>7, <2>8
<1> QED BY <1>3, <1>5, <1>6, <1>7

-----------------------------------------------------------------------------
(* Requests and entries.                                                   *)

\* A local entry satisfies a request that its version is within.
LEMMA LocalSatisfies ==
  ASSUME NEW i, LocalShape(i), NEW q, IsRequest(q), i.low = MinVer \/ Within(i.low, q)
  PROVE  Satisfies(i, q)
<1> DEFINE l == q.low
           h == q.high
           v == i.low
<1>0. l \in Versions /\ h \in Versions /\ l \in Texts \cup {MinVer} /\ h \in Texts \cup {MaxVer}
  BY CompareFacts DEF IsRequest, Proper
<1>1. CASE i = AnyVersion
  <2>1. i.low = MinVer /\ i.high = MaxVer /\ i.lowIn /\ i.highIn
    BY <1>1, IntervalFields
  <2>2. Compare(MinVer, h) <= 0 /\ Compare(MaxVer, l) >= 0
    BY <1>0, CompareFacts
  <2>3. CASE l = MinVer
    BY <1>0, <2>1, <2>2, <2>3, CompareFacts DEF Satisfies
  <2>4. CASE l \in Texts
    BY <1>0, <2>1, <2>2, <2>4, CompareFacts DEF Satisfies, versionInInterval
  <2> QED BY <1>0, <2>3, <2>4
<1>2. CASE i.low \in Texts /\ i.lowIn /\ i.highIn /\ i.high \in {i.low, MaxVer}
  <2>0. v \in Versions /\ v # MinVer
    BY <1>2, CompareFacts
  <2>1. /\ Compare(v, l) > 0 \/ (Compare(v, l) = 0 /\ q.lowIn)
        /\ Compare(v, h) < 0 \/ (Compare(v, h) = 0 /\ q.highIn)
    BY <2>0 DEF Within
  <2>2. /\ Compare(v, l) \in {0, 1} /\ Compare(l, v) \in {-1, 0}
        /\ Compare(v, h) \in {-1, 0} /\ Compare(h, v) \in {0, 1}
        /\ Compare(v, l) = 0 <=> Compare(l, v) = 0
        /\ Compare(v, h) = 0 <=> Compare(h, v) = 0
    BY <1>0, <2>0, <2>1, CompareFacts
  <2>3. CASE i.high = i.low
    BY <1>2, <2>1, <2>2, <2>3 DEF Satisfies
  <2>4. CASE i.high = MaxVer
    <3>1. Compare(MaxVer, l) = 1 /\ Compare(l, MaxVer) = -1
      BY <1>0, CompareFacts
    <3>2. Compare(h, MaxVer) \in {-1, 0}
      BY <1>0, CompareFacts
    <3>3. CASE Compare(h, v) = 0
      BY <1>2, <2>1, <2>2, <2>4, <3>1, <3>2, <3>3 DEF Satisfies
    <3>4. CASE Compare(h, v) = 1
      BY <1>2, <2>1, <2>2, <2>4, <3>1, <3>2, <3>4 DEF Satisfies, versionInInterval
    <3> QED BY <2>2, <3>3, <3>4
  <2> QED BY <1>2, <2>3, <2>4
<1> QED BY <1>1, <1>2 DEF LocalShape

\* A local entry without an upper bound satisfies all requests but those below.
LEMMA OpenEndedSatisfies ==
  ASSUME NEW i, LocalShape(i), i.high = MaxVer, NEW q, IsRequest(q), ~Satisfies(i, q)
  PROVE  i.low \in Texts /\ (Compare(q.high, i.low) < 0 \/ Compare(q.low, i.low) < 0)
<1> DEFINE l == q.low
           h == q.high
           v == i.low
<1>0. l \in Versions /\ h \in Versions /\ l \in Texts \cup {MinVer} /\ h \in Texts \cup {MaxVer}
  BY CompareFacts DEF IsRequest, Proper
<1>1. i # AnyVersion
  BY LocalSatisfies, IntervalFields
<1>2. v \in Texts /\ i.lowIn /\ i.highIn /\ v \in Versions
  BY <1>1, CompareFacts DEF LocalShape
<1>3. /\ Compare(h, v) \in {-1, 0, 1} /\ Compare(l, v) \in {-1, 0, 1}
      /\ Compare(v, h) = 1 <=> Compare(h, v) = -1
      /\ Compare(v, h) \in {-1, 0, 1}
  BY <1>0, <1>2, CompareFacts
<1>4. Compare(MaxVer, l) = 1 /\ Compare(l, MaxVer) = -1
  BY <1>0, CompareFacts
<1>5. CASE Compare(l, v) = 0
  BY <1>2, <1>3, <1>4, <1>5 DEF Satisfies
<1>6. CASE Compare(l, v) = 1
  BY <1>2, <1>3, <1>4, <1>6 DEF Satisfies, versionInInterval
<1> QED BY <1>2, <1>3, <1>5, <1>6

\* Every local entry satisfies the request for the same interval.
LEMMA SelfSatisfies ==
  ASSUME NEW i, LocalShape(i)
  PROVE  Satisfies(i, i)
<1>1. CASE i = AnyVersion
  <2>1. i.low = MinVer /\ i.high = MaxVer /\ i.lowIn /\ i.highIn
    BY <1>1, IntervalFields
  <2>2. /\ Compare(MinVer, MaxVer) = -1 /\ Compare(MaxVer, MinVer) = 1
        /\ Compare(MinVer, MinVer) = 0
    BY BoundVersions
  <2> QED BY <2>1, <2>2 DEF Satisfies
<1>2. CASE i.low \in Texts /\ i.lowIn /\ i.highIn /\ i.high \in {i.low, MaxVer}
  <2>1. /\ Compare(i.low, i.low) = 0 /\ Compare(i.low, MaxVer) = -1
        /\ Compare(MaxVer, i.low) = 1
    BY <1>2, BoundVersions
  <2> QED BY <1>2, <2>1 DEF Satisfies
<1> QED BY <1>1, <1>2 DEF LocalShape

\* What a dependency that is no error asks for.
LEMMA RequestMeaning ==
  ASSUME world \in Worlds, NEW d \in Dependencies[world.asked],
         validatedIntervals(dedupPackageVersionArray(d.requirements))
  PROVE  LET p == dedupPackageVersionArray(d.requirements)
             q == Request(d)
         IN  /\ IsRequest(q)
             /\ \A v \in Texts : Meets(v, d) => Within(v, q)
             /\ \A v \in Texts :
                   (Within(v, q) /\ ~Tied(p) /\ ~Ambiguous(v, p)) => Meets(v, d)
             /\ \A v \in Texts :
                   (/\ Compare(v, q.low) = 0 /\ Compare(v, q.high) = 0
                    /\ ~(q.lowIn /\ q.highIn))
                      => Ambiguous(v, p)
<1> DEFINE p == dedupPackageVersionArray(d.requirements)
           q == Request(d)
<1>1. d.requirements \in Seq(Conditions \X Texts) /\ Len(d.requirements) \in 1..2
  BY InputAssumption
<1>2. p \in PackageVers /\ \A v \in Versions : Meets(v, d) <=> MeetsBoth(v, p)
  BY <1>1, DedupMeaning
<1>3. q = Interval(p) /\ validatedIntervals(p)
  BY DEF Request
<1>4. Texts \subseteq Versions
  BY CompareFacts
<1> HIDE DEF p, q
<1>5. IsRequest(q)
  BY <1>2, <1>3, IntervalMeaning DEF IsRequest
<1>6. \A v \in Texts : MeetsBoth(v, p) => Within(v, q)
  BY <1>2, <1>3, IntervalMeaning
<1>7. \A v \in Texts : (Within(v, q) /\ ~Tied(p) /\ ~Ambiguous(v, p)) => MeetsBoth(v, p)
  BY <1>2, <1>3, IntervalMeaning
<1>8. \A v \in Texts :
         (/\ Compare(v, q.low) = 0 /\ Compare(v, q.high) = 0
          /\ ~(q.lowIn /\ q.highIn))
            => Ambiguous(v, p)
  BY <1>2, <1>3, IntervalMeaning
<1>9. /\ \A v \in Texts : Meets(v, d) => Within(v, q)
      /\ \A v \in Texts : (Within(v, q) /\ ~Tied(p) /\ ~Ambiguous(v, p)) => Meets(v, d)
  BY <1>2, <1>4, <1>6, <1>7
<1> QED BY <1>5, <1>8, <1>9 DEF p, q

\* A local entry that can serve a dependency satisfies it.
LEMMA ServesSatisfies ==
  ASSUME world \in Worlds, NEW d \in Dependencies[world.asked],
         validatedIntervals(dedupPackageVersionArray(d.requirements)),
         NEW e, LocalShape(e.interval), Serves(e, d)
  PROVE  Satisfies(e.interval, Request(d))
<1>1. IsRequest(Request(d)) /\ \A v \in Texts : Meets(v, d) => Within(v, Request(d))
  BY RequestMeaning
<1>2. e.interval.low \in Texts \/ e.interval.low = MinVer
  BY IntervalFields DEF LocalShape
<1>3. e.interval.low = MinVer \/ Within(e.interval.low, Request(d))
  BY <1>1, <1>2 DEF Serves
<1> QED BY <1>1, <1>3, LocalSatisfies

\* The interval that a package provides, if it is accepted.
LEMMA ProvidedShape ==
  ASSUME world \in Worlds, NEW n \in DOMAIN world.packages,
         ValidLocal(Interval(world.packages[n].provides))
  PROVE  LocalShape(Interval(world.packages[n].provides))
<1> DEFINE p == world.packages[n].provides
           q == Interval(p)
<1>1. p \in PackageVers /\ p.scond = "" /\ p.sver = NoVersion
  <2>1. world.packages \in Seq([provides : PackageVers, rpm : Nat])
    BY InputAssumption
  <2>2. world.packages[n] \in [provides : PackageVers, rpm : Nat]
    <3>1. ASSUME NEW T, NEW s \in Seq(T), NEW i \in DOMAIN s PROVE s[i] \in T
      OBVIOUS
    <3> QED BY <2>1, <3>1, Zenon
  <2>3. p \in PackageVers
    BY <2>2
  <2> QED BY <2>3, InputAssumption
<1>2. p.cond \in Conditions /\ p.ver \in Texts
  BY <1>1 DEF PackageVers
<1>3. ValidLocal(q)
  OBVIOUS
<1>4. q = IF p.ver = NoVersion THEN AnyVersion ELSE SingleInterval(p.cond, p.ver)
  BY <1>1 DEF Interval
<1> HIDE DEF q, p
<1>5. CASE p.ver = NoVersion
  BY <1>4, <1>5 DEF LocalShape, q, p
<1>6. CASE p.ver # NoVersion
  <2>1. q = SingleInterval(p.cond, p.ver)
    BY <1>4, <1>6
  <2>2. /\ Compare(p.ver, MaxVer) = -1 /\ Compare(p.ver, MinVer) = 1
    BY <1>2, BoundVersions
  <2>3. CASE q = From(p.cond, p.ver)
    <3>1. q.low = p.ver /\ q.high = MaxVer /\ q.highIn
      BY <2>3, IntervalFields
    <3>2. q.lowIn
      BY <1>3 DEF ValidLocal
    <3> QED BY <1>2, <3>1, <3>2 DEF LocalShape, q, p
  <2>4. CASE q = UpTo(p.cond, p.ver)
    <3>1. q.low = MinVer /\ q.high = p.ver
      BY <2>4, IntervalFields
    <3> QED BY <1>3, <2>2, <3>1 DEF ValidLocal
  <2>5. CASE q = Exactly(p.ver)
    <3>1. q.low = p.ver /\ q.high = p.ver /\ q.lowIn /\ q.highIn
      BY <2>5, IntervalFields
    <3> QED BY <1>2, <3>1 DEF LocalShape, q, p
  <2> QED BY <2>1, <2>3, <2>4, <2>5 DEF SingleInterval
<1> QED BY <1>5, <1>6

\* FindBest finds the last entry that satisfies the request.
LEMMA FindBestLast ==
  ASSUME lookup \in Seq(Range(lookup)), NEW q
  PROVE  /\ \A e \in FindBest(q) :
               \E i \in DOMAIN lookup :
                  /\ e = lookup[i] /\ Satisfies(lookup[i].interval, q)
                  /\ \A j \in DOMAIN lookup : Satisfies(lookup[j].interval, q) => j <= i
         /\ (\E e \in FindBest(q) : IsLocal(e)) <=> BestIsLocal(q)
<1> DEFINE found == {i \in DOMAIN lookup : Satisfies(lookup[i].interval, q)}
<1>1. FindBest(q) = IF found = {} THEN {} ELSE {lookup[Max(found)]}
  BY DEF FindBest
<1>2. found # {} => Max(found) \in found /\ \A j \in found : j <= Max(found)
  <2>1. found \subseteq 0 .. Len(lookup) /\ Len(lookup) \in Nat
    OBVIOUS
  <2> HIDE DEF found
  <2> QED BY <2>1, MaxNat
<1>3. ASSUME NEW e \in FindBest(q)
      PROVE  \E i \in DOMAIN lookup :
                  /\ e = lookup[i] /\ Satisfies(lookup[i].interval, q)
                  /\ \A j \in DOMAIN lookup : Satisfies(lookup[j].interval, q) => j <= i
  <2> DEFINE m == Max(found)
  <2>1. found # {} /\ e = lookup[m]
    BY <1>1, <1>3
  <2>2. m \in found /\ \A j \in found : j <= m
    BY <1>2, <2>1
  <2> HIDE DEF m
  <2> QED BY <2>1, <2>2
<1>4. ASSUME BestIsLocal(q) PROVE \E e \in FindBest(q) : IsLocal(e)
  <2>1. PICK i \in DOMAIN lookup :
          /\ IsLocal(lookup[i]) /\ Satisfies(lookup[i].interval, q)
          /\ \A j \in DOMAIN lookup : Satisfies(lookup[j].interval, q) => j <= i
    BY <1>4 DEF BestIsLocal
  <2>2. i \in found /\ \A j \in found : j <= i
    BY <2>1
  <2> DEFINE m == Max(found)
  <2>3. m \in found /\ i <= m /\ m <= i /\ m \in Nat /\ i \in Nat
    <3>1. found \subseteq Nat
      OBVIOUS
    <3>2. m \in found /\ i <= m
      BY <1>2, <2>2
    <3> QED BY <2>2, <3>1, <3>2
  <2>4. m = i
    <3> HIDE DEF m
    <3> QED BY <2>3
  <2>5. FindBest(q) = {lookup[i]}
    BY <1>1, <2>2, <2>4
  <2> QED BY <2>1, <2>5
<1>5. ASSUME NEW e \in FindBest(q), IsLocal(e) PROVE BestIsLocal(q)
  BY <1>3, <1>5 DEF BestIsLocal
<1> QED BY <1>3, <1>4, <1>5

\* If it is not local, there is a remote one behind every local one that
\* satisfies the request.
LEMMA RemoteBehind ==
  ASSUME lookup \in Seq(Range(lookup)), NEW q, ~BestIsLocal(q),
         NEW i \in DOMAIN lookup, Satisfies(lookup[i].interval, q)
  PROVE  \E j \in DOMAIN lookup :
            i <= j /\ ~IsLocal(lookup[j]) /\ Satisfies(lookup[j].interval, q)
<1> DEFINE found == {j \in DOMAIN lookup : Satisfies(lookup[j].interval, q)}
           m == Max(found)
<1>1. m \in found /\ \A j \in found : j <= m
  <2>1. found \subseteq 0 .. Len(lookup) /\ Len(lookup) \in Nat /\ i \in found
    OBVIOUS
  <2> HIDE DEF found
  <2> QED BY <2>1, MaxNat
<1> HIDE DEF m
<1>2. ~IsLocal(lookup[m])
  BY <1>1 DEF BestIsLocal
<1> QED BY <1>1, <1>2

\* A list is the table with a new entry at place k: the one before it is no
\* greater, and all behind it are greater.
Placed(s, e, k) ==
    /\ s \in Seq(Range(s))
    /\ DOMAIN s = 1 .. Len(lookup) + 1
    /\ Range(s) = Range(lookup) \cup {e}
    /\ s[k] = e
    /\ \A i \in DOMAIN lookup :
          /\ i < k => s[i] = lookup[i]
          /\ ~(i < k) => s[i + 1] = lookup[i]
    /\ \A i \in DOMAIN s :
          /\ i < k => i \in DOMAIN lookup /\ s[i] = lookup[i]
          /\ i > k => i - 1 \in DOMAIN lookup /\ s[i] = lookup[i - 1]
    /\ k > 1 => CompareIntervals(e.interval, lookup[k - 1].interval) >= 0
    /\ \A i \in DOMAIN lookup :
          i >= k => ~(CompareIntervals(e.interval, lookup[i].interval) >= 0)

\* Where Insert puts a new entry.
LEMMA InsertPlace ==
  ASSUME lookup \in Seq(Range(lookup)), NEW e
  PROVE  \E k \in 1 .. Len(lookup) + 1 : Placed(Insert(e), e, k)
<1> DEFINE kept == {i \in DOMAIN lookup :
                      CompareIntervals(e.interval, lookup[i].interval) >= 0}
           m == Max(kept \cup {0})
           k == m + 1
           s == Insert(e)
<1>1. DOMAIN lookup = 1 .. Len(lookup) /\ Len(lookup) \in Nat
  OBVIOUS
<1>2. m \in kept \cup {0} /\ \A j \in kept \cup {0} : j <= m
  <2>1. kept \cup {0} \subseteq 0 .. Len(lookup) /\ kept \cup {0} # {}
    BY <1>1
  <2> DEFINE K == kept \cup {0}
  <2> HIDE DEF K
  <2>2. Max(K) \in K /\ \A j \in K : j <= Max(K)
    BY <1>1, <2>1, MaxNat DEF K
  <2> QED BY <2>2 DEF K
<1>3. s = InsertAt(lookup, k, e)
  BY DEF Insert
<1> HIDE DEF m
<1>4. k \in 1 .. Len(lookup) + 1 /\ m \in 0 .. Len(lookup)
  BY <1>1, <1>2
<1>5. /\ k > 1 => CompareIntervals(e.interval, lookup[k - 1].interval) >= 0
      /\ \A i \in DOMAIN lookup :
            i >= k => ~(CompareIntervals(e.interval, lookup[i].interval) >= 0)
  <2>1. k > 1 => m \in kept
    BY <1>2, <1>4
  <2>2. k - 1 = m
    BY <1>4
  <2>3. ASSUME NEW i \in DOMAIN lookup, i >= k PROVE i \notin kept
    BY <1>1, <1>2, <1>4, <2>3
  <2> QED BY <2>1, <2>2, <2>3
<1> DEFINE S == Range(lookup) \cup {e}
<1>6. lookup \in Seq(S) /\ e \in S
  BY <1>1 DEF Range
<1>7. /\ s \in Seq(S) /\ Len(s) = Len(lookup) + 1
      /\ \A i \in 1 .. Len(lookup) + 1 :
            s[i] = IF i < k THEN lookup[i] ELSE IF i = k THEN e ELSE lookup[i - 1]
  <2> HIDE DEF S, k, s
  <2>1. k \in 1 .. Len(lookup) + 1
    BY <1>4
  <2>2. /\ InsertAt(lookup, k, e) \in Seq(S) /\ Len(InsertAt(lookup, k, e)) = Len(lookup) + 1
        /\ \A i \in 1 .. Len(lookup) + 1 :
              InsertAt(lookup, k, e)[i] =
                 IF i < k THEN lookup[i] ELSE IF i = k THEN e ELSE lookup[i - 1]
    <3>1. ASSUME NEW T, NEW t \in Seq(T), NEW f \in T, NEW n \in 1 .. Len(t) + 1
          PROVE  /\ InsertAt(t, n, f) \in Seq(T)
                 /\ Len(InsertAt(t, n, f)) = Len(t) + 1
                 /\ \A i \in 1 .. Len(t) + 1 :
                       InsertAt(t, n, f)[i] = IF i < n THEN t[i] ELSE IF i = n THEN f ELSE t[i - 1]
      BY InsertAtElements
    <3> QED BY <1>6, <2>1, <3>1
  <2> QED BY <1>3, <2>2, Zenon
<1> HIDE DEF s, k
<1>8. DOMAIN s = 1 .. Len(lookup) + 1
  BY <1>7
<1>9. s[k] = e
  BY <1>4, <1>7
<1>10. \A i \in DOMAIN lookup : /\ i < k => s[i] = lookup[i]
                                /\ ~(i < k) => s[i + 1] = lookup[i]
  <2> SUFFICES ASSUME NEW i \in DOMAIN lookup
               PROVE  /\ i < k => s[i] = lookup[i]
                      /\ ~(i < k) => s[i + 1] = lookup[i]
    OBVIOUS
  <2>1. /\ i \in 1 .. Len(lookup) + 1 /\ i + 1 \in 1 .. Len(lookup) + 1 /\ i + 1 - 1 = i
        /\ ~(i < k) => ~(i + 1 < k) /\ i + 1 # k
    BY <1>1, <1>4
  <2> QED BY <1>7, <2>1
<1>11. Range(s) = S
  <2>1. \A x \in Range(lookup) : \E i \in DOMAIN lookup : x = lookup[i]
    BY DEF Range
  <2>2. \A i \in DOMAIN lookup : i \in DOMAIN s /\ i + 1 \in DOMAIN s
    BY <1>1, <1>8
  <2>3. S \subseteq Range(s)
    <3>1. e \in Range(s)
      BY <1>4, <1>8, <1>9 DEF Range
    <3>2. \A x \in Range(lookup) : x \in Range(s)
      BY <1>10, <2>1, <2>2 DEF Range
    <3> QED BY <3>1, <3>2
  <2>4. Range(s) \subseteq S
    <3>1. \A i \in DOMAIN s : s[i] \in S
      BY <1>7
    <3> HIDE DEF S
    <3> QED BY <3>1 DEF Range
  <2> QED BY <2>3, <2>4
<1>12. \A i \in DOMAIN s : /\ i < k => i \in DOMAIN lookup /\ s[i] = lookup[i]
                           /\ i > k => i - 1 \in DOMAIN lookup /\ s[i] = lookup[i - 1]
  <2> SUFFICES ASSUME NEW i \in DOMAIN s
               PROVE  /\ i < k => i \in DOMAIN lookup /\ s[i] = lookup[i]
                      /\ i > k => i - 1 \in DOMAIN lookup /\ s[i] = lookup[i - 1]
    OBVIOUS
  <2>1. i \in 1 .. Len(lookup) + 1
    BY <1>8
  <2>2. /\ i < k => i \in DOMAIN lookup
        /\ i > k => i - 1 \in DOMAIN lookup /\ ~(i < k) /\ i # k
    BY <1>1, <1>4, <2>1
  <2> QED BY <1>7, <2>1, <2>2
<1> QED BY <1>4, <1>5, <1>7, <1>8, <1>9, <1>10, <1>11, <1>12 DEF s, Placed

-----------------------------------------------------------------------------
(* Steps.                                                                  *)

\* The steps, as far as the invariant is concerned: nothing is added,
AddsNothing ==
    /\ world' = world /\ next' \in {next, next + 1}
    /\ lookup' = lookup /\ resolved' = resolved

\* an entry for a local package is added,
AddsLocal(e) ==
    /\ world' = world /\ next \in DOMAIN world.packages /\ next' = next + 1
    /\ IsLocal(e) /\ LocalShape(e.interval) /\ FindExact(e.interval) = {}
    /\ lookup' = Insert(e) /\ resolved' = resolved

\* or a dependency is resolved to an entry.
ResolvesTo(d, e) ==
    /\ world' = world /\ next' = next /\ next > Len(world.packages)
    /\ d \in Dependencies[world.asked]
    /\ validatedIntervals(dedupPackageVersionArray(d.requirements))
    /\ resolved' = Append(resolved, [dep |-> d, to |-> e, edge |-> NeedsEdge(d, e)])

\* It is the best entry, a local one,
UsesLocal(d, e) ==
    e \in FindBest(Request(d)) /\ IsLocal(e) /\ lookup' = lookup

\* or has the very interval asked for,
UsesKnown(d, e) ==
    ~BestIsLocal(Request(d)) /\ e \in FindExact(Request(d)) /\ lookup' = lookup

\* or is a new remote one.
UsesNew(d, e) ==
    /\ ~BestIsLocal(Request(d)) /\ FindExact(Request(d)) = {}
    /\ ~IsLocal(e) /\ e.interval = Request(d) /\ lookup' = Insert(e)

\* The table after the step is that.
PlacedAt(e, k) == Placed(lookup', e, k)

\* Where addToLookup puts a new entry.
LEMMA InsertStep ==
  ASSUME lookup \in Seq(Range(lookup)), NEW e, lookup' = Insert(e)
  PROVE  \E k \in 1 .. Len(lookup) + 1 : PlacedAt(e, k)
BY InsertPlace, Zenon DEF PlacedAt

\* The places of the other entries.
LEMMA PlaceNumbers ==
  ASSUME lookup \in Seq(Range(lookup)), NEW e, NEW k \in 1 .. Len(lookup) + 1, PlacedAt(e, k)
  PROVE  /\ DOMAIN lookup = 1 .. Len(lookup) /\ Len(lookup) \in Nat
         /\ DOMAIN lookup' \subseteq Nat /\ k \in Nat /\ k \in DOMAIN lookup'
         /\ DOMAIN lookup \subseteq Nat
         /\ \A i \in DOMAIN lookup : i \in DOMAIN lookup' /\ i + 1 \in DOMAIN lookup'
<1>1. DOMAIN lookup = 1 .. Len(lookup) /\ Len(lookup) \in Nat
  OBVIOUS
<1>2. DOMAIN lookup' = 1 .. Len(lookup) + 1
  BY DEF PlacedAt, Placed
<1> QED BY <1>1, <1>2

\* The intervals stay different.
LEMMA DistinctStep ==
  ASSUME LookupShape, NEW e, FindExact(e.interval) = {},
         NEW k \in 1 .. Len(lookup) + 1, PlacedAt(e, k),
         NEW i \in DOMAIN lookup', NEW j \in DOMAIN lookup',
         lookup'[i].interval = lookup'[j].interval
  PROVE  i = j
<1>1. \A m, n \in DOMAIN lookup : lookup[m].interval = lookup[n].interval => m = n
  BY DEF LookupShape
<1>2. DOMAIN lookup' \subseteq Nat /\ k \in Nat
  BY PlaceNumbers DEF LookupShape
<1>3. \A m \in DOMAIN lookup : lookup[m].interval # e.interval
  BY DEF FindExact, Range
<1>4. /\ i < k \/ i = k \/ i > k
      /\ j < k \/ j = k \/ j > k
  BY <1>2
<1>5. /\ i - 1 = j - 1 => i = j
      /\ i - 1 = j /\ i > k => ~(j < k)
      /\ j - 1 = i /\ j > k => ~(i < k)
  BY <1>2
<1> QED BY <1>1, <1>3, <1>4, <1>5 DEF PlacedAt, Placed

\* Every step of populateGraph is one of these.
LEMMA StepCases ==
  ASSUME LookupShape, [Next]_vars
  PROVE  \/ AddsNothing
         \/ \E e : AddsLocal(e)
         \/ \E d, e : ResolvesTo(d, e) /\ (UsesLocal(d, e) \/ UsesKnown(d, e) \/ UsesNew(d, e))
<1>0. lookup \in Seq(Range(lookup)) /\ world \in Worlds /\ next \in Nat
  BY DEF LookupShape
<1>1. CASE UNCHANGED vars
  BY <1>1 DEF vars, AddsNothing
<1>2. CASE AddNodesForPackage
  <2> DEFINE q == Interval(world.packages[next].provides)
  <2>1. /\ world' = world /\ resolved' = resolved /\ next' = next + 1
        /\ next \in DOMAIN world.packages
    BY <1>2 DEF AddNodesForPackage
  <2>2. CASE lookup' = lookup
    BY <2>1, <2>2 DEF AddsNothing
  <2>3. CASE FindExact(q) = {} /\ ValidLocal(q) /\ lookup' = Insert(Entry(q, next))
    <3>1. LocalShape(q)
      BY <1>0, <2>1, <2>3, ProvidedShape
    <3>2. next # 0
      <4>1. world.packages \in Seq([provides : PackageVers, rpm : Nat])
        BY <1>0, InputAssumption
      <4>2. ASSUME NEW T, NEW s \in Seq(T), NEW i \in DOMAIN s PROVE i # 0
        OBVIOUS
      <4> QED BY <2>1, <4>1, <4>2, Zenon
    <3> DEFINE e == Entry(q, next)
    <3>3. IsLocal(e) /\ e.interval = q
      BY <3>2 DEF Entry, IsLocal, Remote
    <3>4. lookup' = Insert(e)
      BY <2>3
    <3> HIDE DEF e, q
    <3>5. AddsLocal(e)
      BY <2>1, <2>3, <3>1, <3>3, <3>4 DEF AddsLocal
    <3> QED BY <3>5
  <2> QED BY <1>2, <2>2, <2>3 DEF AddNodesForPackage
<1>3. ASSUME NEW d \in Dependencies[world.asked], AddSingleDependency(d)
      PROVE  \/ AddsNothing
             \/ \E e : ResolvesTo(d, e) /\ (UsesLocal(d, e) \/ UsesKnown(d, e) \/ UsesNew(d, e))
  <2> DEFINE p == dedupPackageVersionArray(d.requirements)
             q == Request(d)
  <2>1. world' = world /\ next' = next /\ next > Len(world.packages)
    BY <1>3 DEF AddSingleDependency, NextDependency
  <2>2. (\E e \in FindBest(q) : IsLocal(e)) <=> BestIsLocal(q)
    BY <1>0, FindBestLast
  <2>3. ASSUME NEW e, validatedIntervals(p), Resolve(d, e) PROVE ResolvesTo(d, e)
    BY <2>1, <2>3 DEF Resolve, ResolvesTo
  <2>4. CASE ~validatedIntervals(p) /\ err' = TRUE /\ UNCHANGED <<lookup, resolved>>
    BY <2>1, <2>4 DEF AddsNothing
  <2>5. CASE validatedIntervals(p) /\ UseLocal(d, q)
    <3>1. PICK e \in FindBest(q) : IsLocal(e) /\ Resolve(d, e) /\ lookup' = lookup
      BY <2>5 DEF UseLocal
    <3> QED BY <2>3, <2>5, <3>1 DEF UsesLocal
  <2>6. CASE validatedIntervals(p) /\ UseExact(d, q)
    <3>1. ~BestIsLocal(q)
      BY <2>2, <2>6 DEF UseExact
    <3>2. CASE FindExact(q) # {}
      <4>1. PICK e \in FindExact(q) : Resolve(d, e) /\ lookup' = lookup
        BY <2>6, <3>2 DEF UseExact
      <4> QED BY <2>3, <2>6, <3>1, <4>1 DEF UsesKnown
    <3>3. CASE FindExact(q) = {} /\ world.strict
      <4>1. lookup' = lookup /\ resolved' = resolved
        BY <2>6, <3>3 DEF UseExact
      <4> QED BY <2>1, <4>1 DEF AddsNothing
    <3>4. CASE FindExact(q) = {} /\ ~world.strict
      <4> DEFINE e == Entry(q, Remote)
      <4>1. Resolve(d, e) /\ lookup' = Insert(e)
        BY <2>6, <3>4 DEF UseExact
      <4>2. ~IsLocal(e) /\ e.interval = q
        BY DEF Entry, IsLocal
      <4> HIDE DEF e
      <4>3. UsesNew(d, e)
        BY <3>1, <3>4, <4>1, <4>2 DEF UsesNew
      <4> QED BY <2>3, <2>6, <4>1, <4>3
    <3> QED BY <3>2, <3>3, <3>4
  <2> QED BY <1>3, <2>4, <2>5, <2>6 DEF AddSingleDependency
<1> QED BY <1>1, <1>2, <1>3 DEF Next

\* The invariant says nothing of err, and of next only that it is far enough.
LEMMA NothingStep ==
  ASSUME GrapherInv, AddsNothing
  PROVE  GrapherInv'
<1> USE DEF AddsNothing, GrapherInv
<1>1. LookupShape'
  BY DEF LookupShape
<1>2. ResolvedShape'
  <2>1. next \in Nat
    BY DEF LookupShape
  <2>2. Len(world.packages) \in Nat
    <3>1. world.packages \in Seq([provides : PackageVers, rpm : Nat])
      BY InputAssumption DEF LookupShape
    <3>2. ASSUME NEW T, NEW s \in Seq(T) PROVE Len(s) \in Nat
      OBVIOUS
    <3> QED BY <3>1, <3>2, Zenon
  <2>3. next > Len(world.packages) => next' > Len(world.packages)
    BY <2>1, <2>2
  <2>4. ResolvedShape
    OBVIOUS
  <2> QED BY <2>3, <2>4 DEF ResolvedShape
<1>3. Comparable' <=> Comparable
  BY DEF Comparable, Locals
<1>4. RemoteStays'
  BY DEF RemoteStays, BestIsLocal
<1>5. LocalsSorted' /\ OpenEndedLast' /\ RemoteBehindIsHigher'
  BY <1>3 DEF LocalsSorted, OpenEndedLast, RemoteBehindIsHigher
<1>6. HighestLocal'
  BY <1>3 DEF HighestLocal, Locals
<1>7. RemoteOnlyIfAskedFor'
  BY <1>3 DEF RemoteOnlyIfAskedFor, RemoteSatisfies, SatisfiedByRemote, Locals
<1>8. RemoteForGood'
  BY DEF RemoteForGood
<1> QED BY <1>1, <1>2, <1>4, <1>5, <1>6, <1>7, <1>8

-----------------------------------------------------------------------------
(* A local package is added.                                               *)

\* The versions of local packages are ordered if they can be compared.
LEMMA LocalOrder ==
  ASSUME NEW a \in Texts \cup {MinVer}, NEW b \in Texts \cup {MinVer},
         NEW c \in Texts \cup {MinVer},
         a # MinVer /\ b # MinVer => (a.rel = <<>> <=> b.rel = <<>>),
         Compare(a, b) <= 0, Compare(b, c) <= 0
  PROVE  Compare(a, c) <= 0
<1>1. a \in Versions /\ b \in Versions /\ c \in Versions
  BY CompareFacts
<1>2. CASE a = MinVer
  <2>1. Compare(MinVer, c) <= 0
    BY <1>1, CompareFacts
  <2> QED BY <1>2, <2>1
<1>3. CASE a # MinVer
  <2>1. a \in Texts
    BY <1>3
  <2>2. b # MinVer
    <3>1. Compare(a, MinVer) = 1
      BY <2>1, CompareFacts
    <3> QED BY <3>1
  <2>3. Bare(b) => Bare(a)
    BY <1>3, <2>1, <2>2 DEF Bare, Texts
  <2> QED BY <1>1, <2>3, CompareTransitive
<1> QED BY <1>2, <1>3

\* The lower bound of a local entry.
LEMMA LocalLow ==
  ASSUME NEW i, LocalShape(i)
  PROVE  i.low \in Texts \cup {MinVer} /\ i.low \in Versions /\ i.lowIn
BY IntervalFields, CompareFacts DEF LocalShape

\* addNodesForPackage keeps the invariant: there are no remote entries yet, and
\* the local ones stay in order.
LEMMA LocalStep ==
  ASSUME GrapherInv, NEW e, AddsLocal(e)
  PROVE  GrapherInv'
<1>0. /\ world \in Worlds /\ next \in Nat /\ next \in DOMAIN world.packages
      /\ lookup \in Seq(Range(lookup))
  BY DEF GrapherInv, LookupShape, AddsLocal
<1>1. Len(world.packages) \in Nat /\ next \in 1 .. Len(world.packages)
  <2>1. world.packages \in Seq([provides : PackageVers, rpm : Nat])
    BY <1>0, InputAssumption
  <2>2. ASSUME NEW T, NEW s \in Seq(T) PROVE Len(s) \in Nat /\ DOMAIN s = 1 .. Len(s)
    OBVIOUS
  <2>3. Len(world.packages) \in Nat /\ DOMAIN world.packages = 1 .. Len(world.packages)
    BY <2>1, <2>2, Zenon
  <2> QED BY <1>0, <2>3
<1>2. resolved = <<>> /\ resolved' = <<>> /\ DOMAIN resolved = {}
  <2>1. ~(next > Len(world.packages))
    BY <1>1
  <2>2. resolved = <<>>
    BY <2>1 DEF GrapherInv, ResolvedShape
  <2> QED BY <2>2 DEF AddsLocal
<1>3. \A i \in DOMAIN lookup : IsLocal(lookup[i]) /\ LocalShape(lookup[i].interval)
  BY <1>2 DEF GrapherInv, LookupShape
<1>4. IsLocal(e) /\ LocalShape(e.interval) /\ lookup' = Insert(e)
  BY DEF AddsLocal
<1>5. PICK k \in 1 .. Len(lookup) + 1 : PlacedAt(e, k)
  BY <1>0, <1>4, InsertStep
<1>a. DOMAIN lookup = 1 .. Len(lookup) /\ Len(lookup) \in Nat
  BY <1>0
<1>b. DOMAIN lookup' \subseteq Nat /\ k \in Nat /\ k \in DOMAIN lookup'
  BY <1>0, <1>5, PlaceNumbers
<1>c. lookup' \in Seq(Range(lookup')) /\ Range(lookup') = Range(lookup) \cup {e}
  BY <1>5 DEF PlacedAt, Placed
<1>d. lookup'[k] = e
  BY <1>5 DEF PlacedAt, Placed
<1>e. \A i \in DOMAIN lookup' :
         /\ i < k => i \in DOMAIN lookup /\ lookup'[i] = lookup[i]
         /\ i > k => i - 1 \in DOMAIN lookup /\ lookup'[i] = lookup[i - 1]
  BY <1>5 DEF PlacedAt, Placed
<1>6. \A i \in DOMAIN lookup' : IsLocal(lookup'[i]) /\ LocalShape(lookup'[i].interval)
  <2> SUFFICES ASSUME NEW i \in DOMAIN lookup'
               PROVE  IsLocal(lookup'[i]) /\ LocalShape(lookup'[i].interval)
    OBVIOUS
  <2>1. i < k \/ i = k \/ i > k
    BY <1>b
  <2> QED BY <1>3, <1>4, <1>d, <1>e, <2>1
<1>8. \A i, j \in DOMAIN lookup' : lookup'[i].interval = lookup'[j].interval => i = j
  BY <1>5, DistinctStep DEF AddsLocal, GrapherInv
<1>9. LookupShape'
  <2>1. world' \in Worlds /\ next' \in Nat /\ resolved' \in Seq(Range(resolved'))
    BY <1>0, <1>2 DEF AddsLocal
  <2> QED BY <1>c, <1>6, <1>8, <2>1 DEF LookupShape
<1>10. ResolvedShape' /\ RemoteStays' /\ HighestLocal' /\ RemoteOnlyIfAskedFor' /\ RemoteForGood'
  <2>1. DOMAIN resolved' = {}
    BY <1>2
  <2>2. ResolvedShape'
    BY <1>2, <2>1 DEF ResolvedShape
  <2>3. RemoteStays' /\ HighestLocal' /\ RemoteForGood'
    BY <2>1 DEF RemoteStays, HighestLocal, RemoteForGood
  <2>4. RemoteOnlyIfAskedFor'
    BY <2>1 DEF RemoteOnlyIfAskedFor, RemoteSatisfies
  <2> QED BY <2>2, <2>3, <2>4
<1>11. OpenEndedLast' /\ RemoteBehindIsHigher'
  BY <1>6 DEF OpenEndedLast, RemoteBehindIsHigher
<1>12. LocalsSorted'
  <2> SUFFICES ASSUME Comparable', NEW i \in DOMAIN lookup', NEW j \in DOMAIN lookup', i < j
               PROVE  Compare(lookup'[i].interval.low, lookup'[j].interval.low) <= 0
    BY DEF LocalsSorted
  <2>1. Comparable
    BY <1>c DEF Comparable, Locals
  <2>2. \A m, n \in DOMAIN lookup :
           m < n => Compare(lookup[m].interval.low, lookup[n].interval.low) <= 0
    BY <1>3, <2>1 DEF GrapherInv, LocalsSorted
  <2>3. \A m \in DOMAIN lookup :
           /\ lookup[m].interval.low \in Texts \cup {MinVer}
           /\ lookup[m].interval.low \in Versions
    BY <1>3, LocalLow
  <2>4. e.interval.low \in Texts \cup {MinVer} /\ e.interval.low \in Versions
    BY <1>4, LocalLow
  <2>5. CASE j < k
    BY <1>e, <1>b, <2>2, <2>5
  <2>6. CASE i > k
    <3>1. i - 1 < j - 1 /\ j > k
      BY <1>b, <2>6
    <3> QED BY <1>e, <2>2, <2>6, <3>1
  <2>7. CASE i < k /\ k < j
    <3>1. i < j - 1 \/ i = j - 1
      BY <1>b, <2>7
    <3>2. i < j - 1
      BY <1>b, <2>7
    <3> QED BY <1>e, <2>2, <2>7, <3>2
  <2>8. CASE i = k
    <3>1. j > k /\ j - 1 >= k
      BY <1>b, <2>8
    <3>2. j - 1 \in DOMAIN lookup /\ lookup'[j] = lookup[j - 1]
      BY <1>e, <3>1
    <3>3. ~(CompareIntervals(e.interval, lookup[j - 1].interval) >= 0)
      BY <1>5, <3>1, <3>2 DEF PlacedAt, Placed
    <3>4. Compare(e.interval.low, lookup[j - 1].interval.low) <= 0
      BY <2>3, <2>4, <3>2, <3>3, EntryOrder
    <3> QED BY <1>d, <2>8, <3>2, <3>4
  <2>9. CASE j = k
    <3>1. k > 1 /\ k - 1 \in DOMAIN lookup /\ i \in DOMAIN lookup /\ (i < k - 1 \/ i = k - 1)
      BY <1>e, <1>a, <1>b, <2>9
    <3>a. CompareIntervals(e.interval, lookup[k - 1].interval) >= 0
      BY <1>5, <3>1 DEF PlacedAt, Placed
    <3>2. Compare(lookup[k - 1].interval.low, e.interval.low) <= 0
      BY <2>3, <2>4, <3>1, <3>a, EntryOrder
    <3>3. i < k - 1 => Compare(lookup[i].interval.low, e.interval.low) <= 0
      <4> SUFFICES ASSUME i < k - 1
                   PROVE  Compare(lookup[i].interval.low, e.interval.low) <= 0
        OBVIOUS
      <4>1. Compare(lookup[i].interval.low, lookup[k - 1].interval.low) <= 0
        BY <2>2, <3>1
      <4>2. /\ lookup[i] \in Locals /\ lookup[k - 1] \in Locals
        BY <1>3, <3>1 DEF Locals, Range
      <4>3. lookup[i].interval.low # MinVer /\ lookup[k - 1].interval.low # MinVer =>
               (lookup[i].interval.low.rel = <<>> <=> lookup[k - 1].interval.low.rel = <<>>)
        BY <2>1, <4>2 DEF Comparable
      <4> QED BY <2>3, <2>4, <3>1, <3>2, <4>1, <4>3, LocalOrder
    <3>4. lookup'[i] = lookup[i] /\ lookup'[j] = e
      BY <1>d, <1>e, <2>9
    <3> QED BY <3>1, <3>2, <3>3, <3>4
  <2>10. i < k \/ i = k \/ i > k
    BY <1>b
  <2>11. j < k \/ j = k \/ j > k
    BY <1>b
  <2> QED BY <2>5, <2>6, <2>7, <2>8, <2>9, <2>10, <2>11
<1> QED BY <1>9, <1>10, <1>11, <1>12 DEF GrapherInv

-----------------------------------------------------------------------------
(* A dependency is resolved.                                               *)

\* What is below an entry without an upper bound is less than all entries from
\* that one on.
LEMMA BelowOpenEnded ==
  ASSUME NEW v \in Texts, NEW t, LocalShape(t), Compare(v, t.low) <= 0,
         t.low # MinVer => (v.rel = <<>> <=> t.low.rel = <<>>),
         NEW q, IsRequest(q), Compare(q.high, v) < 0 \/ Compare(q.low, v) < 0
  PROVE  ~(CompareIntervals(q, t) >= 0)
<1>1. t.low \in Texts /\ t.low \in Versions /\ v \in Versions /\ t.lowIn
  <2>1. t.low # MinVer
    <3>1. Compare(v, MinVer) = 1
      BY CompareFacts
    <3> QED BY <3>1
  <2> QED BY <2>1, LocalLow, CompareFacts
<1>2. Bare(t.low) <=> Bare(v)
  BY <1>1, CompareFacts DEF Bare, Texts
<1>3. /\ q.low \in Versions /\ q.high \in Versions /\ Compare(q.low, q.high) <= 0
      /\ Compare(q.low, q.high) = 0 => q.lowIn
  BY DEF IsRequest, Proper
<1>a. /\ Compare(q.low, v) \in {-1, 0, 1} /\ Compare(q.high, v) \in {-1, 0, 1}
      /\ Compare(q.low, t.low) \in {-1, 0, 1} /\ Compare(q.high, t.low) \in {-1, 0, 1}
      /\ Compare(v, t.low) \in {-1, 0, 1} /\ Compare(q.low, q.high) \in {-1, 0, 1}
  BY <1>1, <1>3, CompareFacts
<1>b. Compare(q.low, t.low) < 0 => ~(CompareIntervals(q, t) >= 0)
  <2>1. Compare(q.low, t.low) # 0 => CompareIntervals(q, t) = Compare(q.low, t.low)
    BY CompareIntervalsLow
  <2> QED BY <1>a, <2>1
<1>4. CASE Compare(q.low, v) < 0
  <2>1. Compare(q.low, t.low) < 0
    BY <1>1, <1>2, <1>3, <1>4, <1>a, CompareTransitive
  <2> QED BY <1>b, <2>1
<1>5. CASE Compare(q.high, v) < 0
  <2>1. Compare(q.high, t.low) < 0
    BY <1>1, <1>2, <1>3, <1>5, <1>a, CompareTransitive
  <2>2. Compare(q.low, t.low) <= 0
    BY <1>1, <1>3, <1>a, <2>1, CompareTransitive
  <2>3. CASE Compare(q.low, t.low) < 0
    BY <1>b, <2>3
  <2>4. CASE Compare(q.low, t.low) = 0
    <3>1. Compare(q.low, q.high) = 0
      <4>1. Compare(q.low, q.high) < 0 => Compare(q.low, t.low) < 0
        BY <1>1, <1>3, <1>a, <2>1, CompareTransitive
      <4>2. Compare(q.low, q.high) \in {-1, 0, 1}
        BY <1>3, CompareFacts
      <4> QED BY <1>3, <2>4, <4>1, <4>2
    <3>2. q.lowIn
      BY <1>3, <3>1
    <3>3. CASE q.lowIn # t.lowIn
      <4>1. CompareIntervals(q, t) = -1
        BY <2>4, <3>2, <3>3, CompareIntervalsLow
      <4> QED BY <4>1
    <3>4. CASE q.lowIn = t.lowIn
      <4>1. Compare(q.high, t.high) < 0
        <5>1. t.high \in {t.low, MaxVer}
          BY <1>1, IntervalFields DEF LocalShape
        <5>2. CASE t.high = t.low
          BY <2>1, <5>2
        <5>3. CASE t.high = MaxVer
          <6>1. q.high # MaxVer
            <7>1. Compare(MaxVer, t.low) = 1
              BY <1>1, CompareFacts
            <7> QED BY <2>1, <7>1
          <6>2. q.high \in Texts
            BY <6>1 DEF IsRequest
          <6>3. Compare(q.high, MaxVer) = -1
            BY <6>2, CompareFacts
          <6> QED BY <5>3, <6>3
        <5> QED BY <5>1, <5>2, <5>3
      <4>2. CompareIntervals(q, t) = Compare(q.high, t.high)
        BY <2>4, <3>4, <4>1, CompareIntervalsLow
      <4>3. Compare(q.high, t.high) \in {-1, 0, 1}
        <5>1. t.high \in Versions
          BY <1>1, IntervalFields, CompareFacts DEF LocalShape
        <5> QED BY <1>3, <5>1, CompareFacts
      <4> QED BY <4>1, <4>2, <4>3
    <3> QED BY <3>3, <3>4
  <2>5. Compare(q.low, t.low) \in {-1, 0, 1}
    BY <1>1, <1>3, CompareFacts
  <2> QED BY <2>2, <2>3, <2>4, <2>5
<1> QED BY <1>4, <1>5

\* A request that is no less than one version, which does not satisfy it, is no
\* less than all local entries up to that one.
LEMMA AboveExact ==
  ASSUME NEW t, LocalShape(t), t.high = t.low, NEW q, IsRequest(q),
         CompareIntervals(q, t) >= 0, ~Satisfies(t, q),
         NEW s, LocalShape(s), Compare(s.low, t.low) <= 0,
         s.low # MinVer => (s.low.rel = <<>> <=> t.low.rel = <<>>)
  PROVE  CompareIntervals(q, s) >= 0
<1>1. t.low \in Texts /\ t.low \in Versions /\ t.lowIn /\ t.highIn
  <2>1. t # AnyVersion
    <3>1. AnyVersion.low = MinVer /\ AnyVersion.high = MaxVer
      BY IntervalFields
    <3>2. Compare(MinVer, MaxVer) = -1 /\ Compare(MinVer, MinVer) = 0
      BY BoundVersions
    <3> QED BY <3>1, <3>2
  <2> QED BY <2>1, CompareFacts DEF LocalShape
<1>2. /\ q.low \in Versions /\ q.high \in Versions
  BY DEF IsRequest, Proper
<1>3. s.low \in Texts \cup {MinVer} /\ s.low \in Versions /\ s.lowIn
  BY LocalLow
<1>4. Compare(t.low, q.low) <= 0
  BY <1>1, <1>2, EntryOrder
<1>5. Compare(t.low, q.low) = 0 => ~q.lowIn
  <2> SUFFICES ASSUME Compare(t.low, q.low) = 0, q.lowIn PROVE FALSE
    OBVIOUS
  <2>1. Compare(q.low, t.low) = 0
    BY <1>1, <1>2, CompareFacts
  <2>2. q.lowIn = t.lowIn
    <3>1. ASSUME q.lowIn # t.lowIn PROVE FALSE
      <4>1. CompareIntervals(q, t) = -1
        BY <2>1, <3>1, CompareIntervalsLow
      <4> QED BY <4>1
    <3> QED BY <3>1
  <2>3. ~(Compare(q.high, t.low) = -1)
    <3>1. Compare(q.high, t.low) = -1 => CompareIntervals(q, t) = -1
      BY <2>1, <2>2, CompareIntervalsLow
    <3> QED BY <3>1
  <2>4. Compare(t.low, q.high) <= 0
    BY <1>1, <1>2, <2>3, CompareFacts
  <2>5. Satisfies(t, q)
    BY <1>1, <2>1, <2>4 DEF Satisfies
  <2> QED BY <2>5
<1>6. Compare(s.low, q.low) <= 0 /\ (Compare(t.low, q.low) < 0 => Compare(s.low, q.low) < 0)
  <2>1. CASE s.low = MinVer
    <3>1. q.low # MinVer
      <4>1. Compare(t.low, MinVer) = 1
        BY <1>1, CompareFacts
      <4> QED BY <1>4, <4>1
    <3>2. Compare(MinVer, q.low) = -1
      BY <1>2, <3>1, CompareFacts DEF IsRequest
    <3> QED BY <2>1, <3>2
  <2>2. CASE s.low # MinVer
    <3>1. Bare(s.low) <=> Bare(t.low)
      BY <1>1, <1>3, <2>2 DEF Bare, Texts
    <3> QED BY <1>1, <1>2, <1>3, <1>4, <3>1, CompareTransitive
  <2> QED BY <2>1, <2>2
<1>7. /\ Compare(t.low, q.low) \in {-1, 0, 1} /\ Compare(s.low, q.low) \in {-1, 0, 1}
      /\ Compare(s.low, q.low) = -1 <=> Compare(q.low, s.low) = 1
      /\ Compare(s.low, q.low) = 0 <=> Compare(q.low, s.low) = 0
  BY <1>1, <1>2, <1>3, CompareFacts
<1>8. CASE Compare(s.low, q.low) = -1
  <2>1. Compare(q.low, s.low) = 1
    BY <1>7, <1>8
  <2> QED BY <2>1, CompareIntervalsLow
<1>9. CASE Compare(s.low, q.low) = 0
  <2>1. Compare(q.low, s.low) = 0 /\ ~q.lowIn
    BY <1>4, <1>5, <1>6, <1>7, <1>9
  <2>2. CompareIntervals(q, s) = 1
    BY <1>3, <2>1, CompareIntervalsLow
  <2> QED BY <2>2
<1> QED BY <1>6, <1>7, <1>8, <1>9

\* Two local entries of which the versions can be compared.
LEMMA ComparableEntries ==
  ASSUME LookupShape, LocalsSorted, Comparable,
         NEW i \in DOMAIN lookup, NEW j \in DOMAIN lookup, i <= j,
         IsLocal(lookup[i]), IsLocal(lookup[j])
  PROVE  LET a == lookup[i].interval.low
             b == lookup[j].interval.low
         IN  /\ Compare(a, b) <= 0
             /\ a # MinVer /\ b # MinVer => (a.rel = <<>> <=> b.rel = <<>>)
<1>1. lookup[i] \in Locals /\ lookup[j] \in Locals
  BY DEF Locals, Range
<1>2. i < j \/ i = j
  <2>1. DOMAIN lookup \subseteq Nat
    BY DEF LookupShape
  <2> QED BY <2>1
<1>3. i = j => Compare(lookup[i].interval.low, lookup[j].interval.low) = 0
  BY LocalLow, CompareFacts DEF LookupShape
<1>4. Compare(lookup[i].interval.low, lookup[j].interval.low) <= 0
  BY <1>2, <1>3 DEF LocalsSorted
<1> QED BY <1>1, <1>4 DEF Comparable

\* A new remote entry makes no local one the best.
LEMMA BestStep ==
  ASSUME lookup \in Seq(Range(lookup)), NEW e, ~IsLocal(e),
         NEW k \in 1 .. Len(lookup) + 1, PlacedAt(e, k), NEW q, BestIsLocal(q)'
  PROVE  BestIsLocal(q)
<1>1. PICK i \in DOMAIN lookup' :
         /\ IsLocal(lookup'[i]) /\ Satisfies(lookup'[i].interval, q)
         /\ \A j \in DOMAIN lookup' : Satisfies(lookup'[j].interval, q) => j <= i
  BY DEF BestIsLocal
<1>2. /\ DOMAIN lookup' \subseteq Nat /\ k \in Nat /\ DOMAIN lookup \subseteq Nat
      /\ \A j \in DOMAIN lookup : j \in DOMAIN lookup' /\ j + 1 \in DOMAIN lookup'
  BY PlaceNumbers
<1>3. /\ lookup'[k] = e
      /\ \A j \in DOMAIN lookup : /\ j < k => lookup'[j] = lookup[j]
                                  /\ ~(j < k) => lookup'[j + 1] = lookup[j]
      /\ i < k => i \in DOMAIN lookup /\ lookup'[i] = lookup[i]
      /\ i > k => i - 1 \in DOMAIN lookup /\ lookup'[i] = lookup[i - 1]
  BY DEF PlacedAt, Placed
<1>4. i # k
  BY <1>1, <1>3
<1>5. CASE i < k
  <2>1. i \in DOMAIN lookup /\ IsLocal(lookup[i]) /\ Satisfies(lookup[i].interval, q)
    BY <1>1, <1>3, <1>5
  <2>2. ASSUME NEW j \in DOMAIN lookup, Satisfies(lookup[j].interval, q) PROVE j <= i
    <3>1. j < k => j <= i
      BY <1>1, <1>2, <1>3, <2>2
    <3>2. ~(j < k) => j + 1 <= i
      BY <1>1, <1>2, <1>3, <2>2
    <3> QED BY <1>2, <3>1, <3>2
  <2> QED BY <2>1, <2>2 DEF BestIsLocal
<1>6. CASE i > k
  <2>1. i - 1 \in DOMAIN lookup /\ IsLocal(lookup[i - 1]) /\ Satisfies(lookup[i - 1].interval, q)
    BY <1>1, <1>3, <1>6
  <2>2. ASSUME NEW j \in DOMAIN lookup, Satisfies(lookup[j].interval, q) PROVE j <= i - 1
    <3>1. j < k => j <= i - 1
      BY <1>2, <1>6
    <3>2. ~(j < k) => j + 1 <= i
      BY <1>1, <1>2, <1>3, <2>2
    <3> QED BY <1>2, <3>1, <3>2
  <2> QED BY <2>1, <2>2 DEF BestIsLocal
<1> QED BY <1>2, <1>4, <1>5, <1>6

\* The local entries stay the same.
LEMMA LocalsStep ==
  ASSUME NEW e, ~IsLocal(e), NEW k, PlacedAt(e, k)
  PROVE  Locals' = Locals /\ (Comparable' <=> Comparable)
<1>1. Locals' = Locals
  BY DEF PlacedAt, Placed, Locals
<1> QED BY <1>1 DEF Comparable

\* Their order stays the same.
LEMMA SortedStep ==
  ASSUME LookupShape, LocalsSorted, NEW e, ~IsLocal(e),
         NEW k \in 1 .. Len(lookup) + 1, PlacedAt(e, k)
  PROVE  LocalsSorted'
<1> SUFFICES ASSUME Comparable', NEW i \in DOMAIN lookup', NEW j \in DOMAIN lookup', i < j,
                    IsLocal(lookup'[i]), IsLocal(lookup'[j])
             PROVE  Compare(lookup'[i].interval.low, lookup'[j].interval.low) <= 0
  BY DEF LocalsSorted
<1>1. Comparable
  BY LocalsStep
<1>2. \A m, n \in DOMAIN lookup :
         m < n /\ IsLocal(lookup[m]) /\ IsLocal(lookup[n]) =>
            Compare(lookup[m].interval.low, lookup[n].interval.low) <= 0
  BY <1>1 DEF LocalsSorted
<1>3. DOMAIN lookup' \subseteq Nat /\ k \in Nat /\ DOMAIN lookup \subseteq Nat
  BY PlaceNumbers DEF LookupShape
<1>4. /\ lookup'[k] = e
      /\ \A m \in DOMAIN lookup' :
            /\ m < k => m \in DOMAIN lookup /\ lookup'[m] = lookup[m]
            /\ m > k => m - 1 \in DOMAIN lookup /\ lookup'[m] = lookup[m - 1]
  BY DEF PlacedAt, Placed
<1>5. i # k /\ j # k
  BY <1>4
<1>6. CASE j < k
  <2>1. i < k
    BY <1>3, <1>6
  <2> QED BY <1>2, <1>4, <1>6, <2>1
<1>7. CASE i > k
  <2>1. j > k /\ i - 1 < j - 1
    BY <1>3, <1>7
  <2> QED BY <1>2, <1>4, <1>7, <2>1
<1>8. CASE i < k /\ j > k
  <2>1. i < j - 1
    BY <1>3, <1>8
  <2> QED BY <1>2, <1>4, <1>8, <2>1
<1> QED BY <1>3, <1>5, <1>6, <1>7, <1>8

\* A remote entry is added only for what no entry without an upper bound
\* satisfies, and then before that one.
LEMMA OpenEndedStep ==
  ASSUME LookupShape, LocalsSorted, OpenEndedLast, NEW e, ~IsLocal(e),
         IsRequest(e.interval), ~BestIsLocal(e.interval),
         NEW k \in 1 .. Len(lookup) + 1, PlacedAt(e, k)
  PROVE  OpenEndedLast'
<1> SUFFICES ASSUME Comparable', NEW i \in DOMAIN lookup', NEW j \in DOMAIN lookup',
                    IsLocal(lookup'[i]), lookup'[i].interval.high = MaxVer,
                    ~IsLocal(lookup'[j])
             PROVE  j < i
  BY DEF OpenEndedLast
<1>1. Comparable
  BY LocalsStep
<1>2. \A m, n \in DOMAIN lookup :
         /\ IsLocal(lookup[m]) /\ lookup[m].interval.high = MaxVer
         /\ ~IsLocal(lookup[n])
         => n < m
  BY <1>1 DEF OpenEndedLast
<1>3. /\ DOMAIN lookup' \subseteq Nat /\ k \in Nat
      /\ DOMAIN lookup = 1 .. Len(lookup) /\ Len(lookup) \in Nat
  BY PlaceNumbers DEF LookupShape
<1>4. /\ lookup'[k] = e
      /\ \A m \in DOMAIN lookup' :
            /\ m < k => m \in DOMAIN lookup /\ lookup'[m] = lookup[m]
            /\ m > k => m - 1 \in DOMAIN lookup /\ lookup'[m] = lookup[m - 1]
  BY DEF PlacedAt, Placed
<1>5. i # k
  BY <1>4
<1>6. CASE j # k
  <2>1. CASE j < k
    <3>1. i < k => j < i
      BY <1>2, <1>4, <2>1
    <3> QED BY <1>3, <1>5, <2>1, <3>1
  <2>2. CASE j > k
    <3>1. i > k => j - 1 < i - 1
      BY <1>2, <1>4, <2>2
    <3>2. i < k => j - 1 < i
      BY <1>2, <1>4, <2>2
    <3> QED BY <1>3, <1>5, <2>2, <3>1, <3>2
  <2> QED BY <1>3, <1>6, <2>1, <2>2
<1>7. CASE j = k
  <2> SUFFICES ASSUME i < k PROVE FALSE
    BY <1>3, <1>5, <1>7
  <2>1. /\ i \in DOMAIN lookup /\ lookup'[i] = lookup[i]
        /\ IsLocal(lookup[i]) /\ lookup[i].interval.high = MaxVer
    BY <1>4
  <2> DEFINE l == lookup[i].interval
  <2>2. LocalShape(l)
    BY <2>1 DEF LookupShape
  <2>3. ~Satisfies(l, e.interval)
    <3> SUFFICES ASSUME Satisfies(l, e.interval) PROVE FALSE
      OBVIOUS
    <3>1. PICK m \in DOMAIN lookup : i <= m /\ ~IsLocal(lookup[m])
      BY <2>1, RemoteBehind DEF LookupShape
    <3>2. m < i
      BY <1>2, <2>1, <3>1
    <3> QED BY <1>3, <2>1, <3>1, <3>2
  <2>4. /\ l.low \in Texts
        /\ Compare(e.interval.high, l.low) < 0 \/ Compare(e.interval.low, l.low) < 0
    BY <2>1, <2>2, <2>3, OpenEndedSatisfies
  <2>5. k > 1 /\ k - 1 \in DOMAIN lookup /\ i <= k - 1
    BY <1>3, <2>1
  <2>6. CompareIntervals(e.interval, lookup[k - 1].interval) >= 0
    BY <2>5 DEF PlacedAt, Placed
  <2>7. IsLocal(lookup[k - 1])
    <3>1. ~IsLocal(lookup[k - 1]) => k - 1 < i
      BY <1>2, <2>1, <2>5
    <3> QED BY <1>3, <2>1, <2>5, <3>1
  <2> DEFINE t == lookup[k - 1].interval
  <2>8. LocalShape(t)
    BY <2>5, <2>7 DEF LookupShape
  <2>9. /\ Compare(l.low, t.low) <= 0
        /\ l.low # MinVer /\ t.low # MinVer => (l.low.rel = <<>> <=> t.low.rel = <<>>)
    BY <1>1, <2>1, <2>5, <2>7, ComparableEntries
  <2>10. l.low # MinVer
    BY <2>4 DEF Texts, MinVer, NoVersion, Text
  <2> HIDE DEF l, t
  <2>11. ~(CompareIntervals(e.interval, t) >= 0)
    BY <2>4, <2>8, <2>9, <2>10, BelowOpenEnded
  <2> QED BY <2>6, <2>11 DEF t
<1> QED BY <1>6, <1>7

\* A remote entry comes behind a local one only if it is no lower, or if there
\* is another one that is no lower.
LEMMA BehindStep ==
  ASSUME LookupShape, LocalsSorted, RemoteBehindIsHigher, NEW e, ~IsLocal(e),
         IsRequest(e.interval), ~BestIsLocal(e.interval),
         NEW k \in 1 .. Len(lookup) + 1, PlacedAt(e, k)
  PROVE  RemoteBehindIsHigher'
<1> SUFFICES ASSUME Comparable', NEW i \in DOMAIN lookup', NEW j \in DOMAIN lookup', i < j,
                    IsLocal(lookup'[i]), ~IsLocal(lookup'[j])
             PROVE  \E m \in DOMAIN lookup' :
                       /\ ~IsLocal(lookup'[m])
                       /\ CompareIntervals(lookup'[m].interval, lookup'[i].interval) >= 0
  BY DEF RemoteBehindIsHigher
<1>1. Comparable
  BY LocalsStep
<1>2. /\ DOMAIN lookup' \subseteq Nat /\ k \in Nat /\ DOMAIN lookup = 1 .. Len(lookup)
      /\ Len(lookup) \in Nat /\ k \in DOMAIN lookup'
      /\ \A m \in DOMAIN lookup : m \in DOMAIN lookup' /\ m + 1 \in DOMAIN lookup'
  BY PlaceNumbers DEF LookupShape
<1>3. /\ lookup'[k] = e
      /\ \A m \in DOMAIN lookup : /\ m < k => lookup'[m] = lookup[m]
                                  /\ ~(m < k) => lookup'[m + 1] = lookup[m]
      /\ \A m \in DOMAIN lookup' :
            /\ m < k => m \in DOMAIN lookup /\ lookup'[m] = lookup[m]
            /\ m > k => m - 1 \in DOMAIN lookup /\ lookup'[m] = lookup[m - 1]
  BY DEF PlacedAt, Placed
<1>4. i # k
  BY <1>3
<1>5. ASSUME NEW m \in DOMAIN lookup, NEW n \in DOMAIN lookup, m < n,
             lookup[m] = lookup'[i], ~IsLocal(lookup[n])
      PROVE  \E w \in DOMAIN lookup' :
                       /\ ~IsLocal(lookup'[w])
                       /\ CompareIntervals(lookup'[w].interval, lookup'[i].interval) >= 0
  <2>1. PICK w \in DOMAIN lookup :
           ~IsLocal(lookup[w]) /\ CompareIntervals(lookup[w].interval, lookup[m].interval) >= 0
    BY <1>1, <1>5 DEF RemoteBehindIsHigher
  <2>2. w < k => lookup'[w] = lookup[w]
    BY <1>3
  <2>3. ~(w < k) => lookup'[w + 1] = lookup[w]
    BY <1>3
  <2> QED BY <1>2, <1>5, <2>1, <2>2, <2>3
<1>6. CASE j # k
  <2>1. CASE j < k
    BY <1>2, <1>3, <1>5, <1>6, <2>1
  <2>2. CASE j > k /\ i < k
    <3>1. i < j - 1
      BY <1>2, <2>2
    <3> QED BY <1>3, <1>5, <2>2, <3>1
  <2>3. CASE i > k
    <3>1. j > k /\ i - 1 < j - 1
      BY <1>2, <2>3
    <3> QED BY <1>3, <1>5, <2>3, <3>1
  <2> QED BY <1>2, <1>4, <1>6, <2>1, <2>2, <2>3
<1>7. CASE j = k
  <2>1. i < k /\ i \in DOMAIN lookup /\ lookup'[i] = lookup[i] /\ IsLocal(lookup[i])
    BY <1>3, <1>7
  <2>2. k > 1 /\ k - 1 \in DOMAIN lookup /\ (i < k - 1 \/ i = k - 1) /\ i <= k - 1
    BY <1>2, <2>1
  <2> DEFINE t == lookup[k - 1].interval
             s == lookup[i].interval
  <2>3. CompareIntervals(e.interval, t) >= 0
    BY <2>2 DEF PlacedAt, Placed
  <2>4. CASE i = k - 1
    BY <1>2, <1>3, <2>1, <2>3, <2>4
  <2>5. CASE i < k - 1 /\ ~IsLocal(lookup[k - 1])
    BY <1>5, <2>1, <2>2, <2>5
  <2>6. CASE i < k - 1 /\ IsLocal(lookup[k - 1]) /\ Satisfies(t, e.interval)
    <3>1. PICK m \in DOMAIN lookup : k - 1 <= m /\ ~IsLocal(lookup[m])
      BY <2>2, <2>6, RemoteBehind DEF LookupShape
    <3>2. i < m
      BY <1>2, <2>1, <2>6, <3>1
    <3> QED BY <1>5, <2>1, <3>1, <3>2
  <2>7. CASE i < k - 1 /\ IsLocal(lookup[k - 1]) /\ ~Satisfies(t, e.interval)
    <3>1. LocalShape(t) /\ LocalShape(s)
      BY <2>1, <2>2, <2>7 DEF LookupShape
    <3>2. /\ Compare(s.low, t.low) <= 0
          /\ s.low # MinVer /\ t.low # MinVer => (s.low.rel = <<>> <=> t.low.rel = <<>>)
      BY <1>1, <2>1, <2>2, <2>7, ComparableEntries
    <3> HIDE DEF s, t
    <3>3. t.high # MaxVer
      <4> SUFFICES ASSUME t.high = MaxVer PROVE FALSE
        OBVIOUS
      <4>1. /\ t.low \in Texts
            /\ Compare(e.interval.high, t.low) < 0 \/ Compare(e.interval.low, t.low) < 0
        BY <2>7, <3>1, OpenEndedSatisfies
      <4>2. Compare(t.low, t.low) <= 0
        BY <4>1, BoundVersions
      <4>3. ~(CompareIntervals(e.interval, t) >= 0)
        BY <3>1, <4>1, <4>2, BelowOpenEnded
      <4> QED BY <2>3, <4>3
    <3>4. t.high = t.low /\ t.low # MinVer
      <4>1. t.low \in Texts /\ t.high = t.low
        BY <3>1, <3>3, IntervalFields DEF LocalShape
      <4> QED BY <4>1 DEF Texts, MinVer, NoVersion, Text
    <3>5. CompareIntervals(e.interval, s) >= 0
      BY <2>3, <2>7, <3>1, <3>2, <3>4, AboveExact
    <3> QED BY <1>2, <1>3, <2>1, <3>5 DEF s
  <2> QED BY <2>2, <2>4, <2>5, <2>6, <2>7
<1> QED BY <1>6, <1>7

\* The table after a dependency was resolved: the local entries and their order
\* are as before.
TableKept(e) ==
    /\ Locals' = Locals /\ (Comparable' <=> Comparable)
    /\ Range(lookup) \subseteq Range(lookup') /\ e \in Range(lookup')
    /\ \A q : BestIsLocal(q)' => BestIsLocal(q)
    /\ LocalsSorted' /\ OpenEndedLast' /\ RemoteBehindIsHigher'

\* So it is, whichever way the entry was found.
LEMMA TableStep ==
  ASSUME GrapherInv, NEW d, NEW e, ResolvesTo(d, e),
         UsesLocal(d, e) \/ UsesKnown(d, e) \/ UsesNew(d, e)
  PROVE  TableKept(e)
<1>1. CASE lookup' = lookup
  <2>1. Locals' = Locals /\ (Comparable' <=> Comparable)
    BY <1>1 DEF Locals, Comparable
  <2>2. e \in Range(lookup)
    <3>1. e \in FindBest(Request(d)) => e \in Range(lookup)
      BY FindBestLast DEF Range, GrapherInv, LookupShape
    <3>2. e \in FindExact(Request(d)) => e \in Range(lookup)
      BY DEF FindExact
    <3>3. ~UsesNew(d, e)
      <4>1. ASSUME UsesNew(d, e) PROVE FALSE
        <5>1. PICK k \in 1 .. Len(lookup) + 1 : PlacedAt(e, k)
          BY <4>1, InsertStep DEF UsesNew, GrapherInv, LookupShape
        <5>2. DOMAIN lookup' = 1 .. Len(lookup) + 1 /\ DOMAIN lookup = 1 .. Len(lookup)
              /\ Len(lookup) \in Nat
          BY <5>1, PlaceNumbers DEF PlacedAt, Placed, GrapherInv, LookupShape
        <5>3. Len(lookup) + 1 \in DOMAIN lookup' /\ Len(lookup) + 1 \notin DOMAIN lookup
          BY <5>2
        <5> QED BY <1>1, <5>3
      <4> QED BY <4>1
    <3> QED BY <3>1, <3>2, <3>3 DEF UsesLocal, UsesKnown
  <2>3. \A q : BestIsLocal(q)' => BestIsLocal(q)
    BY <1>1 DEF BestIsLocal
  <2>4. LocalsSorted' /\ OpenEndedLast' /\ RemoteBehindIsHigher'
    BY <1>1, <2>1 DEF LocalsSorted, OpenEndedLast, RemoteBehindIsHigher, GrapherInv
  <2> QED BY <1>1, <2>1, <2>2, <2>3, <2>4 DEF TableKept
<1>2. CASE UsesNew(d, e)
  <2>1. ~IsLocal(e) /\ e.interval = Request(d) /\ ~BestIsLocal(e.interval) /\ lookup' = Insert(e)
    BY <1>2 DEF UsesNew
  <2>2. lookup \in Seq(Range(lookup))
    BY DEF GrapherInv, LookupShape
  <2>3. PICK k \in 1 .. Len(lookup) + 1 : PlacedAt(e, k)
    BY <2>1, <2>2, InsertStep
  <2>4. IsRequest(e.interval)
    BY <2>1, RequestMeaning DEF ResolvesTo, GrapherInv, LookupShape
  <2>5. Locals' = Locals /\ (Comparable' <=> Comparable)
    BY <2>1, <2>3, LocalsStep
  <2>6. Range(lookup) \subseteq Range(lookup') /\ e \in Range(lookup')
    BY <2>3 DEF PlacedAt, Placed
  <2>7. \A q : BestIsLocal(q)' => BestIsLocal(q)
    BY <2>1, <2>2, <2>3, BestStep
  <2>8. LocalsSorted'
    BY <2>1, <2>3, SortedStep DEF GrapherInv
  <2>9. OpenEndedLast'
    BY <2>1, <2>3, <2>4, OpenEndedStep DEF GrapherInv
  <2>10. RemoteBehindIsHigher'
    BY <2>1, <2>3, <2>4, BehindStep DEF GrapherInv
  <2> QED BY <2>5, <2>6, <2>7, <2>8, <2>9, <2>10 DEF TableKept
<1> QED BY <1>1, <1>2 DEF UsesLocal, UsesKnown

\* The list of dependencies is one longer.
LEMMA AppendStep ==
  ASSUME LookupShape, NEW d, NEW e, ResolvesTo(d, e)
  PROVE  LET n == Len(resolved) + 1 IN
         /\ resolved' \in Seq(Range(resolved')) /\ resolved' # <<>>
         /\ n \in DOMAIN resolved' /\ n \in Nat
         /\ resolved'[n].dep = d /\ resolved'[n].to = e
         /\ \A i \in DOMAIN resolved : i \in DOMAIN resolved' /\ i < n /\ resolved'[i] = resolved[i]
         /\ \A i \in DOMAIN resolved' : i \in Nat /\ (i \in DOMAIN resolved \/ i = n)
         /\ DOMAIN resolved = 1 .. Len(resolved)
<1> DEFINE n == Len(resolved) + 1
           r == [dep |-> d, to |-> e, edge |-> NeedsEdge(d, e)]
           S == Range(resolved) \cup {r}
<1>1. resolved' = Append(resolved, r) /\ r.dep = d /\ r.to = e
  BY DEF ResolvesTo
<1>2. resolved \in Seq(S) /\ r \in S
  BY DEF LookupShape, Range
<1> HIDE DEF r, S
<1>3. /\ Len(resolved) \in Nat /\ DOMAIN resolved = 1 .. Len(resolved)
      /\ resolved' \in Seq(S) /\ Len(resolved') = n /\ DOMAIN resolved' = 1 .. n
      /\ resolved'[n] = r
      /\ \A i \in 1 .. Len(resolved) : resolved'[i] = resolved[i]
  BY <1>1, <1>2
<1>4. resolved' \in Seq(Range(resolved'))
  BY <1>3 DEF Range
<1>5. n \in DOMAIN resolved' /\ n \in Nat /\ resolved' # <<>>
  BY <1>3
<1>6. /\ \A i \in DOMAIN resolved : i \in DOMAIN resolved' /\ i < n
      /\ \A i \in DOMAIN resolved' : i \in Nat /\ (i \in DOMAIN resolved \/ i = n)
  BY <1>3
<1> QED BY <1>1, <1>3, <1>4, <1>5, <1>6

\* addSingleDependency keeps the invariant.
LEMMA ResolveStep ==
  ASSUME GrapherInv, NEW d, NEW e, ResolvesTo(d, e),
         UsesLocal(d, e) \/ UsesKnown(d, e) \/ UsesNew(d, e)
  PROVE  GrapherInv'
<1> DEFINE n == Len(resolved) + 1
           q == Request(d)
<1>0. /\ world \in Worlds /\ next \in Nat /\ lookup \in Seq(Range(lookup))
      /\ \A i, j \in DOMAIN lookup : lookup[i].interval = lookup[j].interval => i = j
      /\ \A i \in DOMAIN lookup : IsLocal(lookup[i]) => LocalShape(lookup[i].interval)
      /\ \A i \in DOMAIN lookup : ~IsLocal(lookup[i]) =>
            \E j \in DOMAIN resolved : resolved[j].to = lookup[i]
  BY DEF GrapherInv, LookupShape
<1>1. /\ Locals' = Locals /\ (Comparable' <=> Comparable)
      /\ Range(lookup) \subseteq Range(lookup') /\ e \in Range(lookup')
  BY TableStep DEF TableKept
<1>2. \A p : BestIsLocal(p)' => BestIsLocal(p)
  BY TableStep DEF TableKept
<1>3. LocalsSorted' /\ OpenEndedLast' /\ RemoteBehindIsHigher'
  BY TableStep DEF TableKept
<1>4. /\ resolved' \in Seq(Range(resolved')) /\ resolved' # <<>>
      /\ n \in DOMAIN resolved' /\ n \in Nat
      /\ resolved'[n].dep = d /\ resolved'[n].to = e
      /\ \A i \in DOMAIN resolved : i \in DOMAIN resolved' /\ i < n /\ resolved'[i] = resolved[i]
      /\ \A i \in DOMAIN resolved' : i \in Nat /\ (i \in DOMAIN resolved \/ i = n)
      /\ DOMAIN resolved = 1 .. Len(resolved)
  BY AppendStep DEF GrapherInv
<1> HIDE DEF n
<1>5. /\ world' = world /\ next' = next /\ next > Len(world.packages)
      /\ d \in Dependencies[world.asked]
      /\ validatedIntervals(dedupPackageVersionArray(d.requirements))
  BY DEF ResolvesTo
<1>6. IsRequest(q)
  BY <1>0, <1>5, RequestMeaning
<1>7. ~IsLocal(e) => ~BestIsLocal(q) /\ e.interval = q
  BY DEF UsesLocal, UsesKnown, UsesNew, FindExact
<1>8. IsLocal(e) =>
         \/ \E i \in DOMAIN lookup :
               /\ e = lookup[i] /\ Satisfies(lookup[i].interval, q)
               /\ \A j \in DOMAIN lookup : Satisfies(lookup[j].interval, q) => j <= i
         \/ ~BestIsLocal(q) /\ e \in FindExact(q)
  BY <1>0, FindBestLast DEF UsesLocal, UsesKnown, UsesNew
<1>9. \A f \in Locals :
         /\ LocalShape(f.interval)
         /\ \E i \in DOMAIN lookup : f = lookup[i]
  BY <1>0 DEF Locals, Range
<1>10. \A f \in Locals : Serves(f, d) => Satisfies(f.interval, q)
  BY <1>0, <1>5, <1>9, ServesSatisfies
<1>11. LookupShape'
  <2>1. world' \in Worlds /\ next' \in Nat /\ resolved' \in Seq(Range(resolved'))
    BY <1>0, <1>4, <1>5
  <2>2. CASE lookup' = lookup
    <3>1. \A i \in DOMAIN lookup' :
             IF IsLocal(lookup'[i]) THEN LocalShape(lookup'[i].interval)
             ELSE \E j \in DOMAIN resolved' : resolved'[j].to = lookup'[i]
      <4> SUFFICES ASSUME NEW i \in DOMAIN lookup
                   PROVE  IF IsLocal(lookup[i]) THEN LocalShape(lookup[i].interval)
                          ELSE \E j \in DOMAIN resolved' : resolved'[j].to = lookup[i]
        BY <2>2
      <4>1. CASE ~IsLocal(lookup[i])
        <5>1. PICK j \in DOMAIN resolved : resolved[j].to = lookup[i]
          BY <1>0, <4>1
        <5>2. j \in DOMAIN resolved' /\ resolved'[j].to = lookup[i]
          BY <1>4, <5>1
        <5> QED BY <4>1, <5>2
      <4> QED BY <1>0, <4>1
    <3> QED BY <1>0, <2>1, <2>2, <3>1 DEF LookupShape
  <2>3. CASE UsesNew(d, e)
    <3>1. PICK k \in 1 .. Len(lookup) + 1 : PlacedAt(e, k)
      BY <1>0, <2>3, InsertStep DEF UsesNew
    <3>2. lookup' \in Seq(Range(lookup'))
      BY <3>1 DEF PlacedAt, Placed
    <3>3. \A i, j \in DOMAIN lookup' : lookup'[i].interval = lookup'[j].interval => i = j
      BY <2>3, <3>1, DistinctStep DEF UsesNew, GrapherInv
    <3>4. \A i \in DOMAIN lookup' :
             IF IsLocal(lookup'[i]) THEN LocalShape(lookup'[i].interval)
             ELSE \E j \in DOMAIN resolved' : resolved'[j].to = lookup'[i]
      <4> SUFFICES ASSUME NEW i \in DOMAIN lookup'
                   PROVE  IF IsLocal(lookup'[i]) THEN LocalShape(lookup'[i].interval)
                          ELSE \E j \in DOMAIN resolved' : resolved'[j].to = lookup'[i]
        OBVIOUS
      <4>1. lookup'[i] = e \/ \E m \in DOMAIN lookup : lookup'[i] = lookup[m]
        <5>1. lookup'[i] \in Range(lookup) \cup {e}
          BY <3>1 DEF PlacedAt, Placed, Range
        <5> QED BY <5>1 DEF Range
      <4>2. CASE lookup'[i] = e
        BY <1>4, <2>3, <4>2 DEF UsesNew
      <4>3. ASSUME NEW m \in DOMAIN lookup, lookup'[i] = lookup[m]
            PROVE  IF IsLocal(lookup[m]) THEN LocalShape(lookup[m].interval)
                   ELSE \E j \in DOMAIN resolved' : resolved'[j].to = lookup[m]
        <5>1. CASE ~IsLocal(lookup[m])
          <6>1. PICK j \in DOMAIN resolved : resolved[j].to = lookup[m]
            BY <1>0, <5>1
          <6>2. j \in DOMAIN resolved' /\ resolved'[j].to = lookup[m]
            BY <1>4, <6>1
          <6> QED BY <5>1, <6>2
        <5> QED BY <1>0, <5>1
      <4> QED BY <4>1, <4>2, <4>3
    <3> QED BY <2>1, <3>2, <3>3, <3>4 DEF LookupShape
  <2> QED BY <2>2, <2>3 DEF UsesLocal, UsesKnown
<1>12. ResolvedShape'
  <2>1. IsLocal(e) => Satisfies(e.interval, q)
    <3>1. ASSUME IsLocal(e), e \in FindExact(q) PROVE Satisfies(e.interval, q)
      <4>1. e.interval = q /\ LocalShape(e.interval)
        BY <1>0, <3>1 DEF FindExact, Range
      <4> QED BY <4>1, SelfSatisfies
    <3> QED BY <1>8, <3>1
  <2>2. \A i \in DOMAIN resolved :
           /\ resolved[i].dep \in Dependencies[world.asked]
           /\ validatedIntervals(dedupPackageVersionArray(resolved[i].dep.requirements))
           /\ resolved[i].to \in Range(lookup)
           /\ IF IsLocal(resolved[i].to)
              THEN Satisfies(resolved[i].to.interval, Request(resolved[i].dep))
              ELSE resolved[i].to.interval = Request(resolved[i].dep)
    BY DEF GrapherInv, ResolvedShape
  <2>3. ASSUME NEW i \in DOMAIN resolved'
        PROVE  /\ resolved'[i].dep \in Dependencies[world.asked]
               /\ validatedIntervals(dedupPackageVersionArray(resolved'[i].dep.requirements))
               /\ resolved'[i].to \in Range(lookup')
               /\ IF IsLocal(resolved'[i].to)
                  THEN Satisfies(resolved'[i].to.interval, Request(resolved'[i].dep))
                  ELSE resolved'[i].to.interval = Request(resolved'[i].dep)
    <3>1. CASE i = n
      BY <1>1, <1>4, <1>5, <1>7, <2>1, <3>1
    <3>2. CASE i \in DOMAIN resolved
      BY <1>1, <1>4, <2>2, <3>2
    <3> QED BY <1>4, <3>1, <3>2
  <2> QED BY <1>5, <2>3 DEF ResolvedShape
<1>13. RemoteStays'
  <2> SUFFICES ASSUME NEW i \in DOMAIN resolved', ~IsLocal(resolved'[i].to),
                      NEW p, p = Request(resolved'[i].dep)
               PROVE  ~BestIsLocal(p)'
    BY DEF RemoteStays, BestIsLocal
  <2>1. ~BestIsLocal(p)
    <3>1. CASE i = n
      BY <1>4, <1>7, <3>1
    <3>2. CASE i \in DOMAIN resolved
      BY <1>4, <3>2 DEF GrapherInv, RemoteStays
    <3> QED BY <1>4, <3>1, <3>2
  <2> QED BY <1>2, <2>1
<1>14. HighestLocal'
  <2> SUFFICES ASSUME NEW i \in DOMAIN resolved', Comparable, IsLocal(resolved'[i].to),
                      NEW f \in Locals, Serves(f, resolved'[i].dep)
               PROVE  Compare(f.interval.low, resolved'[i].to.interval.low) <= 0
    BY <1>1 DEF HighestLocal
  <2>1. CASE i \in DOMAIN resolved
    BY <1>4, <2>1 DEF GrapherInv, HighestLocal
  <2>2. CASE i = n
    <3>0. IsLocal(e) /\ Serves(f, d) /\ resolved'[i].to = e
      BY <1>4, <2>2
    <3>1. Satisfies(f.interval, q)
      BY <1>10, <3>0
    <3>2. PICK m \in DOMAIN lookup : f = lookup[m]
      BY <1>9
    <3>a. IsLocal(lookup[m])
      BY <3>2 DEF Locals
    <3>3. ASSUME NEW j \in DOMAIN lookup, e = lookup[j], m <= j
          PROVE  Compare(f.interval.low, e.interval.low) <= 0
      BY <3>0, <3>2, <3>a, <3>3, ComparableEntries DEF GrapherInv
    <3>4. CASE \E j \in DOMAIN lookup :
                 /\ e = lookup[j] /\ Satisfies(lookup[j].interval, q)
                 /\ \A w \in DOMAIN lookup : Satisfies(lookup[w].interval, q) => w <= j
      BY <3>0, <3>1, <3>2, <3>3, <3>4
    <3>5. CASE ~BestIsLocal(q) /\ e \in FindExact(q)
      <4>1. PICK j \in DOMAIN lookup : e = lookup[j] /\ e.interval = q
        BY <3>5 DEF FindExact, Range
      <4>2. LocalShape(e.interval)
        BY <1>0, <3>0, <4>1
      <4>3. e.interval.high # MaxVer
        <5> SUFFICES ASSUME e.interval.high = MaxVer PROVE FALSE
          OBVIOUS
        <5>1. Satisfies(lookup[j].interval, q)
          BY <4>1, <4>2, SelfSatisfies
        <5>2. PICK w \in DOMAIN lookup : j <= w /\ ~IsLocal(lookup[w])
          BY <1>0, <3>5, <5>1, RemoteBehind
        <5>3. w < j
          BY <3>0, <4>1, <5>2 DEF GrapherInv, OpenEndedLast
        <5>4. DOMAIN lookup \subseteq Nat
          BY <1>0
        <5> QED BY <5>2, <5>3, <5>4
      <4>4. e.interval.low \in Texts /\ e.interval.high = e.interval.low
        BY <4>2, <4>3, IntervalFields DEF LocalShape
      <4>5. f.interval.low = MinVer \/ Within(f.interval.low, q)
        <5>1. f.interval.low \in Texts \cup {MinVer}
          BY <1>9, LocalLow
        <5>2. \A v \in Texts : Meets(v, d) => Within(v, q)
          BY <1>0, <1>5, RequestMeaning
        <5> QED BY <3>0, <5>1, <5>2 DEF Serves
      <4>6. CASE f.interval.low = MinVer
        <5>1. Compare(MinVer, e.interval.low) = -1
          BY <4>4, BoundVersions
        <5> QED BY <3>0, <4>6, <5>1
      <4>7. CASE Within(f.interval.low, q)
        <5>1. Compare(f.interval.low, e.interval.low) \in {-1, 0, 1}
          BY <1>9, <4>2, LocalLow, CompareFacts
        <5> QED BY <3>0, <4>1, <4>4, <4>7, <5>1 DEF Within
      <4> QED BY <4>5, <4>6, <4>7
    <3> QED BY <1>8, <3>0, <3>4, <3>5
  <2> QED BY <1>4, <2>1, <2>2
<1>15. ASSUME NEW f \in Locals, Serves(f, d), ~IsLocal(e)
       PROVE  /\ \E j \in DOMAIN resolved :
                    ~IsLocal(resolved[j].to) /\ Satisfies(resolved[j].to.interval, q)
              /\ Comparable =>
                    \E j \in DOMAIN resolved :
                       /\ ~IsLocal(resolved[j].to)
                       /\ CompareIntervals(resolved[j].to.interval, f.interval) >= 0
  <2>1. PICK i \in DOMAIN lookup : f = lookup[i]
    BY <1>9
  <2>2. Satisfies(lookup[i].interval, q) /\ IsLocal(lookup[i]) /\ ~BestIsLocal(q)
    BY <1>7, <1>10, <1>15, <2>1 DEF Locals
  <2>3. PICK m \in DOMAIN lookup :
           i <= m /\ ~IsLocal(lookup[m]) /\ Satisfies(lookup[m].interval, q)
    BY <1>0, <2>2, RemoteBehind
  <2>4. i < m
    <3>1. i # m
      BY <2>2, <2>3
    <3>2. DOMAIN lookup \subseteq Nat
      BY <1>0
    <3> QED BY <2>3, <3>1, <3>2
  <2>5. \E j \in DOMAIN resolved :
                    ~IsLocal(resolved[j].to) /\ Satisfies(resolved[j].to.interval, q)
    BY <1>0, <2>3
  <2>6. ASSUME Comparable
        PROVE  \E j \in DOMAIN resolved :
                       /\ ~IsLocal(resolved[j].to)
                       /\ CompareIntervals(resolved[j].to.interval, f.interval) >= 0
    <3>1. PICK w \in DOMAIN lookup :
             ~IsLocal(lookup[w]) /\ CompareIntervals(lookup[w].interval, lookup[i].interval) >= 0
      BY <2>2, <2>3, <2>4, <2>6 DEF GrapherInv, RemoteBehindIsHigher
    <3> QED BY <1>0, <2>1, <3>1
  <2> QED BY <2>5, <2>6
<1>16. RemoteOnlyIfAskedFor'
  <2>0. \A i \in DOMAIN resolved' : \A j \in 1 .. i - 1 :
           j \in DOMAIN resolved /\ resolved'[j] = resolved[j]
    <3>1. n = Len(resolved) + 1 /\ Len(resolved) \in Nat
      BY DEF n, GrapherInv, LookupShape
    <3>2. \A i \in DOMAIN resolved' : i <= n
      BY <1>4, <3>1
    <3>3. \A i \in DOMAIN resolved' : \A j \in 1 .. i - 1 : j \in DOMAIN resolved
      BY <1>4, <3>1, <3>2
    <3> QED BY <1>4, <3>3
  <2>1. \A j \in DOMAIN resolved : j \in 1 .. n - 1
    BY <1>4 DEF n
  <2>2. ASSUME NEW i \in DOMAIN resolved', ~IsLocal(resolved'[i].to),
               NEW f \in Locals, Serves(f, resolved'[i].dep)
        PROVE  \E j \in 1 .. (i - 1) :
                  /\ ~IsLocal(resolved'[j].to)
                  /\ Satisfies(resolved'[j].to.interval, Request(resolved'[i].dep))
    <3>1. CASE i \in DOMAIN resolved
      <4>1. \E j \in 1 .. (i - 1) :
               /\ ~IsLocal(resolved[j].to)
               /\ Satisfies(resolved[j].to.interval, Request(resolved[i].dep))
        BY <1>4, <2>2, <3>1
           DEF GrapherInv, RemoteOnlyIfAskedFor, RemoteSatisfies, SatisfiedByRemote
      <4> QED BY <1>4, <2>0, <3>1, <4>1
    <3>2. CASE i = n
      <4>1. PICK j \in DOMAIN resolved :
               ~IsLocal(resolved[j].to) /\ Satisfies(resolved[j].to.interval, q)
        BY <1>4, <1>15, <2>2, <3>2
      <4>2. j \in 1 .. (i - 1) /\ resolved'[j] = resolved[j]
        BY <1>4, <2>1, <3>2
      <4> QED BY <1>4, <3>2, <4>1, <4>2
    <3> QED BY <1>4, <3>1, <3>2
  <2>3. ASSUME Comparable, NEW i \in DOMAIN resolved', ~IsLocal(resolved'[i].to),
               NEW f \in Locals, Serves(f, resolved'[i].dep)
        PROVE  \E j \in 1 .. (i - 1) :
                  /\ ~IsLocal(resolved'[j].to)
                  /\ CompareIntervals(resolved'[j].to.interval, f.interval) >= 0
    <3>1. CASE i \in DOMAIN resolved
      <4>1. \E j \in 1 .. (i - 1) :
               /\ ~IsLocal(resolved[j].to)
               /\ CompareIntervals(resolved[j].to.interval, f.interval) >= 0
        BY <1>4, <2>3, <3>1 DEF GrapherInv, RemoteOnlyIfAskedFor
      <4> QED BY <1>4, <2>0, <3>1, <4>1
    <3>2. CASE i = n
      <4>1. PICK j \in DOMAIN resolved :
               /\ ~IsLocal(resolved[j].to)
               /\ CompareIntervals(resolved[j].to.interval, f.interval) >= 0
        BY <1>4, <1>15, <2>3, <3>2
      <4>2. j \in 1 .. (i - 1) /\ resolved'[j] = resolved[j]
        BY <1>4, <2>1, <3>2
      <4> QED BY <4>1, <4>2
    <3> QED BY <1>4, <3>1, <3>2
  <2>4. RemoteSatisfies'
    BY <1>1, <2>2 DEF RemoteSatisfies, SatisfiedByRemote
  <2> QED BY <1>1, <2>3, <2>4 DEF RemoteOnlyIfAskedFor
<1>17. RemoteForGood'
  <2> SUFFICES ASSUME NEW i \in DOMAIN resolved', NEW j \in DOMAIN resolved', i < j,
                      resolved'[i].dep.requirements = resolved'[j].dep.requirements,
                      ~IsLocal(resolved'[i].to)
               PROVE  resolved'[j].to = resolved'[i].to
    BY DEF RemoteForGood
  <2>1. i \in DOMAIN resolved /\ resolved'[i] = resolved[i]
    <3>1. \A m \in DOMAIN resolved : m < n
      BY <1>4
    <3>2. i # n
      BY <1>4, <3>1
    <3> QED BY <1>4, <3>2
  <2>2. CASE j \in DOMAIN resolved
    BY <1>4, <2>1, <2>2 DEF GrapherInv, RemoteForGood
  <2>3. CASE j = n
    <3>1. Request(resolved[i].dep) = q
      BY <1>4, <2>1, <2>3 DEF Request
    <3>2. ~BestIsLocal(q)
      BY <2>1, <3>1 DEF GrapherInv, RemoteStays
    <3>3. resolved[i].to.interval = q /\ resolved[i].to \in Range(lookup)
      BY <2>1, <3>1 DEF GrapherInv, ResolvedShape
    <3>4. ~UsesLocal(d, e)
      BY <1>0, <3>2, FindBestLast DEF UsesLocal
    <3>5. resolved[i].to \in FindExact(q)
      BY <3>3 DEF FindExact
    <3>6. e \in FindExact(q)
      BY <3>4, <3>5 DEF UsesKnown, UsesNew
    <3>7. e = resolved[i].to
      BY <1>0, <3>5, <3>6 DEF FindExact, Range
    <3> QED BY <1>4, <2>1, <2>3, <3>7
  <2> QED BY <1>4, <2>2, <2>3
<1> QED BY <1>3, <1>11, <1>12, <1>13, <1>14, <1>16, <1>17 DEF GrapherInv

\* The inductive invariant of populateGraph: what the lookup table and the
\* resolved dependencies have to do with each other.
THEOREM InvariantHolds == Spec => []GrapherInv
<1>1. Init => GrapherInv
  <2> SUFFICES ASSUME Init PROVE GrapherInv
    OBVIOUS
  <2>1. /\ world \in Worlds /\ next = 1 /\ lookup = <<>> /\ resolved = <<>>
        /\ DOMAIN lookup = {} /\ DOMAIN resolved = {}
    BY DEF Init
  <2>2. LookupShape
    BY <2>1 DEF LookupShape
  <2>3. ResolvedShape /\ RemoteStays /\ HighestLocal /\ RemoteForGood
    BY <2>1 DEF ResolvedShape, RemoteStays, HighestLocal, RemoteForGood
  <2>4. RemoteOnlyIfAskedFor
    BY <2>1 DEF RemoteOnlyIfAskedFor, RemoteSatisfies
  <2>5. LocalsSorted /\ OpenEndedLast /\ RemoteBehindIsHigher
    BY <2>1 DEF LocalsSorted, OpenEndedLast, RemoteBehindIsHigher
  <2> QED BY <2>2, <2>3, <2>4, <2>5 DEF GrapherInv
<1>2. GrapherInv /\ [Next]_vars => GrapherInv'
  <2> SUFFICES ASSUME GrapherInv, [Next]_vars PROVE GrapherInv'
    OBVIOUS
  <2>1. LookupShape
    BY DEF GrapherInv
  <2> QED BY <2>1, StepCases, NothingStep, LocalStep, ResolveStep
<1> QED BY <1>1, <1>2, PTL DEF Spec

\* addSingleDependency resolves a dependency to a local package that provides one
\* version only if that version meets every requirement as the spec file states
\* it, but for conditions on versions that compare as equal.
THEOREM LocalsMeetRequirements == Spec => []LocalMeetsRequirements
<1>1. GrapherInv => LocalMeetsRequirements
  <2> SUFFICES ASSUME GrapherInv, NEW i \in DOMAIN resolved,
                      IsLocal(resolved[i].to), ProvidesOne(resolved[i].to),
                      ~Tied(dedupPackageVersionArray(resolved[i].dep.requirements)),
                      ~Ambiguous(resolved[i].to.interval.low,
                                 dedupPackageVersionArray(resolved[i].dep.requirements))
               PROVE  Serves(resolved[i].to, resolved[i].dep)
    BY DEF LocalMeetsRequirements
  <2> DEFINE e == resolved[i].to
             d == resolved[i].dep
             p == dedupPackageVersionArray(d.requirements)
             q == Request(d)
  <2>1. /\ world \in Worlds /\ d \in Dependencies[world.asked] /\ validatedIntervals(p)
        /\ e \in Range(lookup) /\ Satisfies(e.interval, q)
    BY DEF GrapherInv, LookupShape, ResolvedShape
  <2>2. LocalShape(e.interval)
    BY <2>1 DEF GrapherInv, LookupShape, Range
  <2>3. /\ IsRequest(q)
        /\ \A v \in Texts : (Within(v, q) /\ ~Tied(p) /\ ~Ambiguous(v, p)) => Meets(v, d)
        /\ \A v \in Texts :
              (/\ Compare(v, q.low) = 0 /\ Compare(v, q.high) = 0
               /\ ~(q.lowIn /\ q.highIn))
                 => Ambiguous(v, p)
    <3> HIDE DEF d
    <3> QED BY <2>1, RequestMeaning
  <2>4. e.interval = Exactly(e.interval.low)
    BY DEF ProvidesOne
  <2>5. ~Tied(p) /\ ~Ambiguous(e.interval.low, p)
    OBVIOUS
  <2>6. IsLocal(e) /\ ProvidesOne(e)
    OBVIOUS
  <2> HIDE DEF e, d, p, q
  <2>7. CASE e.interval.low = MinVer
    BY <2>7 DEF Serves, e, d
  <2>8. CASE e.interval.low \in Texts
    <3>1. \/ Within(e.interval.low, q)
          \/ /\ Compare(e.interval.low, q.low) = 0 /\ Compare(e.interval.low, q.high) = 0
             /\ ~(q.lowIn /\ q.highIn)
      BY <2>1, <2>3, <2>4, <2>8, ExactSatisfies
    <3>2. Meets(e.interval.low, d)
      BY <2>3, <2>5, <2>8, <3>1
    <3> QED BY <3>2 DEF Serves, e, d
  <2> QED BY <2>2, <2>7, <2>8, LocalLow
<1> QED BY <1>1, InvariantHolds, PTL

\* Whatever remote nodes were added to the lookup table before, FindBestPkgNode
\* gives a dependency the highest of the local packages that can serve it, if
\* all their versions have releases or none has.
THEOREM LocalIsHighest == Spec => []HighestLocal
<1>1. GrapherInv => HighestLocal
  BY DEF GrapherInv
<1> QED BY <1>1, InvariantHolds, PTL

\* A dependency that a local package can serve is resolved to a remote node only
\* if an earlier dependency led to a remote node that satisfies it, and one that
\* is no lower than the local package if local versions can be compared.
THEOREM RemoteIsAskedFor == Spec => []RemoteOnlyIfAskedFor
<1>1. GrapherInv => RemoteOnlyIfAskedFor
  BY DEF GrapherInv
<1> QED BY <1>1, InvariantHolds, PTL

\* findOrAddExactRemoteDependency finds the same remote node for the same
\* requirements ever after.
THEOREM RemoteIsForGood == Spec => []RemoteForGood
<1>1. GrapherInv => RemoteForGood
  BY DEF GrapherInv
<1> QED BY <1>1, InvariantHolds, PTL
=============================================================================
