---------------------------- MODULE PkgVersions -----------------------------
(***************************************************************************)
(* Versions (versioncompare) and the intervals of versions that a package  *)
(* provides or a dependency asks for (pkgjson).  A version string is kept  *)
(* as what its regular expressions split it into: the epoch, the           *)
(* components before the first "-", and those of the release after it.     *)
(***************************************************************************)
EXTENDS Integers, SequencesExt

CONSTANT MaxComponent   \* the largest component that ParseUint accepts
ASSUME MaxComponentAssumption == MaxComponent \in Nat

NoEpoch == -1

\* Version strings.  NoVersion is "", MinVer and MaxVer are NewMin and NewMax.
Text(epoch, parts, rel) == [kind |-> "text", epoch |-> epoch, parts |-> parts, rel |-> rel]
NoVersion == Text(NoEpoch, <<>>, <<>>)
MinVer == [NoVersion EXCEPT !.kind = "min"]
MaxVer == [NoVersion EXCEPT !.kind = "max"]

Texts == [kind : {"text"}, epoch : Nat \cup {NoEpoch}, parts : Seq(Nat), rel : Seq(Nat)]
Versions == Texts \cup {MinVer, MaxVer}

\* A component that does not fit counts as 0.
ComponentValues(s) == [i \in DOMAIN s |-> IF s[i] <= MaxComponent THEN s[i] ELSE 0]

\* parse: the components of a version, with the epoch in front.
Components(v) == ComponentValues(<<IF v.epoch = NoEpoch THEN 0 ELSE v.epoch>> \o v.parts)
-----------------------------------------------------------------------------
(* Three-way comparison.                                                   *)

Sign(n) == IF n < 0 THEN -1 ELSE IF n > 0 THEN 1 ELSE 0

CompareComponents(a, b) ==
    LET differ == {i \in DOMAIN a \cap DOMAIN b : a[i] # b[i]} IN
    IF differ = {} THEN Sign(Len(a) - Len(b))
    ELSE LET i == Min(differ) IN Sign(a[i] - b[i])

Rank(v) == CASE v.kind = "min" -> -1 [] v.kind = "text" -> 0 [] v.kind = "max" -> 1

\* Releases count only if both versions have one.
Compare(a, b) ==
    LET version == CompareComponents(Components(a), Components(b)) IN
    IF {a.kind, b.kind} # {"text"} THEN Sign(Rank(a) - Rank(b))
    ELSE IF version # 0 \/ a.rel = <<>> \/ b.rel = <<>> THEN version
    ELSE CompareComponents(ComponentValues(a.rel), ComponentValues(b.rel))

\* What a condition on a version says, for the properties.  No condition at all
\* asks for the version itself, as equals below.
MeetsCondition(a, condition, b) ==
    CASE condition = "<"  -> Compare(a, b) < 0
      [] condition = "<=" -> Compare(a, b) <= 0
      [] condition = ">"  -> Compare(a, b) > 0
      [] condition = ">=" -> Compare(a, b) >= 0
      [] condition \in {"=", ""} -> Compare(a, b) = 0
-----------------------------------------------------------------------------
(* A PackageVer: up to two conditions on the version.                      *)

Conditions == {"", "=", "<", "<=", ">", ">="}

PackageVer(c1, v1, c2, v2) == [cond |-> c1, ver |-> v1, scond |-> c2, sver |-> v2]
PackageVers == [cond : Conditions, ver : Texts, scond : Conditions, sver : Texts]

\* One more requirement <<condition, version>> on the same name.  A third one
\* replaces both if their versions are the same.
addRequirement(p, r) ==
    IF p.ver = NoVersion THEN [p EXCEPT !.cond = r[1], !.ver = r[2]]
    ELSE IF p.sver = NoVersion THEN [p EXCEPT !.scond = r[1], !.sver = r[2]]
    ELSE PackageVer(r[1], r[2], r[1], r[2])

\* dedupPackageVersionArray: the requirements that a spec file has on one name,
\* in their order, as one PackageVer.  A third one, on a third version, is an
\* error that ends the spec reader: such lists are no input of the grapher.
dedupPackageVersionArray(requirements) ==
    FoldLeft(addRequirement, PackageVer("", NoVersion, "", NoVersion), requirements)

canEqual(c) == c \in {"", "=", "<=", ">="}
equals(c) == c \in {"", "="}
lowerBound(c) == c \in {">", ">="}
upperBound(c) == c \in {"<", "<="}
sameDirection(c, d) ==
    c = d \/ (lowerBound(c) /\ lowerBound(d)) \/ (upperBound(c) /\ upperBound(d))

\* validatedIntervals returns no error.
validatedIntervals(p) ==
    LET order == Compare(p.ver, p.sver) IN
    /\ p.ver = NoVersion => p.cond = ""
    /\ p.sver = NoVersion => p.scond = ""
    /\ \/ p.ver = NoVersion
       \/ p.sver = NoVersion
       \/ sameDirection(p.cond, p.scond) /\ (equals(p.cond) => p.ver = p.sver)
       \/ /\ ~sameDirection(p.cond, p.scond)
          /\ order < 0 => /\ ~upperBound(p.cond)
                          /\ equals(p.cond) => upperBound(p.scond)
          /\ order = 0 => canEqual(p.cond) /\ canEqual(p.scond)
          /\ order > 0 => /\ ~upperBound(p.scond)
                          /\ equals(p.scond) => upperBound(p.cond)
-----------------------------------------------------------------------------
(* Intervals.                                                              *)

Between(low, lowInclusive, high, highInclusive) ==
    [low |-> low, lowIn |-> lowInclusive, high |-> high, highIn |-> highInclusive]

AnyVersion == Between(MinVer, TRUE, MaxVer, TRUE)
From(c, v) == Between(v, canEqual(c), MaxVer, TRUE)
UpTo(c, v) == Between(MinVer, TRUE, v, canEqual(c))
Exactly(v) == Between(v, TRUE, v, TRUE)

SingleInterval(c, v) ==
    IF lowerBound(c) THEN From(c, v) ELSE IF upperBound(c) THEN UpTo(c, v) ELSE Exactly(v)

\* Both conditions, the one on the lower version first.
DoubleInterval(lowCond, low, highCond, high) ==
    IF equals(lowCond) THEN Exactly(low)
    ELSE IF equals(highCond) THEN Exactly(high)
    ELSE IF upperBound(lowCond) THEN UpTo(lowCond, low)
    ELSE IF lowerBound(highCond) THEN From(highCond, high)
    ELSE Between(low, canEqual(lowCond), high, canEqual(highCond))

\* Mutant: of two lower bounds the lower one counts.
IntervalFromLower(p) ==
    IF p.ver = NoVersion /\ p.sver = NoVersion THEN AnyVersion
    ELSE IF p.ver = NoVersion THEN SingleInterval(p.scond, p.sver)
    ELSE SingleInterval(p.cond, p.ver)

\* Two versions that compare as equal count as if the second were the lower.
Interval(p) ==
    IF p.ver = NoVersion /\ p.sver = NoVersion THEN AnyVersion
    ELSE IF p.ver = NoVersion THEN SingleInterval(p.scond, p.sver)
    ELSE IF p.sver = NoVersion \/ (p.ver = p.sver /\ p.cond = p.scond)
         THEN SingleInterval(p.cond, p.ver)
    ELSE IF Compare(p.ver, p.sver) < 0
         THEN DoubleInterval(p.cond, p.ver, p.scond, p.sver)
    ELSE DoubleInterval(p.scond, p.sver, p.cond, p.ver)

\* Compare: by the lower bound, then by the upper bound.
CompareIntervals(a, b) ==
    LET low == Compare(a.low, b.low)
        high == Compare(a.high, b.high)
    IN  CASE low # 0 -> low
          [] low = 0 /\ a.lowIn # b.lowIn -> IF a.lowIn THEN -1 ELSE 1
          [] low = 0 /\ a.lowIn = b.lowIn /\ high # 0 -> high
          [] low = 0 /\ a.lowIn = b.lowIn /\ high = 0 ->
                IF a.highIn = b.highIn THEN 0 ELSE IF a.highIn THEN 1 ELSE -1

versionInInterval(v, i) ==
    \/ Compare(v, i.low) = 0 /\ i.lowIn
    \/ Compare(v, i.high) = 0 /\ i.highIn
    \/ Compare(v, i.low) > 0 /\ Compare(v, i.high) < 0

\* i provides something that q asks for: a bound of q lies in i, or q is wider.
Satisfies(i, q) ==
    /\ Compare(i.low, q.high) <= 0
    /\ Compare(i.high, q.low) >= 0
    /\ \/ IF Compare(q.low, i.high) = 0 THEN i.highIn /\ q.lowIn
          ELSE IF Compare(q.low, i.low) = 0 THEN i.lowIn \/ ~q.lowIn
          ELSE versionInInterval(q.low, i)
       \/ IF Compare(q.high, i.low) = 0 THEN i.lowIn /\ q.highIn
          ELSE IF Compare(q.high, i.high) = 0 THEN i.highIn \/ ~q.highIn
          ELSE versionInInterval(q.high, i)
       \/ Compare(q.low, i.low) < 0 /\ Compare(q.high, i.high) > 0
=============================================================================
