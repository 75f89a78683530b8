-------------------------- MODULE PkgVersionProofs --------------------------
(***************************************************************************)
(* What versions and intervals mean, for all versions and conditions:      *)
(* Compare is the order by components with the exceptions that a missing   *)
(* release causes, and the interval of up to two conditions that           *)
(* validatedIntervals accepts is the set of the versions that meet them,   *)
(* up to versions that compare as equal to both.                           *)
(***************************************************************************)
EXTENDS PkgVersions, SequenceTheorems, WellFoundedInduction, TLAPS

\* A set of natural numbers has a least element, and Min is that.
LEMMA MinNat ==
  ASSUME NEW S, S \subseteq Nat, S # {}
  PROVE  Min(S) \in S /\ \A y \in S : Min(S) <= y
<1>1. PICK x \in S : \A y \in S : ~(<<y, x>> \in OpToRel(<, Nat))
  BY NatLessThanWellFounded, WFMin
<1>2. \A a, b \in Nat : a < b => <<a, b>> \in OpToRel(<, Nat)
  BY Zenon DEF OpToRel
<1>3. \A y \in S : ~(y < x)
  BY <1>1, <1>2, Zenon
<1>4. \A y \in S : x <= y
  BY <1>3
<1> QED BY <1>4 DEF Min

\* A bounded one has a greatest element, and Max is that.
LEMMA MaxNat ==
  ASSUME NEW n \in Nat, NEW S, S \subseteq 0..n, S # {}
  PROVE  Max(S) \in S /\ \A y \in S : y <= Max(S)
<1> DEFINE T == {n - y : y \in S}
<1>1. T \subseteq Nat /\ T # {}
  <2>1. \A y \in S : n - y \in Nat
    OBVIOUS
  <2> QED BY <2>1
<1>2. PICK m \in T : \A y \in T : m <= y
  BY <1>1, MinNat
<1>3. PICK x \in S : m = n - x
  OBVIOUS
<1>4. \A y \in S : x >= y
  BY <1>2, <1>3
<1> QED BY <1>4 DEF Max

\* A new element moves the ones behind it up by one.
LEMMA InsertAtElements ==
  ASSUME NEW S, NEW s \in Seq(S), NEW e \in S, NEW k \in 1 .. Len(s) + 1
  PROVE  /\ InsertAt(s, k, e) \in Seq(S)
         /\ Len(InsertAt(s, k, e)) = Len(s) + 1
         /\ \A i \in 1 .. Len(s) + 1 :
               InsertAt(s, k, e)[i] = IF i < k THEN s[i] ELSE IF i = k THEN e ELSE s[i - 1]
<1> DEFINE a == SubSeq(s, 1, k - 1)
           b == SubSeq(s, k, Len(s))
<1>1. a \in Seq(S) /\ Len(a) = k - 1 /\ \A i \in 1 .. k - 1 : a[i] = s[i]
  BY SubSeqProperties
<1>2. b \in Seq(S) /\ Len(b) = Len(s) + 1 - k /\ \A i \in 1 .. Len(b) : b[i] = s[k + i - 1]
  BY SubSeqProperties
<1>3. <<e>> \in Seq(S) /\ Len(<<e>>) = 1 /\ <<e>>[1] = e
  OBVIOUS
<1>4. InsertAt(s, k, e) = a \o <<e>> \o b
  BY DEF InsertAt
<1> HIDE DEF a, b
<1>5. /\ a \o <<e>> \in Seq(S) /\ Len(a \o <<e>>) = k
      /\ \A i \in 1 .. k : (a \o <<e>>)[i] = IF i < k THEN s[i] ELSE e
  BY <1>1, <1>3, ConcatProperties
<1> DEFINE c == a \o <<e>>
<1> HIDE DEF c
<1>6. /\ c \o b \in Seq(S) /\ Len(c \o b) = Len(s) + 1
      /\ \A i \in 1 .. Len(s) + 1 : (c \o b)[i] = IF i <= k THEN c[i] ELSE b[i - k]
  <2>1. c \in Seq(S) /\ Len(c) = k
    BY <1>5 DEF c
  <2> QED BY <1>2, <2>1, ConcatProperties
<1> QED BY <1>2, <1>4, <1>5, <1>6 DEF c

-----------------------------------------------------------------------------
(* The order of versions.                                                  *)

\* The first place where two lists of components differ decides.
Less(a, b) ==
    \E k \in 1 .. Len(b) :
        /\ k <= Len(a) + 1
        /\ \A m \in 1 .. k - 1 : a[m] = b[m]
        /\ k <= Len(a) => a[k] < b[k]

\* CompareComponents decides whether a list is less, equal or greater.
LEMMA CompareComponentsLess ==
  ASSUME NEW a \in Seq(Nat), NEW b \in Seq(Nat)
  PROVE  /\ CompareComponents(a, b) \in {-1, 0, 1}
         /\ CompareComponents(a, b) = 0 <=> a = b
         /\ CompareComponents(a, b) = -1 <=> Less(a, b)
         /\ CompareComponents(a, b) = -1 <=> CompareComponents(b, a) = 1
<1> DEFINE differ == {i \in DOMAIN a \cap DOMAIN b : a[i] # b[i]}
<1>1. DOMAIN a = 1 .. Len(a) /\ DOMAIN b = 1 .. Len(b) /\ Len(a) \in Nat /\ Len(b) \in Nat
  OBVIOUS
<1>a. Len(a) \in Nat /\ Len(b) \in Nat
  OBVIOUS
<1>2. /\ \A i \in 1 .. Len(a) : a[i] \in Nat
      /\ \A i \in 1 .. Len(b) : b[i] \in Nat
  OBVIOUS
<1>3. {i \in DOMAIN b \cap DOMAIN a : b[i] # a[i]} = differ
  OBVIOUS
<1>4. CASE differ = {}
  <2>1. CompareComponents(a, b) = Sign(Len(a) - Len(b))
    BY <1>4 DEF CompareComponents
  <2>2. CompareComponents(b, a) = Sign(Len(b) - Len(a))
    BY <1>3, <1>4 DEF CompareComponents
  <2>3. \A i \in 1 .. Len(a) : i <= Len(b) => a[i] = b[i]
    BY <1>1, <1>4
  <2>4. a = b <=> Len(a) = Len(b)
    <3>1. ASSUME Len(a) = Len(b) PROVE a = b
      BY <1>1, <2>3, <3>1, SeqEqual
    <3> QED BY <3>1
  <2>5. Less(a, b) <=> Len(a) < Len(b)
    <3>1. ASSUME Len(a) < Len(b) PROVE Less(a, b)
      <4> DEFINE k == Len(a) + 1
      <4>1. k \in 1 .. Len(b) /\ k <= Len(a) + 1 /\ ~(k <= Len(a))
        BY <1>1, <3>1
      <4>2. \A m \in 1 .. k - 1 : a[m] = b[m]
        BY <1>1, <2>3, <3>1
      <4> QED BY <4>1, <4>2 DEF Less
    <3>2. ASSUME Less(a, b) PROVE Len(a) < Len(b)
      <4>1. PICK k \in 1 .. Len(b) : k <= Len(a) + 1 /\ (k <= Len(a) => a[k] < b[k])
        BY <3>2 DEF Less
      <4>2. ~(k <= Len(a))
        BY <1>1, <1>2, <2>3, <4>1
      <4> QED BY <1>1, <4>1, <4>2
    <3> QED BY <3>1, <3>2
  <2>6. \A m, n \in Nat :
           Sign(m - n) = IF m < n THEN -1 ELSE IF n < m THEN 1 ELSE 0
    BY DEF Sign
  <2>7. CompareComponents(a, b) =
           IF Len(a) < Len(b) THEN -1 ELSE IF Len(b) < Len(a) THEN 1 ELSE 0
    BY <1>1, <2>1, <2>6
  <2>8. CompareComponents(b, a) =
           IF Len(b) < Len(a) THEN -1 ELSE IF Len(a) < Len(b) THEN 1 ELSE 0
    BY <1>1, <2>2, <2>6
  <2>9. Len(a) < Len(b) \/ Len(b) < Len(a) <=> Len(a) # Len(b)
    BY <1>a
  <2>10. CompareComponents(a, b) = 0 <=> Len(a) = Len(b)
    BY <2>7, <2>9
  <2>11. CompareComponents(a, b) = -1 <=> Less(a, b)
    BY <1>1, <2>5, <2>7
  <2>12. CompareComponents(a, b) = -1 <=> CompareComponents(b, a) = 1
    BY <1>1, <2>7, <2>8
  <2> QED BY <2>4, <2>7, <2>10, <2>11, <2>12
<1>5. CASE differ # {}
  <2> DEFINE i == Min(differ)
  <2>1. i \in differ /\ \A y \in differ : i <= y
    <3>1. differ \subseteq Nat
      BY <1>1
    <3> HIDE DEF differ
    <3> QED BY <1>5, <3>1, MinNat
  <2>2. CompareComponents(a, b) = Sign(a[i] - b[i])
    BY <1>5 DEF CompareComponents
  <2>3. CompareComponents(b, a) = Sign(b[i] - a[i])
    BY <1>3, <1>5 DEF CompareComponents
  <2> HIDE DEF i
  <2>4. i \in 1 .. Len(a) /\ i \in 1 .. Len(b) /\ a[i] # b[i] /\ a[i] \in Nat /\ b[i] \in Nat
    BY <1>1, <1>2, <2>1
  <2>5. \A m \in 1 .. i - 1 : a[m] = b[m]
    <3> SUFFICES ASSUME NEW m \in 1 .. i - 1, a[m] # b[m] PROVE FALSE
      OBVIOUS
    <3>1. m \in DOMAIN a \cap DOMAIN b /\ ~(i <= m)
      BY <1>1, <2>4
    <3>2. m \in differ
      BY <3>1
    <3> QED BY <2>1, <3>1, <3>2
  <2>6. a[i] < b[i] => Less(a, b)
    BY <2>4, <2>5 DEF Less
  <2>7. ASSUME Less(a, b) PROVE a[i] < b[i]
    <3>1. PICK k \in 1 .. Len(b) : /\ k <= Len(a) + 1
                                   /\ \A m \in 1 .. k - 1 : a[m] = b[m]
                                   /\ k <= Len(a) => a[k] < b[k]
      BY <2>7 DEF Less
    <3>2. k <= i
      BY <1>1, <2>4, <3>1
    <3>3. a[k] < b[k] /\ k \in 1 .. Len(a)
      BY <1>1, <2>4, <3>1, <3>2
    <3>4. ~(k < i)
      BY <1>1, <1>2, <2>4, <2>5, <3>3
    <3>5. k = i
      BY <2>4, <3>2, <3>4
    <3> QED BY <3>3, <3>5
  <2> QED BY <2>2, <2>3, <2>4, <2>6, <2>7 DEF Sign
<1> QED BY <1>4, <1>5

\* This order is transitive.
LEMMA LessTransitive ==
  ASSUME NEW a \in Seq(Nat), NEW b \in Seq(Nat), NEW c \in Seq(Nat), Less(a, b), Less(b, c)
  PROVE  Less(a, c)
<1>1. Len(a) \in Nat /\ Len(b) \in Nat /\ Len(c) \in Nat
  OBVIOUS
<1>2. /\ \A i \in 1 .. Len(a) : a[i] \in Nat
      /\ \A i \in 1 .. Len(b) : b[i] \in Nat
      /\ \A i \in 1 .. Len(c) : c[i] \in Nat
  OBVIOUS
<1>3. PICK j \in 1 .. Len(b) : /\ j <= Len(a) + 1
                               /\ \A m \in 1 .. j - 1 : a[m] = b[m]
                               /\ j <= Len(a) => a[j] < b[j]
  BY DEF Less
<1>4. PICK k \in 1 .. Len(c) : /\ k <= Len(b) + 1
                               /\ \A m \in 1 .. k - 1 : b[m] = c[m]
                               /\ k <= Len(b) => b[k] < c[k]
  BY DEF Less
<1>5. CASE j <= k
  <2>1. j \in 1 .. Len(c) /\ j <= Len(a) + 1
    BY <1>1, <1>3, <1>4, <1>5
  <2>2. \A m \in 1 .. j - 1 : a[m] = c[m]
    BY <1>1, <1>3, <1>4, <1>5
  <2>3. j <= Len(a) => a[j] < c[j]
    <3>1. CASE j = k
      BY <1>1, <1>2, <1>3, <1>4, <3>1
    <3>2. CASE j < k
      BY <1>1, <1>2, <1>3, <1>4, <3>2
    <3> QED BY <1>5, <3>1, <3>2
  <2> QED BY <2>1, <2>2, <2>3 DEF Less
<1>6. CASE k < j
  <2>1. k <= Len(a)
    BY <1>1, <1>3, <1>4, <1>6
  <2>2. \A m \in 1 .. k - 1 : a[m] = c[m]
    BY <1>1, <1>3, <1>4, <1>6
  <2>3. a[k] < c[k]
    BY <1>1, <1>2, <1>3, <1>4, <1>6
  <2>4. k \in 1 .. Len(c) /\ k <= Len(a) + 1
    BY <1>1, <1>4, <2>1
  <2> QED BY <2>2, <2>3, <2>4 DEF Less
<1> QED BY <1>5, <1>6

\* So lists of components are totally ordered.
LEMMA ComponentOrder ==
  ASSUME NEW a \in Seq(Nat), NEW b \in Seq(Nat), NEW c \in Seq(Nat),
         CompareComponents(a, b) <= 0, CompareComponents(b, c) <= 0
  PROVE  /\ CompareComponents(a, c) <= 0
         /\ CompareComponents(a, b) < 0 \/ CompareComponents(b, c) < 0
               => CompareComponents(a, c) < 0
<1>1. /\ CompareComponents(a, b) = 0 => a = b
      /\ CompareComponents(b, c) = 0 => b = c
      /\ CompareComponents(a, b) \in {-1, 0}
      /\ CompareComponents(b, c) \in {-1, 0}
  BY CompareComponentsLess
<1>2. CASE a = b
  BY <1>1, <1>2, CompareComponentsLess
<1>3. CASE b = c
  BY <1>1, <1>3, CompareComponentsLess
<1>4. CASE a # b /\ b # c
  <2>1. CompareComponents(a, b) = -1 /\ CompareComponents(b, c) = -1
    BY <1>1, <1>4
  <2>2. Less(a, c)
    BY <2>1, CompareComponentsLess, LessTransitive
  <2>3. CompareComponents(a, c) = -1
    BY <2>2, CompareComponentsLess
  <2> QED BY <2>3
<1> QED BY <1>2, <1>3, <1>4

\* What is compared of a version.
Release(v) == ComponentValues(v.rel)

\* Components are natural numbers.
LEMMA ComponentTypes ==
  ASSUME NEW v \in Texts
  PROVE  Components(v) \in Seq(Nat) /\ Release(v) \in Seq(Nat)
<1>1. ASSUME NEW s \in Seq(Nat) PROVE ComponentValues(s) \in Seq(Nat)
  <2>1. Len(s) \in Nat /\ DOMAIN s = 1 .. Len(s) /\ \A i \in 1 .. Len(s) : s[i] \in Nat
    OBVIOUS
  <2>2. ComponentValues(s) \in [1 .. Len(s) -> Nat]
    BY <2>1 DEF ComponentValues
  <2> QED BY <2>1, <2>2, SeqDef
<1>2. (IF v.epoch = NoEpoch THEN 0 ELSE v.epoch) \in Nat
  BY DEF Texts
<1>3. v.parts \in Seq(Nat) /\ v.rel \in Seq(Nat)
  BY DEF Texts
<1>4. <<IF v.epoch = NoEpoch THEN 0 ELSE v.epoch>> \o v.parts \in Seq(Nat)
  BY <1>2, <1>3
<1> QED BY <1>1, <1>3, <1>4 DEF Components, Release

\* A version without a release.
Bare(v) == v.kind = "text" /\ v.rel = <<>>

\* Compare by the kinds of the versions.
LEMMA CompareKinds ==
  ASSUME NEW a \in Versions, NEW b \in Versions
  PROVE  /\ a \in Texts <=> a.kind = "text"
         /\ a.kind \in {"min", "text", "max"}
         /\ a.kind = "text" /\ b.kind = "text" =>
              Compare(a, b) =
                 IF CompareComponents(Components(a), Components(b)) # 0 \/ Bare(a) \/ Bare(b)
                 THEN CompareComponents(Components(a), Components(b))
                 ELSE CompareComponents(Release(a), Release(b))
         /\ a.kind # "text" \/ b.kind # "text" =>
              Compare(a, b) = Sign(Rank(a) - Rank(b))
<1>1. a.kind \in {"min", "text", "max"} /\ (a \in Texts <=> a.kind = "text")
  BY DEF Versions, Texts, MinVer, MaxVer, NoVersion, Text
<1>2. b.kind \in {"min", "text", "max"}
  BY DEF Versions, Texts, MinVer, MaxVer, NoVersion, Text
<1>3. {a.kind, b.kind} # {"text"} <=> a.kind # "text" \/ b.kind # "text"
  BY <1>1, <1>2
<1> QED BY <1>1, <1>3 DEF Compare, Bare, Release

\* Compare is antisymmetric.
LEMMA CompareSwap ==
  ASSUME NEW a \in Versions, NEW b \in Versions
  PROVE  /\ Compare(a, b) \in {-1, 0, 1}
         /\ Compare(a, b) = -1 <=> Compare(b, a) = 1
         /\ Compare(a, b) = 0 <=> Compare(b, a) = 0
<1>1. CASE a.kind = "text" /\ b.kind = "text"
  <2>1. /\ Components(a) \in Seq(Nat) /\ Components(b) \in Seq(Nat)
        /\ Release(a) \in Seq(Nat) /\ Release(b) \in Seq(Nat)
    BY <1>1, CompareKinds, ComponentTypes
  <2>2. \A s, t \in Seq(Nat) :
           /\ CompareComponents(s, t) \in {-1, 0, 1}
           /\ CompareComponents(s, t) = -1 <=> CompareComponents(t, s) = 1
           /\ CompareComponents(s, t) = 0 <=> CompareComponents(t, s) = 0
    BY CompareComponentsLess
  <2>3. Compare(a, b) =
           IF CompareComponents(Components(a), Components(b)) # 0 \/ Bare(a) \/ Bare(b)
           THEN CompareComponents(Components(a), Components(b))
           ELSE CompareComponents(Release(a), Release(b))
    BY <1>1, CompareKinds
  <2>4. Compare(b, a) =
           IF CompareComponents(Components(b), Components(a)) # 0 \/ Bare(b) \/ Bare(a)
           THEN CompareComponents(Components(b), Components(a))
           ELSE CompareComponents(Release(b), Release(a))
    BY <1>1, CompareKinds
  <2> QED BY <2>1, <2>2, <2>3, <2>4
<1>2. CASE a.kind # "text" \/ b.kind # "text"
  <2>1. Rank(a) \in {-1, 0, 1} /\ Rank(b) \in {-1, 0, 1}
    BY CompareKinds DEF Rank
  <2> QED BY <1>2, <2>1, CompareKinds DEF Sign
<1> QED BY <1>1, <1>2

\* Compare of versioncompare is transitive, unless a version without a release is
\* between two that have one and equal to both; and it stays strict unless the
\* release is missing at the end.
THEOREM CompareTransitive ==
  ASSUME NEW a \in Versions, NEW b \in Versions, NEW c \in Versions,
         Compare(a, b) <= 0, Compare(b, c) <= 0
  PROVE  /\ \/ ~Bare(b) \/ Bare(a) \/ Bare(c)
            \/ Compare(a, b) < 0 \/ Compare(b, c) < 0
            => Compare(a, c) <= 0
         /\ Compare(a, b) < 0 /\ (Bare(c) => Bare(b)) => Compare(a, c) < 0
         /\ Compare(b, c) < 0 /\ (Bare(a) => Bare(b)) => Compare(a, c) < 0
         /\ Compare(a, b) < 0 /\ Compare(b, c) < 0 => Compare(a, c) < 0
<1>1. CASE a.kind = "text" /\ b.kind = "text" /\ c.kind = "text"
  <2>1. /\ Components(a) \in Seq(Nat) /\ Components(b) \in Seq(Nat)
        /\ Components(c) \in Seq(Nat)
        /\ Release(a) \in Seq(Nat) /\ Release(b) \in Seq(Nat) /\ Release(c) \in Seq(Nat)
    BY <1>1, CompareKinds, ComponentTypes
  <2> DEFINE Cab == CompareComponents(Components(a), Components(b))
             Cbc == CompareComponents(Components(b), Components(c))
             Cac == CompareComponents(Components(a), Components(c))
             Rab == CompareComponents(Release(a), Release(b))
             Rbc == CompareComponents(Release(b), Release(c))
             Rac == CompareComponents(Release(a), Release(c))
  <2>2. /\ Compare(a, b) = IF Cab # 0 \/ Bare(a) \/ Bare(b) THEN Cab ELSE Rab
        /\ Compare(b, c) = IF Cbc # 0 \/ Bare(b) \/ Bare(c) THEN Cbc ELSE Rbc
        /\ Compare(a, c) = IF Cac # 0 \/ Bare(a) \/ Bare(c) THEN Cac ELSE Rac
    BY <1>1, CompareKinds
  <2>3. Cab \in {-1, 0, 1} /\ Cbc \in {-1, 0, 1} /\ Cac \in {-1, 0, 1}
    BY <2>1, CompareComponentsLess
  <2>4. Rab \in {-1, 0, 1} /\ Rbc \in {-1, 0, 1} /\ Rac \in {-1, 0, 1}
    BY <2>1, CompareComponentsLess
  <2>5. Cab <= 0 /\ Cbc <= 0 => Cac <= 0 /\ (Cab < 0 \/ Cbc < 0 => Cac < 0)
    BY <2>1, ComponentOrder
  <2>6. Rab <= 0 /\ Rbc <= 0 => Rac <= 0 /\ (Rab < 0 \/ Rbc < 0 => Rac < 0)
    BY <2>1, ComponentOrder
  <2> HIDE DEF Cab, Cbc, Cac, Rab, Rbc, Rac
  <2>7. Cab <= 0 /\ Cbc <= 0
    BY <2>2, <2>3
  <2>8. Cac = 0 => Cab = 0 /\ Cbc = 0
    BY <2>3, <2>5, <2>7
  <2> QED BY <2>2, <2>3, <2>4, <2>5, <2>6, <2>7, <2>8
<1>2. CASE a.kind # "text" \/ b.kind # "text" \/ c.kind # "text"
  <2>1. \A v \in Versions :
           /\ v.kind \in {"min", "text", "max"}
           /\ Rank(v) = IF v.kind = "min" THEN -1 ELSE IF v.kind = "max" THEN 1 ELSE 0
    BY CompareKinds DEF Rank
  <2>2. \A v, w \in Versions : v.kind # "text" \/ w.kind # "text" =>
           Compare(v, w) = Sign(Rank(v) - Rank(w))
    BY CompareKinds
  <2>3. \A v, w \in Versions : v.kind # "text" \/ w.kind # "text" =>
           /\ Compare(v, w) <= 0 <=> Rank(v) <= Rank(w)
           /\ Compare(v, w) < 0 <=> Rank(v) < Rank(w)
    BY <2>1, <2>2 DEF Sign
  <2>4. \A v, w \in Versions : v.kind = "text" /\ w.kind = "text" => Compare(v, w) \in {-1, 0, 1}
    BY CompareSwap
  <2> QED BY <1>2, <2>1, <2>3, <2>4 DEF Bare
<1> QED BY <1>1, <1>2

-----------------------------------------------------------------------------
(* The requirements of a spec file.                                        *)

\* Where dedupPackageVersionArray starts.
None == PackageVer("", NoVersion, "", NoVersion)

\* What it comes to for one requirement and for two.
LEMMA DedupCases ==
  ASSUME NEW reqs \in Seq(Conditions \X Texts)
  PROVE  /\ Len(reqs) = 1 =>
              dedupPackageVersionArray(reqs) = addRequirement(None, reqs[1])
         /\ Len(reqs) = 2 =>
              dedupPackageVersionArray(reqs) =
                 addRequirement(addRequirement(None, reqs[1]), reqs[2])
<1> DEFINE Fold(g) == [s \in SUBSET DOMAIN reqs |->
                        IF s = {} THEN None
                        ELSE addRequirement(g[s \ {Max(s)}], reqs[Max(s)])]
<1>1. dedupPackageVersionArray(reqs) = (CHOOSE g : g = Fold(g))[DOMAIN reqs]
  BY DEF dedupPackageVersionArray, FoldLeft, MapThenFoldSet, None
<1>2. Max({1}) = 1 /\ Max({2}) = 2 /\ Max({1, 2}) = 2
  BY DEF Max
<1>3. {1} \ {1} = {} /\ {2} \ {2} = {} /\ {1, 2} \ {2} = {1}
  OBVIOUS
<1> DEFINE one == addRequirement(None, reqs[1])
           other == addRequirement(None, reqs[2])
           two == addRequirement(one, reqs[2])
           f == [s \in SUBSET DOMAIN reqs |->
                   IF s = {} THEN None ELSE IF s = {1} THEN one
                   ELSE IF s = {2} THEN other ELSE two]
<1>4. ASSUME Len(reqs) \in 1..2 PROVE f = Fold(f)
  <2>1. \A s \in SUBSET DOMAIN reqs : s \in {{}, {1}, {2}, {1, 2}}
    BY <1>4
  <2> SUFFICES ASSUME NEW s \in SUBSET DOMAIN reqs
               PROVE  f[s] = Fold(f)[s]
    OBVIOUS
  <2>2. CASE s = {}
    BY <2>2
  <2>3. CASE s = {1}
    <3>1. f[s] = one /\ f[{}] = None
      BY <2>3
    <3>2. Fold(f)[s] = addRequirement(f[s \ {Max(s)}], reqs[Max(s)])
      BY <2>3
    <3> QED BY <1>2, <1>3, <2>3, <3>1, <3>2
  <2>4. CASE s = {2}
    <3>1. f[s] = other /\ f[{}] = None
      BY <2>4
    <3>2. Fold(f)[s] = addRequirement(f[s \ {Max(s)}], reqs[Max(s)])
      BY <2>4
    <3> QED BY <1>2, <1>3, <2>4, <3>1, <3>2
  <2>5. CASE s = {1, 2}
    <3>0. s # {} /\ s # {1} /\ s # {2}
      <4>1. 1 \in s /\ 2 \in s /\ 2 \notin {1} /\ 1 \notin {2}
        BY <2>5
      <4> HIDE DEF f
      <4> QED BY <4>1
    <3>1. f[s] = two
      BY <3>0
    <3>2. f[{1}] = one
      BY <2>5
    <3>3. Fold(f)[s] = addRequirement(f[s \ {Max(s)}], reqs[Max(s)])
      BY <2>5
    <3> QED BY <1>2, <1>3, <2>5, <3>1, <3>2, <3>3
  <2> QED BY <2>1, <2>2, <2>3, <2>4, <2>5
<1> DEFINE h == CHOOSE g : g = Fold(g)
<1>5. ASSUME Len(reqs) \in 1..2 PROVE h = Fold(h)
  <2> HIDE DEF f, Fold
  <2> QED BY <1>4, <1>5
<1>6. dedupPackageVersionArray(reqs) = h[DOMAIN reqs]
  BY <1>1
<1> HIDE DEF h
<1>7. ASSUME Len(reqs) \in 1..2 PROVE h[{}] = None /\ h[{1}] = one
  <2>1. {} \in SUBSET DOMAIN reqs /\ {1} \in SUBSET DOMAIN reqs
    BY <1>7
  <2>2. h[{}] = Fold(h)[{}] /\ h[{1}] = Fold(h)[{1}]
    BY <1>5, <1>7
  <2>3. h[{}] = None
    BY <2>1, <2>2
  <2>4. Fold(h)[{1}] = addRequirement(h[{1} \ {Max({1})}], reqs[Max({1})])
    BY <2>1
  <2> QED BY <1>2, <1>3, <2>2, <2>3, <2>4
<1>8. ASSUME Len(reqs) = 2 PROVE h[{1, 2}] = two
  <2>1. {1, 2} \in SUBSET DOMAIN reqs
    BY <1>8
  <2>2. h[{1, 2}] = Fold(h)[{1, 2}]
    BY <1>5, <1>8
  <2>3. Fold(h)[{1, 2}] = addRequirement(h[{1, 2} \ {Max({1, 2})}], reqs[Max({1, 2})])
    BY <2>1
  <2>4. h[{1}] = one
    BY <1>7, <1>8
  <2> HIDE DEF Fold, one
  <2> QED BY <1>2, <1>3, <2>2, <2>3, <2>4
<1>9. ASSUME Len(reqs) = 1 PROVE DOMAIN reqs = {1}
  BY <1>9
<1>10. ASSUME Len(reqs) = 2 PROVE DOMAIN reqs = {1, 2}
  BY <1>10
<1> HIDE DEF one, two, Fold, f
<1>11. Len(reqs) = 1 => dedupPackageVersionArray(reqs) = one
  BY <1>6, <1>7, <1>9
<1>12. Len(reqs) = 2 => dedupPackageVersionArray(reqs) = two
  BY <1>6, <1>8, <1>10
<1> QED BY <1>11, <1>12 DEF one, two

\* A condition is a lower bound, an upper bound or an equality.
LEMMA ConditionCases ==
  ASSUME NEW c \in Conditions
  PROVE  /\ lowerBound(c) \/ upperBound(c) \/ equals(c)
         /\ lowerBound(c) => ~upperBound(c) /\ ~equals(c)
         /\ upperBound(c) => ~equals(c)
         /\ equals(c) => canEqual(c)
BY DEF Conditions, lowerBound, upperBound, equals, canEqual

\* What each condition means.
LEMMA ConditionMeaning ==
  ASSUME NEW c \in Conditions, NEW v \in Versions, NEW w \in Versions
  PROVE  MeetsCondition(v, c, w) <=>
           \/ lowerBound(c) /\ Compare(v, w) > 0
           \/ upperBound(c) /\ Compare(v, w) < 0
           \/ canEqual(c) /\ Compare(v, w) = 0
<1>1. Compare(v, w) \in {-1, 0, 1}
  BY CompareSwap
<1> USE DEF lowerBound, upperBound, canEqual
<1>2. CASE c = "<"
  <2>1. MeetsCondition(v, c, w) <=> Compare(v, w) < 0
    BY <1>2, Zenon DEF MeetsCondition
  <2> QED BY <1>2, <2>1
<1>3. CASE c = "<="
  <2>1. MeetsCondition(v, c, w) <=> Compare(v, w) <= 0
    BY <1>3, Zenon DEF MeetsCondition
  <2> QED BY <1>1, <1>3, <2>1
<1>4. CASE c = ">"
  <2>1. MeetsCondition(v, c, w) <=> Compare(v, w) > 0
    BY <1>4, Zenon DEF MeetsCondition
  <2> QED BY <1>4, <2>1
<1>5. CASE c = ">="
  <2>1. MeetsCondition(v, c, w) <=> Compare(v, w) >= 0
    BY <1>5, Zenon DEF MeetsCondition
  <2> QED BY <1>1, <1>5, <2>1
<1>6. CASE c \in {"=", ""}
  <2>1. MeetsCondition(v, c, w) <=> Compare(v, w) = 0
    BY <1>6, Zenon DEF MeetsCondition
  <2> QED BY <1>6, <2>1
<1> QED BY <1>2, <1>3, <1>4, <1>5, <1>6 DEF Conditions

\* A version meets one condition, and both of a PackageVer.
Holds(v, c, w) == w = NoVersion \/ MeetsCondition(v, c, w)
MeetsBoth(v, p) == Holds(v, p.cond, p.ver) /\ Holds(v, p.scond, p.sver)

\* The empty version and the empty condition are of the types.
LEMMA NoVersionType == NoVersion \in Texts /\ "" \in Conditions
<1>1. <<>> \in Seq(Nat)
  OBVIOUS
<1> QED BY <1>1 DEF NoVersion, Text, Texts, NoEpoch, Conditions

\* The first requirement, and one more after a first.
LEMMA AddRequirements ==
  ASSUME NEW c \in Conditions, NEW v \in Texts, NEW r \in Conditions \X Texts
  PROVE  /\ addRequirement(None, r) = PackageVer(r[1], r[2], "", NoVersion)
         /\ addRequirement(PackageVer(c, v, "", NoVersion), r) =
              IF v = NoVersion THEN PackageVer(r[1], r[2], "", NoVersion)
              ELSE PackageVer(c, v, r[1], r[2])
<1> USE DEF PackageVer
<1>1. addRequirement(None, r) = PackageVer(r[1], r[2], "", NoVersion)
  BY DEF addRequirement, None
<1>2. CASE v = NoVersion
  <2>1. addRequirement(PackageVer(c, v, "", NoVersion), r) =
           [PackageVer(c, v, "", NoVersion) EXCEPT !.cond = r[1], !.ver = r[2]]
    BY <1>2 DEF addRequirement
  <2> QED BY <1>1, <1>2, <2>1
<1>3. CASE v # NoVersion
  <2>1. addRequirement(PackageVer(c, v, "", NoVersion), r) =
           [PackageVer(c, v, "", NoVersion) EXCEPT !.scond = r[1], !.sver = r[2]]
    BY <1>3 DEF addRequirement
  <2> QED BY <1>1, <1>3, <2>1
<1> QED BY <1>2, <1>3

\* The fields of a PackageVer.
LEMMA PackageVerType ==
  ASSUME NEW c \in Conditions, NEW v \in Texts, NEW sc \in Conditions, NEW sv \in Texts
  PROVE  /\ PackageVer(c, v, sc, sv) \in PackageVers
         /\ PackageVer(c, v, sc, sv).cond = c /\ PackageVer(c, v, sc, sv).ver = v
         /\ PackageVer(c, v, sc, sv).scond = sc /\ PackageVer(c, v, sc, sv).sver = sv
BY DEF PackageVer, PackageVers

-----------------------------------------------------------------------------
(* Intervals.                                                              *)

\* Every version lies between the two bounds.
LEMMA BoundVersions ==
  /\ MinVer \in Versions /\ MaxVer \in Versions /\ Texts \subseteq Versions
  /\ Compare(MinVer, MinVer) = 0 /\ Compare(MaxVer, MaxVer) = 0
  /\ Compare(MinVer, MaxVer) = -1 /\ Compare(MaxVer, MinVer) = 1
  /\ \A v \in Texts : /\ Compare(v, MinVer) = 1 /\ Compare(MinVer, v) = -1
                      /\ Compare(v, MaxVer) = -1 /\ Compare(MaxVer, v) = 1
                      /\ Compare(v, v) = 0
<1>1. MinVer \in Versions /\ MaxVer \in Versions /\ Texts \subseteq Versions
  BY DEF Versions
<1>2. MinVer.kind = "min" /\ MaxVer.kind = "max" /\ \A v \in Texts : v.kind = "text"
  BY DEF MinVer, MaxVer, NoVersion, Text, Texts
<1>3. Rank(MinVer) = -1 /\ Rank(MaxVer) = 1 /\ \A v \in Texts : Rank(v) = 0
  BY <1>2 DEF Rank
<1>4. \A v, w \in Versions : v.kind # "text" \/ w.kind # "text" =>
         Compare(v, w) = Sign(Rank(v) - Rank(w))
  BY CompareKinds
<1>5. \A v \in Texts : Compare(v, v) = 0
  BY <1>1, <1>2, CompareKinds, ComponentTypes, CompareComponentsLess
<1> QED BY <1>1, <1>2, <1>3, <1>4, <1>5 DEF Sign

\* A version lies in an interval.
Within(v, q) ==
    /\ Compare(v, q.low) > 0 \/ (Compare(v, q.low) = 0 /\ q.lowIn)
    /\ Compare(v, q.high) < 0 \/ (Compare(v, q.high) = 0 /\ q.highIn)

\* The lower bound of an interval is no higher than the upper one, and if they
\* compare as equal both belong to it.
Proper(q) ==
    /\ q.low \in Versions /\ q.high \in Versions
    /\ Compare(q.low, q.high) <= 0
    /\ Compare(q.low, q.high) = 0 => q.lowIn /\ q.highIn

\* The bounds of an interval that was put together from them.
LEMMA IntervalFields ==
  ASSUME NEW c, NEW v, NEW d, NEW w
  PROVE  /\ From(c, v).low = v /\ From(c, v).high = MaxVer
         /\ (From(c, v).lowIn <=> canEqual(c)) /\ From(c, v).highIn
         /\ UpTo(c, v).low = MinVer /\ UpTo(c, v).high = v
         /\ UpTo(c, v).lowIn /\ (UpTo(c, v).highIn <=> canEqual(c))
         /\ Exactly(v).low = v /\ Exactly(v).high = v
         /\ Exactly(v).lowIn /\ Exactly(v).highIn
         /\ AnyVersion.low = MinVer /\ AnyVersion.high = MaxVer
         /\ AnyVersion.lowIn /\ AnyVersion.highIn
         /\ Between(v, canEqual(c), w, canEqual(d)).low = v
         /\ Between(v, canEqual(c), w, canEqual(d)).high = w
         /\ Between(v, canEqual(c), w, canEqual(d)).lowIn <=> canEqual(c)
         /\ Between(v, canEqual(c), w, canEqual(d)).highIn <=> canEqual(d)
BY DEF From, UpTo, Exactly, AnyVersion, Between

\* One condition becomes the interval of the versions that meet it.
LEMMA SingleMeaning ==
  ASSUME NEW c \in Conditions, NEW w \in Texts
  PROVE  /\ Proper(SingleInterval(c, w))
         /\ SingleInterval(c, w).low \in Texts \cup {MinVer}
         /\ SingleInterval(c, w).high \in Texts \cup {MaxVer}
         /\ \A v \in Texts : Within(v, SingleInterval(c, w)) <=> MeetsCondition(v, c, w)
<1>1. w \in Versions /\ Compare(w, w) = 0
  BY BoundVersions
<1>a. /\ MinVer \in Versions /\ MaxVer \in Versions
      /\ Compare(MinVer, w) = -1 /\ Compare(w, MaxVer) = -1
  BY BoundVersions
<1>2. \A v \in Texts : /\ v \in Versions
                       /\ Compare(v, MinVer) = 1 /\ Compare(v, MaxVer) = -1
                       /\ Compare(v, w) \in {-1, 0, 1}
  BY <1>1, BoundVersions, CompareSwap
<1>b. \A v \in Texts : MeetsCondition(v, c, w) <=>
                            \/ lowerBound(c) /\ Compare(v, w) > 0
                            \/ upperBound(c) /\ Compare(v, w) < 0
                            \/ canEqual(c) /\ Compare(v, w) = 0
  BY <1>1, <1>2, ConditionMeaning
<1> DEFINE q == SingleInterval(c, w)
<1>3. CASE lowerBound(c)
  <2>1. q = From(c, w) /\ ~upperBound(c)
    BY <1>3, ConditionCases DEF SingleInterval
  <2> HIDE DEF q
  <2>2. q.low = w /\ q.high = MaxVer /\ (q.lowIn <=> canEqual(c)) /\ q.highIn
    BY <2>1, IntervalFields
  <2>3. Proper(q)
    BY <1>1, <1>a, <2>2 DEF Proper
  <2>4. \A v \in Texts : Within(v, q) <=>
              Compare(v, w) > 0 \/ (Compare(v, w) = 0 /\ canEqual(c))
    BY <1>2, <2>2 DEF Within
  <2> QED BY <1>b, <1>3, <2>1, <2>2, <2>3, <2>4 DEF q
<1>4. CASE upperBound(c)
  <2>1. q = UpTo(c, w) /\ ~lowerBound(c)
    BY <1>4, ConditionCases DEF SingleInterval
  <2> HIDE DEF q
  <2>2. q.low = MinVer /\ q.high = w /\ q.lowIn /\ (q.highIn <=> canEqual(c))
    BY <2>1, IntervalFields
  <2>3. Proper(q)
    BY <1>1, <1>a, <2>2 DEF Proper
  <2>4. \A v \in Texts : Within(v, q) <=>
              Compare(v, w) < 0 \/ (Compare(v, w) = 0 /\ canEqual(c))
    BY <1>2, <2>2 DEF Within
  <2> QED BY <1>b, <1>4, <2>1, <2>2, <2>3, <2>4 DEF q
<1>5. CASE equals(c)
  <2>1. q = Exactly(w) /\ ~lowerBound(c) /\ ~upperBound(c) /\ canEqual(c)
    BY <1>5, ConditionCases DEF SingleInterval
  <2> HIDE DEF q
  <2>2. q.low = w /\ q.high = w /\ q.lowIn /\ q.highIn
    BY <2>1, IntervalFields
  <2>3. Proper(q)
    BY <1>1, <2>2 DEF Proper
  <2>4. \A v \in Texts : Within(v, q) <=> Compare(v, w) = 0
    BY <1>2, <2>2 DEF Within
  <2> QED BY <1>b, <1>5, <2>1, <2>2, <2>3, <2>4 DEF q
<1> HIDE DEF q
<1> QED BY <1>3, <1>4, <1>5, ConditionCases DEF q

\* Two conditions, of which the first is on a version that is no higher, that
\* validatedIntervals accepts.
Compatible(lc, l, hc, h) ==
    /\ Compare(l, h) <= 0
    /\ Compare(l, h) < 0 => /\ ~upperBound(lc) \/ sameDirection(lc, hc)
                            /\ equals(lc) => upperBound(hc)
    /\ Compare(l, h) = 0 => sameDirection(lc, hc) \/ (canEqual(lc) /\ canEqual(hc))

\* They become an interval of the versions that meet both.  A version that
\* compares as equal to both may be within it and meet only one of them.
LEMMA DoubleMeaning ==
  ASSUME NEW lc \in Conditions, NEW l \in Texts, NEW hc \in Conditions, NEW h \in Texts,
         NEW q, q = DoubleInterval(lc, l, hc, h), Compatible(lc, l, hc, h)
  PROVE  /\ Proper(q) /\ q.low \in Texts \cup {MinVer} /\ q.high \in Texts \cup {MaxVer}
         /\ \A v \in Texts :
               (MeetsCondition(v, lc, l) /\ MeetsCondition(v, hc, h))
                  => Within(v, q)
         /\ \A v \in Texts :
               (Within(v, q) /\ Compare(l, h) < 0 /\ ~(Compare(v, l) = 0 /\ Compare(v, h) = 0))
                  => (MeetsCondition(v, lc, l) /\ MeetsCondition(v, hc, h))
         /\ \A v \in Texts :
               (/\ Compare(v, q.low) = 0 /\ Compare(v, q.high) = 0
                /\ ~(q.lowIn /\ q.highIn))
                  => (q.low = l /\ q.high = h)
<1>1. /\ l \in Versions /\ h \in Versions /\ MinVer \in Versions /\ MaxVer \in Versions
      /\ Compare(l, l) = 0 /\ Compare(h, h) = 0
      /\ Compare(MinVer, l) = -1 /\ Compare(h, MaxVer) = -1
  BY BoundVersions
<1>2. \A v \in Texts : /\ v \in Versions
                       /\ Compare(v, MinVer) = 1 /\ Compare(v, MaxVer) = -1
                       /\ Compare(v, l) \in {-1, 0, 1} /\ Compare(v, h) \in {-1, 0, 1}
  BY <1>1, BoundVersions, CompareSwap
<1>3. /\ \A v \in Texts : MeetsCondition(v, lc, l) <=>
                            \/ lowerBound(lc) /\ Compare(v, l) > 0
                            \/ upperBound(lc) /\ Compare(v, l) < 0
                            \/ canEqual(lc) /\ Compare(v, l) = 0
      /\ \A v \in Texts : MeetsCondition(v, hc, h) <=>
                            \/ lowerBound(hc) /\ Compare(v, h) > 0
                            \/ upperBound(hc) /\ Compare(v, h) < 0
                            \/ canEqual(hc) /\ Compare(v, h) = 0
  BY <1>1, <1>2, ConditionMeaning
<1>4. /\ lowerBound(lc) \/ upperBound(lc) \/ equals(lc)
      /\ lowerBound(lc) => ~upperBound(lc) /\ ~equals(lc)
      /\ upperBound(lc) => ~equals(lc)
      /\ equals(lc) => canEqual(lc)
  BY ConditionCases
<1>5. /\ lowerBound(hc) \/ upperBound(hc) \/ equals(hc)
      /\ lowerBound(hc) => ~upperBound(hc) /\ ~equals(hc)
      /\ upperBound(hc) => ~equals(hc)
      /\ equals(hc) => canEqual(hc)
  BY ConditionCases
<1>6. sameDirection(lc, hc) =>
         /\ equals(lc) <=> equals(hc)
         /\ lowerBound(lc) <=> lowerBound(hc)
         /\ upperBound(lc) <=> upperBound(hc)
  BY <1>4, <1>5 DEF sameDirection
<1>7. /\ Compare(l, h) \in {-1, 0} /\ Compare(h, l) \in {0, 1}
      /\ Compare(l, h) = 0 <=> Compare(h, l) = 0
  <2>1. Compare(l, h) <= 0
    BY DEF Compatible
  <2> QED BY <1>1, <2>1, CompareSwap
<1>8. ASSUME Compare(l, h) < 0, NEW v \in Texts, ~(Compare(v, l) = 0 /\ Compare(v, h) = 0)
      PROVE  /\ Compare(v, l) <= 0 => Compare(v, h) < 0
             /\ Compare(v, h) >= 0 => Compare(v, l) > 0
  <2>1. Compare(v, l) <= 0 => Compare(v, h) <= 0
    BY <1>1, <1>2, <1>8, CompareTransitive
  <2>2. Compare(v, l) < 0 => Compare(v, h) < 0
    BY <1>1, <1>2, <1>8, CompareTransitive
  <2> QED BY <1>2, <1>8, <2>1, <2>2
<1>9. CASE equals(lc)
  <2>1. q.low = l /\ q.high = l /\ q.lowIn /\ q.highIn
    BY <1>9, IntervalFields DEF DoubleInterval
  <2>2. Proper(q)
    BY <1>1, <2>1 DEF Proper
  <2>3. \A v \in Texts : Within(v, q) <=> Compare(v, l) = 0
    BY <1>2, <2>1 DEF Within
  <2>4. Compare(l, h) < 0 => upperBound(hc)
    BY <1>9 DEF Compatible
  <2> QED BY <1>2, <1>3, <1>4, <1>5, <1>8, <1>9, <2>1, <2>2, <2>3, <2>4
<1>10. CASE ~equals(lc) /\ equals(hc)
  <2>1. q.low = h /\ q.high = h /\ q.lowIn /\ q.highIn
    BY <1>10, IntervalFields DEF DoubleInterval
  <2>2. Proper(q)
    BY <1>1, <2>1 DEF Proper
  <2>3. \A v \in Texts : Within(v, q) <=> Compare(v, h) = 0
    BY <1>2, <2>1 DEF Within
  <2>4. Compare(l, h) < 0 => lowerBound(lc)
    BY <1>4, <1>6, <1>10 DEF Compatible
  <2> QED BY <1>2, <1>3, <1>4, <1>5, <1>8, <1>10, <2>1, <2>2, <2>3, <2>4
<1>11. CASE ~equals(lc) /\ ~equals(hc) /\ upperBound(lc)
  <2>1. q.low = MinVer /\ q.high = l /\ q.lowIn /\ (q.highIn <=> canEqual(lc))
    BY <1>11, IntervalFields DEF DoubleInterval
  <2>2. Proper(q)
    BY <1>1, <2>1 DEF Proper
  <2>3. \A v \in Texts : Within(v, q) <=>
            Compare(v, l) < 0 \/ (Compare(v, l) = 0 /\ canEqual(lc))
    BY <1>2, <2>1 DEF Within
  <2>4. Compare(l, h) < 0 => upperBound(hc)
    BY <1>6, <1>11 DEF Compatible
  <2> QED BY <1>2, <1>3, <1>4, <1>5, <1>8, <1>11, <2>1, <2>2, <2>3, <2>4
<1>12. CASE ~equals(lc) /\ ~equals(hc) /\ lowerBound(lc) /\ lowerBound(hc)
  <2>1. q.low = h /\ q.high = MaxVer /\ q.highIn /\ (q.lowIn <=> canEqual(hc))
    BY <1>4, <1>12, IntervalFields DEF DoubleInterval
  <2>2. Proper(q)
    BY <1>1, <2>1 DEF Proper
  <2>3. \A v \in Texts : Within(v, q) <=>
            Compare(v, h) > 0 \/ (Compare(v, h) = 0 /\ canEqual(hc))
    BY <1>2, <2>1 DEF Within
  <2> QED BY <1>2, <1>3, <1>4, <1>5, <1>8, <1>12, <2>1, <2>2, <2>3
<1>13. CASE lowerBound(lc) /\ upperBound(hc)
  <2>1. /\ q.low = l /\ q.high = h
        /\ q.lowIn <=> canEqual(lc)
        /\ q.highIn <=> canEqual(hc)
    BY <1>4, <1>5, <1>13, IntervalFields DEF DoubleInterval
  <2>2. Proper(q)
    <3>1. Compare(l, h) = 0 => canEqual(lc) /\ canEqual(hc)
      BY <1>4, <1>5, <1>6, <1>13 DEF Compatible
    <3> QED BY <1>1, <1>7, <2>1, <3>1 DEF Proper
  <2>3. \A v \in Texts : Within(v, q) <=>
            /\ Compare(v, l) > 0 \/ (Compare(v, l) = 0 /\ canEqual(lc))
            /\ Compare(v, h) < 0 \/ (Compare(v, h) = 0 /\ canEqual(hc))
    BY <2>1 DEF Within
  <2> QED BY <1>3, <1>4, <1>5, <1>13, <2>1, <2>2, <2>3
<1> QED BY <1>4, <1>5, <1>9, <1>10, <1>11, <1>12, <1>13

\* The interval of a request.
IsRequest(q) == Proper(q) /\ q.low \in Texts \cup {MinVer} /\ q.high \in Texts \cup {MaxVer}

\* Compare in both directions.
LEMMA CompareFacts ==
  /\ \A a, b \in Versions : /\ Compare(a, b) \in {-1, 0, 1}
                            /\ Compare(a, b) = -1 <=> Compare(b, a) = 1
                            /\ Compare(a, b) = 0 <=> Compare(b, a) = 0
  /\ \A v \in Versions : Compare(v, v) = 0
  /\ Texts \subseteq Versions /\ MinVer \in Versions /\ MaxVer \in Versions
  /\ \A v \in Texts \cup {MinVer} : Compare(v, MaxVer) = -1
  /\ \A v \in Texts \cup {MaxVer} : Compare(v, MinVer) = 1
BY CompareSwap, BoundVersions DEF Versions

\* One version that satisfies a request is within it, unless it compares as
\* equal to both of its bounds.
LEMMA ExactSatisfies ==
  ASSUME NEW v \in Texts, NEW q, IsRequest(q), Satisfies(Exactly(v), q)
  PROVE  \/ Within(v, q)
         \/ /\ Compare(v, q.low) = 0 /\ Compare(v, q.high) = 0
            /\ ~(q.lowIn /\ q.highIn)
<1> DEFINE i == Exactly(v)
           l == q.low
           h == q.high
<1>0. l \in Versions /\ h \in Versions /\ v \in Versions
  BY CompareFacts DEF IsRequest, Proper
<1>1. i.low = v /\ i.high = v /\ i.lowIn /\ i.highIn
  BY IntervalFields
<1> HIDE DEF i
<1>2. /\ Compare(v, l) \in {-1, 0, 1} /\ Compare(v, h) \in {-1, 0, 1}
      /\ Compare(v, l) = 0 <=> Compare(l, v) = 0
      /\ Compare(v, l) = 1 <=> Compare(l, v) = -1
      /\ Compare(v, l) = -1 <=> Compare(l, v) = 1
      /\ Compare(v, h) = 0 <=> Compare(h, v) = 0
      /\ Compare(v, h) = 1 <=> Compare(h, v) = -1
      /\ Compare(v, h) = -1 <=> Compare(h, v) = 1
  BY <1>0, CompareFacts
<1>3. Satisfies(i, q)
  BY DEF i
<1>4. /\ Compare(v, h) <= 0 /\ Compare(v, l) >= 0
      /\ \/ Compare(l, v) = 0 /\ q.lowIn
         \/ Compare(h, v) = 0 /\ q.highIn
         \/ Compare(l, v) < 0 /\ Compare(h, v) > 0
  BY <1>1, <1>2, <1>3 DEF Satisfies, versionInInterval
<1> QED BY <1>2, <1>4 DEF Within

\* CompareIntervals looks at the lower bounds first.
LEMMA CompareIntervalsLow ==
  ASSUME NEW a, NEW b
  PROVE  /\ Compare(a.low, b.low) # 0 => CompareIntervals(a, b) = Compare(a.low, b.low)
         /\ Compare(a.low, b.low) = 0 /\ a.lowIn # b.lowIn =>
               CompareIntervals(a, b) = IF a.lowIn THEN -1 ELSE 1
         /\ (/\ Compare(a.low, b.low) = 0 /\ a.lowIn = b.lowIn
             /\ Compare(a.high, b.high) # 0) =>
               CompareIntervals(a, b) = Compare(a.high, b.high)
<1>1. ASSUME Compare(a.low, b.low) # 0
      PROVE  CompareIntervals(a, b) = Compare(a.low, b.low)
  BY <1>1, Zenon DEF CompareIntervals
<1>2. ASSUME Compare(a.low, b.low) = 0, a.lowIn # b.lowIn
      PROVE  CompareIntervals(a, b) = IF a.lowIn THEN -1 ELSE 1
  BY <1>2, Zenon DEF CompareIntervals
<1>3. ASSUME Compare(a.low, b.low) = 0, a.lowIn = b.lowIn, Compare(a.high, b.high) # 0
      PROVE  CompareIntervals(a, b) = Compare(a.high, b.high)
  BY <1>3, Zenon DEF CompareIntervals
<1> QED BY <1>1, <1>2, <1>3

\* What the order of two entries says of their lower bounds.
LEMMA EntryOrder ==
  ASSUME NEW a, NEW b, a.low \in Versions, b.low \in Versions
  PROVE  /\ CompareIntervals(a, b) >= 0 => Compare(b.low, a.low) <= 0
         /\ ~(CompareIntervals(a, b) >= 0) => Compare(a.low, b.low) <= 0
<1>1. Compare(a.low, b.low) # 0 => CompareIntervals(a, b) = Compare(a.low, b.low)
  BY CompareIntervalsLow
<1>2. /\ Compare(a.low, b.low) \in {-1, 0, 1}
      /\ Compare(b.low, a.low) \in {-1, 0, 1}
      /\ Compare(b.low, a.low) = 1 <=> Compare(a.low, b.low) = -1
  BY CompareFacts
<1> QED BY <1>1, <1>2
=============================================================================
