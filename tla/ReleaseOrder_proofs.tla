------------------------- MODULE ReleaseOrder_proofs -------------------------
(***************************************************************************)
(* For every set of versions, every feed and both channels: the app's      *)
(* comparison is a total order; whatever the script's own calls newer, the *)
(* app's does too, so the updater never goes back; and on the stable       *)
(* channel both halves name the same release.                              *)
(***************************************************************************)
EXTENDS ReleaseOrder, WellFoundedInduction, TLAPS

(* A release outranks every pre-release. *)
LEMMA ReleaseOutranks ==
    ASSUME NEW b \in Seq(Ids), b # <<>> PROVE ComparePre(<<>>, b) = 1
  <1>1. Len(b) \in Nat /\ Len(b) > 0
    OBVIOUS
  <1> DEFINE longest == IF Len(<<>>) > Len(b) THEN Len(<<>>) ELSE Len(b)
             differ  == {i \in 1..longest :
                           i > Len(<<>>) \/ i > Len(b) \/ (<<>>)[i] # b[i]}
  <1>2. Len(<<>>) = 0
    OBVIOUS
  <1>3. 1 \in differ
    BY <1>1, <1>2
  <1>4. differ # {}
    BY <1>3
  <1>5. QED
    BY <1>4 DEF ComparePre, Sign

LEMMA NewerIsNewer ==
    ASSUME NEW a, NEW b, IsVersion(a), IsVersion(b), Newer(a, b)
    PROVE  CompareVersions(a, b) = 1
  <1>1. CASE NumbersLess(b, a)
    BY <1>1 DEF NumbersLess, CompareVersions, Sign, IsVersion
  <1>2. CASE SameNumbers(a, b) /\ ~IsPrerelease(a) /\ IsPrerelease(b)
    <2>1. a.pre = <<>> /\ b.pre \in Seq(Ids) /\ b.pre # <<>>
      BY <1>2 DEF IsPrerelease, IsVersion
    <2>2. ComparePre(a.pre, b.pre) = 1
      BY <2>1, ReleaseOutranks
    <2>3. QED
      BY <1>2, <2>2 DEF SameNumbers, CompareVersions
  <1>3. QED
    BY <1>1, <1>2 DEF Newer

LEMMA TypeStep == TypeOK /\ [Next]_vars => TypeOK'
  <1> SUFFICES ASSUME TypeOK, [Next]_vars PROVE TypeOK'
    OBVIOUS
  <1> USE DEF TypeOK
  <1>1. CASE Publish
    BY <1>1 DEF Publish
  <1>2. CASE Install
    BY <1>2 DEF Install, ScriptTarget, ScriptNewest, Offered
  <1>3. CASE SetChannel
    BY <1>3 DEF SetChannel
  <1>4. CASE UNCHANGED vars
    BY <1>4 DEF vars
  <1>5. QED
    BY <1>1, <1>2, <1>3, <1>4 DEF Next

(* What the script installs is newer than what runs, by the app's order.    *)
THEOREM NoDowngrade == Spec => NeverDowngrades
  <1>1. Init => TypeOK
    BY DEF Init, TypeOK
  <1>2. TypeOK /\ [Next]_vars
          => [current' # current => CompareVersions(current', current) > 0]_vars
    <2> SUFFICES ASSUME TypeOK, Next, current' # current
                 PROVE  CompareVersions(current', current) > 0
      BY DEF vars
    <2>1. PICK v \in ScriptTarget : current' = v
      BY DEF Next, Publish, Install, SetChannel
    <2>2. v \in Versions /\ current \in Versions
      BY DEF TypeOK, ScriptTarget, ScriptNewest, Offered
    <2>3. IsVersion(v) /\ IsVersion(current) /\ Newer(v, current)
      BY <2>1, <2>2, VersionsAssumption DEF ScriptTarget
    <2>4. QED
      BY <2>1, <2>3, NewerIsNewer
  <1>3. QED
    BY <1>1, <1>2, TypeStep, PTL DEF Spec, NeverDowngrades

-----------------------------------------------------------------------------
(* The first place where two lists of identifiers part.                      *)
Below == {pair \in Nat \X Nat : pair[1] < pair[2]}

LEMMA BelowWellFounded == IsWellFoundedOn(Below, Nat)
  BY NatLessThanWellFounded DEF OpToRel, Below

LEMMA Smallest ==
    ASSUME NEW T, T \subseteq Nat, T # {}
    PROVE  \E m \in T : \A n \in T : m <= n
  <1>1. PICK m \in T : \A n \in T : ~ (<<n, m>> \in Below)
    BY BelowWellFounded, WFMin
  <1>2. ASSUME NEW n \in T PROVE m <= n
    <2>1. n \in Nat /\ m \in Nat
      OBVIOUS
    <2>2. n < m => <<n, m>> \in Below
      BY <2>1 DEF Below
    <2>3. QED
      BY <1>1, <2>1, <2>2
  <1>3. QED
    BY <1>2

Longest(a, b) == IF Len(a) > Len(b) THEN Len(a) ELSE Len(b)

Differ(a, b) == {i \in 1..Longest(a, b) : i > Len(a) \/ i > Len(b) \/ a[i] # b[i]}

Parts(a, b, d) == d \in Differ(a, b) /\ \A i \in Differ(a, b) : d <= i

LEMMA SomewhereParts ==
    ASSUME NEW a \in Seq(Ids), NEW b \in Seq(Ids), a # b
    PROVE  \E d \in Nat : Parts(a, b, d)
  <1>1. Len(a) \in Nat /\ Len(b) \in Nat
    OBVIOUS
  <1>2. Differ(a, b) \subseteq Nat
    BY <1>1 DEF Differ, Longest
  <1>3. Differ(a, b) # {}
    <2>1. CASE Len(a) = Len(b)
      <3>1. PICK i \in 1..Len(a) : a[i] # b[i]
        BY <2>1
      <3>2. QED
        BY <1>1, <2>1, <3>1 DEF Differ, Longest
    <2>2. CASE Len(a) # Len(b)
      <3>1. Longest(a, b) \in Differ(a, b)
        BY <1>1, <2>2 DEF Differ, Longest
      <3>2. QED
        BY <3>1
    <2>3. QED
      BY <2>1, <2>2
  <1>4. PICK d \in Differ(a, b) : \A i \in Differ(a, b) : d <= i
    BY <1>2, <1>3, Smallest
  <1>5. QED
    BY <1>2, <1>4 DEF Parts

(* What it means for the lists, and what comparePre() makes of it.           *)
LEMMA PartsMeans ==
    ASSUME NEW a \in Seq(Ids), NEW b \in Seq(Ids), NEW d \in Nat
    PROVE  Parts(a, b, d) <=>
             /\ 1 <= d /\ d <= Longest(a, b)
             /\ d > Len(a) \/ d > Len(b) \/ a[d] # b[d]
             /\ \A i \in Nat : 1 <= i /\ i < d => i <= Len(a) /\ i <= Len(b) /\ a[i] = b[i]
  <1>1. Len(a) \in Nat /\ Len(b) \in Nat
    OBVIOUS
  <1>2. QED
    BY <1>1 DEF Parts, Differ, Longest

LEMMA PartsDecides ==
    ASSUME NEW a \in Seq(Ids), NEW b \in Seq(Ids), NEW d \in Nat, Parts(a, b, d)
    PROVE  ComparePre(a, b) =
             IF a = <<>> \/ b = <<>> THEN Sign(b = <<>>)
             ELSE IF d > Len(a) \/ d > Len(b) THEN Sign(d > Len(a))
             ELSE CompareId(a[d], b[d])
  <1> DEFINE first == CHOOSE i \in Differ(a, b) : \A j \in Differ(a, b) : i <= j
  <1>1. Differ(a, b) \subseteq Nat
    <2>1. Len(a) \in Nat /\ Len(b) \in Nat
      OBVIOUS
    <2>2. QED
      BY <2>1 DEF Differ, Longest
  <1>2. first \in Differ(a, b) /\ \A j \in Differ(a, b) : first <= j
    BY DEF Parts
  <1>3. first = d
    BY <1>1, <1>2 DEF Parts
  <1>4. Differ(a, b) # {}
    BY DEF Parts
  <1>5. ComparePre(a, b) =
             IF a = <<>> \/ b = <<>> THEN Sign(b = <<>>)
             ELSE IF first > Len(a) \/ first > Len(b) THEN Sign(first > Len(a))
             ELSE CompareId(a[first], b[first])
    BY <1>4 DEF ComparePre, Differ, Longest
  <1> HIDE DEF first
  <1>6. QED
    BY <1>3, <1>5

LEMMA EqualPre == ASSUME NEW a \in Seq(Ids) PROVE ComparePre(a, a) = 0
  <1>1. Len(a) \in Nat
    OBVIOUS
  <1>2. Differ(a, a) = {}
    BY <1>1 DEF Differ, Longest
  <1>3. QED
    BY <1>2 DEF ComparePre, Differ, Longest

LEMMA IdsOrdered ==
    /\ \A l, r \in Ids : l # r => /\ CompareId(l, r) \in {-1, 1}
                                /\ CompareId(l, r) = -CompareId(r, l)
    /\ \A l, m, r \in Ids : CompareId(l, m) = 1 /\ CompareId(m, r) = 1 /\ l # m /\ m # r
                                => CompareId(l, r) = 1 /\ l # r
  BY DEF Ids, CompareId, Sign

LEMMA PreFlips ==
    ASSUME NEW a \in Seq(Ids), NEW b \in Seq(Ids), a # b
    PROVE  ComparePre(a, b) \in {-1, 1} /\ ComparePre(a, b) = -ComparePre(b, a)
  <1>1. PICK d \in Nat : Parts(a, b, d)
    BY SomewhereParts
  <1>2. Parts(b, a, d)
    BY <1>1 DEF Parts, Differ, Longest
  <1>3. Len(a) \in Nat /\ Len(b) \in Nat
    OBVIOUS
  <1>4. /\ 1 <= d /\ d <= Longest(a, b)
        /\ d > Len(a) \/ d > Len(b) \/ a[d] # b[d]
    BY <1>1, PartsMeans
  <1>5. ComparePre(a, b) = IF a = <<>> \/ b = <<>> THEN Sign(b = <<>>)
                           ELSE IF d > Len(a) \/ d > Len(b) THEN Sign(d > Len(a))
                           ELSE CompareId(a[d], b[d])
    BY <1>1, PartsDecides
  <1>6. ComparePre(b, a) = IF b = <<>> \/ a = <<>> THEN Sign(a = <<>>)
                           ELSE IF d > Len(b) \/ d > Len(a) THEN Sign(d > Len(b))
                           ELSE CompareId(b[d], a[d])
    BY <1>2, PartsDecides
  <1>7. CASE a = <<>> \/ b = <<>>
    BY <1>5, <1>6, <1>7 DEF Sign
  <1>8. CASE a # <<>> /\ b # <<>> /\ (d > Len(a) \/ d > Len(b))
    BY <1>3, <1>4, <1>5, <1>6, <1>8 DEF Sign, Longest
  <1>9. CASE a # <<>> /\ b # <<>> /\ d <= Len(a) /\ d <= Len(b)
    <2>1. a[d] \in Ids /\ b[d] \in Ids /\ a[d] # b[d]
      BY <1>3, <1>4, <1>9
    <2>2. QED
      BY <1>3, <1>5, <1>6, <1>9, <2>1, IdsOrdered
  <1>10. QED
    BY <1>3, <1>7, <1>8, <1>9

LEMMA PreTransitive ==
    ASSUME NEW a \in Seq(Ids), NEW b \in Seq(Ids), NEW c \in Seq(Ids),
           ComparePre(a, b) = 1, ComparePre(b, c) = 1
    PROVE  ComparePre(a, c) = 1
  <1>1. a # b /\ b # c
    BY EqualPre
  <1>2. PICK d \in Nat : Parts(a, b, d)
    BY <1>1, SomewhereParts
  <1>3. PICK e \in Nat : Parts(b, c, e)
    BY <1>1, SomewhereParts
  <1>4. 1 = IF a = <<>> \/ b = <<>> THEN Sign(b = <<>>)
            ELSE IF d > Len(a) \/ d > Len(b) THEN Sign(d > Len(a))
            ELSE CompareId(a[d], b[d])
    BY <1>2, PartsDecides
  <1>5. 1 = IF b = <<>> \/ c = <<>> THEN Sign(c = <<>>)
            ELSE IF e > Len(b) \/ e > Len(c) THEN Sign(e > Len(b))
            ELSE CompareId(b[e], c[e])
    BY <1>3, PartsDecides
  <1>6. b # <<>> /\ c # <<>>
    BY <1>4, <1>5 DEF Sign
  <1>7. CASE a = <<>>
    <2>1. PICK f \in Nat : Parts(a, c, f)
      BY <1>6, <1>7, SomewhereParts
    <2>2. QED
      BY <1>6, <1>7, <2>1, PartsDecides DEF Sign
  <1>8. CASE a # <<>>
    <2>0. Len(a) \in Nat /\ Len(b) \in Nat /\ Len(c) \in Nat
      OBVIOUS
    <2>1. /\ 1 <= d /\ d <= Len(a)
          /\ d > Len(b) \/ (a[d] # b[d] /\ CompareId(a[d], b[d]) = 1)
          /\ \A i \in Nat : 1 <= i /\ i < d => i <= Len(a) /\ i <= Len(b) /\ a[i] = b[i]
      BY <1>2, <1>4, <1>6, <1>8, <2>0, PartsMeans DEF Sign
    <2>2. /\ 1 <= e /\ e <= Len(b)
          /\ e > Len(c) \/ (b[e] # c[e] /\ CompareId(b[e], c[e]) = 1)
          /\ \A i \in Nat : 1 <= i /\ i < e => i <= Len(b) /\ i <= Len(c) /\ b[i] = c[i]
      BY <1>3, <1>5, <1>6, <2>0, PartsMeans DEF Sign
    <2> DEFINE f == IF d < e THEN d ELSE e
    <2>3. f \in Nat /\ 1 <= f /\ f <= Len(a)
      BY <2>0, <2>1, <2>2
    <2>4. f > Len(c) \/ (a[f] # c[f] /\ CompareId(a[f], c[f]) = 1)
      <3>1. CASE d < e
        BY <2>0, <2>1, <2>2, <3>1
      <3>2. CASE e < d
        BY <2>0, <2>1, <2>2, <3>2
      <3>3. CASE d = e /\ e <= Len(c)
        <4>1. a[d] \in Ids /\ b[d] \in Ids /\ c[d] \in Ids
          BY <2>0, <2>1, <2>2, <3>3
        <4>2. a[d] # b[d] /\ CompareId(a[d], b[d]) = 1 /\ b[d] # c[d] /\ CompareId(b[d], c[d]) = 1
          BY <2>0, <2>1, <2>2, <3>3
        <4>3. QED
          BY <3>3, <4>1, <4>2, IdsOrdered
      <3>4. QED
        BY <2>0, <2>1, <2>2, <3>1, <3>2, <3>3
    <2>5. \A i \in Nat : 1 <= i /\ i < f => i <= Len(a) /\ i <= Len(c) /\ a[i] = c[i]
      BY <2>0, <2>1, <2>2
    <2> HIDE DEF f
    <2>6. Parts(a, c, f)
      <3>1. f <= Longest(a, c)
        BY <2>0, <2>3 DEF Longest
      <3>2. QED
        BY <2>3, <2>4, <2>5, <3>1, PartsMeans
    <2>7. QED
      BY <1>6, <1>8, <2>0, <2>3, <2>4, <2>6, PartsDecides DEF Sign
  <1>9. QED
    BY <1>7, <1>8

-----------------------------------------------------------------------------
(* compareVersions() on whole versions.                                      *)
LEMMA VersionsOrdered ==
    ASSUME NEW a, NEW b, NEW c, IsVersion(a), IsVersion(b), IsVersion(c)
    PROVE  /\ CompareVersions(a, b) = -CompareVersions(b, a)
           /\ CompareVersions(a, b) = 0 <=> a = b
           /\ CompareVersions(a, b) > 0 /\ CompareVersions(b, c) > 0
                => CompareVersions(a, c) > 0
  <1>0. /\ \A v \in {a, b, c} : /\ v.major \in Nat /\ v.minor \in Nat /\ v.patch \in Nat
                                /\ v.pre \in Seq(Ids)
        /\ SameNumbers(a, b) /\ a.pre = b.pre => a = b
    BY DEF IsVersion, SameNumbers
  <1>1. \A u, v \in {a, b, c} :
          /\ ComparePre(u.pre, v.pre) \in {-1, 0, 1}
          /\ ComparePre(u.pre, v.pre) = -ComparePre(v.pre, u.pre)
          /\ ComparePre(u.pre, v.pre) = 0 <=> u.pre = v.pre
    <2> SUFFICES ASSUME NEW u \in {a, b, c}, NEW v \in {a, b, c}
                 PROVE  /\ ComparePre(u.pre, v.pre) \in {-1, 0, 1}
                        /\ ComparePre(u.pre, v.pre) = -ComparePre(v.pre, u.pre)
                        /\ ComparePre(u.pre, v.pre) = 0 <=> u.pre = v.pre
      OBVIOUS
    <2>1. u.pre \in Seq(Ids) /\ v.pre \in Seq(Ids)
      BY <1>0
    <2>2. CASE u.pre = v.pre
      BY <2>1, <2>2, EqualPre
    <2>3. CASE u.pre # v.pre
      BY <2>1, <2>3, PreFlips
    <2>4. QED
      BY <2>2, <2>3
  <1>2. ComparePre(a.pre, b.pre) = 1 /\ ComparePre(b.pre, c.pre) = 1
          => ComparePre(a.pre, c.pre) = 1
    BY <1>0, PreTransitive
  <1>3. CompareVersions(a, b) = -CompareVersions(b, a)
    BY <1>0, <1>1 DEF CompareVersions, Sign
  <1>4. CompareVersions(a, b) = 0 <=> a = b
    BY <1>0, <1>1 DEF CompareVersions, Sign, SameNumbers
  <1>5. CompareVersions(a, b) > 0 /\ CompareVersions(b, c) > 0 => CompareVersions(a, c) > 0
    <2>1. ASSUME NEW u \in {a, b, c}, NEW v \in {a, b, c}
          PROVE  CompareVersions(u, v) > 0 <=>
                   NumbersLess(v, u) \/ (SameNumbers(u, v) /\ ComparePre(u.pre, v.pre) = 1)
      <3>1. /\ u.major \in Nat /\ u.minor \in Nat /\ u.patch \in Nat
            /\ v.major \in Nat /\ v.minor \in Nat /\ v.patch \in Nat
            /\ ComparePre(u.pre, v.pre) \in {-1, 0, 1}
        BY <1>0, <1>1
      <3>2. QED
        BY <3>1 DEF CompareVersions, Sign, NumbersLess, SameNumbers
    <2>2. /\ NumbersLess(c, b) /\ NumbersLess(b, a) => NumbersLess(c, a)
          /\ NumbersLess(c, b) /\ SameNumbers(a, b) => NumbersLess(c, a)
          /\ SameNumbers(b, c) /\ NumbersLess(b, a) => NumbersLess(c, a)
          /\ SameNumbers(b, c) /\ SameNumbers(a, b) => SameNumbers(a, c)
      <3>1. /\ a.major \in Nat /\ a.minor \in Nat /\ a.patch \in Nat
            /\ b.major \in Nat /\ b.minor \in Nat /\ b.patch \in Nat
            /\ c.major \in Nat /\ c.minor \in Nat /\ c.patch \in Nat
        BY <1>0
      <3>2. QED
        BY <3>1 DEF NumbersLess, SameNumbers
    <2>3. QED
      BY <1>2, <2>1, <2>2
  <1>6. QED
    BY <1>3, <1>4, <1>5

LEMMA ComparedIsInt ==
    ASSUME NEW a, NEW b, IsVersion(a), IsVersion(b)
    PROVE  CompareVersions(a, b) \in Int
  <1>1. a.pre \in Seq(Ids) /\ b.pre \in Seq(Ids)
    BY DEF IsVersion
  <1>2. ComparePre(a.pre, b.pre) \in Int
    <2>1. CASE a.pre = b.pre
      BY <1>1, <2>1, EqualPre
    <2>2. CASE a.pre # b.pre
      BY <1>1, <2>2, PreFlips
    <2>3. QED
      BY <2>1, <2>2
  <1>3. QED
    BY <1>2 DEF CompareVersions, Sign

(* compareVersions() is a total order on whatever a feed lists.              *)
THEOREM OrderHolds == Spec => []OrderIsTotal
  <1>1. Init => TypeOK
    BY DEF Init, TypeOK
  <1>2. TypeOK => OrderIsTotal
    <2> SUFFICES ASSUME TypeOK, NEW i \in DOMAIN feed, NEW j \in DOMAIN feed,
                        NEW k \in DOMAIN feed
                 PROVE  /\ CompareVersions(feed[i], feed[j]) = -CompareVersions(feed[j], feed[i])
                        /\ CompareVersions(feed[i], feed[j]) = 0 <=> feed[i] = feed[j]
                        /\ CompareVersions(feed[i], feed[j]) > 0
                             /\ CompareVersions(feed[j], feed[k]) > 0
                             => CompareVersions(feed[i], feed[k]) > 0
      BY DEF OrderIsTotal
    <2>1. IsVersion(feed[i]) /\ IsVersion(feed[j]) /\ IsVersion(feed[k])
      BY VersionsAssumption DEF TypeOK
    <2>2. QED
      BY <2>1, VersionsOrdered
  <1>3. QED
    BY <1>1, <1>2, TypeStep, PTL DEF Spec

-----------------------------------------------------------------------------
(* The two halves on one feed.  A release once listed is not listed again.   *)
Distinct == \A i, j \in DOMAIN feed : feed[i] = feed[j] => i = j

OfferInv == TypeOK /\ Distinct

LEMMA OfferStep == OfferInv /\ [Next]_vars => OfferInv'
  <1> SUFFICES ASSUME OfferInv, [Next]_vars PROVE OfferInv'
    OBVIOUS
  <1>1. TypeOK'
    BY TypeStep DEF OfferInv
  <1>2. CASE Publish
    <2>1. PICK v \in Versions : /\ \A i \in DOMAIN feed : feed[i] # v
                                /\ feed' = <<v>> \o feed
      BY <1>2 DEF Publish
    <2>2. feed \in Seq(Versions) /\ Len(feed) \in Nat
      BY DEF OfferInv, TypeOK
    <2>3. /\ DOMAIN feed' = 1..Len(feed) + 1
          /\ \A i \in DOMAIN feed' : feed'[i] = IF i = 1 THEN v ELSE feed[i - 1]
      BY <2>1, <2>2
    <2>4. \A i \in DOMAIN feed' : i = 1 \/ i - 1 \in DOMAIN feed
      BY <2>2, <2>3
    <2>5. Distinct'
      BY <2>1, <2>2, <2>3, <2>4 DEF OfferInv, Distinct
    <2>6. QED
      BY <1>1, <2>5 DEF OfferInv
  <1>3. CASE UNCHANGED feed
    BY <1>1, <1>3 DEF OfferInv, Distinct
  <1>4. QED
    BY <1>2, <1>3 DEF Next, Install, SetChannel, vars

(* For a release, the script's newer() is the app's greater.                 *)
LEMMA ReleasesAgree ==
    ASSUME NEW a, NEW b, IsVersion(a), IsVersion(b), ~IsPrerelease(a)
    PROVE  Newer(a, b) <=> CompareVersions(a, b) > 0
  <1>0. /\ a.major \in Nat /\ a.minor \in Nat /\ a.patch \in Nat
        /\ b.major \in Nat /\ b.minor \in Nat /\ b.patch \in Nat
        /\ a.pre = <<>> /\ b.pre \in Seq(Ids) /\ a.pre \in Seq(Ids)
    BY DEF IsVersion, IsPrerelease
  <1>1. b.pre = <<>> => ComparePre(a.pre, b.pre) = 0
    BY <1>0, EqualPre
  <1>2. b.pre # <<>> => ComparePre(a.pre, b.pre) = 1
    BY <1>0, ReleaseOutranks
  <1>3. QED
    BY <1>0, <1>1, <1>2
    DEF Newer, NumbersLess, SameNumbers, IsPrerelease, CompareVersions, Sign

(* On the stable channel both halves name the same version of the same feed. *)
THEOREM SameOfferHolds == Spec => []SameOffer
  <1>1. Init => OfferInv
    BY DEF Init, OfferInv, TypeOK, Distinct
  <1>2. OfferInv => SameOffer
    <2> SUFFICES ASSUME OfferInv, channel = "stable" PROVE AppOffer = ScriptTarget
      BY DEF SameOffer
    <2>1. /\ \A i \in Offered : IsVersion(feed[i]) /\ ~IsPrerelease(feed[i]) /\ i \in DOMAIN feed
          /\ IsVersion(current)
      BY VersionsAssumption DEF OfferInv, TypeOK, Offered, Listed
    <2>2. \A i, j \in Offered : KeyLess(feed[i], feed[j]) <=> Newer(feed[j], feed[i])
      BY <2>1 DEF KeyLess, Newer, SameNumbers, IsPrerelease
    <2>3. \A i, j \in Offered :
            /\ KeyLess(feed[i], feed[j]) <=> CompareVersions(feed[j], feed[i]) > 0
            /\ CompareVersions(feed[i], feed[j]) = -CompareVersions(feed[j], feed[i])
            /\ CompareVersions(feed[i], feed[j]) = 0 => i = j
      BY <2>1, <2>2, ReleasesAgree, VersionsOrdered DEF OfferInv, Distinct
    <2>4. \A i, j \in Offered : CompareVersions(feed[i], feed[j]) \in Int
      BY <2>1, ComparedIsInt
    <2>5. \A k \in Offered :
            (\A j \in Offered : CompareVersions(feed[k], feed[j]) >= 0)
              <=> /\ \A j \in Offered : ~KeyLess(feed[k], feed[j])
                  /\ \A j \in Offered : ~KeyLess(feed[j], feed[k]) => j <= k
      <3> SUFFICES ASSUME NEW k \in Offered
                   PROVE  (\A j \in Offered : CompareVersions(feed[k], feed[j]) >= 0)
                            <=> /\ \A j \in Offered : ~KeyLess(feed[k], feed[j])
                                /\ \A j \in Offered : ~KeyLess(feed[j], feed[k]) => j <= k
        OBVIOUS
      <3>1. \A j \in Offered : CompareVersions(feed[k], feed[j]) >= 0 <=> ~KeyLess(feed[k], feed[j])
        BY <2>3, <2>4
      <3>2. ASSUME \A j \in Offered : CompareVersions(feed[k], feed[j]) >= 0,
                   NEW j \in Offered, ~KeyLess(feed[j], feed[k])
            PROVE  j <= k
        <4>1. CompareVersions(feed[k], feed[j]) = 0
          BY <2>3, <2>4, <3>2
        <4>2. j = k /\ j \in Nat
          BY <2>1, <2>3, <4>1 DEF OfferInv, TypeOK
        <4>3. QED
          BY <4>2
      <3>3. QED
        BY <3>1, <3>2
    <2>6. AppNewest = ScriptNewest
      BY <2>5 DEF AppNewest, ScriptNewest
    <2>7. \A v \in ScriptNewest : Newer(v, current) <=> CompareVersions(v, current) > 0
      BY <2>1, ReleasesAgree DEF ScriptNewest
    <2>8. QED
      BY <2>6, <2>7 DEF AppOffer, ScriptTarget
  <1>3. QED
    BY <1>1, <1>2, OfferStep, PTL DEF Spec
=============================================================================
