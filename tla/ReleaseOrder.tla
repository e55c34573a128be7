----------------------------- MODULE ReleaseOrder -----------------------------
(***************************************************************************)
(* Which release is the newest, and is it newer than what runs?  The app   *)
(* (semver.ts, releases.ts) and the script (two jq programs in update.sh)  *)
(* answer separately, and an install needs both to name the same version.  *)
(*                                                                         *)
(* A version is its three numbers and its pre-release identifiers; a feed  *)
(* is the list the release API returns, the latest published first.  Of    *)
(* the channels "off" never comes this far.                                *)
(***************************************************************************)
EXTENDS Integers, Sequences

CONSTANTS
    Versions,   \* the versions that may be published
    MaxFeed     \* bound: how many releases are listed

Ids == [alpha : BOOLEAN, rank : Nat]

IsVersion(v) == v \in [major : Nat, minor : Nat, patch : Nat, pre : Seq(Ids)]

ASSUME VersionsAssumption == \A v \in Versions : IsVersion(v)
ASSUME BoundAssumption == MaxFeed \in Nat

IsPrerelease(v) == v.pre # <<>>

-----------------------------------------------------------------------------
(* semver.ts *)

Sign(less) == IF less THEN -1 ELSE 1

(* Numeric identifiers compare as numbers and rank below alphanumeric ones.*)
CompareId(l, r) ==
    IF l.alpha = r.alpha THEN Sign(l.rank < r.rank) ELSE Sign(r.alpha)

(* Bug: the loop ends with the shorter of the two, so rc and rc.1 are equal.*)
ComparePre_Shorter(a, b) ==
    LET shortest == IF Len(a) < Len(b) THEN Len(a) ELSE Len(b)
        differ   == {i \in 1..shortest : a[i] # b[i]}
        first    == CHOOSE i \in differ : \A j \in differ : i <= j
    IN  IF a = <<>> /\ b = <<>> THEN 0
        ELSE IF a = <<>> \/ b = <<>> THEN Sign(b = <<>>)
        ELSE IF differ = {} THEN 0
        ELSE CompareId(a[first], b[first])

(* A release outranks its pre-releases; otherwise the first identifier that *)
(* differs decides, and a missing one is the older.                         *)
ComparePre(a, b) ==
    LET longest == IF Len(a) > Len(b) THEN Len(a) ELSE Len(b)
        differ  == {i \in 1..longest : i > Len(a) \/ i > Len(b) \/ a[i] # b[i]}
        first   == CHOOSE i \in differ : \A j \in differ : i <= j
    IN  IF differ = {} THEN 0
        ELSE IF a = <<>> \/ b = <<>> THEN Sign(b = <<>>)
        ELSE IF first > Len(a) \/ first > Len(b) THEN Sign(first > Len(a))
        ELSE CompareId(a[first], b[first])

CompareVersions(a, b) ==
    IF a.major # b.major THEN Sign(a.major < b.major)
    ELSE IF a.minor # b.minor THEN Sign(a.minor < b.minor)
    ELSE IF a.patch # b.patch THEN Sign(a.patch < b.patch)
    ELSE ComparePre(a.pre, b.pre)

-----------------------------------------------------------------------------
(* update.sh *)

NumbersLess(a, b) ==
    \/ a.major < b.major
    \/ a.major = b.major /\ a.minor < b.minor
    \/ a.major = b.major /\ a.minor = b.minor /\ a.patch < b.patch

SameNumbers(a, b) == a.major = b.major /\ a.minor = b.minor /\ a.patch = b.patch

(* Bug: versions sorted as text, so 0.10.0 comes before 0.9.0. *)
KeyLess_AsText(a, b) == a.major < b.major \/ (a.major = b.major /\ b.minor < a.minor)

(* The sort key's second part is 1 for a pre-release and 0 for a release.  *)
KeyLess(a, b) ==
    \/ NumbersLess(a, b)
    \/ SameNumbers(a, b) /\ ~IsPrerelease(a) /\ IsPrerelease(b)

(* Bug: the pre-release flag taken the way the sort key has it. *)
Newer_Flipped(a, b) ==
    \/ NumbersLess(b, a)
    \/ SameNumbers(a, b) /\ IsPrerelease(a) /\ ~IsPrerelease(b)

(* newer(): no two pre-releases of the same numbers are. *)
Newer(a, b) ==
    \/ NumbersLess(b, a)
    \/ SameNumbers(a, b) /\ ~IsPrerelease(a) /\ IsPrerelease(b)

-----------------------------------------------------------------------------
VARIABLES
    feed,      \* releases listed, the latest first
    current,   \* the version installed
    channel    \* the channel followed

vars == <<feed, current, channel>>

Channels == {"stable", "prerelease"}

Listed(v) == channel = "prerelease" \/ ~IsPrerelease(v)

Offered == {i \in DOMAIN feed : Listed(feed[i])}

(* parseReleases() sorts with compareVersions and chooseUpdate() takes the  *)
(* first of the channel.                                                    *)
AppNewest == {feed[i] : i \in {k \in Offered :
                \A j \in Offered : CompareVersions(feed[k], feed[j]) >= 0}}

AppOffer == {v \in AppNewest : CompareVersions(v, current) > 0}

(* sort_by(.k) | reverse | .[0]: of the largest keys, the last listed.      *)
ScriptNewest == {feed[i] : i \in {k \in Offered :
                   /\ \A j \in Offered : ~KeyLess(feed[k], feed[j])
                   /\ \A j \in Offered : ~KeyLess(feed[j], feed[k]) => j <= k}}

ScriptTarget == {v \in ScriptNewest : Newer(v, current)}

Init == feed = <<>> /\ current \in Versions /\ channel \in Channels

Publish ==
    /\ Len(feed) < MaxFeed
    /\ \E v \in Versions :
         /\ \A i \in DOMAIN feed : feed[i] # v
         /\ feed' = <<v>> \o feed
    /\ UNCHANGED <<current, channel>>

(* The installation of the script's target. *)
Install ==
    /\ \E v \in ScriptTarget : current' = v
    /\ UNCHANGED <<feed, channel>>

SetChannel == channel' \in Channels /\ UNCHANGED <<feed, current>>

Next == Publish \/ Install \/ SetChannel

Spec == Init /\ [][Next]_vars

TypeOK == feed \in Seq(Versions) /\ current \in Versions /\ channel \in Channels

-----------------------------------------------------------------------------
(* Properties. *)

(* compareVersions() is a total order with which sort() may work: it agrees  *)
(* with itself turned round, is transitive, and ties only equal versions.    *)
OrderIsTotal ==
    \A i, j, k \in DOMAIN feed :
        LET a == feed[i] b == feed[j] c == feed[k]
        IN  /\ CompareVersions(a, b) = -CompareVersions(b, a)
            /\ CompareVersions(a, b) = 0 <=> a = b
            /\ CompareVersions(a, b) > 0 /\ CompareVersions(b, c) > 0
                 => CompareVersions(a, c) > 0

(* On the stable channel both halves name the same version of the same feed, *)
(* or every request would be refused as a mismatch.                          *)
SameOffer == channel = "stable" => AppOffer = ScriptTarget

(* The updater never goes back (update-cases.sh:278): what it installs is    *)
(* newer than what runs by the app's order too.                              *)
NeverDowngrades == [][current' # current => CompareVersions(current', current) > 0]_vars

-----------------------------------------------------------------------------
(* Not kept by the code. *)

(* "Highest published version on this channel" (update.sh:218).  Refuted on  *)
(* the prerelease channel by 0.10.0-rc and 0.10.0, and by two candidates.    *)
TargetIsHighest == ScriptNewest = AppNewest
=============================================================================
