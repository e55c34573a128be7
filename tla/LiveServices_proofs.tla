-------------------------- MODULE LiveServices_proofs --------------------------
(***************************************************************************)
(* Theorems about two of the services that LiveServices puts side by side: *)
(* the network watchdog, for all thresholds in their order, and the hourly *)
(* rollup, for any number of days, imports and runs cut short.             *)
(***************************************************************************)
EXTENDS LiveServices, FiniteSetTheorems, WellFoundedInduction, TLAPS

-----------------------------------------------------------------------------
(* Netwatch: how far apart the script's restarts are, and what has come    *)
(* before one.                                                             *)

Restarting == {"clear", "sync", "reboot"}

(* NoRebootLoop speaks of the moment of a restart.  Before it: the counts   *)
(* read and on disk are of checks since the last restart, a run that goes   *)
(* for a restart has counted enough of them, and the count is away before   *)
(* the machine is.                                                          *)
LoopInv ==
    /\ TypeOK
    /\ spared < RebootAfter => count <= spared /\ onDisk <= spared
    /\ pc = "failed" => run = count
    /\ pc \in {"sync", "reboot"} => count = 0
    /\ pc = "reboot" => onDisk = 0
    /\ pc \in Restarting => spared >= RebootAfter

(* A step stands for a count reached: it was tried, or is about to be.      *)
Passed(step, threshold) ==
    count >= threshold => step \in tried \/ (run = threshold /\ pc \in {"failed", step})

(* While nothing is cut short, every step was taken at its threshold.       *)
LastInv ==
    kills = 0 =>
        /\ missed >= count
        /\ Passed("bounce", BounceAfter)
        /\ Passed("reload", ReloadAfter)
        /\ pc \in Restarting => missed >= RebootAfter /\ tried = {"bounce", "reload"}

LEMMA Thresholds ==
    ASSUME ThresholdsOK
    PROVE  /\ BounceAfter \in Nat /\ ReloadAfter \in Nat /\ RebootAfter \in Nat
           /\ MaxKills \in Nat /\ MaxFaults \in Nat
           /\ 0 < BounceAfter /\ BounceAfter < ReloadAfter /\ ReloadAfter < RebootAfter
  BY DEF ThresholdsOK

LEMMA LoopInit == ThresholdsOK /\ Init => LoopInv
  BY Thresholds DEF Init, LoopInv, TypeOK, Top, Restarting, Troubles

LEMMA LoopStep == ThresholdsOK /\ LoopInv /\ [Next]_vars => LoopInv'
  <1> SUFFICES ASSUME ThresholdsOK, LoopInv, [Next]_vars PROVE LoopInv'
    OBVIOUS
  <1> USE Thresholds DEF Top, Cap, LoopInv, TypeOK, Restarting, Troubles
  <1>1. CASE CheckOk
    BY <1>1 DEF CheckOk, net
  <1>2. CASE CheckFails
    BY <1>2 DEF CheckFails, net
  <1>3. CASE Escalate
    BY <1>3 DEF Escalate, Goes, net
  <1>4. CASE Bounce
    BY <1>4 DEF Bounce, Goes
  <1>5. CASE Up
    BY <1>5 DEF Up, Goes
  <1>6. CASE Reload \/ LoadDriver
    BY <1>6 DEF Reload, LoadDriver, Goes
  <1>7. CASE ClearCount
    BY <1>7 DEF ClearCount, Goes, net
  <1>8. CASE Sync
    BY <1>8 DEF Sync, Goes, net
  <1>9. CASE Reboot
    BY <1>9 DEF Reboot, Starts
  <1>10. CASE WriteBack
    BY <1>10 DEF WriteBack, net
  <1>11. CASE Killed
    BY <1>11 DEF Killed, net
  <1>12. CASE PowerFails
    BY <1>12 DEF PowerFails, Starts
  <1>13. CASE LinkBreaks
    BY <1>13 DEF LinkBreaks
  <1>14. CASE RouterBlinks
    BY <1>14 DEF RouterBlinks
  <1>15. CASE UNCHANGED vars
    BY <1>15 DEF vars, net
  <1>16. QED
    BY <1>1, <1>2, <1>3, <1>4, <1>5, <1>6, <1>7, <1>8, <1>9, <1>10, <1>11, <1>12, <1>13,
       <1>14, <1>15
    DEF Next, Script

LEMMA LoopAlways == ASSUME ThresholdsOK PROVE Spec => []LoopInv
  <1>1. Init => LoopInv
    BY LoopInit
  <1>2. LoopInv /\ [Next]_vars => LoopInv'
    BY LoopStep
  <1>3. QED
    BY <1>1, <1>2, PTL DEF Spec

(* The variables of netwatch.sh and its machine have their types.            *)
THEOREM NetwatchTypesHold == ASSUME ThresholdsOK PROVE Spec => []TypeOK
  <1>1. LoopInv => TypeOK
    BY DEF LoopInv
  <1>2. QED
    BY <1>1, LoopAlways, PTL

(* Whatever is killed, and whenever the power fails, two restarts of         *)
(* netwatch.sh have as many failed checks between them as the first took, or *)
(* one that found the network back.                                          *)
THEOREM RestartsAreFarApart == ASSUME ThresholdsOK PROVE Spec => []NoRebootLoop
  <1>1. LoopInv => NoRebootLoop
    BY DEF LoopInv, NoRebootLoop, Restarting
  <1>2. QED
    BY <1>1, LoopAlways, PTL

-----------------------------------------------------------------------------

LEMMA LastInit == ThresholdsOK /\ Init => LastInv
  BY Thresholds DEF Init, LastInv, Passed, Restarting

LEMMA LastStep == ThresholdsOK /\ LoopInv /\ LastInv /\ [Next]_vars => LastInv'
  <1> SUFFICES ASSUME ThresholdsOK, LoopInv, LastInv, [Next]_vars, kills' = 0
               PROVE  LastInv'
    BY DEF LastInv
  <1> USE Thresholds DEF Top, Cap, LoopInv, LastInv, TypeOK, Passed, Restarting
  <1>0. kills \in Nat
    OBVIOUS
  <1>1. CASE CheckOk
    BY <1>1 DEF CheckOk
  <1>2. CASE CheckFails
    BY <1>2 DEF CheckFails
  <1>3. CASE Escalate
    <2>0. /\ pc = "failed"
          /\ UNCHANGED <<count, run, missed, tried, kills>>
      BY <1>3 DEF Escalate, Goes
    <2>1. kills = 0 /\ run = count /\ missed >= count
      BY <2>0
    <2>2. CASE run >= RebootAfter
      <3>0. "bounce" \in tried /\ "reload" \in tried /\ missed >= RebootAfter
        BY <2>0, <2>1, <2>2
      <3>1. pc' = "clear" /\ tried = {"bounce", "reload"} /\ missed >= RebootAfter
        <4>1. pc' = "clear"
          BY <1>3, <2>2 DEF Escalate, Goes
        <4>2. tried \subseteq {"bounce", "reload"}
          OBVIOUS
        <4>3. QED
          BY <3>0, <4>1, <4>2
      <3>2. QED
        BY <2>0, <2>1, <3>1
    <2>3. CASE run = ReloadAfter
      BY <1>3, <2>0, <2>1, <2>3 DEF Escalate, Goes
    <2>4. CASE run < RebootAfter /\ run # ReloadAfter
      BY <1>3, <2>0, <2>1, <2>4 DEF Escalate, Goes
    <2>5. QED
      BY <2>2, <2>3, <2>4
  <1>4. CASE Bounce
    BY <1>4 DEF Bounce, Goes
  <1>5. CASE Up
    BY <1>5 DEF Up, Goes
  <1>6. CASE Reload \/ LoadDriver
    BY <1>6 DEF Reload, LoadDriver, Goes
  <1>7. CASE ClearCount
    BY <1>7 DEF ClearCount, Goes
  <1>8. CASE Sync
    BY <1>8 DEF Sync, Goes
  <1>9. CASE Reboot
    BY <1>9 DEF Reboot, Starts
  <1>10. CASE WriteBack
    BY <1>10 DEF WriteBack
  <1>11. CASE Killed \/ PowerFails
    BY <1>0, <1>11 DEF Killed, PowerFails
  <1>12. CASE LinkBreaks
    BY <1>12 DEF LinkBreaks
  <1>13. CASE RouterBlinks
    BY <1>13 DEF RouterBlinks
  <1>14. CASE UNCHANGED vars
    BY <1>14 DEF vars
  <1>15. QED
    BY <1>1, <1>2, <1>3, <1>4, <1>5, <1>6, <1>7, <1>8, <1>9, <1>10, <1>11, <1>12, <1>13,
       <1>14
    DEF Next, Script

(* While no run is killed and the power stays, netwatch.sh restarts the      *)
(* machine after as many failed checks as it should, and after both milder   *)
(* steps.                                                                    *)
THEOREM RestartIsLastResort == ASSUME ThresholdsOK PROVE Spec => []RebootIsLast
  <1>1. Init => LastInv
    BY LastInit
  <1>2. LoopInv /\ LastInv /\ [Next]_vars => LastInv'
    BY LastStep
  <1>3. LastInv => RebootIsLast
    BY DEF LastInv, RebootIsLast, Restarting
  <1>4. QED
    BY <1>1, <1>2, <1>3, LoopAlways, PTL DEF Spec

-----------------------------------------------------------------------------
(* Rollup: the hours of a day sum to the day.                              *)

Below == {pair \in Nat \X Nat : pair[1] < pair[2]}

LEMMA Smallest ==
    ASSUME NEW T, T \subseteq Nat, T # {}
    PROVE  \E m \in T : \A n \in T : m <= n
  <1>1. IsWellFoundedOn(Below, Nat)
    BY NatLessThanWellFounded DEF OpToRel, Below
  <1>2. PICK m \in T : \A n \in T : ~ (<<n, m>> \in Below)
    BY <1>1, WFMin
  <1>3. ASSUME NEW n \in T PROVE m <= n
    <2>1. n \in Nat /\ m \in Nat
      OBVIOUS
    <2>2. n < m => <<n, m>> \in Below
      BY <2>1 DEF Below
    <2>3. QED
      BY <1>2, <2>1, <2>2
  <1>4. QED
    BY <1>3

(* What Min picks of some numbers, and Max of numbers with a bound. *)
LEMMA MinIs ==
    ASSUME NEW T, T \subseteq Nat, T # {}
    PROVE  R!Min(T) \in T
  BY Smallest DEF R!Min

LEMMA MaxIs ==
    ASSUME NEW T, T \subseteq Nat, 0 \in T, NEW top \in Nat, \A n \in T : n <= top
    PROVE  R!Max(T) \in T /\ \A n \in T : n <= R!Max(T)
  <1> DEFINE bounds == {m \in Nat : \A n \in T : n <= m}
  <1>1. PICK m \in bounds : \A n \in bounds : m <= n
    <2>1. top \in bounds
      OBVIOUS
    <2>2. QED
      BY <2>1, Smallest
  <1>2. m \in T
    <2>1. CASE m = 0
      BY <2>1
    <2>2. CASE m # 0
      <3>1. m - 1 \in Nat /\ ~ (m <= m - 1)
        BY <2>2
      <3>2. PICK n \in T : ~ (n <= m - 1)
        BY <1>1, <3>1
      <3>3. n \in Nat /\ n <= m
        BY <1>1
      <3>4. n = m
        BY <3>2, <3>3, <3>1
      <3>5. QED
        BY <3>4
    <2>3. QED
      BY <2>1, <2>2
  <1>3. \A n \in T : m >= n
    BY <1>1
  <1>4. R!Max(T) \in T /\ \A n \in T : R!Max(T) >= n
    BY <1>2, <1>3 DEF R!Max
  <1>5. QED
    BY <1>4

-----------------------------------------------------------------------------
(* What has been read: finitely many rows, with a highest counter. *)

Readable(rows) ==
    /\ rows \subseteq R!Rows
    /\ IsFiniteSet(rows)
    /\ \E top \in Nat : \A row \in rows : row[3] <= top

Bounds == LastDay \in Nat /\ Energies \subseteq Nat

LEMMA RowIs ==
    ASSUME Bounds, NEW row \in R!Rows
    PROVE  /\ row[1] \in R!Days /\ row[1] \in Nat
           /\ row[2] \in {1, 2}
           /\ row[3] \in Nat
  <1>1. /\ row[1] \in R!Days /\ row[2] \in R!Hours /\ row[3] \in Energies
    BY DEF R!Rows
  <1>2. row[1] \in Nat
    BY <1>1 DEF Bounds, R!Days
  <1>3. row[2] \in {1, 2}
    BY <1>1 DEF R!Hours
  <1>4. QED
    BY <1>1, <1>2, <1>3 DEF Bounds

LEMMA PartReadable ==
    ASSUME NEW rows, Readable(rows), NEW part \in SUBSET rows PROVE Readable(part)
  BY FS_Subset DEF Readable

(* The peak is the highest counter of the rows, and zero without any. *)
LEMMA PeakIs ==
    ASSUME Bounds, NEW rows, Readable(rows)
    PROVE  /\ R!Peak(rows) \in Nat
           /\ \A row \in rows : row[3] <= R!Peak(rows)
           /\ R!Peak(rows) = 0 \/ \E row \in rows : row[3] = R!Peak(rows)
  <1> DEFINE counters == {row[3] : row \in rows} \cup {0}
  <1>1. PICK top \in Nat : \A row \in rows : row[3] <= top
    BY DEF Readable
  <1>2. counters \subseteq Nat /\ 0 \in counters /\ \A n \in counters : n <= top
    BY <1>1, RowIs DEF Readable
  <1>3. R!Max(counters) \in counters /\ \A n \in counters : n <= R!Max(counters)
    <2> HIDE DEF counters
    <2>1. QED
      BY <1>2, MaxIs
  <1>4. R!Peak(rows) = R!Max(counters)
    BY DEF R!Peak
  <1>5. QED
    BY <1>2, <1>3, <1>4

LEMMA NoPeak == ASSUME Bounds PROVE R!Peak({}) = 0
  <1>1. Readable({})
    BY FS_EmptySet DEF Readable
  <1>2. QED
    BY <1>1, PeakIs

(* The rise of the mark in the first and in the second hour of a day, from  *)
(* rows of that day.                                                        *)
Rise(peak, before) == IF peak > before THEN peak - before ELSE 0

First(rows, d)  == R!At(rows, <<d, 1>>)
Second(rows, d) == R!At(rows, <<d, 2>>)

(* Where the site is whole hours from UTC, an hour has the rows read in it. *)
LEMMA HourIs == ASSUME ~HalfHour, NEW row PROVE R!HourOf(row) = <<row[1], row[2]>>
  BY DEF R!HourOf

LEMMA FirstIs ==
    ASSUME ~HalfHour, NEW rows, NEW d
    PROVE  First(rows, d) = {row \in rows : row[1] = d /\ row[2] = 1}
  BY HourIs DEF First, R!At

LEMMA SecondIs ==
    ASSUME ~HalfHour, NEW rows, NEW d
    PROVE  Second(rows, d) = {row \in rows : row[1] = d /\ row[2] = 2}
  BY HourIs DEF Second, R!At

LEMMA SameCount == ASSUME NEW T PROVE R!Cardinality(T) = Cardinality(T)
  BY DEF R!Cardinality, Cardinality

LEMMA BucketIs ==
    ASSUME Bounds, ~HalfHour, NEW d \in R!Days, NEW rows \in SUBSET R!Gateway(d), Readable(readings)
    PROVE  /\ R!Bucket(rows, <<d, 1>>) = [samples |-> Cardinality(First(rows, d)),
                                          energy  |-> Rise(R!Peak(First(rows, d)), 0)]
           /\ R!Bucket(rows, <<d, 2>>) = [samples |-> Cardinality(Second(rows, d)),
                                          energy  |-> Rise(R!Peak(Second(rows, d)),
                                                           R!Peak(First(rows, d)))]
  <1>1. /\ d \in Nat
        /\ \A row \in rows : row[1] = d /\ row[2] \in {1, 2}
    BY RowIs DEF R!Gateway, Readable, Bounds, R!Days
  <1>2. {row \in rows : R!Earlier(R!HourOf(row), <<d, 1>>)} = {}
    BY <1>1, HourIs DEF R!Earlier
  <1>3. {row \in rows : R!Earlier(R!HourOf(row), <<d, 2>>)} = First(rows, d)
    <2>1. \A row \in rows : R!Earlier(R!HourOf(row), <<d, 2>>) <=> row[1] = d /\ row[2] = 1
      BY <1>1, HourIs DEF R!Earlier
    <2>2. QED
      BY <2>1, FirstIs
  <1>4. QED
    BY <1>2, <1>3, NoPeak, SameCount DEF R!Bucket, Rise, First, Second

(* A day's rows are those of its two hours. *)
LEMMA DaySplits ==
    ASSUME Bounds, ~HalfHour, NEW d \in R!Days, NEW rows \in SUBSET R!Gateway(d), Readable(readings)
    PROVE  /\ rows = First(rows, d) \cup Second(rows, d)
           /\ First(rows, d) \cap Second(rows, d) = {}
           /\ Readable(rows) /\ Readable(First(rows, d)) /\ Readable(Second(rows, d))
           /\ Cardinality(rows) = Cardinality(First(rows, d)) + Cardinality(Second(rows, d))
  <1>1. \A row \in rows : row[1] = d /\ row[2] \in {1, 2}
    BY RowIs DEF R!Gateway, Readable
  <1>2. /\ rows = First(rows, d) \cup Second(rows, d)
        /\ First(rows, d) \cap Second(rows, d) = {}
    BY <1>1, FirstIs, SecondIs
  <1>3. Readable(rows)
    BY PartReadable DEF R!Gateway
  <1>4. Readable(First(rows, d)) /\ Readable(Second(rows, d))
    BY <1>2, <1>3, PartReadable
  <1>5. Cardinality(rows) = Cardinality(First(rows, d)) + Cardinality(Second(rows, d))
    <2>1. IsFiniteSet(First(rows, d)) /\ IsFiniteSet(Second(rows, d))
      BY <1>4 DEF Readable
    <2>2. /\ Cardinality(First(rows, d)) \in Nat /\ Cardinality(Second(rows, d)) \in Nat
          /\ Cardinality(First(rows, d) \cap Second(rows, d)) = 0
      BY <1>2, <2>1, FS_CardinalityType, FS_EmptySet
    <2>3. Cardinality(First(rows, d) \cup Second(rows, d))
            = Cardinality(First(rows, d)) + Cardinality(Second(rows, d))
                - Cardinality(First(rows, d) \cap Second(rows, d))
      BY <2>1, FS_Union
    <2>4. Cardinality(rows) = Cardinality(First(rows, d) \cup Second(rows, d))
      BY <1>2
    <2>5. QED
      BY <2>2, <2>3, <2>4
  <1>6. QED
    BY <1>2, <1>3, <1>4, <1>5

LEMMA DayHasItsHours ==
    ASSUME ~HalfHour, NEW d
    PROVE  /\ First(R!Gateway(d), d) = First(readings, d)
           /\ Second(R!Gateway(d), d) = Second(readings, d)
  <1>1. First(R!Gateway(d), d) = {row \in R!Gateway(d) : row[1] = d /\ row[2] = 1}
    BY FirstIs
  <1>2. Second(R!Gateway(d), d) = {row \in R!Gateway(d) : row[1] = d /\ row[2] = 2}
    BY SecondIs
  <1>3. First(readings, d) = {row \in readings : row[1] = d /\ row[2] = 1}
    BY FirstIs
  <1>4. Second(readings, d) = {row \in readings : row[1] = d /\ row[2] = 2}
    BY SecondIs
  <1>5. QED
    BY <1>1, <1>2, <1>3, <1>4 DEF R!Gateway

(* The peak of a day is that of the later hour, or what was before it.       *)
LEMMA PeaksJoin ==
    ASSUME Bounds, ~HalfHour, NEW d \in R!Days, Readable(readings)
    PROVE  LET first  == R!Peak(First(readings, d))
               second == R!Peak(Second(readings, d))
           IN  R!Peak(R!Gateway(d)) = first + Rise(second, first)
  <1> DEFINE rows == R!Gateway(d)
             first == R!Peak(First(rows, d))
             second == R!Peak(Second(rows, d))
  <1>1. First(readings, d) = First(rows, d) /\ Second(readings, d) = Second(rows, d)
    BY DayHasItsHours
  <1>2. /\ rows = First(rows, d) \cup Second(rows, d)
        /\ Readable(rows) /\ Readable(First(rows, d)) /\ Readable(Second(rows, d))
    BY DaySplits
  <1> HIDE DEF rows
  <1>3. /\ first \in Nat /\ second \in Nat /\ R!Peak(rows) \in Nat
        /\ \A row \in First(rows, d) : row[3] <= first
        /\ \A row \in Second(rows, d) : row[3] <= second
        /\ \A row \in rows : row[3] <= R!Peak(rows)
        /\ first = 0 \/ \E row \in First(rows, d) : row[3] = first
        /\ second = 0 \/ \E row \in Second(rows, d) : row[3] = second
        /\ R!Peak(rows) = 0 \/ \E row \in rows : row[3] = R!Peak(rows)
    BY <1>2, PeakIs
  <1> HIDE DEF first, second
  <1>4. first <= R!Peak(rows) /\ second <= R!Peak(rows)
    BY <1>2, <1>3
  <1>5. R!Peak(rows) <= first \/ R!Peak(rows) <= second
    BY <1>2, <1>3
  <1>6. R!Peak(rows) = first + Rise(second, first)
    BY <1>3, <1>4, <1>5 DEF Rise
  <1>7. QED
    BY <1>1, <1>6 DEF rows, first, second

-----------------------------------------------------------------------------
(* A day whose last fold ran to its end was folded from some of its rows,   *)
(* and what its hours count and sum is of those.  A fold under way has      *)
(* written the hours it is done with from the rows it has seen.  An hour    *)
(* that was ever written has rows, while no import is undone: so the fold   *)
(* writes every hour of the day that it has to.                             *)

Folded(d, rows) ==
    /\ dtuHourly[<<d, 1>>] = R!Bucket(rows, <<d, 1>>)
    /\ dtuHourly[<<d, 2>>] = R!Bucket(rows, <<d, 2>>)

Whole(d) == \E rows \in SUBSET R!Gateway(d) : Folded(d, rows)

RollTypes ==
    /\ Readable(readings)
    /\ dtuHourly = [k \in R!HourKeys |-> dtuHourly[k]]
    /\ queue \subseteq R!Days
    /\ foldPc = "days" => queue # {}

WrittenInv ==
    \A d \in R!Days \ undone, h \in {1, 2} :
        dtuHourly[<<d, h>>] # R!NoHour => R!At(readings, <<d, h>>) # {}

SeenInv ==
    foldPc = "gateway" =>
        /\ day \in R!Days /\ day \in unfinished
        /\ \A row \in seen : row[1] = day /\ row[2] \in {1, 2}
        /\ todo \subseteq R!KeysOf(seen)
        /\ day \notin undone =>
             /\ seen \subseteq R!Gateway(day)
             /\ \A h \in {1, 2} : <<day, h>> \notin todo =>
                  \/ /\ <<day, h>> \in R!KeysOf(seen)
                     /\ dtuHourly[<<day, h>>] = R!Bucket(seen, <<day, h>>)
                  \/ /\ <<day, h>> \notin R!KeysOf(seen)
                     /\ dtuHourly[<<day, h>>] = R!NoHour

WholeInv == \A d \in R!Days \ (unfinished \cup undone) : Whole(d)

RollInv == RollTypes /\ WrittenInv /\ SeenInv /\ WholeInv

LEMMA DaysAre == ASSUME Bounds, NEW d \in R!Days PROVE d \in Nat /\ d <= LastDay /\ d \in 0..LastDay
  BY DEF Bounds, R!Days

LEMMA KeysAre ==
    ASSUME Bounds, NEW d \in R!Days
    PROVE  <<d, 1>> \in R!HourKeys /\ <<d, 2>> \in R!HourKeys
  BY DaysAre DEF R!HourKeys, R!Hours

(* Hours that account for every row of the day sum to it. *)
LEMMA WholeSums ==
    ASSUME Bounds, ~HalfHour, Readable(readings), NEW d \in R!Days, Whole(d),
           R!Samples(dtuHourly, d) = R!Cardinality(R!Gateway(d))
    PROVE  R!Energy(dtuHourly, d) = R!Peak(R!Gateway(d))
  <1> DEFINE first == R!Peak(First(readings, d))
             second == R!Peak(Second(readings, d))
  <1>0. PICK some \in SUBSET R!Gateway(d) : Folded(d, some)
    BY DEF Whole
  <1>1. /\ First(R!Gateway(d), d) = First(readings, d)
        /\ Second(R!Gateway(d), d) = Second(readings, d)
    BY DayHasItsHours
  <1>2. /\ First(some, d) \subseteq First(readings, d)
        /\ Second(some, d) \subseteq Second(readings, d)
    BY <1>0 DEF First, Second, R!At, R!Gateway
  <1>3. /\ dtuHourly[<<d, 1>>].samples = Cardinality(First(some, d))
        /\ dtuHourly[<<d, 1>>].energy = Rise(R!Peak(First(some, d)), 0)
        /\ dtuHourly[<<d, 2>>].samples = Cardinality(Second(some, d))
        /\ dtuHourly[<<d, 2>>].energy = Rise(R!Peak(Second(some, d)), R!Peak(First(some, d)))
    <2>1. /\ R!Bucket(some, <<d, 1>>) = [samples |-> Cardinality(First(some, d)),
                                        energy  |-> Rise(R!Peak(First(some, d)), 0)]
          /\ R!Bucket(some, <<d, 2>>) = [samples |-> Cardinality(Second(some, d)),
                                        energy  |-> Rise(R!Peak(Second(some, d)),
                                                         R!Peak(First(some, d)))]
      BY <1>0, BucketIs
    <2>2. QED
      BY <1>0, <2>1 DEF Folded
  <1>4. /\ Readable(First(readings, d)) /\ Readable(Second(readings, d))
        /\ Cardinality(R!Gateway(d))
             = Cardinality(First(readings, d)) + Cardinality(Second(readings, d))
    BY <1>1, DaySplits
  <1>5. IsFiniteSet(First(readings, d)) /\ IsFiniteSet(Second(readings, d))
    BY <1>4 DEF Readable
  <1>6. /\ Cardinality(First(readings, d)) \in Nat /\ Cardinality(Second(readings, d)) \in Nat
        /\ Cardinality(First(some, d)) <= Cardinality(First(readings, d))
        /\ Cardinality(Second(some, d)) <= Cardinality(Second(readings, d))
        /\ IsFiniteSet(First(some, d)) /\ IsFiniteSet(Second(some, d))
    BY <1>2, <1>5, FS_Subset, FS_CardinalityType
  <1>7. Cardinality(First(some, d)) \in Nat /\ Cardinality(Second(some, d)) \in Nat
    BY <1>6, FS_CardinalityType
  <1>8. Cardinality(First(some, d)) + Cardinality(Second(some, d))
          = Cardinality(First(readings, d)) + Cardinality(Second(readings, d))
    BY <1>3, <1>4, SameCount DEF R!Samples
  <1>9. /\ Cardinality(First(some, d)) = Cardinality(First(readings, d))
        /\ Cardinality(Second(some, d)) = Cardinality(Second(readings, d))
    BY <1>6, <1>7, <1>8
  <1>10. First(some, d) = First(readings, d) /\ Second(some, d) = Second(readings, d)
    BY <1>2, <1>5, <1>9, FS_Subset
  <1>11. first \in Nat /\ second \in Nat
    BY <1>4, PeakIs
  <1>12. dtuHourly[<<d, 1>>].energy = first /\ dtuHourly[<<d, 2>>].energy = Rise(second, first)
    BY <1>3, <1>10, <1>11 DEF Rise
  <1>13. QED
    BY <1>12, PeaksJoin DEF R!Energy

LEMMA RollSums == ASSUME Bounds, ~HalfHour => RollInv PROVE HoursSumToDay
  BY WholeSums DEF HoursSumToDay, R!HoursSumToDay, RollInv, RollTypes, WholeInv

-----------------------------------------------------------------------------
(* The steps of the rollup. *)

(* The bucket of an hour without rows is that of an hour never written. *)
LEMMA NoHourIs ==
    ASSUME Bounds, ~HalfHour, Readable(readings), NEW d \in R!Days, NEW h \in {1, 2},
           NEW rows \in SUBSET R!Gateway(d), R!At(rows, <<d, h>>) = {}
    PROVE  R!Bucket(rows, <<d, h>>) = R!NoHour
  <1>1. Cardinality({}) = 0 /\ R!Peak({}) = 0 /\ R!Peak(First(rows, d)) \in Nat
    BY FS_EmptySet, NoPeak, DaySplits, PeakIs
  <1>2. CASE h = 1
    <2>1. First(rows, d) = {}
      BY <1>2 DEF First
    <2>2. R!Bucket(rows, <<d, 1>>) = [samples |-> Cardinality({}), energy |-> Rise(R!Peak({}), 0)]
      BY <2>1, BucketIs
    <2>3. QED
      BY <1>1, <1>2, <2>2 DEF Rise, R!NoHour
  <1>3. CASE h = 2
    <2>1. Second(rows, d) = {}
      BY <1>3 DEF Second
    <2>2. ~ (R!Peak({}) > R!Peak(First(rows, d)))
      BY <1>1
    <2>3. QED
      BY <1>1, <1>3, <2>1, <2>2, BucketIs DEF Rise, R!NoHour
  <1>4. QED
    BY <1>2, <1>3

LEMMA KeysAreThere ==
    ASSUME NEW rows, NEW k PROVE k \in R!KeysOf(rows) <=> R!At(rows, k) # {}
  BY DEF R!KeysOf, R!At

(* Steps that leave the table and the run's variables alone, while rows are *)
(* at most added.                                                           *)
LEMMA MoreRowsKeep ==
    ASSUME Bounds, RollInv, Readable(readings'), readings \subseteq readings',
           UNCHANGED <<dtuHourly, foldPc, queue, day, seen, todo, unfinished, undone>>
    PROVE  RollInv'
  <1>1. \A d : R!Gateway(d) \subseteq R!Gateway(d)'
    BY DEF R!Gateway
  <1>2. RollTypes'
    BY DEF RollInv, RollTypes
  <1>3. WrittenInv'
    BY DEF RollInv, WrittenInv, R!At
  <1>4. SeenInv'
    BY <1>1 DEF RollInv, SeenInv, R!Gateway
  <1>5. WholeInv'
    BY <1>1 DEF RollInv, WholeInv, Whole, Folded
  <1>6. QED
    BY <1>2, <1>3, <1>4, <1>5 DEF RollInv

(* Steps that leave rows and table alone, with no fold of a day under way   *)
(* after them: any number of days may be left unfinished.                   *)
LEMMA RunKeeps ==
    ASSUME Bounds, RollInv, UNCHANGED <<readings, dtuHourly, undone>>,
           unfinished \subseteq unfinished', foldPc' # "gateway", queue' \subseteq R!Days, foldPc' = "days" => queue' # {}
    PROVE  RollInv'
  <1>1. \A d : R!Gateway(d)' = R!Gateway(d)
    BY DEF R!Gateway
  <1>2. RollTypes' /\ WrittenInv' /\ SeenInv'
    BY DEF RollInv, RollTypes, WrittenInv, SeenInv, R!At
  <1>3. WholeInv'
    BY <1>1 DEF RollInv, WholeInv, Whole, Folded
  <1>4. QED
    BY <1>2, <1>3 DEF RollInv

LEMMA TickStep == ASSUME Bounds, RollInv, R!Tick PROVE RollInv'
  <1>1. /\ UNCHANGED <<readings, dtuHourly, unfinished, undone>>
        /\ foldPc' \in {"idle", "days"}
        /\ foldPc' = "days" => queue' # {}
        /\ queue' \subseteq R!DaysNeedingWork
    BY DEF R!Tick, R!tables, R!history
  <1>2. queue' \subseteq R!Days
    BY <1>1 DEF R!DaysNeedingWork
  <1>3. QED
    BY <1>1, <1>2, RunKeeps

LEMMA ReadDayStep == ASSUME Bounds, ~HalfHour, RollInv, R!ReadDay PROVE RollInv'
  <1> DEFINE d == R!Min(queue)
  <1>0. /\ foldPc = "days" /\ queue' \subseteq queue
        /\ seen' = R!Gateway(d) /\ todo' = R!KeysOf(seen')
        /\ UNCHANGED <<readings, dtuHourly, undone>>
    BY DEF R!ReadDay, R!clock, R!tables
  <1>1. queue \subseteq R!Days /\ d \in R!Days
    <2>1. queue \subseteq R!Days /\ queue # {} /\ queue \subseteq Nat
      BY <1>0, DaysAre DEF RollInv, RollTypes
    <2>2. QED
      BY <2>1, MinIs
  <1>2. CASE seen' = {}
    <2>1. /\ UNCHANGED unfinished /\ foldPc' # "gateway"
          /\ foldPc' = "days" => queue' # {}
      BY <1>2 DEF R!ReadDay
    <2>2. QED
      BY <1>0, <1>1, <2>1, RunKeeps
  <1>3. CASE seen' # {}
    <2>1. foldPc' = "gateway" /\ day' = d /\ unfinished' = unfinished \cup {d}
      BY <1>3 DEF R!ReadDay
    <2>2. RollTypes' /\ WrittenInv'
      BY <1>0, <1>1, <2>1 DEF RollInv, RollTypes, WrittenInv, R!At
    <2>3. WholeInv'
      BY <1>0, <2>1 DEF RollInv, WholeInv, Whole, Folded, R!Gateway
    <2>4. \A row \in seen' : row[1] = d /\ row[2] \in {1, 2}
      BY <1>0, RowIs DEF R!Gateway, RollInv, RollTypes, Readable
    <2>5. ASSUME NEW h \in {1, 2}, d \notin undone, <<d, h>> \notin todo'
          PROVE  <<d, h>> \notin R!KeysOf(seen') /\ dtuHourly[<<d, h>>] = R!NoHour
      <3>1. R!At(seen', <<d, h>>) = {}
        BY <1>0, <2>5, KeysAreThere
      <3>2. R!At(readings, <<d, h>>) = R!At(seen', <<d, h>>)
        BY <1>0 DEF R!At, R!Gateway, R!HourOf
      <3>3. QED
        BY <1>0, <1>1, <2>5, <3>1, <3>2 DEF RollInv, WrittenInv
    <2>6. SeenInv'
      <3>1. R!KeysOf(seen)' = R!KeysOf(seen')
        BY DEF R!KeysOf, R!HourOf
      <3>2. R!Gateway(day)' = R!Gateway(d)
        BY <1>0, <2>1 DEF R!Gateway
      <3>3. day' \in R!Days /\ day' \in unfinished' /\ undone' = undone /\ dtuHourly' = dtuHourly
        BY <1>0, <1>1, <2>1
      <3> HIDE DEF d
      <3>4. QED
        BY <1>0, <2>1, <2>4, <2>5, <3>1, <3>2, <3>3 DEF SeenInv
    <2>7. QED
      BY <2>2, <2>3, <2>6 DEF RollInv
  <1>4. QED
    BY <1>2, <1>3

(* One hour of the day under way is written from the rows seen; after the   *)
(* last of them the day is whole.                                           *)
LEMMA FoldGatewayStep == ASSUME Bounds, ~HalfHour, RollInv, R!FoldGateway PROVE RollInv'
  <1>0. /\ foldPc = "gateway" /\ UNCHANGED <<readings, queue, day, seen, undone>>
        /\ foldPc' \in {"gateway", "window"}
        /\ foldPc' = "gateway" => unfinished' = unfinished
        /\ foldPc' = "window" => todo' = {} /\ unfinished' = unfinished \ {day}
    BY DEF R!FoldGateway, R!clock
  <1>1. PICK k \in todo : /\ dtuHourly' = [dtuHourly EXCEPT ![k] = R!Bucket(seen, k)]
                          /\ todo' = todo \ {k}
    BY DEF R!FoldGateway
  <1>2. /\ day \in R!Days /\ day \in unfinished
        /\ \A row \in seen : row[1] = day /\ row[2] \in {1, 2}
        /\ todo \subseteq R!KeysOf(seen)
    BY <1>0 DEF RollInv, SeenInv
  <1>3. PICK hour1 \in {1, 2} : k = <<day, hour1>> /\ k \in R!KeysOf(seen)
    BY <1>1, <1>2 DEF R!KeysOf, R!HourOf
  <1>4. k \in R!HourKeys /\ \A d \in R!Days, h \in {1, 2} : <<d, h>> \in R!HourKeys
    BY <1>2, <1>3, KeysAre
  <1>5. \A d \in R!Days, h \in {1, 2} :
          dtuHourly'[<<d, h>>] = IF <<d, h>> = k THEN R!Bucket(seen, k) ELSE dtuHourly[<<d, h>>]
    BY <1>1, <1>4 DEF RollInv, RollTypes
  <1>6. RollTypes'
    <2>1. dtuHourly' = [l \in R!HourKeys |-> dtuHourly'[l]]
      BY <1>1, <1>4 DEF RollInv, RollTypes
    <2>2. QED
      BY <1>0, <2>1 DEF RollInv, RollTypes
  <1>7. ASSUME day \notin undone
        PROVE  /\ seen \subseteq R!Gateway(day) /\ seen \subseteq readings
               /\ \A h \in {1, 2} : <<day, h>> \notin todo' =>
                    \/ /\ <<day, h>> \in R!KeysOf(seen)
                       /\ dtuHourly'[<<day, h>>] = R!Bucket(seen, <<day, h>>)
                    \/ /\ <<day, h>> \notin R!KeysOf(seen)
                       /\ dtuHourly'[<<day, h>>] = R!NoHour
    BY <1>0, <1>1, <1>2, <1>3, <1>5, <1>7 DEF RollInv, SeenInv, R!Gateway
  <1>8. WrittenInv'
    <2> SUFFICES ASSUME NEW d \in R!Days \ undone, NEW h \in {1, 2},
                        dtuHourly'[<<d, h>>] # R!NoHour
                 PROVE  R!At(readings, <<d, h>>) # {}
      BY <1>0 DEF WrittenInv, R!At
    <2>1. CASE <<d, h>> = k
      <3>1. seen \subseteq readings /\ R!At(seen, k) # {}
        BY <1>3, <1>7, <2>1, KeysAreThere
      <3>2. QED
        BY <2>1, <3>1 DEF R!At
    <2>2. CASE <<d, h>> # k
      BY <1>5, <2>2 DEF RollInv, WrittenInv
    <2>3. QED
      BY <2>1, <2>2
  <1>9. SeenInv'
    <2> SUFFICES ASSUME foldPc' = "gateway" PROVE SeenInv'
      BY DEF SeenInv
    <2>1. R!KeysOf(seen)' = R!KeysOf(seen) /\ R!Gateway(day)' = R!Gateway(day)
          /\ unfinished' = unfinished
      BY <1>0 DEF R!KeysOf, R!HourOf, R!Gateway
    <2>2. todo' \subseteq R!KeysOf(seen)
      BY <1>1, <1>2
    <2>3. \A h \in {1, 2} : R!Bucket(seen, <<day, h>>)' = R!Bucket(seen, <<day, h>>)
      BY <1>0 DEF R!Bucket, R!At, R!HourOf, R!Peak, R!Earlier
    <2>4. QED
      BY <1>0, <1>2, <1>7, <2>1, <2>2, <2>3 DEF SeenInv
  <1>10. ASSUME NEW d \in R!Days, d \notin unfinished' \cup undone PROVE Whole(d)'
    <2>0. R!Gateway(d)' = R!Gateway(d)
      BY <1>0 DEF R!Gateway
    <2>1. CASE d # day
      <3>1. d \notin unfinished
        BY <1>0, <1>10, <2>1
      <3>2. PICK some \in SUBSET R!Gateway(d) : Folded(d, some)
        BY <1>10, <3>1 DEF RollInv, WholeInv, Whole
      <3>3. Folded(d, some)'
        BY <1>3, <1>5, <2>1, <3>2 DEF Folded
      <3>4. QED
        BY <2>0, <3>2, <3>3 DEF Whole
    <2>2. CASE d = day
      <3>1. todo' = {} /\ day \notin undone
        BY <1>0, <1>2, <1>10, <2>2
      <3>2. ASSUME NEW h \in {1, 2}
            PROVE  dtuHourly'[<<day, h>>] = R!Bucket(seen, <<day, h>>)
        <4>1. CASE <<day, h>> \in R!KeysOf(seen)
          BY <1>7, <3>1, <4>1
        <4>2. CASE <<day, h>> \notin R!KeysOf(seen)
          <5>1. R!At(seen, <<day, h>>) = {} /\ dtuHourly'[<<day, h>>] = R!NoHour
            BY <1>7, <3>1, <4>2, KeysAreThere
          <5>2. QED
            BY <1>2, <1>7, <3>1, <5>1, NoHourIs DEF RollInv, RollTypes
        <4>3. QED
          BY <4>1, <4>2
      <3>3. PICK rows : rows = seen
        OBVIOUS
      <3>4. Folded(d, rows)'
        BY <2>2, <3>2, <3>3 DEF Folded
      <3>5. rows \in SUBSET R!Gateway(d)'
        BY <1>7, <2>0, <2>2, <3>1, <3>3
      <3>6. QED
        BY <3>4, <3>5 DEF Whole
    <2>3. QED
      BY <2>1, <2>2
  <1>11. WholeInv'
    BY <1>0, <1>10 DEF WholeInv
  <1>12. QED
    BY <1>6, <1>8, <1>9, <1>11 DEF RollInv

LEMMA PortsStep == ASSUME Bounds, RollInv, R!ReadPorts \/ R!FoldPorts PROVE RollInv'
  <1>1. /\ UNCHANGED <<readings, dtuHourly, queue, unfinished, undone>>
        /\ foldPc \in {"window", "ports"} /\ foldPc' \in {"idle", "days", "ports"}
        /\ foldPc' = "days" => queue # {}
    BY DEF R!ReadPorts, R!FoldPorts, R!AfterDay, R!clock, R!tables, R!history
  <1>2. QED
    BY <1>1, RunKeeps DEF RollInv, RollTypes

LEMMA InterruptedStep == ASSUME Bounds, RollInv, R!Interrupted PROVE RollInv'
  <1>1. /\ UNCHANGED <<readings, dtuHourly, unfinished, undone>>
        /\ foldPc' = "idle" /\ queue' = {}
    BY DEF R!Interrupted, R!clock, R!tables
  <1>2. QED
    BY <1>1, RunKeeps

(* A row more, of a time that had none of its source. *)
LEMMA InsertKeepsReadable ==
    ASSUME Bounds, Readable(readings), NEW d \in R!Days, NEW h \in {1, 2},
           NEW source \in {"dtu", "cloud"}, R!Insert(d, h, source)
    PROVE  Readable(readings') /\ readings \subseteq readings'
  <1>1. PICK e \in Energies : readings' = readings \cup {<<d, h, e, source>>}
    BY DEF R!Insert
  <1>2. PICK top \in Nat : \A row \in readings : row[3] <= top
    BY DEF Readable
  <1>3. <<d, h, e, source>> \in R!Rows /\ e \in Nat
    BY DEF R!Rows, R!Hours, Bounds
  <1>4. \A row \in readings : row[3] \in Nat
    BY RowIs DEF Readable
  <1>5. \A row \in readings' : row[3] <= top + e
    BY <1>1, <1>2, <1>3, <1>4
  <1>6. IsFiniteSet(readings')
    BY <1>1, FS_AddElement DEF Readable
  <1>7. top + e \in Nat
    BY <1>3
  <1>8. QED
    BY <1>1, <1>3, <1>5, <1>6, <1>7 DEF Readable

LEMMA UndoStep == ASSUME Bounds, ~HalfHour, RollInv, R!Undo PROVE RollInv'
  <1>1. PICK d \in R!Days : /\ readings' = {row \in readings : row[1] # d \/ row[4] = "dtu"}
                            /\ undone' = undone \cup {d}
    BY DEF R!Undo
  <1>2. UNCHANGED <<dtuHourly, foldPc, queue, day, seen, todo, unfinished>>
    BY DEF R!Undo, R!clock, R!run
  <1>3. \A e : e # d => R!Gateway(e) \subseteq R!Gateway(e)'
    BY <1>1 DEF R!Gateway
  <1>4. RollTypes'
    BY <1>1, <1>2, PartReadable DEF RollInv, RollTypes
  <1>5. ASSUME NEW e \in R!Days, NEW h \in {1, 2}, e # d
        PROVE  R!At(readings, <<e, h>>) \subseteq R!At(readings', <<e, h>>)
    <2>1. \A row : R!HourOf(row) = <<e, h>> => row[1] = e
      BY HourIs
    <2>2. QED
      BY <1>1, <1>5, <2>1 DEF R!At
  <1>6. WrittenInv'
    <2>1. \A e \in R!Days, h \in {1, 2} : R!At(readings, <<e, h>>)' = R!At(readings', <<e, h>>)
      BY DEF R!At, R!HourOf
    <2>2. QED
      BY <1>1, <1>2, <1>5, <2>1 DEF RollInv, WrittenInv
  <1>7. SeenInv'
    BY <1>1, <1>2, <1>3 DEF RollInv, SeenInv
  <1>8. WholeInv'
    BY <1>1, <1>2, <1>3 DEF RollInv, WholeInv, Whole, Folded
  <1>9. QED
    BY <1>4, <1>6, <1>7, <1>8 DEF RollInv

Clock == hour \in {1, 2}

LEMMA ClockRuns == Clock /\ [AllNext]_allVars => Clock'
  <1>1. R!Advance => hour' = 3 - hour
    BY DEF R!Advance
  <1>2. [AllNext]_allVars => hour' = 3 - hour \/ UNCHANGED hour
    BY <1>1 DEF AllNext, allVars, rollup, R!Next, R!Run, R!Tick, R!ReadDay, R!FoldGateway,
               R!ReadPorts, R!FoldPorts, R!Interrupted, R!Poll, R!Import, R!Undo, R!clock
  <1>3. QED
    BY <1>2 DEF Clock

LEMMA RollStep == Bounds /\ ~HalfHour /\ Clock /\ RollInv /\ [AllNext]_allVars => RollInv'
  <1> SUFFICES ASSUME Bounds, ~HalfHour, Clock, RollInv, [AllNext]_allVars PROVE RollInv'
    OBVIOUS
  <1>0. Readable(readings)
    BY DEF RollInv, RollTypes
  <1>1. CASE R!Tick \/ R!ReadDay \/ R!FoldGateway \/ R!ReadPorts \/ R!FoldPorts
    BY <1>1, TickStep, ReadDayStep, FoldGatewayStep, PortsStep
  <1>2. CASE R!Interrupted \/ R!Undo
    BY <1>2, InterruptedStep, UndoStep
  <1>3. CASE R!Poll
    <2>1. /\ today \in R!Days /\ R!Insert(today, hour, "dtu") /\ hour \in {1, 2}
          /\ UNCHANGED <<dtuHourly, foldPc, queue, day, seen, todo, unfinished, undone>>
      BY <1>3 DEF R!Poll, R!clock, R!run, R!history, Clock
    <2>2. QED
      BY <1>0, <2>1, InsertKeepsReadable, MoreRowsKeep
  <1>4. CASE R!Import
    <2>1. UNCHANGED <<dtuHourly, foldPc, queue, day, seen, todo, unfinished, undone>>
      BY <1>4 DEF R!Import, R!clock, R!run
    <2>2. PICK d \in R!Days, h \in R!Hours : R!Insert(d, h, "cloud")
      BY <1>4 DEF R!Import
    <2>3. h \in {1, 2}
      BY <2>2 DEF R!Hours
    <2>4. QED
      BY <1>0, <2>1, <2>2, <2>3, InsertKeepsReadable, MoreRowsKeep
  <1>5. CASE R!Advance \/ UNCHANGED rollup
    <2>1. UNCHANGED <<readings, dtuHourly, foldPc, queue, day, seen, todo, unfinished, undone>>
      BY <1>5 DEF R!Advance, R!tables, R!run, R!history, rollup
    <2>2. QED
      BY <1>0, <2>1, MoreRowsKeep
  <1>6. QED
    BY <1>1, <1>2, <1>3, <1>4, <1>5 DEF AllNext, allVars, R!Next, R!Run

LEMMA RollInit == ASSUME Bounds, ~HalfHour PROVE AllInit => RollInv
  <1> SUFFICES ASSUME AllInit PROVE RollInv
    OBVIOUS
  <1>1. /\ readings = {} /\ foldPc = "idle" /\ queue = {}
        /\ dtuHourly = [k \in R!HourKeys |-> R!NoHour]
    BY DEF AllInit, R!Init
  <1>2. Readable(readings)
    BY <1>1, FS_EmptySet DEF Readable
  <1>3. RollTypes
    BY <1>1, <1>2 DEF RollTypes
  <1>4. \A d \in R!Days, h \in {1, 2} : dtuHourly[<<d, h>>] = R!NoHour
    BY <1>1, KeysAre
  <1>5. ASSUME NEW d \in R!Days PROVE Whole(d)
    <2>1. R!At({}, <<d, 1>>) = {} /\ R!At({}, <<d, 2>>) = {}
      BY DEF R!At
    <2>2. R!Bucket({}, <<d, 1>>) = R!NoHour /\ R!Bucket({}, <<d, 2>>) = R!NoHour
      BY <1>2, <2>1, NoHourIs
    <2>3. Folded(d, {})
      BY <1>4, <2>2 DEF Folded
    <2>4. QED
      BY <2>3 DEF Whole
  <1>6. QED
    BY <1>1, <1>3, <1>4, <1>5 DEF RollInv, WrittenInv, SeenInv, WholeInv

(* Where the site is whole hours from UTC, the hours of a day that account   *)
(* for all that was read of it sum to its counter, for every day but those   *)
(* with a fold under way or last cut short, and those with an undone import; *)
(* for any days, counters, imports and runs cut short.                       *)
THEOREM HoursAddUp ==
    ASSUME LastDay \in Nat, Energies \subseteq Nat PROVE AllFairSpec => []HoursSumToDay
  <1>1. Bounds
    BY DEF Bounds
  <1>2. CASE HalfHour
    <2>1. HoursSumToDay
      BY <1>2 DEF HoursSumToDay, R!HoursSumToDay
    <2>2. QED
      BY <2>1, PTL
  <1>3. CASE ~HalfHour
    <2>1. AllInit => Clock /\ RollInv
      BY <1>1, <1>3, RollInit DEF AllInit, R!Init, Clock
    <2>2. Clock /\ RollInv /\ [AllNext]_allVars => Clock' /\ RollInv'
      BY <1>1, <1>3, ClockRuns, RollStep
    <2>3. RollInv => HoursSumToDay
      BY <1>1, RollSums
    <2>4. QED
      BY <2>1, <2>2, <2>3, PTL DEF AllFairSpec
  <1>4. QED
    BY <1>2, <1>3
=============================================================================
