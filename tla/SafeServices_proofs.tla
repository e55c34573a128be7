-------------------------- MODULE SafeServices_proofs --------------------------
(***************************************************************************)
(* Theorems about the services that SafeServices puts side by side, for    *)
(* every value of the constants they are stated for: the daily counter,    *)
(* then backup, device settings, the charger's loop, device schedules, the *)
(* uploads to PVOutput and the bank of credits, and last their types.      *)
(*                                                                         *)
(* Each of them but those of the counter is stated of AllSpec: what steps  *)
(* there is the service, or something that leaves its variables alone.     *)
(***************************************************************************)
EXTENDS SafeServices, Sequences, FiniteSetTheorems, WellFoundedInduction, TLAPS

-----------------------------------------------------------------------------
(* DayEnergy: with every move of the counter seen and no restart between   *)
(* midnight and its reset, each day is credited with what it made.         *)

USE DEF roof, app, vars

(* The variables keep their types (the state of CollectorService and of     *)
(* DailyCounterTracker), whatever is missed and whenever the app restarts.  *)
LEMMA EnergyTypeInit == Init => TypeOK
  <1> SUFFICES ASSUME Init PROVE TypeOK
    OBVIOUS
  <1>1. 0 \in Days /\ "night" \in Phases
    BY BoundsAssumption DEF Days, Phases
  <1>2. tracker \in [raw : Nat, date : Days \cup {None}, awaiting : BOOLEAN]
    BY DEF Init, NewTracker
  <1>3. QED
    BY <1>1, <1>2 DEF Init, TypeOK

LEMMA LargerTyped == ASSUME NEW a \in Nat, NEW b \in Nat PROVE Larger(a, b) \in Nat
  BY DEF Larger

LEMMA ResolveTyped ==
    ASSUME TypeOK
    PROVE  Resolve(tracker, day, counter)
             \in [raw : Nat, date : Days \cup {None}, awaiting : BOOLEAN]
  BY DEF TypeOK, Resolve

LEMMA SeedTyped ==
    ASSUME TypeOK
    PROVE  Seed(last) \in [raw : Nat, date : Days \cup {None}, awaiting : BOOLEAN]
  BY DEF TypeOK, Seed, NewTracker, Rows

LEMMA EnergyTypeStep == TypeOK /\ [Next]_vars => TypeOK'
  <1> SUFFICES ASSUME TypeOK, [Next]_vars PROVE TypeOK'
    OBVIOUS
  <1> USE DEF TypeOK, Moves
  <1>1. CASE Sunrise
    BY <1>1 DEF Sunrise, Phases
  <1>2. CASE Produce
    <2>1. day \in Days /\ total[day] + 1 \in Nat /\ counter + 1 \in Nat
      OBVIOUS
    <2>2. QED
      BY <1>2, <2>1 DEF Produce
  <1>3. CASE Sunset
    BY <1>3 DEF Sunset, Phases
  <1>4. CASE Decay
    <2>1. PICK lower \in 0..(counter - 1) : counter' = lower
      BY <1>4 DEF Decay
    <2>2. counter' \in Nat
      BY <2>1
    <2>3. QED
      BY <1>4, <2>2 DEF Decay
  <1>5. CASE Midnight
    <2>1. day + 1 \in Days
      BY <1>5, BoundsAssumption DEF Midnight, Days
    <2>2. QED
      BY <1>5, <2>1 DEF Midnight, Phases
  <1>6. CASE CounterResets
    BY <1>6 DEF CounterResets
  <1>7. CASE Poll
    <2> DEFINE t  == Resolve(tracker, day, counter)
               wh == IF t.awaiting THEN 0 ELSE counter
    <2>1. wh \in Nat /\ Larger(best[day], wh) \in Nat
      BY LargerTyped
    <2>2. tracker' = t /\ snapshot' = counter /\ last' = [date |-> day, wh |-> wh]
          /\ best' = [best EXCEPT ![day] = Larger(best[day], wh)] /\ fresh' = TRUE
          /\ UNCHANGED <<roof, wrap>>
      BY <1>7 DEF Poll
    <2>3. t \in [raw : Nat, date : Days \cup {None}, awaiting : BOOLEAN]
      BY ResolveTyped
    <2>4. QED
      BY <2>1, <2>2, <2>3 DEF Rows
  <1>8. CASE Restart
    BY <1>8, SeedTyped DEF Restart
  <1>9. CASE SendWrap
    BY <1>9 DEF SendWrap, Rows
  <1>10. CASE UNCHANGED vars
    BY <1>10
  <1>11. QED
    BY <1>1, <1>2, <1>3, <1>4, <1>5, <1>6, <1>7, <1>8, <1>9, <1>10 DEF Next, Roof

(* TypeOK always holds. *)
THEOREM EnergyTypesHold == Spec => []TypeOK
  BY EnergyTypeInit, EnergyTypeStep, PTL DEF Spec

-----------------------------------------------------------------------------
(* The roof's own figures: the poll and the restart leave them alone.       *)

LEMMA RoofStep == ASSUME TypeOK, RoofInv, [Next]_vars PROVE RoofInv'
  <1> USE DEF TypeOK, RoofInv, Moves, Days
  <1>1. CASE Sunrise
    BY <1>1 DEF Sunrise
  <1>2. CASE Produce
    BY <1>2 DEF Produce
  <1>3. CASE Sunset
    BY <1>3 DEF Sunset
  <1>4. CASE Decay
    BY <1>4 DEF Decay
  <1>5. CASE Midnight
    <2>1. day' = day + 1 /\ day + 1 \in Days /\ phase' = "night" /\ ~reset' /\ total' = total
      BY <1>5, BoundsAssumption DEF Midnight
    <2>2. total[day + 1] = 0
      BY <2>1
    <2>3. QED
      BY <2>1, <2>2
  <1>6. CASE CounterResets
    BY <1>6 DEF CounterResets
  <1>7. CASE Poll \/ Restart \/ SendWrap \/ UNCHANGED vars
    <2>1. UNCHANGED roof
      BY <1>7 DEF Poll, Restart, SendWrap
    <2>2. QED
      BY <2>1
  <1>8. QED
    BY <1>1, <1>2, <1>3, <1>4, <1>5, <1>6, <1>7 DEF Next, Roof

(* What a poll makes of the counter, if the last one saw it move. *)
LEMMA ResolveIsRight ==
    ASSUME TypeOK, RoofInv, TrackerInv
    PROVE  /\ reset => ~Resolve(tracker, day, counter).awaiting
           /\ ~reset => Suppressed(Resolve(tracker, day, counter).awaiting)
  <1>1. CASE fresh \/ reset
    BY <1>1 DEF TypeOK, TrackerInv, Suppressed, Resolve
  <1>2. CASE ~fresh /\ ~reset
    <2>0. counter \in Nat /\ tracker.raw \in Nat
      BY DEF TypeOK
    <2>1. CASE tracker.raw = counter /\ tracker.date \notin {day, None}
      <3>1. Resolve(tracker, day, counter).awaiting <=> tracker.raw > 0 /\ counter >= tracker.raw
        BY <2>1 DEF Resolve
      <3>2. Resolve(tracker, day, counter).awaiting <=> counter > 0
        BY <2>0, <2>1, <3>1
      <3>3. QED
        BY <1>2, <3>2 DEF Suppressed
    <2>2. CASE tracker.raw > counter /\ tracker.date = day /\ day \in fell
      <3>1. Resolve(tracker, day, counter).awaiting <=> tracker.awaiting /\ counter >= tracker.raw
        BY <2>2 DEF Resolve
      <3>2. ~Resolve(tracker, day, counter).awaiting
        BY <2>0, <2>2, <3>1
      <3>3. QED
        BY <1>2, <2>2, <3>2 DEF Suppressed
    <2>3. QED
      BY <1>2, <2>1, <2>2 DEF TrackerInv
  <1>3. QED
    BY <1>1, <1>2

LEMMA TrackerStep ==
    ASSUME ~MissesPolls, ~RestartsInWindow, TypeOK, RoofInv, TrackerInv, [Next]_vars
    PROVE  TrackerInv'
  <1> USE DEF TypeOK, RoofInv, TrackerInv, Suppressed, Moves, Days
  <1>1. CASE Sunrise \/ Produce \/ Sunset \/ Decay
    BY <1>1 DEF Sunrise, Produce, Sunset, Decay
  <1>2. CASE Midnight
    BY <1>2, NoneAssumption DEF Midnight
  <1>3. CASE CounterResets
    BY <1>3 DEF CounterResets
  <1>4. CASE Poll
    <2> DEFINE t  == Resolve(tracker, day, counter)
               wh == IF t.awaiting THEN 0 ELSE counter
    <2>1. tracker' = t /\ last' = [date |-> day, wh |-> wh] /\ fresh' = TRUE
          /\ day' = day /\ counter' = counter /\ reset' = reset
      BY <1>4 DEF Poll
    <2>2. t.raw = counter /\ t.date = day
      BY DEF Resolve
    <2>3. last'.date = day /\ last'.wh = wh /\ last' # None
      BY <2>1, NoneAssumption
    <2>4. fell' = fell /\ (reset => ~t.awaiting) /\ (~reset => Suppressed(t.awaiting))
      BY <1>4, ResolveIsRight DEF Poll
    <2> HIDE DEF t
    <2>5. QED
      BY <2>1, <2>2, <2>3, <2>4
  <1>5. CASE Restart
    BY <1>5 DEF Restart, Seed, NewTracker, Rows
  <1>6. CASE SendWrap \/ UNCHANGED vars
    BY <1>6 DEF SendWrap
  <1>7. QED
    BY <1>1, <1>2, <1>3, <1>4, <1>5, <1>6 DEF Next, Roof

-----------------------------------------------------------------------------
(* The credit of a day. *)

LEMMA CreditStep ==
    ASSUME ~MissesPolls, TypeOK, RoofInv, TrackerInv, CreditInv, NoCarryover, [Next]_vars
    PROVE  CreditInv' /\ NoCarryover'
  <1> USE DEF TypeOK, RoofInv, CreditInv, NoCarryover, Moves, Days
  <1>1. CASE Sunrise \/ Sunset \/ Decay \/ CounterResets
    BY <1>1 DEF Sunrise, Sunset, Decay, CounterResets
  <1>2. CASE Produce
    BY <1>2 DEF Produce
  <1>3. CASE Midnight
    <2>1. day' = day + 1 /\ day + 1 \in Days /\ UNCHANGED <<total, best, fell>>
      BY <1>3, BoundsAssumption DEF Midnight
    <2>2. total[day + 1] = 0 /\ best[day + 1] \in Nat
      BY <2>1
    <2>3. QED
      BY <2>1, <2>2
  <1>4. CASE Poll
    <2> DEFINE t  == Resolve(tracker, day, counter)
               wh == IF t.awaiting THEN 0 ELSE counter
    <2>1. best' = [best EXCEPT ![day] = Larger(best[day], wh)]
          /\ UNCHANGED <<day, counter, total, fell>>
          /\ fresh' = TRUE
      BY <1>4 DEF Poll
    <2>2. wh \in Nat /\ (day \notin fell => wh <= total[day]) /\ (reset => wh = counter)
      BY ResolveIsRight DEF Suppressed
    <2>3. best'[day] >= total[day] /\ (day \notin fell => best'[day] <= total[day])
      BY <2>1, <2>2 DEF Larger
    <2>4. QED
      BY <2>1, <2>3
  <1>5. CASE Restart \/ SendWrap \/ UNCHANGED vars
    <2>1. UNCHANGED <<day, counter, total, fell, best, fresh>>
      BY <1>5 DEF Restart, SendWrap
    <2>2. QED
      BY <2>1
  <1>6. QED
    BY <1>1, <1>2, <1>3, <1>4, <1>5 DEF Next, Roof

LEMMA DayInit == Init => DayInv
  BY BoundsAssumption
  DEF Init, DayInv, RoofInv, TrackerInv, CreditInv, NoCarryover, Days, NewTracker

LEMMA DayAlways == ASSUME ~MissesPolls, ~RestartsInWindow PROVE Spec => []DayInv
  <1>1. TypeOK /\ DayInv /\ [Next]_vars => DayInv'
    BY RoofStep, TrackerStep, CreditStep DEF DayInv
  <1>2. QED
    BY <1>1, DayInit, EnergyTypesHold, PTL DEF Spec

(* No day is credited with more than it made, but one on which the counter   *)
(* fell between midnight and its reset: yesterday's total never passes for   *)
(* today's (daily-counter.ts:2).                                             *)
THEOREM NeverOvercredited ==
    ASSUME ~MissesPolls, ~RestartsInWindow PROVE Spec => []NoCarryover
  <1>1. DayInv => NoCarryover
    BY DEF DayInv
  <1>2. QED
    BY <1>1, DayAlways, PTL

(* And with no less, as soon as the collector has seen the counter as it     *)
(* stands: the suppression costs nothing.                                    *)
THEOREM NeverUndercredited ==
    ASSUME ~MissesPolls, ~RestartsInWindow PROVE Spec => []NothingLost
  <1>1. DayInv => NothingLost
    BY DEF DayInv, CreditInv, NothingLost
  <1>2. QED
    BY <1>1, DayAlways, PTL

-----------------------------------------------------------------------------
(* Backup: what is kept at the destination, however many backups are kept, *)
(* runs overlap, commands fail and restarts happen.                        *)

(* NewestKept is not inductive: a run deletes what it found to be too much  *)
(* some uploads ago.  What it found then is still too old, as the uploads   *)
(* of others only add to what is newer.                                     *)
KeepInv ==
    /\ uploads \in Nat
    /\ stored \subseteq 1..uploads
    /\ doomed \in [B!Runs -> SUBSET (1..uploads)]
    /\ \A p \in B!Runs : \A b \in doomed[p] : uploads - b >= Keep
    /\ B!NewestKept

(* Backup's Cardinality is that of the library's theorems.                   *)
LEMMA SameCardinality == \A backups : B!Cardinality(backups) = Cardinality(backups)
  BY DEF Cardinality, B!Cardinality

(* What prune() takes for too much has Keep uploads after it.                *)
LEMMA BeyondIsOld ==
    ASSUME NEW n \in Nat, NEW backups \in SUBSET (1..n), NEW b \in B!Beyond(backups), Keep \in Nat
    PROVE  n - b >= Keep
  <1>1. b \in 1..n /\ Cardinality(B!Newer(b, backups)) >= Keep
    BY SameCardinality DEF B!Beyond
  <1>2. B!Newer(b, backups) \in SUBSET ((b + 1)..n)
    <2>1. ASSUME NEW c \in B!Newer(b, backups) PROVE c \in (b + 1)..n
      <3>1. c \in 1..n /\ c > b
        BY DEF B!Newer
      <3>2. QED
        BY <1>1, <3>1
    <2>2. QED
      BY <2>1
  <1>3. /\ IsFiniteSet((b + 1)..n)
        /\ Cardinality((b + 1)..n) = n - b
    <2>1. b + 1 \in Int /\ n \in Int
      BY <1>1
    <2>2. Cardinality((b + 1)..n) = IF b + 1 > n THEN 0 ELSE n - (b + 1) + 1
      BY <2>1, FS_Interval
    <2>3. QED
      BY <1>1, <2>1, <2>2, FS_Interval
  <1>4. Cardinality(B!Newer(b, backups)) <= n - b
    BY <1>2, <1>3, FS_Subset
  <1>5. Cardinality(B!Newer(b, backups)) \in Nat
    BY <1>2, <1>3, FS_Subset, FS_CardinalityType
  <1>6. QED
    BY <1>1, <1>4, <1>5

LEMMA KeepInit == B!Init => KeepInv
  BY DEF B!Init, KeepInv, B!NewestKept

(* An upload of a backup or of a write test's probe.                         *)
LEMMA UploadKeeps ==
    ASSUME Keep \in Nat, KeepInv, uploads' = uploads + 1, stored' = stored \cup {uploads'},
           doomed' = doomed, probes' \in {probes, probes \cup {uploads'}}
    PROVE  KeepInv'
  <1>1. /\ uploads' \in Nat
        /\ stored' \subseteq 1..uploads'
        /\ doomed' \in [B!Runs -> SUBSET (1..uploads')]
    BY DEF KeepInv
  <1>2. ASSUME NEW p \in B!Runs, NEW b \in doomed'[p] PROVE uploads' - b >= Keep
    <2>1. b \in 1..uploads /\ uploads - b >= Keep
      BY <1>2 DEF KeepInv
    <2>2. QED
      BY <2>1 DEF KeepInv
  <1>3. B!NewestKept'
    <2>1. SUFFICES ASSUME NEW b \in (1..uploads') \ probes', uploads' - b < Keep
                   PROVE  b \in stored'
      BY DEF B!NewestKept
    <2>2. CASE b = uploads'
      BY <2>2
    <2>3. CASE b # uploads'
      <3>1. b \in (1..uploads) \ probes /\ uploads - b < Keep
        BY <2>1, <2>3 DEF KeepInv
      <3>2. QED
        BY <3>1 DEF KeepInv, B!NewestKept
    <2>4. QED
      BY <2>2, <2>3
  <1>4. QED
    BY <1>1, <1>2, <1>3 DEF KeepInv

LEMMA KeepStep == Keep \in Nat /\ KeepInv /\ [B!Next]_(B!vars) => KeepInv'
  <1> SUFFICES ASSUME Keep \in Nat, KeepInv, [B!Next]_(B!vars) PROVE KeepInv'
    OBVIOUS
  <1>1. ASSUME UNCHANGED <<uploads, stored, probes, doomed>> PROVE KeepInv'
    BY <1>1 DEF KeepInv, B!NewestKept
  <1>2. ASSUME NEW p \in B!Runs, B!Put(p) PROVE KeepInv'
    BY <1>2, UploadKeeps DEF B!Put
  <1>3. ASSUME NEW p \in B!Runs, B!List(p) PROVE KeepInv'
    <2>1. UNCHANGED <<uploads, stored, probes>> /\ doomed' = [doomed EXCEPT ![p] = B!Beyond(stored)]
      BY <1>3 DEF B!List, B!remote
    <2>2. B!Beyond(stored) \subseteq 1..uploads
      BY DEF B!Beyond, KeepInv
    <2>3. \A b \in B!Beyond(stored) : uploads - b >= Keep
      BY BeyondIsOld DEF KeepInv
    <2>4. QED
      BY <2>1, <2>2, <2>3 DEF KeepInv, B!NewestKept
  <1>4. ASSUME NEW p \in B!Runs, B!Prune(p) PROVE KeepInv'
    <2>1. CASE doomed[p] = {}
      BY <1>1, <1>4, <2>1 DEF B!Prune
    <2>2. CASE doomed[p] # {}
      <3>1. PICK b \in doomed[p] : /\ stored' = stored \ {b}
                                   /\ doomed' = [doomed EXCEPT ![p] = @ \ {b}]
        BY <1>4, <2>2 DEF B!Prune
      <3>2. UNCHANGED <<uploads, probes>>
        BY <1>4 DEF B!Prune
      <3>3. uploads - b >= Keep /\ b \in 1..uploads
        BY DEF KeepInv
      <3>4. B!NewestKept'
        BY <3>1, <3>2, <3>3 DEF KeepInv, B!NewestKept
      <3>5. QED
        BY <3>1, <3>2, <3>4 DEF KeepInv
    <2>3. QED
      BY <2>1, <2>2
  <1>5. ASSUME NEW p \in B!Runs, B!Fails(p) PROVE KeepInv'
    BY <1>5 DEF B!Fails, B!remote, KeepInv, B!NewestKept
  <1>6. CASE B!Restarts
    BY <1>6 DEF B!Restarts, B!remote, KeepInv, B!NewestKept
  <1>7. CASE B!TestPuts
    BY <1>7, UploadKeeps DEF B!TestPuts
  <1>8. CASE B!TestRemoves
    BY <1>8 DEF B!TestRemoves, KeepInv, B!NewestKept
  <1>9. CASE B!TimerDue \/ B!HandAsks \/ B!TestFails \/ B!Advance \/ B!Ended \/ UNCHANGED B!vars
    BY <1>1, <1>9 DEF B!TimerDue, B!HandAsks, B!TestFails, B!Advance, B!Ended, B!vars, B!remote
  <1>10. ASSUME NEW p \in B!Runs, B!Begin(p) \/ B!Claim(p) \/ B!Vacuum(p) \/ B!Read(p)
                                \/ B!Success(p) \/ B!Anchor(p) \/ B!Record(p)
         PROVE  KeepInv'
    BY <1>1, <1>10 DEF B!Begin, B!Claim, B!Vacuum, B!Read, B!Success, B!Anchor, B!Record, B!remote
  <1>11. QED
    BY <1>2, <1>3, <1>4, <1>5, <1>6, <1>7, <1>8, <1>9, <1>10 DEF B!Next, B!RunStep

(* What steps here is the backup, or something that leaves it alone.         *)
LEMMA StepIsBackups == [AllNext]_allVars => [B!Next]_(B!vars)
  BY DEF AllNext, allVars, backup, B!vars, B!settings, B!remote, B!history

(* Retention, for every number of backups kept: the last Keep uploads of    *)
(* backup.service.ts are there but for a test's own probe, whatever         *)
(* overlaps or fails, and whatever the other services do.                   *)
THEOREM RetentionHolds == ASSUME Keep \in Nat PROVE AllSpec => []NewestKept
  <1>1. AllInit => KeepInv
    BY KeepInit DEF AllInit
  <1>2. KeepInv /\ [AllNext]_allVars => KeepInv'
    BY KeepStep, StepIsBackups
  <1>3. KeepInv => NewestKept
    BY DEF KeepInv, NewestKept
  <1>4. QED
    BY <1>1, <1>2, <1>3, PTL DEF AllSpec

(* The clock and the anchor of the schedule.                                *)
ClockInv == now \in Nat /\ lastSched \in Nat \cup {None}

LEMMA ClockStep == ClockInv /\ [B!Next]_(B!vars) => ClockInv'
  <1> SUFFICES ASSUME ClockInv, [B!Next]_(B!vars) PROVE ClockInv'
    OBVIOUS
  <1>1. ASSUME NEW p \in B!Runs, B!RunStep(p) \/ B!Fails(p) PROVE ClockInv'
    <2>1. now' = now /\ lastSched' \in {lastSched, now}
      BY <1>1 DEF B!RunStep, B!Fails, B!Begin, B!Claim, B!Vacuum, B!Read, B!Put, B!List,
                  B!Prune, B!Success, B!Anchor, B!Record, B!settings
    <2>2. QED
      BY <2>1 DEF ClockInv
  <1>2. CASE B!Advance
    BY <1>2 DEF B!Advance, B!settings, ClockInv
  <1>3. CASE B!TimerDue \/ B!HandAsks \/ B!TestPuts \/ B!TestRemoves \/ B!TestFails
             \/ B!Restarts \/ B!Ended \/ UNCHANGED B!vars
    BY <1>3 DEF B!TimerDue, B!HandAsks, B!TestPuts, B!TestRemoves, B!TestFails, B!Restarts,
                B!Ended, B!vars, B!settings, ClockInv
  <1>4. QED
    BY <1>1, <1>2, <1>3 DEF B!Next

(* The slot before the one that begins is a day earlier.                    *)
LEMMA SlotsAreADayApart ==
    ASSUME NEW D \in Nat \ {0}, NEW h \in 0..D - 1, NEW t \in Nat, DayLen = D, SlotHour = h,
           B!Slot(t + 1) = t + 1
    PROVE  B!Slot(t) = t + 1 - D
  <1> DEFINE q == (t + 1) \div D
  <1>1. q \in Nat /\ q * D <= t + 1 /\ t + 1 < q * D + D
    OBVIOUS
  <1>2. t + 1 = q * D + h
    BY <1>1 DEF B!Slot
  <1>3. CASE h = 0
    <2>1. q \in Nat \ {0}
      BY <1>1, <1>2, <1>3
    <2>2. PICK r \in Nat : q = r + 1
      BY <2>1
    <2>3. r * D <= t /\ t < r * D + D /\ t + 1 - D = r * D
      BY <1>1, <1>2, <1>3, <2>2
    <2>4. t \div D = r
      BY <2>3
    <2>5. QED
      BY <1>3, <2>3, <2>4 DEF B!Slot
  <1>4. CASE h # 0
    <2>1. q * D <= t /\ t < q * D + D
      BY <1>1, <1>2, <1>4
    <2>2. t \div D = q
      BY <1>1, <2>1
    <2>3. t < q * D + h
      BY <1>1, <1>2
    <2>4. QED
      BY <1>1, <1>2, <2>2, <2>3 DEF B!Slot
  <1>5. QED
    BY <1>3, <1>4

(* "Daily and longer are anchored to a chosen hour", for every hour of every*)
(* length of day and every grace: a backup that was late, or one a user ran,*)
(* never makes runIfDue() let a slot pass.                                  *)
THEOREM SlotsAreServed ==
    ASSUME DayLen \in Nat \ {0}, SlotHour \in 0..DayLen - 1, Grace \in Nat
    PROVE  AllSpec => EverySlotServed
  <1>1. AllInit => ClockInv
    BY DEF AllInit, B!Init, ClockInv
  <1>2. ClockInv /\ [AllNext]_allVars => ClockInv'
    BY ClockStep, StepIsBackups
  <1>3. ClockInv /\ [AllNext]_allVars => [B!SlotWasServed]_backup
    <2> SUFFICES ASSUME ClockInv, [B!Next]_(B!vars), now' # now, ~B!IsDue, lastSched # None,
                        B!Slot(now') = now'
                 PROVE  lastSched >= B!Slot(now)
      BY StepIsBackups DEF B!SlotWasServed
    <2>1. now' = now + 1
      <3>1. ASSUME NEW p \in B!Runs, B!RunStep(p) \/ B!Fails(p) PROVE FALSE
        BY <3>1 DEF B!RunStep, B!Fails, B!Begin, B!Claim, B!Vacuum, B!Read, B!Put, B!List,
                    B!Prune, B!Success, B!Anchor, B!Record
      <3>2. CASE B!Advance
        BY <3>2 DEF B!Advance
      <3>3. CASE B!TimerDue \/ B!HandAsks \/ B!TestPuts \/ B!TestRemoves \/ B!TestFails
                 \/ B!Restarts \/ B!Ended \/ UNCHANGED B!vars
        BY <3>3 DEF B!TimerDue, B!HandAsks, B!TestPuts, B!TestRemoves, B!TestFails, B!Restarts,
                    B!Ended, B!vars
      <3>4. QED
        BY <3>1, <3>2, <3>3 DEF B!Next
    <2>2. now \in Nat /\ lastSched \in Nat
      BY DEF ClockInv
    <2>3. B!Slot(now) = now + 1 - DayLen
      BY <2>1, <2>2, SlotsAreADayApart
    <2>4. now - lastSched < DayLen - Grace \/ lastSched >= B!Slot(now)
      BY <2>2, <2>3 DEF B!IsDue, B!Passed
    <2>5. QED
      BY <2>2, <2>3, <2>4
  <1>4. QED
    BY <1>1, <1>2, <1>3, PTL DEF AllSpec, EverySlotServed

-----------------------------------------------------------------------------
(* DeviceConfig: any number of requests that edit the blob, of any number   *)
(* of edits.                                                                *)

LEMMA StepIsConfigs == [AllNext]_allVars => [E!Next]_(E!vars)
  BY DEF AllNext, allVars, edited, E!vars

(* While edits do not overlap, the one under way has read what is stored,   *)
(* and is newer than all of it.                                             *)
Merging ==
    /\ \A e, f \in E!Editing : e = f
    /\ \A e \in E!Editing :
         /\ blob[e] = config
         /\ \A k \in E!Keys : acked[k] < id[e]
    /\ E!EditsAreMerged

EditInv ==
    /\ config \in [E!Keys -> Nat] /\ acked \in [E!Keys -> Nat]
    /\ key \in [Editors -> E!Keys \cup {"none"}]
    /\ id \in [Editors -> Nat] /\ blob \in [Editors -> [E!Keys -> Nat]]
    /\ edits \in Nat
    /\ \A e \in Editors : id[e] <= edits
    /\ \A k \in E!Keys : acked[k] <= edits
    /\ ~overlapped => Merging

LEMMA BlankTyped == E!Blank \in [E!Keys -> Nat]
  BY DEF E!Blank

LEMMA EditStep == EditInv /\ [E!Next]_(E!vars) => EditInv'
  <1> SUFFICES ASSUME EditInv, [E!Next]_(E!vars) PROVE EditInv'
    OBVIOUS
  <1>0. \A k \in E!Keys : k # "none"
    BY DEF E!Keys
  <1>1. ASSUME NEW e \in Editors, NEW k \in E!Keys, E!Read(e, k) PROVE EditInv'
    <2>1. /\ edits' = edits + 1 /\ id' = [id EXCEPT ![e] = edits'] /\ key' = [key EXCEPT ![e] = k]
          /\ blob' = [blob EXCEPT ![e] = config] /\ UNCHANGED <<config, acked>>
          /\ overlapped' = (overlapped \/ E!Editing # {})
      BY <1>1 DEF E!Read
    <2>2. ~overlapped' => Merging'
      <3> SUFFICES ASSUME ~overlapped' PROVE Merging'
        OBVIOUS
      <3>1. ~overlapped /\ E!Editing = {}
        BY <2>1
      <3>2. E!Editing' = {e}
        BY <1>0, <2>1, <3>1 DEF E!Editing, EditInv
      <3>3. \A j \in E!Keys : acked'[j] < id'[e]
        BY <2>1 DEF EditInv
      <3>4. blob'[e] = config'
        BY <2>1 DEF EditInv
      <3>5. E!EditsAreMerged'
        BY <2>1, <3>1 DEF EditInv, Merging, E!EditsAreMerged
      <3>6. QED
        BY <3>2, <3>3, <3>4, <3>5 DEF Merging
    <2>3. /\ \A f \in Editors : id'[f] <= edits'
          /\ \A j \in E!Keys : acked'[j] <= edits'
      BY <2>1 DEF EditInv
    <2>4. /\ id' \in [Editors -> Nat] /\ key' \in [Editors -> E!Keys \cup {"none"}]
          /\ blob' \in [Editors -> [E!Keys -> Nat]] /\ edits' \in Nat
      BY <2>1 DEF EditInv
    <2>5. QED
      BY <2>1, <2>2, <2>3, <2>4 DEF EditInv
  <1>2. ASSUME NEW e \in Editors, E!Ends(e)
        PROVE  /\ key' \in [Editors -> E!Keys \cup {"none"}]
               /\ id' \in [Editors -> Nat] /\ blob' \in [Editors -> [E!Keys -> Nat]]
               /\ \A f \in Editors : id'[f] <= id[f]
               /\ E!Editing' = E!Editing \ {e}
               /\ \A f \in E!Editing' : id'[f] = id[f] /\ blob'[f] = blob[f]
    BY <1>0, <1>2, BlankTyped DEF E!Ends, EditInv, E!Editing
  <1>3. ASSUME NEW e \in Editors, E!Write(e) PROVE EditInv'
    <2>1. /\ key[e] \in E!Keys /\ e \in E!Editing /\ config' = E!Merged(e)
          /\ acked' = [acked EXCEPT ![key[e]] = id[e]] /\ E!Ends(e)
          /\ UNCHANGED <<edits, overlapped>>
      BY <1>3 DEF E!Write, EditInv, E!Editing
    <2>2. "pairing" \in E!Keys
      BY DEF E!Keys
    <2>3. /\ config' \in [E!Keys -> Nat] /\ acked' \in [E!Keys -> Nat]
          /\ \A k \in E!Keys : acked'[k] <= edits'
      BY <2>1, BlankTyped DEF E!Merged, EditInv
    <2>4. ~overlapped' => Merging'
      <3> SUFFICES ASSUME ~overlapped PROVE Merging'
        BY <2>1
      <3>1. E!Editing' = {}
        BY <1>2, <2>1 DEF EditInv, Merging
      <3>2. /\ blob[e] = config
            /\ \A k \in E!Keys : acked[k] < id[e]
            /\ \A k \in E!Keys : config[k] = acked[k] \/ acked[k] < config["pairing"]
        BY <2>1 DEF EditInv, Merging, E!EditsAreMerged
      <3>3. \A k \in E!Keys : config'[k] = acked'[k] \/ acked'[k] < config'["pairing"]
        <4>1. CASE key[e] = "pairing"
          BY <2>1, <2>2, <3>2, <4>1, BlankTyped DEF E!Merged, EditInv
        <4>2. CASE key[e] # "pairing"
          BY <2>1, <2>2, <3>2, <4>2 DEF E!Merged, EditInv
        <4>3. QED
          BY <4>1, <4>2
      <3>4. QED
        BY <3>1, <3>3 DEF Merging, E!EditsAreMerged
    <2>5. \A f \in Editors : id'[f] <= edits'
      BY <1>2, <2>1 DEF EditInv
    <2>6. QED
      BY <1>2, <2>1, <2>3, <2>4, <2>5 DEF EditInv
  <1>4. ASSUME NEW e \in Editors, E!Fails(e) PROVE EditInv'
    <2>1. E!Ends(e) /\ UNCHANGED <<config, edits, acked, overlapped>>
      BY <1>4 DEF E!Fails
    <2>2. ~overlapped' => Merging'
      BY <1>2, <2>1 DEF EditInv, Merging, E!EditsAreMerged
    <2>3. \A f \in Editors : id'[f] <= edits'
      BY <1>2, <2>1 DEF EditInv
    <2>4. QED
      BY <1>2, <2>1, <2>2, <2>3 DEF EditInv
  <1>5. CASE UNCHANGED E!vars
    BY <1>5 DEF E!vars, EditInv, Merging, E!Editing, E!EditsAreMerged
  <1>6. QED
    BY <1>1, <1>3, <1>4, <1>5 DEF E!Next, E!Ended

(* "Merging rather than replacing": what was acknowledged of a key of a      *)
(* device's configuration stays until its next edit, while edits do not      *)
(* overlap, and but for a pairing made since.                                *)
THEOREM EditsMerge == AllSpec => []EditsAreMerged
  <1>1. AllInit => EditInv
    BY DEF AllInit, E!Init, E!Blank, EditInv, Merging, E!Editing, E!EditsAreMerged, E!Keys
  <1>2. EditInv /\ [AllNext]_allVars => EditInv'
    BY EditStep, StepIsConfigs
  <1>3. EditInv => EditsAreMerged
    BY DEF EditInv, Merging, EditsAreMerged, E!EditsAreMerged
  <1>4. QED
    BY <1>1, <1>2, <1>3, PTL DEF AllSpec

-----------------------------------------------------------------------------
(* Charger: the loop, and the session that its rows are grouped into.       *)

LEMMA StepIsChargers == [AllNext]_allVars => [C!Next]_(C!vars)
  BY DEF AllNext, allVars, charger, C!vars, C!loop

(* The timer is set as long as there is a poll to come or in flight.        *)
LoopInv ==
    /\ polls \in {0, 1}
    /\ armed => polls = 0
    /\ ~timer => polls = 0 /\ ~armed

LEMMA LoopStep == LoopInv /\ [C!Next]_(C!vars) => LoopInv'
  <1> SUFFICES ASSUME LoopInv, [C!Next]_(C!vars) PROVE LoopInv'
    OBVIOUS
  <1> USE DEF LoopInv
  <1>1. CASE C!ApplyHost
    BY <1>1 DEF C!ApplyHost, C!Schedule
  <1>2. CASE C!Fire
    BY <1>2 DEF C!Fire
  <1>3. CASE C!Answered \/ C!Unanswered
    <2>1. polls' = polls - 1 /\ polls > 0 /\ timer'
      BY <1>3 DEF C!Answered, C!Unanswered, C!Schedule
    <2>2. QED
      BY <2>1
  <1>4. CASE C!CarChanges \/ UNCHANGED C!vars
    BY <1>4 DEF C!CarChanges, C!vars, C!loop
  <1>5. CASE C!Restarts
    BY <1>5 DEF C!Restarts
  <1>6. QED
    BY <1>1, <1>2, <1>3, <1>4, <1>5 DEF C!Next

(* "One timer at a time, re-armed after each poll", whenever an address is   *)
(* named, a poll fails or the app restarts, and whatever the pace.           *)
THEOREM LoopIsOne == AllSpec => []OneLoop
  <1>1. AllInit => LoopInv
    BY DEF AllInit, C!Init, LoopInv
  <1>2. LoopInv /\ [AllNext]_allVars => LoopInv'
    BY LoopStep, StepIsChargers
  <1>3. LoopInv => OneLoop
    BY DEF LoopInv, OneLoop, C!OneLoop
  <1>4. QED
    BY <1>1, <1>2, <1>3, PTL DEF AllSpec

(* What the code's constants give.                                          *)
Pace ==
    /\ MaxBackoff \in Nat
    /\ SessionGap \in Nat /\ SessionGap >= 15
    /\ MaxFailedPolls \in Nat /\ MaxFailedPolls >= 4

(* How far the rows of a session are apart when so many polls have failed.  *)
Widest(failed) == IF failed = 0 THEN 1 ELSE IF failed = 1 THEN 3 ELSE IF failed = 2 THEN 7 ELSE 15

SessionInv ==
    /\ failedPolls \in Nat
    /\ LoopInv
    /\ ~armed => delay = 0
    /\ steadyCharge => car /\ live
    /\ steadyCharge /\ failedPolls <= 3 =>
         gap \in Nat /\ delay \in Nat /\ gap + delay <= Widest(failedPolls)

(* The pace while the car charges.                                          *)
LEMMA PaceDoubles ==
    ASSUME MaxBackoff \in Nat, NEW failed \in 0..3
    PROVE  /\ C!NextPollDelay(TRUE, failed) \in Nat
           /\ failed > 0 => C!NextPollDelay(TRUE, failed) + Widest(failed - 1) <= Widest(failed)
           /\ failed = 0 => C!NextPollDelay(TRUE, failed) = 1
  <1>1. CASE failed = 0
    BY <1>1 DEF C!NextPollDelay
  <1>2. CASE failed = 1
    <2>1. 2^1 = 2
      OBVIOUS
    <2>2. QED
      BY <1>2, <2>1 DEF C!NextPollDelay, C!Capped, Widest
  <1>3. CASE failed = 2
    <2>1. 2^2 = 4
      OBVIOUS
    <2>2. QED
      BY <1>3, <2>1 DEF C!NextPollDelay, C!Capped, Widest
  <1>4. CASE failed = 3
    <2>1. 2^3 = 8
      OBVIOUS
    <2>2. QED
      BY <1>4, <2>1 DEF C!NextPollDelay, C!Capped, Widest
  <1>5. failed = 0 \/ failed = 1 \/ failed = 2 \/ failed = 3
    OBVIOUS
  <1>6. QED
    BY <1>1, <1>2, <1>3, <1>4, <1>5

(* After one more failed poll of a car that charges.                        *)
LEMMA FailureWidens ==
    ASSUME Pace, SessionInv, polls > 0, failedPolls' = C!Failed,
           steadyCharge' => steadyCharge, UNCHANGED gap, C!Schedule(delay'),
           delay' = C!NextPollDelay(live', failedPolls'), steadyCharge' => live', polls' = polls - 1,
           UNCHANGED car
    PROVE  SessionInv'
  <1>1. failedPolls' \in Nat
    BY DEF C!Failed, C!Capped, Pace, SessionInv
  <1>2. LoopInv' /\ armed'
    BY DEF SessionInv, LoopInv, C!Schedule
  <1>3. ASSUME steadyCharge', failedPolls' <= 3
        PROVE  gap' \in Nat /\ delay' \in Nat /\ gap' + delay' <= Widest(failedPolls')
    <2>1. failedPolls <= 2 /\ failedPolls' = failedPolls + 1
      BY <1>3 DEF C!Failed, C!Capped, Pace, SessionInv
    <2>2. ~armed /\ delay = 0
      BY DEF SessionInv, LoopInv
    <2>3. gap \in Nat /\ gap <= Widest(failedPolls)
      BY <1>3, <2>1, <2>2 DEF SessionInv
    <2>4. delay' = C!NextPollDelay(TRUE, failedPolls')
      BY <1>3
    <2>5. delay' \in Nat /\ delay' + Widest(failedPolls' - 1) <= Widest(failedPolls')
      <3>1. failedPolls' \in 0..3 /\ failedPolls' > 0 /\ MaxBackoff \in Nat
        BY <1>1, <1>3, <2>1 DEF SessionInv, Pace
      <3>2. QED
        BY <2>4, <3>1, PaceDoubles
    <2>6. failedPolls' - 1 = failedPolls /\ Widest(failedPolls) \in Nat /\ Widest(failedPolls') \in Nat
      BY <2>1 DEF SessionInv, Widest
    <2>7. QED
      BY <2>3, <2>5, <2>6
  <1>4. QED
    BY <1>1, <1>2, <1>3 DEF SessionInv

LEMMA SessionStep == Pace /\ SessionInv /\ [C!Next]_(C!vars) => SessionInv'
  <1> SUFFICES ASSUME Pace, SessionInv, [C!Next]_(C!vars) PROVE SessionInv'
    OBVIOUS
  <1>0. LoopInv'
    BY LoopStep DEF SessionInv
  <1>1. CASE C!ApplyHost
    <2>1. CASE timer
      BY <1>0, <1>1, <2>1 DEF C!ApplyHost, SessionInv
    <2>2. CASE ~timer
      <3>1. /\ delay' = 0 /\ armed' /\ ~armed /\ delay = 0
            /\ UNCHANGED <<car, live, failedPolls, gap, steadyCharge>>
        BY <1>1, <2>2 DEF C!ApplyHost, C!Schedule, SessionInv, LoopInv
      <3>2. QED
        BY <1>0, <3>1 DEF SessionInv
    <2>3. QED
      BY <2>1, <2>2
  <1>2. CASE C!Fire
    <2>1. /\ ~armed' /\ delay' = 0 /\ UNCHANGED <<car, live, failedPolls, steadyCharge>>
          /\ gap' = C!Capped(gap + delay, SessionGap + 1)
      BY <1>2 DEF C!Fire
    <2>2. ASSUME steadyCharge, failedPolls <= 3
          PROVE  gap' \in Nat /\ gap' <= Widest(failedPolls)
      <3>1. gap \in Nat /\ delay \in Nat /\ gap + delay <= Widest(failedPolls)
        BY <2>2 DEF SessionInv
      <3>2. Widest(failedPolls) \in Nat
        BY DEF Widest
      <3>3. QED
        BY <2>1, <3>1, <3>2 DEF C!Capped, Pace
    <2>3. Widest(failedPolls) \in Nat
      BY DEF Widest
    <2>4. QED
      BY <1>0, <2>1, <2>2, <2>3 DEF SessionInv
  <1>3. CASE C!Answered
    <2>1. PICK kept \in BOOLEAN, due \in BOOLEAN :
            /\ car => due
            /\ failedPolls' = IF due /\ ~kept THEN C!Failed ELSE 0
            /\ gap' = IF car /\ kept THEN 0 ELSE gap
            /\ steadyCharge' = (steadyCharge \/ (car /\ kept))
      BY <1>3 DEF C!Answered
    <2>2. /\ polls > 0 /\ live' = car /\ polls' = polls - 1 /\ UNCHANGED car
          /\ C!Schedule(C!NextPollDelay(live', failedPolls'))
      BY <1>3 DEF C!Answered
    <2>3. CASE due /\ ~kept
      <3>1. /\ failedPolls' = C!Failed /\ UNCHANGED gap
            /\ steadyCharge' => steadyCharge /\ live'
            /\ C!Schedule(delay') /\ delay' = C!NextPollDelay(live', failedPolls')
        BY <2>1, <2>2, <2>3 DEF SessionInv, C!Schedule
      <3>2. QED
        BY <2>2, <3>1, FailureWidens
    <2>4. CASE ~(due /\ ~kept)
      <3>1. failedPolls' = 0 /\ armed' /\ delay' = C!NextPollDelay(live', 0)
        BY <2>1, <2>2, <2>4 DEF C!Schedule
      <3>2. steadyCharge' => car /\ kept /\ live' /\ gap' = 0 /\ delay' = 1
        BY <2>1, <2>2, <2>4, <3>1 DEF SessionInv, C!NextPollDelay
      <3>3. QED
        BY <1>0, <2>2, <3>1, <3>2 DEF SessionInv, Widest
    <2>5. QED
      BY <2>3, <2>4
  <1>4. CASE C!Unanswered
    <2>1. /\ polls > 0 /\ failedPolls' = C!Failed /\ polls' = polls - 1
          /\ UNCHANGED <<car, live, gap, steadyCharge>>
          /\ C!Schedule(delay') /\ delay' = C!NextPollDelay(live', failedPolls')
      BY <1>4 DEF C!Unanswered, C!Schedule
    <2>2. QED
      BY <2>1, FailureWidens DEF SessionInv
  <1>5. CASE C!CarChanges
    BY <1>0, <1>5 DEF C!CarChanges, C!loop, SessionInv
  <1>6. CASE C!Restarts
    BY <1>0, <1>6 DEF C!Restarts, SessionInv
  <1>7. CASE UNCHANGED C!vars
    BY <1>0, <1>7 DEF C!vars, C!loop, SessionInv
  <1>8. QED
    BY <1>1, <1>2, <1>3, <1>4, <1>5, <1>6, <1>7 DEF C!Next

(* "A charger that fails mid-session is retried briskly": for every gap      *)
(* between sessions of fifteen polls or more and every ceiling of the        *)
(* backoff, the rows of a charge stay close enough to be one session until   *)
(* four polls in a row have failed.                                          *)
THEOREM SessionStays == ASSUME Pace PROVE AllSpec => []SessionHolds
  <1>1. AllInit => SessionInv
    BY DEF AllInit, C!Init, SessionInv, LoopInv
  <1>2. SessionInv /\ [AllNext]_allVars => SessionInv'
    BY SessionStep, StepIsChargers
  <1>3. SessionInv => SessionHolds
    BY DEF SessionInv, SessionHolds, C!SessionHolds, Pace, Widest
  <1>4. QED
    BY <1>1, <1>2, <1>3, PTL DEF AllSpec

-----------------------------------------------------------------------------
(* Scheduler: any number of overlapping ticks, days and restarts.           *)

LEMMA StepIsSchedulers == [AllNext]_allVars => [S!Next]_(S!vars)
  BY DEF AllNext, allVars, scheduler, S!vars, S!row, S!ticks

LEMMA SameSize == \A ticks : S!Cardinality(ticks) = Cardinality(ticks)
  BY DEF Cardinality, S!Cardinality

(* The ticks that may yet switch the device, and those of another day.      *)
Switching == {t \in Ticks : tickAt[t] \in {"command", "switch"}}
Stale == {t \in Ticks : tickAt[t] # "idle" /\ tickDay[t] # today}

(* May a tick yet find the schedule not run, without an excuse of its own?  *)
Unmarked == IF (S!Busy = {} /\ lastFired # today) \/ Stale # {} THEN 1 ELSE 0

FiringInv ==
    /\ tickAt \in [Ticks -> {"idle", "command", "switch", "mark"}]
    /\ tickDay \in [Ticks -> Nat]
    /\ today \in Nat /\ fired \in Nat /\ excuses \in Nat
    /\ fired + Cardinality(Switching) + Unmarked <= 1 + excuses

LEMMA Sizes ==
    ASSUME IsFiniteSet(Ticks)
    PROVE  /\ \A some \in SUBSET Ticks :
                /\ IsFiniteSet(some) /\ Cardinality(some) \in Nat
                /\ some = {} => Cardinality(some) = 0
                /\ \A t \in Ticks : /\ Cardinality(some \ {t}) <= Cardinality(some)
                                    /\ t \in some => Cardinality(some \ {t}) = Cardinality(some) - 1
                                    /\ Cardinality(some \cup {t}) <= Cardinality(some) + 1
           /\ \A some, more \in SUBSET Ticks :
                some \subseteq more => Cardinality(some) <= Cardinality(more)
  <1>1. ASSUME NEW some \in SUBSET Ticks
        PROVE  IsFiniteSet(some) /\ Cardinality(some) \in Nat
    BY FS_Subset, FS_CardinalityType
  <1>2. ASSUME NEW some \in SUBSET Ticks, NEW t \in Ticks
        PROVE  /\ Cardinality(some \ {t}) <= Cardinality(some)
               /\ t \in some => Cardinality(some \ {t}) = Cardinality(some) - 1
               /\ Cardinality(some \cup {t}) <= Cardinality(some) + 1
    <2>1. IsFiniteSet(some) /\ Cardinality(some) \in Nat
      BY <1>1
    <2>2. Cardinality(some \ {t}) = IF t \in some THEN Cardinality(some) - 1 ELSE Cardinality(some)
      BY <2>1, FS_RemoveElement
    <2>3. Cardinality(some \cup {t}) = IF t \in some THEN Cardinality(some) ELSE Cardinality(some) + 1
      BY <2>1, FS_AddElement
    <2>4. QED
      BY <2>1, <2>2, <2>3
  <1>3. ASSUME NEW some \in SUBSET Ticks, NEW more \in SUBSET Ticks, some \subseteq more
        PROVE  Cardinality(some) <= Cardinality(more)
    BY <1>1, <1>3, FS_Subset
  <1>4. ASSUME NEW some \in SUBSET Ticks, some = {} PROVE Cardinality(some) = 0
    BY <1>4, FS_EmptySet
  <1>5. QED
    BY <1>1, <1>2, <1>3, <1>4

LEMMA FiringStep == IsFiniteSet(Ticks) /\ FiringInv /\ [S!Next]_(S!vars) => FiringInv'
  <1> SUFFICES ASSUME IsFiniteSet(Ticks), FiringInv, [S!Next]_(S!vars) PROVE FiringInv'
    OBVIOUS
  <1>0. /\ tickAt \in [Ticks -> {"idle", "command", "switch", "mark"}]
        /\ tickDay \in [Ticks -> Nat]
        /\ today \in Nat /\ fired \in Nat /\ excuses \in Nat
        /\ Unmarked \in {0, 1} /\ Unmarked' \in {0, 1}
        /\ Cardinality(Switching) \in Nat
        /\ fired + Cardinality(Switching) + Unmarked <= 1 + excuses
    <2>1. Switching \in SUBSET Ticks
      BY DEF Switching
    <2>2. QED
      BY <2>1, Sizes DEF FiringInv, Unmarked
  <1>1. ASSUME NEW t \in Ticks, S!Tick(t) PROVE FiringInv'
    <2>1. /\ tickAt[t] = "idle" /\ lastFired # today
          /\ tickAt' \in {[tickAt EXCEPT ![t] = "mark"], [tickAt EXCEPT ![t] = "command"]}
          /\ tickDay' = [tickDay EXCEPT ![t] = today]
          /\ UNCHANGED <<today, lastFired, fired>>
          /\ excuses' = excuses + (IF S!Busy # {} THEN 1 ELSE 0)
      BY <1>1 DEF S!Tick, S!row
    <2>2. Switching' \in SUBSET (Switching \cup {t}) /\ Switching \in SUBSET Ticks
      BY <1>0, <2>1 DEF Switching
    <2>3. Cardinality(Switching') \in Nat /\ Cardinality(Switching') <= Cardinality(Switching) + 1
      <3>1. Switching \cup {t} \in SUBSET Ticks /\ Switching' \in SUBSET Ticks
        BY <2>2
      <3>2. Cardinality(Switching \cup {t}) <= Cardinality(Switching) + 1
        BY <2>2, Sizes
      <3>3. /\ Cardinality(Switching') <= Cardinality(Switching \cup {t})
            /\ Cardinality(Switching') \in Nat /\ Cardinality(Switching \cup {t}) \in Nat
        BY <2>2, <3>1, Sizes
      <3>4. QED
        BY <1>0, <3>2, <3>3
    <2>4. Stale' = Stale /\ S!Busy' # {}
      BY <1>0, <2>1 DEF Stale, S!Busy
    <2>5. Unmarked' = IF Stale # {} THEN 1 ELSE 0
      BY <2>4 DEF Unmarked
    <2>6. CASE S!Busy = {}
      <3>1. Stale = {}
        BY <2>6 DEF Stale, S!Busy
      <3>2. Unmarked = 1 /\ Unmarked' = 0
        BY <2>1, <2>5, <2>6, <3>1 DEF Unmarked
      <3>3. excuses' = excuses
        BY <1>0, <2>1, <2>6
      <3>4. QED
        BY <1>0, <2>1, <2>3, <3>2, <3>3 DEF FiringInv
    <2>7. CASE S!Busy # {}
      <3>1. Unmarked' = Unmarked /\ excuses' = excuses + 1
        BY <2>1, <2>5, <2>7 DEF Unmarked
      <3>2. QED
        BY <1>0, <2>1, <2>3, <3>1 DEF FiringInv
    <2>8. QED
      BY <2>6, <2>7
  <1>2. ASSUME NEW t \in Ticks, NEW place \in {"switch", "mark"}, tickAt[t] # "idle",
               tickAt' = [tickAt EXCEPT ![t] = place],
               UNCHANGED <<tickDay, today, lastFired>>
        PROVE  Unmarked' = Unmarked
    <2>1. S!Busy' = S!Busy /\ Stale' = Stale
      BY <1>0, <1>2 DEF S!Busy, Stale
    <2>2. QED
      BY <1>2, <2>1 DEF Unmarked
  <1>3. ASSUME NEW t \in Ticks, S!Command(t) PROVE FiringInv'
    <2>1. PICK place \in {"switch", "mark"} :
            tickAt' = [tickAt EXCEPT ![t] = place]
      BY <1>3 DEF S!Command
    <2>2. tickAt[t] = "command" /\ UNCHANGED <<tickDay, today, lastFired, fired, excuses>>
      BY <1>3 DEF S!Command, S!row
    <2>3. Switching' \in SUBSET Switching /\ Switching \in SUBSET Ticks
      BY <1>0, <2>1, <2>2 DEF Switching
    <2>4. Cardinality(Switching') \in Nat /\ Cardinality(Switching') <= Cardinality(Switching)
      BY <2>3, Sizes
    <2>5. Unmarked' = Unmarked
      BY <1>2, <2>1, <2>2
    <2>6. tickAt' \in [Ticks -> {"idle", "command", "switch", "mark"}]
      BY <1>0, <2>1
    <2>7. QED
      BY <1>0, <2>2, <2>4, <2>5, <2>6 DEF FiringInv
  <1>4. ASSUME NEW t \in Ticks, S!Switch(t) PROVE FiringInv'
    <2>1. /\ tickAt[t] = "switch" /\ tickAt' = [tickAt EXCEPT ![t] = "mark"]
          /\ fired' = fired + 1 /\ UNCHANGED <<tickDay, today, lastFired, excuses>>
      BY <1>4 DEF S!Switch, S!row
    <2>2. Switching' = Switching \ {t} /\ t \in Switching /\ Switching \in SUBSET Ticks
      BY <1>0, <2>1 DEF Switching
    <2>3. Cardinality(Switching') = Cardinality(Switching) - 1
      BY <2>2, Sizes
    <2>4. Unmarked' = Unmarked
      BY <1>2, <2>1
    <2>5. QED
      BY <1>0, <2>1, <2>3, <2>4 DEF FiringInv
  <1>5. ASSUME NEW t \in Ticks, S!Mark(t) PROVE FiringInv'
    <2>1. /\ tickAt[t] = "mark" /\ tickAt' = [tickAt EXCEPT ![t] = "idle"]
          /\ lastFired' = tickDay[t] /\ tickDay' = [tickDay EXCEPT ![t] = 0]
          /\ UNCHANGED <<today, fired, excuses>>
      BY <1>5 DEF S!Mark
    <2>2. Switching' = Switching
      BY <1>0, <2>1 DEF Switching
    <2>3. Unmarked' <= Unmarked
      <3>1. CASE tickDay[t] = today
        <4>1. Stale' = Stale
          BY <1>0, <2>1, <3>1 DEF Stale
        <4>2. QED
          BY <2>1, <3>1, <4>1 DEF Unmarked
      <3>2. CASE tickDay[t] # today
        <4>1. t \in Stale
          BY <2>1, <3>2 DEF Stale
        <4>2. Unmarked = 1
          BY <4>1 DEF Unmarked
        <4>3. QED
          BY <1>0, <4>2
      <3>3. QED
        BY <3>1, <3>2
    <2>4. QED
      BY <1>0, <2>1, <2>2, <2>3 DEF FiringInv
  <1>6. CASE S!Restarts
    <2>1. /\ tickAt' = [t \in Ticks |-> "idle"] /\ tickDay' = [t \in Ticks |-> 0]
          /\ excuses' = excuses + (IF S!Busy # {} THEN 1 ELSE 0)
          /\ UNCHANGED <<today, lastFired, fired>>
      BY <1>6 DEF S!Restarts, S!row
    <2>2. Switching' = {} /\ Stale' = {}
      BY <2>1 DEF Switching, Stale
    <2>3. Cardinality(Switching') = 0
      BY <2>2, FS_EmptySet
    <2>4. CASE S!Busy = {}
      <3>1. Stale = {} /\ S!Busy' = {}
        BY <2>1, <2>4 DEF Stale, S!Busy
      <3>2. Unmarked' = Unmarked
        BY <2>1, <2>2, <2>4, <3>1 DEF Unmarked
      <3>3. excuses' = excuses
        BY <1>0, <2>1, <2>4
      <3>4. QED
        BY <1>0, <2>1, <2>3, <3>2, <3>3 DEF FiringInv
    <2>5. CASE S!Busy # {}
      <3>1. excuses' = excuses + 1
        BY <2>1, <2>5
      <3>2. fired <= 1 + excuses
        BY <1>0
      <3>3. CASE Unmarked' = 0
        BY <1>0, <2>1, <2>3, <3>1, <3>2, <3>3 DEF FiringInv
      <3>4. CASE Unmarked' = 1
        BY <1>0, <2>1, <2>3, <3>1, <3>2, <3>4 DEF FiringInv
      <3>5. QED
        BY <1>0, <3>3, <3>4
    <2>6. QED
      BY <2>4, <2>5
  <1>7. CASE S!Advance
    <2>1. UNCHANGED <<lastFired, tickAt, tickDay>> /\ Switching' = Switching
      BY <1>7 DEF S!Advance, S!row, S!ticks, Switching
    <2>2. CASE UNCHANGED <<today, fired, excuses>>
      <3>1. Unmarked' = Unmarked
        BY <2>1, <2>2 DEF Unmarked, Stale, S!Busy
      <3>2. QED
        BY <1>0, <2>1, <2>2, <3>1 DEF FiringInv
    <2>3. CASE today' = today + 1 /\ fired' = 0 /\ excuses' = Cardinality(S!Busy)
      <3>1. Switching \subseteq S!Busy /\ S!Busy \in SUBSET Ticks /\ Switching \in SUBSET Ticks
        BY DEF Switching, S!Busy
      <3>2. Cardinality(Switching) <= Cardinality(S!Busy) /\ Cardinality(S!Busy) \in Nat
        BY <3>1, Sizes
      <3>3. QED
        BY <1>0, <2>1, <2>3, <3>2 DEF FiringInv
    <2>4. QED
      BY <1>7, <2>2, <2>3, SameSize DEF S!Advance
  <1>8. CASE S!RemoveSchedule \/ S!SetCritical \/ UNCHANGED S!vars
    <2>1. UNCHANGED <<lastFired, tickAt, tickDay, today, fired, excuses>>
      BY <1>8 DEF S!RemoveSchedule, S!SetCritical, S!vars, S!row, S!ticks
    <2>2. QED
      BY <1>0, <2>1 DEF FiringInv, Unmarked, Stale, Switching, S!Busy
  <1>9. QED
    BY <1>1, <1>3, <1>4, <1>5, <1>6, <1>7, <1>8 DEF S!Next, S!TickStep

(* "Each schedule runs once per local day": more often only for each tick    *)
(* that overlapped another, was left by midnight or cut short by a restart,  *)
(* however many ticks overlap.                                               *)
THEOREM FiringsHaveExcuses == ASSUME IsFiniteSet(Ticks) PROVE AllSpec => []FiringsAreExcused
  <1>1. AllInit => FiringInv
    <2> SUFFICES ASSUME S!Init PROVE FiringInv
      BY DEF AllInit
    <2>1. Switching = {} /\ Unmarked \in {0, 1}
      BY DEF S!Init, Switching, Unmarked
    <2>2. QED
      BY <2>1, FS_EmptySet DEF S!Init, FiringInv
  <1>2. FiringInv /\ [AllNext]_allVars => FiringInv'
    BY FiringStep, StepIsSchedulers
  <1>3. FiringInv => FiringsAreExcused
    <2> SUFFICES ASSUME FiringInv PROVE FiringsAreExcused
      OBVIOUS
    <2>1. Switching \in SUBSET Ticks /\ Unmarked \in {0, 1}
      BY DEF Switching, Unmarked
    <2>2. Cardinality(Switching) \in Nat
      BY <2>1, Sizes
    <2>3. QED
      BY <2>1, <2>2 DEF FiringInv, FiringsAreExcused, S!FiringsAreExcused
  <1>4. QED
    BY <1>1, <1>2, <1>3, PTL DEF AllSpec

-----------------------------------------------------------------------------
(* Pvoutput: the hour's requests, any limit and any share of it.            *)

LEMMA StepIsPvoutputs == [AllNext]_allVars => [P!Next]_(P!vars)
  BY DEF AllNext, allVars, pvoutput, P!vars, P!memory, P!rows, P!uploads, P!history

Budget == Limit \in Nat /\ Share \in 1..Limit /\ MaxBlind \in Nat

(* The share, and two posts for each time that the figure was lost.         *)
Allowed == Share + 2 * blind

(* With so many left the timer's posts, but those that nobody answered, are *)
(* among those that are gone.                                               *)
Accounted(n, posts, lost) == n = 0 \/ posts <= Limit - n + 2 * lost

Posting(u) == uploadAt[u] \in {"sent", "told"}

BudgetInv ==
    /\ P!TypeOK
    /\ spent <= Allowed + 1
    /\ uploadAt["timer"] = "total" => what["timer"] = "status"
    /\ uploadAt["timer"] # "idle" /\ what["timer"] = "status" => spent <= Allowed
    /\ ~Posting("timer") /\ P!MaySpend => spent <= Allowed - 1
    /\ Accounted(left, IF uploadAt["timer"] = "sent" THEN spent - 1 ELSE spent, blind)
    /\ uploadAt["timer"] = "told" =>
         reply["timer"].figure \in 0..Limit /\ Accounted(reply["timer"].figure, spent, blind)
    /\ uploadAt["test"] = "told" => reply["test"].figure \in 0..Limit

LEMMA BudgetStep == Budget /\ BudgetInv /\ [P!Next]_(P!vars) => BudgetInv'
  <1> SUFFICES ASSUME Budget, BudgetInv, [P!Next]_(P!vars) PROVE BudgetInv'
    OBVIOUS
  <1> USE DEF P!Uploads, Posting
  <1>0. /\ P!TypeOK
        /\ Limit \in Nat /\ Share \in Nat /\ 1 <= Share /\ Share <= Limit /\ MaxBlind \in Nat
        /\ None \notin Int
        /\ spent \in Nat /\ blind \in Nat /\ left \in 0..Limit
        /\ rate \in 0..Limit \cup {None}
    BY NoneAssumption DEF Budget, BudgetInv, P!TypeOK, P!Left
  <1>1. BudgetInv' <=>
          /\ P!TypeOK'
          /\ spent' <= Share + 2 * blind' + 1
          /\ uploadAt'["timer"] = "total" => what'["timer"] = "status"
          /\ uploadAt'["timer"] # "idle" /\ what'["timer"] = "status" => spent' <= Share + 2 * blind'
          /\ ~Posting("timer")' /\ P!MaySpend' => spent' <= (Share + 2 * blind') - 1
          /\ Accounted(left', IF uploadAt'["timer"] = "sent" THEN spent' - 1 ELSE spent', blind')
          /\ uploadAt'["timer"] = "told" =>
               reply'["timer"].figure \in 0..Limit /\ Accounted(reply'["timer"].figure, spent', blind')
          /\ uploadAt'["test"] = "told" => reply'["test"].figure \in 0..Limit
    BY DEF BudgetInv, Allowed, Accounted
  <1>2. CASE P!Tick
    <2>1. /\ P!MaySpend /\ uploadAt["timer"] = "idle"
          /\ uploadAt' = [uploadAt EXCEPT !["timer"] = "sent"]
          /\ what' = [what EXCEPT !["timer"] = "status"] /\ spent' = spent + 1
          /\ UNCHANGED <<rate, sentFor, lastError, enabled, rateRow, sentRow, reply, left, outputs, blind>>
      BY <1>2 DEF P!Tick, P!Goes, P!memory, P!rows
    <2>2. P!TypeOK'
      BY <1>0, <2>1 DEF P!TypeOK
    <2>3. spent <= Share + 2 * blind - 1
      <3>1. ~Posting("timer")
        BY <2>1
      <3>2. spent <= Allowed - 1
        BY <2>1, <3>1 DEF BudgetInv
      <3>3. QED
        BY <1>0, <3>2 DEF Allowed
    <2>4. QED
      BY <1>0, <1>1, <2>1, <2>2, <2>3 DEF BudgetInv, P!TypeOK, Accounted, Allowed
  <1>3. CASE P!TestUpload
    <2>1. /\ uploadAt["test"] = "idle" /\ uploadAt' = [uploadAt EXCEPT !["test"] = "sent"]
          /\ what' = [what EXCEPT !["test"] = "status"]
          /\ UNCHANGED <<rate, sentFor, lastError, enabled, rateRow, sentRow, reply, left, spent, outputs, blind>>
      BY <1>3 DEF P!TestUpload, P!Goes, P!memory, P!rows, P!history
    <2>2. P!TypeOK' /\ (P!MaySpend' <=> P!MaySpend)
      BY <1>0, <2>1 DEF P!TypeOK, P!MaySpend
    <2>3. QED
      BY <1>0, <1>1, <2>1, <2>2 DEF BudgetInv, P!TypeOK, Accounted, Allowed
  <1>4. ASSUME NEW u \in P!Uploads, P!Serve(u) PROVE BudgetInv'
    <2>1. PICK code \in {"ok", "refused", "error"} :
            reply' = [reply EXCEPT ![u] = [code |-> code, figure |-> left']]
      BY <1>4 DEF P!Serve
    <2>2. /\ uploadAt[u] = "sent" /\ uploadAt' = [uploadAt EXCEPT ![u] = "told"]
          /\ left' = (IF left > 0 THEN left - 1 ELSE 0)
          /\ UNCHANGED <<rate, sentFor, lastError, enabled, rateRow, sentRow, what, spent, outputs, blind>>
      BY <1>4 DEF P!Serve, P!Goes, P!memory, P!rows, P!history
    <2>3. left' \in 0..Limit
      BY <1>0, <2>2
    <2>4. P!TypeOK' /\ (P!MaySpend' <=> P!MaySpend)
      BY <1>0, <2>1, <2>2, <2>3 DEF P!TypeOK, P!MaySpend, P!Left
    <2>5. reply'[u].figure = left' /\ \A w \in P!Uploads : w # u => reply'[w] = reply[w]
      BY <2>1, <1>0 DEF P!TypeOK
    <2>6. Accounted(left', IF uploadAt'["timer"] = "sent" THEN spent' - 1 ELSE spent', blind')
      <3>1. Accounted(left, IF uploadAt["timer"] = "sent" THEN spent - 1 ELSE spent, blind)
        BY DEF BudgetInv
      <3>2. CASE u = "timer"
        <4>1. uploadAt["timer"] = "sent" /\ uploadAt'["timer"] = "told"
          BY <1>0, <2>2, <3>2 DEF P!TypeOK
        <4>2. left = 0 \/ spent - 1 <= Limit - left + 2 * blind
          BY <3>1, <4>1 DEF Accounted
        <4>3. left' = 0 \/ spent' <= Limit - left' + 2 * blind'
          BY <1>0, <2>2, <4>2
        <4>4. QED
          BY <4>1, <4>3 DEF Accounted
      <3>3. CASE u # "timer"
        <4>1. uploadAt'["timer"] = uploadAt["timer"]
          BY <1>0, <2>2, <3>3 DEF P!TypeOK
        <4>2. QED
          BY <1>0, <2>2, <3>1, <4>1 DEF Accounted
      <3>4. QED
        BY <3>2, <3>3
    <2>7. QED
      BY <1>0, <1>1, <2>2, <2>3, <2>4, <2>5, <2>6 DEF BudgetInv, P!TypeOK, Accounted, Allowed
  <1>5. ASSUME NEW u \in P!Uploads, P!Receive(u) PROVE BudgetInv'
    <2>1. /\ uploadAt[u] = "told" /\ uploadAt' = [uploadAt EXCEPT ![u] = "rate"]
          /\ UNCHANGED <<sentFor, lastError, enabled, rateRow, sentRow, what, reply, left, spent, outputs>>
      BY <1>5 DEF P!Receive, P!Goes, P!rows
    <2>2. /\ rate' \in 0..Limit \cup {None}
          /\ \/ blind' = blind + 1 /\ blind < MaxBlind
             \/ /\ blind' = blind /\ rate' = reply[u].figure /\ rate' \in 0..Limit
                /\ rate = None \/ rate' <= rate
      <3>1. reply[u].figure \in 0..Limit
        BY <2>1 DEF BudgetInv
      <3>2. QED
        BY <1>0, <1>5, <3>1 DEF P!Receive, P!GoesBlind
    <2>3. P!TypeOK'
      BY <1>0, <2>1, <2>2 DEF P!TypeOK, P!Left
    <2>4. uploadAt'[u] = "rate"
      BY <1>0, <2>1 DEF P!TypeOK
    <2>5. CASE blind' = blind + 1
      BY <1>0, <1>1, <2>1, <2>3, <2>4, <2>5 DEF BudgetInv, P!TypeOK, Accounted, Allowed
    <2>6. CASE blind' = blind /\ rate' = reply[u].figure /\ rate' \in 0..Limit
               /\ (rate = None \/ rate' <= rate)
      <3>1. P!MaySpend' => rate' > Limit - Share
        BY <1>0, <2>6 DEF P!MaySpend
      <3>2. CASE u = "timer"
        <4>1. P!MaySpend' => spent' <= (Share + 2 * blind') - 1
          BY <1>0, <2>1, <2>6, <3>1, <3>2 DEF BudgetInv, Accounted
        <4>2. QED
          BY <1>0, <1>1, <2>1, <2>3, <2>4, <2>6, <3>2, <4>1
          DEF BudgetInv, P!TypeOK, Accounted, Allowed
      <3>3. CASE u = "test"
        <4>1. P!MaySpend' => P!MaySpend
          BY <1>0, <2>6, <3>1 DEF P!MaySpend
        <4>2. QED
          BY <1>0, <1>1, <2>1, <2>3, <2>4, <2>6, <3>3, <4>1
          DEF BudgetInv, P!TypeOK, Accounted, Allowed
      <3>4. QED
        BY <3>2, <3>3
    <2>7. QED
      BY <2>2, <2>5, <2>6
  <1>6. ASSUME NEW u \in P!Uploads, P!RememberRate(u) PROVE BudgetInv'
    <2>1. /\ uploadAt[u] = "rate" /\ uploadAt' = [uploadAt EXCEPT ![u] = "outcome"]
          /\ rateRow' = rate
          /\ UNCHANGED <<rate, sentFor, lastError, enabled, sentRow, what, reply, left, spent, outputs, blind>>
      BY <1>6 DEF P!RememberRate, P!Goes, P!memory, P!history
    <2>2. P!TypeOK' /\ (P!MaySpend' <=> P!MaySpend)
      BY <1>0, <2>1 DEF P!TypeOK, P!MaySpend
    <2>3. QED
      BY <1>0, <1>1, <2>1, <2>2 DEF BudgetInv, P!TypeOK, Accounted, Allowed
  <1>7. ASSUME NEW u \in P!Uploads PROVE
          /\ P!After(u) \in {"total", "idle"}
          /\ P!After(u) = "total" => u = "timer" /\ what[u] = "status"
    BY DEF P!After
  <1>8. P!NoReply \in [code : {"none", "ok", "refused", "error"}, figure : P!Left]
    BY DEF P!NoReply, P!Left
  <1>9. ASSUME NEW u \in P!Uploads, P!Outcome(u) PROVE BudgetInv'
    <2>1. /\ uploadAt[u] = "outcome" /\ uploadAt' = [uploadAt EXCEPT ![u] = P!After(u)]
          /\ lastError' \in BOOLEAN /\ enabled' \in BOOLEAN /\ sentFor' \in BOOLEAN /\ sentRow' \in BOOLEAN
          /\ reply' = [reply EXCEPT ![u] = P!NoReply]
          /\ UNCHANGED <<rate, rateRow, what, left, spent, outputs, blind>>
      BY <1>9, <1>0 DEF P!Outcome, P!Goes, P!history, P!TypeOK
    <2>2. P!TypeOK' /\ (P!MaySpend' <=> P!MaySpend)
      BY <1>0, <1>7, <1>8, <2>1 DEF P!TypeOK, P!MaySpend
    <2>3. \A w \in P!Uploads : /\ uploadAt'[w] = (IF w = u THEN P!After(u) ELSE uploadAt[w])
                               /\ w # u => reply'[w] = reply[w]
      BY <1>0, <2>1 DEF P!TypeOK
    <2>4. QED
      BY <1>0, <1>1, <1>7, <2>1, <2>2, <2>3 DEF BudgetInv, Accounted, Allowed
  <1>10. ASSUME NEW u \in P!Uploads, P!TimesOut(u) PROVE BudgetInv'
    <2>1. /\ uploadAt[u] \in {"sent", "told", "outcome"} /\ uploadAt' = [uploadAt EXCEPT ![u] = P!After(u)]
          /\ lastError' = TRUE /\ reply' = [reply EXCEPT ![u] = P!NoReply]
          /\ UNCHANGED <<rate, sentFor, enabled, rateRow, sentRow, what, left, spent, outputs>>
          /\ \/ uploadAt[u] = "outcome" /\ blind' = blind
             \/ blind' = blind + 1 /\ blind < MaxBlind
      BY <1>10 DEF P!TimesOut, P!rows, P!GoesBlind
    <2>2. P!TypeOK' /\ (P!MaySpend' <=> P!MaySpend)
      BY <1>0, <1>7, <1>8, <2>1 DEF P!TypeOK, P!MaySpend
    <2>3. \A w \in P!Uploads : /\ uploadAt'[w] = (IF w = u THEN P!After(u) ELSE uploadAt[w])
                               /\ w # u => reply'[w] = reply[w]
      BY <1>0, <2>1 DEF P!TypeOK
    <2>4. CASE uploadAt[u] = "outcome" /\ blind' = blind
      BY <1>0, <1>1, <1>7, <2>1, <2>2, <2>3, <2>4 DEF BudgetInv, Accounted, Allowed
    <2>5. CASE blind' = blind + 1
      BY <1>0, <1>1, <1>7, <2>1, <2>2, <2>3, <2>5 DEF BudgetInv, Accounted, Allowed
    <2>6. QED
      BY <2>1, <2>4, <2>5
  <1>16. ASSUME NEW u \in P!Uploads, P!RateNotWritten(u) PROVE BudgetInv'
    <2>1. /\ uploadAt[u] = "rate" /\ uploadAt' = [uploadAt EXCEPT ![u] = P!After(u)]
          /\ lastError' = TRUE /\ rateRow' \in {rateRow, rate}
          /\ reply' = [reply EXCEPT ![u] = P!NoReply]
          /\ UNCHANGED <<rate, sentFor, enabled, sentRow, what, left, spent, outputs, blind>>
      BY <1>16 DEF P!RateNotWritten, P!Goes, P!history
    <2>2. P!TypeOK' /\ (P!MaySpend' <=> P!MaySpend)
      BY <1>0, <1>7, <1>8, <2>1 DEF P!TypeOK, P!MaySpend
    <2>3. \A w \in P!Uploads : /\ uploadAt'[w] = (IF w = u THEN P!After(u) ELSE uploadAt[w])
                               /\ w # u => reply'[w] = reply[w]
      BY <1>0, <2>1 DEF P!TypeOK
    <2>4. QED
      BY <1>0, <1>1, <1>7, <2>1, <2>2, <2>3 DEF BudgetInv, Accounted, Allowed
  <1>11. CASE P!Total
    <2>1. /\ uploadAt["timer"] = "total" /\ spent <= Share + 2 * blind
          /\ UNCHANGED <<rate, lastError, enabled, rateRow, reply, left, blind>>
      BY <1>11 DEF P!Total, BudgetInv, Allowed
    <2>2. CASE /\ uploadAt' = [uploadAt EXCEPT !["timer"] = "sent"]
               /\ what' = [what EXCEPT !["timer"] = "output"] /\ spent' = spent + 1
               /\ outputs' = (IF outputs = 2 THEN 2 ELSE outputs + 1) /\ UNCHANGED <<sentFor, sentRow>>
      <3>1. P!TypeOK'
        BY <1>0, <2>1, <2>2 DEF P!TypeOK
      <3>2. QED
        BY <1>0, <1>1, <2>1, <2>2, <3>1 DEF BudgetInv, P!TypeOK, Accounted, Allowed
    <2>3. CASE /\ uploadAt' = [uploadAt EXCEPT !["timer"] = "idle"]
               /\ sentFor' = TRUE /\ sentRow' = TRUE /\ UNCHANGED <<what, spent, outputs>>
      <3>1. P!TypeOK' /\ (P!MaySpend' <=> P!MaySpend)
        BY <1>0, <2>1, <2>3 DEF P!TypeOK, P!MaySpend
      <3>2. QED
        BY <1>0, <1>1, <2>1, <2>3, <3>1 DEF BudgetInv, P!TypeOK, Accounted, Allowed
    <2>4. QED
      BY <1>11, <2>2, <2>3 DEF P!Total
  <1>12. CASE P!Restarts
    <2>1. /\ uploadAt' = [u \in P!Uploads |-> "idle"] /\ reply' = [u \in P!Uploads |-> P!NoReply]
          /\ rate' = rateRow /\ sentFor' = sentRow
          /\ UNCHANGED <<lastError, enabled, rateRow, sentRow, what, left, spent, outputs>>
          /\ \/ blind' = blind /\ rate = rateRow
                /\ \A u \in P!Uploads : uploadAt[u] \notin {"sent", "told", "rate"}
             \/ blind' = blind + 1 /\ blind < MaxBlind
      BY <1>12 DEF P!Restarts, P!Restored, P!GoesBlind, P!rows
    <2>2. P!TypeOK'
      BY <1>0, <1>8, <2>1 DEF P!TypeOK
    <2>3. CASE blind' = blind /\ rate = rateRow
               /\ \A u \in P!Uploads : uploadAt[u] \notin {"sent", "told", "rate"}
      <3>1. rate' = rate
        BY <2>1, <2>3
      <3>2. P!MaySpend' <=> P!MaySpend
        BY <3>1 DEF P!MaySpend
      <3>3. QED
        BY <1>0, <1>1, <2>1, <2>2, <2>3, <3>2 DEF BudgetInv, Accounted, Allowed
    <2>4. CASE blind' = blind + 1
      BY <1>0, <1>1, <2>1, <2>2, <2>4 DEF BudgetInv, Accounted, Allowed
    <2>5. QED
      BY <2>1, <2>3, <2>4
  <1>13. CASE P!HourEnds
    <2>1. /\ \A u \in P!Uploads : uploadAt[u] \in {"idle", "total"}
          /\ left' = Limit /\ rate' = None /\ rateRow' = None /\ spent' = 0 /\ blind' = 0
          /\ UNCHANGED <<sentFor, lastError, enabled, sentRow, uploadAt, what, reply, outputs>>
      BY <1>13 DEF P!HourEnds, P!uploads
    <2>2. P!TypeOK'
      BY <1>0, <2>1 DEF P!TypeOK, P!Left
    <2>3. QED
      BY <1>0, <1>1, <2>1, <2>2 DEF BudgetInv, Accounted
  <1>14. CASE P!Owner \/ P!OthersPost \/ P!DayEnds \/ UNCHANGED P!vars
    <2>1. /\ UNCHANGED <<rate, rateRow, uploadAt, what, reply, spent, blind>>
          /\ left' \in 0..Limit /\ left' <= left
      <3>1. CASE P!OthersPost
        BY <1>0, <3>1 DEF P!OthersPost, P!memory, P!rows, P!uploads, P!history
      <3>2. CASE P!Owner
        BY <1>0, <3>2 DEF P!Owner, P!memory, P!rows, P!uploads, P!history
      <3>3. CASE P!DayEnds
        BY <1>0, <3>3 DEF P!DayEnds, P!memory, P!rows, P!uploads, P!history
      <3>4. CASE UNCHANGED P!vars
        BY <1>0, <3>4 DEF P!vars, P!memory, P!rows, P!uploads, P!history
      <3>5. QED
        BY <1>14, <3>1, <3>2, <3>3, <3>4
    <2>2. P!TypeOK'
      <3>1. /\ sentFor' \in BOOLEAN /\ sentRow' \in BOOLEAN /\ enabled' \in BOOLEAN
            /\ lastError' \in BOOLEAN /\ outputs' \in 0..2
        <4>1. CASE P!OthersPost
          BY <1>0, <4>1 DEF P!OthersPost, P!memory, P!rows, P!uploads, P!history, P!TypeOK
        <4>2. CASE P!Owner
          BY <1>0, <4>2 DEF P!Owner, P!memory, P!rows, P!uploads, P!history, P!TypeOK
        <4>3. CASE P!DayEnds
          <5>1. /\ sentFor' = FALSE /\ sentRow' = FALSE /\ outputs' = 0
                /\ enabled' = enabled /\ lastError' = lastError
            BY <4>3 DEF P!DayEnds
          <5>2. enabled \in BOOLEAN /\ lastError \in BOOLEAN
            BY <1>0 DEF P!TypeOK
          <5>3. outputs' \in 0..2
            BY <5>1
          <5>4. QED
            BY <5>1, <5>2, <5>3
        <4>4. CASE UNCHANGED P!vars
          BY <1>0, <4>4 DEF P!vars, P!memory, P!rows, P!uploads, P!history, P!TypeOK
        <4>5. QED
          BY <1>14, <4>1, <4>2, <4>3, <4>4
      <3>2. QED
        BY <1>0, <2>1, <3>1 DEF P!TypeOK, P!Left
    <2>3. P!MaySpend' <=> P!MaySpend
      BY <2>1 DEF P!MaySpend
    <2>4. Accounted(left', IF uploadAt'["timer"] = "sent" THEN spent' - 1 ELSE spent', blind')
      <3>1. PICK posts \in Int : posts = IF uploadAt["timer"] = "sent" THEN spent - 1 ELSE spent
        BY <1>0
      <3>2. left = 0 \/ posts <= Limit - left + 2 * blind
        BY <3>1 DEF BudgetInv, Accounted
      <3>3. left' = 0 \/ posts <= Limit - left' + 2 * blind
        <4>1. left \in Nat /\ left' \in Nat /\ left' <= left /\ Limit \in Nat
          BY <1>0, <2>1
        <4>2. PICK n \in Nat : n = 2 * blind
          BY <1>0
        <4>3. CASE left = 0
          BY <4>1, <4>3
        <4>4. CASE posts <= Limit - left + n
          BY <4>1, <4>4, <4>2
        <4>5. QED
          BY <3>2, <4>2, <4>3, <4>4
      <3>4. posts = (IF uploadAt'["timer"] = "sent" THEN spent' - 1 ELSE spent') /\ blind' = blind
        BY <2>1, <3>1
      <3>5. QED
        BY <3>3, <3>4 DEF Accounted
    <2>5. QED
      BY <1>0, <1>1, <2>1, <2>2, <2>3, <2>4 DEF BudgetInv, Accounted, Allowed
  <1>15. QED
    BY <1>2, <1>3, <1>4, <1>5, <1>6, <1>9, <1>10, <1>11, <1>12, <1>13, <1>14, <1>16 DEF P!Next

LEMMA BudgetStarts == ASSUME Budget PROVE P!Init => BudgetInv
  <1> SUFFICES ASSUME P!Init PROVE BudgetInv
    OBVIOUS
  <1>1. P!TypeOK
    <2>1. Limit \in Nat /\ MaxBlind \in Nat
      BY DEF Budget
    <2>2. P!NoReply \in [code : {"none", "ok", "refused", "error"}, figure : P!Left]
      BY DEF P!NoReply, P!Left
    <2>3. left \in 0..Limit /\ spent \in Nat /\ outputs \in 0..2 /\ blind \in 0..MaxBlind
      BY <2>1 DEF P!Init
    <2>4. /\ uploadAt \in [P!Uploads -> {"idle", "sent", "told", "rate", "outcome", "total"}]
          /\ what \in [P!Uploads -> {"status", "output"}]
          /\ reply \in [P!Uploads -> [code : {"none", "ok", "refused", "error"}, figure : P!Left]]
      BY <2>2 DEF P!Init
    <2>5. /\ {enabled, sentFor, sentRow, lastError} \subseteq BOOLEAN
          /\ {rate, rateRow} \subseteq P!Left
      BY DEF P!Init, P!Left
    <2>6. QED
      BY <2>3, <2>4, <2>5 DEF P!TypeOK
  <1>2. QED
    BY <1>1 DEF P!Init, P!Uploads, BudgetInv, Allowed, Accounted, Posting, Budget

(* Of an hour's requests the timer posts no more than its share, the total  *)
(* that may follow the last status, and a tick for each time that the figure*)
(* was lost: for every limit and share of it, with a test upload and others *)
(* using the same key, timeouts and restarts.                               *)
THEOREM BudgetIsHeld == ASSUME Budget PROVE AllSpec => []BudgetHeld
  <1>1. AllInit => BudgetInv
    BY BudgetStarts DEF AllInit
  <1>2. BudgetInv /\ [AllNext]_allVars => BudgetInv'
    BY BudgetStep, StepIsPvoutputs
  <1>3. BudgetInv => BudgetHeld
    BY DEF BudgetInv, Allowed, BudgetHeld, P!BudgetHeld, P!TypeOK, Budget
  <1>4. QED
    BY <1>1, <1>2, <1>3, PTL DEF AllSpec

-----------------------------------------------------------------------------
(* CreditBank: any number of days and bills, and any day of expiry.  The    *)
(* balance is computed by a recursive function, so that this needs the      *)
(* least element of a set of numbers: the first day on which it would be    *)
(* wrong.                                                                   *)

Below == {pair \in Nat \X Nat : pair[1] < pair[2]}

LEMMA Smallest ==
    ASSUME NEW T, T \subseteq Nat, T # {}
    PROVE  \E m \in T : \A n \in T : m <= n
  <1>1. IsWellFoundedOn(Below, Nat)
    BY NatLessThanWellFounded DEF OpToRel, Below
  <1>2. PICK m \in T : \A n \in T : ~ (<<n, m>> \in Below)
    BY <1>1, WFMin
  <1>3. ASSUME NEW n \in T PROVE m <= n
    <2>1. n \in Nat /\ m \in Nat
      OBVIOUS
    <2>2. n < m => <<n, m>> \in Below
      BY <2>1 DEF Below
    <2>3. QED
      BY <1>2, <2>1, <2>2
  <1>4. QED
    BY <1>3

LEMMA Largest ==
    ASSUME NEW n \in Nat, NEW T, T \subseteq 0..n, T # {}
    PROVE  \E m \in T : \A k \in T : k <= m
  <1> DEFINE Gaps == {g \in Nat : n - g \in T}
  <1>1. Gaps # {}
    <2>1. PICK k \in T : TRUE
      OBVIOUS
    <2>2. n - k \in Nat /\ n - (n - k) = k
      OBVIOUS
    <2>3. n - k \in Gaps
      BY <2>1, <2>2
    <2>4. QED
      BY <2>3
  <1>2. PICK g \in Gaps : \A h \in Gaps : g <= h
    BY <1>1, Smallest
  <1>3. ASSUME NEW k \in T PROVE k <= n - g
    <2>1. n - k \in Nat /\ n - (n - k) = k /\ k \in Nat
      OBVIOUS
    <2>2. n - k \in Gaps
      BY <2>1
    <2>3. g <= n - k
      BY <1>2, <2>2
    <2>4. QED
      BY <2>1, <2>3
  <1>4. QED
    BY <1>2, <1>3

LEMMA StepIsBanks == [AllNext]_allVars => [K!Next]_(K!vars)
  BY DEF AllNext, allVars, credits, K!vars

LEMMA SameNumber == \A days : K!Cardinality(days) = Cardinality(days)
  BY DEF K!Cardinality, Cardinality, K!IsFiniteSet, IsFiniteSet

(* The utility's bank goes from each day to the next by what was metered.   *)
BankInv ==
    /\ nets \in Seq(Int) /\ ledger \in Seq(Nat) /\ Len(ledger) = Len(nets)
    /\ bills \subseteq (1..Len(nets)) \X Nat
    /\ meter \subseteq 1..Len(nets)
    /\ \A d \in 2..Len(nets) :
         d - 1 # Expiry => ledger[d] = K!AtLeast0(ledger[d - 1] + nets[d])

LEMMA BankStep == Opening \subseteq Nat /\ BankInv /\ [K!Next]_(K!vars) => BankInv'
  <1> SUFFICES ASSUME Opening \subseteq Nat, BankInv, [K!Next]_(K!vars) PROVE BankInv'
    OBVIOUS
  <1>0. Len(nets) \in Nat /\ Len(ledger) = Len(nets)
        /\ nets \in Seq(Int) /\ ledger \in Seq(Nat)
    BY DEF BankInv
  <1>1. CASE K!Settle
    <2>1. PICK n \in {-2, 1}, carried \in K!Carried :
            nets' = Append(nets, n) /\ ledger' = Append(ledger, K!AtLeast0(carried + n))
      BY <1>1 DEF K!Settle
    <2>2. carried \in Nat
      <3>1. Len(nets) # 0 => ledger[Len(nets)] \in Nat
        BY <1>0
      <3>2. QED
        BY <3>1 DEF K!Carried, K!Today
    <2>3. K!AtLeast0(carried + n) \in Nat
      BY <2>2 DEF K!AtLeast0
    <2>4. nets' \in Seq(Int) /\ ledger' \in Seq(Nat) /\ Len(nets') = Len(nets) + 1
          /\ Len(ledger') = Len(nets')
      BY <1>0, <2>1, <2>3
    <2>5. bills' \subseteq (1..Len(nets')) \X Nat /\ meter' \subseteq 1..Len(nets')
      <3>1. 1..Len(nets) \subseteq 1..Len(nets')
        BY <1>0, <2>4
      <3>2. QED
        BY <1>1, <3>1 DEF BankInv, K!Settle
    <2>6. ASSUME NEW d \in 2..Len(nets'), d - 1 # Expiry
          PROVE  ledger'[d] = K!AtLeast0(ledger'[d - 1] + nets'[d])
      <3>1. CASE d <= Len(nets)
        <4>1. /\ d \in 2..Len(nets) /\ ledger'[d] = ledger[d] /\ nets'[d] = nets[d]
              /\ ledger'[d - 1] = ledger[d - 1]
          <5>1. d \in 2..Len(nets) /\ d \in 1..Len(nets) /\ d - 1 \in 1..Len(nets)
            BY <1>0, <2>4, <3>1
          <5>2. nets'[d] = nets[d]
            BY <1>0, <2>1, <5>1
          <5>3. \A i \in 1..Len(nets) : ledger'[i] = ledger[i]
            BY <1>0, <2>1, <2>3
          <5>4. QED
            BY <5>1, <5>2, <5>3
        <4>2. QED
          BY <2>6, <4>1 DEF BankInv
      <3>2. CASE d = Len(nets) + 1
        <4>1. /\ ledger'[d] = K!AtLeast0(carried + n) /\ nets'[d] = n
              /\ ledger'[d - 1] = ledger[Len(nets)]
          BY <1>0, <2>1, <2>4, <3>2
        <4>2. carried = ledger[Len(nets)]
          BY <1>0, <2>6, <3>2 DEF K!Carried, K!Today
        <4>3. QED
          BY <4>1, <4>2
      <3>3. QED
        BY <1>0, <2>4, <3>1, <3>2
    <2>7. QED
      BY <2>4, <2>5, <2>6 DEF BankInv
  <1>2. CASE K!Add
    <2>1. PICK d \in 1..Len(nets), slip \in {0, 1} : bills' = bills \cup {<<d, ledger[d] + slip>>}
      BY <1>2 DEF K!Add, K!Past, K!Today
    <2>2. ledger[d] + slip \in Nat
      BY <1>0
    <2>3. bills' \subseteq (1..Len(nets)) \X Nat
      BY <2>1, <2>2 DEF BankInv
    <2>4. QED
      BY <1>2, <2>3 DEF BankInv, K!Add
  <1>3. CASE K!Remove \/ K!Commit \/ K!Ended \/ UNCHANGED K!vars
    BY <1>3 DEF BankInv, K!Remove, K!Commit, K!Ended, K!vars, K!Past, K!Today
  <1>4. QED
    BY <1>1, <1>2, <1>3 DEF K!Next

(* Whatever keeps the rule of deriveBank()'s loop is what it computes.      *)
Rule(anchor, after) ==
    [d \in 0..K!Today |->
       IF d = 0 THEN anchor[2]
       ELSE IF d \in K!Counted(anchor) THEN K!AtLeast0(after[d - 1] + nets[d]) ELSE after[d - 1]]

LEMMA BalanceIs ==
    ASSUME NEW anchor, NEW kept, kept = Rule(anchor, kept), Len(nets) \in Nat
    PROVE  K!Balance(anchor) = kept[K!Today]
  <1> DEFINE after == CHOOSE f : f = Rule(anchor, f)
  <1>1. after = Rule(anchor, after)
    OBVIOUS
  <1>2. K!Balance(anchor) = after[K!Today]
    BY DEF K!Balance, Rule
  <1> HIDE DEF after
  <1>3. K!Today \in Nat
    BY DEF K!Today
  <1> DEFINE Wrong == {d \in 0..K!Today : after[d] # kept[d]}
  <1>4. ASSUME Wrong # {} PROVE FALSE
    <2>1. PICK m \in Wrong : \A n \in Wrong : m <= n
      <3>1. Wrong \subseteq Nat
        BY <1>3
      <3>2. QED
        BY <1>4, <3>1, Smallest
    <2>2. CASE m = 0
      BY <1>1, <1>3, <2>1, <2>2 DEF Rule
    <2>3. CASE m # 0
      <3>1. m \in 1..K!Today /\ m - 1 \in 0..K!Today /\ m - 1 < m
        BY <1>3, <2>1, <2>3
      <3>2. after[m - 1] = kept[m - 1]
        BY <2>1, <3>1
      <3>3. /\ after[m] = IF m \in K!Counted(anchor)
                          THEN K!AtLeast0(after[m - 1] + nets[m]) ELSE after[m - 1]
            /\ kept[m] = IF m \in K!Counted(anchor)
                         THEN K!AtLeast0(kept[m - 1] + nets[m]) ELSE kept[m - 1]
        BY <1>1, <3>1 DEF Rule
      <3>4. QED
        BY <2>1, <3>2, <3>3
    <2>4. QED
      BY <2>2, <2>3
  <1>5. K!Today \in 0..K!Today
    BY <1>3
  <1>6. QED
    BY <1>2, <1>4, <1>5

(* With no day missing the days counted are all of those after the bill.    *)
LEMMA AllCounted ==
    ASSUME BankInv, NEW anchor \in bills, K!MissingDays(anchor) = 0
    PROVE  /\ K!ThroughDate(anchor) \in anchor[1]..Len(nets)
           /\ K!Counted(anchor) = anchor[1] + 1 .. K!ThroughDate(anchor)
  <1> DEFINE days == K!Counted(anchor)
             from == anchor[1]
             through == K!ThroughDate(anchor)
  <1>1. Len(nets) \in Nat /\ from \in 1..Len(nets)
    BY DEF BankInv
  <1>2. days \subseteq from + 1 .. Len(nets)
    <2> SUFFICES ASSUME NEW d \in days PROVE d \in from + 1 .. Len(nets)
      OBVIOUS
    <2>1. d \in meter /\ d > from
      BY DEF K!Counted
    <2>2. d \in 1..Len(nets)
      BY <2>1 DEF BankInv
    <2>3. QED
      BY <1>1, <2>1, <2>2
  <1>3. through \in from..Len(nets) /\ days \subseteq from + 1 .. through
    <2>1. CASE days = {}
      BY <1>1, <2>1 DEF K!ThroughDate
    <2>2. CASE days # {}
      <3>1. days \subseteq 0..Len(nets)
        BY <1>1, <1>2
      <3>2. \E d \in days : \A e \in days : e <= d
        BY <1>1, <2>2, <3>1, Largest
      <3>3. through \in days /\ \A e \in days : e <= through
        <4>1. through = CHOOSE d \in days : \A e \in days : e <= d
          BY <2>2 DEF K!ThroughDate
        <4>2. QED
          BY <3>2, <4>1
      <3>4. QED
        BY <1>1, <1>2, <3>3
    <2>3. QED
      BY <2>1, <2>2
  <1>4. /\ IsFiniteSet(from + 1 .. through)
        /\ Cardinality(from + 1 .. through) = through - from
    <2>1. from + 1 \in Int /\ through \in Int /\ from <= through /\ from \in Int
      BY <1>1, <1>3
    <2>2. /\ IsFiniteSet(from + 1 .. through)
          /\ Cardinality(from + 1 .. through)
               = IF from + 1 > through THEN 0 ELSE through - (from + 1) + 1
      BY <2>1, FS_Interval
    <2> HIDE DEF through, from
    <2>3. QED
      BY <2>1, <2>2
  <1>5. /\ IsFiniteSet(days) /\ Cardinality(days) <= through - from /\ Cardinality(days) \in Nat
        /\ Cardinality(days) = through - from => days = from + 1 .. through
    <2>1. days \in SUBSET (from + 1 .. through)
      BY <1>3
    <2> HIDE DEF days, from, through
    <2>2. /\ IsFiniteSet(days)
          /\ Cardinality(days) <= Cardinality(from + 1 .. through)
          /\ Cardinality(from + 1 .. through) = Cardinality(days) => from + 1 .. through = days
      BY <1>4, <2>1, FS_Subset
    <2>3. Cardinality(days) \in Nat
      BY <2>2, FS_CardinalityType
    <2>4. QED
      BY <1>4, <2>2, <2>3
  <1>6. through - from - Cardinality(days) <= 0
    BY <1>1, <1>3, <1>5, SameNumber DEF K!MissingDays, K!AtLeast0
  <1>7. Cardinality(days) = through - from
    BY <1>1, <1>3, <1>5, <1>6
  <1>8. QED
    BY <1>3, <1>5, <1>7

LEMMA BankIsDerived == BankInv => DerivedIsRight
  <1> SUFFICES ASSUME BankInv, NEW anchor \in bills, K!Right(anchor), K!MissingDays(anchor) = 0,
                      Expiry \notin anchor[1]..(K!ThroughDate(anchor) - 1)
               PROVE  K!Balance(anchor) = ledger[K!ThroughDate(anchor)]
    BY DEF DerivedIsRight, K!DerivedIsRight, K!Anchors
  <1> DEFINE from == anchor[1]
             through == K!ThroughDate(anchor)
             kept == [d \in 0..K!Today |-> IF d <= from THEN anchor[2]
                                           ELSE IF d <= through THEN ledger[d] ELSE ledger[through]]
  <1>1. /\ from \in 1..Len(nets) /\ Len(nets) \in Nat /\ through \in from..Len(nets)
        /\ K!Counted(anchor) = from + 1 .. through /\ anchor[2] = ledger[from]
    BY AllCounted DEF BankInv, K!Right
  <1>2. ASSUME NEW d \in 0..K!Today, d # 0
        PROVE  kept[d] = IF d \in K!Counted(anchor) THEN K!AtLeast0(kept[d - 1] + nets[d])
                         ELSE kept[d - 1]
    <2>1. d \in 1..Len(nets) /\ d - 1 \in 0..K!Today
      BY <1>1, <1>2 DEF K!Today
    <2>2. CASE d <= from
      BY <1>1, <2>1, <2>2
    <2>3. CASE d > through
      BY <1>1, <2>1, <2>3
    <2>4. CASE d > from /\ d <= through
      <3>1. d \in K!Counted(anchor) /\ d \in 2..Len(nets) /\ d - 1 \in from..through - 1
        BY <1>1, <2>1, <2>4
      <3>2. kept[d - 1] = ledger[d - 1] /\ kept[d] = ledger[d]
        BY <1>1, <2>1, <2>4, <3>1
      <3>3. ledger[d] = K!AtLeast0(ledger[d - 1] + nets[d])
        BY <3>1 DEF BankInv
      <3>4. QED
        BY <3>1, <3>2, <3>3
    <2>5. QED
      BY <1>1, <2>1, <2>2, <2>3, <2>4
  <1>3. kept[0] = anchor[2]
    BY <1>1 DEF K!Today
  <1>4. kept[K!Today] = ledger[through]
    BY <1>1 DEF K!Today
  <1>5. kept = [d \in 0..K!Today |-> kept[d]]
    OBVIOUS
  <1> HIDE DEF kept
  <1>6. kept = Rule(anchor, kept)
    BY <1>2, <1>3, <1>5 DEF Rule
  <1>7. QED
    BY <1>1, <1>4, <1>6, BalanceIs

(* The balance derived from the newest bill and the days imported after it  *)
(* is the utility's, in whatever order bills are typed in or withdrawn and  *)
(* files are imported, whole or in part.                                    *)
THEOREM BalanceIsRight == ASSUME Opening \subseteq Nat PROVE AllSpec => []DerivedIsRight
  <1>1. AllInit => BankInv
    BY DEF AllInit, K!Init, BankInv
  <1>2. BankInv /\ [AllNext]_allVars => BankInv'
    BY BankStep, StepIsBanks
  <1>3. QED
    BY <1>1, <1>2, BankIsDerived, PTL DEF AllSpec

-----------------------------------------------------------------------------
(* The types of all the services, one after the other.                      *)

(* The bounds are numbers, and so are the powers of two that the charger's  *)
(* backoff multiplies by: of exponentiation the provers know nothing.       *)
AllBounds ==
    /\ {MaxTime, MaxByHand, MaxFailures, MaxRestarts, MaxEdits, MaxDate, MaxBills} \subseteq Nat
    /\ IsFiniteSet(Ticks) /\ ScheduleDays \in Nat \ {0}
    /\ MaxBackoff \in Nat /\ IdlePoll \in 1..MaxBackoff
    /\ SessionGap \in Nat /\ MaxFailedPolls \in Nat
    /\ \A n \in 0..MaxFailedPolls : 2^n \in Nat
    /\ Budget
    /\ Opening \subseteq Nat

LEMMA SchedulerTyped ==
    ASSUME IsFiniteSet(Ticks), ScheduleDays \in Nat \ {0}, MaxRestarts \in Nat
    PROVE  /\ S!Init => S!TypeOK
           /\ S!TypeOK /\ [S!Next]_(S!vars) => S!TypeOK'
  <1>1. S!Init => S!TypeOK
    <2>1. 0 \in 0..ScheduleDays /\ 1 \in 1..ScheduleDays /\ 1 \in 1..3 /\ 0 \in 0..MaxRestarts
          /\ 0 \in Nat
      OBVIOUS
    <2>2. QED
      BY <2>1 DEF S!Init, S!TypeOK
  <1>2. ASSUME S!TypeOK, [S!Next]_(S!vars) PROVE S!TypeOK'
    <2> USE <1>2 DEF S!TypeOK
    <2>1. ASSUME NEW t \in Ticks, S!Tick(t) PROVE S!TypeOK'
      <3>1. /\ UNCHANGED <<today, hour, lastFired, present, critical, fired, restarts>>
            /\ tickAt' = [tickAt EXCEPT ![t] = IF S!Phases[hour] = "late" THEN "mark"
                                               ELSE "command"]
            /\ tickDay' = [tickDay EXCEPT ![t] = today]
            /\ excuses' = excuses + (IF S!Busy # {} THEN 1 ELSE 0)
        BY <2>1 DEF S!Tick, S!row
      <3>2. today \in 0..ScheduleDays
        OBVIOUS
      <3>3. tickDay' \in [Ticks -> 0..ScheduleDays]
        BY <3>1, <3>2
      <3>4. tickAt' \in [Ticks -> {"idle", "command", "switch", "mark"}]
        BY <3>1
      <3>5. excuses' \in Nat
        BY <3>1
      <3>6. QED
        BY <3>1, <3>3, <3>4, <3>5
    <2>2. ASSUME NEW t \in Ticks, S!Command(t) \/ S!Switch(t) \/ S!Mark(t) PROVE S!TypeOK'
      <3>1. tickAt' \in [Ticks -> {"idle", "command", "switch", "mark"}]
        BY <2>2 DEF S!Command, S!Switch, S!Mark
      <3>2. /\ lastFired' \in 0..ScheduleDays /\ tickDay' \in [Ticks -> 0..ScheduleDays]
            /\ fired' \in Nat /\ UNCHANGED <<today, hour, present, critical, excuses, restarts>>
        BY <2>2 DEF S!Command, S!Switch, S!Mark, S!row
      <3>3. QED
        BY <3>1, <3>2
    <2>3. CASE S!Restarts
      BY <2>3 DEF S!Restarts, S!row
    <2>4. CASE S!RemoveSchedule \/ S!SetCritical
      BY <2>4 DEF S!RemoveSchedule, S!SetCritical, S!ticks
    <2>5. CASE S!Advance
      <3>1. S!Cardinality(S!Busy) \in Nat
        <4>1. IsFiniteSet(S!Busy)
          BY FS_Subset DEF S!Busy
        <4>2. S!Cardinality(S!Busy) = Cardinality(S!Busy)
          BY DEF S!Cardinality, Cardinality, S!IsFiniteSet, IsFiniteSet
        <4>3. QED
          BY <4>1, <4>2, FS_CardinalityType
      <3>2. QED
        BY <2>5, <3>1 DEF S!Advance, S!row, S!ticks
    <2>6. CASE UNCHANGED S!vars
      BY <2>6 DEF S!vars, S!row, S!ticks
    <2>7. QED
      BY <2>1, <2>2, <2>3, <2>4, <2>5, <2>6 DEF S!Next, S!TickStep
  <1>3. QED
    BY <1>1, <1>2

LEMMA ConfigTyped ==
    ASSUME MaxEdits \in Nat
    PROVE  /\ E!Init => E!TypeOK
           /\ E!TypeOK /\ [E!Next]_(E!vars) => E!TypeOK'
  <1>0. E!Blank \in E!Blobs
    BY DEF E!Blank, E!Blobs
  <1>1. E!Init => E!TypeOK
    <2>1. 0 \in 0..MaxEdits
      OBVIOUS
    <2>2. QED
      BY <1>0, <2>1 DEF E!Init, E!TypeOK
  <1>2. ASSUME E!TypeOK, [E!Next]_(E!vars) PROVE E!TypeOK'
    <2>1. ASSUME NEW e \in Editors, NEW k \in E!Keys, E!Read(e, k) PROVE E!TypeOK'
      <3>1. edits' \in 0..MaxEdits
        BY <1>2, <2>1 DEF E!TypeOK, E!Read
      <3>2. QED
        BY <1>2, <2>1, <3>1 DEF E!TypeOK, E!Read
    <2>2. ASSUME NEW e \in Editors, E!Ends(e)
          PROVE  /\ key' \in [Editors -> E!Keys \cup {"none"}]
                 /\ id' \in [Editors -> 0..MaxEdits] /\ blob' \in [Editors -> E!Blobs]
      BY <1>0, <1>2, <2>2 DEF E!TypeOK, E!Ends
    <2>3. ASSUME NEW e \in Editors, E!Write(e) PROVE E!TypeOK'
      <3>1. key[e] \in E!Keys /\ id[e] \in 0..MaxEdits /\ blob[e] \in E!Blobs
        BY <1>2, <2>3 DEF E!TypeOK, E!Write
      <3>2. E!Merged(e) \in E!Blobs /\ [acked EXCEPT ![key[e]] = id[e]] \in E!Blobs
        BY <1>0, <1>2, <3>1 DEF E!TypeOK, E!Merged, E!Blobs
      <3>3. QED
        BY <1>2, <2>2, <2>3, <3>2 DEF E!TypeOK, E!Write
    <2>4. ASSUME NEW e \in Editors, E!Fails(e) PROVE E!TypeOK'
      BY <1>2, <2>2, <2>4 DEF E!TypeOK, E!Fails
    <2>5. CASE UNCHANGED E!vars
      BY <1>2, <2>5 DEF E!TypeOK, E!vars
    <2>6. QED
      BY <1>2, <2>1, <2>3, <2>4, <2>5 DEF E!Next, E!Ended
  <1>3. QED
    BY <1>1, <1>2

LEMMA ChargerTyped ==
    ASSUME AllBounds
    PROVE  /\ C!Init => C!TypeOK
           /\ C!TypeOK /\ [C!Next]_(C!vars) => C!TypeOK'
  <1> USE DEF AllBounds
  <1>0. ASSUME NEW charging \in BOOLEAN, NEW failed \in 0..MaxFailedPolls
        PROVE  C!NextPollDelay(charging, failed) \in 0..MaxBackoff
    <2> DEFINE base == IF charging THEN 1 ELSE IdlePoll
               power == 2^failed
    <2>1. base \in Nat /\ base <= MaxBackoff /\ power \in Nat
      OBVIOUS
    <2>2. C!NextPollDelay(charging, failed)
            = IF failed = 0 THEN base ELSE C!Capped(base * power, MaxBackoff)
      BY DEF C!NextPollDelay
    <2> HIDE DEF base, power
    <2>3. base * power \in Nat
      BY <2>1
    <2>4. QED
      BY <2>1, <2>2, <2>3 DEF C!Capped
  <1>1. C!Init => C!TypeOK
    <2>1. 0 \in 0..MaxBackoff /\ 0 \in 0..MaxFailedPolls /\ 0 \in Nat
          /\ SessionGap + 1 \in 0..(SessionGap + 1)
      OBVIOUS
    <2>2. QED
      BY <2>1 DEF C!Init, C!TypeOK
  <1>2. ASSUME C!TypeOK, [C!Next]_(C!vars) PROVE C!TypeOK'
    <2>0. C!Failed \in 0..MaxFailedPolls
      BY <1>2 DEF C!TypeOK, C!Failed, C!Capped
    <2>1. CASE C!ApplyHost
      <3>1. 0 \in 0..MaxBackoff
        OBVIOUS
      <3>2. timer' \in BOOLEAN /\ armed' \in BOOLEAN /\ delay' \in 0..MaxBackoff
        BY <1>2, <2>1, <3>1 DEF C!TypeOK, C!ApplyHost, C!Schedule
      <3>3. QED
        BY <1>2, <2>1, <3>2 DEF C!TypeOK, C!ApplyHost
    <2>2. CASE C!Fire
      <3>1. /\ delay' \in 0..MaxBackoff /\ polls' \in Nat
            /\ gap' \in 0..(SessionGap + 1)
        BY <1>2, <2>2 DEF C!TypeOK, C!Fire, C!Capped
      <3>2. armed' = FALSE /\ UNCHANGED <<car, timer, live, failedPolls, lastState, steadyCharge>>
        BY <2>2 DEF C!Fire
      <3>3. QED
        BY <1>2, <3>1, <3>2 DEF C!TypeOK
    <2>3. CASE C!Answered
      <3>1. /\ failedPolls' \in 0..MaxFailedPolls
            /\ lastState' \in C!States \cup {"none"}
            /\ gap' \in 0..(SessionGap + 1) /\ steadyCharge' \in BOOLEAN /\ live' \in BOOLEAN
        BY <1>2, <2>0, <2>3 DEF C!TypeOK, C!Answered, C!States
      <3>2. timer' = TRUE /\ armed' = TRUE /\ delay' \in 0..MaxBackoff
        BY <1>0, <2>3, <3>1 DEF C!Answered, C!Schedule
      <3>3. polls' \in Nat /\ UNCHANGED car
        BY <1>2, <2>3 DEF C!TypeOK, C!Answered
      <3>4. QED
        BY <1>2, <3>1, <3>2, <3>3 DEF C!TypeOK
    <2>4. CASE C!Unanswered
      <3>1. failedPolls' \in 0..MaxFailedPolls /\ live \in BOOLEAN
        BY <1>2, <2>0, <2>4 DEF C!TypeOK, C!Unanswered
      <3>2. timer' = TRUE /\ armed' = TRUE /\ delay' \in 0..MaxBackoff
        BY <1>0, <2>4, <3>1 DEF C!Unanswered, C!Schedule
      <3>3. polls' \in Nat /\ UNCHANGED <<car, live, lastState, gap, steadyCharge>>
        BY <1>2, <2>4 DEF C!TypeOK, C!Unanswered
      <3>4. QED
        BY <1>2, <3>1, <3>2, <3>3 DEF C!TypeOK
    <2>5. CASE C!CarChanges
      BY <1>2, <2>5 DEF C!TypeOK, C!CarChanges, C!loop
    <2>6. CASE C!Restarts
      <3>1. 0 \in 0..MaxBackoff /\ 0 \in 0..MaxFailedPolls /\ 0 \in Nat
            /\ SessionGap + 1 \in 0..(SessionGap + 1)
        OBVIOUS
      <3>2. gap' \in 0..(SessionGap + 1)
        BY <1>2, <2>6, <3>1 DEF C!TypeOK, C!Restarts
      <3>3. QED
        BY <1>2, <2>6, <3>1, <3>2 DEF C!TypeOK, C!Restarts
    <2>7. CASE UNCHANGED C!vars
      BY <1>2, <2>7 DEF C!TypeOK, C!vars, C!loop
    <2>8. QED
      BY <1>2, <2>1, <2>2, <2>3, <2>4, <2>5, <2>6, <2>7 DEF C!Next
  <1>3. QED
    BY <1>1, <1>2

(* The cardinality of what is finite. *)
BillsInv == K!TypeOK /\ IsFiniteSet(bills)

LEMMA BillsTyped ==
    ASSUME AllBounds
    PROVE  /\ K!Init => BillsInv
           /\ BillsInv /\ [K!Next]_(K!vars) => BillsInv'
  <1> USE DEF AllBounds
  <1>1. K!Init => BillsInv
    <2>1. K!Cardinality({}) = 0 /\ IsFiniteSet({})
      BY SameNumber, FS_EmptySet
    <2>2. QED
      BY <2>1 DEF K!Init, BillsInv, K!TypeOK, K!Today, K!Past
  <1>2. ASSUME BillsInv, [K!Next]_(K!vars) PROVE BillsInv'
    <2>0. /\ Len(nets) \in 0..MaxDate /\ Len(ledger) = Len(nets)
          /\ nets \in Seq({-2, 1}) /\ ledger \in Seq(Nat)
          /\ bills \subseteq (1..Len(nets)) \X Nat /\ Cardinality(bills) <= MaxBills
          /\ meter \subseteq 1..Len(nets) /\ IsFiniteSet(bills) /\ Cardinality(bills) \in Nat
      BY <1>2, SameNumber, FS_CardinalityType DEF BillsInv, K!TypeOK, K!Today, K!Past
    <2>1. CASE K!Settle
      <3>1. PICK n \in {-2, 1}, carried \in K!Carried :
              /\ nets' = Append(nets, n)
              /\ ledger' = Append(ledger, K!AtLeast0(carried + n))
        BY <2>1 DEF K!Settle
      <3>2. carried \in Nat
        BY <2>0, <3>1 DEF K!Carried, K!Today
      <3>3. K!AtLeast0(carried + n) \in Nat
        BY <3>2 DEF K!AtLeast0
      <3>4. /\ nets' \in Seq({-2, 1}) /\ Len(nets') = Len(nets) + 1
            /\ ledger' \in Seq(Nat) /\ Len(ledger') = Len(nets) + 1
        BY <2>0, <3>1, <3>3
      <3>5. Len(nets') \in 0..MaxDate /\ 1..Len(nets) \subseteq 1..Len(nets')
        BY <2>0, <2>1, <3>4 DEF K!Settle, K!Today
      <3>6. UNCHANGED <<bills, meter>>
        BY <2>1 DEF K!Settle
      <3>7. bills' \subseteq (1..Len(nets')) \X Nat /\ meter' \subseteq 1..Len(nets')
        BY <2>0, <3>5, <3>6
      <3>8. K!Cardinality(bills') <= MaxBills
        BY <2>0, <3>6, SameNumber
      <3>9. QED
        BY <2>0, <3>4, <3>5, <3>6, <3>7, <3>8 DEF BillsInv, K!TypeOK, K!Today, K!Past
    <2>2. ASSUME bills' \subseteq (1..Len(nets)) \X Nat, IsFiniteSet(bills'),
                 Cardinality(bills') <= MaxBills, meter' \subseteq 1..Len(nets), UNCHANGED <<nets, ledger>>
          PROVE  BillsInv'
      BY <1>2, <2>2, SameNumber DEF BillsInv, K!TypeOK, K!Today, K!Past
    <2>3. CASE K!Add
      <3>1. PICK d \in 1..Len(nets), slip \in {0, 1} :
              bills' = bills \cup {<<d, ledger[d] + slip>>}
        BY <2>3 DEF K!Add, K!Past, K!Today
      <3>2. <<d, ledger[d] + slip>> \in (1..Len(nets)) \X Nat
        <4>1. ledger[d] \in Nat
          BY <2>0
        <4>2. ledger[d] + slip \in Nat
          BY <4>1
        <4>3. QED
          BY <4>2
      <3>3. bills' \subseteq (1..Len(nets)) \X Nat
        BY <2>0, <3>1, <3>2
      <3>4. IsFiniteSet(bills') /\ Cardinality(bills') <= Cardinality(bills) + 1
        <4> DEFINE bill == <<d, ledger[d] + slip>>
        <4>1. bills' = bills \cup {bill}
          BY <3>1
        <4> HIDE DEF bill
        <4>2. /\ IsFiniteSet(bills \cup {bill})
              /\ \/ Cardinality(bills \cup {bill}) = Cardinality(bills)
                 \/ Cardinality(bills \cup {bill}) = Cardinality(bills) + 1
          BY <2>0, FS_AddElement
        <4>3. QED
          BY <2>0, <4>1, <4>2
      <3>5. Cardinality(bills) < MaxBills /\ UNCHANGED <<nets, ledger, meter>>
        BY <2>3, SameNumber DEF K!Add
      <3>6. Cardinality(bills') <= MaxBills
        BY <2>0, <3>4, <3>5, FS_CardinalityType
      <3>7. QED
        BY <2>0, <2>2, <3>3, <3>4, <3>5, <3>6
    <2>4. CASE K!Remove
      <3>1. bills' \in SUBSET bills /\ UNCHANGED <<nets, ledger, meter>>
        BY <2>4 DEF K!Remove
      <3>2. IsFiniteSet(bills') /\ Cardinality(bills') <= Cardinality(bills)
        BY <2>0, <3>1, FS_Subset
      <3>3. Cardinality(bills') <= MaxBills
        BY <2>0, <3>2, FS_CardinalityType
      <3>4. QED
        BY <2>0, <2>2, <3>1, <3>2, <3>3
    <2>5. CASE K!Commit
      BY <2>0, <2>2, <2>5, SameNumber DEF K!Commit, K!Past, K!Today
    <2>6. CASE UNCHANGED K!vars
      BY <2>0, <2>2, <2>6, SameNumber DEF K!vars
    <2>7. QED
      BY <1>2, <2>1, <2>3, <2>4, <2>5, <2>6 DEF K!Next, K!Ended
  <1>3. QED
    BY <1>1, <1>2

LEMMA BackupTyped ==
    ASSUME AllBounds
    PROVE  /\ B!Init => B!TypeOK
           /\ B!TypeOK /\ [B!Next]_(B!vars) => B!TypeOK'
  <1> DEFINE Places == {"idle", "asked", "targets", "vacuum", "read", "put", "list", "prune",
                        "success", "anchor", "record", "remove"}
  <1>0. {MaxTime, MaxByHand, MaxFailures} \subseteq Nat
    BY DEF AllBounds
  <1>1. B!Init => B!TypeOK
    <2>1. 0 \in 0..MaxTime /\ 0 \in 0..MaxByHand /\ 0 \in 0..MaxFailures /\ 0 \in Nat
      BY <1>0
    <2>2. QED
      BY <2>1 DEF B!Init, B!TypeOK
  <1>2. ASSUME B!TypeOK, [B!Next]_(B!vars) PROVE B!TypeOK'
    <2> USE DEF B!Goes
    <2>1. ASSUME NEW p \in B!Procs, NEW place \in Places, at' = [at EXCEPT ![p] = place]
          PROVE  at' \in [B!Procs -> Places]
      BY <1>2, <2>1 DEF B!TypeOK
    <2>2. B!Runs \subseteq B!Procs /\ "test" \in B!Procs /\ "timer" \in B!Runs /\ "hand" \in B!Runs
      BY DEF B!Runs, B!Procs
    <2>3. \* An upload: what is at the destination, or to be deleted there, stays.
          ASSUME uploads' = uploads + 1, stored' = stored \cup {uploads'},
                 torn' \in {torn, torn \cup {uploads'}}, probes' \in {probes, probes \cup {uploads'}},
                 doomed' = doomed
          PROVE  /\ uploads' \in Nat
                 /\ stored' \subseteq 1..uploads' /\ torn' \subseteq 1..uploads'
                 /\ probes' \subseteq 1..uploads'
                 /\ doomed' \in [B!Runs -> SUBSET (1..uploads')]
      <3>1. uploads' \in Nat /\ uploads' \in 1..uploads' /\ 1..uploads \subseteq 1..uploads'
        BY <1>2, <2>3 DEF B!TypeOK
      <3>2. QED
        BY <1>2, <2>3, <3>1 DEF B!TypeOK
    <2>4. CASE B!TimerDue \/ B!HandAsks
      <3>1. at' \in [B!Procs -> Places]
        BY <2>1, <2>2, <2>4 DEF B!TimerDue, B!HandAsks
      <3>2. asked' \in 0..MaxByHand
        BY <1>0, <1>2, <2>4 DEF B!TypeOK, B!TimerDue, B!HandAsks, B!history
      <3>3. UNCHANGED <<now, lastRun, lastSched, lastOk, stored, torn, probes, uploads, temp,
                        running, whole, doomed, failures, collided, steady>>
        BY <2>4 DEF B!TimerDue, B!HandAsks, B!settings, B!remote, B!history
      <3>4. QED
        BY <1>2, <3>1, <3>2, <3>3 DEF B!TypeOK
    <2>5. CASE B!TestPuts \/ B!TestRemoves \/ B!TestFails
      <3>1. at' \in [B!Procs -> Places]
        BY <2>1, <2>2, <2>5 DEF B!TestPuts, B!TestRemoves, B!TestFails
      <3>2. asked' \in 0..MaxByHand /\ failures' \in 0..MaxFailures
        BY <1>0, <1>2, <2>5 DEF B!TypeOK, B!TestPuts, B!TestRemoves, B!TestFails, B!history
      <3>3. UNCHANGED <<now, lastRun, lastSched, lastOk, torn, temp, running, whole, doomed,
                        collided, steady>>
        BY <2>5 DEF B!TestPuts, B!TestRemoves, B!TestFails, B!settings, B!remote, B!history
      <3>4. CASE B!TestPuts
        BY <1>2, <2>3, <3>1, <3>2, <3>3, <3>4 DEF B!TypeOK, B!TestPuts
      <3>5. CASE B!TestRemoves \/ B!TestFails
        <4>1. stored' \subseteq stored /\ UNCHANGED <<probes, uploads>>
          BY <3>5 DEF B!TestRemoves, B!TestFails, B!remote
        <4>2. QED
          BY <1>2, <3>1, <3>2, <3>3, <4>1 DEF B!TypeOK
      <3>6. QED
        BY <2>5, <3>4, <3>5
    <2>6. ASSUME NEW p \in B!Runs,
                 B!Begin(p) \/ B!Claim(p) \/ B!Vacuum(p) \/ B!Read(p) \/ B!Success(p)
                   \/ B!Anchor(p) \/ B!Record(p)
          PROVE  B!TypeOK'
      <3>1. at' \in [B!Procs -> Places]
        BY <2>1, <2>2, <2>6 DEF B!Begin, B!Claim, B!Vacuum, B!Read, B!Success, B!Anchor, B!Record
      <3>2. {lastRun', lastSched'} \subseteq 0..MaxTime \cup {None} /\ lastOk' \in BOOLEAN \cup {None}
        BY <1>2, <2>6
           DEF B!TypeOK, B!Begin, B!Claim, B!Vacuum, B!Read, B!Success, B!Anchor, B!Record, B!settings
      <3>3. /\ temp' \in B!Runs \cup {None} /\ running' \in BOOLEAN /\ collided' \in BOOLEAN
            /\ whole' \in [B!Runs -> BOOLEAN]
        BY <1>2, <2>6
           DEF B!TypeOK, B!Begin, B!Claim, B!Vacuum, B!Read, B!Success, B!Anchor, B!Record, B!history
      <3>4. UNCHANGED <<now, stored, torn, probes, uploads, doomed, asked, failures, steady>>
        BY <2>6
           DEF B!Begin, B!Claim, B!Vacuum, B!Read, B!Success, B!Anchor, B!Record, B!history, B!remote
      <3>5. QED
        BY <1>2, <3>1, <3>2, <3>3, <3>4 DEF B!TypeOK
    <2>7. ASSUME NEW p \in B!Runs, B!Put(p) PROVE B!TypeOK'
      <3>1. at' \in [B!Procs -> Places] /\ whole' \in [B!Runs -> BOOLEAN]
        BY <1>2, <2>1, <2>2, <2>7 DEF B!TypeOK, B!Put
      <3>2. UNCHANGED <<now, lastRun, lastSched, lastOk, probes, temp, running, doomed, asked,
                        failures, collided, steady>>
        BY <2>7 DEF B!Put, B!settings, B!history
      <3>3. /\ uploads' = uploads + 1 /\ stored' = stored \cup {uploads'}
            /\ torn' \in {torn, torn \cup {uploads'}}
        BY <2>7 DEF B!Put
      <3>4. QED
        BY <1>2, <2>3, <3>1, <3>2, <3>3 DEF B!TypeOK
    <2>8. ASSUME NEW p \in B!Runs, B!List(p) \/ B!Prune(p) PROVE B!TypeOK'
      <3>1. at' \in [B!Procs -> Places]
        BY <1>2, <2>1, <2>2, <2>8 DEF B!TypeOK, B!List, B!Prune
      <3>2. stored' \subseteq stored
        BY <2>8 DEF B!List, B!Prune, B!remote
      <3>3. doomed' \in [B!Runs -> SUBSET (1..uploads)]
        BY <1>2, <2>8 DEF B!TypeOK, B!List, B!Prune, B!Beyond
      <3>4. UNCHANGED <<now, lastRun, lastSched, lastOk, torn, probes, uploads, temp, running,
                        whole, asked, failures, collided, steady>>
        BY <2>8 DEF B!List, B!Prune, B!settings, B!remote, B!history
      <3>5. QED
        BY <1>2, <3>1, <3>2, <3>3, <3>4 DEF B!TypeOK
    <2>9. CASE B!Restarts \/ \E p \in B!Runs : B!Fails(p)
      <3>1. at' \in [B!Procs -> Places]
        BY <2>1, <2>2, <2>9 DEF B!Restarts, B!Fails
      <3>2. failures' \in 0..MaxFailures
        BY <1>0, <1>2, <2>9 DEF B!TypeOK, B!Restarts, B!Fails
      <3>3. /\ doomed' \in [B!Runs -> SUBSET (1..uploads)] /\ whole' \in [B!Runs -> BOOLEAN]
            /\ temp' \in B!Runs \cup {None} /\ running' = FALSE /\ steady' = FALSE
            /\ lastOk' \in BOOLEAN \cup {None}
        BY <1>2, <2>9 DEF B!TypeOK, B!Restarts, B!Fails, B!settings
      <3>4. UNCHANGED <<now, lastRun, lastSched, stored, torn, probes, uploads, asked, collided>>
        BY <2>9 DEF B!Restarts, B!Fails, B!settings, B!remote
      <3>5. QED
        BY <1>2, <3>1, <3>2, <3>3, <3>4 DEF B!TypeOK
    <2>10. CASE B!Advance
      <3>1. now' \in 0..MaxTime /\ steady' \in BOOLEAN
        BY <1>0, <1>2, <2>10 DEF B!TypeOK, B!Advance
      <3>2. QED
        BY <1>2, <2>10, <3>1 DEF B!TypeOK, B!Advance, B!settings, B!remote
    <2>11. CASE UNCHANGED B!vars
      BY <1>2, <2>11 DEF B!TypeOK, B!vars, B!settings, B!remote, B!history
    <2>12. QED
      BY <1>2, <2>4, <2>5, <2>6, <2>7, <2>8, <2>9, <2>10, <2>11
         DEF B!Next, B!RunStep, B!Ended
  <1>3. QED
    BY <1>1, <1>2

LEMMA StepIsEnergys == [AllNext]_allVars => [Next]_vars
  BY DEF AllNext, allVars, vars

LEMMA FocusHolds == focus \in Services /\ [AllNext]_allVars => focus' \in Services
  BY DEF AllNext, allVars

(* The variables of every service keep their types, for every value of the  *)
(* constants.                                                               *)
THEOREM AllTypesHold == ASSUME AllBounds PROVE AllSpec => []AllTypesOK
  <1> DEFINE Inv == /\ focus \in Services
                    /\ TypeOK /\ B!TypeOK /\ S!TypeOK /\ E!TypeOK /\ C!TypeOK /\ BudgetInv
                    /\ BillsInv
  <1>1. AllInit => Inv
    BY EnergyTypeInit, BackupTyped, SchedulerTyped, ConfigTyped, ChargerTyped, BillsTyped,
       BudgetStarts DEF AllInit, AllBounds
  <1>2. Inv /\ [AllNext]_allVars => Inv'
    <2> SUFFICES ASSUME Inv, [AllNext]_allVars PROVE Inv'
      OBVIOUS
    <2>1. TypeOK'
      BY EnergyTypeStep, StepIsEnergys
    <2>2. B!TypeOK' /\ S!TypeOK' /\ E!TypeOK'
      BY BackupTyped, SchedulerTyped, ConfigTyped, StepIsBackups, StepIsSchedulers,
         StepIsConfigs DEF AllBounds
    <2>3. C!TypeOK' /\ BillsInv'
      BY ChargerTyped, BillsTyped, StepIsChargers, StepIsBanks
    <2>4. BudgetInv'
      BY BudgetStep, StepIsPvoutputs DEF AllBounds
    <2>5. QED
      BY <2>1, <2>2, <2>3, <2>4, FocusHolds
  <1>3. Inv => AllTypesOK
    BY DEF AllTypesOK, BudgetInv, BillsInv
  <1> HIDE DEF Inv
  <1>4. QED
    BY <1>1, <1>2, <1>3, PTL DEF AllSpec
=============================================================================
