---------------------------- MODULE Alerts_proofs ----------------------------
(***************************************************************************)
(* What is proved of the alerts' lifecycle for any set of conditions, any  *)
(* confirming and clearing streaks, and any number of rejected writes and  *)
(* restarts.                                                               *)
(***************************************************************************)
EXTENDS Alerts, TLAPS

USE DEF memory, locals, pushes, history, bounds, vars

LEMMA Bounds ==
    Confirm \in Nat /\ Confirm > 0 /\ Clear \in Nat /\ Clear > 0
    /\ MaxFailures \in Nat /\ MaxRestarts \in Nat
  BY BoundsAssumption

LEMMA NoStreakTyped == NoStreak \in Streaks
  BY Bounds DEF NoStreak, Streaks

LEMMA SteppedTyped ==
    ASSUME NEW s \in Streaks, NEW holds \in BOOLEAN PROVE Stepped(s, holds) \in Streaks
  <1> DEFINE holding  == IF holds THEN UpTo(Confirm, s.holding + 1) ELSE 0
             clearing == IF holds THEN 0 ELSE s.clearing + 1
             over     == ~holds /\ (~s.known \/ clearing >= Clear)
             confirmed == s.confirmed \/ holding >= Confirm
  <1>1. s.holding \in 0..Confirm /\ s.clearing \in 0..(Clear - 1) /\ s.confirmed \in BOOLEAN
    BY DEF Streaks
  <1>2. holding \in 0..Confirm
    BY <1>1, Bounds DEF UpTo
  <1>3. ASSUME ~over PROVE clearing \in 0..(Clear - 1)
    BY <1>1, <1>3, Bounds
  <1>4. CASE over
    <2>1. Stepped(s, holds) = NoStreak
      BY <1>4 DEF Stepped
    <2>2. QED
      BY <2>1, NoStreakTyped
  <1>5. CASE ~over
    <2>1. Stepped(s, holds) = [known |-> TRUE, holding |-> holding, clearing |-> clearing,
                               confirmed |-> confirmed]
      BY <1>5 DEF Stepped
    <2>2. confirmed \in BOOLEAN /\ clearing \in 0..(Clear - 1)
      BY <1>3, <1>5
    <2> HIDE DEF holding, clearing, confirmed
    <2>3. QED
      BY <2>1, <2>2, <1>2 DEF Streaks
  <1>6. QED
    BY <1>4, <1>5

LEMMA SeededTyped ==
    ASSUME NEW s \in Streaks, NEW isOpen \in BOOLEAN PROVE Seeded(s, isOpen) \in Streaks
  BY Bounds DEF Seeded, Streaks

LEMMA HeldTyped ==
    ASSUME NEW h \in (-Clear)..Confirm
    PROVE  /\ (IF h < 0 THEN 1 ELSE UpTo(Confirm, h + 1)) \in 1..Confirm
           /\ (IF h > 0 THEN -1 ELSE -UpTo(Clear, 1 - h)) \in (-Clear)..(-1)
  BY Bounds DEF UpTo

LEMMA TypeInit == Init => TypeOK
  <1> SUFFICES ASSUME Init PROVE TypeOK
    OBVIOUS
  <1>1. streak \in [Conditions -> Streaks]
    BY NoStreakTyped DEF Init
  <1>2. held \in [Conditions -> (-Clear)..Confirm]
    BY Bounds DEF Init
  <1>3. loaded \in BOOLEAN
    BY Zenon DEF Init
  <1>4. failures \in 0..MaxFailures /\ restarts \in 0..MaxRestarts
    BY Bounds DEF Init
  <1>5. QED
    BY <1>1, <1>2, <1>3, <1>4 DEF Init, TypeOK, Places

(* The variables keep their types (the state of AlertsService and of         *)
(* ConditionDebouncer).                                                      *)
LEMMA TypeStep == TypeOK /\ [Next]_vars => TypeOK'
  <1> SUFFICES ASSUME TypeOK, [Next]_vars PROVE TypeOK'
    OBVIOUS
  <1> USE DEF TypeOK, Places
  <1>1. CASE Load
    <2>1. ASSUME NEW c \in Conditions PROVE Seeded(streak[c], c \in rows) \in Streaks
      <3>1. (c \in rows) \in BOOLEAN /\ streak[c] \in Streaks
        OBVIOUS
      <3>2. QED
        BY <3>1, SeededTyped
    <2>2. streak' \in [Conditions -> Streaks]
      BY <1>1, <2>1 DEF Load
    <2>3. loaded' \in BOOLEAN
      BY <1>1, Zenon DEF Load
    <2>4. QED
      BY <1>1, <2>2, <2>3 DEF Load
  <1>2. CASE Evaluate
    <2>0. ASSUME NEW c \in Conditions PROVE Stepped(streak[c], c \in active) \in Streaks
      <3>1. (c \in active) \in BOOLEAN /\ streak[c] \in Streaks
        OBVIOUS
      <3>2. QED
        BY <3>1, SteppedTyped
    <2>1. streak' \in [Conditions -> Streaks]
      BY <1>2, <2>0 DEF Evaluate
    <2>2. \A h \in (-Clear)..Confirm :
            /\ (IF h < 0 THEN 1 ELSE UpTo(Confirm, h + 1)) \in (-Clear)..Confirm
            /\ (IF h > 0 THEN -1 ELSE -UpTo(Clear, 1 - h)) \in (-Clear)..Confirm
      BY HeldTyped, Bounds
    <2>3. held' \in [Conditions -> (-Clear)..Confirm]
      BY <1>2, <2>2 DEF Evaluate
    <2>4. toOpen' \subseteq Conditions /\ toClose' \subseteq Conditions
      BY <1>2 DEF Evaluate
    <2>5. QED
      BY <1>2, <2>1, <2>3, <2>4 DEF Evaluate, Forget
  <1>3. CASE Create \/ Created
    BY <1>3 DEF Create, Created
  <1>4. CASE Digest \/ Suppress
    BY <1>4 DEF Digest, Suppress
  <1>5. CASE Push \/ Sent
    BY <1>5 DEF Push, Sent
  <1>6. CASE Close \/ Closed \/ Resolved
    BY <1>6 DEF Close, Closed, Resolved
  <1>7. CASE WriteFails
    BY <1>7, Bounds DEF WriteFails
  <1>8. CASE TakeDigest \/ SummarySent
    BY <1>8 DEF TakeDigest, SummarySent
  <1>9. CASE SummaryFails
    BY <1>9, Bounds DEF SummaryFails
  <1>10. CASE ConditionsChange \/ CooldownEnds
    BY <1>10 DEF ConditionsChange, CooldownEnds
  <1>11. CASE Restart
    <2>1. streak' \in [Conditions -> Streaks]
      BY <1>11, NoStreakTyped DEF Restart
    <2>2. loaded' \in BOOLEAN
      BY <1>11, Zenon DEF Restart
    <2>3. restarts' \in 0..MaxRestarts
      BY <1>11, Bounds DEF Restart
    <2>4. QED
      BY <1>11, <2>1, <2>2, <2>3 DEF Restart
  <1>12. CASE UNCHANGED vars
    BY <1>12
  <1>13. QED
    BY <1>1, <1>2, <1>3, <1>4, <1>5, <1>6, <1>7, <1>8, <1>9, <1>10, <1>11, <1>12
    DEF Next, Process

(* TypeOK always holds. *)
THEOREM TypeCorrect == Spec => []TypeOK
  BY TypeInit, TypeStep, PTL DEF Spec

-----------------------------------------------------------------------------
(* this.openAlerts against the table. *)

LEMMA MirrorStep == OpenMirrorsRows /\ [Next]_vars => OpenMirrorsRows'
  <1> SUFFICES ASSUME OpenMirrorsRows, [Next]_vars PROVE OpenMirrorsRows'
    OBVIOUS
  <1> USE DEF OpenMirrorsRows
  <1>1. CASE Load \/ Restart
    BY <1>1 DEF Load, Restart
  <1>2. CASE Create \/ Close
    BY <1>2 DEF Create, Close
  <1>3. CASE Evaluate \/ Created \/ Digest \/ Suppress \/ Push \/ Sent \/ Closed \/ Resolved
    BY <1>3 DEF Evaluate, Created, Digest, Suppress, Push, Sent, Closed, Resolved
  <1>4. CASE WriteFails \/ TakeDigest \/ SummarySent \/ SummaryFails \/ ConditionsChange
             \/ CooldownEnds \/ UNCHANGED vars
    BY <1>4 DEF WriteFails, TakeDigest, SummarySent, SummaryFails, ConditionsChange, CooldownEnds
  <1>5. QED
    BY <1>1, <1>2, <1>3, <1>4 DEF Next, Process

(* The alerts the service would update and close are the open ones in the    *)
(* database, through rejected writes and restarts.                           *)
THEOREM MemoryMirrorsRows == Spec => []OpenMirrorsRows
  <1>1. Init => OpenMirrorsRows
    BY DEF Init, OpenMirrorsRows
  <1>2. QED
    BY <1>1, MirrorStep, PTL DEF Spec

-----------------------------------------------------------------------------
(* Streaks. *)

LEMMA StreakInit == Init => StreakInv
  BY DEF Init, StreakInv, NoStreak

(* One evaluation of one condition: its streak stays within what was seen,   *)
(* and its confirmation and its end each have had their full streak.         *)
LEMMA SteppedWithinHeld ==
    ASSUME NEW s \in Streaks, NEW h \in (-Clear)..Confirm, NEW holds \in BOOLEAN,
           s.confirmed => s.known,
           ~s.confirmed => s.holding = 0 \/ s.holding <= h,
           s.clearing = 0 \/ s.clearing <= -h,
           NEW h2 \in Int,
           h2 = IF holds THEN IF h < 0 THEN 1 ELSE UpTo(Confirm, h + 1)
                ELSE IF h > 0 THEN -1 ELSE -UpTo(Clear, 1 - h)
    PROVE  LET s2 == Stepped(s, holds)
           IN  /\ s2.confirmed => s2.known
               /\ ~s2.confirmed => s2.holding = 0 \/ s2.holding <= h2
               /\ s2.clearing = 0 \/ s2.clearing <= -h2
               /\ s2.confirmed /\ ~s.confirmed => h2 >= Confirm
               /\ s.confirmed /\ ~s2.known => h2 <= -Clear
  <1>1. s.holding \in 0..Confirm /\ s.clearing \in 0..(Clear - 1) /\ s.confirmed \in BOOLEAN
    BY DEF Streaks
  <1>2. CASE holds
    <2> DEFINE n == UpTo(Confirm, s.holding + 1)
    <2>1. Stepped(s, holds) = [known |-> TRUE, holding |-> n, clearing |-> 0,
                               confirmed |-> s.confirmed \/ n >= Confirm]
      BY <1>2 DEF Stepped
    <2>2. ~s.confirmed => n <= h2
      BY <1>1, <1>2, Bounds DEF UpTo
    <2>3. n \in Nat
      BY <1>1, Bounds DEF UpTo
    <2>4. h2 >= 0
      BY <1>2, Bounds DEF UpTo
    <2> HIDE DEF n
    <2> DEFINE s2 == Stepped(s, holds)
    <2>5. s2.known = TRUE /\ s2.holding = n /\ s2.clearing = 0
          /\ s2.confirmed = (s.confirmed \/ n >= Confirm)
      BY <2>1
    <2> HIDE DEF s2
    <2>6. ~s2.confirmed => s2.holding = 0 \/ s2.holding <= h2
      BY <2>2, <2>5
    <2>7. ASSUME s2.confirmed, ~s.confirmed PROVE h2 >= Confirm
      <3>1. n >= Confirm
        BY <2>5, <2>7, Zenon
      <3>2. n <= h2
        BY <2>2, <2>7
      <3>3. QED
        BY <2>3, <3>1, <3>2, Bounds
    <2>8. (s2.confirmed => s2.known) /\ (s2.clearing = 0 \/ s2.clearing <= -h2)
          /\ (s.confirmed /\ ~s2.known => h2 <= -Clear)
      BY <2>5
    <2>9. QED
      BY <2>6, <2>7, <2>8 DEF s2
  <1>3. CASE ~holds
    <2>1. h2 <= -1 /\ (s.clearing + 1 <= -h2) /\ h2 >= -Clear
      BY <1>1, <1>3, Bounds DEF UpTo
    <2>2. CASE ~s.known \/ s.clearing + 1 >= Clear
      <3>1. Stepped(s, holds) = NoStreak
        BY <1>3, <2>2 DEF Stepped
      <3>2. NoStreak.holding = 0 /\ NoStreak.clearing = 0 /\ NoStreak.confirmed = FALSE
        BY DEF NoStreak
      <3>3. s.confirmed => s.clearing + 1 >= Clear
        BY <2>2
      <3>4. QED
        BY <1>1, <2>1, <3>1, <3>2, <3>3, Bounds
    <2>3. CASE s.known /\ ~(s.clearing + 1 >= Clear)
      <3>1. Stepped(s, holds) = [known |-> TRUE, holding |-> 0, clearing |-> s.clearing + 1,
                                 confirmed |-> s.confirmed \/ 0 >= Confirm]
        BY <1>3, <2>3 DEF Stepped
      <3>2. QED
        BY <1>1, <2>1, <3>1, Bounds
    <2>4. QED
      BY <2>2, <2>3
  <1>4. QED
    BY <1>2, <1>3

LEMMA StreakStep == ASSUME TypeOK, StreakInv, [Next]_vars PROVE StreakInv'
  <1> USE DEF TypeOK
  <1>1. CASE Load
    <2>1. ASSUME NEW c \in Conditions
          PROVE  /\ streak'[c].confirmed => streak'[c].known
                 /\ ~streak'[c].confirmed => streak'[c].holding = 0 \/ streak'[c].holding <= held[c]
                 /\ streak'[c].clearing = 0 \/ streak'[c].clearing <= -held[c]
      <3>1. streak'[c] = Seeded(streak[c], c \in rows)
        BY <1>1 DEF Load
      <3>2. CASE c \in rows /\ ~streak[c].known
        BY <3>1, <3>2 DEF Seeded
      <3>3. CASE ~(c \in rows /\ ~streak[c].known)
        BY <3>1, <3>3 DEF Seeded, StreakInv
      <3>4. QED
        BY <3>2, <3>3
    <2>2. UNCHANGED <<held, toOpen, toClose>>
      BY <1>1 DEF Load
    <2>3. QED
      BY <2>1, <2>2 DEF StreakInv
  <1>2. CASE Evaluate
    <2>1. ASSUME NEW c \in Conditions
          PROVE  /\ streak'[c].confirmed => streak'[c].known
                 /\ ~streak'[c].confirmed => streak'[c].holding = 0 \/ streak'[c].holding <= held'[c]
                 /\ streak'[c].clearing = 0 \/ streak'[c].clearing <= -held'[c]
                 /\ streak'[c].confirmed /\ ~streak[c].confirmed => held'[c] >= Confirm
                 /\ streak[c].confirmed /\ ~streak'[c].known => held'[c] <= -Clear
      <3>1. streak[c] \in Streaks /\ held[c] \in (-Clear)..Confirm /\ (c \in active) \in BOOLEAN
        OBVIOUS
      <3>2. streak'[c] = Stepped(streak[c], c \in active)
        BY <1>2 DEF Evaluate
      <3>3. held'[c] = IF c \in active
                         THEN IF held[c] < 0 THEN 1 ELSE UpTo(Confirm, held[c] + 1)
                         ELSE IF held[c] > 0 THEN -1 ELSE -UpTo(Clear, 1 - held[c])
        BY <1>2 DEF Evaluate
      <3>4. held'[c] \in Int
        BY <3>1, <3>3, Bounds DEF UpTo
      <3>5. /\ streak[c].confirmed => streak[c].known
            /\ ~streak[c].confirmed => streak[c].holding = 0 \/ streak[c].holding <= held[c]
            /\ streak[c].clearing = 0 \/ streak[c].clearing <= -held[c]
        BY DEF StreakInv
      <3>6. QED
        BY <3>1, <3>2, <3>3, <3>4, <3>5, SteppedWithinHeld
    <2>2. /\ toOpen' = {c \in Conditions : streak'[c].confirmed /\ ~streak[c].confirmed}
          /\ toClose' = {c \in Conditions : streak[c].confirmed /\ ~streak'[c].known}
      BY <1>2 DEF Evaluate
    <2>3. QED
      BY <2>1, <2>2 DEF StreakInv
  <1>3. CASE Restart
    BY <1>3 DEF Restart, StreakInv, NoStreak
  <1>4. CASE Create \/ Created \/ Close \/ Closed \/ WriteFails
    <2>1. UNCHANGED <<streak, held>> /\ toOpen' \subseteq toOpen /\ toClose' \subseteq toClose
      BY <1>4 DEF Create, Created, Close, Closed, WriteFails
    <2>2. QED
      BY <2>1 DEF StreakInv
  <1>5. CASE Digest \/ Suppress \/ Push \/ Sent \/ Resolved
    <2>1. UNCHANGED <<streak, held, toOpen, toClose>>
      BY <1>5 DEF Digest, Suppress, Push, Sent, Resolved
    <2>2. QED
      BY <2>1 DEF StreakInv
  <1>6. CASE TakeDigest \/ SummarySent \/ SummaryFails \/ ConditionsChange \/ CooldownEnds
             \/ UNCHANGED vars
    <2>1. UNCHANGED <<streak, held, toOpen, toClose>>
      BY <1>6 DEF TakeDigest, SummarySent, SummaryFails, ConditionsChange, CooldownEnds
    <2>2. QED
      BY <2>1 DEF StreakInv
  <1>7. QED
    BY <1>1, <1>2, <1>3, <1>4, <1>5, <1>6 DEF Next, Process

(* An alert opens after Confirm evaluations in a row with its condition and  *)
(* closes after Clear without it, restarts and rejected writes included.     *)
THEOREM NothingFlickers == Spec => NoFlicker
  <1>1. StreakInv /\ [Next]_vars
          => [\A c \in Conditions :
                /\ c \in rows' \ rows => held[c] >= Confirm
                /\ c \in rows \ rows' => held[c] <= -Clear]_vars
    <2> SUFFICES ASSUME StreakInv, Next, NEW c \in Conditions
                 PROVE  /\ c \in rows' \ rows => held[c] >= Confirm
                        /\ c \in rows \ rows' => held[c] <= -Clear
      OBVIOUS
    <2>1. CASE Create \/ Close
      BY <2>1 DEF Create, Close, StreakInv
    <2>2. CASE Load \/ Evaluate \/ Created \/ Digest \/ Suppress \/ Push \/ Sent \/ Closed \/ Resolved
      BY <2>2 DEF Load, Evaluate, Created, Digest, Suppress, Push, Sent, Closed, Resolved
    <2>3. CASE WriteFails \/ TakeDigest \/ SummarySent \/ SummaryFails \/ ConditionsChange
               \/ CooldownEnds \/ Restart
      BY <2>3 DEF WriteFails, TakeDigest, SummarySent, SummaryFails, ConditionsChange, CooldownEnds,
                  Restart
    <2>4. QED
      BY <2>1, <2>2, <2>3 DEF Next, Process
  <1>2. QED
    BY <1>1, TypeCorrect, StreakInit, StreakStep, PTL DEF Spec, NoFlicker

-----------------------------------------------------------------------------
(* Resolution notices. *)

LEMMA PlaceInit == Init => PlaceInv /\ TellInv
  BY DEF Init, PlaceInv, TellInv

LEMMA PlaceStep == ASSUME PlaceInv, [Next]_vars PROVE PlaceInv'
  <1> USE DEF PlaceInv
  <1>1. CASE Load
    <2>1. notified = {} /\ opened = {}
      BY <1>1 DEF Load
    <2>2. UNCHANGED <<pc, toOpen, toClose, opened, resolved, notified>> /\ loaded'
      BY <1>1 DEF Load
    <2>3. QED
      BY <2>1, <2>2
  <1>2. CASE Evaluate \/ Create \/ Created
    BY <1>2 DEF Evaluate, Create, Created
  <1>3. CASE Digest \/ Suppress \/ Push \/ Sent
    BY <1>3 DEF Digest, Suppress, Push, Sent
  <1>4. CASE Close
    <2>1. opened = {} /\ pc = "close" /\ loaded
      BY <1>4 DEF Close
    <2>2. PICK c \in toClose \cap open : open' = open \ {c} /\ notified' = notified \ {c}
      BY <1>4 DEF Close
    <2>3. notified' \subseteq open'
      BY <2>2
    <2>4. UNCHANGED <<pc, toOpen, opened, loaded>>
      BY <1>4 DEF Close
    <2>5. QED
      BY <2>1, <2>3, <2>4
  <1>5. CASE Closed
    BY <1>5 DEF Closed
  <1>6. CASE Resolved
    BY <1>6 DEF Resolved
  <1>7. CASE WriteFails \/ Restart
    BY <1>7 DEF WriteFails, Restart
  <1>8. CASE TakeDigest \/ SummarySent \/ SummaryFails \/ ConditionsChange \/ CooldownEnds
             \/ UNCHANGED vars
    BY <1>8 DEF TakeDigest, SummarySent, SummaryFails, ConditionsChange, CooldownEnds
  <1>9. QED
    BY <1>1, <1>2, <1>3, <1>4, <1>5, <1>6, <1>7, <1>8 DEF Next, Process

LEMMA TellStep == ASSUME PlaceInv, OpenMirrorsRows, TellInv, [Next]_vars PROVE TellInv'
  <1> USE DEF PlaceInv, TellInv
  <1>1. CASE Load
    BY <1>1 DEF Load
  <1>9. CASE Evaluate
    <2>1. open = rows /\ resolved = {} /\ opened = {} /\ pc = "idle"
      BY <1>9 DEF Evaluate, OpenMirrorsRows
    <2>2. UNCHANGED <<notified, resolved>> /\ pc' = "create"
      BY <1>9 DEF Evaluate
    <2>3. raised' \cup unraised' = (raised \cup unraised) \cap rows
      BY <1>9 DEF Evaluate, Forget
    <2>4. QED
      BY <2>1, <2>2, <2>3
  <1>2. CASE Create \/ Created
    BY <1>2 DEF Create, Created
  <1>3. CASE Digest \/ Suppress \/ Push \/ Sent
    BY <1>3 DEF Digest, Suppress, Push, Sent
  <1>4. CASE Close \/ Closed \/ Resolved
    BY <1>4 DEF Close, Closed, Resolved
  <1>5. CASE WriteFails
    <2>1. notified \subseteq raised' \cup unraised'
      BY <1>5 DEF WriteFails
    <2>2. pc' = "idle" /\ resolved' = {} /\ notified' = notified
      BY <1>5 DEF WriteFails
    <2>3. QED
      BY <2>1, <2>2
  <1>6. CASE Restart
    BY <1>6 DEF Restart
  <1>7. CASE TakeDigest \/ SummarySent \/ SummaryFails \/ ConditionsChange \/ CooldownEnds
             \/ UNCHANGED vars
    BY <1>7 DEF TakeDigest, SummarySent, SummaryFails, ConditionsChange, CooldownEnds
  <1>8. QED
    BY <1>1, <1>2, <1>3, <1>4, <1>5, <1>6, <1>7, <1>9 DEF Next, Process

(* Only an alert whose opening is in the notification table, or was to be    *)
(* there and had its row rejected, is announced as resolved, through any     *)
(* rejected writes and restarts (notifiedOpen).                              *)
THEOREM OnlyRaisedIsResolved == Spec => []ResolvedWasRaised
  <1>1. TellInv => ResolvedWasRaised
    BY DEF TellInv, ResolvedWasRaised
  <1>2. PlaceInv /\ OpenMirrorsRows /\ TellInv /\ [Next]_vars => PlaceInv' /\ TellInv'
    BY PlaceStep, TellStep
  <1>3. QED
    BY <1>1, <1>2, PlaceInit, MemoryMirrorsRows, PTL DEF Spec
=============================================================================
