------------------------------ MODULE DayEnergy ------------------------------
(***************************************************************************)
(* How much did the roof make today?  The gateway's daily counter resets   *)
(* some minutes after local midnight and decays once production stops, so  *)
(* the collector stores a corrected figure (common/daily-counter.ts) and a *)
(* day's total is the largest figure stored for it.  This module follows   *)
(* one counter through its days: what is stored, and what the dashboard    *)
(* and the evening push make of it.                                        *)
(*                                                                         *)
(* A day is night, then sunlit, then evening; energy is a small number.    *)
(***************************************************************************)
EXTENDS Integers

CONSTANTS
    LastDay,          \* bound: the last day looked at
    Peak,             \* bound: the most a day produces
    Decays,           \* does the counter decay while nothing is produced?
    MissesPolls,      \* may the counter move more than once between polls?
    RestartsInWindow, \* may the app restart before the counter's reset?
    None

Days == 0..LastDay

ASSUME BoundsAssumption == LastDay \in Nat /\ Peak \in Nat
ASSUME FlagsAssumption == {Decays, MissesPolls, RestartsInWindow} \subseteq BOOLEAN
ASSUME NoneAssumption == None \notin Int /\ None \notin [date : Int, wh : Int]

VARIABLES
    day,      \* the local date
    phase,    \* where the day is
    counter,  \* the gateway's daily counter
    reset,    \* has the gateway reset it since midnight?
    total,    \* history: what the roof really made, by day
    fell,     \* history: days whose counter decayed between midnight and its reset
    tracker,  \* DailyCounterTracker
    snapshot, \* lastSnapshot.dailyEnergyWh, None before the first poll
    last,     \* newest stored row
    best,     \* MAX(dailyEnergy) GROUP BY localDate
    wrap,     \* the day wrap last sent
    fresh     \* polled since the counter last moved?

roof == <<day, phase, counter, reset, total, fell>>
app  == <<tracker, snapshot, last, best, wrap>>
vars == <<roof, app, fresh>>

Phases == {"night", "sunlit", "evening"}
Rows == [date : Days, wh : Nat]

TypeOK ==
    /\ day \in Days
    /\ phase \in Phases
    /\ counter \in Nat
    /\ reset \in BOOLEAN
    /\ total \in [Days -> Nat]
    /\ fell \subseteq Days
    /\ tracker \in [raw : Nat, date : Days \cup {None}, awaiting : BOOLEAN]
    /\ snapshot \in Nat \cup {None}
    /\ last \in Rows \cup {None}
    /\ best \in [Days -> Nat]
    /\ wrap \in Rows \cup {None}
    /\ fresh \in BOOLEAN

NewTracker == [raw |-> 0, date |-> None, awaiting |-> FALSE]

Init ==
    /\ day = 0
    /\ phase = "night"
    /\ counter = 0
    /\ reset = TRUE
    /\ total = [d \in Days |-> 0]
    /\ fell = {}
    /\ tracker = NewTracker
    /\ snapshot = None
    /\ last = None
    /\ best = [d \in Days |-> 0]
    /\ wrap = None
    /\ fresh = FALSE

Larger(a, b) == IF a >= b THEN a ELSE b

-----------------------------------------------------------------------------
(* The roof and its gateway.  Unless polls are missed, the collector sees  *)
(* every move of the counter (minutes apart, against a 30 s poll).         *)

Moves == (fresh \/ MissesPolls) /\ fresh' = FALSE /\ UNCHANGED app

Sunrise ==
    /\ Moves
    /\ phase = "night"
    /\ reset
    /\ phase' = "sunlit"
    /\ UNCHANGED <<day, counter, reset, total, fell>>

Produce ==
    /\ Moves
    /\ phase = "sunlit"
    /\ total[day] < Peak
    /\ total' = [total EXCEPT ![day] = @ + 1]
    /\ counter' = counter + 1
    /\ UNCHANGED <<day, phase, reset, fell>>

Sunset ==
    /\ Moves
    /\ phase = "sunlit"
    /\ phase' = "evening"
    /\ UNCHANGED <<day, counter, reset, total, fell>>

(* "Observed 109,334 -> 44,348 -> 6,338 Wh within one evening"             *)
(* (readings.service.ts:208), and on after midnight, until the reset.       *)
Decay ==
    /\ Moves
    /\ Decays
    /\ phase = "evening" \/ ~reset
    /\ \E lower \in 0..(counter - 1) : counter' = lower
    /\ fell' = IF reset THEN fell ELSE fell \cup {day}
    /\ UNCHANGED <<day, phase, reset, total>>

Midnight ==
    /\ Moves
    /\ phase = "evening"
    /\ day < LastDay
    /\ day' = day + 1
    /\ phase' = "night"
    /\ reset' = FALSE
    /\ UNCHANGED <<counter, total, fell>>

CounterResets ==
    /\ Moves
    /\ ~reset
    /\ reset' = TRUE
    /\ counter' = 0
    /\ UNCHANGED <<day, phase, total, fell>>

-----------------------------------------------------------------------------
(* The collector. *)

(* Bug: a counter standing exactly at yesterday's total passes.            *)
Resolve_Strict(t, date, raw) ==
    LET awaiting == IF t.date # None /\ date # t.date THEN t.raw > 0 /\ raw > t.raw
                    ELSE t.awaiting /\ raw >= t.raw
    IN  [raw |-> raw, date |-> date, awaiting |-> awaiting]

(* Bug: the reset is not noticed on the same day.                          *)
Resolve_NeverClears(t, date, raw) ==
    LET awaiting == IF t.date # None /\ date # t.date THEN t.raw > 0 /\ raw >= t.raw
                    ELSE t.awaiting
    IN  [raw |-> raw, date |-> date, awaiting |-> awaiting]

(* resolve(): a new date without a drop is still yesterday's total, until  *)
(* a drop is seen.                                                         *)
Resolve(t, date, raw) ==
    LET awaiting == IF t.date # None /\ date # t.date THEN t.raw > 0 /\ raw >= t.raw
                    ELSE t.awaiting /\ raw >= t.raw
    IN  [raw |-> raw, date |-> date, awaiting |-> awaiting]

(* Bug: an empty table is not provided for.                                *)
Seed_NoRow(row) ==
    IF row = None THEN [raw |-> None, date |-> None, awaiting |-> FALSE]
    ELSE [raw |-> row.wh, date |-> row.date, awaiting |-> FALSE]

(* seed(), from the newest stored row.                                     *)
Seed(row) ==
    IF row = None THEN NewTracker ELSE [raw |-> row.wh, date |-> row.date, awaiting |-> FALSE]

(* poll() and persist(): one row for what the gateway serves now.          *)
Poll ==
    LET t  == Resolve(tracker, day, counter)
        wh == IF t.awaiting THEN 0 ELSE counter
    IN  /\ tracker' = t
        /\ snapshot' = counter
        /\ last' = [date |-> day, wh |-> wh]
        /\ best' = [best EXCEPT ![day] = Larger(@, wh)]
        /\ fresh' = TRUE
        /\ UNCHANGED <<roof, wrap>>

Restart ==
    /\ RestartsInWindow \/ reset
    /\ tracker' = Seed(last)
    /\ snapshot' = None
    /\ wrap' = None
    /\ UNCHANGED <<roof, last, best, fresh>>

-----------------------------------------------------------------------------
(* The readers. *)

(* todayEnergyWh(): what the dashboard says of today.                      *)
Today == Larger(IF snapshot = None THEN 0 ELSE snapshot, best[day])

WrappedToday == wrap # None /\ wrap.date = day

(* maybeSend(): the evening push, once per date as far as memory goes.     *)
SendWrap ==
    /\ phase = "evening"
    /\ snapshot \notin {None, 0}
    /\ ~WrappedToday
    /\ wrap' = [date |-> day, wh |-> snapshot]
    /\ UNCHANGED <<roof, tracker, snapshot, last, best, fresh>>

Roof == Sunrise \/ Produce \/ Sunset \/ Decay \/ Midnight \/ CounterResets

Next == Roof \/ Poll \/ Restart \/ SendWrap

Spec == Init /\ [][Next]_vars

-----------------------------------------------------------------------------
(* Properties. *)

(* No day is credited with more than it made: the rollup being MAX GROUP BY  *)
(* localDate, one row of yesterday's total would (daily-counter.ts:2).  A    *)
(* restart is said not to bring such a row back (collector.service.ts:71).   *)
(* Excused is a day on which the counter went on decaying after midnight:    *)
(* any fall is taken for the reset (daily-counter.ts:29).                    *)
NoCarryover == \A d \in Days \ fell : best[d] <= total[d]

(* Suppressing the carryover costs nothing: whenever the collector has seen  *)
(* the counter as it stands, the day has all that was made.                  *)
NothingLost == fresh => best[day] >= total[day]

(* What makes the two inductive, while no move of the counter is missed and  *)
(* no restart falls between midnight and the reset: how the counter stands   *)
(* to the day, and the tracker and the newest row to the counter.            *)
RoofInv ==
    /\ \A d \in Days : d > day => total[d] = 0
    /\ phase = "night" => total[day] = 0
    /\ phase = "sunlit" => counter = total[day]
    /\ ~reset => phase = "night"
    /\ reset => counter <= total[day]

(* Before the reset yesterday's figure is suppressed, until it falls.      *)
Suppressed(awaiting) ==
    /\ awaiting => counter > 0
    /\ counter > 0 /\ ~awaiting => day \in fell

TrackerInv ==
    /\ fresh => tracker.raw = counter /\ tracker.date = day /\ last # None /\ last.date = day
    /\ fresh /\ reset => ~tracker.awaiting /\ last.wh = counter
    /\ fresh /\ ~reset => Suppressed(tracker.awaiting)
    /\ ~fresh /\ reset =>
          \/ tracker.date = day /\ last # None /\ last.date = day
             /\ (tracker.awaiting => counter = 0 /\ tracker.raw > 0)
          \/ tracker.date = None /\ ~tracker.awaiting /\ last = None
    /\ ~fresh /\ ~reset =>
          \/ tracker.raw = counter /\ tracker.date \notin {day, None} /\ ~tracker.awaiting
          \/ tracker.raw > counter /\ tracker.date = day /\ day \in fell

CreditInv == best[day] >= total[day] \/ (~fresh /\ counter = total[day])

DayInv == RoofInv /\ TrackerInv /\ CreditInv /\ NoCarryover

(* The day wrap never reports more than the day made: what it takes from the *)
(* last snapshot is of the day it names (daily-summary.service.ts:79).       *)
WrapIsOfToday ==
    [][wrap' # wrap /\ wrap' # None => wrap'.wh <= total[wrap'.date]]_vars

-----------------------------------------------------------------------------
(* Not kept by the code. *)

(* "One such row reports it as today's": no day is credited with more than   *)
(* it made.  Refuted by a decay between midnight and the reset, which ends   *)
(* the suppression: what is left of yesterday's total is today's.            *)
NeverACarryover == \A d \in Days : best[d] <= total[d]

(* 0 is reported only while the counter has not dropped since midnight       *)
(* ("once a local-date boundary is crossed without the counter dropping,     *)
(* report 0 until the reset is seen", daily-counter.ts:7).  Refuted with     *)
(* MissesPolls.                                                              *)
SuppressionIsRight == fresh /\ tracker.awaiting => ~reset

(* "Energy for the current local day" (readings.service.ts:205): once the    *)
(* gateway was asked, the tile shows no more than today made.  Refuted       *)
(* between midnight and the reset, without any fault.                        *)
TodayIsToday == fresh => Today <= total[day]

(* The day wrap reports the day's total ("the day's maximum is the total;    *)
(* the newest reading is not", readings.service.ts:209).  Refuted with       *)
(* Decays.                                                                   *)
WrapIsTotal ==
    [][fresh /\ wrap' # wrap /\ wrap' # None => wrap'.wh = total[day]]_vars
=============================================================================
