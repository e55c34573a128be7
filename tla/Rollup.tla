-------------------------------- MODULE Rollup --------------------------------
(***************************************************************************)
(* apps/api/src/readings: once a day the five-minute readings of past days *)
(* are folded into hours (rollup.service.ts), while polls add readings and *)
(* exports of the vendor fill gaps (cloud-import.service.ts).              *)
(*                                                                         *)
(* A day has two readable times, each with at most one polled and one      *)
(* imported reading: the value of the day counter.  Where the site is      *)
(* whole hours from UTC each is an hour of its own.  Where it is half an   *)
(* hour off (HalfHour) a day ends in the middle of one of UTC's hours.     *)
(* Panels are read with the gateway, and an export has none.               *)
(***************************************************************************)
EXTENDS Integers, FiniteSets, FiniteSetsExt

CONSTANTS
    LastDay,       \* bound: the days with readings are 1..LastDay
    Energies,      \* what the day counter shows
    West,          \* the site is west of Greenwich: its evening is UTC's next day
    HalfHour,      \* its time is half an hour off UTC's hours
    MaxDaysPerRun, \* MAX_DAYS_PER_RUN
    MaxEvents      \* bound: imports and runs cut short, together

VARIABLES
    today, hour,          \* the clock
    readings,             \* DtuReading: a set of <<day, hour, counter, source>>
    dtuHourly, portHourly,\* the hourly tables: <<localDate, hour>> to samples and energy
    ranOn,                \* lastRunDate
    pc, queue, day, seen, \* where run() is, and its variables
    todo,                 \* the hours rollDay() has yet to upsert
    unfinished,           \* history: days whose last fold is under way, or was cut short
    undone,               \* history: days of which an import was undone
    events                \* history: imports and runs cut short

clock   == <<today, hour>>
history == <<unfinished, undone, events>>
tables  == <<readings, dtuHourly, portHourly>>
run     == <<pc, queue, day, seen, todo>>
vars    == <<clock, tables, ranOn, run, history>>

Never == 0
Hours == 1..2
Days == 1..LastDay
HourKeys == (0..LastDay) \X Hours
Rows == Days \X Hours \X Energies \X {"dtu", "cloud"}
NoHour == [samples |-> 0, energy |-> 0]
HourRow == [samples : 0..2, energy : Energies \cup {0}]

TypeOK ==
    /\ today \in 1..(LastDay + 1) /\ hour \in Hours
    /\ readings \subseteq Rows
    /\ dtuHourly \in [HourKeys -> HourRow]
    /\ portHourly \in [HourKeys -> HourRow]
    /\ ranOn \in 0..(LastDay + 2)
    /\ pc \in {"idle", "days", "gateway", "window", "ports"}
    /\ queue \subseteq Days /\ day \in Days \cup {Never} /\ seen \subseteq Rows
    /\ todo \subseteq HourKeys
    /\ unfinished \subseteq Days /\ undone \subseteq Days
    /\ events \in 0..MaxEvents

Init ==
    /\ today = 1 /\ hour = 1
    /\ readings = {}
    /\ dtuHourly = [k \in HourKeys |-> NoHour]
    /\ portHourly = [k \in HourKeys |-> NoHour]
    /\ ranOn = Never
    /\ pc = "idle" /\ queue = {} /\ day = Never /\ seen = {} /\ todo = {}
    /\ unfinished = {} /\ undone = {} /\ events = 0

-----------------------------------------------------------------------------
(* bucketByHour(), from a counter of zero. *)

(* hourStartOf(), by its localDateOf(): UTC's hour, filed under the day in *)
(* which it starts.  Half an hour off, a day's first is the last of the    *)
(* day before, the same row of the table.                                  *)
HourOf(row) == IF HalfHour /\ row[2] = 1 THEN <<row[1] - 1, 2>> ELSE <<row[1], row[2]>>

At(rows, k) == {row \in rows : HourOf(row) = k}
Peak(rows) == Max({row[3] : row \in rows} \cup {0})
KeysOf(rows) == {HourOf(row) : row \in rows}
Earlier(k, l) == k[1] < l[1] \/ (k[1] = l[1] /\ k[2] < l[2])

(* Bug: an hour starts where the one before ended, not from the peak.      *)
Bucket_FromLast(rows, k) ==
    [samples |-> Cardinality(At(rows, k)), energy |-> Peak(At(rows, k))]

(* The rise of the high-water mark over the hour.                          *)
Bucket(rows, k) ==
    LET before == Peak({row \in rows : Earlier(HourOf(row), k)})
        peak   == Peak(At(rows, k))
    IN  [samples |-> Cardinality(At(rows, k)),
         energy  |-> IF peak > before THEN peak - before ELSE 0]

-----------------------------------------------------------------------------
(* tick() and run() *)

Gateway(d) == {row \in readings : row[1] = d}
Samples(table, d) == table[<<d, 1>>].samples + table[<<d, 2>>].samples
Energy(table, d) == table[<<d, 1>>].energy + table[<<d, 2>>].energy

(* toISOString() is UTC's date, getHours() the site's hour; both hours are *)
(* after RUN_HOUR.                                                         *)
UtcDay == IF West /\ hour = 2 THEN today + 1 ELSE today

(* Bug: a day is rolled only once.                                         *)
DaysNeedingWork_OnlyNew ==
    {d \in Days : d < UtcDay /\ Gateway(d) # {} /\ Samples(dtuHourly, d) = 0}

DaysNeedingWork ==
    {d \in Days : /\ d < UtcDay
                  /\ Gateway(d) # {}
                  /\ \/ Samples(dtuHourly, d) < Cardinality(Gateway(d))
                     \/ Samples(portHourly, d) = 0}

Tick ==
    /\ pc = "idle"
    /\ ranOn # UtcDay
    /\ ranOn' = UtcDay
    /\ queue' = {d \in DaysNeedingWork :
                   Cardinality({e \in DaysNeedingWork : e < d}) < MaxDaysPerRun}
    /\ pc' = IF queue' = {} THEN "idle" ELSE "days"
    /\ UNCHANGED <<clock, tables, day, seen, todo, history>>

(* rollDay(): the day's gateway rows are read once.                        *)
ReadDay ==
    /\ pc = "days"
    /\ queue' = queue \ {Min(queue)}
    /\ seen' = Gateway(Min(queue))
    /\ todo' = KeysOf(seen')
    /\ IF seen' # {}
         THEN pc' = "gateway" /\ day' = Min(queue) /\ unfinished' = unfinished \cup {day'}
         ELSE pc' = (IF queue' = {} THEN "idle" ELSE "days") /\ day' = Never /\ UNCHANGED unfinished
    /\ UNCHANGED <<clock, tables, ranOn, undone, events>>

(* The upsert of one hour, the earliest first.                             *)
FirstOf(keys, k) == k \in keys /\ \A l \in keys : ~Earlier(l, k)

FoldGateway ==
    /\ pc = "gateway"
    /\ \E k \in todo :
         /\ FirstOf(todo, k)
         /\ dtuHourly' = [dtuHourly EXCEPT ![k] = Bucket(seen, k)]
         /\ todo' = todo \ {k}
    /\ IF todo' = {} THEN pc' = "window" /\ unfinished' = unfinished \ {day}
                     ELSE UNCHANGED <<pc, unfinished>>
    /\ UNCHANGED <<clock, readings, portHourly, ranOn, queue, day, seen, undone, events>>

(* The panels' rows from an hour before the gateway's first to one after   *)
(* its last: of the neighbouring days too, where they touch.               *)
PortRows ==
    LET when(row) == 2 * row[1] + row[2]
        reach     == IF HalfHour THEN 2 ELSE 1
    IN  {row \in readings :
           /\ row[4] = "dtu"
           /\ \E r \in seen : when(row) >= when(r) - reach
           /\ \E r \in seen : when(row) <= when(r) + reach}

AfterDay == IF queue = {} THEN "idle" ELSE "days"

ReadPorts ==
    /\ pc = "window"
    /\ seen' = PortRows
    /\ todo' = KeysOf(PortRows)
    /\ day' = Never
    /\ pc' = IF seen' = {} THEN AfterDay ELSE "ports"
    /\ UNCHANGED <<clock, tables, ranOn, queue, history>>

FoldPorts ==
    /\ pc = "ports"
    /\ \E k \in todo :
         /\ FirstOf(todo, k)
         /\ portHourly' = [portHourly EXCEPT ![k] = Bucket(seen, k)]
         /\ todo' = todo \ {k}
    /\ IF todo' = {} THEN pc' = AfterDay /\ seen' = {} ELSE UNCHANGED <<pc, seen>>
    /\ UNCHANGED <<clock, readings, dtuHourly, ranOn, queue, day, history>>

(* A query or an upsert is rejected, or the process ends: run() stops where *)
(* it is.  A restart forgets that today's run was made.                    *)
Interrupted ==
    /\ events < MaxEvents
    /\ pc # "idle"
    /\ events' = events + 1
    /\ pc' = "idle" /\ queue' = {} /\ day' = Never /\ seen' = {} /\ todo' = {}
    /\ ranOn' \in {ranOn, Never}
    /\ UNCHANGED <<clock, tables, unfinished, undone>>

Run == Tick \/ ReadDay \/ FoldGateway \/ ReadPorts \/ FoldPorts

-----------------------------------------------------------------------------
(* The readings. *)

Insert(d, h, source) ==
    /\ ~ \E row \in readings : row[1] = d /\ row[2] = h /\ row[4] = source
    /\ \E e \in Energies : readings' = readings \cup {<<d, h, e, source>>}

Poll ==
    /\ today \in Days
    /\ Insert(today, hour, "dtu")
    /\ UNCHANGED <<clock, dtuHourly, portHourly, ranOn, run, history>>

(* CloudImportService.run(): a moment that is covered is left out, so that *)
(* nothing is imported twice.                                              *)
Import ==
    /\ events < MaxEvents
    /\ events' = events + 1
    /\ \E d \in Days, h \in Hours : d < today /\ Insert(d, h, "cloud")
    /\ UNCHANGED <<clock, dtuHourly, portHourly, ranOn, run, unfinished, undone>>

(* CloudImportService.undo() *)
Undo ==
    /\ \E d \in Days :
         /\ readings' = {row \in readings : row[1] # d \/ row[4] = "dtu"}
         /\ readings' # readings
         /\ undone' = undone \cup {d}
    /\ UNCHANGED <<clock, dtuHourly, portHourly, ranOn, run, unfinished, events>>

(* After the last day the clock goes on, and there is nothing to read.     *)
Advance ==
    /\ hour' = 3 - hour
    /\ today' = IF hour = 2 /\ today \in Days THEN today + 1 ELSE today
    /\ ranOn' = IF hour = 2 /\ today \notin Days THEN Never ELSE ranOn
    /\ UNCHANGED <<tables, run, history>>

Next == Run \/ Interrupted \/ Poll \/ Import \/ Undo \/ Advance

Spec == Init /\ [][Next]_vars

(* Timers fire (twice an hour, twenty hours a day) and the database        *)
(* answers.                                                                *)
FairSpec == Spec /\ SF_vars(Tick) /\ WF_vars(Run) /\ WF_vars(Advance)

-----------------------------------------------------------------------------
(* Properties. *)

(* "The hourly rows must sum to the same thing" as MAX(dailyEnergy), which   *)
(* verify() counts: they do whenever they account for every raw row, where   *)
(* the site is whole hours from UTC, for every day but those whose fold is   *)
(* under way or was the last to be cut short, and those with an undone import. *)
HoursSumToDay ==
    ~HalfHour =>
        \A d \in Days \ (unfinished \cup undone) :
            Samples(dtuHourly, d) = Cardinality(Gateway(d))
                => Energy(dtuHourly, d) = Peak(Gateway(d))

(* Days the panels have no hour of stay pending, whatever is done for them.  *)
Portless == {d \in Days : d < UtcDay /\ Gateway(d) # {} /\ Samples(portHourly, d) = 0}

(* An undone import leaves its hours behind.                                 *)
AccountedFor(d) ==
    LET missing == Cardinality(Gateway(d)) - Samples(dtuHourly, d)
    IN  missing = 0 \/ (missing < 0 /\ d \in undone)

(* "A day is rolled whenever its hourly rows do not account for its raw      *)
(* ones, so a gap filled [...] weeks later is picked up": again and again    *)
(* every past day is accounted for, where the site is whole hours from UTC,  *)
(* unless days without panels are for ever as many as a run takes.           *)
PastIsFolded ==
    ~HalfHour => \/ []<>(\A d \in Days : d < today => AccountedFor(d))
                 \/ <>[](Cardinality(Portless) >= MaxDaysPerRun)

-----------------------------------------------------------------------------
(* Not kept by the code. *)

(* Between runs the hours that account for a day sum to it.  Refuted with    *)
(* MaxEvents = 2 by the fold of an import cut short between two hours, and   *)
(* with HalfHour by nothing more than the fold of the next day.              *)
HoursAlwaysSum ==
    pc = "idle" =>
        \A d \in Days : Samples(dtuHourly, d) = Cardinality(Gateway(d))
                            => Energy(dtuHourly, d) = Peak(Gateway(d))

(* Every past day is accounted for at last.  Refuted with HalfHour, where    *)
(* two days share a row and each fold takes it from the other; and with      *)
(* MaxDaysPerRun = 1 by one imported day without panels, which is every      *)
(* run's first.                                                              *)
EveryDayIsFolded == []<>(\A d \in Days : d < today => AccountedFor(d))

(* The panels' hours of a day that is folded sum to what the panels made.  *)
(* Refuted by the fold of the next day, which reads an hour back into it.  *)
PanelsSumToDay ==
    pc = "idle" =>
        \A d \in Days :
            LET mine == {row \in readings : row[1] = d /\ row[4] = "dtu"}
            IN  Samples(portHourly, d) = Cardinality(mine) => Energy(portHourly, d) = Peak(mine)
=============================================================================
