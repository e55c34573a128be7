------------------------------- MODULE Scheduler -------------------------------
(***************************************************************************)
(* apps/api/src/devices/scheduler.service.ts: once a minute a tick fires   *)
(* the schedule of a device whose time has come today, and marks it.       *)
(*                                                                         *)
(* One schedule.  A day is the time before its target, the two hours in    *)
(* which it may fire, and the rest.  setInterval does not wait for a tick  *)
(* to end, so that several may be under way.                               *)
(***************************************************************************)
EXTENDS Integers, FiniteSets

CONSTANTS
    Ticks,       \* the ticks that may overlap
    LastDay,     \* bound: days
    MaxRestarts  \* bound: how often the process ends

VARIABLES
    day, phase,  \* the clock
    lastRun,     \* DeviceSchedule.lastRunDate: a day, or 0
    present,     \* DeviceSchedule: the row is there
    critical,    \* Device.critical
    at, today,   \* of each tick: where it is, and the date it works with
    fired,       \* history: how often the device was switched today
    excuses,     \* history: today's overlaps, restarts and ticks from yesterday
    restarts

row    == <<lastRun, present, critical>>
ticks  == <<at, today>>
vars   == <<day, phase, row, ticks, fired, excuses, restarts>>

Phases == <<"early", "due", "late">>

TypeOK ==
    /\ day \in 1..LastDay /\ phase \in 1..3
    /\ lastRun \in 0..LastDay /\ present \in BOOLEAN /\ critical \in BOOLEAN
    /\ at \in [Ticks -> {"idle", "command", "switch", "mark"}]
    /\ today \in [Ticks -> 0..LastDay]
    /\ fired \in Nat /\ excuses \in Nat /\ restarts \in 0..MaxRestarts

Init ==
    /\ day = 1 /\ phase = 1
    /\ lastRun = 0 /\ present = TRUE /\ critical = FALSE
    /\ at = [t \in Ticks |-> "idle"] /\ today = [t \in Ticks |-> 0]
    /\ fired = 0 /\ excuses = 0 /\ restarts = 0

Busy == {t \in Ticks : at[t] # "idle"}

-----------------------------------------------------------------------------
(* tick() reads the rows: what it found then is what it acts on.  A target  *)
(* more than two hours ago is only marked.                                  *)
Tick(t) ==
    /\ at[t] = "idle"
    /\ present /\ ~critical
    /\ lastRun # day
    /\ Phases[phase] # "early"
    /\ at' = [at EXCEPT ![t] = IF Phases[phase] = "late" THEN "mark" ELSE "command"]
    /\ today' = [today EXCEPT ![t] = day]
    /\ excuses' = excuses + (IF Busy # {} THEN 1 ELSE 0)
    /\ UNCHANGED <<day, phase, row, fired, restarts>>

(* devices.command() reads the device again, and refuses a critical one;   *)
(* removing a device takes its schedules along.                            *)
Command(t) ==
    /\ at[t] = "command"
    /\ at' = [at EXCEPT ![t] = IF present /\ ~critical THEN "switch" ELSE "mark"]
    /\ UNCHANGED <<day, phase, row, today, fired, excuses, restarts>>

(* Bug: a schedule is done with only once its command has succeeded. *)
Switch_MarksSuccess(t) ==
    /\ at[t] = "switch"
    /\ \E answered \in BOOLEAN : at' = [at EXCEPT ![t] = IF answered THEN "mark" ELSE "idle"]
    /\ fired' = fired + 1
    /\ UNCHANGED <<day, phase, row, today, excuses, restarts>>

(* adapter.setOn() and the poll after it: answered or not, the tick goes on. *)
Switch(t) ==
    /\ at[t] = "switch"
    /\ at' = [at EXCEPT ![t] = "mark"]
    /\ fired' = fired + 1
    /\ UNCHANGED <<day, phase, row, today, excuses, restarts>>

(* mark() of a schedule that was removed is rejected, and nobody catches it. *)
Mark(t) ==
    /\ at[t] = "mark"
    /\ present
    /\ lastRun' = today[t]
    /\ at' = [at EXCEPT ![t] = "idle"]
    /\ today' = [today EXCEPT ![t] = 0]
    /\ UNCHANGED <<day, phase, present, critical, fired, excuses, restarts>>

(* The process ends and is started again. *)
Restarts ==
    /\ restarts < MaxRestarts \/ \E t \in Ticks : at[t] = "mark" /\ ~present
    /\ restarts' = IF restarts < MaxRestarts THEN restarts + 1 ELSE restarts
    /\ excuses' = excuses + (IF Busy # {} THEN 1 ELSE 0)
    /\ at' = [t \in Ticks |-> "idle"]
    /\ today' = [t \in Ticks |-> 0]
    /\ UNCHANGED <<day, phase, row, fired>>

-----------------------------------------------------------------------------
RemoveSchedule ==
    /\ present
    /\ present' = FALSE
    /\ UNCHANGED <<day, phase, lastRun, critical, ticks, fired, excuses, restarts>>

SetCritical ==
    /\ critical' = ~critical
    /\ UNCHANGED <<day, phase, lastRun, present, ticks, fired, excuses, restarts>>

Advance ==
    /\ \/ phase < 3 /\ phase' = phase + 1 /\ UNCHANGED <<day, fired, excuses>>
       \/ /\ phase = 3 /\ day < LastDay
          /\ phase' = 1
          /\ day' = day + 1
          /\ fired' = 0
          /\ excuses' = Cardinality(Busy)
    /\ UNCHANGED <<row, ticks, restarts>>

TickStep(t) == Tick(t) \/ Command(t) \/ Switch(t) \/ Mark(t)

Next ==
    \/ \E t \in Ticks : TickStep(t)
    \/ Restarts \/ RemoveSchedule \/ SetCritical \/ Advance

Spec == Init /\ [][Next]_vars

-----------------------------------------------------------------------------
(* Properties. *)

(* "Each schedule runs once per local day": more often only for each tick    *)
(* that overlapped another, was left by midnight or cut short by a restart;  *)
(* a device that refuses its command is not switched again and again.        *)
FiringsAreExcused == fired <= 1 + excuses

-----------------------------------------------------------------------------
(* Not kept by the code. *)

(* Without the excuses.  Refuted by two ticks that overlap.                 *)
OncePerDay == fired <= 1

(* A critical device is never actuated.  Refuted: it may become critical    *)
(* while the command is awaited.                                            *)
NeverWhileCritical == [][fired' > fired => ~critical]_vars
=============================================================================
