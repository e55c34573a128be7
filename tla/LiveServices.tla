----------------------------- MODULE LiveServices -----------------------------
(***************************************************************************)
(* The network watchdog (extended), the hourly rollup and the polls of the *)
(* devices side by side: what each must bring about at last.               *)
(*                                                                         *)
(* They share the process and the database at most, and no row of it: a    *)
(* step of one neither reads nor writes what is another's.  What one of    *)
(* them does, it does whatever the others do meanwhile, and so a behaviour *)
(* here lets one service step, any one, and the others stay as they begin. *)
(***************************************************************************)
EXTENDS Netwatch

CONSTANTS
    LastDay, Energies, West, HalfHour, MaxDaysPerRun, MaxEvents,  \* Rollup
    Polls, None                                                   \* Devices

VARIABLES
    focus,  \* the service that steps
    today, hour, readings, dtuHourly, portHourly, ranOn, foldPc, queue, day, seen, todo,
    unfinished, undone, events,
    device, reachable, live, lastStored, beat, newest, poll, heard, command, readBack, rejected

rollup == <<today, hour, readings, dtuHourly, portHourly, ranOn, foldPc, queue, day, seen,
            todo, unfinished, undone, events>>
devices == <<device, reachable, live, lastStored, beat, newest, poll, heard, command, readBack,
             rejected>>

allVars == <<focus, vars, rollup, devices>>

R == INSTANCE Rollup WITH pc <- foldPc
D == INSTANCE Devices WITH MaxFaults <- 1, faults <- rejected

ASSUME ThresholdsAssumption == ThresholdsOK

Services == {"rollup", "devices", "netwatch"}

AllInit == focus \in Services /\ Init /\ R!Init /\ D!Init

AllNext ==
    /\ UNCHANGED focus
    /\ \/ focus = "netwatch" /\ Next /\ UNCHANGED <<rollup, devices>>
       \/ focus = "rollup" /\ R!Next /\ UNCHANGED <<vars, devices>>
       \/ focus = "devices" /\ D!Next /\ UNCHANGED <<vars, rollup>>

(* What Rollup, Devices and Netwatch assume of timers, database and network. *)
Fairness ==
    /\ SF_rollup(focus = "rollup" /\ R!Tick)
    /\ WF_rollup(focus = "rollup" /\ R!Run)
    /\ WF_rollup(focus = "rollup" /\ R!Advance)
    /\ \A p \in Polls : WF_devices(focus = "devices" /\ D!PollStep(p))
    /\ WF_devices(focus = "devices" /\ D!Heartbeat)
    /\ WF_devices(focus = "devices" /\ (D!AskBack \/ D!HearBack))
    /\ WF_vars(focus = "netwatch" /\ Script)

AllFairSpec == AllInit /\ [][AllNext]_allVars /\ Fairness

-----------------------------------------------------------------------------
(* Properties: those of the services, with RebootIsLast, NoRebootLoop and  *)
(* NetworkReturns of Netwatch.                                             *)

(* The variables of every service have their types.                          *)
AllTypesOK == focus \in Services /\ TypeOK /\ R!TypeOK /\ D!TypeOK

(* Rollup: the hours of a day sum to the day.                                *)
HoursSumToDay == R!HoursSumToDay

(* Rollup: a past day is folded at last.                                     *)
PastIsFolded == R!PastIsFolded

(* Devices: the newest row follows the device.                               *)
HistoryFollows == focus = "devices" => D!HistoryFollows
=============================================================================
