----------------------------- MODULE UpdateSystem -----------------------------
(***************************************************************************)
(* The two halves of the updater together: update.sh and the machine       *)
(* (Updater) with the app's update.service.ts (UpdateService) as the one   *)
(* user of the hand-off files.  The app lives as long as the service runs: *)
(* every stop of the script, and every power failure, ends it with what it *)
(* had in flight, and a start boots it again.                              *)
(***************************************************************************)
EXTENDS Updater

CONSTANTS Ops, Timer, TimerRuns, MayFail

ASSUME TimerAssumption == Timer \notin Ops /\ {TimerRuns, MayFail} \subseteq BOOLEAN

VARIABLES db, booted, checking, decision, op, missed

memory == <<db, booted, checking, decision, op, missed>>

(* buildInfo(): the stamp beside the binary the process was started from. *)
Running == IF AppAnswers THEN live.stamp ELSE None

App == INSTANCE UpdateService WITH running <- Running, MayRestart <- FALSE

SysInit == Init /\ App!AppInit(policy)

ScriptAndMachine == TimerStarts \/ HandStarts \/ ScriptStep \/ Abort \/ Publisher

(* The script stops and starts the service; the process goes with it. *)
MachineStep ==
    /\ ScriptAndMachine
    /\ IF live' = live THEN UNCHANGED memory ELSE App!AppDies

PowerFailsForAll == PowerFails /\ App!AppDies

(* A request written by the app is somebody asking (again) for a version. *)
AppStep ==
    /\ UNCHANGED <<feed, state, disk, live, script, crashes>>
    /\ App!AppStep
    /\ IF request' \in {request, None} THEN UNCHANGED <<burned, kept>> ELSE AskedFor(request')

SysNext == MachineStep \/ PowerFailsForAll \/ AppStep

SysSpec == SysInit /\ [][SysNext]_<<vars, memory>>

-----------------------------------------------------------------------------
(* Properties. *)

(* The app never does to the hand-off files what the updater is not ready    *)
(* for: with the app's own operations, interleaved and cut short as they may *)
(* be, the two halves behave as Updater does with the users it allows.       *)
AppIsAUser == Spec

(* Between runs, what the panel offers is newer than what is installed: an   *)
(* offer does not outlive the installation that fulfilled it.                *)
OfferIsNewer == pc = "idle" /\ decision # None => decision > install.stamp
=============================================================================
