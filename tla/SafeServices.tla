----------------------------- MODULE SafeServices -----------------------------
(***************************************************************************)
(* The services whose promise is that something never happens, side by     *)
(* side: the daily counter (extended), backup, device schedules, device    *)
(* settings, the charger's loop, the uploads to PVOutput and the bank of   *)
(* export credits.  As in LiveServices they share nothing that a step      *)
(* reads or writes, so that a behaviour lets any one of them step.         *)
(***************************************************************************)
EXTENDS DayEnergy

CONSTANTS
    DayLen, SlotHour, Grace, Keep, MaxTime, MaxByHand, MaxFailures,  \* Backup
    Ticks, ScheduleDays, MaxRestarts,                                \* Scheduler
    Editors, MaxEdits,                                               \* DeviceConfig
    IdlePoll, MaxBackoff, SessionGap, MaxFailedPolls,                \* Charger
    Limit, Share, MaxBlind,                                          \* Pvoutput
    MaxDate, Opening, Expiry, MaxBills                               \* CreditBank

VARIABLES
    focus,  \* the service that steps
    now, lastRun, lastSched, lastOk, stored, torn, probes, uploads, temp, running, at, whole,
    doomed, asked, failures, collided, steady,
    today, hour, lastFired, present, critical, tickAt, tickDay, fired, excuses, restarts,
    config, key, id, blob, edits, acked, overlapped,
    car, timer, armed, delay, polls, live, failedPolls, lastState, gap, steadyCharge,
    enabled, rate, rateRow, sentFor, sentRow, lastError, uploadAt, what, reply, left, spent,
    outputs, blind,
    nets, ledger, bills, meter

backup == <<now, lastRun, lastSched, lastOk, stored, torn, probes, uploads, temp, running, at,
            whole, doomed, asked, failures, collided, steady>>
scheduler == <<today, hour, lastFired, present, critical, tickAt, tickDay, fired, excuses,
               restarts>>
edited == <<config, key, id, blob, edits, acked, overlapped>>
charger == <<car, timer, armed, delay, polls, live, failedPolls, lastState, gap, steadyCharge>>
pvoutput == <<enabled, rate, rateRow, sentFor, sentRow, lastError, uploadAt, what, reply, left,
              spent, outputs, blind>>
credits == <<nets, ledger, bills, meter>>

allVars == <<focus, vars, backup, scheduler, edited, charger, pvoutput, credits>>

B == INSTANCE Backup
S == INSTANCE Scheduler WITH day <- today, phase <- hour, today <- tickDay, at <- tickAt,
                             lastRun <- lastFired, LastDay <- ScheduleDays
E == INSTANCE DeviceConfig
C == INSTANCE Charger WITH failures <- failedPolls, steady <- steadyCharge,
                           MaxFailures <- MaxFailedPolls
P == INSTANCE Pvoutput WITH at <- uploadAt
K == INSTANCE CreditBank WITH Nets <- {-2, 1}

Services == {"energy", "backup", "scheduler", "config", "charger", "pvoutput", "credits"}

AllInit ==
    focus \in Services /\ Init /\ B!Init /\ S!Init /\ E!Init /\ C!Init /\ P!Init /\ K!Init

AllNext ==
    /\ UNCHANGED focus
    /\ \/ focus = "energy" /\ Next
          /\ UNCHANGED <<backup, scheduler, edited, charger, pvoutput, credits>>
       \/ focus = "backup" /\ B!Next
          /\ UNCHANGED <<vars, scheduler, edited, charger, pvoutput, credits>>
       \/ focus = "scheduler" /\ S!Next
          /\ UNCHANGED <<vars, backup, edited, charger, pvoutput, credits>>
       \/ focus = "config" /\ E!Next
          /\ UNCHANGED <<vars, backup, scheduler, charger, pvoutput, credits>>
       \/ focus = "charger" /\ C!Next
          /\ UNCHANGED <<vars, backup, scheduler, edited, pvoutput, credits>>
       \/ focus = "pvoutput" /\ P!Next
          /\ UNCHANGED <<vars, backup, scheduler, edited, charger, credits>>
       \/ focus = "credits" /\ K!Next
          /\ UNCHANGED <<vars, backup, scheduler, edited, charger, pvoutput>>

AllSpec == AllInit /\ [][AllNext]_allVars

-----------------------------------------------------------------------------
(* Properties: those of the services, with NoCarryover and NothingLost of  *)
(* DayEnergy.                                                              *)

(* The variables of every service have their types.                          *)
AllTypesOK ==
    /\ focus \in Services
    /\ TypeOK /\ B!TypeOK /\ S!TypeOK /\ E!TypeOK /\ C!TypeOK /\ P!TypeOK /\ K!TypeOK

(* Backup: the newest backups are at the destination.                        *)
NewestKept == B!NewestKept

(* Backup: each slot gets its backup.                                        *)
EverySlotServed == [][B!SlotWasServed]_backup

(* Scheduler: a schedule fires once a day, and again only for a reason.      *)
FiringsAreExcused == S!FiringsAreExcused

(* DeviceConfig: edits that do not overlap keep each other's keys.           *)
EditsAreMerged == E!EditsAreMerged

(* Charger: polls do not pile up.                                            *)
OneLoop == C!OneLoop

(* Charger: a charge is stored as one session.                               *)
SessionHolds == C!SessionHolds

(* Pvoutput: the timer keeps to its share of the hour's requests.            *)
BudgetHeld == P!BudgetHeld

(* CreditBank: the derived balance is the utility's.                         *)
DerivedIsRight == K!DerivedIsRight
=============================================================================
