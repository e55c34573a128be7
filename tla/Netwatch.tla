-------------------------------- MODULE Netwatch --------------------------------
(***************************************************************************)
(* packaging/linux/netwatch.sh, which solar-netwatch.timer runs every      *)
(* minute: a gateway that does not answer is counted on disk, and at three *)
(* thresholds the link is bounced, its driver reloaded and the machine     *)
(* restarted.                                                              *)
(***************************************************************************)
EXTENDS Integers

CONSTANTS
    BounceAfter, ReloadAfter, RebootAfter, \* failed checks before each step
    MaxKills,   \* bound: runs cut short and power failures
    MaxFaults   \* bound: how often the network breaks

ThresholdsOK ==
    /\ {BounceAfter, ReloadAfter, RebootAfter, MaxKills, MaxFaults} \subseteq Nat
    /\ 0 < BounceAfter /\ BounceAfter < ReloadAfter /\ ReloadAfter < RebootAfter

VARIABLES
    router,     \* the router answers
    link,       \* the machine's side: "ok", or what is wrong with it: "link",
                \* "driver", "wedged" (only a restart helps), taken "down", or
                \* "gone" with its driver
    count,      \* netwatch.state as it is read
    onDisk,     \* netwatch.state as a power failure would leave it
    pc,         \* the command the run is at
    run,        \* the run's count
    missed,     \* history: failed checks in a row since the machine started
    tried,      \* history: the steps taken since the network last answered
    spared,     \* history: failed checks since the script last restarted the machine;
                \* a good check counts for all of them
    kills, faults

net == <<router, link>>
vars == <<net, count, onDisk, pc, run, missed, tried, spared, kills, faults>>

Troubles == {"link", "driver", "wedged"}
Reachable == router /\ link = "ok"

(* Numbers above the last threshold are not told apart. *)
Top == RebootAfter + 1
Cap(n) == IF n > Top THEN Top ELSE n

TypeOK ==
    /\ router \in BOOLEAN /\ link \in Troubles \cup {"ok", "down", "gone"}
    /\ count \in 0..Top /\ onDisk \in 0..Top
    /\ pc \in {"idle", "failed", "bounce", "up", "reload", "load", "clear", "sync", "reboot"}
    /\ run \in 0..Top /\ missed \in 0..Top /\ spared \in 0..Top
    /\ tried \subseteq {"bounce", "reload"}
    /\ kills \in 0..MaxKills /\ faults \in 0..MaxFaults

Init ==
    /\ router = TRUE /\ link = "ok" /\ count = 0 /\ onDisk = 0 /\ pc = "idle" /\ run = 0
    /\ missed = 0 /\ spared = RebootAfter /\ tried = {} /\ kills = 0 /\ faults = 0

-----------------------------------------------------------------------------
(* main() *)

(* Bug: the count of an outage that ended stays. *)
CheckOk_Keeps ==
    /\ pc = "idle"
    /\ Reachable
    /\ missed' = 0
    /\ tried' = {}
    /\ spared' = RebootAfter
    /\ UNCHANGED <<net, count, onDisk, pc, run, kills, faults>>

CheckOk ==
    /\ pc = "idle"
    /\ Reachable
    /\ count' = 0
    /\ missed' = 0
    /\ tried' = {}
    /\ spared' = RebootAfter
    /\ UNCHANGED <<net, onDisk, pc, run, kills, faults>>

CheckFails ==
    /\ pc = "idle"
    /\ ~Reachable
    /\ run' = Cap(count + 1)
    /\ count' = run'
    /\ missed' = Cap(missed + 1)
    /\ spared' = Cap(spared + 1)
    /\ pc' = "failed"
    /\ UNCHANGED <<net, onDisk, tried, kills, faults>>

Goes(from, to) == pc = from /\ pc' = to

(* Bug: the last step, too, is taken at its threshold only.                *)
Escalate_Exactly ==
    /\ Goes("failed", IF run = RebootAfter THEN "clear"
                      ELSE IF run = ReloadAfter THEN "reload"
                      ELSE IF run = BounceAfter THEN "bounce" ELSE "idle")
    /\ UNCHANGED <<net, count, onDisk, run, missed, tried, spared, kills, faults>>

Escalate ==
    /\ Goes("failed", IF run >= RebootAfter THEN "clear"
                      ELSE IF run = ReloadAfter THEN "reload"
                      ELSE IF run = BounceAfter THEN "bounce" ELSE "idle")
    /\ UNCHANGED <<net, count, onDisk, run, missed, tried, spared, kills, faults>>

(* ip link set down, and up again two seconds later. *)
Bounce ==
    /\ Goes("bounce", "up")
    /\ link' = IF link \in {"ok", "link"} THEN "down" ELSE link
    /\ tried' = tried \cup {"bounce"}
    /\ UNCHANGED <<router, count, onDisk, run, missed, spared, kills, faults>>

Up ==
    /\ Goes("up", "idle")
    /\ link' = IF link = "down" THEN "ok" ELSE link
    /\ UNCHANGED <<router, count, onDisk, run, missed, tried, spared, kills, faults>>

(* modprobe -r, and modprobe two seconds later, if that could be done.  A   *)
(* link that was left down is not found, nor its driver.                    *)
Reload ==
    /\ pc = "reload"
    /\ \/ link \in {"ok", "link", "driver"} /\ link' = "gone" /\ pc' = "load"
       \/ link \notin {"ok", "link", "driver"} /\ pc' = "idle" /\ UNCHANGED link
    /\ tried' = tried \cup {"reload"}
    /\ UNCHANGED <<router, count, onDisk, run, missed, spared, kills, faults>>

LoadDriver ==
    /\ Goes("load", "idle")
    /\ link' = IF link = "gone" THEN "ok" ELSE link
    /\ UNCHANGED <<router, count, onDisk, run, missed, tried, spared, kills, faults>>

(* Bug: the count is left as it is.                                        *)
ClearCount_Kept ==
    /\ Goes("clear", "sync")
    /\ UNCHANGED <<net, count, onDisk, run, missed, tried, spared, kills, faults>>

ClearCount ==
    /\ Goes("clear", "sync")
    /\ count' = 0
    /\ UNCHANGED <<net, onDisk, run, missed, tried, spared, kills, faults>>

Sync ==
    /\ Goes("sync", "reboot")
    /\ onDisk' = count
    /\ UNCHANGED <<net, count, run, missed, tried, spared, kills, faults>>

Starts ==
    /\ pc' = "idle"
    /\ run' = 0
    /\ missed' = 0
    /\ link' = "ok"
    /\ tried' = {}
    /\ UNCHANGED router

(* A hard restart: the machine may be as stuck as its network. *)
Reboot ==
    /\ pc = "reboot"
    /\ Starts
    /\ count' = onDisk
    /\ spared' = 0
    /\ UNCHANGED <<onDisk, kills, faults>>

-----------------------------------------------------------------------------
(* What was written reaches the disk some time. *)
WriteBack ==
    /\ onDisk # count
    /\ onDisk' = count
    /\ UNCHANGED <<net, count, pc, run, missed, tried, spared, kills, faults>>

(* TimeoutStartSec *)
Killed ==
    /\ kills < MaxKills
    /\ kills' = kills + 1
    /\ pc # "idle" /\ pc' = "idle"
    /\ UNCHANGED <<net, count, onDisk, run, missed, tried, spared, faults>>

PowerFails ==
    /\ kills < MaxKills
    /\ kills' = kills + 1
    /\ Starts
    /\ count' = onDisk
    /\ UNCHANGED <<onDisk, spared, faults>>

LinkBreaks ==
    /\ faults < MaxFaults
    /\ faults' = faults + 1
    /\ link = "ok" /\ link' \in Troubles
    /\ UNCHANGED <<router, count, onDisk, pc, run, missed, tried, spared, kills>>

RouterBlinks ==
    /\ router' = ~router
    /\ UNCHANGED <<link, count, onDisk, pc, run, missed, tried, spared, kills, faults>>

Script ==
    \/ CheckOk \/ CheckFails \/ Escalate \/ Bounce \/ Up \/ Reload \/ LoadDriver
    \/ ClearCount \/ Sync \/ Reboot

Next == Script \/ WriteBack \/ Killed \/ PowerFails \/ LinkBreaks \/ RouterBlinks

Spec == Init /\ [][Next]_vars

(* The timer runs the script, and its commands end. *)
FairSpec == Spec /\ WF_vars(Script)

-----------------------------------------------------------------------------
(* Properties. *)

(* A restart is the last resort: without killed runs and power failures it   *)
(* comes after as many failed checks as the threshold says, and after both   *)
(* milder steps were taken, if only to find nothing that they could act on.  *)
RebootIsLast ==
    kills = 0 /\ pc = "reboot" => missed >= RebootAfter /\ tried = {"bounce", "reload"}

(* "A reboot loop that re-triggers instantly on every boot is worse than     *)
(* being down": between two restarts of the script's there are as many       *)
(* failed checks as the first took, or a check that found the network back,  *)
(* whatever is killed and whenever the power fails.                          *)
NoRebootLoop == pc = "reboot" => spared >= RebootAfter

(* Whatever is wrong with the machine's side of the network is cured, also   *)
(* when a run was killed between taking the link down and up, or between     *)
(* unloading its driver and loading it.                                      *)
NetworkReturns == <>[]router => []<>(link = "ok")
=============================================================================
