------------------------------- MODULE Updater -------------------------------
(***************************************************************************)
(* packaging/linux/update.sh: the root-owned updater that a systemd timer  *)
(* runs beside the dashboard, together with what it shares with the rest   *)
(* of the machine: the release feed, the three hand-off files in data/     *)
(* (update-policy.json, update-request.json, update-state.json), the       *)
(* installed tree in /opt, its rollback copy and the running service.      *)
(*                                                                         *)
(* A version is a number and the numbers' order is the versions' order     *)
(* (ReleaseOrder is about the two comparisons the code really makes).  A   *)
(* tree is the binary and the version.json beside it, which rsync replaces *)
(* in that order.  The app is an environment here: what it may write to    *)
(* the hand-off files while it is up.  UpdateSystem puts the app's own     *)
(* update.service.ts in its place.                                         *)
(***************************************************************************)
EXTENDS Integers

CONSTANTS
    Versions,      \* every release that may ever be published
    First,         \* the version the machine was installed with
    Broken,        \* releases whose binary never answers the health check
    PreReleases,   \* releases only the prerelease channel is offered
    Unverifiable,  \* releases this machine never accepts: no key, no minisign, no
                   \* assets, or a signature or checksum that does not hold
    None,          \* no version, no request, nothing running
    MaxCrashes,    \* bound: how many power failures happen
    MayAbort,      \* may a command of the script fail, or systemd kill it?
    FeedMayShrink, \* may a published release be withdrawn?
    StaleRequests  \* may a request name a version that is not the newest?

ASSUME VersionsAssumption == Versions \subseteq Nat /\ First \in Versions \ Broken
ASSUME NoneAssumption == None \notin Nat /\ None \notin [bin : Versions, stamp : Versions]
ASSUME BoundAssumption == MaxCrashes \in Nat
ASSUME FlagsAssumption == {MayAbort, FeedMayShrink, StaleRequests} \subseteq BOOLEAN

VARIABLES
    feed,     \* releases published now
    policy,   \* update-policy.json
    request,  \* update-request.json: the version asked for, or None
    state,    \* update-state.json: the outcome of the last attempt
    install,  \* /opt/solar-dashboard
    prev,     \* /opt/solar-dashboard.prev
    live,     \* the tree the running service was started from, or None
    pc,       \* where the script is; "idle" between runs
    run,      \* the script's variables
    burned,   \* history: failed the health check, not asked for since
    kept,     \* history: the version a run last recorded as failed, unless asked for
              \* or another attempt recorded since
    crashes   \* power failures so far

files  == <<policy, request, state>>
disk   == <<install, prev>>
script == <<pc, run>>
history == <<burned, kept, crashes>>
vars   == <<feed, files, disk, live, script, history>>

Channels  == {"off", "stable", "prerelease"}
Results   == {"none", "ok", "rolled-back", "failed", "refused"}
Trees     == [bin : Versions, stamp : Versions]
Tree(v)   == [bin |-> v, stamp |-> v]
Recovery  == {"rb_stop", "rb_bin", "rb_stamp", "rb_start", "rb_record"}
Places    == {"idle", "resolve", "fetch", "stop", "keep", "bin", "stamp", "start",
              "health", "record_ok", "clear"} \cup Recovery
Modes     == {"policy", "now", "check"}
MaybeVersion == Versions \cup {None}
NoRun == [mode |-> "check", channel |-> "off", apply |-> FALSE, requested |-> None,
          from |-> First, target |-> First]

TypeOK ==
    /\ feed \subseteq Versions
    /\ policy \in [channel : Channels, apply : BOOLEAN]
    /\ request \in MaybeVersion
    /\ state \in [result : Results, to : MaybeVersion]
    /\ install \in Trees
    /\ prev \in Trees
    /\ live \in Trees \cup {None}
    /\ pc \in Places
    /\ run \in [mode : Modes, channel : Channels, apply : BOOLEAN,
                requested : MaybeVersion, from : Versions, target : Versions]
    /\ burned \subseteq Versions
    /\ kept \in MaybeVersion
    /\ crashes \in 0..MaxCrashes

Init ==
    /\ feed = {First}
    /\ policy = [channel |-> "off", apply |-> FALSE]
    /\ request = None
    /\ state = [result |-> "none", to |-> None]
    /\ install = Tree(First)
    /\ prev = Tree(First)
    /\ live = Tree(First)
    /\ pc = "idle"
    /\ run = NoRun
    /\ burned = {}
    /\ kept = None
    /\ crashes = 0

Goto(place) == pc' = place /\ UNCHANGED run
Exit == pc' = "idle" /\ run' = NoRun

(* The releases of the feed a channel is offered. *)
Offered(channel) ==
    IF channel = "off" THEN {} ELSE {v \in feed : channel = "prerelease" \/ v \notin PreReleases}

(* record(): the outcome the app will show.  touch_checked() only moves a  *)
(* timestamp and is a stutter here.                                        *)
Record(result, to) == state' = [result |-> result, to |-> to]

(* What a recorded attempt leaves to be remembered. *)
Keeps(version) == kept' = version /\ UNCHANGED <<burned, crashes>>

-----------------------------------------------------------------------------
(* The script, one action per command that reads or changes shared state. *)

(* Bug: the window alone decides, and APPLY is not looked at. *)
EffectiveMode_NoApply(arg, inWindow) ==
    IF arg = "policy" /\ request = None /\ ~inWindow THEN "check" ELSE arg

(* Bug: the window holds for requests too. *)
EffectiveMode_NoRequest(arg, inWindow) ==
    IF arg = "policy" /\ ~(policy.apply /\ inWindow) THEN "check" ELSE arg

(* A run that nothing allows to install becomes a check: notify-only, or   *)
(* outside the two-hour window (InWindow is left open).                    *)
EffectiveMode(arg, inWindow) ==
    IF arg = "policy" /\ request = None /\ ~(policy.apply /\ inWindow) THEN "check" ELSE arg

Start(arg) ==
    /\ pc = "idle"
    /\ policy.channel # "off"
    /\ \E inWindow \in BOOLEAN :
         run' = [mode |-> EffectiveMode(arg, inWindow), channel |-> policy.channel,
                 apply |-> policy.apply, requested |-> request,
                 from |-> install.stamp, target |-> install.stamp]
    /\ pc' = "resolve"
    /\ UNCHANGED <<feed, files, disk, live, history>>

TimerStarts == Start("policy")
HandStarts  == Start("now") \/ Start("check")

(* Bug: "at least as new" for "newer". *)
IsTarget_NotStrict(v) ==
    /\ v \in Offered(run.channel)
    /\ \A u \in Offered(run.channel) : u <= v
    /\ v >= run.from

(* TARGET: the highest version of the channel, when newer than what runs. *)
IsTarget(v) ==
    /\ v \in Offered(run.channel)
    /\ \A u \in Offered(run.channel) : u <= v
    /\ v > run.from

(* Bug: a check that installs nothing is recorded as refused, which erases *)
(* the memory of a rolled-back version (update.sh:258 tells the story).    *)
ResolveNothing_Records ==
    /\ pc = "resolve"
    /\ \E v \in Versions : IsTarget(v) /\ Record("refused", v)
    /\ Exit
    /\ UNCHANGED <<feed, policy, request, disk, live, history>>

(* Leave without writing anything: feed unreachable, up to date, or only   *)
(* checking.                                                               *)
ResolveNothing ==
    /\ pc = "resolve"
    /\ Exit
    /\ UNCHANGED <<feed, files, disk, live, history>>

AlreadyFailed(v) ==
    /\ run.requested = None
    /\ state.result \in {"rolled-back", "failed"}
    /\ state.to = v

(* The consent check: a request must name what the script resolved itself. *)
ResolveMismatch ==
    /\ pc = "resolve"
    /\ run.mode # "check"
    /\ \E v \in Versions :
         /\ IsTarget(v)
         /\ run.requested \notin {None, v}
         /\ Record("refused", v)
         /\ run' = [run EXCEPT !.target = v]
    /\ pc' = "clear"
    /\ Keeps(None)
    /\ UNCHANGED <<feed, policy, request, disk, live>>

ResolveInstall ==
    /\ pc = "resolve"
    /\ run.mode # "check"
    /\ \E v \in Versions :
         /\ IsTarget(v)
         /\ run.requested \in {None, v}
         /\ ~AlreadyFailed(v)
         /\ run' = [run EXCEPT !.target = v]
    /\ pc' = "fetch"
    /\ UNCHANGED <<feed, files, disk, live, history>>

(* Download and verify: every failure here is recorded and leaves the      *)
(* service, the tree and the request as they are.  What is wrong with a    *)
(* release for good is refused or, without assets, failed; a download or   *)
(* the disk's space may fail at any time.                                  *)
FetchRejected ==
    /\ pc = "fetch"
    /\ \/ Record("failed", run.target) /\ Keeps(run.target)
       \/ run.target \in Unverifiable /\ Record("refused", run.target) /\ Keeps(None)
    /\ Exit
    /\ UNCHANGED <<feed, policy, request, disk, live>>

FetchOk ==
    /\ pc = "fetch"
    /\ run.target \notin Unverifiable
    /\ Goto("stop")
    /\ UNCHANGED <<feed, files, disk, live, history>>

StopService(from, to) ==
    /\ pc = from
    /\ live' = None
    /\ Goto(to)
    /\ UNCHANGED <<feed, files, disk, history>>

StartService(from, to) ==
    /\ pc = from
    /\ live' = install
    /\ Goto(to)
    /\ UNCHANGED <<feed, files, disk, history>>

(* One rsync over /opt, in the order it writes the two files that matter. *)
WriteBin(from, to, source) ==
    /\ pc = from
    /\ install' = [install EXCEPT !.bin = source.bin]
    /\ Goto(to)
    /\ UNCHANGED <<feed, files, prev, live, history>>

WriteStamp(from, to, source) ==
    /\ pc = from
    /\ install' = [install EXCEPT !.stamp = source.stamp]
    /\ Goto(to)
    /\ UNCHANGED <<feed, files, prev, live, history>>

Stop == StopService("stop", "keep")

Keep ==
    /\ pc = "keep"
    /\ prev' = install
    /\ Goto("bin")
    /\ UNCHANGED <<feed, files, install, live, history>>

InstallBin   == WriteBin("bin", "stamp", Tree(run.target))
InstallStamp == WriteStamp("stamp", "start", Tree(run.target))
StartNew     == StartService("start", "health")

(* Bug: the wait is over, so it must be up. *)
Healthy_Assumed ==
    /\ pc = "health"
    /\ Goto("record_ok")
    /\ UNCHANGED <<feed, files, disk, live, history>>

(* The health gate: the new build answers, and with the commit installed. *)
Healthy ==
    /\ pc = "health"
    /\ live # None
    /\ live.bin \notin Broken
    /\ live.stamp = run.target
    /\ Goto("record_ok")
    /\ UNCHANGED <<feed, files, disk, live, history>>

(* ... or it did not in HEALTH_TIMEOUT seconds, which may happen to any. *)
Unhealthy ==
    /\ pc = "health"
    /\ burned' = burned \cup {run.target}
    /\ Goto("rb_stop")
    /\ UNCHANGED <<feed, files, disk, live, kept, crashes>>

RecordOk ==
    /\ pc = "record_ok"
    /\ Record("ok", run.target)
    /\ Goto("clear")
    /\ Keeps(None)
    /\ UNCHANGED <<feed, policy, request, disk, live>>

(* Bug: the rollback copies the files back and forgets the restart. *)
RollbackStart_Missing ==
    /\ pc = "rb_start"
    /\ Goto("rb_record")
    /\ UNCHANGED <<feed, files, disk, live, history>>

(* Bug: the old binary is not restored. *)
RollbackBin_Skipped ==
    /\ pc = "rb_bin"
    /\ Goto("rb_stamp")
    /\ UNCHANGED <<feed, files, disk, live, history>>

RollbackStop  == StopService("rb_stop", "rb_bin")
RollbackBin   == WriteBin("rb_bin", "rb_stamp", prev)
RollbackStamp == WriteStamp("rb_stamp", "rb_start", prev)
RollbackStart == StartService("rb_start", "rb_record")

RecordRollback ==
    /\ pc = "rb_record"
    /\ Record("rolled-back", run.target)
    /\ Goto("clear")
    /\ Keeps(run.target)
    /\ UNCHANGED <<feed, policy, request, disk, live>>

(* rm -f "$REQUEST", whatever it holds by now. *)
Clear ==
    /\ pc = "clear"
    /\ request' = None
    /\ Exit
    /\ UNCHANGED <<feed, policy, state, disk, live, history>>

ScriptStep ==
    \/ ResolveNothing \/ ResolveMismatch \/ ResolveInstall
    \/ FetchRejected \/ FetchOk
    \/ Stop \/ Keep \/ InstallBin \/ InstallStamp \/ StartNew
    \/ Healthy \/ Unhealthy \/ RecordOk
    \/ RollbackStop \/ RollbackBin \/ RollbackStamp \/ RollbackStart
    \/ RecordRollback \/ Clear

-----------------------------------------------------------------------------
(* What may happen to the script. *)

(* set -e on a failing command (a full disk under rsync), or systemd's     *)
(* TimeoutStartSec: the script is gone, and nothing else changes.          *)
Abort ==
    /\ MayAbort
    /\ pc # "idle"
    /\ Exit
    /\ UNCHANGED <<feed, files, disk, live, history>>

(* A power failure: the boot starts the enabled unit from what is in /opt. *)
PowerFails ==
    /\ crashes < MaxCrashes
    /\ crashes' = crashes + 1
    /\ Exit
    /\ live' = install
    /\ UNCHANGED <<feed, files, disk, burned, kept>>

-----------------------------------------------------------------------------
(* The environment: the publisher, and a user with the app's settings. *)

Publish ==
    /\ \E v \in Versions \ feed : feed' = feed \cup {v}
    /\ UNCHANGED <<files, disk, live, script, history>>

(* The first version stays listed: nothing as old is ever a target, and its  *)
(* absence would change nothing.                                             *)
Withdraw ==
    /\ FeedMayShrink
    /\ \E v \in feed \ {First} : feed' = feed \ {v}
    /\ UNCHANGED <<files, disk, live, script, history>>

AppAnswers == live # None /\ live.bin \notin Broken

(* requestInstall(): the newest release of the channel as the app sees it,   *)
(* when newer than the running stamp.                                        *)
Requestable ==
    IF StaleRequests THEN Versions
    ELSE {v \in Offered(policy.channel) : \A u \in Offered(policy.channel) : u <= v}

AskedFor(v) == burned' = burned \ {v} /\ kept' = IF kept = v THEN None ELSE kept

UserRequests ==
    /\ AppAnswers
    /\ \E v \in Requestable :
         /\ v > live.stamp
         /\ request' = v
         /\ AskedFor(v)
    /\ UNCHANGED <<feed, policy, state, disk, live, script, crashes>>

(* cancelInstall(), and what savePolicy() does when the channel is off. *)
UserCancels ==
    /\ AppAnswers
    /\ request # None
    /\ request' = None
    /\ UNCHANGED <<feed, policy, state, disk, live, script, history>>

UserSetsPolicy ==
    /\ AppAnswers
    /\ \E channel \in Channels, apply \in BOOLEAN :
         policy' = [channel |-> channel, apply |-> apply]
    /\ UNCHANGED <<feed, request, state, disk, live, script, history>>

Publisher == Publish \/ Withdraw
User == UserRequests \/ UserCancels \/ UserSetsPolicy

Next == TimerStarts \/ HandStarts \/ ScriptStep \/ Abort \/ PowerFails \/ Publisher \/ User

Spec == Init /\ [][Next]_vars

(* The timer fires every hour and a started script runs on.  The feed and  *)
(* the download of a release that can be verified answer again and again,  *)
(* and the disk has room, which is the machine's promise.  Nothing is      *)
(* assumed of a release that cannot be verified.                           *)
Fairness ==
    /\ SF_vars(TimerStarts)
    /\ WF_vars(ScriptStep)
    /\ SF_vars(ResolveInstall \/ ResolveMismatch)
    /\ SF_vars(FetchOk)

FairSpec == Spec /\ Fairness

-----------------------------------------------------------------------------
(* Properties. *)

Swapping == {"bin", "stamp", "start", "health", "record_ok"} \cup Recovery

(* Between runs the service is up, and it was started from exactly the tree *)
(* in /opt: a run never leaves the dashboard stopped, nor a process of one  *)
(* build over the files of another.  Power failures included.               *)
ServiceUp == pc = "idle" => live = install

(* The same as an inductive invariant: which places of the script have the  *)
(* service stopped.                                                         *)
Stopped == {"keep", "bin", "stamp", "start", "rb_bin", "rb_stamp", "rb_start"}

UpInv == pc \notin Stopped => live = install

(* Where a run is, against what is in /opt and in the rollback copy: the    *)
(* rollback copy is the whole old build from the first file replaced until  *)
(* the outcome is recorded, and outside the swap /opt is one whole build.   *)
SwapInv ==
    /\ pc \in {"idle", "clear"} => install.bin = install.stamp
    /\ pc \in {"resolve", "fetch", "stop", "keep", "bin"} => install = Tree(run.from)
    /\ pc \in {"fetch", "stop", "keep"} \cup Swapping => run.target > run.from
    /\ pc \in Swapping => prev = Tree(run.from)
    /\ pc = "stamp" => install.bin = run.target
    /\ pc \in {"start", "health", "record_ok"} => install = Tree(run.target)
    /\ pc = "record_ok" => run.target \notin Broken
    /\ pc = "rb_stamp" => install.bin = run.from
    /\ pc \in {"rb_start", "rb_record"} => install = Tree(run.from)

(* The build a recorded success names is the one the machine is committed   *)
(* to, until another attempt is recorded.                                   *)
OkInv ==
    state.result = "ok" =>
        /\ state.to \in Versions \ Broken
        /\ pc \in Swapping => run.from = state.to
        /\ pc \notin Swapping => install = Tree(state.to)

(* When the app shows "Installed v", v is what is in /opt and what runs, and *)
(* it is a build that answers (the health gate of update.sh:455).            *)
OkIsLive ==
    pc = "idle" /\ state.result = "ok" =>
        /\ install = Tree(state.to)
        /\ live = install
        /\ state.to \notin Broken

(* A request still on disk between runs is for a version newer than the one  *)
(* installed: the panel never shows an update as pending that is already     *)
(* running or older.  (A power failure after the swap leaves the request.)   *)
PendingIsNewer ==
    pc = "idle" /\ request # None /\ crashes = 0 => request > install.stamp

(* The tree is only touched for a version the user named in a request, or    *)
(* with unattended installs on, or by hand with --now; and never when a      *)
(* request named another version than the feed's.                            *)
ConsentHeld ==
    pc \in Swapping =>
        \/ run.requested = run.target
        \/ run.requested = None /\ (run.apply \/ run.mode = "now")

(* While the last attempt on record is a failure, rolled back or rejected    *)
(* before the swap, no unattended run stops the service for that version:    *)
(* whatever runs came in between and recorded nothing (a check, a feed that  *)
(* did not answer, a run cut short), unless the user asked (update.sh:283,   *)
(* and the erasure by check-only runs that update.sh:258 tells of).          *)
FailureRemembered ==
    [][pc = "stop" /\ run.requested = None /\ live' = None => run.target # kept]_vars

(* When a run records a rollback, the service runs the whole tree of the     *)
(* version the run started from ("so $FROM_VERSION was restored").           *)
RollbackRestores ==
    [][pc = "rb_record" /\ state' # state => live = Tree(run.from)]_vars

(* When a run records success the service is the released build: all of it,  *)
(* started after the swap, and one that answers.  Power failures included.   *)
OkWasVerified ==
    [][pc = "record_ok" /\ state' # state =>
         live = Tree(run.target) /\ install = live /\ run.target \notin Broken]_vars

(* A machine running a build that does not answer gets one that does.        *)
BrokenRecovers ==
    (live # None /\ live.bin \in Broken) ~> (live # None /\ live.bin \notin Broken)

(* A request for a release that can be verified does not stay pending while  *)
(* the feed offers it: it is installed, rolled back or refused, or the user  *)
(* changes it.                                                               *)
RequestServed ==
    \A v \in Versions \ Unverifiable :
        (request = v) ~> (request # v \/ v \notin Offered(policy.channel))

(* Refinement: until a run has recorded success the machine is committed to  *)
(* the version the run started from.                                         *)
Committed == IF pc \in Swapping THEN run.from ELSE install.bin

Atomic == INSTANCE AtomicUpdate WITH build <- Committed, outcome <- state

(* An update is all or nothing: the swap of the tree and the record of its   *)
(* outcome are one step of AtomicUpdate, whatever runs in between.           *)
UpdateIsAtomic == Atomic!Spec

-----------------------------------------------------------------------------
(* Not kept by the code. *)

(* "Do not reinstall a version that already failed here, unless a human      *)
(* asked again" (update.sh:283): no unattended run stops the service for a   *)
(* version that failed its health check and was not requested since.         *)
(* Refuted without faults (Updater_retry): any other recorded outcome        *)
(* replaces the one that is remembered.                                      *)
NoBlindRetry ==
    [][pc = "stop" /\ run.requested = None /\ live' = None
         => run.target \notin burned]_vars

(* Every request is served, of whatever release.  Refuted without faults: a  *)
(* release that is refused (no key, a bad signature, update.sh:301-348) is   *)
(* refused again every hour, with the request left where it is.              *)
EveryRequestServed ==
    \A v \in Versions :
        (request = v) ~> (request # v \/ v \notin Offered(policy.channel))

(* A run removes no request but the one it read when it started: what the    *)
(* user queued meanwhile "is queued. The updater installs it on its next     *)
(* run" (update.service.ts:246).  Refuted without faults: a request written  *)
(* during a run is deleted at its end.                                       *)
RequestNotLost ==
    [][pc = "clear" /\ pc' = "idle" /\ crashes' = crashes /\ request' # request =>
         request = run.requested]_vars

(* The service is never left stopped with nothing in update-state.json to    *)
(* say so ("Every exit that did something writes here", update.sh:97).       *)
(* Refuted with MayAbort.                                                    *)
StopIsRecorded == [][live = None /\ pc # "idle" /\ pc' = "idle" => state' # state]_vars

(* A build that does not answer is rolled back, with updates switched on     *)
(* throughout ("roll themselves back if it does not answer", README.md:78).  *)
(* Refuted with MaxCrashes = 1: a power failure in the health gate.          *)
BrokenRecoversWhileOn ==
    (live # None /\ live.bin \in Broken /\ policy.channel # "off")
        ~> (policy.channel = "off" \/ (live # None /\ live.bin \notin Broken))
=============================================================================
