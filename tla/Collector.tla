------------------------------ MODULE Collector ------------------------------
(***************************************************************************)
(* apps/api/src/collector/collector.service.ts: the loop that asks the     *)
(* solar gateway for a reading, stores it and hands it on, with the        *)
(* gateway's moves on the network, the failures of the database, and the   *)
(* systemd watchdog that restarts a loop which no longer turns.            *)
(*                                                                         *)
(* One poll runs at a time (this.polling) and is a sequence of awaits, so  *)
(* it is the program counter pc; settings may change at any of them.  A    *)
(* reading is its timestamp.  What the figures in it are worth is          *)
(* DayEnergy's subject, and what alerts make of it is Alerts'.             *)
(***************************************************************************)
EXTENDS Integers

CONSTANTS
    Hosts,        \* addresses on the network
    Subnets,      \* the subnets they lie in
    Configured,   \* the address in the settings at first, or None
    MaxTime,      \* bound: the last timestamp
    Threshold,    \* REDISCOVERY_FAILURE_THRESHOLD
    Window,       \* WATCHDOG_SEC, in poll intervals
    MaxMoves,     \* bound: how often DHCP moves the gateway
    DbMayFail,    \* may a write be rejected?
    MayHang,      \* may a poll never return?
    MayRestart,   \* may the machine restart the app?
    UserActs,     \* does the user change the gateway's address?
    PingMayFail,  \* may systemd-notify fail?
    None

Tables == {"dtu", "inverter", "port"}
Times  == 1..MaxTime

ASSUME HostsAssumption == Configured \in Hosts \cup {None} /\ None \notin Hosts
ASSUME SubnetsAssumption ==
    /\ UNION Subnets = Hosts
    /\ \A net, other \in Subnets : net \cap other # {} => net = other
ASSUME BoundsAssumption == {MaxTime, Threshold, Window} \subseteq Nat \ {0} /\ MaxMoves \in Nat
ASSUME FlagsAssumption == {DbMayFail, MayHang, MayRestart, UserActs, PingMayFail} \subseteq BOOLEAN

VARIABLES
    address,   \* where the gateway answers
    reading,   \* the reading it serves
    moves,     \* how often it moved
    setting,   \* the row dtuHost
    stored,    \* rows by table and timestamp: 0, 1, or 2 for more
    pc,        \* where the poll is
    host,      \* this.client's host, None without a client
    found,     \* rediscover(): the host the scan started from, None outside it
    snapshot,  \* this.lastSnapshot
    persisted, \* this.lastPersistedTimestamp
    failures,  \* this.consecutiveFailures, up to Threshold
    outage,    \* this.outageNotified
    cooling,   \* inside REDISCOVERY_COOLDOWN_MS
    unavailable, \* watchdog.ts: systemd-notify failed, so it is not called again
    missed,    \* history: fetches failed in a row, up to Threshold
    clean,     \* history: no write was rejected, and the process did not end
    quiet      \* poll intervals since systemd last heard of the loop

network == <<address, reading, moves>>
db      == <<setting, stored>>
memory  == <<host, found, snapshot, persisted, failures, outage, cooling>>
vars    == <<network, db, pc, memory, unavailable, missed, clean, quiet>>

Places == {"idle", "fetch", "hung", "reconnected", "persist", "dtu", "inverter", "port",
           "alerts", "failed", "outage", "rediscover", "scan", "moved", "done"}
MaybeTime == {0} \cup Times
MaybeHost == Hosts \cup {None}

TypeOK ==
    /\ address \in Hosts
    /\ reading \in Times
    /\ moves \in 0..MaxMoves
    /\ setting \in MaybeHost
    /\ stored \in [Tables -> [Times -> 0..2]]
    /\ pc \in Places
    /\ host \in MaybeHost
    /\ host = None => pc = "idle"
    /\ found \in MaybeHost
    /\ pc = "scan" <=> found # None
    /\ snapshot \in MaybeTime
    /\ persisted \in MaybeTime
    /\ failures \in 0..Threshold
    /\ outage \in BOOLEAN
    /\ cooling \in BOOLEAN
    /\ unavailable \in BOOLEAN
    /\ missed \in 0..Threshold
    /\ clean \in BOOLEAN
    /\ quiet \in 0..Window

Booted(at) == IF at = None THEN "idle" ELSE "fetch"

(* onModuleInit(), and startPolling() when an address is known: the first  *)
(* poll starts at once.  A gateway that is elsewhere by then has moved.    *)
Init ==
    /\ address \in IF Configured = None THEN Hosts ELSE {Configured}
    /\ reading = 1
    /\ moves = 0
    /\ setting = Configured
    /\ stored = [table \in Tables |-> [t \in Times |-> 0]]
    /\ pc = Booted(Configured)
    /\ host = Configured
    /\ found = None
    /\ snapshot = 0
    /\ persisted = 0
    /\ failures = 0
    /\ outage = FALSE
    /\ cooling = FALSE
    /\ unavailable = FALSE
    /\ missed = 0
    /\ clean = TRUE
    /\ quiet = 0

(* The process ends, by whatever cause, and systemd starts another.        *)
Reborn ==
    /\ host' = setting
    /\ pc' = Booted(setting)
    /\ found' = None
    /\ snapshot' = 0
    /\ persisted' = 0
    /\ failures' = 0
    /\ outage' = FALSE
    /\ cooling' = FALSE
    /\ unavailable' = FALSE
    /\ missed' = 0
    /\ clean' = FALSE
    /\ quiet' = 0
    /\ UNCHANGED <<network, db>>

UpTo(bound, n) == IF n > bound THEN bound ELSE n

-----------------------------------------------------------------------------
(* One poll. *)

(* Bug: a reading obtained does not end the row of failures.               *)
FetchOk_KeepsCount ==
    /\ pc = "fetch"
    /\ host = address
    /\ snapshot' = reading
    /\ missed' = 0
    /\ outage' = FALSE
    /\ pc' = IF outage THEN "reconnected" ELSE "persist"
    /\ UNCHANGED <<network, db, host, found, persisted, failures, cooling, unavailable, clean,
                   quiet>>

(* refreshInfo() before it swallows its own failures.                      *)
FetchOk ==
    /\ pc = "fetch"
    /\ host = address
    /\ snapshot' = reading
    /\ failures' = 0
    /\ missed' = 0
    /\ outage' = FALSE
    /\ pc' = IF outage THEN "reconnected" ELSE "persist"
    /\ UNCHANGED <<network, db, host, found, persisted, cooling, unavailable, clean, quiet>>

FetchFails ==
    /\ pc = "fetch"
    /\ missed' = UpTo(Threshold, missed + 1)
    /\ pc' = "failed"
    /\ UNCHANGED <<network, db, memory, unavailable, clean, quiet>>

FetchHangs ==
    /\ MayHang
    /\ pc = "fetch"
    /\ pc' = "hung"
    /\ UNCHANGED <<network, db, memory, unavailable, missed, clean, quiet>>

Goto(from, to) ==
    /\ pc = from
    /\ pc' = to
    /\ UNCHANGED <<network, db, memory, unavailable, missed, clean, quiet>>

(* notifier.send() of the good news.                                       *)
Reconnected == Goto("reconnected", "persist")

(* Bug: every reading is taken for new.                                    *)
Persist_Always == Goto("persist", "dtu")

Persist == Goto("persist", IF snapshot = persisted THEN "alerts" ELSE "dtu")

NextPlace == [dtu |-> "inverter", inverter |-> "port", port |-> "alerts"]

(* Bug: remembered with the first row, before the others are written.      *)
Insert_Early(table) ==
    /\ pc = table
    /\ stored' = [stored EXCEPT ![table][snapshot] = UpTo(2, @ + 1)]
    /\ persisted' = IF table = "dtu" THEN snapshot ELSE persisted
    /\ pc' = NextPlace[table]
    /\ UNCHANGED <<network, setting, host, found, snapshot, failures, outage, cooling,
                   unavailable, missed, clean, quiet>>

(* persist(): three writes, and only then the timestamp is remembered.     *)
Insert(table) ==
    /\ pc = table
    /\ stored' = [stored EXCEPT ![table][snapshot] = UpTo(2, @ + 1)]
    /\ persisted' = IF table = "port" THEN snapshot ELSE persisted
    /\ pc' = NextPlace[table]
    /\ UNCHANGED <<network, setting, host, found, snapshot, failures, outage, cooling,
                   unavailable, missed, clean, quiet>>

(* alerts.processSnapshot() and the MQTT publication.                      *)
HandOn == Goto("alerts", "done")

(* A write is rejected: SQLITE_BUSY, a full disk.                          *)
WriteFails ==
    /\ DbMayFail
    /\ \/ pc \in Tables \cup {"reconnected", "alerts"}
       \/ pc = "persist" /\ snapshot # persisted
    /\ pc' = "failed"
    /\ clean' = FALSE
    /\ UNCHANGED <<network, db, memory, unavailable, missed, quiet>>

(* Bug: one scan per outage.                                               *)
Failed_ScansOnce ==
    /\ pc = "failed"
    /\ failures' = UpTo(Threshold, failures + 1)
    /\ IF failures + 1 < Threshold
         THEN pc' = "done" /\ UNCHANGED outage
         ELSE pc' = (IF outage THEN "done" ELSE "outage") /\ outage' = TRUE
    /\ UNCHANGED <<network, db, host, found, snapshot, persisted, cooling, unavailable, missed,
                   clean, quiet>>

(* The catch block up to its first await.                                  *)
Failed ==
    /\ pc = "failed"
    /\ failures' = UpTo(Threshold, failures + 1)
    /\ IF failures + 1 < Threshold
         THEN pc' = "done" /\ UNCHANGED outage
         ELSE pc' = (IF outage THEN "rediscover" ELSE "outage") /\ outage' = TRUE
    /\ UNCHANGED <<network, db, host, found, snapshot, persisted, cooling, unavailable, missed,
                   clean, quiet>>

OutageTold == Goto("outage", "rediscover")

(* A write rejected inside the catch block rejects poll() itself, which    *)
(* nobody awaits: the process ends on an unhandled rejection.              *)
Crash == DbMayFail /\ pc \in {"outage", "moved"} /\ Reborn

(* rediscover(): the serial comes from the last reading (DTU_SERIAL unset).*)
Rediscover ==
    /\ pc = "rediscover"
    /\ IF snapshot = 0 \/ cooling
         THEN pc' = "done" /\ UNCHANGED <<found, cooling>>
         ELSE pc' = "scan" /\ found' = host /\ cooling' = TRUE
    /\ UNCHANGED <<network, db, host, snapshot, persisted, failures, outage, unavailable, missed,
                   clean, quiet>>

(* discoverDtuHost() asks the other addresses of subnetPrefixOf(host).     *)
Near(a, b) == \E net \in Subnets : {a, b} \subseteq net

ScanFinds ==
    /\ pc = "scan"
    /\ Near(found, address)
    /\ found' = None
    /\ IF address = found
         THEN failures' = 0 /\ pc' = "done" /\ UNCHANGED host
         ELSE host' = address /\ pc' = "moved" /\ UNCHANGED failures
    /\ UNCHANGED <<network, db, snapshot, persisted, outage, cooling, unavailable, missed, clean,
                   quiet>>

ScanFails ==
    /\ pc = "scan"
    /\ found' = None
    /\ pc' = "done"
    /\ UNCHANGED <<network, db, host, snapshot, persisted, failures, outage, cooling,
                   unavailable, missed, clean, quiet>>

(* The gateway's row has its new address. *)
Moved ==
    /\ pc = "moved"
    /\ failures' = 0
    /\ pc' = "done"
    /\ UNCHANGED <<network, db, host, found, snapshot, persisted, outage, cooling, unavailable,
                   missed, clean, quiet>>

(* Bug: the ping comes with a stored reading, not with every cycle.        *)
PollEnds_OnSuccess ==
    /\ pc = "done"
    /\ pc' = "idle"
    /\ quiet' = IF unavailable \/ failures > 0 THEN quiet ELSE 0
    /\ UNCHANGED <<network, db, memory, unavailable, missed, clean>>

(* finally: "a failed poll still counts as the loop turning", and          *)
(* pingWatchdog() says so, unless it has failed before.                    *)
PollEnds ==
    /\ pc = "done"
    /\ pc' = "idle"
    /\ quiet' = IF unavailable THEN quiet ELSE 0
    /\ UNCHANGED <<network, db, memory, unavailable, missed, clean>>

(* systemd-notify fails: not heard, and not called again by this process.  *)
PingFails ==
    /\ PingMayFail
    /\ ~unavailable
    /\ pc = "done"
    /\ pc' = "idle"
    /\ unavailable' = TRUE
    /\ UNCHANGED <<network, db, memory, missed, clean, quiet>>

PollStep ==
    \/ FetchOk \/ FetchFails \/ Reconnected \/ Persist
    \/ \E table \in Tables : Insert(table)
    \/ HandOn \/ WriteFails \/ Failed \/ OutageTold \/ Crash
    \/ Rediscover \/ ScanFinds \/ ScanFails \/ Moved \/ PollEnds \/ PingFails

-----------------------------------------------------------------------------
(* Time, the machine, the network and the user. *)

(* A poll interval: a cycle that ends does so within one.                  *)
Tick ==
    /\ pc \in {"idle", "hung"}
    /\ quiet < Window
    /\ quiet' = quiet + 1
    /\ pc' = IF pc = "idle" THEN Booted(host) ELSE pc
    /\ UNCHANGED <<network, db, memory, unavailable, missed, clean>>

WatchdogFires == quiet = Window /\ Reborn

Restart == MayRestart /\ Reborn

CooldownEnds ==
    /\ cooling
    /\ cooling' = FALSE
    /\ UNCHANGED <<network, db, pc, host, found, snapshot, persisted, failures, outage,
                   unavailable, missed, clean, quiet>>

NewReading ==
    /\ reading < MaxTime
    /\ reading' = reading + 1
    /\ UNCHANGED <<address, moves, db, pc, memory, unavailable, missed, clean, quiet>>

GatewayMoves ==
    /\ moves < MaxMoves
    /\ moves' = moves + 1
    /\ \E other \in Hosts \ {address} : address' = other
    /\ UNCHANGED <<reading, db, pc, memory, unavailable, missed, clean, quiet>>

(* applyHost(), with the settings row written just before: a running loop  *)
(* takes the address over at any of its awaits.                            *)
ApplyHost ==
    /\ UserActs
    /\ \E h \in Hosts :
         /\ setting' = h
         /\ host' = h
    /\ pc' = IF host = None THEN "fetch" ELSE pc
    /\ UNCHANGED <<network, stored, found, snapshot, persisted, failures, outage, cooling,
                   unavailable, missed, clean, quiet>>

Next ==
    \/ PollStep \/ FetchHangs
    \/ Tick \/ WatchdogFires \/ Restart \/ CooldownEnds
    \/ NewReading \/ GatewayMoves \/ ApplyHost

Spec == Init /\ [][Next]_vars

(* Timers fire, awaited calls answer, and a gateway that is there answers  *)
(* a fetch and a scan at last.                                             *)
Fairness ==
    /\ WF_vars(PollStep)
    /\ WF_vars(Tick)
    /\ WF_vars(WatchdogFires)
    /\ SF_vars(CooldownEnds)
    /\ SF_vars(FetchOk)
    /\ SF_vars(ScanFinds)

FairSpec == Spec /\ Fairness

-----------------------------------------------------------------------------
(* Properties. *)

(* "The DTU may serve the same reading twice in a row; only new timestamps   *)
(* are stored" (collector.service.ts:198): while no write was rejected and   *)
(* the process lived, whatever else happened.                                *)
StoredOnce == clean => \A table \in Tables, t \in Times : stored[table][t] <= 1

(* A reading remembered as stored is stored whole, in all three tables: the  *)
(* check for a repeated reading never hides one that was half written.       *)
NoHalfReading ==
    persisted # 0 => \A table \in Tables : stored[table][persisted] >= 1

(* The outage push tells the truth ("Collector cannot reach the DTU"): a     *)
(* failing database or alert rule does not add up to one.  Only the first    *)
(* failure of the row may have been of another kind.                         *)
OutageIsReal == [][outage' /\ ~outage => missed >= Threshold - 1]_vars

(* The watchdog only ever expires on a cycle that never returned             *)
(* (watchdog.ts:7), and no row of failing polls, however long, is one; unless *)
(* this process has given up on systemd-notify, which failed it once.        *)
OnlyHungExpires == quiet = Window => pc = "hung" \/ unavailable

(* A loop that hangs does not stay so.                                       *)
HungRecovers == pc = "hung" ~> pc # "hung"

(* "After sustained failures, re-scan the subnet for the DTU's serial"       *)
(* (collector.service.ts:323): a gateway this process has read and that then *)
(* moved within the subnet of the address in use is found again, unless the  *)
(* process ends, or one of the two leaves that subnet, first.                *)
GatewayFound ==
    (snapshot # 0 /\ host # address /\ Near(host, address))
        ~> (host = address \/ ~Near(host, address) \/ snapshot = 0)

-----------------------------------------------------------------------------
(* What makes them inductive: where the poll is, against the rows written    *)
(* and the two counts of failures.                                           *)

Answered == {"reconnected", "persist", "dtu", "inverter", "port"}

(* The tables a poll at some place has the new reading in. *)
Written(place) ==
    CASE place = "inverter" -> {"dtu"}
      [] place = "port"     -> {"dtu", "inverter"}
      [] OTHER              -> {}

WriteInv ==
    /\ pc \in Answered => snapshot # 0
    /\ \A table \in Written(pc) : stored[table][snapshot] >= 1
    /\ NoHalfReading

OnceInv ==
    clean =>
        /\ persisted <= snapshot
        /\ snapshot <= reading
        /\ pc \notin Answered => snapshot = persisted
        /\ pc \in Tables => snapshot # persisted
        /\ \A table \in Tables, t \in Times :
              t > persisted /\ ~(t = snapshot /\ table \in Written(pc)) => stored[table][t] = 0
        /\ StoredOnce

CountInv ==
    /\ pc \in Answered \cup {"alerts"} => failures = 0
    /\ pc = "failed" => failures <= missed
    /\ failures <= missed + 1

TurnInv ==
    /\ setting # None /\ host # None
    /\ pc = "idle" /\ ~unavailable => quiet = 0
    /\ pc # "hung" /\ ~unavailable => quiet <= 1

-----------------------------------------------------------------------------
(* Not kept by the code. *)

(* No reading is ever stored twice: refuted with DbMayFail, the first table  *)
(* having the row when the second's insert is rejected.                      *)
NeverStoredTwice == \A table \in Tables, t \in Times : stored[table][t] <= 1

(* A restart does not lose a gateway that moved: refuted with MayRestart, as *)
(* the serial is only known from the last reading.                           *)
GatewayFoundAgain ==
    (snapshot # 0 /\ host # address /\ Near(host, address))
        ~> (host = address \/ ~Near(host, address))

(* A gateway that moved to another subnet is found: refuted with two subnets, *)
(* the scan being of the subnet of the address in use.                       *)
GatewayFoundAnywhere ==
    (snapshot # 0 /\ host # address) ~> (host = address \/ snapshot = 0)

(* The watchdog expires on a cycle that never returned, and on no other: a    *)
(* loop that turns is killed after one failure of systemd-notify, refuted with *)
(* PingMayFail.                                                              *)
NeverKilledTurning == quiet = Window => pc = "hung"
=============================================================================
