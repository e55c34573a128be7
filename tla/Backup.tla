-------------------------------- MODULE Backup --------------------------------
(***************************************************************************)
(* apps/api/src/backup: a snapshot of the database uploaded to a           *)
(* destination on a schedule anchored to an hour of the day, or when a     *)
(* user asks, and the oldest backups deleted beyond a keep count.          *)
(*                                                                         *)
(* One destination and the schedule "daily".  Time is counted in ticks, a  *)
(* few to a day, in each of which the quarter-hourly check comes many      *)
(* times; a run ends within its tick.  A backup is known by its place in   *)
(* the order of uploads.                                                   *)
(***************************************************************************)
EXTENDS Integers, FiniteSets

CONSTANTS
    DayLen,        \* ticks of a day
    SlotHour,      \* the tick of the day chosen for the backup
    Grace,         \* ANCHOR_GRACE_MS, in ticks
    Keep,          \* how many backups to keep
    None,
    MaxTime,       \* bound: ticks
    MaxByHand,     \* bound: backups and write tests a user asks for
    MaxFailures    \* bound: commands that fail and restarts

VARIABLES
    now,                 \* the clock
    lastRun, lastSched,  \* lastRunAt and lastScheduledAt of the destination
    lastOk,              \* lastOk: what the panel says of the last attempt
    stored, torn, probes,\* what the destination has: all, and which are half a
                         \* database or write tests
    uploads,             \* how many were uploaded
    temp,                \* the temporary file: whose VACUUM wrote it, or None
    running,             \* this.running
    at,                  \* where each run is
    whole,               \* of each run: it read the whole snapshot
    doomed,              \* of each run: what prune() has still to delete
    asked, failures,
    collided,            \* history: two runs began during one await
    steady               \* history: since the last slot no due backup failed

remote   == <<stored, torn, probes, uploads>>
settings == <<lastRun, lastSched, lastOk>>
history  == <<asked, failures, collided, steady>>
vars == <<now, settings, remote, temp, running, at, whole, doomed, history>>

(* The timer's run, a user's run, and a user's write test. *)
Runs == {"timer", "hand"}
Procs == Runs \cup {"test"}

TypeOK ==
    /\ now \in 0..MaxTime
    /\ {lastRun, lastSched} \subseteq 0..MaxTime \cup {None}
    /\ lastOk \in BOOLEAN \cup {None}
    /\ uploads \in Nat
    /\ stored \subseteq 1..uploads /\ torn \subseteq 1..uploads /\ probes \subseteq 1..uploads
    /\ temp \in Runs \cup {None}
    /\ running \in BOOLEAN
    /\ at \in [Procs -> {"idle", "asked", "targets", "vacuum", "read", "put", "list", "prune",
                         "success", "anchor", "record", "remove"}]
    /\ whole \in [Runs -> BOOLEAN]
    /\ doomed \in [Runs -> SUBSET (1..uploads)]
    /\ asked \in 0..MaxByHand /\ failures \in 0..MaxFailures
    /\ collided \in BOOLEAN /\ steady \in BOOLEAN

Init ==
    /\ now = 0
    /\ lastRun = None /\ lastSched = None /\ lastOk = None
    /\ stored = {} /\ torn = {} /\ probes = {} /\ uploads = 0
    /\ temp = None
    /\ running = FALSE
    /\ at = [p \in Procs |-> "idle"]
    /\ whole = [p \in Runs |-> FALSE]
    /\ doomed = [p \in Runs |-> {}]
    /\ asked = 0 /\ failures = 0 /\ collided = FALSE /\ steady = TRUE

-----------------------------------------------------------------------------
(* schedule.ts *)

(* slotDay(): when the last slot was. *)
Slot(t) ==
    LET today == (t \div DayLen) * DayLen + SlotHour
    IN  IF t >= today THEN today ELSE today - DayLen

(* Daily: a day has gone by but for the grace, and a slot since.           *)
Passed(anchor) == now - anchor >= DayLen - Grace /\ anchor < Slot(now)

(* Bug: any backup moves the anchor. *)
IsDue_AnyAnchor == IF lastRun = None THEN TRUE ELSE Passed(lastRun)

(* The anchor is the last backup of the schedule, or any while it has none. *)
IsDue ==
    IF lastRun = None THEN TRUE ELSE Passed(IF lastSched = None THEN lastRun ELSE lastSched)

-----------------------------------------------------------------------------
Goes(p, from, to) == at[p] = from /\ at' = [at EXCEPT ![p] = to]

(* runIfDue() *)
TimerDue ==
    /\ IsDue
    /\ Goes("timer", "idle", "asked")
    /\ UNCHANGED <<now, settings, remote, temp, running, whole, doomed, history>>

(* POST /backup/run *)
HandAsks ==
    /\ asked < MaxByHand
    /\ Goes("hand", "idle", "asked")
    /\ asked' = asked + 1
    /\ UNCHANGED <<now, settings, remote, temp, running, whole, doomed, failures, collided, steady>>

(* runNow() looks at this.running, and awaits its targets before raising it. *)
Begin(p) ==
    /\ Goes(p, "asked", IF running THEN "idle" ELSE "targets")
    /\ UNCHANGED <<now, settings, remote, temp, running, whole, doomed, history>>

Claim(p) ==
    /\ Goes(p, "targets", "vacuum")
    /\ running' = TRUE
    /\ collided' = (collided \/ \E q \in Runs \ {p} : at[q] = "targets")
    /\ UNCHANGED <<now, settings, remote, temp, whole, doomed, asked, failures, steady>>

(* snapshot(): the temporary file is one for all runs, and another run's    *)
(* may be half written when it is read.                                     *)
Vacuum(p) ==
    /\ Goes(p, "vacuum", "read")
    /\ temp' = p
    /\ UNCHANGED <<now, settings, remote, running, whole, doomed, history>>

Read(p) ==
    /\ temp # None
    /\ Goes(p, "read", "put")
    /\ temp' = None
    /\ \E w \in BOOLEAN : (temp = p => w) /\ whole' = [whole EXCEPT ![p] = w]
    /\ UNCHANGED <<now, settings, remote, running, doomed, history>>

Put(p) ==
    /\ Goes(p, "put", "list")
    /\ uploads' = uploads + 1
    /\ stored' = stored \cup {uploads'}
    /\ torn' = IF whole[p] THEN torn ELSE torn \cup {uploads'}
    /\ whole' = [whole EXCEPT ![p] = FALSE]
    /\ UNCHANGED <<now, settings, probes, temp, running, doomed, history>>

Newer(b, backups) == {c \in backups : c > b}

(* Bug: the newest are deleted. *)
Beyond_Oldest(backups) == {b \in backups : Cardinality({c \in backups : c < b}) >= Keep}

(* list() has the newest first, and slice(keep) is what is too much. *)
Beyond(backups) == {b \in backups : Cardinality(Newer(b, backups)) >= Keep}

List(p) ==
    /\ Goes(p, "list", "prune")
    /\ doomed' = [doomed EXCEPT ![p] = Beyond(stored)]
    /\ UNCHANGED <<now, settings, remote, temp, running, whole, history>>

Prune(p) ==
    /\ at[p] = "prune"
    /\ IF doomed[p] = {}
       THEN Goes(p, "prune", "success") /\ UNCHANGED <<stored, doomed>>
       ELSE \E b \in doomed[p] :
              /\ \A c \in doomed[p] : c <= b
              /\ stored' = stored \ {b}
              /\ doomed' = [doomed EXCEPT ![p] = @ \ {b}]
              /\ UNCHANGED at
    /\ UNCHANGED <<now, settings, torn, probes, uploads, temp, running, whole, history>>

Success(p) ==
    /\ Goes(p, "success", IF p = "timer" THEN "anchor" ELSE "record")
    /\ lastRun' = now
    /\ UNCHANGED <<now, lastSched, lastOk, remote, temp, running, whole, doomed, history>>

Anchor(p) ==
    /\ Goes(p, "anchor", "record")
    /\ lastSched' = now
    /\ UNCHANGED <<now, lastRun, lastOk, remote, temp, running, whole, doomed, history>>

Record(p) ==
    /\ Goes(p, "record", "idle")
    /\ lastOk' = TRUE
    /\ running' = FALSE
    /\ UNCHANGED <<now, lastRun, lastSched, remote, temp, whole, doomed, history>>

-----------------------------------------------------------------------------
(* Whatever is awaited may be rejected: the failure is recorded.  A read    *)
(* that finds no file is.                                                   *)
Gone(p) == at[p] = "read" /\ temp = None

Fails(p) ==
    /\ at[p] \in {"vacuum", "read", "put", "list", "prune", "success", "anchor", "record"}
    /\ Gone(p) \/ failures < MaxFailures
    /\ failures' = IF Gone(p) THEN failures ELSE failures + 1
    /\ at' = [at EXCEPT ![p] = "idle"]
    /\ temp' = IF at[p] \in {"vacuum", "read"} THEN None ELSE temp
    /\ doomed' = [doomed EXCEPT ![p] = {}]
    /\ lastOk' = FALSE
    /\ running' = FALSE
    /\ steady' = FALSE
    /\ whole' = [whole EXCEPT ![p] = FALSE]
    /\ UNCHANGED <<now, lastRun, lastSched, remote, asked, collided>>

(* The process ends: also when the record of a failure is rejected, which   *)
(* nobody catches.                                                          *)
Restarts ==
    /\ failures < MaxFailures
    /\ failures' = failures + 1
    /\ at' = [p \in Procs |-> "idle"]
    /\ doomed' = [p \in Runs |-> {}]
    /\ whole' = [p \in Runs |-> FALSE]
    /\ running' = FALSE
    /\ steady' = FALSE
    /\ UNCHANGED <<now, settings, remote, temp, asked, collided>>

-----------------------------------------------------------------------------
(* test(): a probe is uploaded and deleted, past this.running.             *)
TestPuts ==
    /\ asked < MaxByHand
    /\ asked' = asked + 1
    /\ Goes("test", "idle", "remove")
    /\ uploads' = uploads + 1
    /\ stored' = stored \cup {uploads'}
    /\ probes' = probes \cup {uploads'}
    /\ UNCHANGED <<now, settings, torn, temp, running, whole, doomed, failures, collided, steady>>

TestRemoves ==
    /\ Goes("test", "remove", "idle")
    /\ stored' = stored \ {b \in probes : \A c \in probes : c <= b}
    /\ UNCHANGED <<now, settings, torn, probes, uploads, temp, running, whole, doomed, history>>

(* Its list() or its remove() is rejected, and the probe stays.            *)
TestFails ==
    /\ failures < MaxFailures
    /\ failures' = failures + 1
    /\ Goes("test", "remove", "idle")
    /\ UNCHANGED <<now, settings, remote, temp, running, whole, doomed, asked, collided, steady>>

-----------------------------------------------------------------------------
(* A tick goes by with a backup due only if the box was off or its runs    *)
(* failed.  steady begins anew with each slot.                             *)
Advance ==
    /\ now < MaxTime
    /\ \A p \in Procs : at[p] = "idle"
    /\ now' = now + 1
    /\ steady' = (Slot(now') = now' \/ (steady /\ ~IsDue))
    /\ UNCHANGED <<settings, remote, temp, running, at, whole, doomed, asked, failures, collided>>

(* The bound on time is reached. *)
Ended == now = MaxTime /\ UNCHANGED vars

RunStep(p) ==
    \/ Begin(p) \/ Claim(p) \/ Vacuum(p) \/ Read(p) \/ Put(p) \/ List(p) \/ Prune(p)
    \/ Success(p) \/ Anchor(p) \/ Record(p)

Next ==
    \/ TimerDue \/ HandAsks \/ TestPuts \/ TestRemoves \/ TestFails
    \/ \E p \in Runs : RunStep(p) \/ Fails(p)
    \/ Restarts \/ Advance \/ Ended

Spec == Init /\ [][Next]_vars

-----------------------------------------------------------------------------
(* Properties. *)

(* Retention: whatever runs overlap, fail or are cut short, the last Keep    *)
(* uploads are at the destination, but for write tests that cleaned up.      *)
NewestKept == \A b \in (1..uploads) \ probes : uploads - b < Keep => b \in stored

(* A backup is a whole database unless two runs passed the guard together.   *)
BackupsAreWhole == ~collided => torn = {}

(* "Daily and longer are anchored to a chosen hour": however late a backup   *)
(* was and whatever a user has run by hand, each slot gets its own before    *)
(* the next, if no run failed and none was missed.                           *)
SlotWasServed ==
    steady /\ ~IsDue /\ lastSched # None /\ now' # now /\ Slot(now') = now'
        => lastSched >= Slot(now)

EverySlotServed == [][SlotWasServed]_vars

-----------------------------------------------------------------------------
(* Not kept by the code. *)

(* this.running keeps two runs apart.  Refuted: it is raised after an await. *)
NeverTorn == torn = {}

(* A write test is undone and takes no backup's place.  Refuted: prune()     *)
(* counts its probe among the backups to keep.                               *)
TestsTakeNoPlace ==
    \A b \in (1..uploads) \ probes :
        Cardinality(Newer(b, (1..uploads) \ probes)) < Keep => b \in stored
=============================================================================
