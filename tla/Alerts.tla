-------------------------------- MODULE Alerts --------------------------------
(***************************************************************************)
(* apps/api/src/alerts: conditions come and go with every snapshot; an     *)
(* alert opens when one has held for some polls and closes when it has     *)
(* been away for some (alert-policy.ts), and pushes are rationed.  The     *)
(* alert rows are in the database; the streaks, the cooldown, what was     *)
(* announced and the digest are in memory.                                 *)
(*                                                                         *)
(* One processSnapshot() runs at a time, called by the collector's poll; a *)
(* rejected write or push ends it where it is.  The conditions are one     *)
(* fleet's, of one type, so that one run's openings fold into one push.    *)
(***************************************************************************)
EXTENDS Integers

CONSTANTS
    Conditions,   \* type|subject keys
    Serious,      \* those of severity "serious"; the others are warnings
    Confirm,      \* CONFIRM_POLLS
    Clear,        \* CLEAR_POLLS
    MaxFailures,  \* bound: how many writes are rejected
    MaxRestarts   \* bound: how often the app restarts

ASSUME ConditionsAssumption == Serious \subseteq Conditions
ASSUME BoundsAssumption == {Confirm, Clear} \subseteq Nat \ {0} /\ {MaxFailures, MaxRestarts} \subseteq Nat

VARIABLES
    active,    \* conditions that hold now
    rows,      \* open alerts in the database
    loaded,    \* this.openAlerts is loaded
    open,      \* this.openAlerts
    streak,    \* the debouncer's streaks
    cool,      \* pushed within RENOTIFY_COOLDOWN_MS
    notified,  \* this.notifiedOpen
    digest,    \* this.digest
    wrapping,  \* the digest the daily summary has taken and is sending
    pc,        \* where processSnapshot() is
    toOpen, toClose, opened, resolved,   \* its variables
    held,      \* history: evaluations in a row with (+) or without (-)
    raised,    \* history: alerts whose opening is in the notification table
    unraised,  \* history: those whose row there was rejected
    reached,   \* history: those whose push the webhook took
    owed,      \* history: digested, and not sent since
    failures, restarts

memory  == <<loaded, open, streak, cool, notified, digest, wrapping>>
locals  == <<toOpen, toClose, opened, resolved>>
pushes  == <<raised, unraised, reached>>
history == <<held, pushes, owed>>
bounds  == <<failures, restarts>>
vars    == <<active, rows, memory, pc, locals, history, bounds>>

Places == {"idle", "create", "push", "sending", "close", "resolve"}
Streaks == [known : BOOLEAN, holding : 0..Confirm, clearing : 0..(Clear - 1), confirmed : BOOLEAN]
NoStreak == [known |-> FALSE, holding |-> 0, clearing |-> 0, confirmed |-> FALSE]

TypeOK ==
    /\ {active, rows, open, cool, notified, digest, wrapping} \subseteq SUBSET Conditions
    /\ {toOpen, toClose, opened, resolved} \subseteq SUBSET Conditions
    /\ {raised, unraised, reached, owed} \subseteq SUBSET Conditions
    /\ loaded \in BOOLEAN
    /\ streak \in [Conditions -> Streaks]
    /\ held \in [Conditions -> (-Clear)..Confirm]
    /\ pc \in Places
    /\ failures \in 0..MaxFailures
    /\ restarts \in 0..MaxRestarts

Init ==
    /\ active = {}
    /\ rows = {}
    /\ loaded = FALSE
    /\ open = {}
    /\ streak = [c \in Conditions |-> NoStreak]
    /\ cool = {}
    /\ notified = {}
    /\ digest = {}
    /\ wrapping = {}
    /\ pc = "idle"
    /\ toOpen = {}
    /\ toClose = {}
    /\ opened = {}
    /\ resolved = {}
    /\ held = [c \in Conditions |-> 0]
    /\ raised = {}
    /\ unraised = {}
    /\ reached = {}
    /\ owed = {}
    /\ failures = 0
    /\ restarts = 0

UpTo(bound, n) == IF n > bound THEN bound ELSE n

-----------------------------------------------------------------------------
(* ConditionDebouncer *)

(* Bug: an interrupted streak goes on where it was.                        *)
Stepped_KeepsHolding(s, holds) ==
    LET holding  == IF holds THEN UpTo(Confirm, s.holding + 1) ELSE s.holding
        clearing == IF holds THEN 0 ELSE s.clearing + 1
    IN  IF ~holds /\ (~s.known \/ clearing >= Clear) THEN NoStreak
        ELSE [known |-> TRUE, holding |-> holding, clearing |-> clearing,
              confirmed |-> s.confirmed \/ holding >= Confirm]

(* step(), for one condition.  A streak not known is not in the map.       *)
Stepped(s, holds) ==
    LET holding  == IF holds THEN UpTo(Confirm, s.holding + 1) ELSE 0
        clearing == IF holds THEN 0 ELSE s.clearing + 1
    IN  IF ~holds /\ (~s.known \/ clearing >= Clear) THEN NoStreak
        ELSE [known |-> TRUE, holding |-> holding, clearing |-> clearing,
              confirmed |-> s.confirmed \/ holding >= Confirm]

(* seed(): open alerts count as confirmed.                                 *)
Seeded(s, isOpen) ==
    IF isOpen /\ ~s.known
      THEN [known |-> TRUE, holding |-> Confirm, clearing |-> 0, confirmed |-> TRUE] ELSE s

-----------------------------------------------------------------------------
(* processSnapshot() *)

(* Bug: the streaks are not seeded.                                        *)
Load_NoSeed ==
    /\ pc = "idle"
    /\ ~loaded
    /\ loaded' = TRUE
    /\ open' = rows
    /\ UNCHANGED <<active, rows, streak, cool, notified, digest, wrapping, pc, locals,
                   history, bounds>>

(* loadOpenAlerts() *)
Load ==
    /\ pc = "idle"
    /\ ~loaded
    /\ loaded' = TRUE
    /\ open' = rows
    /\ streak' = [c \in Conditions |-> Seeded(streak[c], c \in rows)]
    /\ UNCHANGED <<active, rows, cool, notified, digest, wrapping, pc, locals, history, bounds>>

(* The history of an alert ends with it.                                   *)
Forget ==
    /\ raised' = raised \cap rows
    /\ unraised' = unraised \cap rows
    /\ reached' = reached \cap rows

(* The rules' conditions go through the debouncer.                         *)
Evaluate ==
    /\ pc = "idle"
    /\ loaded
    /\ streak' = [c \in Conditions |-> Stepped(streak[c], c \in active)]
    /\ toOpen' = {c \in Conditions : streak'[c].confirmed /\ ~streak[c].confirmed}
    /\ toClose' = {c \in Conditions : streak[c].confirmed /\ ~streak'[c].known}
    /\ held' = [c \in Conditions |->
                  IF c \in active THEN IF held[c] < 0 THEN 1 ELSE UpTo(Confirm, held[c] + 1)
                  ELSE IF held[c] > 0 THEN -1 ELSE -UpTo(Clear, 1 - held[c])]
    /\ Forget
    /\ pc' = "create"
    /\ UNCHANGED <<active, rows, loaded, open, cool, notified, digest, wrapping, opened,
                   resolved, owed, bounds>>

(* Bug: the map is told before the table is.                               *)
Create_MemoryFirst ==
    /\ pc = "create"
    /\ toOpen \ open # {}
    /\ \E c \in toOpen \ open :
         /\ open' = open \cup {c}
         /\ \/ rows' = rows \cup {c} /\ opened' = opened \cup {c}
            \/ failures < MaxFailures /\ UNCHANGED <<rows, opened>>
         /\ toOpen' = toOpen \ {c}
    /\ UNCHANGED <<active, loaded, streak, cool, notified, digest, wrapping, pc, toClose,
                   resolved, history, bounds>>

Create ==
    /\ pc = "create"
    /\ \E c \in toOpen \ open :
         /\ rows' = rows \cup {c}
         /\ open' = open \cup {c}
         /\ opened' = opened \cup {c}
         /\ toOpen' = toOpen \ {c}
    /\ UNCHANGED <<active, loaded, streak, cool, notified, digest, wrapping, pc, toClose,
                   resolved, history, bounds>>

Created ==
    /\ pc = "create"
    /\ toOpen \subseteq open
    /\ toOpen' = {}
    /\ pc' = IF opened = {} THEN "close" ELSE "push"
    /\ UNCHANGED <<active, rows, memory, toClose, opened, resolved, history, bounds>>

(* routeOpen(), for the openings folded into one: warnings wait for the    *)
(* digest, and a push needs somebody who was not pushed lately.            *)
Digest ==
    /\ pc = "push"
    /\ opened \cap Serious = {}
    /\ digest' = digest \cup opened
    /\ owed' = owed \cup opened
    /\ opened' = {}
    /\ pc' = "close"
    /\ UNCHANGED <<active, rows, loaded, open, streak, cool, notified, wrapping, toOpen,
                   toClose, resolved, held, pushes, bounds>>

Suppress ==
    /\ pc = "push"
    /\ opened \cap Serious # {}
    /\ opened \subseteq cool
    /\ opened' = {}
    /\ pc' = "close"
    /\ UNCHANGED <<active, rows, memory, toOpen, toClose, resolved, history, bounds>>

Push ==
    /\ pc = "push"
    /\ opened \cap Serious # {}
    /\ ~(opened \subseteq cool)
    /\ cool' = cool \cup opened
    /\ notified' = notified \cup opened
    /\ pc' = "sending"
    /\ UNCHANGED <<active, rows, loaded, open, streak, digest, wrapping, locals, history, bounds>>

(* send() records the text, and then delivers it: no webhook, one that does *)
(* not answer, and one that refuses are all the same to its caller.        *)
Sent ==
    /\ pc = "sending"
    /\ raised' = raised \cup opened
    /\ \E delivered \in {{}, opened} : reached' = reached \cup delivered
    /\ opened' = {}
    /\ pc' = "close"
    /\ UNCHANGED <<active, rows, memory, toOpen, toClose, resolved, held, unraised, owed, bounds>>

(* Bug: every closing is announced.                                        *)
Close_Announced ==
    /\ pc = "close"
    /\ \E c \in toClose \cap open :
         /\ rows' = rows \ {c}
         /\ open' = open \ {c}
         /\ resolved' = resolved \cup {c}
         /\ notified' = notified \ {c}
         /\ toClose' = toClose \ {c}
    /\ UNCHANGED <<active, loaded, streak, cool, digest, wrapping, pc, toOpen, opened,
                   history, bounds>>

Close ==
    /\ pc = "close"
    /\ \E c \in toClose \cap open :
         /\ rows' = rows \ {c}
         /\ open' = open \ {c}
         /\ resolved' = IF c \in notified THEN resolved \cup {c} ELSE resolved
         /\ notified' = notified \ {c}
         /\ toClose' = toClose \ {c}
    /\ UNCHANGED <<active, loaded, streak, cool, digest, wrapping, pc, toOpen, opened,
                   history, bounds>>

Closed ==
    /\ pc = "close"
    /\ toClose \cap open = {}
    /\ toClose' = {}
    /\ pc' = IF resolved = {} THEN "idle" ELSE "resolve"
    /\ UNCHANGED <<active, rows, memory, toOpen, opened, resolved, history, bounds>>

Resolved ==
    /\ pc = "resolve"
    /\ resolved' = {}
    /\ pc' = "idle"
    /\ UNCHANGED <<active, rows, memory, toOpen, toClose, opened, history, bounds>>

(* A write is rejected: processSnapshot() throws, and the poll counts a    *)
(* failure.  send() begins with its row and goes on to read the settings:  *)
(* it may throw with the row written or without.                           *)
Writing ==
    \/ pc = "create" /\ ~(toOpen \subseteq open)
    \/ pc = "create" /\ opened = {} /\ active \cap open # {}   \* new wording
    \/ pc \in {"sending", "resolve"}
    \/ pc = "close" /\ toClose \cap open # {}

WriteFails ==
    /\ failures < MaxFailures
    /\ Writing
    /\ failures' = failures + 1
    /\ IF pc = "sending"
         THEN \E recorded \in {{}, opened} :
                /\ raised' = raised \cup recorded
                /\ unraised' = unraised \cup (opened \ recorded)
         ELSE UNCHANGED <<raised, unraised>>
    /\ pc' = "idle"
    /\ toOpen' = {}
    /\ toClose' = {}
    /\ opened' = {}
    /\ resolved' = {}
    /\ UNCHANGED <<active, rows, memory, held, reached, owed, restarts>>

Process ==
    \/ Load \/ Evaluate
    \/ Create \/ Created
    \/ Digest \/ Suppress \/ Push \/ Sent
    \/ Close \/ Closed \/ Resolved

-----------------------------------------------------------------------------
(* The daily summary takes the digest, then sends it with its own text.    *)

TakeDigest ==
    /\ wrapping = {}
    /\ digest # {}
    /\ wrapping' = digest
    /\ digest' = {}
    /\ UNCHANGED <<active, rows, loaded, open, streak, cool, notified, pc, locals, history, bounds>>

SummarySent ==
    /\ wrapping # {}
    /\ wrapping' = {}
    /\ owed' = owed \ wrapping
    /\ UNCHANGED <<active, rows, loaded, open, streak, cool, notified, digest, pc, locals,
                   held, pushes, bounds>>

SummaryFails ==
    /\ failures < MaxFailures
    /\ wrapping # {}
    /\ wrapping' = {}
    /\ failures' = failures + 1
    /\ UNCHANGED <<active, rows, loaded, open, streak, cool, notified, digest, pc, locals,
                   history, restarts>>

-----------------------------------------------------------------------------
(* The site, the clock and the machine. *)

ConditionsChange ==
    /\ pc = "idle"
    /\ \E now \in SUBSET Conditions : active' = now
    /\ UNCHANGED <<rows, memory, pc, locals, history, bounds>>

CooldownEnds ==
    /\ \E c \in cool : cool' = cool \ {c}
    /\ UNCHANGED <<active, rows, loaded, open, streak, notified, digest, wrapping, pc, locals,
                   history, bounds>>

Restart ==
    /\ restarts < MaxRestarts
    /\ restarts' = restarts + 1
    /\ loaded' = FALSE
    /\ open' = {}
    /\ streak' = [c \in Conditions |-> NoStreak]
    /\ cool' = {}
    /\ notified' = {}
    /\ digest' = {}
    /\ wrapping' = {}
    /\ pc' = "idle"
    /\ toOpen' = {}
    /\ toClose' = {}
    /\ opened' = {}
    /\ resolved' = {}
    /\ UNCHANGED <<active, rows, history, failures>>

Next ==
    \/ Process \/ WriteFails
    \/ TakeDigest \/ SummarySent \/ SummaryFails
    \/ ConditionsChange \/ CooldownEnds \/ Restart

Spec == Init /\ [][Next]_vars

(* The collector polls for ever and awaited calls answer.                  *)
FairSpec == Spec /\ WF_vars(Process)

-----------------------------------------------------------------------------
(* Properties. *)

(* What the service takes for the open alerts are the open alerts: the rows  *)
(* it will update and close, through failed writes and restarts.             *)
OpenMirrorsRows == loaded => open = rows

(* A flicker opens nothing and closes nothing: an alert opens on a condition *)
(* seen in Confirm evaluations in a row and closes on one missing in Clear   *)
(* in a row, restarts between them or not.                                   *)
NoFlicker ==
    [][\A c \in Conditions :
         /\ c \in rows' \ rows => held[c] >= Confirm
         /\ c \in rows \ rows' => held[c] <= -Clear]_vars

(* A condition that stays is an alert at last, and one that stays away is    *)
(* none, also when the app restarted in between: as long as no write was     *)
(* rejected on the way.                                                      *)
AlertsFollow ==
    \A c \in Conditions :
        /\ (c \in active) ~> (c \in rows \/ c \notin active \/ failures > 0)
        /\ (c \in rows /\ c \notin active) ~> (c \notin rows \/ c \in active \/ failures > 0)

(* "Only announced openings are eligible" for a resolution notice            *)
(* (alerts.service.ts:223): the history of notifications never has the end   *)
(* of an alert without its beginning, through restarts and rejected writes,  *)
(* unless it was the row of the beginning itself that was rejected.  Whether *)
(* a webhook took either is another matter.                                  *)
ResolvedWasRaised == pc = "resolve" => resolved \subseteq raised \cup unraised

-----------------------------------------------------------------------------
(* What makes them inductive: a streak is never longer than the condition    *)
(* was there or away, what is to open or close has had its streak, and only  *)
(* open alerts are announced ones.                                           *)

StreakInv ==
    /\ \A c \in Conditions :
         /\ streak[c].confirmed => streak[c].known
         /\ ~streak[c].confirmed => streak[c].holding = 0 \/ streak[c].holding <= held[c]
         /\ streak[c].clearing = 0 \/ streak[c].clearing <= -held[c]
    /\ \A c \in toOpen  : held[c] >= Confirm
    /\ \A c \in toClose : held[c] <= -Clear

PlaceInv ==
    /\ pc # "create" => toOpen = {}
    /\ pc \in {"idle", "resolve"} => toClose = {}
    /\ pc \in {"idle", "close", "resolve"} => opened = {}
    /\ pc \notin {"close", "resolve"} => resolved = {}
    /\ ~loaded => pc = "idle" /\ notified = {}
    /\ opened \subseteq open
    /\ notified \subseteq open

TellInv ==
    /\ notified \subseteq raised \cup unraised \cup (IF pc = "sending" THEN opened ELSE {})
    /\ resolved \subseteq raised \cup unraised

-----------------------------------------------------------------------------
(* Not kept by the code. *)

(* A condition that holds for CONFIRM_POLLS evaluations gets its alert, one  *)
(* rejected write or not (alert-policy.ts:8): refuted with MaxFailures = 1.  *)
LastingOpens ==
    \A c \in Conditions : (c \in active) ~> (c \in rows \/ c \notin active)

(* An alert whose condition is over closes (alert-policy.ts:28): likewise.   *)
DepartedCloses ==
    \A c \in Conditions : (c \in rows /\ c \notin active) ~> (c \notin rows \/ c \in active)

(* "Conditions whose opening was actually pushed - only these get a          *)
(* resolution notice" (alerts.service.ts:42): refuted by any webhook that    *)
(* does not take the push, or none; and by a push whose row is rejected.     *)
ResolvedWasPushed == pc = "resolve" => resolved \subseteq reached
ResolvedIsOnRecord == pc = "resolve" => resolved \subseteq raised

(* "Minimum gap before the same subject may push again, even if it           *)
(* re-opens" (alert-policy.ts:12): refuted with two serious conditions, the  *)
(* second of which joins the first's second opening.                         *)
CooldownHolds == [][pc = "push" /\ pc' = "sending" => opened \cap cool = {}]_vars

(* "Everything held back during the day rides along rather than as its own   *)
(* push" (daily-summary.service.ts:90): refuted with MaxFailures = 1.        *)
DigestIsKept == owed \subseteq digest \cup wrapping
=============================================================================
