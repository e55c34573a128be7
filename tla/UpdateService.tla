---------------------------- MODULE UpdateService ----------------------------
(***************************************************************************)
(* apps/api/src/updates/update.service.ts: the app's half of the updater.  *)
(* The settings rows of the database are the source of truth; two files    *)
(* beside it tell the root-owned script what the user chose and asked for. *)
(* Every await is a place where another request, the six-hour timer or the *)
(* script may run, so an operation is a process with a place of its own.   *)
(*                                                                         *)
(* "running" is the version stamp the app was started with, None while it  *)
(* is not up; feed and running belong to others (UpdateSystem says whom).  *)
(***************************************************************************)
EXTENDS Integers, FiniteSets

CONSTANTS
    Versions,     \* every release that may ever be published
    PreReleases,  \* the ones the stable channel is not offered
    Ops,          \* bound: HTTP requests in flight at once
    Timer,        \* the six-hour check, a process of its own
    TimerRuns,    \* does the timer fire?
    MayRestart,   \* may the app end with operations in flight?
    MayFail,      \* may the database or the disk reject a read or a write?
    None

ASSUME VersionsAssumption == Versions \subseteq Nat
ASSUME TimerAssumption == Timer \notin Ops /\ {TimerRuns, MayRestart, MayFail} \subseteq BOOLEAN

VARIABLES
    feed,      \* releases published now
    running,   \* version the app runs as, or None
    db,        \* the rows update.channel and update.apply
    policy,    \* update-policy.json
    request,   \* update-request.json
    booted,    \* has onModuleInit mirrored the policy?
    checking,  \* this.checking
    decision,  \* this.decision: the release on offer, or None
    op,        \* the operations in flight
    missed     \* history: has a write been rejected since the last whole mirror?

files   == <<policy, request>>
stored  == <<db, missed>>
memory  == <<booted, checking, decision, op>>
vars    == <<feed, running, stored, files, memory>>

Channels == {"off", "stable", "prerelease"}
Policies == [channel : Channels, apply : BOOLEAN]
Rows     == {"channel", "apply"}
Places   == {"idle", "rows", "stray", "file", "off", "check", "policy", "fetch", "reply", "write"}
Kinds    == {"save", "install", "timer"}
MaybeVersion == Versions \cup {None}

(* One operation: what its caller wants, what it has read, and (history)   *)
(* the releases that have been the newest of a channel since it was called,*)
(* or all of them if it took another check's answer for its own.           *)
OpType == [at : Places, kind : Kinds, next : Policies, todo : SUBSET Rows,
           channel : Channels, wanted : MaybeVersion, seen : MaybeVersion,
           since : SUBSET Versions]

DefaultPolicy == [channel |-> "off", apply |-> FALSE]

Idle == [at |-> "idle", kind |-> "timer", next |-> DefaultPolicy, todo |-> {},
         channel |-> "off", wanted |-> None, seen |-> None, since |-> {}]

TypeOK ==
    /\ feed \subseteq Versions
    /\ running \in MaybeVersion
    /\ db \in Policies
    /\ policy \in Policies
    /\ request \in MaybeVersion
    /\ booted \in BOOLEAN
    /\ checking \in BOOLEAN
    /\ decision \in MaybeVersion
    /\ op \in [Ops \cup {Timer} -> OpType]
    /\ missed \in BOOLEAN

AppInit(kept) ==
    /\ db = kept
    /\ missed = FALSE
    /\ booted = TRUE
    /\ checking = FALSE
    /\ decision = None
    /\ op = [p \in Ops \cup {Timer} |-> Idle]

Newest(releases, channel) ==
    LET offered == {v \in releases : channel = "prerelease" \/ v \notin PreReleases}
    IN  {v \in offered : \A u \in offered : u <= v}

(* chooseUpdate(): the newest release of the channel when newer than what  *)
(* runs, or nothing.                                                       *)
ChooseUpdate(releases, channel) ==
    LET better == {v \in Newest(releases, channel) : v > running}
    IN  IF channel = "off" \/ better = {} THEN None ELSE CHOOSE v \in better : TRUE

NewestNow == UNION {Newest(feed, channel) : channel \in Channels \ {"off"}}

Up == running # None /\ booted

At(p, place) == Up /\ op[p].at = place

-----------------------------------------------------------------------------
(* Bug: the mirror is only written by savePolicy(). *)
Boot_NoMirror ==
    /\ running # None
    /\ ~booted
    /\ booted' = TRUE
    /\ UNCHANGED <<feed, running, stored, files, checking, decision, op>>

(* onModuleInit(): mirror the stored policy, before the app listens. *)
Boot ==
    /\ running # None
    /\ ~booted
    /\ policy' = db
    /\ missed' = FALSE
    /\ booted' = TRUE
    /\ UNCHANGED <<feed, running, db, request, checking, decision, op>>

(* ... or it fails, which is swallowed, and the app comes up all the same. *)
(* A file that was truncated and not written reads as "off" to the script. *)
BootUnmirrored ==
    /\ MayFail
    /\ running # None
    /\ ~booted
    /\ policy' \in {policy, DefaultPolicy}
    /\ missed' = TRUE
    /\ booted' = TRUE
    /\ UNCHANGED <<feed, running, db, request, checking, decision, op>>

(* The process ends: everything in flight and in memory is gone. *)
AppDies ==
    /\ booted' = FALSE
    /\ checking' = FALSE
    /\ decision' = None
    /\ op' = [p \in Ops \cup {Timer} |-> Idle]
    /\ UNCHANGED stored

(* savePolicy(input): read the policy, and merge the fields given. *)
SaveBegins(p) ==
    /\ At(p, "idle")
    /\ \E channel \in Channels, apply \in BOOLEAN, given \in SUBSET Rows \ {{}} :
         op' = [op EXCEPT ![p] = [Idle EXCEPT
                  !.at = "rows", !.kind = "save", !.todo = Rows,
                  !.next = [channel |-> IF "channel" \in given THEN channel ELSE db.channel,
                            apply |-> IF "apply" \in given THEN apply ELSE db.apply]]]
    /\ UNCHANGED <<feed, running, stored, files, booted, checking, decision>>

(* The rows are written side by side (Promise.all). *)
SaveRow(p) ==
    /\ At(p, "rows")
    /\ \E row \in op[p].todo :
         /\ db' = [db EXCEPT ![row] = op[p].next[row]]
         /\ op' = [op EXCEPT ![p].todo = @ \ {row},
                             ![p].at = IF op[p].todo = {row} THEN "file" ELSE "rows"]
    /\ UNCHANGED <<feed, running, files, booted, checking, decision, missed>>

(* One that is rejected ends the save before the file; the others are not   *)
(* taken back, nor waited for.                                              *)
RowRejected(p) ==
    /\ MayFail
    /\ At(p, "rows") \/ At(p, "stray")
    /\ \E row \in op[p].todo :
         op' = [op EXCEPT ![p] = IF op[p].todo = {row} THEN Idle
                                 ELSE [op[p] EXCEPT !.todo = @ \ {row}, !.at = "stray"]]
    /\ missed' = TRUE
    /\ UNCHANGED <<feed, running, db, files, booted, checking, decision>>

StrayRow(p) ==
    /\ At(p, "stray")
    /\ \E row \in op[p].todo :
         /\ db' = [db EXCEPT ![row] = op[p].next[row]]
         /\ op' = [op EXCEPT ![p] = IF op[p].todo = {row} THEN Idle
                                     ELSE [op[p] EXCEPT !.todo = @ \ {row}]]
    /\ UNCHANGED <<feed, running, files, booted, checking, decision, missed>>

SaveFile(p) ==
    /\ At(p, "file")
    /\ policy' = op[p].next
    /\ missed' = FALSE
    /\ op' = [op EXCEPT ![p] = [Idle EXCEPT !.kind = "save",
                                  !.at = IF op[p].next.channel = "off" THEN "off" ELSE "check"]]
    /\ UNCHANGED <<feed, running, db, request, booted, checking, decision>>

FileFails(p) ==
    /\ MayFail
    /\ At(p, "file")
    /\ policy' \in {policy, DefaultPolicy}
    /\ missed' = TRUE
    /\ op' = [op EXCEPT ![p] = Idle]
    /\ UNCHANGED <<feed, running, db, request, booted, checking, decision>>

(* Off also clears the pending request and what is on offer.  An unlink     *)
(* that fails is swallowed.                                                 *)
SaveOff(p) ==
    /\ At(p, "off")
    /\ request' \in {None} \cup (IF MayFail THEN {request} ELSE {})
    /\ decision' = None
    /\ op' = [op EXCEPT ![p].at = "check"]
    /\ UNCHANGED <<feed, running, stored, policy, booted, checking>>

(* requestInstall(version) *)
InstallBegins(p) ==
    /\ At(p, "idle")
    /\ \E v \in Versions :
         op' = [op EXCEPT ![p] = [Idle EXCEPT !.at = "check", !.kind = "install",
                                              !.wanted = v, !.since = NewestNow]]
    /\ UNCHANGED <<feed, running, stored, files, booted, checking, decision>>

TimerFires ==
    /\ TimerRuns
    /\ At(Timer, "idle")
    /\ op' = [op EXCEPT ![Timer] = [Idle EXCEPT !.at = "check"]]
    /\ UNCHANGED <<feed, running, stored, files, booted, checking, decision>>

(* What the callers of check() do with its answer: only an install goes on.*)
Answered(p, release) ==
    IF op[p].kind = "install" THEN [op[p] EXCEPT !.at = "reply", !.seen = release] ELSE Idle

(* check() while another check is running: the decision as it stands.  In  *)
(* the history it counts as seen.                                          *)
CheckJoins(p) ==
    /\ At(p, "check")
    /\ checking
    /\ op' = [op EXCEPT ![p] = IF op[p].kind = "install"
                               THEN [Answered(p, decision) EXCEPT !.since = Versions] ELSE Idle]
    /\ UNCHANGED <<feed, running, stored, files, booted, checking, decision>>

(* Bug: a decision once taken is good enough. *)
CheckBegins_Cached(p) ==
    /\ At(p, "check")
    /\ ~checking
    /\ IF decision # None
         THEN op' = [op EXCEPT ![p] = Answered(p, decision)] /\ UNCHANGED checking
         ELSE op' = [op EXCEPT ![p].at = "policy"] /\ checking' = TRUE
    /\ UNCHANGED <<feed, running, stored, files, booted, decision>>

CheckBegins(p) ==
    /\ At(p, "check")
    /\ ~checking
    /\ checking' = TRUE
    /\ op' = [op EXCEPT ![p].at = "policy"]
    /\ UNCHANGED <<feed, running, stored, files, booted, decision>>

(* The policy it works with is read once; off means no outbound request.   *)
CheckReadsPolicy(p) ==
    /\ At(p, "policy")
    /\ IF db.channel = "off"
         THEN /\ decision' = None
              /\ checking' = FALSE
              /\ op' = [op EXCEPT ![p] = Answered(p, None)]
         ELSE /\ op' = [op EXCEPT ![p].at = "fetch", ![p].channel = db.channel]
              /\ UNCHANGED <<decision, checking>>
    /\ UNCHANGED <<feed, running, stored, files, booted>>

(* policy() rejects: the flag is lowered, and the caller gets the error.   *)
CheckFails(p) ==
    /\ MayFail
    /\ At(p, "policy")
    /\ checking' = FALSE
    /\ op' = [op EXCEPT ![p] = Idle]
    /\ UNCHANGED <<feed, running, stored, files, booted, decision>>

(* Bug: no finally, so a feed that fails leaves the flag up. *)
CheckEnds_NoFinally(p) ==
    /\ At(p, "fetch")
    /\ \E releases \in {feed, {}} :
         LET release == ChooseUpdate(releases, op[p].channel)
         IN  /\ decision' = release
             /\ op' = [op EXCEPT ![p] = Answered(p, release)]
             /\ checking' = (releases = {})
    /\ UNCHANGED <<feed, running, stored, files, booted>>

(* The feed answers, or it does not and counts as empty. *)
CheckEnds(p) ==
    /\ At(p, "fetch")
    /\ \E releases \in {feed, {}} :
         LET release == ChooseUpdate(releases, op[p].channel)
         IN  /\ decision' = release
             /\ op' = [op EXCEPT ![p] = Answered(p, release)]
    /\ checking' = FALSE
    /\ UNCHANGED <<feed, running, stored, files, booted>>

(* Bug: what the caller named is queued, whatever is on offer. *)
InstallReply_Unchecked(p) ==
    /\ At(p, "reply")
    /\ op' = [op EXCEPT ![p].at = "write", ![p].seen = op[p].wanted]
    /\ UNCHANGED <<feed, running, stored, files, booted, checking, decision>>

InstallReply(p) ==
    /\ At(p, "reply")
    /\ op' = [op EXCEPT ![p] = IF op[p].seen # None /\ op[p].seen = op[p].wanted
                                 THEN [op[p] EXCEPT !.at = "write"] ELSE Idle]
    /\ UNCHANGED <<feed, running, stored, files, booted, checking, decision>>

InstallWrites(p) ==
    /\ At(p, "write")
    /\ request' = op[p].seen
    /\ op' = [op EXCEPT ![p] = Idle]
    /\ UNCHANGED <<feed, running, stored, policy, booted, checking, decision>>

InstallFails(p) ==
    /\ MayFail
    /\ At(p, "write")
    /\ request' \in {request, None}
    /\ op' = [op EXCEPT ![p] = Idle]
    /\ UNCHANGED <<feed, running, stored, policy, booted, checking, decision>>

(* cancelInstall(); when the unlink fails nothing happens. *)
Cancel ==
    /\ Up
    /\ request # None
    /\ request' = None
    /\ UNCHANGED <<feed, running, stored, policy, memory>>

Check(p) ==
    CheckJoins(p) \/ CheckBegins(p) \/ CheckReadsPolicy(p) \/ CheckFails(p) \/ CheckEnds(p)

Work(p) ==
    \/ SaveRow(p) \/ RowRejected(p) \/ StrayRow(p)
    \/ SaveFile(p) \/ FileFails(p) \/ SaveOff(p)
    \/ InstallReply(p) \/ InstallWrites(p) \/ InstallFails(p)
    \/ Check(p)

AppStep ==
    \/ Boot \/ BootUnmirrored
    \/ Cancel
    \/ TimerFires
    \/ \E p \in Ops : SaveBegins(p) \/ InstallBegins(p)
    \/ \E p \in Ops \cup {Timer} : Work(p)

-----------------------------------------------------------------------------
(* The app alone, with a machine that publishes and restarts it. *)

Init ==
    /\ \E kept \in Policies : AppInit(kept) /\ policy = kept
    /\ feed \in SUBSET Versions
    /\ running \in Versions
    /\ request = None

(* History: what the operations in flight could have seen on offer. *)
FeedChanges ==
    /\ \E releases \in SUBSET Versions :
         /\ feed' = releases
         /\ op' = [p \in Ops \cup {Timer} |->
                     IF op[p].kind # "install" THEN op[p]
                     ELSE [op[p] EXCEPT !.since = @ \cup UNION {Newest(releases, channel) :
                                                     channel \in Channels \ {"off"}}]]
    /\ UNCHANGED <<running, stored, files, booted, checking, decision>>

Restart ==
    /\ MayRestart
    /\ AppDies
    /\ UNCHANGED <<feed, running, files>>

Next == AppStep \/ FeedChanges \/ Restart

Spec == Init /\ [][Next]_vars

(* The database, the files and fetch (15 s timeout) always answer, if only  *)
(* with an error.                                                           *)
Fairness == WF_vars(Boot \/ BootUnmirrored) /\ \A p \in Ops \cup {Timer} : WF_vars(Work(p))

FairSpec == Spec /\ Fairness

-----------------------------------------------------------------------------
(* Properties. *)

Quiet == Up /\ \A p \in Ops \cup {Timer} : op[p].at = "idle"

Saving == \E p \in Ops : op[p].kind = "save" /\ op[p].at \in {"rows", "stray", "file", "off"}

(* "The database is the source of truth; the file beside it is a mirror"     *)
(* (update.service.ts:108): with no save under way and the app up, the       *)
(* script reads what the database holds, wherever restarts cut a save short, *)
(* unless a write was rejected since the last save or boot that succeeded.   *)
MirrorAgrees == Up /\ ~Saving /\ ~missed => policy = db

(* "Off must also clear a pending request, or an install stays queued for    *)
(* the next tick" (update.service.ts:149).                                   *)
OffClears == Up /\ ~Saving /\ db.channel = "off" => request = None

(* "Checked against a fresh look at the feed before the request is written"  *)
(* (update.service.ts:218): the version written has been the newest of a     *)
(* channel at some moment since the user asked, unless another's check was   *)
(* under way and answered for it.                                            *)
FreshLook ==
    \A p \in Ops : op[p].at = "write" => op[p].seen \in op[p].since

(* What the panel offers is of the channel chosen: nothing once updates are  *)
(* off, and no pre-release on the stable channel.                            *)
OfferFollowsChannel ==
    Quiet => /\ db.channel = "off" => decision = None
             /\ db.channel = "stable" => decision \notin PreReleases

(* At most one look at the feed is under way, and this.checking is up just   *)
(* while it is: a flag left up would answer every later look with the old    *)
(* decision, for good.                                                       *)
InCheck(p) == op[p].at \in {"policy", "fetch"}

CheckHeld ==
    /\ checking <=> \E p \in Ops \cup {Timer} : InCheck(p)
    /\ \A p, q \in Ops \cup {Timer} : InCheck(p) /\ InCheck(q) => p = q

(* A check always ends, whatever the feed does.                              *)
ChecksEnd == checking ~> ~checking

-----------------------------------------------------------------------------
(* Not kept by the code. *)

(* The same without the excuse: a request is only written after a look of    *)
(* its own.  Refuted: check() answers at once while another's check is under *)
(* way, with the decision from before it.                                    *)
LooksItself == [][\A p \in Ops : At(p, "check") => op'[p].at # "reply"]_vars

(* The mirror without the excuse.  Refuted with MayFail: a rejected row ends  *)
(* the save with the other stored, a rejected write of the file leaves both  *)
(* rows ahead of it, and the mirror at boot swallows its failure.            *)
MirrorAlways == Up /\ ~Saving => policy = db
=============================================================================
