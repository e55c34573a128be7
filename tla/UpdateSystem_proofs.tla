-------------------------- MODULE UpdateSystem_proofs --------------------------
(***************************************************************************)
(* The app's half of the updater does to the hand-off files only what      *)
(* Updater lets a user do: the two halves together implement the updater   *)
(* with its assumed user, for any versions, requests in flight, timers,    *)
(* failing commands and power failures.  What is proved of the updater     *)
(* then holds of the two halves together.                                  *)
(***************************************************************************)
EXTENDS UpdateSystem, Updater_proofs

(* The app's half, with what is proved of it. *)
Half == INSTANCE UpdateService_proofs WITH running <- Running, MayRestart <- FALSE

USE DEF files, disk, script, history, vars, memory, AskedFor, Half!Procs, Half!stored

LEMMA HalfStep == Half!IInv /\ [Half!Next]_(Half!vars) => Half!IInv'
  BY TimerAssumption, VersionsAssumption, Half!HeldStep

LEMMA SameHalf == App!AppStep => Half!AppStep
  BY DEF App!AppStep, Half!AppStep, App!Work, Half!Work, App!Check, Half!Check,
         App!Boot, Half!Boot, App!Cancel, Half!Cancel, App!TimerFires, Half!TimerFires,
         App!SaveBegins, Half!SaveBegins, App!InstallBegins, Half!InstallBegins,
         App!SaveRow, Half!SaveRow, App!SaveFile, Half!SaveFile, App!SaveOff,
         App!BootUnmirrored, Half!BootUnmirrored, App!RowRejected, Half!RowRejected,
         App!StrayRow, Half!StrayRow, App!FileFails, Half!FileFails, App!CheckFails,
         Half!CheckFails, App!InstallFails, Half!InstallFails, App!stored, Half!stored,
         Half!SaveOff, App!InstallReply, Half!InstallReply, App!InstallWrites,
         Half!InstallWrites, App!CheckJoins, Half!CheckJoins, App!CheckBegins,
         Half!CheckBegins, App!CheckReadsPolicy, Half!CheckReadsPolicy, App!CheckEnds,
         Half!CheckEnds, App!Answered, Half!Answered, App!ChooseUpdate,
         Half!ChooseUpdate, App!Newest, Half!Newest, App!NewestNow, Half!NewestNow,
         App!Idle, Half!Idle, App!DefaultPolicy, Half!DefaultPolicy, App!Channels,
         Half!Channels, App!Rows, Half!Rows, App!Up, Half!Up, App!At, Half!At,
         App!files, Half!files, App!memory, Half!memory

LEMMA SameDeath == App!AppDies <=> Half!AppDies
  BY DEF App!AppDies, Half!AppDies, App!stored, App!Idle, Half!Idle, App!DefaultPolicy, Half!DefaultPolicy

LEMMA PolicyTyped == Half!DefaultPolicy \in Half!Policies /\ (TypeOK => policy \in Half!Policies)
  BY DEF Half!DefaultPolicy, Half!Policies, Half!Channels, TypeOK, Channels

LEMMA IdleIs == Half!Idle \in Half!OpType /\ Half!Idle.at = "idle" /\ Half!Idle.seen = None
  <1>1. Half!Idle \in Half!OpType /\ Half!Idle.at = "idle"
    BY TimerAssumption, VersionsAssumption, Half!IdleTyped
  <1>2. QED
    BY <1>1 DEF Half!Idle

-----------------------------------------------------------------------------
(* What the app has on offer, and what it has seen for a request, is newer   *)
(* than what runs: whatever starts another build ends the app that chose it. *)
Upgrade(v) == Running # None /\ v > Running

OfferInv ==
    /\ decision # None => Upgrade(decision)
    /\ \A p \in Half!Procs : /\ op[p].seen # None => Upgrade(op[p].seen)
                             /\ op[p].at = "write" => op[p].seen # None

SysInv == TypeOK /\ Half!IInv /\ OfferInv

LEMMA Typed ==
    ASSUME SysInv
    PROVE  /\ op \in [Half!Procs -> Half!OpType]
           /\ \A p \in Half!Procs : op[p] \in Half!OpType
           /\ db \in Half!Policies /\ decision \in MaybeVersion /\ feed \subseteq Versions
  BY DEF SysInv, Half!IInv, Half!TypeOK, Half!MaybeVersion, MaybeVersion

(* What the app has on offer or has seen is of a set of versions. *)
Of(offers) ==
    /\ decision # None => decision \in offers
    /\ \A p \in Half!Procs : /\ op[p].seen # None => op[p].seen \in offers
                             /\ op[p].at = "write" => op[p].seen # None

(* A step of one operation that leaves the rest alone. *)
LEMMA OfferMoves ==
    ASSUME SysInv, NEW offers, Of(offers),
           NEW p \in Half!Procs, NEW record, op' = [op EXCEPT ![p] = record],
           record.seen # None => record.seen \in offers,
           record.at = "write" => record.seen # None,
           decision' # None => decision' \in offers
    PROVE  Of(offers)'
  BY Typed DEF Of

LEMMA ChosenIsNewer ==
    ASSUME NEW releases, NEW channel, Running # None,
           Half!ChooseUpdate(releases, channel) # None
    PROVE  Upgrade(Half!ChooseUpdate(releases, channel))
  <1> DEFINE better == {v \in Half!Newest(releases, channel) : v > Running}
  <1>1. better # {} /\ Half!ChooseUpdate(releases, channel) = CHOOSE v \in better : TRUE
    BY DEF Half!ChooseUpdate
  <1>2. Half!ChooseUpdate(releases, channel) \in better
    BY <1>1
  <1>3. QED
    BY <1>2 DEF Upgrade

LEMMA AnsweredIs ==
    ASSUME SysInv, NEW p \in Half!Procs, NEW release
    PROVE  /\ Half!Answered(p, release).at # "write"
           /\ Half!Answered(p, release).seen \in {release, None}
  <1>1. op[p] \in Half!OpType
    BY Typed
  <1>2. CASE op[p].kind = "install"
    BY <1>1, <1>2 DEF Half!Answered, Half!OpType
  <1>3. CASE op[p].kind # "install"
    BY <1>3, IdleIs DEF Half!Answered
  <1>4. QED
    BY <1>2, <1>3

LEMMA ChosenIsListed ==
    ASSUME NEW releases, NEW channel, Half!ChooseUpdate(releases, channel) # None
    PROVE  Half!ChooseUpdate(releases, channel) \in releases
  <1> DEFINE better == {v \in Half!Newest(releases, channel) : v > Running}
  <1>1. better # {} /\ Half!ChooseUpdate(releases, channel) = CHOOSE v \in better : TRUE
    BY DEF Half!ChooseUpdate
  <1>2. Half!ChooseUpdate(releases, channel) \in Half!Newest(releases, channel)
    BY <1>1
  <1>3. QED
    BY <1>2 DEF Half!Newest

LEMMA SeenStep ==
    ASSUME SysInv, NEW offers, Of(offers), Half!AppStep,
           \A releases \in {feed, {}}, channel \in Half!Channels :
             Half!Up => Half!ChooseUpdate(releases, channel) \in offers \cup {None}
    PROVE  Of(offers)'
  <1>0. /\ op \in [Half!Procs -> Half!OpType]
        /\ \A p \in Half!Procs : op[p] \in Half!OpType
        /\ decision # None => decision \in offers
        /\ \A p \in Half!Procs : /\ op[p].seen # None => op[p].seen \in offers
                                 /\ op[p].at = "write" => op[p].seen # None
    BY Typed DEF Of
  <1>1. CASE Half!Boot \/ Half!BootUnmirrored \/ Half!Cancel
    BY <1>1, <1>0 DEF Half!Boot, Half!BootUnmirrored, Half!Cancel, Half!memory, Of
  <1>2. ASSUME NEW p \in Half!Procs, NEW record \in Half!OpType,
               op' = [op EXCEPT ![p] = record], record.seen = None, record.at # "write",
               decision' \in {decision, None}
        PROVE  Of(offers)'
    BY <1>0, <1>2, OfferMoves
  <1>3. ASSUME NEW p \in Half!Procs, NEW record \in Half!OpType,
               op' = [op EXCEPT ![p] = record], record.seen = op[p].seen, record.at # "write",
               decision' \in {decision, None}
        PROVE  Of(offers)'
    BY <1>0, <1>3, OfferMoves
  <1>4. CASE Half!TimerFires
    <2>1. [Half!Idle EXCEPT !.at = "check"] \in Half!OpType
      BY IdleIs DEF Half!OpType, Half!Places
    <2>2. /\ [Half!Idle EXCEPT !.at = "check"].seen = None
          /\ [Half!Idle EXCEPT !.at = "check"].at = "check"
      BY IdleIs DEF Half!OpType
    <2>3. QED
      BY <1>2, <1>4, <2>1, <2>2 DEF Half!TimerFires
  <1>5. ASSUME NEW p \in Ops, Half!SaveBegins(p) PROVE Of(offers)'
    <2>1. PICK channel \in Half!Channels, apply \in BOOLEAN, given \in SUBSET Half!Rows \ {{}} :
            op' = [op EXCEPT ![p] = [Half!Idle EXCEPT
                     !.at = "rows", !.kind = "save", !.todo = Half!Rows,
                     !.next = [channel |-> IF "channel" \in given THEN channel ELSE db.channel,
                               apply |-> IF "apply" \in given THEN apply ELSE db.apply]]]
      BY <1>5 DEF Half!SaveBegins
    <2> DEFINE next == [channel |-> IF "channel" \in given THEN channel ELSE db.channel,
                        apply |-> IF "apply" \in given THEN apply ELSE db.apply]
               record == [Half!Idle EXCEPT !.at = "rows", !.kind = "save", !.todo = Half!Rows,
                                           !.next = next]
    <2>2. op' = [op EXCEPT ![p] = record]
      BY <2>1
    <2> HIDE DEF next
    <2>3. record.seen = None /\ record.at = "rows"
      BY IdleIs DEF Half!OpType
    <2> HIDE DEF record
    <2>4. decision' = decision
      BY <1>5 DEF Half!SaveBegins
    <2>5. QED
      BY <1>0, <2>2, <2>3, <2>4, OfferMoves
  <1>6. ASSUME NEW p \in Ops, Half!InstallBegins(p) PROVE Of(offers)'
    <2>1. PICK v \in Versions :
            op' = [op EXCEPT ![p] = [Half!Idle EXCEPT !.at = "check", !.kind = "install",
                                                      !.wanted = v, !.since = Half!NewestNow]]
      BY <1>6 DEF Half!InstallBegins
    <2> DEFINE record == [Half!Idle EXCEPT !.at = "check", !.kind = "install",
                                           !.wanted = v, !.since = Half!NewestNow]
    <2>2. record.seen = None /\ record.at = "check"
      BY IdleIs DEF Half!OpType
    <2>3. op' = [op EXCEPT ![p] = record]
      BY <2>1
    <2> HIDE DEF record
    <2>4. decision' = decision
      BY <1>6 DEF Half!InstallBegins
    <2>5. QED
      BY <1>0, <2>2, <2>3, <2>4, OfferMoves
  <1>7. ASSUME NEW p \in Half!Procs, Half!SaveRow(p) PROVE Of(offers)'
    <2>1. PICK row \in op[p].todo :
            op' = [op EXCEPT ![p].todo = @ \ {row},
                             ![p].at = IF op[p].todo = {row} THEN "file" ELSE "rows"]
      BY <1>7 DEF Half!SaveRow
    <2> DEFINE record == [op[p] EXCEPT !.todo = @ \ {row},
                            !.at = IF op[p].todo = {row} THEN "file" ELSE "rows"]
    <2>2. op' = [op EXCEPT ![p] = record]
      BY <1>0, <2>1
    <2>3. record.seen = op[p].seen /\ record.at # "write"
      BY <1>0 DEF Half!OpType
    <2> HIDE DEF record
    <2>4. decision' = decision
      BY <1>7 DEF Half!SaveRow
    <2>5. QED
      BY <1>0, <2>2, <2>3, <2>4, OfferMoves
  <1>15. ASSUME NEW p \in Half!Procs, Half!SaveFile(p) PROVE Of(offers)'
    <2> DEFINE record == [Half!Idle EXCEPT !.kind = "save",
                            !.at = IF op[p].next.channel = "off" THEN "off" ELSE "check"]
    <2>1. op' = [op EXCEPT ![p] = record] /\ decision' = decision
      BY <1>15 DEF Half!SaveFile
    <2>2. record.seen = None /\ record.at \in {"off", "check"}
      BY IdleIs DEF Half!OpType
    <2> HIDE DEF record
    <2>3. QED
      BY <1>0, <2>1, <2>2, OfferMoves
  <1>16. ASSUME NEW p \in Half!Procs,
                Half!FileFails(p) \/ Half!CheckFails(p) \/ Half!InstallFails(p)
         PROVE  Of(offers)'
    BY <1>0, <1>16, IdleIs, OfferMoves DEF Half!FileFails, Half!CheckFails, Half!InstallFails
  <1>17. ASSUME NEW p \in Half!Procs, Half!RowRejected(p) PROVE Of(offers)'
    <2>1. PICK row \in op[p].todo :
            op' = [op EXCEPT ![p] = IF op[p].todo = {row} THEN Half!Idle
                                    ELSE [op[p] EXCEPT !.todo = @ \ {row}, !.at = "stray"]]
      BY <1>17 DEF Half!RowRejected
    <2> DEFINE record == IF op[p].todo = {row} THEN Half!Idle
                         ELSE [op[p] EXCEPT !.todo = @ \ {row}, !.at = "stray"]
    <2>2. record.seen \in {op[p].seen, None} /\ record.at # "write"
      BY <1>0, IdleIs DEF Half!OpType
    <2>3. op' = [op EXCEPT ![p] = record] /\ decision' = decision
      BY <1>17, <2>1 DEF Half!RowRejected
    <2> HIDE DEF record
    <2>4. QED
      BY <1>0, <2>2, <2>3, OfferMoves
  <1>18. ASSUME NEW p \in Half!Procs, Half!StrayRow(p) PROVE Of(offers)'
    <2>1. PICK row \in op[p].todo :
            op' = [op EXCEPT ![p] = IF op[p].todo = {row} THEN Half!Idle
                                    ELSE [op[p] EXCEPT !.todo = @ \ {row}]]
      BY <1>18 DEF Half!StrayRow
    <2> DEFINE record == IF op[p].todo = {row} THEN Half!Idle
                         ELSE [op[p] EXCEPT !.todo = @ \ {row}]
    <2>2. op[p].at = "stray"
      BY <1>18 DEF Half!StrayRow, Half!At
    <2>3. record.seen \in {op[p].seen, None} /\ record.at # "write"
      BY <1>0, <2>2, IdleIs DEF Half!OpType
    <2>4. op' = [op EXCEPT ![p] = record] /\ decision' = decision
      BY <1>18, <2>1 DEF Half!StrayRow
    <2> HIDE DEF record
    <2>5. QED
      BY <1>0, <2>3, <2>4, OfferMoves
  <1>8. ASSUME NEW p \in Half!Procs, Half!SaveOff(p) \/ Half!CheckBegins(p)
        PROVE  Of(offers)'
    <2>1. PICK place \in {"check", "policy"} :
            op' = [op EXCEPT ![p] = [op[p] EXCEPT !.at = place]]
      BY <1>0, <1>8 DEF Half!SaveOff, Half!CheckBegins
    <2>2. decision' \in {decision, None}
      BY <1>8 DEF Half!SaveOff, Half!CheckBegins
    <2>3. /\ [op[p] EXCEPT !.at = place].seen = op[p].seen
          /\ [op[p] EXCEPT !.at = place].at = place
      BY <1>0 DEF Half!OpType
    <2>4. QED
      BY <1>0, <2>1, <2>2, <2>3, OfferMoves
  <1>9. ASSUME NEW p \in Half!Procs, Half!InstallReply(p) PROVE Of(offers)'
    <2>1. decision' = decision
      BY <1>9 DEF Half!InstallReply
    <2>2. CASE op[p].seen # None /\ op[p].seen = op[p].wanted
      <3>1. op' = [op EXCEPT ![p] = [op[p] EXCEPT !.at = "write"]]
        BY <1>9, <2>2 DEF Half!InstallReply
      <3>2. [op[p] EXCEPT !.at = "write"].seen = op[p].seen
        BY <1>0 DEF Half!OpType
      <3>3. QED
        BY <1>0, <2>1, <2>2, <3>1, <3>2, OfferMoves
    <2>3. CASE ~(op[p].seen # None /\ op[p].seen = op[p].wanted)
      <3>1. op' = [op EXCEPT ![p] = Half!Idle]
        BY <1>9, <2>3 DEF Half!InstallReply
      <3>2. QED
        BY <1>0, <2>1, <3>1, IdleIs, OfferMoves
    <2>4. QED
      BY <2>2, <2>3
  <1>10. ASSUME NEW p \in Half!Procs, Half!InstallWrites(p) PROVE Of(offers)'
    BY <1>0, <1>10, IdleIs, OfferMoves DEF Half!InstallWrites
  <1>11. ASSUME NEW p \in Half!Procs, Half!CheckJoins(p) PROVE Of(offers)'
    <2>1. decision' = decision
      BY <1>11 DEF Half!CheckJoins
    <2>2. CASE op[p].kind = "install"
      <3> DEFINE record == [Half!Answered(p, decision) EXCEPT !.since = Versions]
      <3>1. op' = [op EXCEPT ![p] = record]
        BY <1>11, <2>2 DEF Half!CheckJoins
      <3>2. record.seen = decision /\ record.at = "reply"
        BY <1>0, <2>2 DEF Half!Answered, Half!OpType
      <3> HIDE DEF record
      <3>3. QED
        BY <1>0, <2>1, <3>1, <3>2, OfferMoves
    <2>3. CASE op[p].kind # "install"
      <3>1. op' = [op EXCEPT ![p] = Half!Idle]
        BY <1>11, <2>3 DEF Half!CheckJoins
      <3>2. QED
        BY <1>0, <2>1, <3>1, IdleIs, OfferMoves
    <2>4. QED
      BY <2>2, <2>3
  <1>12. ASSUME NEW p \in Half!Procs, Half!CheckReadsPolicy(p) PROVE Of(offers)'
    <2>1. CASE db.channel = "off"
      <3>1. op' = [op EXCEPT ![p] = Half!Answered(p, None)] /\ decision' = None
        BY <1>12, <2>1 DEF Half!CheckReadsPolicy
      <3>2. Half!Answered(p, None).at # "write" /\ Half!Answered(p, None).seen = None
        BY AnsweredIs
      <3>3. QED
        BY <1>0, <3>1, <3>2, OfferMoves
    <2>2. CASE db.channel # "off"
      <3> DEFINE record == [op[p] EXCEPT !.at = "fetch", !.channel = db.channel]
      <3>1. op' = [op EXCEPT ![p].at = "fetch", ![p].channel = db.channel]
        BY <1>12, <2>2 DEF Half!CheckReadsPolicy
      <3>2. op' = [op EXCEPT ![p] = record]
        BY <1>0, <3>1
      <3>3. record.seen = op[p].seen /\ record.at = "fetch"
        BY <1>0 DEF Half!OpType
      <3> HIDE DEF record
      <3>4. decision' = decision
        BY <1>12, <2>2 DEF Half!CheckReadsPolicy
      <3>5. QED
        BY <1>0, <3>4, <3>2, <3>3, OfferMoves
    <2>3. QED
      BY <2>1, <2>2
  <1>13. ASSUME NEW p \in Half!Procs, Half!CheckEnds(p) PROVE Of(offers)'
    <2>1. PICK releases \in {feed, {}} :
            /\ decision' = Half!ChooseUpdate(releases, op[p].channel)
            /\ op' = [op EXCEPT ![p] = Half!Answered(p, Half!ChooseUpdate(releases, op[p].channel))]
      BY <1>13 DEF Half!CheckEnds
    <2>2. decision' # None => decision' \in offers
      BY <1>0, <1>13, <2>1 DEF Half!CheckEnds, Half!At, Half!OpType
    <2>3. /\ Half!Answered(p, decision').at # "write"
          /\ Half!Answered(p, decision').seen \in {decision', None}
      BY AnsweredIs
    <2>4. QED
      BY <2>1, <2>2, <2>3, OfferMoves
  <1>14. QED
    BY <1>1, <1>4, <1>5, <1>6, <1>7, <1>8, <1>9, <1>10, <1>11, <1>12, <1>13, <1>15, <1>16,
       <1>17, <1>18
    DEF Half!AppStep, Half!Work, Half!Check

LEMMA OfferStep == ASSUME SysInv, Half!AppStep, Running' = Running PROVE OfferInv'
  <1>0. PICK offers : offers = {v \in Versions : Upgrade(v)}
    OBVIOUS
  <1>1. Of(offers)
    BY <1>0, Typed DEF SysInv, OfferInv, Of, Half!OpType, Half!MaybeVersion, MaybeVersion
  <1>2. \A releases \in {feed, {}}, channel \in Half!Channels :
          Half!Up => Half!ChooseUpdate(releases, channel) \in offers \cup {None}
    BY <1>0, Typed, ChosenIsNewer, ChosenIsListed DEF Half!Up
  <1>3. \A v \in offers : Upgrade(v)'
    BY <1>0 DEF Upgrade
  <1>4. Of(offers)'
    BY <1>1, <1>2, SeenStep
  <1>5. QED
    BY <1>3, <1>4 DEF OfferInv, Of

-----------------------------------------------------------------------------
(* Every step of the two halves is one of Updater with its user.            *)

(* Of the app's step only what it does to the files counts.                 *)
LEMMA AppStepIsAUsers ==
    ASSUME StaleRequests, SysInv, AppStep, Half!AppStep PROVE [Next]_vars
  <1>0. /\ op \in [Half!Procs -> Half!OpType]
        /\ \A p \in Half!Procs : op[p] \in Half!OpType
        /\ db \in Half!Policies
    BY Typed
  <1>1. /\ UNCHANGED <<feed, state, disk, live, script, crashes>>
        /\ IF request' \in {request, None} THEN UNCHANGED <<burned, kept>> ELSE AskedFor(request')
    BY DEF AppStep
  <1>2. Half!Up => AppAnswers /\ Running = live.stamp
    BY DEF Half!Up, Running
  <1>3. ASSUME UNCHANGED <<policy, request>> PROVE [Next]_vars
    BY <1>1, <1>3
  <1>4. ASSUME AppAnswers, request' = None, UNCHANGED policy PROVE [Next]_vars
    <2>1. CASE request = None
      BY <1>3, <1>4, <2>1
    <2>2. CASE request # None
      BY <1>1, <1>4, <2>2 DEF Next, User, UserCancels
    <2>3. QED
      BY <2>1, <2>2
  <1>5. ASSUME AppAnswers, policy' \in Half!Policies, UNCHANGED request PROVE [Next]_vars
    <2>1. PICK channel \in Channels, apply \in BOOLEAN :
            policy' = [channel |-> channel, apply |-> apply]
      BY <1>5 DEF Half!Policies, Half!Channels, Channels
    <2>2. UserSetsPolicy
      BY <1>1, <1>5, <2>1 DEF UserSetsPolicy
    <2>3. QED
      BY <2>2 DEF Next, User
  <1>6. ASSUME NEW p \in Half!Procs, Half!InstallWrites(p) PROVE [Next]_vars
    <2>1. /\ AppAnswers /\ Running = live.stamp /\ UNCHANGED policy
          /\ request' = op[p].seen /\ op[p].at = "write"
      BY <1>2, <1>6 DEF Half!InstallWrites, Half!At
    <2>2. op[p].seen \in Versions /\ op[p].seen > live.stamp
      BY <1>0, <2>1 DEF SysInv, OfferInv, Upgrade, Half!OpType, Half!MaybeVersion
    <2>3. CASE request' = request
      BY <1>3, <2>1, <2>3
    <2>4. CASE request' # request
      <3>1. request' # None
        BY <2>1, <2>2, VersionsAssumption, NoneAssumption
      <3>2. AskedFor(op[p].seen)
        BY <1>1, <2>1, <2>4, <3>1
      <3>3. UserRequests
        BY <1>1, <2>1, <2>2, <3>2 DEF UserRequests, Requestable
      <3>4. QED
        BY <3>3 DEF Next, User
    <2>5. QED
      BY <2>3, <2>4
  <1>7. CASE Half!Boot \/ Half!BootUnmirrored
    <2>1. AppAnswers /\ UNCHANGED request
      BY <1>7 DEF Half!Boot, Half!BootUnmirrored, Running
    <2>2. policy' \in Half!Policies
      BY <1>0, <1>7, PolicyTyped DEF Half!Boot, Half!BootUnmirrored, SysInv
    <2>3. QED
      BY <1>5, <2>1, <2>2
  <1>8. CASE Half!Cancel
    BY <1>2, <1>4, <1>8 DEF Half!Cancel
  <1>9. ASSUME NEW p \in Half!Procs, Half!SaveFile(p) \/ Half!FileFails(p) PROVE [Next]_vars
    <2>1. op[p].next \in Half!Policies
      BY <1>0 DEF Half!OpType
    <2>2. policy' \in Half!Policies /\ UNCHANGED request /\ AppAnswers
      BY <1>2, <1>9, <2>1, PolicyTyped DEF Half!SaveFile, Half!FileFails, Half!At, SysInv
    <2>3. QED
      BY <1>5, <2>2
  <1>10. ASSUME NEW p \in Half!Procs, Half!SaveOff(p) \/ Half!InstallFails(p) PROVE [Next]_vars
    <2>1. AppAnswers /\ UNCHANGED policy /\ request' \in {request, None}
      BY <1>2, <1>10 DEF Half!SaveOff, Half!InstallFails, Half!At
    <2>2. QED
      BY <1>3, <1>4, <2>1
  <1>11. ASSUME NEW p \in Half!Procs,
                \/ Half!SaveRow(p) \/ Half!RowRejected(p) \/ Half!StrayRow(p)
                \/ Half!InstallReply(p) \/ Half!Check(p)
         PROVE  [Next]_vars
    BY <1>3, <1>11
    DEF Half!SaveRow, Half!RowRejected, Half!StrayRow, Half!InstallReply, Half!Check,
        Half!CheckJoins, Half!CheckBegins, Half!CheckReadsPolicy, Half!CheckFails,
        Half!CheckEnds, Half!files
  <1>12. ASSUME NEW p \in Ops, Half!SaveBegins(p) \/ Half!InstallBegins(p) PROVE [Next]_vars
    BY <1>3, <1>12 DEF Half!SaveBegins, Half!InstallBegins, Half!files
  <1>13. CASE Half!TimerFires
    BY <1>3, <1>13 DEF Half!TimerFires, Half!files
  <1>14. QED
    BY <1>6, <1>7, <1>8, <1>9, <1>10, <1>11, <1>12, <1>13 DEF Half!AppStep, Half!Work

LEMMA StepMaps ==
    ASSUME StaleRequests, SysInv, [SysNext]_<<vars, memory>> PROVE [Next]_vars
  <1>1. CASE MachineStep
    BY <1>1 DEF MachineStep, ScriptAndMachine, Next
  <1>2. CASE PowerFailsForAll
    BY <1>2 DEF PowerFailsForAll, Next
  <1>3. CASE AppStep
    <2>1. Half!AppStep
      BY <1>3, SameHalf DEF AppStep
    <2>2. QED
      BY <1>3, <2>1, AppStepIsAUsers
  <1>4. CASE UNCHANGED <<vars, memory>>
    BY <1>4
  <1>5. QED
    BY <1>1, <1>2, <1>3, <1>4 DEF SysNext

LEMMA RunningTyped == ASSUME TypeOK PROVE Running \in MaybeVersion
  BY DEF TypeOK, Running, AppAnswers, Trees, MaybeVersion

(* What the app shares with the machine has the types the app expects.      *)
MemoryTyped ==
    /\ db \in Half!Policies /\ {booted, checking, missed} \subseteq BOOLEAN
    /\ decision \in MaybeVersion /\ op \in [Half!Procs -> Half!OpType]

LEMMA HalfTyped == TypeOK /\ MemoryTyped => Half!TypeOK
  <1> SUFFICES ASSUME TypeOK, MemoryTyped PROVE Half!TypeOK
    OBVIOUS
  <1>1. policy \in Half!Policies /\ feed \subseteq Versions /\ request \in MaybeVersion
    BY DEF TypeOK, Half!Policies, Half!Channels, Channels
  <1>2. QED
    BY <1>1, RunningTyped DEF MemoryTyped, Half!TypeOK, Half!MaybeVersion, MaybeVersion

LEMMA SysStep ==
    ASSUME StaleRequests, SysInv, [SysNext]_<<vars, memory>> PROVE SysInv'
  <1>1. TypeOK'
    BY StepMaps, TypeStep DEF SysInv
  <1>2. /\ TypeOK /\ Half!TypeOK /\ Half!CheckHeld /\ OfferInv
        /\ op \in [Half!Procs -> Half!OpType] /\ db \in Half!Policies
        /\ {booted, checking, missed} \subseteq BOOLEAN /\ decision \in MaybeVersion
    BY DEF SysInv, Half!IInv, Half!TypeOK, Half!MaybeVersion, MaybeVersion
  <1>0. TypeOK' /\ MemoryTyped' => Half!TypeOK'
    BY HalfTyped, PTL
  <1>3. CASE UNCHANGED <<live, memory>>
    <2>1. Running' = Running
      BY <1>3 DEF Running, AppAnswers
    <2>2. Half!TypeOK'
      BY <1>0, <1>1, <1>2, <1>3 DEF MemoryTyped
    <2>3. Half!CheckHeld' /\ OfferInv'
      BY <1>2, <1>3, <2>1 DEF Half!CheckHeld, Half!InCheck, OfferInv, Upgrade
    <2>4. QED
      BY <1>1, <2>2, <2>3 DEF SysInv, Half!IInv
  <1>4. CASE App!AppDies
    <2>1. /\ op' = [p \in Half!Procs |-> Half!Idle] /\ UNCHANGED <<db, missed>>
          /\ booted' = FALSE /\ checking' = FALSE /\ decision' = None
      BY <1>4, SameDeath DEF Half!AppDies
    <2>2. op' \in [Half!Procs -> Half!OpType] /\ \A p \in Half!Procs : op'[p] = Half!Idle
      BY <2>1, IdleIs
    <2>3. {booted', checking', missed'} \subseteq BOOLEAN /\ decision' \in MaybeVersion
      BY <1>2, <2>1 DEF MaybeVersion
    <2>4. Half!TypeOK'
      BY <1>0, <1>1, <1>2, <2>1, <2>2, <2>3 DEF MemoryTyped
    <2>5. Half!CheckHeld'
      BY <2>1, <2>2, IdleIs DEF Half!CheckHeld, Half!InCheck
    <2>6. OfferInv'
      BY <2>1, <2>2, IdleIs DEF OfferInv
    <2>7. QED
      BY <1>1, <2>4, <2>5, <2>6 DEF SysInv, Half!IInv
  <1>5. CASE AppStep
    <2>1. Half!AppStep /\ UNCHANGED live
      BY <1>5, SameHalf DEF AppStep
    <2>2. Running' = Running
      BY <2>1 DEF Running, AppAnswers
    <2>3. Half!IInv'
      BY <2>1, HalfStep DEF Half!Next, SysInv
    <2>4. QED
      BY <1>1, <2>1, <2>2, <2>3, OfferStep DEF SysInv
  <1>6. QED
    BY <1>3, <1>4, <1>5 DEF SysNext, MachineStep, PowerFailsForAll

LEMMA SysStarts == SysInit => Init /\ SysInv
  <1> SUFFICES ASSUME SysInit PROVE Init /\ SysInv
    OBVIOUS
  <1>1. Init /\ TypeOK
    BY TypeInit DEF SysInit
  <1>2. /\ db = policy /\ booted = TRUE /\ checking = FALSE /\ decision = None /\ missed = FALSE
        /\ op = [p \in Half!Procs |-> Half!Idle]
    BY DEF SysInit, App!AppInit, App!Idle, Half!Idle, App!DefaultPolicy, Half!DefaultPolicy
  <1>3. op \in [Half!Procs -> Half!OpType] /\ \A p \in Half!Procs : op[p] = Half!Idle
    BY <1>2, IdleIs
  <1>4. Half!TypeOK
    <2>1. db \in Half!Policies
      BY <1>1, <1>2 DEF TypeOK, Half!Policies, Half!Channels, Channels
    <2>2. {booted, checking, missed} \subseteq BOOLEAN /\ decision \in MaybeVersion
      BY <1>2 DEF MaybeVersion
    <2>3. QED
      BY <1>1, <1>3, <2>1, <2>2, HalfTyped DEF MemoryTyped
  <1>5. Half!CheckHeld
    BY <1>2, <1>3, IdleIs DEF Half!CheckHeld, Half!InCheck
  <1>6. OfferInv
    BY <1>2, <1>3, IdleIs DEF OfferInv
  <1>7. QED
    BY <1>1, <1>4, <1>5, <1>6 DEF SysInv, Half!IInv

LEMMA SysAlways == ASSUME StaleRequests PROVE SysSpec => []SysInv
  BY SysStarts, SysStep, PTL DEF SysSpec

(* update.service.ts is a user of the updater like any that Updater allows: *)
(* whatever requests are in flight and wherever the script, a failing       *)
(* command or a power failure cuts them short, it asks only for what is     *)
(* newer than what runs, and only while it runs.                            *)
THEOREM AppOnlyAsks == ASSUME StaleRequests PROVE SysSpec => AppIsAUser
  BY SysStarts, StepMaps, SysAlways, PTL DEF SysSpec, AppIsAUser, Spec

(* With both halves at work the service is up between runs, on exactly the  *)
(* tree in /opt.                                                            *)
THEOREM SystemStaysUp == ASSUME StaleRequests, ~MayAbort PROVE SysSpec => []ServiceUp
  BY AppOnlyAsks, ServiceStaysUp, PTL DEF AppIsAUser

(* With both halves at work, and with every failure either of them has, a   *)
(* version whose failure is the last attempt on record is not tried again   *)
(* unasked.                                                                 *)
THEOREM SystemRemembers == ASSUME StaleRequests PROVE SysSpec => FailureRemembered
  BY AppOnlyAsks, FailureIsRemembered, PTL DEF AppIsAUser
=============================================================================
