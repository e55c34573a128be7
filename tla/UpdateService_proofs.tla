------------------------- MODULE UpdateService_proofs -------------------------
(***************************************************************************)
(* For any number of requests in flight, with the timer and with restarts: *)
(* this.checking is up exactly while one look at the feed is under way, and*)
(* what is written as a request was the newest release after the click.    *)
(* For one request at a time: the policy file mirrors the database.        *)
(***************************************************************************)
EXTENDS UpdateService, TLAPS

Procs == Ops \cup {Timer}

USE DEF files, stored, memory, vars, Procs, At

LEMMA PolicyTyped ==
    ASSUME NEW c \in Channels, NEW a \in BOOLEAN
    PROVE  [channel |-> c, apply |-> a] \in Policies
  BY DEF Policies

LEMMA DefaultTyped == DefaultPolicy \in Policies
  BY DEF DefaultPolicy, Policies, Channels

LEMMA IdleTyped == Idle \in OpType /\ Idle.at = "idle"
  BY DefaultTyped DEF Idle, OpType, Places, Kinds, MaybeVersion, Channels

LEMMA ChooseTyped ==
    ASSUME NEW releases \in SUBSET Versions, NEW channel
    PROVE  ChooseUpdate(releases, channel) \in MaybeVersion
  <1> DEFINE better == {v \in Newest(releases, channel) : v > running}
  <1>1. better \subseteq Versions
    BY DEF Newest
  <1>2. CASE better = {}
    BY <1>2 DEF ChooseUpdate, MaybeVersion
  <1>3. CASE better # {}
    <2>1. (CHOOSE v \in better : TRUE) \in better
      BY <1>3
    <2>2. QED
      BY <1>1, <2>1 DEF ChooseUpdate, MaybeVersion
  <1>4. QED
    BY <1>2, <1>3

LEMMA NewestTyped ==
    ASSUME NEW releases \in SUBSET Versions
    PROVE  UNION {Newest(releases, channel) : channel \in Channels \ {"off"}} \subseteq Versions
  BY DEF Newest

LEMMA AnsweredTyped ==
    ASSUME TypeOK, NEW p \in Procs, NEW release \in MaybeVersion
    PROVE  /\ Answered(p, release) \in OpType
           /\ Answered(p, release).at \in {"idle", "reply"}
  <1>1. op[p] \in OpType
    BY DEF TypeOK
  <1>2. [op[p] EXCEPT !.at = "reply", !.seen = release] \in OpType
    BY <1>1 DEF OpType, Places
  <1>3. [op[p] EXCEPT !.at = "reply", !.seen = release].at = "reply"
    BY <1>1 DEF OpType
  <1>4. QED
    BY <1>2, <1>3, IdleTyped DEF Answered

(* What a step of one operation does to op: that operation gets a new       *)
(* record, and nothing else moves.                                          *)
Moves(p, record) == record \in OpType /\ op' = [op EXCEPT ![p] = record]

(* The types, and the flag with the one look at the feed that holds it.     *)
IInv == TypeOK /\ CheckHeld

LEMMA OutOfCheck ==
    ASSUME IInv, NEW p \in Procs, NEW record, Moves(p, record),
           ~InCheck(p), record.at \notin {"policy", "fetch"}, UNCHANGED checking
    PROVE  op' \in [Procs -> OpType] /\ CheckHeld'
  BY DEF IInv, TypeOK, CheckHeld, InCheck, Moves

LEMMA CheckOver ==
    ASSUME IInv, NEW p \in Procs, NEW record, Moves(p, record),
           InCheck(p), record.at \notin {"policy", "fetch"}, checking' = FALSE
    PROVE  op' \in [Procs -> OpType] /\ CheckHeld'
  BY DEF IInv, TypeOK, CheckHeld, InCheck, Moves

(* The flag and the look at the feed come and go together, whatever the      *)
(* feed, the other operations and the timer do.                              *)
LEMMA HeldStep == IInv /\ [Next]_vars => IInv'
  <1> SUFFICES ASSUME IInv, [Next]_vars PROVE IInv'
    OBVIOUS
  <1>0. /\ TypeOK /\ CheckHeld
        /\ \A p \in Procs : op[p] \in OpType
    BY DEF IInv, TypeOK
  <1>1. CASE Boot \/ BootUnmirrored \/ Cancel
    <2>1. UNCHANGED <<feed, running, db, checking, decision, op>>
      BY <1>1 DEF Boot, BootUnmirrored, Cancel
    <2>2. CheckHeld'
      BY <1>0, <2>1 DEF CheckHeld, InCheck
    <2>3. /\ policy' \in Policies /\ request' \in MaybeVersion
          /\ booted' \in BOOLEAN /\ missed' \in BOOLEAN
      BY <1>0, <1>1, DefaultTyped DEF Boot, BootUnmirrored, Cancel, TypeOK, MaybeVersion
    <2>4. QED
      BY <1>0, <2>1, <2>2, <2>3 DEF IInv, TypeOK
  <1>2. CASE TimerFires
    <2>1. Timer \in Procs /\ [Idle EXCEPT !.at = "check"] \in OpType
            /\ [Idle EXCEPT !.at = "check"].at = "check"
      BY IdleTyped DEF OpType, Places
    <2>2. op' \in [Procs -> OpType] /\ CheckHeld'
      BY <1>2, <2>1, OutOfCheck DEF TimerFires, Moves, InCheck
    <2>3. QED
      BY <1>0, <1>2, <2>2 DEF TimerFires, IInv, TypeOK
  <1>3. ASSUME NEW p \in Ops, SaveBegins(p) PROVE IInv'
    <2>1. PICK channel \in Channels, apply \in BOOLEAN, given \in SUBSET Rows \ {{}} :
            op' = [op EXCEPT ![p] = [Idle EXCEPT
                     !.at = "rows", !.kind = "save", !.todo = Rows,
                     !.next = [channel |-> IF "channel" \in given THEN channel ELSE db.channel,
                               apply |-> IF "apply" \in given THEN apply ELSE db.apply]]]
      BY <1>3 DEF SaveBegins
    <2> DEFINE next == [channel |-> IF "channel" \in given THEN channel ELSE db.channel,
                        apply |-> IF "apply" \in given THEN apply ELSE db.apply]
               record == [Idle EXCEPT !.at = "rows", !.kind = "save", !.todo = Rows,
                                      !.next = next]
    <2>2. next \in Policies
      BY <1>0 DEF TypeOK, Policies
    <2>3. record \in OpType /\ record.at = "rows"
      <3> HIDE DEF next
      <3> QED
        BY <2>2, IdleTyped DEF OpType, Places, Kinds, Rows
    <2>4. op' \in [Procs -> OpType] /\ CheckHeld'
      <3>1. Moves(p, record) /\ ~InCheck(p) /\ UNCHANGED checking
        <4>1. op' = [op EXCEPT ![p] = record]
          BY <2>1
        <4> HIDE DEF record
        <4> QED
          BY <1>3, <2>3, <4>1 DEF Moves, SaveBegins, InCheck
      <3> HIDE DEF record
      <3> QED
        BY <2>3, <3>1, OutOfCheck
    <2>5. QED
      BY <1>0, <1>3, <2>4 DEF SaveBegins, IInv, TypeOK
  <1>4. ASSUME NEW p \in Ops, InstallBegins(p) PROVE IInv'
    <2>1. PICK v \in Versions :
            op' = [op EXCEPT ![p] = [Idle EXCEPT !.at = "check", !.kind = "install",
                                                 !.wanted = v, !.since = NewestNow]]
      BY <1>4 DEF InstallBegins
    <2> DEFINE record == [Idle EXCEPT !.at = "check", !.kind = "install",
                                      !.wanted = v, !.since = NewestNow]
    <2>2. NewestNow \in SUBSET Versions
      BY <1>0, NewestTyped DEF NewestNow, TypeOK
    <2>3. record \in OpType /\ record.at = "check"
      BY <2>2, IdleTyped DEF OpType, Places, Kinds, MaybeVersion
    <2>4. Moves(p, record) /\ ~InCheck(p) /\ UNCHANGED checking
      BY <1>4, <2>1, <2>3 DEF Moves, InstallBegins, InCheck
    <2>5. op' \in [Procs -> OpType] /\ CheckHeld'
      <3> HIDE DEF record
      <3> QED
        BY <2>3, <2>4, OutOfCheck
    <2>6. QED
      BY <1>0, <1>4, <2>5 DEF InstallBegins, IInv, TypeOK
  <1>5. ASSUME NEW p \in Procs, SaveRow(p) PROVE IInv'
    <2>1. PICK row \in op[p].todo :
            /\ db' = [db EXCEPT ![row] = op[p].next[row]]
            /\ op' = [op EXCEPT ![p].todo = @ \ {row},
                                ![p].at = IF op[p].todo = {row} THEN "file" ELSE "rows"]
      BY <1>5 DEF SaveRow
    <2>2. row \in Rows /\ op[p].todo \subseteq Rows /\ op[p].next \in Policies
      BY <1>0 DEF OpType
    <2>3. db' \in Policies
      BY <1>0, <2>1, <2>2 DEF TypeOK, Policies, Rows
    <2> DEFINE record == [op[p] EXCEPT !.todo = @ \ {row},
                            !.at = IF op[p].todo = {row} THEN "file" ELSE "rows"]
    <2>4. record \in OpType /\ record.at \in {"file", "rows"}
      BY <1>0, <2>2 DEF OpType, Places
    <2>5. Moves(p, record) /\ ~InCheck(p) /\ UNCHANGED checking
      BY <1>0, <1>5, <2>1, <2>4 DEF Moves, SaveRow, InCheck, TypeOK
    <2>6. op' \in [Procs -> OpType] /\ CheckHeld'
      <3> HIDE DEF record
      <3> QED
        BY <2>4, <2>5, OutOfCheck
    <2>7. QED
      BY <1>0, <1>5, <2>3, <2>6 DEF SaveRow, IInv, TypeOK
  <1>18. ASSUME NEW p \in Procs, RowRejected(p) PROVE IInv'
    <2>1. PICK row \in op[p].todo :
            op' = [op EXCEPT ![p] = IF op[p].todo = {row} THEN Idle
                                    ELSE [op[p] EXCEPT !.todo = @ \ {row}, !.at = "stray"]]
      BY <1>18 DEF RowRejected
    <2> DEFINE record == IF op[p].todo = {row} THEN Idle
                         ELSE [op[p] EXCEPT !.todo = @ \ {row}, !.at = "stray"]
    <2>2. record \in OpType /\ record.at \in {"idle", "stray"}
      BY <1>0, IdleTyped DEF OpType, Places
    <2>3. Moves(p, record) /\ ~InCheck(p) /\ UNCHANGED checking
      BY <1>18, <2>1, <2>2 DEF Moves, RowRejected, InCheck
    <2>4. op' \in [Procs -> OpType] /\ CheckHeld'
      <3> HIDE DEF record
      <3> QED
        BY <2>2, <2>3, OutOfCheck
    <2>5. QED
      BY <1>0, <1>18, <2>4 DEF RowRejected, IInv, TypeOK
  <1>19. ASSUME NEW p \in Procs, StrayRow(p) PROVE IInv'
    <2>1. PICK row \in op[p].todo :
            /\ db' = [db EXCEPT ![row] = op[p].next[row]]
            /\ op' = [op EXCEPT ![p] = IF op[p].todo = {row} THEN Idle
                                       ELSE [op[p] EXCEPT !.todo = @ \ {row}]]
      BY <1>19 DEF StrayRow
    <2>2. row \in Rows /\ op[p].next \in Policies /\ op[p].at = "stray"
      BY <1>0, <1>19 DEF OpType, StrayRow
    <2>3. db' \in Policies
      BY <1>0, <2>1, <2>2 DEF TypeOK, Policies, Rows
    <2> DEFINE record == IF op[p].todo = {row} THEN Idle ELSE [op[p] EXCEPT !.todo = @ \ {row}]
    <2>4. record \in OpType /\ record.at \in {"idle", "stray"}
      BY <1>0, <2>2, IdleTyped DEF OpType, Places
    <2>5. Moves(p, record) /\ ~InCheck(p) /\ UNCHANGED checking
      BY <1>19, <2>1, <2>4 DEF Moves, StrayRow, InCheck
    <2>6. op' \in [Procs -> OpType] /\ CheckHeld'
      <3> HIDE DEF record
      <3> QED
        BY <2>4, <2>5, OutOfCheck
    <2>7. QED
      BY <1>0, <1>19, <2>3, <2>6 DEF StrayRow, IInv, TypeOK
  <1>20. ASSUME NEW p \in Procs, FileFails(p) \/ InstallFails(p) PROVE IInv'
    <2>1. op' \in [Procs -> OpType] /\ CheckHeld'
      BY <1>20, IdleTyped, OutOfCheck DEF FileFails, InstallFails, Moves, InCheck
    <2>2. policy' \in Policies /\ request' \in MaybeVersion /\ missed' \in BOOLEAN
      BY <1>0, <1>20, DefaultTyped DEF FileFails, InstallFails, TypeOK, MaybeVersion
    <2>3. QED
      BY <1>0, <1>20, <2>1, <2>2 DEF FileFails, InstallFails, IInv, TypeOK
  <1>21. ASSUME NEW p \in Procs, CheckFails(p) PROVE IInv'
    <2>1. op' \in [Procs -> OpType] /\ CheckHeld'
      BY <1>21, IdleTyped, CheckOver DEF CheckFails, Moves, InCheck
    <2>2. QED
      BY <1>0, <1>21, <2>1 DEF CheckFails, IInv, TypeOK
  <1>6. ASSUME NEW p \in Procs, SaveFile(p) PROVE IInv'
    <2> DEFINE record == [Idle EXCEPT !.kind = "save", !.at =
                            IF op[p].next.channel = "off" THEN "off" ELSE "check"]
    <2>1. record \in OpType /\ record.at \in {"off", "check"}
      BY IdleTyped DEF OpType, Places, Kinds
    <2>2. Moves(p, record) /\ ~InCheck(p) /\ UNCHANGED checking
      BY <1>0, <1>6, <2>1 DEF Moves, SaveFile, InCheck, TypeOK
    <2>3. op' \in [Procs -> OpType] /\ CheckHeld'
      <3> HIDE DEF record
      <3> QED
        BY <2>1, <2>2, OutOfCheck
    <2>4. policy' \in Policies
      BY <1>0, <1>6 DEF SaveFile, OpType
    <2>5. QED
      BY <1>0, <1>6, <2>3, <2>4 DEF SaveFile, IInv, TypeOK
  <1>7. ASSUME NEW p \in Procs, SaveOff(p) PROVE IInv'
    <2> DEFINE record == [op[p] EXCEPT !.at = "check"]
    <2>1. record \in OpType /\ record.at = "check"
      BY <1>0 DEF OpType, Places
    <2>2. Moves(p, record) /\ ~InCheck(p) /\ UNCHANGED checking
      BY <1>0, <1>7, <2>1 DEF Moves, SaveOff, InCheck, TypeOK
    <2>3. op' \in [Procs -> OpType] /\ CheckHeld'
      <3> HIDE DEF record
      <3> QED
        BY <2>1, <2>2, OutOfCheck
    <2>4. QED
      BY <1>0, <1>7, <2>3 DEF SaveOff, IInv, TypeOK, MaybeVersion
  <1>8. ASSUME NEW p \in Procs, InstallReply(p) PROVE IInv'
    <2> DEFINE record == IF op[p].seen # None /\ op[p].seen = op[p].wanted
                           THEN [op[p] EXCEPT !.at = "write"] ELSE Idle
    <2>1. record \in OpType /\ record.at \in {"write", "idle"}
      BY <1>0, IdleTyped DEF OpType, Places
    <2>2. Moves(p, record) /\ ~InCheck(p) /\ UNCHANGED checking
      BY <1>8, <2>1 DEF Moves, InstallReply, InCheck
    <2>3. op' \in [Procs -> OpType] /\ CheckHeld'
      <3> HIDE DEF record
      <3> QED
        BY <2>1, <2>2, OutOfCheck
    <2>4. QED
      BY <1>0, <1>8, <2>3 DEF InstallReply, IInv, TypeOK
  <1>9. ASSUME NEW p \in Procs, InstallWrites(p) PROVE IInv'
    <2>1. op' \in [Procs -> OpType] /\ CheckHeld'
      BY <1>9, IdleTyped, OutOfCheck DEF InstallWrites, Moves, InCheck
    <2>2. request' \in MaybeVersion
      BY <1>0, <1>9 DEF InstallWrites, OpType
    <2>3. QED
      BY <1>0, <1>9, <2>1, <2>2 DEF InstallWrites, IInv, TypeOK
  <1>10. ASSUME NEW p \in Procs, CheckJoins(p) PROVE IInv'
    <2> DEFINE record == IF op[p].kind = "install"
                           THEN [Answered(p, decision) EXCEPT !.since = Versions] ELSE Idle
    <2>1. Answered(p, decision) \in OpType /\ Answered(p, decision).at \in {"idle", "reply"}
      BY <1>0, AnsweredTyped DEF TypeOK
    <2>2. record \in OpType /\ record.at \in {"idle", "reply"}
      <3>1. CASE op[p].kind = "install"
        BY <2>1, <3>1 DEF OpType
      <3>2. CASE op[p].kind # "install"
        BY <3>2, IdleTyped
      <3>3. QED
        BY <3>1, <3>2
    <2>3. op' = [op EXCEPT ![p] = record]
      BY <1>10 DEF CheckJoins
    <2>4. op' \in [Procs -> OpType] /\ CheckHeld'
      <3> HIDE DEF record
      <3>1. QED
        BY <1>10, <2>2, <2>3, OutOfCheck DEF CheckJoins, Moves, InCheck
    <2>5. QED
      BY <1>0, <1>10, <2>4 DEF CheckJoins, IInv, TypeOK
  <1>11. ASSUME NEW p \in Procs, CheckBegins(p) PROVE IInv'
    <2> DEFINE record == [op[p] EXCEPT !.at = "policy"]
    <2>1. record \in OpType /\ record.at = "policy"
      BY <1>0 DEF OpType, Places
    <2>2. op' = [op EXCEPT ![p] = record] /\ ~InCheck(p)
      BY <1>0, <1>11 DEF CheckBegins, InCheck, TypeOK
    <2>3. op' \in [Procs -> OpType] /\ CheckHeld'
      BY <1>0, <1>11, <2>1, <2>2 DEF CheckBegins, CheckHeld, InCheck, TypeOK
    <2>4. QED
      BY <1>0, <1>11, <2>3 DEF CheckBegins, IInv, TypeOK
  <1>12. ASSUME NEW p \in Procs, CheckReadsPolicy(p) PROVE IInv'
    <2>1. CASE db.channel = "off"
      <3>1. Answered(p, None) \in OpType /\ Answered(p, None).at \in {"idle", "reply"}
        BY <1>0, AnsweredTyped DEF MaybeVersion
      <3>2. op' \in [Procs -> OpType] /\ CheckHeld'
        BY <1>12, <2>1, <3>1, CheckOver DEF CheckReadsPolicy, Moves, InCheck
      <3>3. QED
        BY <1>0, <1>12, <2>1, <3>2 DEF CheckReadsPolicy, IInv, TypeOK, MaybeVersion
    <2>2. CASE db.channel # "off"
      <3> DEFINE record == [op[p] EXCEPT !.at = "fetch", !.channel = db.channel]
      <3>1. record \in OpType /\ record.at = "fetch"
        <4>1. db.channel \in Channels /\ op[p] \in OpType
          BY <1>0 DEF TypeOK, Policies
        <4>2. QED
          BY <4>1 DEF OpType, Places
      <3>2. op' = [op EXCEPT ![p] = record] /\ InCheck(p) /\ UNCHANGED checking
        <4>1. /\ op' = [op EXCEPT ![p].at = "fetch", ![p].channel = db.channel]
              /\ UNCHANGED checking /\ op[p].at = "policy"
          BY <1>12, <2>2 DEF CheckReadsPolicy
        <4>2. op \in [Procs -> OpType]
          BY <1>0 DEF TypeOK
        <4>3. op' = [op EXCEPT ![p] = record]
          BY <4>1, <4>2
        <4>4. QED
          BY <4>1, <4>3 DEF InCheck
      <3>3. op' \in [Procs -> OpType] /\ CheckHeld'
        BY <1>0, <3>1, <3>2 DEF CheckHeld, InCheck, TypeOK
      <3>4. QED
        BY <1>0, <1>12, <2>2, <3>3 DEF CheckReadsPolicy, IInv, TypeOK
    <2>3. QED
      BY <2>1, <2>2
  <1>13. ASSUME NEW p \in Procs, CheckEnds(p) PROVE IInv'
    <2>1. PICK releases \in {feed, {}} :
            /\ decision' = ChooseUpdate(releases, op[p].channel)
            /\ op' = [op EXCEPT ![p] = Answered(p, ChooseUpdate(releases, op[p].channel))]
      BY <1>13 DEF CheckEnds
    <2>2. decision' \in MaybeVersion
      BY <1>0, <2>1, ChooseTyped DEF TypeOK
    <2>3. Answered(p, decision') \in OpType /\ Answered(p, decision').at \in {"idle", "reply"}
      BY <1>0, <2>2, AnsweredTyped
    <2>4. op' \in [Procs -> OpType] /\ CheckHeld'
      BY <1>13, <2>1, <2>3, CheckOver DEF CheckEnds, Moves, InCheck
    <2>5. QED
      BY <1>0, <1>13, <2>2, <2>4 DEF CheckEnds, IInv, TypeOK
  <1>14. CASE FeedChanges
    <2>1. PICK releases \in SUBSET Versions :
            /\ feed' = releases
            /\ op' = [p \in Procs |->
                        IF op[p].kind # "install" THEN op[p]
                        ELSE [op[p] EXCEPT !.since = @ \cup UNION
                               {Newest(releases, channel) : channel \in Channels \ {"off"}}]]
      BY <1>14 DEF FeedChanges
    <2> DEFINE news == UNION {Newest(releases, channel) : channel \in Channels \ {"off"}}
    <2>2. news \in SUBSET Versions
      BY NewestTyped
    <2>3. \A p \in Procs : op'[p] \in OpType /\ op'[p].at = op[p].at
      <3> HIDE DEF news
      <3>1. TAKE p \in Procs
      <3>2. op'[p] = IF op[p].kind # "install" THEN op[p]
                     ELSE [op[p] EXCEPT !.since = @ \cup news]
        BY <2>1 DEF news
      <3>3. QED
        BY <1>0, <2>2, <3>2 DEF OpType
    <2>4. op' \in [Procs -> OpType]
      BY <2>1, <2>3
    <2>5. CheckHeld'
      BY <1>0, <1>14, <2>3 DEF CheckHeld, InCheck, FeedChanges
    <2>6. QED
      BY <1>0, <1>14, <2>1, <2>4, <2>5 DEF FeedChanges, IInv, TypeOK
  <1>15. CASE Restart
    <2>1. op' = [p \in Procs |-> Idle] /\ checking' = FALSE
      BY <1>15 DEF Restart, AppDies
    <2>2. op' \in [Procs -> OpType] /\ CheckHeld'
      BY <2>1, IdleTyped DEF CheckHeld, InCheck
    <2>3. QED
      BY <1>0, <1>15, <2>2 DEF Restart, AppDies, IInv, TypeOK, MaybeVersion
  <1>16. CASE UNCHANGED vars
    BY <1>0, <1>16 DEF IInv, TypeOK, CheckHeld, InCheck
  <1>17. QED
    BY <1>1, <1>2, <1>3, <1>4, <1>5, <1>6, <1>7, <1>8, <1>9, <1>10, <1>11, <1>12,
       <1>13, <1>14, <1>15, <1>16, <1>18, <1>19, <1>20, <1>21
    DEF Next, AppStep, Work, Check

LEMMA HeldInit == Init => IInv
  <1> SUFFICES ASSUME Init PROVE IInv
    OBVIOUS
  <1>1. op \in [Procs -> OpType] /\ CheckHeld
    BY IdleTyped DEF Init, AppInit, CheckHeld, InCheck
  <1>2. QED
    BY <1>1 DEF Init, AppInit, IInv, TypeOK, MaybeVersion

(* The types of the settings, the hand-off files and the operations in      *)
(* flight, in every reachable state of update.service.ts.                   *)
THEOREM TypeCorrect == Spec => []TypeOK
  <1>1. IInv => TypeOK
    BY DEF IInv
  <1>2. QED
    BY <1>1, HeldInit, HeldStep, PTL DEF Spec

(* At most one look at the feed at a time, and the flag never outlives it.  *)
THEOREM CheckIsHeld == Spec => []CheckHeld
  <1>1. IInv => CheckHeld
    BY DEF IInv
  <1>2. QED
    BY <1>1, HeldInit, HeldStep, PTL DEF Spec

-----------------------------------------------------------------------------
(* What an operation knows of the feed, from the click to the file: until   *)
(* its look has ended it has heard of all that is the newest now.           *)
Looks(r, newest) ==
    /\ r.at \in {"rows", "stray", "file", "off"} => r.kind = "save"
    /\ r.kind = "install" /\ r.at \in {"check", "policy", "fetch"} => newest \subseteq r.since
    /\ r.at \in {"reply", "write"} /\ r.seen # None => r.seen \in r.since
    /\ r.at = "write" => r.seen # None

LookInv == \A p \in Procs : Looks(op[p], NewestNow)

LEMMA LookMoves ==
    ASSUME TypeOK, LookInv, NEW p \in Procs, NEW record,
           op' = [op EXCEPT ![p] = record], UNCHANGED feed, Looks(record, NewestNow)
    PROVE  LookInv'
  <1>1. NewestNow' = NewestNow
    BY DEF NewestNow, Newest
  <1>2. \A q \in Procs : op'[q] = op[q] \/ op'[q] = record
    BY DEF TypeOK
  <1>3. QED
    BY <1>1, <1>2 DEF LookInv

(* A version that chooseUpdate() names is the newest of a channel now.       *)
LEMMA ChosenIsNewest ==
    ASSUME NEW releases \in {feed, {}}, NEW channel \in Channels,
           ChooseUpdate(releases, channel) # None
    PROVE  ChooseUpdate(releases, channel) \in NewestNow
  <1> DEFINE better == {v \in Newest(releases, channel) : v > running}
  <1>1. channel # "off" /\ better # {}
    BY DEF ChooseUpdate
  <1>2. ChooseUpdate(releases, channel) \in better
    BY <1>1 DEF ChooseUpdate
  <1>3. releases = feed
    BY <1>1 DEF Newest
  <1>4. QED
    BY <1>1, <1>2, <1>3 DEF NewestNow

LEMMA AnsweredLooks ==
    ASSUME TypeOK, LookInv, NEW p \in Procs, NEW answer,
           op[p].at \in {"policy", "fetch"}, answer = None \/ answer \in NewestNow
    PROVE  Looks(Answered(p, answer), NewestNow)
  <1>1. op[p] \in OpType /\ Looks(op[p], NewestNow)
    BY DEF TypeOK, LookInv
  <1>2. QED
    BY <1>1 DEF Answered, Looks, OpType, Idle

LEMMA LookStep == ASSUME TypeOK, LookInv, [Next]_vars PROVE LookInv'
  <1>0. /\ \A p \in Procs : op[p] \in OpType /\ Looks(op[p], NewestNow)
        /\ op \in [Procs -> OpType]
    BY DEF LookInv, TypeOK
  <1>1. CASE UNCHANGED <<feed, op>>
    <2>1. NewestNow' = NewestNow
      BY <1>1 DEF NewestNow, Newest
    <2>2. QED
      BY <1>1, <2>1 DEF LookInv
  <1>2. CASE TimerFires
    <2> DEFINE record == [Idle EXCEPT !.at = "check"]
    <2>1. record.at = "check" /\ record.kind = "timer"
      BY DEF Idle
    <2>2. op' = [op EXCEPT ![Timer] = record] /\ UNCHANGED feed
      BY <1>2 DEF TimerFires
    <2> HIDE DEF record
    <2>3. Looks(record, NewestNow)
      BY <2>1 DEF Looks
    <2>4. QED
      BY <2>2, <2>3, LookMoves
  <1>3. ASSUME NEW p \in Ops, SaveBegins(p) PROVE LookInv'
    <2>1. PICK channel \in Channels, apply \in BOOLEAN, given \in SUBSET Rows \ {{}} :
            op' = [op EXCEPT ![p] = [Idle EXCEPT
                     !.at = "rows", !.kind = "save", !.todo = Rows,
                     !.next = [channel |-> IF "channel" \in given THEN channel ELSE db.channel,
                               apply |-> IF "apply" \in given THEN apply ELSE db.apply]]]
      BY <1>3, Zenon DEF SaveBegins
    <2> DEFINE next == [channel |-> IF "channel" \in given THEN channel ELSE db.channel,
                        apply |-> IF "apply" \in given THEN apply ELSE db.apply]
               record == [Idle EXCEPT !.at = "rows", !.kind = "save", !.todo = Rows,
                                      !.next = next]
    <2>2. Looks(record, NewestNow)
      <3> HIDE DEF next
      <3> QED
        BY DEF Looks, Idle
    <2>3. op' = [op EXCEPT ![p] = record] /\ UNCHANGED feed
      BY <1>3, <2>1 DEF SaveBegins
    <2> HIDE DEF record
    <2>4. QED
      BY <2>2, <2>3, LookMoves
  <1>4. ASSUME NEW p \in Ops, InstallBegins(p) PROVE LookInv'
    <2>1. PICK v \in Versions :
            op' = [op EXCEPT ![p] = [Idle EXCEPT !.at = "check", !.kind = "install",
                                                 !.wanted = v, !.since = NewestNow]]
      BY <1>4, Zenon DEF InstallBegins
    <2> DEFINE record == [Idle EXCEPT !.at = "check", !.kind = "install",
                                      !.wanted = v, !.since = NewestNow]
    <2>2. Looks(record, NewestNow)
      BY DEF Looks, Idle
    <2>3. op' = [op EXCEPT ![p] = record] /\ UNCHANGED feed
      BY <1>4, <2>1 DEF InstallBegins
    <2> HIDE DEF record
    <2>4. QED
      BY <2>2, <2>3, LookMoves
  <1>5. ASSUME NEW p \in Procs, NEW record, UNCHANGED feed,
               op[p].at \in {"rows", "stray", "file", "off"}, op' = [op EXCEPT ![p] = record],
               record.at \in {"rows", "stray", "file", "off", "check"}, record.kind = "save"
        PROVE  LookInv'
    <2>1. Looks(record, NewestNow)
      BY <1>5 DEF Looks
    <2>2. QED
      BY <1>5, <2>1, LookMoves
  <1>51. ASSUME NEW p \in Procs, SaveRow(p) PROVE LookInv'
    <2>1. PICK row \in op[p].todo :
            op' = [op EXCEPT ![p].todo = @ \ {row},
                             ![p].at = IF op[p].todo = {row} THEN "file" ELSE "rows"]
      BY <1>51 DEF SaveRow
    <2> DEFINE record == [op[p] EXCEPT !.todo = @ \ {row},
                            !.at = IF op[p].todo = {row} THEN "file" ELSE "rows"]
    <2>2. record.at \in {"file", "rows"} /\ record.kind = op[p].kind
      BY <1>0 DEF OpType
    <2>3. op' = [op EXCEPT ![p] = record]
      BY <1>0, <2>1 DEF OpType
    <2>4. op[p].at = "rows" /\ op[p].kind = "save" /\ UNCHANGED feed
      BY <1>0, <1>51 DEF SaveRow, Looks
    <2> HIDE DEF record
    <2>5. QED
      BY <1>5, <2>2, <2>3, <2>4
  <1>52. ASSUME NEW p \in Procs, SaveOff(p) PROVE LookInv'
    <2> DEFINE record == [op[p] EXCEPT !.at = "check"]
    <2>1. record.at = "check" /\ record.kind = op[p].kind
      BY <1>0 DEF OpType
    <2>2. op' = [op EXCEPT ![p] = record]
      BY <1>0, <1>52 DEF SaveOff, OpType
    <2>3. op[p].at = "off" /\ op[p].kind = "save" /\ UNCHANGED feed
      BY <1>0, <1>52 DEF SaveOff, Looks
    <2> HIDE DEF record
    <2>4. QED
      BY <1>5, <2>1, <2>2, <2>3
  <1>53. ASSUME NEW p \in Procs, SaveFile(p) PROVE LookInv'
    <2> DEFINE record == [Idle EXCEPT !.kind = "save",
                            !.at = IF op[p].next.channel = "off" THEN "off" ELSE "check"]
    <2>1. record.at \in {"off", "check"} /\ record.kind = "save"
      BY DEF Idle
    <2>2. op' = [op EXCEPT ![p] = record] /\ op[p].at = "file" /\ UNCHANGED feed
      BY <1>53 DEF SaveFile
    <2> HIDE DEF record
    <2>3. QED
      BY <1>5, <2>1, <2>2
  <1>54. ASSUME NEW p \in Procs, RowRejected(p) \/ StrayRow(p) PROVE LookInv'
    <2>1. PICK row \in op[p].todo, place \in {"rows", "stray"} :
            op' = [op EXCEPT ![p] = IF op[p].todo = {row} THEN Idle
                                    ELSE [op[p] EXCEPT !.todo = @ \ {row}, !.at = place]]
      <3>1. CASE RowRejected(p)
        BY <3>1 DEF RowRejected
      <3>2. ASSUME StrayRow(p), NEW row \in op[p].todo
            PROVE  [op[p] EXCEPT !.todo = @ \ {row}]
                     = [op[p] EXCEPT !.todo = @ \ {row}, !.at = "stray"]
        BY <1>0, <3>2 DEF StrayRow, OpType
      <3>3. CASE StrayRow(p)
        BY <3>2, <3>3 DEF StrayRow
      <3>4. QED
        BY <1>54, <3>1, <3>3
    <2>2. op[p].at \in {"rows", "stray"} /\ op[p].kind = "save" /\ UNCHANGED feed
      BY <1>0, <1>54 DEF RowRejected, StrayRow, Looks
    <2> DEFINE record == [op[p] EXCEPT !.todo = @ \ {row}, !.at = place]
    <2>3. record.at = place /\ record.kind = op[p].kind
      BY <1>0 DEF OpType
    <2>4. Looks(Idle, NewestNow)
      BY DEF Looks, Idle
    <2> HIDE DEF record
    <2>5. QED
      BY <1>5, <2>1, <2>2, <2>3, <2>4, LookMoves DEF record
  <1>6. ASSUME NEW p \in Procs, InstallReply(p) PROVE LookInv'
    <2> DEFINE record == IF op[p].seen # None /\ op[p].seen = op[p].wanted
                           THEN [op[p] EXCEPT !.at = "write"] ELSE Idle
    <2>1. Looks(record, NewestNow)
      <3>1. Looks(Idle, NewestNow)
        BY DEF Looks, Idle
      <3>2. ASSUME op[p].seen # None PROVE Looks([op[p] EXCEPT !.at = "write"], NewestNow)
        BY <1>0, <1>6, <3>2 DEF InstallReply, Looks, OpType
      <3>3. QED
        BY <3>1, <3>2
    <2>2. op' = [op EXCEPT ![p] = record] /\ UNCHANGED feed
      BY <1>6 DEF InstallReply
    <2> HIDE DEF record
    <2>3. QED
      BY <2>1, <2>2, LookMoves
  <1>7. ASSUME NEW p \in Procs,
               InstallWrites(p) \/ InstallFails(p) \/ FileFails(p) \/ CheckFails(p)
        PROVE  LookInv'
    <2>1. Looks(Idle, NewestNow)
      BY DEF Looks, Idle
    <2>2. QED
      BY <1>7, <2>1, LookMoves DEF InstallWrites, InstallFails, FileFails, CheckFails
  <1>8. ASSUME NEW p \in Procs, CheckJoins(p) PROVE LookInv'
    <2>1. decision \in MaybeVersion
      BY DEF TypeOK
    <2>2. ASSUME op[p].kind = "install"
          PROVE  Looks([Answered(p, decision) EXCEPT !.since = Versions], NewestNow)
      BY <1>0, <2>1, <2>2 DEF Answered, Looks, OpType, MaybeVersion
    <2>3. Looks(Idle, NewestNow)
      BY DEF Looks, Idle
    <2>4. PICK record : op' = [op EXCEPT ![p] = record] /\ Looks(record, NewestNow)
      BY <1>8, <2>2, <2>3 DEF CheckJoins
    <2>5. QED
      BY <1>8, <2>4, LookMoves DEF CheckJoins
  <1>9. ASSUME NEW p \in Procs, CheckBegins(p) PROVE LookInv'
    <2>1. Looks([op[p] EXCEPT !.at = "policy"], NewestNow)
      BY <1>0, <1>9 DEF CheckBegins, Looks, OpType
    <2>2. op' = [op EXCEPT ![p] = [op[p] EXCEPT !.at = "policy"]] /\ UNCHANGED feed
      BY <1>0, <1>9 DEF CheckBegins
    <2>3. QED
      BY <2>1, <2>2, LookMoves
  <1>11. ASSUME NEW p \in Procs, CheckReadsPolicy(p) PROVE LookInv'
    <2>1. CASE db.channel = "off"
      BY <1>11, <2>1, AnsweredLooks, LookMoves DEF CheckReadsPolicy
    <2>2. CASE db.channel # "off"
      <3> DEFINE record == [op[p] EXCEPT !.at = "fetch", !.channel = db.channel]
      <3>1. Looks(record, NewestNow)
        BY <1>0, <1>11 DEF CheckReadsPolicy, Looks, OpType
      <3>2. /\ op' = [op EXCEPT ![p].at = "fetch", ![p].channel = db.channel]
            /\ UNCHANGED feed
        BY <1>11, <2>2 DEF CheckReadsPolicy
      <3>3. op' = [op EXCEPT ![p] = record]
        BY <1>0, <3>2
      <3> HIDE DEF record
      <3>4. QED
        BY <3>1, <3>2, <3>3, LookMoves
    <2>3. QED
      BY <2>1, <2>2
  <1>12. ASSUME NEW p \in Procs, CheckEnds(p) PROVE LookInv'
    <2>1. PICK releases \in {feed, {}} :
            op' = [op EXCEPT ![p] = Answered(p, ChooseUpdate(releases, op[p].channel))]
      BY <1>12 DEF CheckEnds
    <2>2. op[p].channel \in Channels
      BY <1>0 DEF OpType
    <2>3. \/ ChooseUpdate(releases, op[p].channel) = None
          \/ ChooseUpdate(releases, op[p].channel) \in NewestNow
      BY <2>2, ChosenIsNewest
    <2> DEFINE answer == ChooseUpdate(releases, op[p].channel)
               record == Answered(p, answer)
    <2>4. op[p].at = "fetch" /\ UNCHANGED feed
      BY <1>12 DEF CheckEnds
    <2>5. Looks(record, NewestNow)
      <3> HIDE DEF answer
      <3> QED
        BY <2>3, <2>4, AnsweredLooks DEF answer
    <2>6. op' = [op EXCEPT ![p] = record]
      BY <2>1
    <2> HIDE DEF record
    <2>7. QED
      BY <2>4, <2>5, <2>6, LookMoves
  <1>13. CASE FeedChanges
    <2>1. PICK releases \in SUBSET Versions :
            /\ feed' = releases
            /\ op' = [p \in Procs |->
                        IF op[p].kind # "install" THEN op[p]
                        ELSE [op[p] EXCEPT !.since = @ \cup UNION
                               {Newest(releases, channel) : channel \in Channels \ {"off"}}]]
      BY <1>13 DEF FeedChanges
    <2> DEFINE news == UNION {Newest(releases, channel) : channel \in Channels \ {"off"}}
    <2>2. NewestNow' = news
      BY <2>1 DEF NewestNow, Newest
    <2>3. ASSUME NEW p \in Procs PROVE Looks(op'[p], news)
      <3>1. op'[p] = IF op[p].kind # "install" THEN op[p] ELSE [op[p] EXCEPT !.since = @ \cup news]
        BY <2>1
      <3> HIDE DEF news
      <3>2. QED
        BY <1>0, <3>1 DEF Looks, OpType
    <2>4. QED
      BY <2>2, <2>3 DEF LookInv
  <1>14. CASE Restart
    <2>1. op' = [p \in Procs |-> Idle]
      BY <1>14 DEF Restart, AppDies
    <2>2. QED
      BY <2>1 DEF LookInv, Looks, Idle
  <1>15. QED
    BY <1>1, <1>2, <1>3, <1>4, <1>51, <1>52, <1>53, <1>54, <1>6, <1>7, <1>8, <1>9, <1>11,
       <1>12, <1>13, <1>14
    DEF Next, AppStep, Work, Check, Boot, BootUnmirrored, Cancel

(* "Checked against a fresh look at the feed before the request is written": *)
(* with any number of requests in flight, and whatever is published          *)
(* meanwhile, what requestInstall() is about to write has been the newest of *)
(* a channel since the click, unless another's look was joined.              *)
THEOREM LookIsFresh == Spec => []FreshLook
  <1>1. Init => LookInv
    BY DEF Init, AppInit, LookInv, Looks, Idle
  <1>2. IInv /\ LookInv /\ [Next]_vars => LookInv'
    BY LookStep DEF IInv
  <1>3. LookInv => FreshLook
    BY DEF LookInv, Looks, FreshLook
  <1>4. QED
    BY <1>1, <1>2, <1>3, HeldInit, HeldStep, PTL DEF Spec

-----------------------------------------------------------------------------
(* One save at a time: what it has still to write is in its todo, and what  *)
(* is not, the rows already hold.                                           *)
OneRequest == \A p, q \in Ops : p = q

InSave(p) == op[p].at \in {"rows", "file"}

MirrorInv ==
    /\ ~booted => \A p \in Procs : op[p].at = "idle"
    /\ \A p \in Procs : /\ op[p].at \in {"rows", "stray", "file", "off"} =>
                              p \in Ops /\ op[p].kind = "save"
                        /\ op[p].at = "stray" => missed
    /\ \A p \in Procs : InSave(p) =>
         /\ op[p].at = "file" => op[p].todo = {}
         /\ \A row \in Rows : row \in op[p].todo \/ db[row] = op[p].next[row]
    /\ booted /\ ~missed /\ (\A p \in Procs : ~InSave(p)) => policy = db

(* An operation that neither is nor comes to be in a save leaves it be.     *)
LEMMA MirrorMoves ==
    ASSUME TypeOK, MirrorInv, NEW p \in Procs, NEW record, op' = [op EXCEPT ![p] = record],
           ~InSave(p), record.at \notin {"rows", "stray", "file", "off"}, booted,
           UNCHANGED <<db, policy, booted, missed>>
    PROVE  MirrorInv'
  <1>1. \A q \in Procs : op'[q] = IF q = p THEN record ELSE op[q]
    BY DEF TypeOK
  <1>2. \A q \in Procs : InSave(q)' <=> InSave(q)
    BY <1>1 DEF InSave
  <1>3. QED
    BY <1>1, <1>2 DEF MirrorInv, InSave

LEMMA MirrorStep == ASSUME OneRequest, TypeOK, MirrorInv, [Next]_vars PROVE MirrorInv'
  <1>0. /\ \A p \in Procs : op[p] \in OpType
        /\ op \in [Procs -> OpType] /\ db \in Policies
    BY DEF TypeOK
  <1>1. CASE UNCHANGED <<db, policy, booted, op, missed>>
    BY <1>1 DEF MirrorInv, InSave
  <1>2. CASE Boot \/ BootUnmirrored
    BY <1>2 DEF Boot, BootUnmirrored, MirrorInv, InSave
  <1>3. CASE TimerFires
    <2>1. [Idle EXCEPT !.at = "check"].at = "check"
      BY DEF Idle
    <2>2. QED
      BY <1>3, <2>1, MirrorMoves DEF TimerFires, Up, InSave
  <1>4. ASSUME NEW p \in Ops, SaveBegins(p) PROVE MirrorInv'
    <2>1. PICK next : op' = [op EXCEPT ![p] = [Idle EXCEPT
                               !.at = "rows", !.kind = "save", !.todo = Rows, !.next = next]]
      BY <1>4, Zenon DEF SaveBegins
    <2> DEFINE record == [Idle EXCEPT !.at = "rows", !.kind = "save", !.todo = Rows,
                                      !.next = next]
    <2>2. record.at = "rows" /\ record.kind = "save" /\ record.todo = Rows
      BY DEF Idle
    <2>3. op' = [op EXCEPT ![p] = record] /\ UNCHANGED <<db, policy, booted, missed>> /\ booted
      BY <1>4, <2>1 DEF SaveBegins, Up
    <2> HIDE DEF record
    <2>4. \A q \in Procs : op'[q] = IF q = p THEN record ELSE op[q]
      BY <1>0, <2>3
    <2>5. QED
      BY <2>2, <2>3, <2>4 DEF MirrorInv, InSave
  <1>5. ASSUME NEW p \in Procs, SaveRow(p) PROVE MirrorInv'
    <2>1. PICK row \in op[p].todo :
            /\ db' = [db EXCEPT ![row] = op[p].next[row]]
            /\ op' = [op EXCEPT ![p].todo = @ \ {row},
                                ![p].at = IF op[p].todo = {row} THEN "file" ELSE "rows"]
      BY <1>5 DEF SaveRow
    <2>2. /\ row \in Rows /\ p \in Ops /\ op[p].kind = "save"
          /\ \A other \in Rows : other \in op[p].todo \/ db[other] = op[p].next[other]
      BY <1>0, <1>5 DEF OpType, MirrorInv, SaveRow, InSave
    <2> DEFINE record == [op[p] EXCEPT !.todo = @ \ {row},
                            !.at = IF op[p].todo = {row} THEN "file" ELSE "rows"]
    <2>3. /\ record.at \in {"file", "rows"} /\ record.kind = "save"
          /\ record.todo = op[p].todo \ {row} /\ record.next = op[p].next
          /\ record.at = "file" => op[p].todo = {row}
      BY <1>0, <2>2 DEF OpType
    <2>4. op' = [op EXCEPT ![p] = record] /\ UNCHANGED <<policy, booted, missed>> /\ booted
      <3>1. op' = [op EXCEPT ![p] = record]
        BY <1>0, <2>1 DEF OpType
      <3>2. UNCHANGED <<policy, booted, missed>> /\ booted
        BY <1>5 DEF SaveRow, Up
      <3>3. QED
        BY <3>1, <3>2
    <2> HIDE DEF record
    <2>5. \A q \in Procs : op'[q] = IF q = p THEN record ELSE op[q]
      BY <1>0, <2>4
    <2>6. \A other \in Rows : other \in record.todo \/ db'[other] = record.next[other]
      BY <1>0, <2>1, <2>2, <2>3 DEF Policies, Rows
    <2>7. \A q \in Procs : InSave(q)' => q = p
      BY <2>2, <2>5 DEF InSave, MirrorInv, OneRequest
    <2>8. QED
      BY <2>2, <2>3, <2>4, <2>5, <2>6, <2>7 DEF MirrorInv, InSave
  <1>6. ASSUME NEW p \in Procs, SaveFile(p) PROVE MirrorInv'
    <2>1. /\ p \in Ops /\ op[p].kind = "save"
          /\ \A row \in Rows : db[row] = op[p].next[row]
      BY <1>0, <1>6 DEF MirrorInv, SaveFile, InSave
    <2>2. db = op[p].next
      BY <1>0, <2>1 DEF OpType, Policies, Rows
    <2> DEFINE record == [Idle EXCEPT !.kind = "save", !.at =
                            IF op[p].next.channel = "off" THEN "off" ELSE "check"]
    <2>3. record.at \in {"off", "check"} /\ record.kind = "save"
      BY DEF Idle
    <2>4. /\ op' = [op EXCEPT ![p] = record] /\ UNCHANGED <<db, booted>> /\ booted
          /\ policy' = db
      BY <1>0, <1>6, <2>2 DEF SaveFile, Up, OpType
    <2> HIDE DEF record
    <2>5. \A q \in Procs : op'[q] = IF q = p THEN record ELSE op[q]
      BY <1>0, <2>4
    <2>6. \A q \in Procs : ~InSave(q)' /\ op'[q].at # "stray"
      BY <2>1, <2>3, <2>5 DEF InSave, MirrorInv, OneRequest
    <2>7. QED
      BY <2>1, <2>3, <2>4, <2>5, <2>6 DEF MirrorInv
  <1>15. ASSUME NEW p \in Procs, RowRejected(p) \/ StrayRow(p) \/ FileFails(p) PROVE MirrorInv'
    <2>1. /\ p \in Ops /\ op[p].kind = "save" /\ missed' /\ UNCHANGED booted
          /\ booted
      <3>1. op[p].at \in {"rows", "stray", "file"} /\ UNCHANGED booted /\ booted
        BY <1>15 DEF RowRejected, StrayRow, FileFails, Up
      <3>2. p \in Ops /\ op[p].kind = "save" /\ (op[p].at = "stray" => missed)
        BY <3>1 DEF MirrorInv
      <3>3. missed'
        BY <1>15, <3>2 DEF RowRejected, StrayRow, FileFails
      <3>4. QED
        BY <3>1, <3>2, <3>3
    <2>2. PICK record : /\ op' = [op EXCEPT ![p] = record]
                        /\ record.at \in {"idle", "stray"}
                        /\ record.at = "stray" => record.kind = "save"
      <3>1. Idle.at = "idle"
        BY DEF Idle
      <3>2. ASSUME NEW row
            PROVE  /\ [op[p] EXCEPT !.todo = @ \ {row}, !.at = "stray"].at = "stray"
                   /\ [op[p] EXCEPT !.todo = @ \ {row}, !.at = "stray"].kind = op[p].kind
                   /\ [op[p] EXCEPT !.todo = @ \ {row}].at = op[p].at
                   /\ [op[p] EXCEPT !.todo = @ \ {row}].kind = op[p].kind
        BY <1>0 DEF OpType
      <3>3. CASE FileFails(p)
        BY <3>1, <3>3 DEF FileFails
      <3>4. CASE RowRejected(p)
        <4>1. PICK row \in op[p].todo :
                op' = [op EXCEPT ![p] = IF op[p].todo = {row} THEN Idle
                                        ELSE [op[p] EXCEPT !.todo = @ \ {row}, !.at = "stray"]]
          BY <3>4 DEF RowRejected
        <4>2. CASE op[p].todo = {row}
          BY <3>1, <4>1, <4>2
        <4>3. CASE op[p].todo # {row}
          <5> DEFINE stray == [op[p] EXCEPT !.todo = @ \ {row}, !.at = "stray"]
          <5>1. stray.at = "stray" /\ stray.kind = "save" /\ op' = [op EXCEPT ![p] = stray]
            BY <2>1, <3>2, <4>1, <4>3
          <5> HIDE DEF stray
          <5>2. QED
            BY <5>1
        <4>4. QED
          BY <4>2, <4>3
      <3>5. CASE StrayRow(p)
        <4>1. PICK row \in op[p].todo :
                op' = [op EXCEPT ![p] = IF op[p].todo = {row} THEN Idle
                                        ELSE [op[p] EXCEPT !.todo = @ \ {row}]]
          BY <3>5 DEF StrayRow
        <4>2. op[p].at = "stray"
          BY <3>5 DEF StrayRow
        <4>3. CASE op[p].todo = {row}
          BY <3>1, <4>1, <4>3
        <4>4. CASE op[p].todo # {row}
          <5> DEFINE stray == [op[p] EXCEPT !.todo = @ \ {row}]
          <5>1. stray.at = "stray" /\ stray.kind = "save" /\ op' = [op EXCEPT ![p] = stray]
            BY <2>1, <3>2, <4>1, <4>2, <4>4
          <5> HIDE DEF stray
          <5>2. QED
            BY <5>1
        <4>5. QED
          BY <4>3, <4>4
      <3>6. QED
        BY <1>15, <3>3, <3>4, <3>5
    <2>3. \A q \in Procs : op'[q] = IF q = p THEN record ELSE op[q]
      BY <1>0, <2>2
    <2>4. \A q \in Procs : ~InSave(q)'
      BY <2>1, <2>2, <2>3 DEF InSave, MirrorInv, OneRequest
    <2>5. QED
      BY <2>1, <2>2, <2>3, <2>4 DEF MirrorInv
  <1>7. ASSUME NEW p \in Procs, NEW record, op' = [op EXCEPT ![p] = record],
               At(p, "idle") \/ At(p, "off") \/ At(p, "check") \/ At(p, "policy")
                 \/ At(p, "fetch") \/ At(p, "reply") \/ At(p, "write"),
               record.at \notin {"rows", "stray", "file", "off"},
               UNCHANGED <<db, policy, booted, missed>>
        PROVE  MirrorInv'
    BY <1>7, MirrorMoves DEF InSave, Up
  <1>8. ASSUME NEW p \in Procs, InstallBegins(p) PROVE MirrorInv'
    <2>1. PICK v \in Versions :
            op' = [op EXCEPT ![p] = [Idle EXCEPT !.at = "check", !.kind = "install",
                                                 !.wanted = v, !.since = NewestNow]]
      BY <1>8, Zenon DEF InstallBegins
    <2> DEFINE record == [Idle EXCEPT !.at = "check", !.kind = "install",
                                      !.wanted = v, !.since = NewestNow]
    <2>2. record.at = "check"
      BY DEF Idle
    <2>3. op' = [op EXCEPT ![p] = record]
      BY <2>1
    <2> HIDE DEF record
    <2>4. QED
      BY <1>7, <1>8, <2>2, <2>3 DEF InstallBegins
  <1>9. ASSUME NEW p \in Procs,
               SaveOff(p) \/ CheckBegins(p) \/ (CheckReadsPolicy(p) /\ db.channel # "off")
        PROVE  MirrorInv'
    <2>1. PICK record : op' = [op EXCEPT ![p] = record] /\ record.at \in {"check", "policy", "fetch"}
      <3>1. CASE SaveOff(p) \/ CheckBegins(p)
        BY <1>0, <3>1 DEF SaveOff, CheckBegins, OpType
      <3>2. CASE CheckReadsPolicy(p) /\ db.channel # "off"
        <4> DEFINE record == [op[p] EXCEPT !.at = "fetch", !.channel = db.channel]
        <4>1. op' = [op EXCEPT ![p].at = "fetch", ![p].channel = db.channel]
          BY <3>2 DEF CheckReadsPolicy
        <4>2. op' = [op EXCEPT ![p] = record] /\ record.at = "fetch"
          BY <1>0, <4>1 DEF OpType
        <4> HIDE DEF record
        <4>3. QED
          BY <4>2
      <3>3. QED
        BY <1>9, <3>1, <3>2
    <2>2. QED
      BY <1>7, <1>9, <2>1 DEF SaveOff, CheckBegins, CheckReadsPolicy
  <1>10. \A p \in Procs : \A answer : Answered(p, answer).at \in {"reply", "idle"}
    BY <1>0 DEF Answered, OpType, Idle
  <1>11. ASSUME NEW p \in Procs,
                InstallReply(p) \/ InstallWrites(p) \/ InstallFails(p) \/ CheckJoins(p)
                  \/ CheckFails(p) \/ CheckEnds(p)
                  \/ (CheckReadsPolicy(p) /\ db.channel = "off")
         PROVE  MirrorInv'
    <2>1. Idle.at = "idle"
      BY DEF Idle
    <2>2. ASSUME NEW answer PROVE [Answered(p, answer) EXCEPT !.since = Versions].at \in {"reply", "idle"}
      BY <1>0 DEF Answered, OpType, Idle
    <2>3. [op[p] EXCEPT !.at = "write"].at = "write"
      BY <1>0 DEF OpType
    <2>4. PICK record : op' = [op EXCEPT ![p] = record] /\ record.at \in {"idle", "reply", "write"}
      <3>1. CASE InstallReply(p) \/ InstallWrites(p) \/ InstallFails(p) \/ CheckFails(p)
        BY <2>1, <2>3, <3>1 DEF InstallReply, InstallWrites, InstallFails, CheckFails
      <3>2. CASE CheckJoins(p)
        BY <2>1, <2>2, <3>2 DEF CheckJoins
      <3>3. CASE CheckEnds(p)
        BY <1>10, <3>3 DEF CheckEnds
      <3>4. CASE CheckReadsPolicy(p) /\ db.channel = "off"
        BY <1>10, <3>4 DEF CheckReadsPolicy
      <3>5. QED
        BY <1>11, <3>1, <3>2, <3>3, <3>4
    <2>5. QED
      BY <1>7, <1>11, <2>4 DEF InstallReply, InstallWrites, InstallFails, CheckJoins, CheckFails,
                               CheckEnds, CheckReadsPolicy
  <1>12. CASE FeedChanges
    <2>1. PICK news :
            op' = [p \in Procs |-> IF op[p].kind # "install" THEN op[p]
                                   ELSE [op[p] EXCEPT !.since = @ \cup news]]
      BY <1>12 DEF FeedChanges
    <2>2. \A p \in Procs : /\ op'[p].at = op[p].at /\ op'[p].kind = op[p].kind
                           /\ op'[p].todo = op[p].todo /\ op'[p].next = op[p].next
      BY <1>0, <2>1 DEF OpType
    <2>3. UNCHANGED <<db, policy, booted, missed>> /\ \A p \in Procs : InSave(p)' <=> InSave(p)
      BY <1>12, <2>2 DEF FeedChanges, InSave
    <2>4. QED
      BY <2>2, <2>3 DEF MirrorInv
  <1>13. CASE Restart
    <2>1. \A p \in Procs : op'[p].at = "idle"
      BY <1>13 DEF Restart, AppDies, Idle
    <2>2. QED
      BY <1>13, <2>1 DEF Restart, AppDies, MirrorInv, InSave
  <1>14. QED
    BY <1>1, <1>2, <1>3, <1>4, <1>5, <1>6, <1>8, <1>9, <1>11, <1>12, <1>13, <1>15
    DEF Next, AppStep, Work, Check, Cancel

(* "The database is the source of truth; the file beside it is a mirror", as *)
(* long as one request at a time is served: across restarts, feeds, the      *)
(* timer and rejected writes, the script reads what the database holds once  *)
(* a save or a boot has gone through with nothing rejected since.            *)
THEOREM MirrorHolds == ASSUME OneRequest PROVE Spec => []MirrorAgrees
  <1>1. Init => MirrorInv
    BY DEF Init, AppInit, MirrorInv, InSave, Idle
  <1>2. IInv /\ MirrorInv /\ [Next]_vars => MirrorInv'
    BY MirrorStep DEF IInv
  <1>3. MirrorInv => MirrorAgrees
    <2> SUFFICES ASSUME MirrorInv, Up, ~Saving, ~missed PROVE policy = db
      BY DEF MirrorAgrees
    <2>1. \A p \in Procs : ~InSave(p)
      BY DEF MirrorInv, InSave, Saving
    <2>2. QED
      BY <2>1 DEF MirrorInv, Up
  <1>4. QED
    BY <1>1, <1>2, <1>3, HeldInit, HeldStep, PTL DEF Spec
=============================================================================
