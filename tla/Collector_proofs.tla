--------------------------- MODULE Collector_proofs ---------------------------
(***************************************************************************)
(* What is proved of the collector's loop for any number of addresses,     *)
(* readings and moves, any thresholds, and every fault of the model.       *)
(***************************************************************************)
EXTENDS Collector, TLAPS

USE DEF network, db, memory, vars

LEMMA Bounds ==
    /\ Threshold \in Nat /\ Threshold > 0 /\ 0 \in 0..Threshold
    /\ Window \in Nat /\ Window > 0 /\ 0 \in 0..Window
    /\ MaxTime \in Nat /\ MaxTime > 0
    /\ MaxMoves \in Nat /\ 0 \in 0..MaxMoves
  BY BoundsAssumption

LEMMA BootedTyped ==
    ASSUME NEW at \in MaybeHost
    PROVE  Booted(at) \in {"idle", "fetch"} /\ (at = None => Booted(at) = "idle")
  BY DEF Booted

LEMMA TypeInit == Init => TypeOK
  <1> SUFFICES ASSUME Init PROVE TypeOK
    OBVIOUS
  <1>1. Configured \in MaybeHost
    BY HostsAssumption DEF MaybeHost
  <1>2. pc \in {"idle", "fetch"} /\ (host = None => pc = "idle")
    BY <1>1, BootedTyped DEF Init
  <1>3. stored \in [Tables -> [Times -> 0..2]]
    BY DEF Init
  <1>4. 1 \in Times /\ 0 \in 0..MaxMoves /\ 0 \in 0..Threshold /\ 0 \in 0..Window
    BY BoundsAssumption DEF Times
  <1>5. QED
    BY <1>1, <1>2, <1>3, <1>4 DEF Init, TypeOK, Places, MaybeTime, MaybeHost

LEMMA TypeReborn == TypeOK /\ Reborn => TypeOK'
  <1> SUFFICES ASSUME TypeOK, Reborn PROVE TypeOK'
    OBVIOUS
  <1>1. pc' \in {"idle", "fetch"} /\ (host' = None => pc' = "idle")
    BY BootedTyped DEF TypeOK, Reborn
  <1>2. 0 \in 0..Threshold /\ 0 \in 0..Window
    BY BoundsAssumption
  <1>3. QED
    BY <1>1, <1>2 DEF TypeOK, Reborn, Places, MaybeTime, MaybeHost

LEMMA InsertTyped ==
    ASSUME TypeOK, NEW table \in Tables, Insert(table), snapshot \in Times PROVE TypeOK'
  <1>1. UpTo(2, stored[table][snapshot] + 1) \in 0..2
    <2>1. stored[table][snapshot] \in 0..2
      BY DEF TypeOK
    <2>2. QED
      BY <2>1 DEF UpTo
  <1>2. stored' = [stored EXCEPT ![table][snapshot] = UpTo(2, stored[table][snapshot] + 1)]
    BY DEF Insert
  <1>3. stored' \in [Tables -> [Times -> 0..2]]
    BY <1>1, <1>2 DEF TypeOK
  <1>4. pc' \in {"inverter", "port", "alerts"} /\ pc \in Tables
    BY DEF Insert, NextPlace, Tables
  <1>5. QED
    BY <1>3, <1>4 DEF TypeOK, Insert, Places, Tables, MaybeTime

(* The variables keep their types (the state of CollectorService), and with  *)
(* them: no poll without a client, and a scan knows where it started.        *)
LEMMA TypeStep == TypeOK /\ WriteInv /\ [Next]_vars => TypeOK'
  <1> SUFFICES ASSUME TypeOK, WriteInv, [Next]_vars PROVE TypeOK'
    OBVIOUS
  <1> USE DEF TypeOK, Places
  <1>1. CASE FetchOk
    <2>1. pc' \in {"reconnected", "persist"} /\ snapshot' \in MaybeTime /\ host # None
      BY <1>1 DEF FetchOk, MaybeTime
    <2>2. QED
      BY <1>1, <2>1, Bounds DEF FetchOk
  <1>2. CASE FetchFails
    <2>1. UpTo(Threshold, missed + 1) \in 0..Threshold
      BY Bounds DEF UpTo
    <2>2. QED
      BY <1>2, <2>1 DEF FetchFails
  <1>3. CASE Reconnected \/ Persist \/ HandOn \/ OutageTold
    BY <1>3 DEF Reconnected, Persist, HandOn, OutageTold, Goto
  <1>4. ASSUME NEW table \in Tables, Insert(table) PROVE TypeOK'
    BY <1>4, InsertTyped DEF WriteInv, Answered, Insert, Tables, MaybeTime
  <1>5. CASE WriteFails
    BY <1>5 DEF WriteFails, Tables
  <1>6. CASE Failed
    <2>1. UpTo(Threshold, failures + 1) \in 0..Threshold
      BY Bounds DEF UpTo
    <2>2. pc' \in {"done", "rediscover", "outage"} /\ outage' \in BOOLEAN /\ host # None
          /\ found = None
      BY <1>6 DEF Failed
    <2>3. QED
      BY <1>6, <2>1, <2>2 DEF Failed
  <1>7. CASE Crash \/ WatchdogFires \/ Restart
    BY <1>7, TypeReborn DEF Crash, WatchdogFires, Restart
  <1>8. CASE Rediscover
    BY <1>8 DEF Rediscover
  <1>9. CASE ScanFinds
    BY <1>9, BoundsAssumption, HostsAssumption DEF ScanFinds, MaybeHost
  <1>10. CASE ScanFails
    BY <1>10 DEF ScanFails, MaybeHost
  <1>11. CASE Moved \/ PollEnds \/ PingFails
    BY <1>11, Bounds DEF Moved, PollEnds, PingFails
  <1>12. CASE FetchHangs
    BY <1>12 DEF FetchHangs
  <1>13. CASE Tick
    <2>1. Booted(host) \in {"idle", "fetch"} /\ (host = None => Booted(host) = "idle")
      BY BootedTyped
    <2>2. QED
      BY <1>13, <2>1, BoundsAssumption DEF Tick
  <1>14. CASE CooldownEnds
    BY <1>14 DEF CooldownEnds
  <1>15. CASE NewReading
    BY <1>15, BoundsAssumption DEF NewReading, Times
  <1>16. CASE GatewayMoves
    BY <1>16, BoundsAssumption DEF GatewayMoves
  <1>17. CASE ApplyHost
    BY <1>17, HostsAssumption DEF ApplyHost, MaybeHost
  <1>18. CASE UNCHANGED vars
    BY <1>18
  <1>19. QED
    BY <1>1, <1>2, <1>3, <1>4, <1>5, <1>6, <1>7, <1>8, <1>9, <1>10, <1>11, <1>12, <1>13,
       <1>14, <1>15, <1>16, <1>17, <1>18 DEF Next, PollStep

-----------------------------------------------------------------------------
(* Readings are stored whole. *)

LEMMA WriteInit == Init => WriteInv
  BY DEF Init, Booted, WriteInv, Answered, Written, NoHalfReading

LEMMA WriteStep == ASSUME TypeOK, WriteInv, [Next]_vars PROVE WriteInv'
  <1> USE DEF WriteInv, Answered, Written, NoHalfReading
  <1>1. CASE FetchOk
    BY <1>1 DEF FetchOk, TypeOK, Times
  <1>2. CASE Reconnected \/ Persist \/ HandOn \/ OutageTold
    BY <1>2 DEF Reconnected, Persist, HandOn, OutageTold, Goto
  <1>3. ASSUME NEW table \in Tables, Insert(table) PROVE WriteInv'
    <2>1. snapshot \in Times /\ persisted \in {0} \cup Times /\ snapshot' = snapshot
      BY <1>3 DEF TypeOK, MaybeTime, Insert, Tables
    <2>2. \A other \in Tables, t \in Times : stored'[other][t] >= 1
            <=> stored[other][t] >= 1 \/ (other = table /\ t = snapshot)
      BY <1>3, <2>1 DEF TypeOK, Insert, UpTo
    <2>3. CASE table = "dtu"
      BY <1>3, <2>1, <2>2, <2>3 DEF Insert, NextPlace, Tables
    <2>4. CASE table = "inverter"
      BY <1>3, <2>1, <2>2, <2>4 DEF Insert, NextPlace, Tables
    <2>5. CASE table = "port"
      BY <1>3, <2>1, <2>2, <2>5 DEF Insert, NextPlace, Tables
    <2>6. QED
      BY <2>3, <2>4, <2>5 DEF Tables
  <1>4. CASE Crash \/ WatchdogFires \/ Restart
    BY <1>4 DEF Crash, WatchdogFires, Restart, Reborn, Booted
  <1>5. CASE FetchFails \/ WriteFails \/ Failed \/ Rediscover \/ ScanFinds \/ ScanFails \/ Moved
             \/ PollEnds \/ PingFails
    BY <1>5 DEF FetchFails, WriteFails, Failed, Rediscover, ScanFinds, ScanFails, Moved, PollEnds,
                PingFails
  <1>6. CASE Tick \/ FetchHangs
    BY <1>6 DEF Tick, FetchHangs, Booted
  <1>7. CASE CooldownEnds \/ NewReading \/ GatewayMoves \/ UNCHANGED vars
    BY <1>7 DEF CooldownEnds, NewReading, GatewayMoves
  <1>8. CASE ApplyHost
    BY <1>8 DEF ApplyHost
  <1>9. QED
    BY <1>1, <1>2, <1>3, <1>4, <1>5, <1>6, <1>7, <1>8 DEF Next, PollStep

LEMMA TypeAndWrites == Spec => [](TypeOK /\ WriteInv)
  BY TypeInit, TypeStep, WriteInit, WriteStep, PTL DEF Spec

(* TypeOK always holds. *)
THEOREM TypeCorrect == Spec => []TypeOK
  BY TypeAndWrites, PTL

(* A reading remembered as stored is stored in all three tables, whatever    *)
(* fails and whenever the process ends (persist()).                          *)
THEOREM ReadingsAreWhole == Spec => []NoHalfReading
  <1>1. WriteInv => NoHalfReading
    BY DEF WriteInv
  <1>2. QED
    BY <1>1, TypeAndWrites, PTL

-----------------------------------------------------------------------------
(* Outages are real: what counts as a failure beside the fetches.           *)

LEMMA CountInit == Init => CountInv
  BY DEF Init, Booted, CountInv, Answered

LEMMA CountStep == ASSUME TypeOK, CountInv, [Next]_vars PROVE CountInv'
  <1>0. failures \in 0..Threshold /\ missed \in 0..Threshold
    BY DEF TypeOK
  <1> USE DEF CountInv, Answered
  <1>1. CASE FetchOk
    BY <1>1 DEF FetchOk
  <1>2. CASE FetchFails
    BY <1>0, <1>2, Bounds DEF FetchFails, UpTo
  <1>3. CASE Reconnected \/ Persist \/ HandOn \/ OutageTold
    BY <1>3 DEF Reconnected, Persist, HandOn, OutageTold, Goto
  <1>4. ASSUME NEW table \in Tables, Insert(table) PROVE CountInv'
    BY <1>4 DEF Insert, NextPlace, Tables
  <1>5. CASE WriteFails
    BY <1>0, <1>5 DEF WriteFails, Tables
  <1>6. CASE Failed
    BY <1>0, <1>6, Bounds DEF Failed, UpTo
  <1>7. CASE Crash \/ WatchdogFires \/ Restart
    BY <1>7 DEF Crash, WatchdogFires, Restart, Reborn, Booted
  <1>8. CASE Rediscover \/ ScanFinds \/ ScanFails \/ Moved \/ PollEnds \/ PingFails
    BY <1>0, <1>8 DEF Rediscover, ScanFinds, ScanFails, Moved, PollEnds, PingFails
  <1>9. CASE Tick \/ FetchHangs
    BY <1>9 DEF Tick, FetchHangs, Booted
  <1>10. CASE CooldownEnds \/ NewReading \/ GatewayMoves \/ UNCHANGED vars
    BY <1>10 DEF CooldownEnds, NewReading, GatewayMoves
  <1>11. CASE ApplyHost
    BY <1>11 DEF ApplyHost
  <1>12. QED
    BY <1>1, <1>2, <1>3, <1>4, <1>5, <1>6, <1>7, <1>8, <1>9, <1>10, <1>11 DEF Next, PollStep

LEMMA CountsAlways == Spec => [](TypeOK /\ CountInv)
  BY TypeCorrect, CountInit, CountStep, PTL DEF Spec

(* The outage push is never about the database or the alerts alone: when the *)
(* collector declares one, Threshold - 1 fetches have failed in a row.       *)
THEOREM OutagesAreReal == Spec => OutageIsReal
  <1>1. TypeOK /\ CountInv /\ [Next]_vars
          => [outage' /\ ~outage => missed >= Threshold - 1]_vars
    <2> SUFFICES ASSUME TypeOK, CountInv, Next, outage', ~outage
                 PROVE  missed >= Threshold - 1
      OBVIOUS
    <2>0. failures \in 0..Threshold /\ missed \in 0..Threshold
      BY DEF TypeOK
    <2>1. CASE Failed
      <3>1. ~(failures + 1 < Threshold) /\ failures <= missed
        BY <2>1, Zenon DEF Failed, CountInv
      <3>2. QED
        BY <2>0, <3>1, Bounds
    <2>2. CASE Crash \/ WatchdogFires \/ Restart
      BY <2>2 DEF Crash, WatchdogFires, Restart, Reborn
    <2>3. CASE FetchOk \/ FetchFails \/ FetchHangs \/ Reconnected \/ Persist \/ HandOn \/ OutageTold
               \/ WriteFails
      BY <2>3 DEF FetchOk, FetchFails, FetchHangs, Reconnected, Persist, HandOn, OutageTold, Goto,
                  WriteFails
    <2>4. CASE \E table \in Tables : Insert(table)
      BY <2>4 DEF Insert
    <2>5. CASE Rediscover \/ ScanFinds \/ ScanFails \/ Moved \/ PollEnds \/ PingFails
      BY <2>5 DEF Rediscover, ScanFinds, ScanFails, Moved, PollEnds, PingFails
    <2>6. CASE Tick \/ CooldownEnds \/ NewReading \/ GatewayMoves \/ ApplyHost
      BY <2>6 DEF Tick, CooldownEnds, NewReading, GatewayMoves, ApplyHost
    <2>7. QED
      BY <2>1, <2>2, <2>3, <2>4, <2>5, <2>6 DEF Next, PollStep
  <1>2. QED
    BY <1>1, CountsAlways, PTL DEF Spec, OutageIsReal

-----------------------------------------------------------------------------
(* The watchdog.  It needs an address from the start: without one the loop  *)
(* does not turn (onModuleInit()).                                          *)

LEMMA TurnInit == Configured # None /\ Init => TurnInv
  BY DEF Init, TurnInv, Booted

LEMMA TurnStep == ASSUME Window > 1, TypeOK, TurnInv, [Next]_vars PROVE TurnInv'
  <1>0. quiet \in 0..Window
    BY DEF TypeOK
  <1> USE DEF TurnInv
  <1>1. CASE FetchOk \/ FetchFails \/ Reconnected \/ Persist \/ HandOn \/ OutageTold \/ WriteFails
    BY <1>1 DEF FetchOk, FetchFails, Reconnected, Persist, HandOn, OutageTold, Goto, WriteFails,
                Tables
  <1>2. CASE \E table \in Tables : Insert(table)
    BY <1>2 DEF Insert, NextPlace, Tables
  <1>3. CASE Failed \/ Rediscover \/ ScanFails \/ Moved
    BY <1>3 DEF Failed, Rediscover, ScanFails, Moved
  <1>4. CASE ScanFinds
    BY <1>4, HostsAssumption DEF ScanFinds, TypeOK
  <1>5. CASE Crash \/ WatchdogFires \/ Restart
    BY <1>5 DEF Crash, WatchdogFires, Restart, Reborn, Booted
  <1>6. CASE PollEnds \/ PingFails
    BY <1>6 DEF PollEnds, PingFails
  <1>7. CASE FetchHangs
    BY <1>7 DEF FetchHangs
  <1>8. CASE Tick
    BY <1>0, <1>8, Bounds DEF Tick, Booted
  <1>9. CASE CooldownEnds \/ NewReading \/ GatewayMoves \/ UNCHANGED vars
    BY <1>9 DEF CooldownEnds, NewReading, GatewayMoves
  <1>10. CASE ApplyHost
    BY <1>10, HostsAssumption DEF ApplyHost
  <1>11. QED
    BY <1>1, <1>2, <1>3, <1>4, <1>5, <1>6, <1>7, <1>8, <1>9, <1>10 DEF Next, PollStep

(* Where a gateway is configured and the watchdog allows for more than one   *)
(* interval, it expires on a hung cycle only, or once this process has given *)
(* up on systemd-notify: no row of failures, however long, restarts the app. *)
THEOREM WatchdogIsFair ==
    ASSUME Configured # None, Window > 1 PROVE Spec => []OnlyHungExpires
  <1>1. TypeOK /\ TurnInv => OnlyHungExpires
    BY DEF TurnInv, OnlyHungExpires, TypeOK
  <1>2. TypeOK /\ TurnInv /\ [Next]_vars => TurnInv'
    BY TurnStep
  <1>3. QED
    BY <1>1, <1>2, TurnInit, TypeCorrect, PTL DEF Spec

-----------------------------------------------------------------------------
(* Readings are stored once. *)

LEMMA OnceInit == Init => OnceInv
  BY BoundsAssumption
  DEF Init, Booted, OnceInv, StoredOnce, Answered, Written, Tables, Times

LEMMA OnceStep == ASSUME TypeOK, WriteInv, OnceInv, [Next]_vars PROVE OnceInv'
  <1> SUFFICES ASSUME clean' PROVE OnceInv'
    BY DEF OnceInv, StoredOnce
  <1>0. reading \in Nat /\ snapshot \in Nat /\ persisted \in Nat /\ Times \subseteq Nat
    BY Bounds DEF TypeOK, Times, MaybeTime
  <1> USE DEF OnceInv, StoredOnce, Answered
  <1>1. CASE FetchOk
    <2>1. clean /\ snapshot = persisted /\ Written(pc) = {} /\ Written(pc') = {}
      BY <1>1 DEF FetchOk, Written
    <2>2. \A table \in Tables, t \in Times : t > persisted => stored[table][t] = 0
      BY <2>1
    <2>3. snapshot' = reading /\ reading >= persisted /\ pc' \in {"reconnected", "persist"}
      BY <1>0, <1>1, <2>1 DEF FetchOk
    <2>4. QED
      BY <1>0, <1>1, <2>1, <2>2, <2>3 DEF FetchOk, Tables
  <1>2. CASE Reconnected \/ Persist \/ HandOn \/ OutageTold
    <2>1. Written(pc) = {} /\ Written(pc') = {} /\ UNCHANGED <<network, db, memory, clean>>
      BY <1>2 DEF Reconnected, Persist, HandOn, OutageTold, Goto, Written
    <2>2. QED
      BY <1>2, <2>1 DEF Reconnected, Persist, HandOn, OutageTold, Goto, Tables
  <1>3. ASSUME NEW table \in Tables, Insert(table) PROVE OnceInv'
    <2>1. snapshot \in Times /\ persisted < snapshot /\ clean
      BY <1>0, <1>3 DEF WriteInv, TypeOK, MaybeTime, Insert, Tables
    <2>2. stored[table][snapshot] = 0
      BY <1>3, <2>1 DEF Insert, Written, Tables
    <2>3. stored'[table][snapshot] = 1
      BY <1>3, <2>1, <2>2 DEF TypeOK, Insert, UpTo
    <2>4. \A other \in Tables, t \in Times :
            other # table \/ t # snapshot => stored'[other][t] = stored[other][t]
      BY <1>3, <2>1 DEF TypeOK, Insert
    <2>5. CASE table \in {"dtu", "inverter"}
      <3>1. Written(pc') = Written(pc) \cup {table} /\ pc' \in {"inverter", "port"}
            /\ persisted' = persisted
        BY <1>3, <2>5 DEF Insert, NextPlace, Written
      <3>2. QED
        BY <1>3, <2>1, <2>3, <2>4, <3>1 DEF Insert, Tables
    <2>6. CASE table = "port"
      <3>1. Written(pc) = {"dtu", "inverter"} /\ Written(pc') = {} /\ pc' = "alerts"
            /\ persisted' = snapshot
        BY <1>3, <2>6 DEF Insert, NextPlace, Written
      <3>2. \A other \in Tables, t \in Times : t > snapshot => stored'[other][t] = 0
        BY <1>0, <1>3, <2>1, <2>4 DEF Tables
      <3>3. QED
        BY <1>0, <1>3, <2>1, <2>3, <2>4, <3>1, <3>2 DEF Insert, Tables
    <2>7. QED
      BY <2>5, <2>6 DEF Tables
  <1>4. CASE Crash \/ WatchdogFires \/ Restart \/ WriteFails
    BY <1>4 DEF Crash, WatchdogFires, Restart, Reborn, WriteFails
  <1>5. CASE FetchFails \/ FetchHangs \/ Failed \/ Rediscover \/ ScanFinds \/ ScanFails \/ Moved
             \/ PollEnds \/ PingFails \/ Tick
    <2>1. Written(pc) = {} /\ Written(pc') = {} /\ pc \notin Answered /\ pc' \notin Answered
      BY <1>5 DEF FetchFails, FetchHangs, Failed, Rediscover, ScanFinds, ScanFails, Moved, PollEnds,
                  PingFails, Tick, Booted, Written
    <2>2. UNCHANGED <<reading, stored, snapshot, persisted, clean>>
      BY <1>5 DEF FetchFails, FetchHangs, Failed, Rediscover, ScanFinds, ScanFails, Moved, PollEnds,
                  PingFails, Tick
    <2>3. QED
      BY <2>1, <2>2 DEF Tables
  <1>6. CASE NewReading
    BY <1>0, <1>6 DEF NewReading, Written
  <1>7. CASE CooldownEnds \/ GatewayMoves \/ UNCHANGED vars
    BY <1>7 DEF CooldownEnds, GatewayMoves, Written
  <1>8. CASE ApplyHost
    <2>1. UNCHANGED <<reading, stored, snapshot, persisted, clean>>
      BY <1>8 DEF ApplyHost
    <2>2. pc' = IF host = None THEN "fetch" ELSE pc
      BY <1>8 DEF ApplyHost
    <2>3. pc' = pc \/ (pc = "idle" /\ pc' = "fetch")
      BY <2>2 DEF TypeOK
    <2>4. QED
      BY <2>1, <2>3 DEF Written, Tables
  <1>9. QED
    BY <1>1, <1>2, <1>3, <1>4, <1>5, <1>6, <1>7, <1>8 DEF Next, PollStep

(* "Only new timestamps are stored" (persist()): while no write is rejected  *)
(* and the process lives, no table gets a reading twice.                     *)
THEOREM ReadingsAreStoredOnce == Spec => []StoredOnce
  <1>1. OnceInv => StoredOnce
    BY DEF OnceInv, StoredOnce
  <1>2. TypeOK /\ WriteInv /\ OnceInv /\ [Next]_vars => OnceInv'
    BY OnceStep
  <1>3. QED
    BY <1>1, <1>2, OnceInit, TypeAndWrites, PTL DEF Spec
=============================================================================
