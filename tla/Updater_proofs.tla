---------------------------- MODULE Updater_proofs ----------------------------
(***************************************************************************)
(* What is proved of the updater for every set of versions, every set of   *)
(* broken builds and pre-releases, and any number of power failures.       *)
(***************************************************************************)
EXTENDS Updater, TLAPS

USE DEF files, disk, script, history, vars, Keeps, AskedFor

LEMMA RecordTyped ==
    ASSUME NEW result \in Results, NEW to \in MaybeVersion
    PROVE  [result |-> result, to |-> to] \in [result : Results, to : MaybeVersion]
  OBVIOUS

LEMMA TreeTyped == ASSUME NEW v \in Versions PROVE Tree(v) \in Trees
  BY DEF Tree, Trees

LEMMA NoRunTyped ==
    NoRun \in [mode : Modes, channel : Channels, apply : BOOLEAN,
               requested : MaybeVersion, from : Versions, target : Versions]
  BY VersionsAssumption DEF NoRun, Modes, Channels, MaybeVersion

(* The types of the script's variables and of what it shares are those the *)
(* module declares, in every reachable state (the state of update.sh).     *)
LEMMA TypeInit == Init => TypeOK
  <1> SUFFICES ASSUME Init PROVE TypeOK
    OBVIOUS
  <1>1. install \in Trees /\ prev \in Trees /\ live \in Trees \cup {None}
    BY TreeTyped, VersionsAssumption DEF Init
  <1>2. run \in [mode : Modes, channel : Channels, apply : BOOLEAN,
                 requested : MaybeVersion, from : Versions, target : Versions]
    BY NoRunTyped DEF Init
  <1>3. QED
    BY <1>1, <1>2, VersionsAssumption, BoundAssumption
    DEF Init, TypeOK, Channels, MaybeVersion, Results, Places

LEMMA TypeStep == TypeOK /\ [Next]_vars => TypeOK'
  <1> SUFFICES ASSUME TypeOK, [Next]_vars PROVE TypeOK'
    OBVIOUS
  <1> USE DEF TypeOK, MaybeVersion
  <1>1. ASSUME NEW arg \in Modes, Start(arg) PROVE TypeOK'
    <2>1. EffectiveMode(arg, TRUE) \in Modes /\ EffectiveMode(arg, FALSE) \in Modes
      BY <1>1 DEF EffectiveMode, Modes
    <2>2. install.stamp \in Versions
      BY DEF Trees
    <2>3. PICK inWindow \in BOOLEAN :
            run' = [mode |-> EffectiveMode(arg, inWindow), channel |-> policy.channel,
                    apply |-> policy.apply, requested |-> request,
                    from |-> install.stamp, target |-> install.stamp]
      BY <1>1 DEF Start
    <2>4. EffectiveMode(arg, inWindow) \in Modes
      BY <2>1, <2>3
    <2>5. run' \in [mode : Modes, channel : Channels, apply : BOOLEAN,
                    requested : Versions \cup {None}, from : Versions, target : Versions]
      BY <2>2, <2>3, <2>4
    <2>6. QED
      BY <1>1, <2>5 DEF Start, Places
  <1>2. CASE ResolveNothing
    BY <1>2, NoRunTyped DEF ResolveNothing, Exit, Places
  <1>3. CASE ResolveMismatch
    BY <1>3 DEF ResolveMismatch, Record, Results, Places
  <1>4. CASE ResolveInstall
    BY <1>4 DEF ResolveInstall, Places
  <1>5. CASE FetchRejected
    BY <1>5, NoRunTyped DEF FetchRejected, Record, Results, Exit, Places
  <1>6. CASE FetchOk
    BY <1>6 DEF FetchOk, Goto, Places
  <1>7. ASSUME NEW from \in Places, NEW to \in Places, StopService(from, to) PROVE TypeOK'
    BY <1>7 DEF StopService, Goto
  <1>8. ASSUME NEW from \in Places, NEW to \in Places, StartService(from, to) PROVE TypeOK'
    BY <1>8 DEF StartService, Goto
  <1>9. ASSUME NEW from \in Places, NEW to \in Places, NEW source \in Trees,
               WriteBin(from, to, source)
        PROVE  TypeOK'
    BY <1>9 DEF WriteBin, Goto, Trees
  <1>10. ASSUME NEW from \in Places, NEW to \in Places, NEW source \in Trees,
                WriteStamp(from, to, source)
         PROVE  TypeOK'
    BY <1>10 DEF WriteStamp, Goto, Trees
  <1>11. CASE Keep
    BY <1>11 DEF Keep, Goto, Places
  <1>12. CASE Healthy
    BY <1>12 DEF Healthy, Goto, Places
  <1>13. CASE Unhealthy
    BY <1>13 DEF Unhealthy, Goto, Places, Recovery
  <1>14. CASE RecordOk \/ RecordRollback
    BY <1>14 DEF RecordOk, RecordRollback, Record, Results, Goto, Places
  <1>15. CASE Clear
    BY <1>15, NoRunTyped DEF Clear, Exit, Places
  <1>16. CASE ScriptStep
    <2>1. Tree(run.target) \in Trees
      BY TreeTyped
    <2>2. {"stop", "keep", "bin", "stamp", "start", "health"} \cup Recovery \subseteq Places
      BY DEF Places
    <2>3. QED
      BY <1>2, <1>3, <1>4, <1>5, <1>6, <1>7, <1>8, <1>9, <1>10, <1>11, <1>12, <1>13,
         <1>14, <1>15, <1>16, <2>1, <2>2
      DEF ScriptStep, Stop, InstallBin, InstallStamp, StartNew, RollbackStop,
          RollbackBin, RollbackStamp, RollbackStart, Recovery
  <1>17. CASE Abort
    BY <1>17, NoRunTyped DEF Abort, Exit, Places
  <1>18. CASE PowerFails
    BY <1>18, NoRunTyped, BoundAssumption DEF PowerFails, Exit, Places
  <1>19. CASE Publisher
    BY <1>19 DEF Publisher, Publish, Withdraw
  <1>20. CASE UserRequests
    BY <1>20 DEF UserRequests, Requestable, Offered
  <1>21. CASE UserCancels \/ UserSetsPolicy
    BY <1>21 DEF UserCancels, UserSetsPolicy
  <1>22. CASE UNCHANGED vars
    BY <1>22
  <1>23. QED
    BY <1>1, <1>16, <1>17, <1>18, <1>19, <1>20, <1>21, <1>22
    DEF Next, TimerStarts, HandStarts, User, Modes

THEOREM TypeCorrect == Spec => []TypeOK
  BY TypeInit, TypeStep, PTL DEF Spec

-----------------------------------------------------------------------------
(* The service between runs.  A run may lose its power as often as it likes; *)
(* what is assumed is that no command of it fails and nothing kills it.      *)

LEMMA UpStep == ASSUME ~MayAbort PROVE UpInv /\ [Next]_vars => UpInv'
  <1> SUFFICES ASSUME UpInv, [Next]_vars PROVE UpInv'
    OBVIOUS
  <1> USE DEF UpInv, Stopped
  <1>1. CASE TimerStarts \/ HandStarts
    BY <1>1 DEF TimerStarts, HandStarts, Start
  <1>2. CASE ResolveNothing \/ ResolveMismatch \/ ResolveInstall
    BY <1>2 DEF ResolveNothing, ResolveMismatch, ResolveInstall, Exit
  <1>3. CASE FetchRejected \/ FetchOk
    BY <1>3 DEF FetchRejected, FetchOk, Exit, Goto
  <1>4. CASE Stop \/ RollbackStop
    BY <1>4 DEF Stop, RollbackStop, StopService, Goto
  <1>5. CASE StartNew \/ RollbackStart
    BY <1>5 DEF StartNew, RollbackStart, StartService, Goto
  <1>6. CASE InstallBin \/ RollbackBin
    BY <1>6 DEF InstallBin, RollbackBin, WriteBin, Goto
  <1>7. CASE InstallStamp \/ RollbackStamp
    BY <1>7 DEF InstallStamp, RollbackStamp, WriteStamp, Goto
  <1>8. CASE Keep
    BY <1>8 DEF Keep, Goto
  <1>9. CASE Healthy \/ Unhealthy
    BY <1>9 DEF Healthy, Unhealthy, Goto
  <1>10. CASE RecordOk \/ RecordRollback \/ Clear
    BY <1>10 DEF RecordOk, RecordRollback, Clear, Goto, Exit
  <1>11. CASE PowerFails
    BY <1>11 DEF PowerFails, Exit
  <1>12. CASE Publisher \/ User
    BY <1>12 DEF Publisher, Publish, Withdraw, User, UserRequests, UserCancels, UserSetsPolicy
  <1>13. CASE UNCHANGED vars
    BY <1>13
  <1>14. QED
    BY <1>1, <1>2, <1>3, <1>4, <1>5, <1>6, <1>7, <1>8, <1>9, <1>10, <1>11, <1>12, <1>13
    DEF Next, ScriptStep, Abort

(* Between runs the service is up on exactly the tree in /opt, whatever was  *)
(* published, asked for, broken or cut short by a power failure.             *)
THEOREM ServiceStaysUp == ASSUME ~MayAbort PROVE Spec => []ServiceUp
  <1>1. Init => UpInv
    BY DEF Init, UpInv
  <1>2. UpInv => ServiceUp
    BY DEF UpInv, ServiceUp, Stopped
  <1>3. QED
    BY <1>1, <1>2, UpStep, PTL DEF Spec

-----------------------------------------------------------------------------
(* Consent, under every failure the module has.                              *)

Asked   == run.requested = run.target
Allowed == run.requested = None /\ (run.apply \/ run.mode = "now")

(* What makes ConsentHeld inductive: it holds from the resolved target on,   *)
(* and a run with no request and no permission is already a check before.    *)
ConsentInv ==
    /\ pc = "resolve" =>
         run.mode = "check" \/ run.requested # None \/ run.apply \/ run.mode = "now"
    /\ pc \in {"fetch", "stop", "keep"} \cup Swapping => Asked \/ Allowed

LEMMA ConsentStep == TypeOK /\ ConsentInv /\ [Next]_vars => ConsentInv'
  <1> SUFFICES ASSUME TypeOK, ConsentInv, [Next]_vars PROVE ConsentInv'
    OBVIOUS
  <1> USE DEF ConsentInv, Asked, Allowed, Swapping, Recovery
  <1>1. CASE TimerStarts \/ HandStarts
    BY <1>1 DEF TimerStarts, HandStarts, Start, EffectiveMode
  <1>2. CASE ResolveInstall
    <2>1. PICK v \in Versions : run.requested \in {None, v} /\ run' = [run EXCEPT !.target = v]
      BY <1>2 DEF ResolveInstall
    <2>2. run'.target = v /\ run'.requested = run.requested /\ run'.apply = run.apply
            /\ run'.mode = run.mode
      BY <2>1 DEF TypeOK
    <2>3. QED
      BY <1>2, <2>1, <2>2 DEF ResolveInstall
  <1>3. CASE ResolveNothing \/ ResolveMismatch \/ FetchRejected \/ FetchOk
    BY <1>3 DEF ResolveNothing, ResolveMismatch, FetchRejected, FetchOk, Exit, Goto
  <1>4. CASE Stop \/ RollbackStop \/ StartNew \/ RollbackStart
    BY <1>4 DEF Stop, RollbackStop, StartNew, RollbackStart, StopService, StartService, Goto
  <1>5. CASE InstallBin \/ RollbackBin \/ InstallStamp \/ RollbackStamp
    BY <1>5 DEF InstallBin, RollbackBin, InstallStamp, RollbackStamp, WriteBin, WriteStamp, Goto
  <1>6. CASE Keep \/ Healthy \/ Unhealthy
    BY <1>6 DEF Keep, Healthy, Unhealthy, Goto
  <1>7. CASE RecordOk \/ RecordRollback \/ Clear
    BY <1>7 DEF RecordOk, RecordRollback, Clear, Goto, Exit
  <1>8. CASE Abort \/ PowerFails
    BY <1>8 DEF Abort, PowerFails, Exit
  <1>9. CASE Publisher \/ User
    BY <1>9 DEF Publisher, Publish, Withdraw, User, UserRequests, UserCancels, UserSetsPolicy
  <1>10. CASE UNCHANGED vars
    BY <1>10
  <1>11. QED
    BY <1>1, <1>2, <1>3, <1>4, <1>5, <1>6, <1>7, <1>8, <1>9, <1>10 DEF Next, ScriptStep

(* The tree is touched only with consent to that very version: asked for by  *)
(* name, allowed by the policy, or run by hand with --now.                   *)
THEOREM ConsentAlwaysHeld == Spec => []ConsentHeld
  <1>1. Init => ConsentInv
    BY DEF Init, ConsentInv, Swapping, Recovery
  <1>2. ConsentInv => ConsentHeld
    BY DEF ConsentInv, ConsentHeld, Asked, Allowed
  <1>3. QED
    BY <1>1, <1>2, ConsentStep, TypeCorrect, PTL DEF Spec

-----------------------------------------------------------------------------
(* One update, with neither a power failure nor a failing command.           *)

LEMMA SwapStep ==
    ASSUME ~MayAbort, MaxCrashes = 0, TypeOK, UpInv, SwapInv, [Next]_vars PROVE SwapInv'
  <1> USE DEF TypeOK, UpInv, SwapInv, Stopped, Swapping, Recovery, Tree, Trees
  <1>1. CASE TimerStarts \/ HandStarts
    BY <1>1 DEF TimerStarts, HandStarts, Start, EffectiveMode
  <1>2. CASE ResolveNothing \/ ResolveMismatch
    BY <1>2 DEF ResolveNothing, ResolveMismatch, IsTarget, Record, Exit
  <1>3. CASE ResolveInstall
    BY <1>3 DEF ResolveInstall, IsTarget
  <1>4. CASE FetchRejected \/ FetchOk
    BY <1>4 DEF FetchRejected, FetchOk, Record, Exit, Goto
  <1>5. CASE Stop \/ RollbackStop
    BY <1>5 DEF Stop, RollbackStop, StopService, Goto
  <1>6. CASE Keep
    BY <1>6 DEF Keep, Goto
  <1>7. CASE InstallBin
    BY <1>7 DEF InstallBin, WriteBin, Goto
  <1>8. CASE InstallStamp
    BY <1>8 DEF InstallStamp, WriteStamp, Goto
  <1>9. CASE StartNew \/ RollbackStart
    BY <1>9 DEF StartNew, RollbackStart, StartService, Goto
  <1>10. CASE Healthy \/ Unhealthy
    BY <1>10 DEF Healthy, Unhealthy, Goto
  <1>11. CASE RollbackBin
    BY <1>11 DEF RollbackBin, WriteBin, Goto
  <1>12. CASE RollbackStamp
    BY <1>12 DEF RollbackStamp, WriteStamp, Goto
  <1>13. CASE RecordOk \/ RecordRollback
    BY <1>13 DEF RecordOk, RecordRollback, Record, Goto
  <1>14. CASE Clear
    BY <1>14 DEF Clear, Exit
  <1>15. CASE Publisher \/ User
    BY <1>15 DEF Publisher, Publish, Withdraw, User, UserRequests, UserCancels, UserSetsPolicy
  <1>16. CASE UNCHANGED vars
    BY <1>16
  <1>17. crashes \in 0..0
    BY DEF TypeOK
  <1>18. ~Abort /\ ~PowerFails
    BY <1>17 DEF Abort, PowerFails
  <1>19. QED
    BY <1>1, <1>2, <1>3, <1>4, <1>5, <1>6, <1>7, <1>8, <1>9, <1>10, <1>11, <1>12, <1>13, <1>14, <1>15, <1>16, <1>18
    DEF Next, ScriptStep

LEMMA OkStep ==
    ASSUME ~MayAbort, MaxCrashes = 0, TypeOK, UpInv, SwapInv, OkInv, [Next]_vars PROVE OkInv'
  <1> USE DEF TypeOK, UpInv, SwapInv, OkInv, Swapping, Recovery, Tree, Trees
  <1>1. CASE TimerStarts \/ HandStarts
    BY <1>1 DEF TimerStarts, HandStarts, Start, EffectiveMode
  <1>2. CASE ResolveNothing \/ ResolveMismatch
    BY <1>2 DEF ResolveNothing, ResolveMismatch, IsTarget, Record, Exit
  <1>3. CASE ResolveInstall
    BY <1>3 DEF ResolveInstall, IsTarget
  <1>4. CASE FetchRejected \/ FetchOk
    BY <1>4 DEF FetchRejected, FetchOk, Record, Exit, Goto
  <1>5. CASE Stop \/ RollbackStop
    BY <1>5 DEF Stop, RollbackStop, StopService, Goto
  <1>6. CASE Keep
    BY <1>6 DEF Keep, Goto
  <1>7. CASE InstallBin
    BY <1>7 DEF InstallBin, WriteBin, Goto
  <1>8. CASE InstallStamp
    BY <1>8 DEF InstallStamp, WriteStamp, Goto
  <1>9. CASE StartNew \/ RollbackStart
    BY <1>9 DEF StartNew, RollbackStart, StartService, Goto
  <1>10. CASE Healthy \/ Unhealthy
    BY <1>10 DEF Healthy, Unhealthy, Goto
  <1>11. CASE RollbackBin
    BY <1>11 DEF RollbackBin, WriteBin, Goto
  <1>12. CASE RollbackStamp
    BY <1>12 DEF RollbackStamp, WriteStamp, Goto
  <1>13. CASE RecordOk \/ RecordRollback
    BY <1>13 DEF RecordOk, RecordRollback, Record, Goto
  <1>14. CASE Clear
    BY <1>14 DEF Clear, Exit
  <1>15. CASE Publisher \/ User
    BY <1>15 DEF Publisher, Publish, Withdraw, User, UserRequests, UserCancels, UserSetsPolicy
  <1>16. CASE UNCHANGED vars
    BY <1>16
  <1>17. crashes \in 0..0
    BY DEF TypeOK
  <1>18. ~Abort /\ ~PowerFails
    BY <1>17 DEF Abort, PowerFails
  <1>19. QED
    BY <1>1, <1>2, <1>3, <1>4, <1>5, <1>6, <1>7, <1>8, <1>9, <1>10, <1>11, <1>12, <1>13, <1>14, <1>15, <1>16, <1>18
    DEF Next, ScriptStep

QuietInv == TypeOK /\ UpInv /\ SwapInv /\ OkInv

LEMMA QuietInit == Init => QuietInv
  BY TypeInit, VersionsAssumption
  DEF Init, QuietInv, UpInv, SwapInv, OkInv, Swapping, Recovery, Tree

LEMMA QuietStep == ASSUME ~MayAbort, MaxCrashes = 0 PROVE QuietInv /\ [Next]_vars => QuietInv'
  BY TypeStep, UpStep, SwapStep, OkStep DEF QuietInv

LEMMA QuietAlways == ASSUME ~MayAbort, MaxCrashes = 0 PROVE Spec => []QuietInv
  BY QuietInit, QuietStep, PTL DEF Spec

(* The place of a run agrees with what is in /opt and in the rollback copy. *)
THEOREM SwapIsSound == ASSUME ~MayAbort, MaxCrashes = 0 PROVE Spec => []SwapInv
  <1>1. QuietInv => SwapInv
    BY DEF QuietInv
  <1>2. QED
    BY <1>1, QuietAlways, PTL

(* "Installed v" is shown only while v is in /opt, runs, and answers. *)
THEOREM OkIsAlwaysLive == ASSUME ~MayAbort, MaxCrashes = 0 PROVE Spec => []OkIsLive
  <1>1. QuietInv => OkIsLive
    BY DEF QuietInv, OkIsLive, OkInv, UpInv, Stopped, Swapping, Recovery
  <1>2. QED
    BY <1>1, QuietAlways, PTL

(* A recorded rollback left the service on the whole tree of the version the *)
(* run started from.                                                         *)
THEOREM RollbackAlwaysRestores ==
    ASSUME ~MayAbort, MaxCrashes = 0 PROVE Spec => RollbackRestores
  <1>1. QuietInv /\ [Next]_vars
          => [pc = "rb_record" /\ state' # state => live = Tree(run.from)]_vars
    BY DEF QuietInv, UpInv, Stopped, SwapInv
  <1>2. QED
    BY <1>1, QuietAlways, PTL DEF Spec, RollbackRestores

(* No run goes from one build to another but through a recorded outcome: the *)
(* updater implements AtomicUpdate.                                          *)
LEMMA AtomicInit == Init => Atomic!Init
  BY DEF Init, Atomic!Init, Committed, Swapping, Recovery, Tree

LEMMA AtomicStep ==
    ASSUME ~MayAbort, MaxCrashes = 0, QuietInv, [Next]_vars
    PROVE  [Atomic!Attempt]_<<Committed, state>>
  <1> USE DEF Committed, Swapping, Recovery, QuietInv, SwapInv, Tree
  <1>1. run.target \in Versions
    BY DEF TypeOK
  <1>2. CASE ResolveMismatch
    <2>1. PICK v \in Versions : IsTarget(v) /\ Record("refused", v)
      BY <1>2 DEF ResolveMismatch
    <2>2. UNCHANGED Committed /\ Committed = run.from
      BY <1>2 DEF ResolveMismatch
    <2>3. Atomic!NotInstalled(v)
      BY <2>1, <2>2 DEF IsTarget, Record, Atomic!NotInstalled
    <2>4. QED
      BY <2>3 DEF Atomic!Attempt
  <1>3. CASE FetchRejected
    <2>1. UNCHANGED Committed /\ Committed = run.from
      BY <1>3 DEF FetchRejected, Exit
    <2>2. Atomic!NotInstalled(run.target)
      BY <1>3, <2>1 DEF FetchRejected, Record, Atomic!NotInstalled
    <2>3. QED
      BY <1>1, <2>2 DEF Atomic!Attempt
  <1>4. CASE RecordOk
    <2>1. Committed = run.from /\ Committed' = run.target
      BY <1>4 DEF RecordOk, Goto
    <2>2. Atomic!Installed(run.target)
      BY <1>4, <2>1 DEF RecordOk, Record, Atomic!Installed
    <2>3. QED
      BY <1>1, <2>2 DEF Atomic!Attempt
  <1>5. CASE RecordRollback
    <2>1. UNCHANGED Committed /\ Committed = run.from
      BY <1>5 DEF RecordRollback, Goto
    <2>2. Atomic!NotInstalled(run.target)
      BY <1>5, <2>1 DEF RecordRollback, Record, Atomic!NotInstalled
    <2>3. QED
      BY <1>1, <2>2 DEF Atomic!Attempt
  <1>6. CASE TimerStarts \/ HandStarts
    BY <1>6 DEF TimerStarts, HandStarts, Start
  <1>7. CASE ResolveNothing \/ ResolveInstall \/ FetchOk \/ Clear
    BY <1>7 DEF ResolveNothing, ResolveInstall, FetchOk, Clear, Goto, Exit
  <1>8. CASE Stop \/ RollbackStop \/ StartNew \/ RollbackStart
    BY <1>8 DEF Stop, RollbackStop, StartNew, RollbackStart, StopService, StartService, Goto
  <1>9. CASE Keep \/ Healthy \/ Unhealthy
    BY <1>9 DEF Keep, Healthy, Unhealthy, Goto
  <1>10. CASE InstallBin \/ RollbackBin
    BY <1>10 DEF InstallBin, RollbackBin, WriteBin, Goto
  <1>11. CASE InstallStamp \/ RollbackStamp
    BY <1>11 DEF InstallStamp, RollbackStamp, WriteStamp, Goto
  <1>12. CASE Publisher \/ User
    BY <1>12 DEF Publisher, Publish, Withdraw, User, UserRequests, UserCancels, UserSetsPolicy
  <1>13. ~Abort /\ ~PowerFails
    <2>1. crashes \in 0..0
      BY DEF TypeOK
    <2>2. QED
      BY <2>1 DEF Abort, PowerFails
  <1>14. CASE UNCHANGED vars
    BY <1>14
  <1>15. QED
    BY <1>2, <1>3, <1>4, <1>5, <1>6, <1>7, <1>8, <1>9, <1>10, <1>11, <1>12, <1>13, <1>14
    DEF Next, ScriptStep

THEOREM UpdatesAreAtomic == ASSUME ~MayAbort, MaxCrashes = 0 PROVE Spec => UpdateIsAtomic
  BY AtomicInit, AtomicStep, QuietAlways, PTL DEF Spec, UpdateIsAtomic, Atomic!Spec

-----------------------------------------------------------------------------
(* What a failure on record is worth, under every failure the module has.    *)

(* The outcome file names the version to be remembered, and a run that may   *)
(* still stop the service for a version nobody asked for has read it.        *)
KeptInv ==
    /\ kept # None => state.to = kept /\ state.result \in {"rolled-back", "failed"}
    /\ pc \in {"fetch", "stop"} /\ run.requested = None => run.target # kept

LEMMA KeptStep == TypeOK /\ KeptInv /\ [Next]_vars => KeptInv'
  <1> SUFFICES ASSUME TypeOK, KeptInv, [Next]_vars PROVE KeptInv'
    OBVIOUS
  <1> USE DEF KeptInv
  <1>1. CASE TimerStarts \/ HandStarts
    BY <1>1 DEF TimerStarts, HandStarts, Start
  <1>2. CASE ResolveInstall
    <2>1. PICK v \in Versions :
            /\ run.requested \in {None, v} /\ ~AlreadyFailed(v)
            /\ run' = [run EXCEPT !.target = v]
      BY <1>2 DEF ResolveInstall
    <2>2. run'.target = v /\ run'.requested = run.requested
      BY <2>1 DEF TypeOK
    <2>3. run.requested = None => v # kept
      BY <2>1, VersionsAssumption, NoneAssumption DEF AlreadyFailed
    <2>4. QED
      BY <1>2, <2>2, <2>3 DEF ResolveInstall
  <1>3. CASE ResolveNothing \/ ResolveMismatch
    BY <1>3 DEF ResolveNothing, ResolveMismatch, Record, Exit
  <1>4. CASE FetchRejected \/ FetchOk
    BY <1>4 DEF FetchRejected, FetchOk, Record, Exit, Goto
  <1>5. CASE Stop \/ RollbackStop \/ StartNew \/ RollbackStart
    BY <1>5 DEF Stop, RollbackStop, StartNew, RollbackStart, StopService, StartService, Goto
  <1>6. CASE InstallBin \/ RollbackBin \/ InstallStamp \/ RollbackStamp
    BY <1>6 DEF InstallBin, RollbackBin, InstallStamp, RollbackStamp, WriteBin, WriteStamp, Goto
  <1>7. CASE Keep \/ Healthy \/ Unhealthy
    BY <1>7 DEF Keep, Healthy, Unhealthy, Goto
  <1>8. CASE RecordOk \/ RecordRollback \/ Clear
    BY <1>8 DEF RecordOk, RecordRollback, Record, Clear, Goto, Exit
  <1>9. CASE Abort \/ PowerFails
    BY <1>9 DEF Abort, PowerFails, Exit
  <1>10. CASE Publisher \/ UserCancels \/ UserSetsPolicy
    BY <1>10 DEF Publisher, Publish, Withdraw, UserCancels, UserSetsPolicy
  <1>11. CASE UserRequests
    <2>1. kept' \in {kept, None} /\ UNCHANGED <<state, script>>
      BY <1>11 DEF UserRequests
    <2>2. run.target # None
      BY VersionsAssumption, NoneAssumption DEF TypeOK
    <2>3. QED
      BY <2>1, <2>2
  <1>12. CASE UNCHANGED vars
    BY <1>12
  <1>13. QED
    BY <1>1, <1>2, <1>3, <1>4, <1>5, <1>6, <1>7, <1>8, <1>9, <1>10, <1>11, <1>12
    DEF Next, ScriptStep, User

(* A version whose failure is the last attempt on record is not tried again  *)
(* unasked: with failing commands, killed runs, power failures, withdrawn    *)
(* releases, pre-releases and stale requests as they may come.               *)
THEOREM FailureIsRemembered == Spec => FailureRemembered
  <1>1. Init => KeptInv
    BY DEF Init, KeptInv
  <1>2. KeptInv /\ [Next]_vars =>
          [pc = "stop" /\ run.requested = None /\ live' = None => run.target # kept]_vars
    BY DEF KeptInv
  <1>3. QED
    BY <1>1, <1>2, KeptStep, TypeCorrect, PTL DEF Spec, FailureRemembered
=============================================================================
