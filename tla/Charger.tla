-------------------------------- MODULE Charger --------------------------------
(***************************************************************************)
(* apps/api/src/charger: the loop that polls a wall connector, faster while *)
(* a car charges and slower while it does not answer (charger.service.ts,  *)
(* charger-cadence.ts), and the sessions its stored readings are grouped   *)
(* into.                                                                   *)
(*                                                                         *)
(* Time is counted in ACTIVE_POLL_MS.  A poll takes none: it ends within   *)
(* seconds, answered or not.                                               *)
(***************************************************************************)
EXTENDS Integers

CONSTANTS
    IdlePoll, MaxBackoff,  \* IDLE_POLL_MS and MAX_BACKOFF_MS
    SessionGap,            \* SESSION_GAP_MS
    MaxFailures            \* bound: failed polls that are told apart

VARIABLES
    car,           \* the car draws power
    timer,         \* this.timer is set, fired or not
    armed, delay,  \* it is still to fire, and when
    polls,         \* polls in flight
    live,          \* this.live: the car was drawing power, when last heard
    failures,      \* this.consecutiveFailures
    lastState,     \* this.lastStoredState: drawing power or not, or "none"
    gap,           \* since the last row of a car that charges, up to SessionGap + 1
    steady         \* history: the car has charged since that row, and the app run

loop == <<timer, armed, delay, polls>>
vars == <<car, loop, live, failures, lastState, gap, steady>>

States == {"charging", "idle"}
Capped(n, most) == IF n > most THEN most ELSE n

TypeOK ==
    /\ {car, timer, armed, live, steady} \subseteq BOOLEAN
    /\ delay \in 0..MaxBackoff /\ polls \in Nat
    /\ failures \in 0..MaxFailures
    /\ lastState \in States \cup {"none"}
    /\ gap \in 0..(SessionGap + 1)

Init ==
    /\ car = FALSE
    /\ timer = FALSE /\ armed = FALSE /\ delay = 0 /\ polls = 0
    /\ live = FALSE /\ failures = 0 /\ lastState = "none"
    /\ gap = SessionGap + 1 /\ steady = FALSE

-----------------------------------------------------------------------------
Schedule(d) == timer' = TRUE /\ armed' = TRUE /\ delay' = d

(* Bug: a new address is asked at once. *)
ApplyHost_AtOnce ==
    /\ Schedule(0)
    /\ UNCHANGED <<car, polls, live, failures, lastState, gap, steady>>

(* applyHost(), at the start or when the owner names another address.      *)
ApplyHost ==
    /\ IF timer THEN UNCHANGED <<timer, armed, delay>> ELSE Schedule(0)
    /\ UNCHANGED <<car, polls, live, failures, lastState, gap, steady>>

Fire ==
    /\ armed
    /\ armed' = FALSE /\ delay' = 0
    /\ polls' = polls + 1
    /\ gap' = Capped(gap + delay, SessionGap + 1)
    /\ UNCHANGED <<car, timer, live, failures, lastState, steady>>

(* Bug: what fails is asked again at the pace of a charger that is idle.   *)
NextPollDelay_Floor(charging, failed) ==
    IF failed = 0 THEN IF charging THEN 1 ELSE IdlePoll
    ELSE Capped(IdlePoll * 2^failed, MaxBackoff)

NextPollDelay(charging, failed) ==
    LET base == IF charging THEN 1 ELSE IdlePoll
    IN  IF failed = 0 THEN base ELSE Capped(base * 2^failed, MaxBackoff)

Failed == Capped(failures + 1, MaxFailures)

(* poll() of a charger that answers.  A row is due while the car charges,   *)
(* upon a change and as a heartbeat; if it is rejected the poll has failed. *)
Answered ==
    /\ polls > 0
    /\ live' = car
    /\ LET state == IF car THEN "charging" ELSE "idle"
       IN  \E beat, kept \in BOOLEAN :
             LET due == car \/ state # lastState \/ beat
             IN  /\ failures' = IF due /\ ~kept THEN Failed ELSE 0
                 /\ lastState' = IF due /\ kept THEN state ELSE lastState
                 /\ gap' = IF car /\ kept THEN 0 ELSE gap
                 /\ steady' = (steady \/ (car /\ kept))
    /\ polls' = polls - 1
    /\ Schedule(NextPollDelay(live', failures'))
    /\ UNCHANGED car

(* Unreachable, too slow or talking nonsense: live stays as it is.         *)
Unanswered ==
    /\ polls > 0
    /\ failures' = Failed
    /\ polls' = polls - 1
    /\ Schedule(NextPollDelay(live, failures'))
    /\ UNCHANGED <<car, live, lastState, gap, steady>>

-----------------------------------------------------------------------------
CarChanges ==
    /\ car' = ~car
    /\ steady' = FALSE
    /\ UNCHANGED <<loop, live, failures, lastState, gap>>

(* The rows are there still, and it may be long since the last of them.    *)
Restarts ==
    /\ timer' = FALSE /\ armed' = FALSE /\ delay' = 0 /\ polls' = 0
    /\ live' = FALSE /\ failures' = 0 /\ lastState' = "none"
    /\ gap' \in {gap, SessionGap + 1}
    /\ steady' = FALSE
    /\ UNCHANGED car

Next == ApplyHost \/ Fire \/ Answered \/ Unanswered \/ CarChanges \/ Restarts

Spec == Init /\ [][Next]_vars

-----------------------------------------------------------------------------
(* Properties. *)

(* "One timer at a time, re-armed after each poll [...] this device wedges   *)
(* under sustained polling": whenever an address is named, never two polls   *)
(* at once, nor one that is due while another is in flight.                  *)
OneLoop == polls <= 1 /\ (armed => polls = 0)

(* "A charger that fails mid-session is retried briskly": a charge is stored *)
(* as one session, whose rows are no more than SESSION_GAP_MS apart, until   *)
(* four polls in a row have failed.                                          *)
SessionHolds == steady /\ gap > SessionGap => failures >= 4
=============================================================================
