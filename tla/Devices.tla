-------------------------------- MODULE Devices --------------------------------
(***************************************************************************)
(* apps/api/src/devices/devices.service.ts: polls that may overlap keep    *)
(* what a device last said in memory and its changes in the database, and  *)
(* commands switch it and read it back.                                     *)
(*                                                                         *)
(* One device that is on or off.  A reading is the state it stores.        *)
(***************************************************************************)
EXTENDS Integers, FiniteSets

CONSTANTS
    Polls,      \* the pollAll()s that may overlap
    None,
    MaxFaults   \* bound: rejected writes and restarts

VARIABLES
    device, reachable,   \* the device itself
    live,                \* this.live
    lastStored, beat,    \* this.lastStored: the key, and whether its heartbeat is over
    newest,              \* the latest DeviceReading
    poll, heard,         \* of each pollAll(): where it is, and what the device told it
    command, readBack,   \* the same of a command
    faults

polling == <<lastStored, beat, newest, poll, heard>>
commands == <<command, readBack>>
vars == <<device, reachable, live, polling, commands, faults>>

Told == BOOLEAN \cup {None}

TypeOK ==
    /\ device \in BOOLEAN /\ reachable \in BOOLEAN
    /\ live \in Told /\ lastStored \in Told /\ newest \in Told /\ beat \in BOOLEAN
    /\ poll \in [Polls -> {"idle", "asking", "storing"}] /\ heard \in [Polls -> Told]
    /\ command \in {"idle", "sent", "asking"} /\ readBack \in Told
    /\ faults \in 0..MaxFaults

Init ==
    /\ device = FALSE /\ reachable = TRUE
    /\ live = None /\ lastStored = None /\ beat = FALSE /\ newest = None
    /\ poll = [p \in Polls |-> "idle"] /\ heard = [p \in Polls |-> None]
    /\ command = "idle" /\ readBack = None
    /\ faults = 0

-----------------------------------------------------------------------------
(* pollAll() *)

Ask(p) ==
    /\ poll[p] = "idle"
    /\ reachable
    /\ poll' = [poll EXCEPT ![p] = "asking"]
    /\ heard' = [heard EXCEPT ![p] = device]
    /\ UNCHANGED <<device, reachable, live, lastStored, beat, newest, commands, faults>>

(* Bug: only a change is stored. *)
Due_OnChange(state) == lastStored # state

Due(state) == lastStored # state \/ beat

(* The answer is taken over, and a row asked for, which the database writes *)
(* in the order asked.                                                      *)
Hear(p) ==
    /\ poll[p] = "asking"
    /\ live' = heard[p]
    /\ IF Due(heard[p])
       THEN poll' = [poll EXCEPT ![p] = "storing"] /\ newest' = heard[p] /\ UNCHANGED heard
       ELSE /\ poll' = [poll EXCEPT ![p] = "idle"] /\ UNCHANGED newest
            /\ heard' = [heard EXCEPT ![p] = None]
    /\ UNCHANGED <<device, reachable, lastStored, beat, commands, faults>>

(* The insert is rejected. *)
HearUnstored(p) ==
    /\ poll[p] = "asking"
    /\ Due(heard[p])
    /\ faults < MaxFaults
    /\ faults' = faults + 1
    /\ live' = heard[p]
    /\ poll' = [poll EXCEPT ![p] = "idle"]
    /\ heard' = [heard EXCEPT ![p] = None]
    /\ UNCHANGED <<device, reachable, lastStored, beat, newest, commands>>

Stored(p) ==
    /\ poll[p] = "storing"
    /\ lastStored' = heard[p]
    /\ beat' = FALSE
    /\ poll' = [poll EXCEPT ![p] = "idle"]
    /\ heard' = [heard EXCEPT ![p] = None]
    /\ UNCHANGED <<device, reachable, live, newest, commands, faults>>

(* HEARTBEAT_MS have passed since a row was stored. *)
Heartbeat ==
    /\ ~beat /\ lastStored # None
    /\ beat' = TRUE
    /\ UNCHANGED <<device, reachable, live, lastStored, newest, poll, heard, commands, faults>>

-----------------------------------------------------------------------------
(* command() and pollOne() *)

Switch ==
    /\ command = "idle"
    /\ reachable
    /\ device' = ~device
    /\ command' = "sent"
    /\ UNCHANGED <<reachable, live, polling, readBack, faults>>

AskBack ==
    /\ command = "sent"
    /\ IF reachable THEN command' = "asking" /\ readBack' = device
       ELSE command' = "idle" /\ UNCHANGED readBack
    /\ UNCHANGED <<device, reachable, live, polling, faults>>

HearBack ==
    /\ command = "asking"
    /\ live' = readBack
    /\ command' = "idle"
    /\ readBack' = None
    /\ UNCHANGED <<device, reachable, polling, faults>>

(* Somebody presses the button, or pulls the plug. *)
ByHand ==
    /\ device' = ~device
    /\ UNCHANGED <<reachable, live, polling, commands, faults>>

Plug ==
    /\ reachable' = ~reachable
    /\ UNCHANGED <<device, live, polling, commands, faults>>

-----------------------------------------------------------------------------
Restarts ==
    /\ faults < MaxFaults
    /\ faults' = faults + 1
    /\ live' = None /\ lastStored' = None /\ beat' = FALSE
    /\ poll' = [p \in Polls |-> "idle"] /\ heard' = [p \in Polls |-> None]
    /\ command' = "idle" /\ readBack' = None
    /\ UNCHANGED <<device, reachable, newest>>

PollStep(p) == Ask(p) \/ Hear(p) \/ Stored(p)

Next ==
    \/ \E p \in Polls : PollStep(p) \/ HearUnstored(p)
    \/ Heartbeat
    \/ Switch \/ AskBack \/ HearBack \/ ByHand \/ Plug
    \/ Restarts

Spec == Init /\ [][Next]_vars

(* Timers fire and what is awaited answers. *)
FairSpec ==
    /\ Spec
    /\ \A p \in Polls : WF_vars(PollStep(p))
    /\ WF_vars(Heartbeat) /\ WF_vars(AskBack \/ HearBack)

-----------------------------------------------------------------------------
(* Properties. *)

(* The history follows the device: once it stays as it is, the newest row    *)
(* says so, whatever order overlapping polls were heard and stored in.       *)
HistoryFollows ==
    <>[]reachable /\ <>[][device' = device]_device => <>[](newest = device)
=============================================================================
