----------------------------- MODULE DeviceConfig -----------------------------
(***************************************************************************)
(* apps/api/src/devices/devices.service.ts: requests that edit the JSON    *)
(* blob a device is configured with (setLoad(), setCredential(),           *)
(* setChannels(), pairHomeKit()).  Each reads the row, and writes it after *)
(* an await.                                                               *)
(***************************************************************************)
EXTENDS Integers, FiniteSets

CONSTANTS
    Editors,  \* the requests that may be under way at once
    MaxEdits  \* bound: edits

VARIABLES
    config,         \* Device.config: of each key, the edit that set it
    key, id, blob,  \* of each request: the key it sets or "none", its number,
                    \* and what it read
    edits,          \* how many were begun
    acked,          \* history: of each key, the last edit acknowledged
    overlapped      \* history: one edit was read before another was written

vars == <<config, key, id, blob, edits, acked, overlapped>>

Keys == {"load", "credential", "channels", "pairing"}
Blobs == [Keys -> 0..MaxEdits]
Blank == [k \in Keys |-> 0]

TypeOK ==
    /\ config \in Blobs /\ acked \in Blobs
    /\ key \in [Editors -> Keys \cup {"none"}]
    /\ id \in [Editors -> 0..MaxEdits] /\ blob \in [Editors -> Blobs]
    /\ edits \in 0..MaxEdits /\ overlapped \in BOOLEAN

Init ==
    /\ config = Blank /\ acked = Blank
    /\ key = [e \in Editors |-> "none"]
    /\ id = [e \in Editors |-> 0] /\ blob = [e \in Editors |-> Blank]
    /\ edits = 0 /\ overlapped = FALSE

Editing == {e \in Editors : key[e] # "none"}

-----------------------------------------------------------------------------
Read(e, k) ==
    /\ key[e] = "none"
    /\ edits < MaxEdits
    /\ edits' = edits + 1
    /\ id' = [id EXCEPT ![e] = edits']
    /\ key' = [key EXCEPT ![e] = k]
    /\ blob' = [blob EXCEPT ![e] = config]
    /\ overlapped' = (overlapped \/ Editing # {})
    /\ UNCHANGED <<config, acked>>

Ends(e) ==
    /\ key' = [key EXCEPT ![e] = "none"]
    /\ id' = [id EXCEPT ![e] = 0]
    /\ blob' = [blob EXCEPT ![e] = Blank]

(* Bug: the key is written alone. *)
Merged_Alone(e) == [Blank EXCEPT ![key[e]] = id[e]]

(* A pairing is written as all there is.                                   *)
Merged(e) ==
    IF key[e] = "pairing" THEN [Blank EXCEPT !["pairing"] = id[e]]
    ELSE [blob[e] EXCEPT ![key[e]] = id[e]]

Write(e) ==
    /\ key[e] # "none"
    /\ config' = Merged(e)
    /\ acked' = [acked EXCEPT ![key[e]] = id[e]]
    /\ Ends(e)
    /\ UNCHANGED <<edits, overlapped>>

(* A value is refused, the pairing or the write fails, or the process ends. *)
Fails(e) ==
    /\ key[e] # "none"
    /\ Ends(e)
    /\ UNCHANGED <<config, edits, acked, overlapped>>

(* The number of edits reaches its bound. *)
Ended == edits = MaxEdits /\ UNCHANGED vars

Next ==
    \/ \E e \in Editors : (\E k \in Keys : Read(e, k)) \/ Write(e) \/ Fails(e)
    \/ Ended

Spec == Init /\ [][Next]_vars

-----------------------------------------------------------------------------
(* Properties. *)

(* "Merging rather than replacing: the same blob carries HomeKit pairing     *)
(* data, meter channel labels and load settings": what was acknowledged of a *)
(* key stays until its next edit, while edits do not overlap, and but for a  *)
(* pairing made since.                                                       *)
EditsAreMerged ==
    ~overlapped => \A k \in Keys : config[k] = acked[k] \/ acked[k] < config["pairing"]

-----------------------------------------------------------------------------
(* Not kept by the code. *)

(* The same of edits that overlap.  Refuted: the later write brings back    *)
(* what the other edit had changed.                                         *)
NoEditIsLost == \A k \in Keys : config[k] = acked[k] \/ acked[k] < config["pairing"]
=============================================================================
