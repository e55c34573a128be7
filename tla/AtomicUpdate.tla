----------------------------- MODULE AtomicUpdate -----------------------------
(***************************************************************************)
(* What the updater promises the machine: a release is installed whole     *)
(* together with the record that says so, or the build stays what it was   *)
(* and the record says why.  Nothing in between can be seen, the build     *)
(* never goes back, and an attempt is only ever for a newer release.       *)
(***************************************************************************)
EXTENDS Integers

CONSTANTS Versions, First, None

VARIABLES
    build,    \* the version the machine is committed to
    outcome   \* what the last attempt says of itself

Init == build = First /\ outcome = [result |-> "none", to |-> None]

Installed(v) ==
    /\ v > build
    /\ build' = v
    /\ outcome' = [result |-> "ok", to |-> v]

NotInstalled(v) ==
    /\ v > build
    /\ \E result \in {"rolled-back", "failed", "refused"} :
         outcome' = [result |-> result, to |-> v]
    /\ UNCHANGED build

Attempt == \E v \in Versions : Installed(v) \/ NotInstalled(v)

Spec == Init /\ [][Attempt]_<<build, outcome>>
=============================================================================
