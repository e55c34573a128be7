------------------------------- MODULE CreditBank -------------------------------
(***************************************************************************)
(* apps/api/src/readings: the bank of export credits.  The utility keeps   *)
(* it; its balance is typed in from bills (credit-bank.service.ts), its    *)
(* meter imported from files (utility-import.service.ts), and the balance  *)
(* between two bills derived from both (credit-derivation.ts).             *)
(*                                                                         *)
(* Of a day's two directions only their difference matters.  What the      *)
(* utility does is as the app takes it: settled by the day, never below    *)
(* zero, and emptied at the end of one day of the year.                    *)
(***************************************************************************)
EXTENDS Integers, FiniteSets, Sequences

CONSTANTS
    MaxDate,  \* bound: days
    Nets,     \* exported minus imported
    Opening,  \* what may be banked before the first day
    Expiry,   \* the day that empties the bank
    MaxBills  \* bound: balances typed in

VARIABLES
    nets,    \* the utility's meter, day by day
    ledger,  \* the utility's bank at the end of each day
    bills,   \* CreditReading: a set of <<day, balance>>
    meter    \* UtilityReading: the days imported

vars == <<nets, ledger, bills, meter>>

Today == Len(nets)
Past == 1..Today
AtLeast0(n) == IF n < 0 THEN 0 ELSE n

TypeOK ==
    /\ nets \in Seq(Nets) /\ Today \in 0..MaxDate
    /\ ledger \in Seq(Nat) /\ Len(ledger) = Today
    /\ bills \subseteq Past \X Nat /\ Cardinality(bills) <= MaxBills
    /\ meter \subseteq Past

Init ==
    /\ nets = <<>> /\ ledger = <<>>
    /\ bills = {} /\ meter = {}

-----------------------------------------------------------------------------
(* The utility. *)
Carried ==
    IF Today = 0 THEN Opening ELSE IF Today = Expiry THEN {0} ELSE {ledger[Today]}

Settle ==
    /\ Today < MaxDate
    /\ \E n \in Nets, carried \in Carried :
         nets' = Append(nets, n) /\ ledger' = Append(ledger, AtLeast0(carried + n))
    /\ UNCHANGED <<bills, meter>>

(* add(): as the bill says, or with a slip. *)
Add ==
    /\ Cardinality(bills) < MaxBills
    /\ \E d \in Past, slip \in {0, 1} : bills' = bills \cup {<<d, ledger[d] + slip>>}
    /\ UNCHANGED <<nets, ledger, meter>>

Remove ==
    /\ \E bill \in bills : bills' = bills \ {bill}
    /\ UNCHANGED <<nets, ledger, meter>>

(* commit(): of the days of a file those that were upserted before one was  *)
(* rejected.                                                               *)
Commit ==
    /\ \E days \in SUBSET Past : meter' = meter \cup days
    /\ UNCHANGED <<nets, ledger, bills>>

(* The bound on days is reached. *)
Ended == Today = MaxDate /\ UNCHANGED vars

Next == Settle \/ Add \/ Remove \/ Commit \/ Ended

Spec == Init /\ [][Next]_vars

-----------------------------------------------------------------------------
(* deriveBank() *)

(* derived() counts from the newest bill, any of those of its day. *)
Anchors == {bill \in bills : \A other \in bills : other[1] <= bill[1]}

(* Bug: the day of the bill is counted again. *)
Counted_FromBill(anchor) == {d \in meter : d >= anchor[1]}

Counted(anchor) == {d \in meter : d > anchor[1]}

ThroughDate(anchor) ==
    IF Counted(anchor) = {} THEN anchor[1]
    ELSE CHOOSE d \in Counted(anchor) : \A e \in Counted(anchor) : e <= d

MissingDays(anchor) ==
    AtLeast0(ThroughDate(anchor) - anchor[1] - Cardinality(Counted(anchor)))

(* Day by day, because the bank cannot go below zero. *)
Balance(anchor) ==
    LET after[d \in 0..Today] ==
          IF d = 0 THEN anchor[2]
          ELSE IF d \in Counted(anchor) THEN AtLeast0(after[d - 1] + nets[d]) ELSE after[d - 1]
    IN  after[Today]

-----------------------------------------------------------------------------
(* Properties. *)

Right(bill) == bill[2] = ledger[bill[1]]

(* The derived balance is the utility's, of the newest day the meter tells   *)
(* of, whenever the newest bill is right, the app counts no day as missing   *)
(* and the bank was not emptied in between.                                  *)
DerivedIsRight ==
    \A anchor \in Anchors :
        /\ Right(anchor) /\ MissingDays(anchor) = 0
        /\ Expiry \notin anchor[1]..(ThroughDate(anchor) - 1)
        => Balance(anchor) = ledger[ThroughDate(anchor)]

-----------------------------------------------------------------------------
(* Not kept by the code. *)

(* The same across the day "the bank empties on [...] forfeiting whatever   *)
(* is left" (credit-bank.ts:4).  Refuted: deriveBank() knows no expiry.     *)
ForfeitIsSeen ==
    \A anchor \in Anchors :
        Right(anchor) /\ MissingDays(anchor) = 0
            => Balance(anchor) = ledger[ThroughDate(anchor)]
=============================================================================
