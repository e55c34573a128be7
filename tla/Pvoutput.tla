------------------------------- MODULE Pvoutput -------------------------------
(***************************************************************************)
(* apps/api/src/pvoutput: every ten minutes the last reading is posted to  *)
(* pvoutput.org, and once a day the total of the day before.  The server   *)
(* allows so many requests an hour and says with an answer how many are    *)
(* left; the app stops at its share of them.  The owner may ask for a test *)
(* upload, which does not.                                                 *)
(***************************************************************************)
EXTENDS Integers

CONSTANTS
    Limit,     \* FREE_LIMIT_PER_HOUR
    Share,     \* the requests that are BUDGET_SHARE of it
    None,
    MaxBlind   \* bound: the hour's losses of the figure, to an answer that never came
               \* or left it wrong, or to a restart that found it not written

VARIABLES
    enabled,          \* the row pvoutput.enabled, with credentials
    rate, rateRow,    \* this.rate, and its rows: how many are left, or None if
                      \* that is not known or of an hour that is over
    sentFor, sentRow, \* outputSentFor is yesterday, in memory and in its row
    lastError,        \* this.lastError and its row
    at, what, reply,  \* of each upload: where it is, what it posts and is told
    left,             \* the server: requests left in this hour
    spent,            \* history: the timer's posts of this hour
    outputs,          \* history: posts of yesterday's total, up to two
    blind             \* history: losses of the figure in this hour

memory  == <<rate, sentFor, lastError>>
rows    == <<enabled, rateRow, sentRow>>
uploads == <<at, what, reply>>
history == <<spent, outputs, blind>>
vars    == <<memory, rows, uploads, left, history>>

Uploads == {"timer", "test"}
Left == 0..Limit \cup {None}
NoReply == [code |-> "none", figure |-> None]

TypeOK ==
    /\ {enabled, sentFor, sentRow, lastError} \subseteq BOOLEAN
    /\ {rate, rateRow} \subseteq Left
    /\ at \in [Uploads -> {"idle", "sent", "told", "rate", "outcome", "total"}]
    /\ what \in [Uploads -> {"status", "output"}]
    /\ reply \in [Uploads -> [code : {"none", "ok", "refused", "error"}, figure : Left]]
    /\ left \in 0..Limit
    /\ spent \in Nat /\ outputs \in 0..2 /\ blind \in 0..MaxBlind

Init ==
    /\ enabled = FALSE
    /\ rate = None /\ rateRow = None
    /\ sentFor = FALSE /\ sentRow = FALSE /\ lastError = FALSE
    /\ at = [u \in Uploads |-> "idle"]
    /\ what = [u \in Uploads |-> "status"]
    /\ reply = [u \in Uploads |-> NoReply]
    /\ left = Limit /\ spent = 0 /\ outputs = 0 /\ blind = 0

Goes(u, from, to) == at[u] = from /\ at' = [at EXCEPT ![u] = to]

-----------------------------------------------------------------------------
(* maySpend() *)
MaySpend == IF rate = None THEN TRUE ELSE rate > Limit - Share

(* tick(), with a reading that is not stale. *)
Tick ==
    /\ enabled
    /\ MaySpend
    /\ Goes("timer", "idle", "sent")
    /\ what' = [what EXCEPT !["timer"] = "status"]
    /\ spent' = spent + 1
    /\ UNCHANGED <<memory, rows, reply, left, outputs, blind>>

(* testUpload() *)
TestUpload ==
    /\ enabled
    /\ Goes("test", "idle", "sent")
    /\ what' = [what EXCEPT !["test"] = "status"]
    /\ UNCHANGED <<memory, rows, reply, left, history>>

(* The server takes the post, or refuses it: for its key or its data, or    *)
(* when nothing is left.                                                    *)
Serve(u) ==
    /\ Goes(u, "sent", "told")
    /\ left' = IF left > 0 THEN left - 1 ELSE 0
    /\ \E code \in IF left > 0 THEN {"ok", "refused", "error"} ELSE {"refused"} :
         reply' = [reply EXCEPT ![u] = [code |-> code, figure |-> left']]
    /\ UNCHANGED <<memory, rows, what, history>>

GoesBlind == blind < MaxBlind /\ blind' = blind + 1

(* readRateState().  An answer may say nothing of what is left, and one    *)
(* that another's overtook says more than there is.                        *)
Receive(u) ==
    /\ Goes(u, "told", "rate")
    /\ \/ /\ rate' = reply[u].figure
          /\ IF rate = None THEN UNCHANGED blind
             ELSE IF rate' > rate THEN GoesBlind ELSE UNCHANGED blind
       \/ rate' = None /\ GoesBlind
    /\ UNCHANGED <<sentFor, lastError, rows, what, reply, left, spent, outputs>>

(* rememberRate() *)
RememberRate(u) ==
    /\ Goes(u, "rate", "outcome")
    /\ rateRow' = rate
    /\ UNCHANGED <<memory, enabled, sentRow, what, reply, left, history>>

(* What follows an upload, whatever became of it. *)
After(u) == IF u = "timer" /\ what[u] = "status" THEN "total" ELSE "idle"

(* interpret(): a refusal is for good, and turns the uploads off.          *)
Outcome(u) ==
    /\ Goes(u, "outcome", After(u))
    /\ lastError' = (reply[u].code # "ok")
    /\ enabled' = (enabled /\ reply[u].code # "refused")
    /\ IF what[u] = "output" /\ reply[u].code = "ok"
       THEN sentFor' = TRUE /\ sentRow' = TRUE
       ELSE UNCHANGED <<sentFor, sentRow>>
    /\ reply' = [reply EXCEPT ![u] = NoReply]
    /\ UNCHANGED <<rate, rateRow, what, left, history>>

(* REQUEST_TIMEOUT_MS: the server may have had the post, and the app the    *)
(* answer's headers.                                                       *)
TimesOut(u) ==
    /\ at[u] \in {"sent", "told", "outcome"}
    /\ at' = [at EXCEPT ![u] = After(u)]
    /\ IF at[u] = "outcome" THEN UNCHANGED blind ELSE GoesBlind
    /\ lastError' = TRUE
    /\ reply' = [reply EXCEPT ![u] = NoReply]
    /\ UNCHANGED <<rate, sentFor, rows, what, left, spent, outputs>>

(* A write of rememberRate() is rejected, and caught: of the figure's two   *)
(* rows the first may have been written.                                    *)
RateNotWritten(u) ==
    /\ Goes(u, "rate", After(u))
    /\ rateRow' \in {rateRow, rate}
    /\ lastError' = TRUE
    /\ reply' = [reply EXCEPT ![u] = NoReply]
    /\ UNCHANGED <<rate, sentFor, enabled, sentRow, what, left, history>>

(* Yesterday's total is posted, unless it has been or there is none.       *)
Total ==
    /\ at["timer"] = "total"
    /\ \/ /\ ~sentFor
          /\ at' = [at EXCEPT !["timer"] = "sent"]
          /\ what' = [what EXCEPT !["timer"] = "output"]
          /\ spent' = spent + 1
          /\ outputs' = IF outputs = 2 THEN 2 ELSE outputs + 1
          /\ UNCHANGED <<sentFor, sentRow>>
       \/ /\ at' = [at EXCEPT !["timer"] = "idle"]
          /\ sentFor' = TRUE /\ sentRow' = TRUE
          /\ UNCHANGED <<what, spent, outputs>>
    /\ UNCHANGED <<rate, lastError, enabled, rateRow, reply, left, blind>>

-----------------------------------------------------------------------------
(* save() and forget() *)
Owner ==
    /\ enabled' = ~enabled
    /\ lastError' \in {lastError, FALSE}
    /\ UNCHANGED <<rate, sentFor, rateRow, sentRow, uploads, left, history>>

(* Bug: nothing is restored. *)
Restored_Nothing == rate' = None /\ sentFor' = FALSE

(* onModuleInit() *)
Restored == rate' = rateRow /\ sentFor' = sentRow

(* The process ends: also when a write is rejected within a catch block.   *)
Restarts ==
    /\ at' = [u \in Uploads |-> "idle"]
    /\ reply' = [u \in Uploads |-> NoReply]
    /\ Restored
    /\ IF rate # rateRow \/ \E u \in Uploads : at[u] \in {"sent", "told", "rate"}
         THEN GoesBlind ELSE UNCHANGED blind
    /\ UNCHANGED <<lastError, rows, what, left, spent, outputs>>

(* The same key serves something else, too. *)
OthersPost ==
    /\ left > 0
    /\ left' = left - 1
    /\ UNCHANGED <<memory, rows, uploads, history>>

(* The hour is over: what was told of it holds nothing back.               *)
HourEnds ==
    /\ \A u \in Uploads : at[u] \in {"idle", "total"}
    /\ left' = Limit
    /\ rate' = None /\ rateRow' = None
    /\ spent' = 0 /\ blind' = 0
    /\ UNCHANGED <<sentFor, lastError, enabled, sentRow, uploads, outputs>>

DayEnds ==
    /\ at["timer"] = "idle"
    /\ sentFor' = FALSE /\ sentRow' = FALSE /\ outputs' = 0
    /\ UNCHANGED <<rate, lastError, enabled, rateRow, uploads, left, spent, blind>>

Next ==
    \/ Tick \/ TestUpload \/ Total
    \/ \E u \in Uploads : \/ Serve(u) \/ Receive(u) \/ RememberRate(u) \/ RateNotWritten(u)
                          \/ Outcome(u) \/ TimesOut(u)
    \/ Owner \/ Restarts \/ OthersPost \/ HourEnds \/ DayEnds

Spec == Init /\ [][Next]_vars
-----------------------------------------------------------------------------
(* Properties. *)

(* "Budget for the smaller [...] the same key may serve other integrations"  *)
(* and "a restart loop would otherwise spend freely": of an hour's requests  *)
(* the timer posts no more than its share, the total that may follow the     *)
(* last status, and a tick for each time that the figure was lost.           *)
BudgetHeld == spent <= Share + 1 + 2 * blind

-----------------------------------------------------------------------------
(* Not kept by the code. *)

(* "Marked either way": a day's total is posted once, whatever is answered. *)
(* Refuted: only a total that was taken is marked.                          *)
TotalPostedOnce == outputs <= 1

(* "Nothing leaves this machine unless the owner switched it on [...] and   *)
(* every send path goes through it."  Refuted: the total that follows a     *)
(* status is posted though the uploads were switched off meanwhile.         *)
PostsWhileOn == [][spent' > spent => enabled]_vars

(* Why the uploader turned itself off is shown until the owner acts.        *)
(* Refuted: the total that follows a refused status clears it.              *)
ReasonStays == [][~enabled /\ lastError /\ ~lastError' => UNCHANGED uploads]_vars
=============================================================================
