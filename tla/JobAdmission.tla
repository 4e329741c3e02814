---------------------------- MODULE JobAdmission ----------------------------
(***************************************************************************)
(* The daily token ledger of LectureLive's LLM calls (src/lib/jobQueue.ts,  *)
(* src/lib/llm/resourceBudget.ts) and its hardest client, the proxy through *)
(* which a document-translation worker calls the LLM.                      *)
(*                                                                         *)
(* A call reserves its worst case as a PROCESSING row of JobQueue before it *)
(* goes out, and settles the row with what it used.  Claims, settlements    *)
(* and the reclaim of abandoned rows are transactions under one lock (the   *)
(* scope's sentinel row); the provider is called outside any transaction;   *)
(* a worker can die anywhere; the UTC day may change between any two steps. *)
(* A proxied call also belongs to an attempt of the translation task, whose *)
(* own budget and meter it shares.                                         *)
(***************************************************************************)
EXTENDS Naturals, FiniteSets

CONSTANTS
    Calls,          \* requests, each with the JobQueue row it may insert
    Proxied,        \* the calls of the translation task's workers
    UserOf,         \* JobQueue.userId of each call
    KeyOf,          \* JobQueue.activeKey of each call
    Units,          \* reservedUnits of each call
    NoCall,         \* nobody holds the scope lock
    Null,           \* actualUnits of a row nobody could settle
    UserLimit, GlobalLimit,     \* tokens of one day
    TaskLimit,      \* tokens of one attempt of the task
    MaxDay,         \* bound: the clock, in UTC days
    MaxGen,         \* bound: dispatches of the task
    MaxAttempt      \* bound: paid retries of the task

Users == {UserOf[c] : c \in Calls}

ASSUME CallsAssumption ==
    /\ IsFiniteSet(Calls) /\ Proxied \subseteq Calls /\ NoCall \notin Calls
    /\ Units \in [Calls -> Nat]
    /\ Null \notin Nat
ASSUME LimitsAssumption ==
    {UserLimit, GlobalLimit, TaskLimit, MaxDay, MaxGen, MaxAttempt} \subseteq Nat

VARIABLES
    day,        \* the database's clock (UTC_TIMESTAMP), in days
    mutex,      \* holder of the scope's sentinel row
    row,        \* status of each call's row
    keyed,      \* does the row still hold its activeKey?
    actual,     \* actualUnits
    doneOn,     \* day of completedAt
    born,       \* attempt of the task that was current at createdAt
    pc,         \* where each call's worker is; "end": returned, or died
    req,        \* what the worker has read before its claim
    answer,     \* what the worker will settle
    task,       \* status, dispatch generation, attempt and meter of the task
    spent,      \* ghost: tokens the provider has really used for the call
    sentOn      \* ghost: the day it was called

rows == <<row, keyed, actual, doneOn, born>>
vars == <<day, mutex, rows, pc, req, answer, task, spent, sentOn>>

----------------------------------------------------------------------------
\* The sum of an amount per call.
Total(f) == Cardinality(UNION {{c} \X (1 .. f[c]) : c \in Calls})
Larger(a, b) == IF a > b THEN a ELSE b
Active(c) == row[c] = "processing"
Terminal(c) == row[c] \in {"success", "failed"}
KeyHeld(k) == \E c \in Calls : KeyOf[c] = k /\ keyed[c]

\* Slip: a row that ended without a known usage counts for nothing.
ChargeKnown(c, d) ==
    IF Active(c) THEN Units[c]
    ELSE IF Terminal(c) /\ doneOn[c] = d /\ actual[c] # Null THEN actual[c] ELSE 0

\* What a row counts for in the window of day d: its reservation while nobody has
\* settled it, also for a dead worker's row; then, on the day it ended, its usage.
Charge(c, d) ==
    IF Active(c) \/ (Terminal(c) /\ doneOn[c] = d /\ actual[c] = Null) THEN Units[c]
    ELSE IF Terminal(c) /\ doneOn[c] = d THEN actual[c] ELSE 0
Committed(S, d) == Total([c \in Calls |-> IF c \in S THEN Charge(c, d) ELSE 0])
CallsOf(u) == {c \in Calls : UserOf[c] = u}

FitsDay(c, d) ==
    /\ Committed(Calls, d) + Units[c] <= GlobalLimit
    /\ Committed(CallsOf(UserOf[c]), d) + Units[c] <= UserLimit

\* The task's gate: one paid call at a time, and all that rows created since
\* attempt a have used or may have used, but no less than the meter said.
InAttempt(c, a) == c \in Proxied /\ Terminal(c) /\ born[c] >= a
Known(a) == Total([c \in Calls |->
    IF InAttempt(c, a) /\ actual[c] # Null THEN actual[c] ELSE 0])
DoubtfulNothing(a) == 0 * a      \* slip: they are left out
Doubtful(a) == Total([c \in Calls |->
    IF InAttempt(c, a) /\ actual[c] = Null THEN Units[c] ELSE 0])
FitsTask(c) ==
    /\ \A d \in Proxied : ~Active(d)
    /\ Larger(Known(req[c].attempt), req[c].floor) + Doubtful(req[c].attempt) + Units[c]
         <= TaskLimit

\* Slip: any running dispatch will do.
SomeDispatch(c) == task.status = "on" /\ c \in Proxied

\* The credential the worker presented is the one of the current dispatch.
SameDispatch(c) ==
    task.status = "on" /\ task.gen = req[c].gen /\ task.attempt = req[c].attempt

NothingRead == [win |-> 0, again |-> TRUE, gen |-> 0, attempt |-> 0, floor |-> 0]
NoAnswer == [units |-> 0, ok |-> FALSE]
Go(c, l) == pc' = [pc EXCEPT ![c] = l]
\* The worker returns, or dies: what it knew is gone.
End(c) == /\ Go(c, "end")
          /\ req' = [req EXCEPT ![c] = NothingRead]
          /\ answer' = [answer EXCEPT ![c] = NoAnswer]
Release(c) == mutex' = IF mutex = c THEN NoCall ELSE mutex

----------------------------------------------------------------------------
Init ==
    /\ day = 0 /\ mutex = NoCall
    /\ row = [c \in Calls |-> "none"]
    /\ keyed = [c \in Calls |-> FALSE]
    /\ actual = [c \in Calls |-> Null]
    /\ doneOn = [c \in Calls |-> 0]
    /\ born = [c \in Calls |-> 0]
    /\ pc = [c \in Calls |-> "idle"]
    /\ req = [c \in Calls |-> NothingRead]
    /\ answer = [c \in Calls |-> NoAnswer]
    /\ task = [status |-> "queued", gen |-> 0, attempt |-> 0, meter |-> 0]
    /\ spent = [c \in Calls |-> 0]
    /\ sentOn = [c \in Calls |-> 0]

Tick ==
    /\ day < MaxDay
    /\ day' = day + 1
    /\ UNCHANGED <<mutex, rows, pc, req, answer, task, spent, sentOn>>

\* A request comes in.  Its window is the day of the application's own clock.  The
\* proxy first looks its credential up and whether the same request was answered or
\* is in progress.
Begin(c) ==
    /\ pc[c] = "idle"
    /\ c \in Proxied => task.status = "on" /\ ~KeyHeld(KeyOf[c])
    /\ \E w \in 0 .. MaxDay :
         req' = [req EXCEPT ![c] = [win |-> w, again |-> TRUE, gen |-> task.gen,
                                    attempt |-> task.attempt, floor |-> task.meter]]
    /\ Go(c, "locking")
    /\ UNCHANGED <<day, mutex, rows, answer, task, spent, sentOn>>

\* Slip: the second try takes the next day's window.
MissWindowLate(c) ==
    /\ Release(c)
    /\ IF req[c].again
       THEN /\ req' = [req EXCEPT ![c].win = day + 1, ![c].again = FALSE]
            /\ Go(c, "locking") /\ UNCHANGED answer
       ELSE End(c)
    /\ UNCHANGED <<day, rows, task, spent, sentOn>>

\* The window is not the one of the database's clock: rolled back and tried once
\* more with that clock's day.
MissWindow(c) ==
    /\ Release(c)
    /\ IF req[c].again
       THEN /\ req' = [req EXCEPT ![c].win = day, ![c].again = FALSE]
            /\ Go(c, "locking") /\ UNCHANGED answer
       ELSE End(c)
    /\ UNCHANGED <<day, rows, task, spent, sentOn>>

\* Slip: the sentinel row is read, not locked.
TakeLockFreely(c) ==
    /\ pc[c] = "locking" /\ req[c].win = day
    /\ Go(c, "counting")
    /\ UNCHANGED <<day, mutex, rows, req, answer, task, spent, sentOn>>

\* The claim's transaction: the scope lock, then the clock.
TakeLock(c) ==
    /\ pc[c] = "locking" /\ mutex = NoCall
    /\ IF req[c].win = day
       THEN /\ mutex' = c /\ Go(c, "counting")
            /\ UNCHANGED <<day, rows, req, answer, task, spent, sentOn>>
       ELSE MissWindow(c)

\* Then the key and the budgets: of the task, of the platform, of the user.
Count(c) ==
    /\ pc[c] = "counting"
    /\ IF /\ ~KeyHeld(KeyOf[c])
          /\ c \in Proxied => FitsTask(c)
          /\ FitsDay(c, req[c].win)
       THEN Go(c, "fits") /\ UNCHANGED <<mutex, req, answer>>
       ELSE End(c) /\ Release(c)
    /\ UNCHANGED <<day, rows, task, spent, sentOn>>

\* Then the row, the clock once more, and the commit.
Insert(c) ==
    /\ pc[c] = "fits"
    /\ IF req[c].win = day
       THEN /\ row' = [row EXCEPT ![c] = "processing"]
            /\ keyed' = [keyed EXCEPT ![c] = TRUE]
            /\ born' = [born EXCEPT ![c] = task.attempt]
            /\ Release(c) /\ Go(c, "claimed")
            /\ UNCHANGED <<day, actual, doneOn, req, answer, task, spent, sentOn>>
       ELSE MissWindow(c)

\* Looking again after the claim: the proxy at its task, the others at a result
\* somebody else has published meanwhile.
Recheck(c) ==
    /\ pc[c] = "claimed"
    /\ IF c \in Proxied
       THEN IF SameDispatch(c) /\ task.meter + Units[c] <= TaskLimit
            THEN Go(c, "cleared") ELSE Go(c, "answered")
       ELSE Go(c, "cleared") \/ Go(c, "answered")
    /\ UNCHANGED <<day, mutex, rows, req, answer, task, spent, sentOn>>

\* The provider is called, or the client has left before.  It uses no more than was
\* reserved; what it does not report, or not credibly, is taken for the reservation.
CallProvider(c) ==
    /\ pc[c] = "cleared"
    /\ \E s \in 0 .. Units[c], ok \in BOOLEAN : \E m \in s .. Units[c] :
         /\ ok => m > 0
         /\ spent' = [spent EXCEPT ![c] = s]
         /\ answer' = [answer EXCEPT ![c] = [units |-> m, ok |-> ok]]
    /\ sentOn' = [sentOn EXCEPT ![c] = day]
    /\ Go(c, "answered")
    /\ UNCHANGED <<day, mutex, rows, req, task>>

\* settleActiveJob: the terminal status and, in the same transaction, the task's
\* meter.  If the task has moved on all of it is rolled back and the row stays.
Settle(c) ==
    LET u == answer[c].units
        metered == c \in Proxied /\ u > 0
    IN  /\ pc[c] = "answered" /\ mutex = NoCall
        /\ IF metered /\ ~SameDispatch(c)
           THEN UNCHANGED <<rows, task>>
           ELSE /\ row' = [row EXCEPT ![c] = IF answer[c].ok THEN "success" ELSE "failed"]
                /\ actual' = [actual EXCEPT ![c] = u]
                /\ doneOn' = [doneOn EXCEPT ![c] = day]
                /\ keyed' = [keyed EXCEPT ![c] = answer[c].ok /\ c \in Proxied]
                /\ task' = IF metered THEN [task EXCEPT !.meter = @ + u] ELSE task
                /\ UNCHANGED born
        /\ End(c)
        /\ UNCHANGED <<day, mutex, spent, sentOn>>

\* The worker dies, or its database fails it: whatever it had not committed is lost.
\* The provider may have been called, and used up to the reservation.
Crash(c) ==
    /\ pc[c] \notin {"idle", "end"}
    /\ Release(c) /\ End(c)
    /\ IF pc[c] = "cleared"
       THEN /\ \E s \in 0 .. Units[c] : spent' = [spent EXCEPT ![c] = s]
            /\ sentOn' = [sentOn EXCEPT ![c] = day]
       ELSE UNCHANGED <<spent, sentOn>>
    /\ UNCHANGED <<day, rows, task>>

\* Slip: a type is excluded from the scan and has no scan of its own.
ReclaimPlain(c) ==
    /\ c \notin Proxied
    /\ Active(c) /\ pc[c] = "end" /\ mutex = NoCall
    /\ row' = [row EXCEPT ![c] = "failed"]
    /\ doneOn' = [doneOn EXCEPT ![c] = day]
    /\ keyed' = [keyed EXCEPT ![c] = FALSE]
    /\ UNCHANGED <<day, mutex, actual, born, pc, req, answer, task, spent, sentOn>>

\* reclaimStaleProcessingJobs: the row of a worker that is gone.  The threshold of
\* two hours is beyond the timeouts of every worker that is alive.
Reclaim(c) ==
    /\ Active(c) /\ pc[c] = "end" /\ mutex = NoCall
    /\ row' = [row EXCEPT ![c] = "failed"]
    /\ doneOn' = [doneOn EXCEPT ![c] = day]
    /\ keyed' = [keyed EXCEPT ![c] = FALSE]
    /\ UNCHANGED <<day, mutex, actual, born, pc, req, answer, task, spent, sentOn>>

----------------------------------------------------------------------------
\* The translation task, as far as its proxied calls see it: claimJob with
\* issueProxyToken, requeueClaimedJob, its end (done, failed, canceled), and the
\* user's paid retry.
SetTask(t) ==
    /\ task' = t
    /\ UNCHANGED <<day, mutex, rows, pc, req, answer, spent, sentOn>>
Dispatch ==
    /\ task.status = "queued" /\ task.gen < MaxGen
    /\ SetTask([task EXCEPT !.status = "on", !.gen = @ + 1])
Requeue == task.status = "on" /\ SetTask([task EXCEPT !.status = "queued"])
Stop == task.status # "stopped" /\ SetTask([task EXCEPT !.status = "stopped"])
Retry ==
    /\ task.status = "stopped" /\ task.attempt < MaxAttempt
    /\ SetTask([task EXCEPT !.status = "queued", !.attempt = @ + 1, !.meter = 0])

Step(c) == \/ Begin(c) \/ TakeLock(c) \/ Count(c) \/ Insert(c) \/ Recheck(c)
           \/ CallProvider(c) \/ Settle(c) \/ Crash(c) \/ Reclaim(c)
Next == Tick \/ Dispatch \/ Requeue \/ Stop \/ Retry \/ \E c \in Calls : Step(c)
Spec == Init /\ [][Next]_vars

\* A worker returns or is cut off (every provider call and transaction has a
\* timeout), and the maintenance timer reclaims: the lock is never held for long.
FairSpec == /\ Spec
            /\ \A c \in Calls : WF_vars(Crash(c)) /\ SF_vars(Reclaim(c))

----------------------------------------------------------------------------
ReqType == [win : 0 .. MaxDay, again : BOOLEAN, gen : Nat, attempt : Nat, floor : Nat]
TaskType == [status : {"queued", "on", "stopped"}, gen : Nat, attempt : Nat, meter : Nat]
PcType == {"idle", "locking", "counting", "fits", "claimed", "cleared", "answered", "end"}

\* Every variable has its type.
TypeOK ==
    /\ day \in 0 .. MaxDay /\ mutex \in Calls \cup {NoCall}
    /\ row \in [Calls -> {"none", "processing", "success", "failed"}]
    /\ keyed \in [Calls -> BOOLEAN]
    /\ actual \in [Calls -> Nat \cup {Null}]
    /\ doneOn \in [Calls -> 0 .. MaxDay] /\ born \in [Calls -> Nat]
    /\ pc \in [Calls -> PcType] /\ req \in [Calls -> ReqType]
    /\ answer \in [Calls -> [units : Nat, ok : BOOLEAN]]
    /\ task \in TaskType
    /\ spent \in [Calls -> Nat] /\ sentOn \in [Calls -> 0 .. MaxDay]

\* What is reserved or has been settled today fits the budgets of the platform and
\* of every user, whatever claims, settlements and midnights meet (claimActiveJob).
BudgetHeld ==
    /\ Committed(Calls, day) <= GlobalLimit
    /\ \A u \in Users : Committed(CallsOf(u), day) <= UserLimit

\* Why BudgetHeld holds: a row is active while its worker has claimed it and is there,
\* and possibly longer, and its usage is unknown until it ends; only the lock's holder counts; no answer exceeds its
\* reservation; and what the holder has counted fits until it inserts, whatever the
\* clock does meanwhile, for nobody else can touch a row.
RowFollowsWorker == \A c \in Calls :
    /\ pc[c] \in {"idle", "locking", "counting", "fits"} => row[c] = "none"
    /\ pc[c] \in {"claimed", "cleared", "answered"} => Active(c)
    /\ ~Terminal(c) => actual[c] = Null
HolderCounts == \A c \in Calls : pc[c] \in {"counting", "fits"} => mutex = c
AnswersFit == \A c \in Calls : answer[c].units <= Units[c]
EndedByNow == \A c \in Calls : doneOn[c] <= day
CountStillFits == \A c \in Calls : pc[c] = "fits" => FitsDay(c, req[c].win)

\* Why no used token escapes the ledger: a call's use is covered by what its worker
\* will settle, then by what its row was settled with, on a day that is not earlier.
SpentCovered == \A c \in Calls :
    /\ spent[c] <= Units[c] /\ sentOn[c] <= day
    /\ row[c] = "none" \/ pc[c] \in {"claimed", "cleared"} => spent[c] = 0
    /\ pc[c] = "answered" => spent[c] <= answer[c].units
    /\ Terminal(c) /\ spent[c] > 0 =>
         sentOn[c] <= doneOn[c] /\ (actual[c] # Null => spent[c] <= actual[c])
LedgerInv == /\ TypeOK /\ RowFollowsWorker /\ HolderCounts /\ AnswersFit
             /\ EndedByNow /\ CountStillFits /\ BudgetHeld /\ SpentCovered

\* The tokens really used by the calls sent today stay inside the platform's
\* budget: no crash, lost settlement or reclaim hands used tokens out again.
SpentToday(c) == IF sentOn[c] = day THEN spent[c] ELSE 0
SpentWithinBudget == Total([c \in Calls |-> SpentToday(c)]) <= GlobalLimit

\* No attempt the user has paid for uses more than the task's budget, though its
\* dispatches overlap with calls of earlier ones (settledSince, settledUnitsFloor).
SpentInAttempt(c, a) == IF c \in Proxied /\ born[c] = a THEN spent[c] ELSE 0
AttemptWithinBudget == \A a \in 0 .. MaxAttempt :
    Total([c \in Calls |-> SpentInAttempt(c, a)]) <= TaskLimit

\* The task's meter is what the rows of its current attempt were settled with: the
\* meter and the terminal row commit together, and never for another dispatch.
MeterMatchesRows == task.meter = Known(task.attempt)

\* One paid call of the task at a time, one of a key at a time, and a request of the
\* task that was answered is replayed, never paid for again.
OneInFlight == \A c, d \in Calls :
    c # d /\ pc[c] \in {"cleared", "answered"} =>
        /\ {c, d} \subseteq Proxied => ~Active(d)
        /\ KeyOf[c] = KeyOf[d] => ~keyed[d]

\* A reservation does not outlive its worker: every claimed row ends, and with it
\* the gate of the task and the key it holds.
ReservationEnds == \A c \in Calls : Active(c) ~> ~Active(c)

=============================================================================
