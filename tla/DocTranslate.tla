------------------------------ MODULE DocTranslate ------------------------------
(***************************************************************************)
(* Document translation in LectureLive: one TranslationTask, the JobQueue    *)
(* rows its confirmation and its retries put into the queue, and the remote  *)
(* jobs the rows are dispatched as.  The ticks of several processes          *)
(* (src/lib/translate/translateProcessor.ts) work on the rows beside each    *)
(* other and beside the user's requests (confirm, retry and delete under     *)
(* src/app/api/translate/documents/[id]).                                    *)
(*                                                                         *)
(* A step is one statement or one transaction of the database, with the      *)
(* reads that its conditional update repeats; what a process read before, it *)
(* keeps in its record.  A dispatch generation (proxyGeneration) is fresh at *)
(* every claim, and so is the remote job named by it.  A tick starts any of  *)
(* its phases at any time: every phase reads the database anew.              *)
(***************************************************************************)
EXTENDS Naturals, Sequences

CONSTANTS
    Ticks,        \* processes that run the translation tick
    Users,        \* requests of the task's owner
    MaxRows,      \* bound: scheduling rows
    MaxGens,      \* bound: dispatch generations
    MaxAttempts,  \* JobQueue.maxAttempts
    MaxFaults     \* bound: crashes, failed statements, lost acknowledgements

ASSUME TranslateAssumption ==
    /\ Ticks \cap Users = {}
    /\ MaxRows \in Nat \ {0} /\ MaxGens \in Nat \ {0} /\ MaxAttempts \in Nat \ {0}
    /\ MaxFaults \in Nat

VARIABLES
    task,     \* the TranslationTask
    row,      \* the JobQueue rows
    remote,   \* generations whose remote job was started
    files,    \* output directories, one for each harvest: <<tick, generation>>
    proc,     \* what each process is at
    born,     \* ghost: the charge under which each generation was claimed
    spent,    \* wallet: charges of the task
    returned, \* wallet: refunds
    faults

vars == <<task, row, remote, files, proc, born, spent, returned, faults>>
money == <<spent, returned>>

Procs == Ticks \cup Users
Rows == 1..MaxRows
Gens == 1..MaxGens
NoFile == <<>>
Live == {"pending", "translating"}
Ended == {"failed", "canceled"}
Idle == [pc |-> "idle", job |-> 0, gen |-> 0, retry |-> FALSE, round |-> 0, seen |-> 0]

IsLive == task.status \in Live
Owned(j, g) == task.job = j /\ task.gen = g
\* The row is in the hands of the generation that the caller holds.
Held(j, g) == row[j].status = "processing" /\ row[j].gen = g
Owing == task.charged /\ ~task.refunded
Go(p, pc) == proc' = [proc EXCEPT ![p].pc = pc]
Returns(p) == proc' = [proc EXCEPT ![p] = Idle]
At(p, pc) == proc[p].pc = pc
RowTo(j, status) == row' = [row EXCEPT ![j].status = status]

----------------------------------------------------------------------------
Init ==
    /\ task = [status |-> "quoted", job |-> 0, gen |-> 0, token |-> 0, charged |-> FALSE,
               refunded |-> FALSE, path |-> NoFile, round |-> 0]
    /\ row = [j \in Rows |-> [status |-> "absent", gen |-> 0, attempt |-> 1, retryAt |-> FALSE]]
    /\ remote = {}
    /\ files = {}
    /\ proc = [p \in Procs |-> Idle]
    /\ born = <<>>
    /\ spent = 0 /\ returned = 0 /\ faults = 0

\* refundTaskCharge: the mark and the wallet in one transaction, for a task that the
\* caller's expectation still describes.
Refund(expected) ==
    IF expected /\ Owing
    THEN task' = [task EXCEPT !.refunded = TRUE] /\ returned' = returned + 1
    ELSE UNCHANGED <<task, returned>>
\* Slip: whatever row the task is bound to.
RefundAny(p) == Refund(TRUE)
\* A tick expects the task to be bound to its row.
RefundBound(p) == Refund(task.job = proc[p].job)

----------------------------------------------------------------------------
\* The owner confirms the quote: the claim and the charge in one transaction.
Confirm(p) ==
    /\ At(p, "idle") /\ task.status = "quoted"
    /\ task' = [task EXCEPT !.status = "pending", !.charged = TRUE, !.round = 1]
    /\ spent' = spent + 1
    /\ proc' = [proc EXCEPT ![p] = [Idle EXCEPT !.pc = "create", !.round = 1]]
    /\ UNCHANGED <<row, remote, files, born, returned, faults>>

\* What the owner still has to get back is refunded before a retry or a deletion.
RefundEnded(p) ==
    /\ At(p, "idle") /\ task.status \in Ended /\ Owing
    /\ Refund(TRUE)
    /\ UNCHANGED <<row, remote, files, proc, born, spent, faults>>

\* Slip: a retry does not ask whether the last charge was given back.
RetryableAnyhow == task.status \in Ended
Retryable == task.status \in Ended /\ ~Owing

\* A retry: a new charge, and a task that no scheduling row is bound to.
Retry(p) ==
    /\ At(p, "idle") /\ Retryable
    /\ task.round < MaxRows
    /\ task' = [status |-> "pending", job |-> 0, gen |-> 0, token |-> 0, charged |-> TRUE,
                refunded |-> FALSE, path |-> NoFile, round |-> task.round + 1]
    /\ spent' = spent + 1
    /\ proc' = [proc EXCEPT ![p] = [Idle EXCEPT !.pc = "create", !.round = task.round + 1]]
    /\ UNCHANGED <<row, remote, files, born, returned, faults>>

\* The tick finds a charged task that no row was bound to.
FindOrphan(p) ==
    /\ At(p, "idle") /\ task.status = "pending" /\ task.job = 0
    /\ Go(p, "create")
    /\ UNCHANGED <<task, row, remote, files, born, money, faults>>

\* enqueueDocTranslate.  A task bound to a row under way needs no other.
Served == task.status = "deleted" \/ (task.job # 0 /\ row[task.job].status \in {"submitted", "processing"})
Create(p) ==
    /\ At(p, "create")
    /\ IF Served
       THEN Returns(p) /\ UNCHANGED row
       ELSE \E j \in Rows :
              /\ row[j].status = "absent" /\ \A i \in 1..(j - 1) : row[i].status # "absent"
              /\ RowTo(j, "submitted")
              /\ proc' = [proc EXCEPT ![p].pc = "bind", ![p].job = j, ![p].seen = task.round]
    /\ UNCHANGED <<task, remote, files, born, money, faults>>

CreateFails(p) ==
    /\ At(p, "create") /\ faults < MaxFaults
    /\ IF p \in Users THEN Go(p, "giveUp") ELSE Returns(p)
    /\ faults' = faults + 1
    /\ UNCHANGED <<task, row, remote, files, born, money>>

\* The task as the caller knew it: its round stands for updatedAt.
Unbound(round) == task.status = "pending" /\ task.job = 0 /\ task.round = round
Bind(p) ==
    /\ At(p, "bind")
    /\ IF Unbound(proc[p].seen)
       THEN task' = [task EXCEPT !.job = proc[p].job] /\ Returns(p)
       ELSE Go(p, "unbind") /\ UNCHANGED task
    /\ UNCHANGED <<row, remote, files, born, money, faults>>

\* The statement fails, and the read that follows finds nothing bound.
BindFails(p) ==
    /\ At(p, "bind") /\ faults < MaxFaults
    /\ Go(p, "unbind") /\ faults' = faults + 1
    /\ UNCHANGED <<task, row, remote, files, born, money>>

\* The row nobody will claim is closed; the request gives up unless another row is bound.
Unbind(p) ==
    /\ At(p, "unbind")
    /\ IF row[proc[p].job].status = "submitted" THEN RowTo(proc[p].job, "failed") ELSE UNCHANGED row
    /\ IF p \in Users /\ ~(task.job # 0 /\ IsLive) THEN Go(p, "giveUp") ELSE Returns(p)
    /\ UNCHANGED <<task, remote, files, born, money, faults>>

GiveUp(p) ==
    /\ At(p, "giveUp")
    /\ IF Unbound(proc[p].round)
       THEN task' = [task EXCEPT !.status = "failed"] /\ Go(p, "repay")
       ELSE Returns(p) /\ UNCHANGED task
    /\ UNCHANGED <<row, remote, files, born, money, faults>>
Repay(p) ==
    /\ At(p, "repay")
    /\ Refund(task.status = "failed" /\ task.job = 0 /\ task.round = proc[p].round)
    /\ Returns(p)
    /\ UNCHANGED <<row, remote, files, born, spent, faults>>

----------------------------------------------------------------------------
\* The owner cancels a task under way: the task, its refund, its row.
Cancel(p) ==
    /\ At(p, "idle") /\ IsLive
    /\ task' = [task EXCEPT !.status = "canceled", !.token = 0, !.gen = 0]
    /\ proc' = [proc EXCEPT ![p] = [Idle EXCEPT !.pc = "cancelRefund", !.job = task.job,
                                                !.gen = task.gen, !.round = task.round]]
    /\ UNCHANGED <<row, remote, files, born, money, faults>>
CancelRefund(p) ==
    /\ At(p, "cancelRefund")
    /\ LET expected == task.status = "canceled" /\ task.job = proc[p].job
                       /\ task.round = proc[p].round
       IN /\ Refund(expected)
          /\ IF expected /\ Owing /\ proc[p].job # 0
             THEN proc' = [proc EXCEPT ![p].pc = "cancelRow", ![p].round = 0] ELSE Returns(p)
    /\ UNCHANGED <<row, remote, files, born, spent, faults>>
CancelRow(p) ==
    /\ At(p, "cancelRow")
    /\ LET j == proc[p].job IN
       IF row[j].status = "submitted" /\ proc[p].gen \in {0, row[j].gen}
       THEN RowTo(j, "failed") ELSE UNCHANGED row
    /\ Returns(p)
    /\ UNCHANGED <<task, remote, files, born, money, faults>>

\* The owner deletes a task that is not under way and owes nothing; its rows keep no
\* parameters, and its files go next.
Delete(p) ==
    /\ At(p, "idle")
    /\ task.status \in {"quoted", "completed"} \/ (task.status \in Ended /\ ~Owing)
    /\ task' = [task EXCEPT !.status = "deleted", !.job = 0, !.gen = 0, !.token = 0]
    /\ row' = [j \in Rows |-> [row[j] EXCEPT !.gen = 0, !.retryAt = FALSE]]
    /\ files' = {}
    /\ UNCHANGED <<remote, proc, born, money, faults>>

----------------------------------------------------------------------------
\* claimJob: the row and the task's new generation in one transaction.
Claimable(j) == row[j].status = "submitted" /\ IsLive /\ Owned(j, 0)
Claim(p) ==
    /\ At(p, "idle") /\ Len(born) < MaxGens
    /\ \E j \in Rows :
         /\ Claimable(j)
         /\ LET g == Len(born) + 1 IN
            /\ row' = [row EXCEPT ![j].status = "processing", ![j].gen = g]
            /\ task' = [task EXCEPT !.token = 0, !.gen = g]
            /\ born' = Append(born, task.round)
            /\ proc' = [proc EXCEPT ![p] = [Idle EXCEPT !.pc = "prepare", !.job = j, !.gen = g]]
    /\ UNCHANGED <<remote, files, money, faults>>

\* A row whose claim was refused is closed once its task is bound elsewhere or has ended.
\* A row without parameters, its task deleted, is passed over.
ClosePoisoned(p) ==
    /\ At(p, "idle") /\ task.status # "deleted"
    /\ \E j \in Rows :
         /\ row[j].status = "submitted" /\ ~Claimable(j)
         /\ task.job # j \/ ~IsLive
         /\ RowTo(j, "failed")
    /\ UNCHANGED <<task, remote, files, proc, born, money, faults>>

\* The row of a generation is ended, and only the row.
EndRow(j, g, status) == IF Held(j, g) THEN RowTo(j, status) ELSE UNCHANGED row

\* dispatchJob up to the upload.  A task of another generation ends the row, a file that
\* cannot be read fails the task for good, a fleet without a free worker gives the row
\* back, and an upload that fails is tried again.
Prepare(p) ==
    /\ At(p, "prepare")
    /\ LET j == proc[p].job IN
       IF ~Owned(j, proc[p].gen)
       THEN /\ EndRow(j, proc[p].gen, IF task.status = "completed" THEN "success" ELSE "failed")
            /\ Returns(p)
       ELSE /\ \/ \E next \in {"requeue", "issue"} : Go(p, next)
               \/ \E again \in BOOLEAN : proc' = [proc EXCEPT ![p].pc = "failRow", ![p].retry = again]
            /\ UNCHANGED row
    /\ UNCHANGED <<task, remote, files, born, money, faults>>

\* Slip: the credential is issued to whatever generation the task has.
IssuableAny(j, g) == task.job = j /\ IsLive
Issuable(j, g) == Held(j, g) /\ Owned(j, g) /\ IsLive
\* startTranslateJob: started, with or without an answer; the queue of the worker is full;
\* the request is refused for good.
Start(p) ==
    \/ remote' = remote \cup {proc[p].gen} /\ Returns(p)
    \/ Returns(p) /\ UNCHANGED remote
    \/ Go(p, "requeue") /\ UNCHANGED remote
    \/ proc' = [proc EXCEPT ![p].pc = "failRow", ![p].retry = FALSE] /\ UNCHANGED remote
\* issueProxyToken precedes the start, for the worker calls back at once.  Both are one
\* step: what others do between them sees no remote job, and may see none after them.
Issue(p) ==
    /\ At(p, "issue")
    /\ IF Issuable(proc[p].job, proc[p].gen)
       THEN /\ task' = [task EXCEPT !.token = proc[p].gen, !.status = "translating"]
            /\ Start(p)
       ELSE /\ proc' = [proc EXCEPT ![p].pc = "failRow", ![p].retry = TRUE]
            /\ UNCHANGED <<task, remote>>
    /\ UNCHANGED <<row, files, born, money, faults>>

----------------------------------------------------------------------------
\* reconcileProcessingJob, of a row in the hands of a generation.  The row of a complete
\* task is closed, the row of a task that went elsewhere is ended.
Converge(j) ==
    /\ task.status = "completed" /\ task.job = j
    /\ EndRow(j, row[j].gen, "success")
    /\ UNCHANGED proc
Disown(j) ==
    /\ ~Owned(j, row[j].gen) /\ ~(task.status = "completed" /\ task.job = j)
    /\ EndRow(j, row[j].gen, "failed")
    /\ UNCHANGED proc
\* Else the worker is asked, and its answer may be old when it is acted on.  It never got
\* the job, has lost it or cannot be reached for long, and the row goes back to the queue;
\* it has a result; it has failed or takes too long.
Ask(p, j) ==
    /\ Owned(j, row[j].gen)
    /\ \E next \in {"requeue", "save", "failRow"} :
         /\ next # "requeue" => row[j].gen \in remote
         /\ proc' = [proc EXCEPT ![p] = [Idle EXCEPT !.pc = next, !.job = j, !.gen = row[j].gen,
                                                     !.retry = next = "failRow"]]
    /\ UNCHANGED row
Look(p) ==
    /\ At(p, "idle")
    /\ \E j \in Rows : row[j].status = "processing" /\ (Converge(j) \/ Disown(j) \/ Ask(p, j))
    /\ UNCHANGED <<task, remote, files, born, money, faults>>

\* requeueClaimedJob: the row and the task, or neither.
Requeue(p) ==
    /\ At(p, "requeue")
    /\ IF Held(proc[p].job, proc[p].gen) /\ Owned(proc[p].job, proc[p].gen)
       THEN /\ RowTo(proc[p].job, "submitted")
            /\ task' = [task EXCEPT !.token = 0, !.gen = 0]
       ELSE UNCHANGED <<task, row>>
    /\ Returns(p)
    /\ UNCHANGED <<remote, files, born, money, faults>>

----------------------------------------------------------------------------
\* harvestJob: the result is saved in a directory of this attempt, and published by the
\* holder of the task's generation.
Attempt(p) == <<p, proc[p].gen>>
Save(p) ==
    /\ At(p, "save")
    /\ files' = files \cup {Attempt(p)}
    /\ Go(p, "publish")
    /\ UNCHANGED <<task, row, remote, born, money, faults>>

\* Slip: whoever has a result for the task publishes it.
PublishableAny(p) == IsLive
Publishable(p) == IsLive /\ Owned(proc[p].job, proc[p].gen)
Published(p) == task' = [task EXCEPT !.status = "completed", !.path = Attempt(p),
                                     !.token = 0, !.gen = 0]
Publish(p) ==
    /\ At(p, "publish")
    /\ IF Publishable(p) THEN Published(p) /\ Go(p, "close")
                         ELSE Go(p, "readback") /\ UNCHANGED task
    /\ UNCHANGED <<row, remote, files, born, money, faults>>
\* The statement fails, committed or not.
PublishFails(p) ==
    /\ At(p, "publish") /\ faults < MaxFaults
    /\ (Publishable(p) /\ Published(p)) \/ UNCHANGED task
    /\ Go(p, "readback") /\ faults' = faults + 1
    /\ UNCHANGED <<row, remote, files, born, money>>

\* What was published decides: this attempt, another of the same generation, or none,
\* with the generation at work still or replaced.
Readback(p) ==
    /\ At(p, "readback")
    /\ LET j == proc[p].job
           g == proc[p].gen
           complete == task.status = "completed" /\ task.job = j
           mine == complete /\ task.path = Attempt(p)
           winner == complete /\ row[j].gen = g /\ row[j].status \in {"processing", "success"}
       IN /\ files' = IF mine THEN files ELSE files \ {Attempt(p)}
          /\ IF mine \/ winner THEN Go(p, "close") ELSE Returns(p)
          /\ IF mine \/ winner \/ (IsLive /\ Owned(j, g)) THEN UNCHANGED row
             ELSE EndRow(j, g, "failed")
    /\ UNCHANGED <<task, remote, born, money, faults>>
Close(p) ==
    /\ At(p, "close")
    /\ EndRow(proc[p].job, proc[p].gen, "success") /\ Returns(p)
    /\ UNCHANGED <<task, remote, files, born, money, faults>>

----------------------------------------------------------------------------
\* failJob, its first statement: the row, of the caller's generation if it names one.
\* Then the task; then the refund of a task that has failed for good.
FailRow(p) ==
    /\ At(p, "failRow")
    /\ LET j == proc[p].job
           again == proc[p].retry /\ (proc[p].gen = 0 \/ row[j].attempt < MaxAttempts)
       IN IF proc[p].gen = 0 \/ Held(j, proc[p].gen)
          THEN /\ row' = [row EXCEPT ![j].status = "failed", ![j].retryAt = again]
               /\ proc' = [proc EXCEPT ![p].pc = "settle", ![p].retry = again]
          ELSE Returns(p) /\ UNCHANGED row
    /\ UNCHANGED <<task, remote, files, born, money, faults>>
Settle(p) ==
    /\ At(p, "settle")
    /\ IF IsLive /\ task.job = proc[p].job /\ proc[p].gen \in {0, task.gen}
       THEN /\ task' = [task EXCEPT !.gen = 0, !.token = 0,
                                    !.status = IF proc[p].retry THEN @ ELSE "failed"]
            /\ IF proc[p].retry THEN Returns(p)
               ELSE proc' = [proc EXCEPT ![p] = [Idle EXCEPT !.pc = "refund", !.job = proc[p].job]]
       ELSE Returns(p) /\ UNCHANGED task
    /\ UNCHANGED <<row, remote, files, born, money, faults>>
RefundFailed(p) ==
    /\ At(p, "refund") /\ RefundBound(p) /\ Returns(p)
    /\ UNCHANGED <<row, remote, files, born, spent, faults>>

\* Slip: retryJob counts on the attempt its caller read.
RepeatableStill(j) == row[j].status = "failed"
Repeatable(j) == row[j].status = "failed" /\ row[j].attempt < MaxAttempts
\* A failed row whose retry is due is found, and put back by retryJob, which asks for its
\* status and attempt alone and leaves nextRetryAt where it is.
FindDue(p) ==
    /\ At(p, "idle")
    /\ \E j \in Rows :
         /\ row[j].status = "failed" /\ row[j].retryAt /\ row[j].attempt < MaxAttempts
         /\ proc' = [proc EXCEPT ![p] = [Idle EXCEPT !.pc = "retry", !.job = j]]
    /\ UNCHANGED <<task, row, remote, files, born, money, faults>>
RetryRow(p) ==
    /\ At(p, "retry")
    /\ LET j == proc[p].job IN
       IF Repeatable(j)
       THEN row' = [row EXCEPT ![j].status = "submitted", ![j].attempt = @ + 1]
       ELSE UNCHANGED row
    /\ Returns(p)
    /\ UNCHANGED <<task, remote, files, born, money, faults>>

\* The tick settles a task whose row has ended with no retry due, and, a day later, any.
Stranded(p) ==
    /\ At(p, "idle") /\ IsLive /\ task.job # 0
    /\ row[task.job].status \in {"failed", "success"} /\ ~row[task.job].retryAt
    /\ proc' = [proc EXCEPT ![p] = [Idle EXCEPT !.pc = "failRow", !.job = task.job,
                                        !.retry = row[task.job].attempt < MaxAttempts]]
    /\ UNCHANGED <<task, row, remote, files, born, money, faults>>
Deadline(p) ==
    /\ At(p, "idle") /\ IsLive /\ task.job # 0
    /\ proc' = [proc EXCEPT ![p] = [Idle EXCEPT !.pc = "failRow", !.job = task.job]]
    /\ UNCHANGED <<task, row, remote, files, born, money, faults>>

\* reclaimStaleProcessingJobs: the row alone.
Reclaim ==
    /\ \E j \in Rows : row[j].status = "processing" /\ RowTo(j, "failed")
    /\ UNCHANGED <<task, remote, files, proc, born, money, faults>>

\* A process dies, or a statement fails whose caller goes no further.
Abandon(p) ==
    /\ ~At(p, "idle") /\ faults < MaxFaults
    /\ Returns(p) /\ faults' = faults + 1
    /\ UNCHANGED <<task, row, remote, files, born, money>>

----------------------------------------------------------------------------
Enqueue(p) == Create(p) \/ CreateFails(p) \/ Bind(p) \/ BindFails(p) \/ Unbind(p)
Request(p) == \/ Confirm(p) \/ RefundEnded(p) \/ Retry(p) \/ GiveUp(p) \/ Repay(p)
              \/ Cancel(p) \/ CancelRefund(p) \/ CancelRow(p) \/ Delete(p)
Dispatch(p) == Claim(p) \/ ClosePoisoned(p) \/ Prepare(p) \/ Issue(p)
Reconcile(p) == Look(p) \/ Requeue(p)
Harvest(p) == Save(p) \/ Publish(p) \/ PublishFails(p) \/ Readback(p) \/ Close(p)
Fail(p) == FailRow(p) \/ Settle(p) \/ RefundFailed(p)
Heal(p) == FindDue(p) \/ RetryRow(p) \/ Stranded(p) \/ Deadline(p) \/ FindOrphan(p)
Next ==
    \/ \E p \in Procs : Enqueue(p) \/ Abandon(p)
    \/ \E p \in Users : Request(p)
    \/ \E p \in Ticks : Dispatch(p) \/ Reconcile(p) \/ Harvest(p) \/ Fail(p) \/ Heal(p)
    \/ Reclaim
Spec == Init /\ [][Next]_vars

----------------------------------------------------------------------------
\* Every variable has its type.
TypeOK ==
    /\ task \in [status : {"quoted", "pending", "translating", "completed", "failed",
                           "canceled", "deleted"},
                 job : Rows \cup {0}, gen : Gens \cup {0}, token : Gens \cup {0},
                 charged : BOOLEAN, refunded : BOOLEAN,
                 path : {NoFile} \cup (Ticks \X Gens), round : 0..MaxRows]
    /\ row \in [Rows -> [status : {"absent", "submitted", "processing", "failed", "success"},
                         gen : Gens \cup {0}, attempt : 1..MaxAttempts, retryAt : BOOLEAN]]
    /\ remote \subseteq Gens
    /\ files \subseteq Ticks \X Gens
    /\ proc \in [Procs -> [pc : {"idle", "create", "bind", "unbind", "giveUp", "repay",
                               "cancelRefund", "cancelRow", "prepare", "issue",
                               "requeue", "close", "save", "publish", "readback",
                               "failRow", "settle", "refund", "retry"},
                          job : Rows \cup {0}, gen : Gens \cup {0}, retry : BOOLEAN,
                          round : 0..MaxRows, seen : 0..MaxRows]]
    /\ born \in Seq(0..MaxRows) /\ Len(born) <= MaxGens
    /\ spent \in 0..MaxRows /\ returned \in 0..MaxRows /\ faults \in 0..MaxFaults

\* A task under way or complete is paid for: no refund of an earlier failure, of a tick or
\* of a request that comes late, is one of the charge the task runs on.
LivePaid == task.status \in Live \cup {"completed"} => Owing

\* The wallet: nothing was charged twice without a refund or refunded twice, and a task
\* deleted without a refund had been charged for a result.
MoneyKept ==
    /\ spent = returned + (IF Owing THEN 1 ELSE 0)
    /\ task.status = "deleted" /\ Owing => task.path # NoFile

\* The result a task names exists, however many harvests of its generation gave up theirs,
\* and it was made under the charge the task stands at.
PublishedResult ==
    task.status = "completed" => task.path \in files /\ born[task.path[2]] = task.round

\* The credential is the one of the task's generation, and a row under way that the task is
\* bound to is in the hands of the task's generation: no worker of an earlier one can call
\* the proxy.
TokenCurrent ==
    /\ task.token # 0 => task.token = task.gen /\ task.status = "translating"
    /\ task.gen # 0 /\ row[task.job].status = "processing" => row[task.job].gen = task.gen

\* What the comments of translateProcessor.ts say of a row that goes back to the queue: its
\* task has no generation any more, or every claim of the row is refused until the task's
\* deadline; and a tick killed between failJob's two statements is made up for.  Only a
\* process that is between the two may have the task's still to write.
StartableRow ==
    IsLive /\ task.job # 0 /\ row[task.job].status = "submitted"
        => task.gen = 0 \/ \E p \in Ticks : At(p, "settle") /\ proc[p].job = task.job
=============================================================================
