-------------------------- MODULE DocTranslateProofs --------------------------
(***************************************************************************)
(* Proofs about DocTranslate for every number of ticks, requests, scheduling *)
(* rows, generations, attempts and faults: the wallet, the result a task      *)
(* names and the credential that is out for it.                             *)
(***************************************************************************)
EXTENDS DocTranslate, TLAPS

\* What a request of the owner is ever at.
UserPlaces == {"idle", "create", "bind", "unbind", "giveUp", "repay", "cancelRefund", "cancelRow"}
\* A tick that works for one generation of a row.
AtGeneration == {"prepare", "issue", "save", "publish", "readback", "close"}

\* A process that goes on with a row has one, and knows its generation where it counts.
PlaceInv ==
    \A p \in Procs :
      /\ p \in Users => proc[p].pc \in UserPlaces
      /\ proc[p].pc \in AtGeneration => proc[p].gen # 0 /\ proc[p].job # 0
      /\ proc[p].pc \in {"idle", "create", "bind"} => proc[p].gen = 0
      /\ proc[p].pc \in {"failRow", "settle", "refund", "bind"} => proc[p].job # 0
      /\ proc[p].pc \in {"refund", "bind"} => row[proc[p].job].status # "absent"

\* A row is bound by the process that created it, once: a task that another process has
\* failed and is about to refund is not the task of a later row.
BindInv ==
    /\ task.job = 0 => task.gen = 0
    /\ task.status = "quoted" => task.job = 0
    /\ task.job # 0 => row[task.job].status # "absent"
    /\ \A p, q \in Procs :
         At(p, "bind") /\ p # q /\ At(q, "bind") => proc[p].job # proc[q].job
    /\ \A p \in Procs : At(p, "bind") => task.job # proc[p].job
    /\ \A p, q \in Procs : At(p, "bind") /\ At(q, "refund") => proc[p].job # proc[q].job
    /\ \A p \in Procs : At(p, "refund") /\ task.job = proc[p].job => task.status = "failed"

\* Every round has its charge.
MoneyInv ==
    /\ task.status = "quoted" => task.round = 0 /\ ~task.charged /\ ~task.refunded
    /\ spent = task.round
    /\ MoneyKept

\* A generation belongs to one row, that it was claimed for in the round born names.
Claimed(j, g) ==
    \/ task.job = j /\ task.gen = g
    \/ j \in Rows /\ row[j].gen = g
    \/ \E p \in Procs : proc[p].job = j /\ proc[p].gen = g
    \/ task.status = "completed" /\ task.job = j /\ task.path[2] = g
ClaimInv ==
    /\ \A j \in Rows \cup {0}, g \in Gens :
         Claimed(j, g) => /\ g <= Len(born)
                          /\ \A k \in Rows \cup {0} : Claimed(k, g) => j = k
    /\ task.gen # 0 => born[task.gen] = task.round

\* A harvest that is about to publish has its result, unless the task is deleted.
SavedInv == \A p \in Procs : At(p, "publish") => Attempt(p) \in files \/ task.status = "deleted"

\* The inductive invariant.
TranslateInv ==
    /\ TypeOK /\ PlaceInv /\ BindInv
    /\ LivePaid /\ MoneyInv
    /\ ClaimInv /\ SavedInv /\ PublishedResult /\ TokenCurrent

\* The values of the records' fields.
Pcs == {"idle", "create", "bind", "unbind", "giveUp", "repay", "cancelRefund", "cancelRow",
        "prepare", "issue", "requeue", "close", "save", "publish", "readback", "failRow",
        "settle", "refund", "retry"}
Statuses == {"quoted", "pending", "translating", "completed", "failed", "canceled", "deleted"}
RowStatuses == {"absent", "submitted", "processing", "failed", "success"}
Paths == {NoFile} \cup (Ticks \X Gens)
TaskType == [status : Statuses, job : Rows \cup {0}, gen : Gens \cup {0}, token : Gens \cup {0},
             charged : BOOLEAN, refunded : BOOLEAN, path : Paths, round : 0..MaxRows]
RowType == [status : RowStatuses, gen : Gens \cup {0}, attempt : 1..MaxAttempts,
            retryAt : BOOLEAN]
ProcType == [pc : Pcs, job : Rows \cup {0}, gen : Gens \cup {0}, retry : BOOLEAN,
             round : 0..MaxRows, seen : 0..MaxRows]

\* The type invariant with these names.
LEMMA Types ==
    TypeOK <=>
        /\ task \in TaskType /\ row \in [Rows -> RowType] /\ proc \in [Procs -> ProcType]
        /\ remote \subseteq Gens /\ files \subseteq Ticks \X Gens
        /\ born \in Seq(0..MaxRows) /\ Len(born) <= MaxGens
        /\ spent \in 0..MaxRows /\ returned \in 0..MaxRows /\ faults \in 0..MaxFaults
  BY DEF TypeOK, TaskType, RowType, ProcType, Statuses, RowStatuses, Pcs, Paths

\* So with the next state.
LEMMA TypesNext ==
    ASSUME task' \in TaskType, row' \in [Rows -> RowType], proc' \in [Procs -> ProcType],
           remote' \subseteq Gens, files' \subseteq Ticks \X Gens,
           born' \in Seq(0..MaxRows), Len(born') <= MaxGens,
           spent' \in 0..MaxRows, returned' \in 0..MaxRows, faults' \in 0..MaxFaults
    PROVE  TypeOK'
  BY DEF TypeOK, TaskType, RowType, ProcType, Statuses, RowStatuses, Pcs, Paths

\* The bounds are numbers, and a process at rest has no row.
LEMMA Bounds ==
    /\ MaxRows \in Nat \ {0} /\ MaxGens \in Nat \ {0} /\ MaxAttempts \in Nat \ {0}
    /\ MaxFaults \in Nat /\ 0 \notin Rows /\ 0 \notin Gens /\ Rows \subseteq Nat /\ Gens \subseteq Nat
    /\ Idle \in ProcType /\ Idle.pc = "idle" /\ Idle.gen = 0 /\ Idle.job = 0
  BY TranslateAssumption DEF Rows, Gens, Idle, ProcType, Pcs

\* A process goes on, or returns.
LEMMA GoFacts ==
    ASSUME TypeOK, NEW p \in Procs, NEW pc \in Pcs, Go(p, pc)
    PROVE  /\ proc' \in [Procs -> ProcType]
           /\ proc'[p] = [proc[p] EXCEPT !.pc = pc] /\ proc'[p] \in ProcType
           /\ proc'[p].pc = pc /\ proc'[p].job = proc[p].job /\ proc'[p].gen = proc[p].gen
           /\ \A q \in Procs \ {p} : proc'[q] = proc[q]
  BY Types DEF ProcType, Go

\* A process that returns is at rest, the others are where they were.
LEMMA ReturnsFacts ==
    ASSUME TypeOK, NEW p \in Procs, Returns(p)
    PROVE  /\ proc' \in [Procs -> ProcType]
           /\ proc'[p].pc = "idle" /\ proc'[p].job = 0 /\ proc'[p].gen = 0
           /\ \A q \in Procs \ {p} : proc'[q] = proc[q]
  BY Types, Bounds DEF Returns

\* It takes a new record.
LEMMA TakesFacts ==
    ASSUME TypeOK, NEW p \in Procs, NEW u \in ProcType, proc' = [proc EXCEPT ![p] = u]
    PROVE  /\ proc' \in [Procs -> ProcType] /\ proc'[p] = u
           /\ \A q \in Procs \ {p} : proc'[q] = proc[q]
  BY Types

\* The status of one row is written, if there is such a row.
LEMMA RowToFacts ==
    ASSUME TypeOK, NEW j, NEW s \in RowStatuses, RowTo(j, s)
    PROVE  /\ row' \in [Rows -> RowType]
           /\ \A k \in Rows : /\ row'[k].gen = row[k].gen /\ row'[k].attempt = row[k].attempt
                              /\ row'[k].retryAt = row[k].retryAt
                              /\ row'[k].status = IF k = j THEN s ELSE row[k].status
  BY Types DEF RowType, RowTo

----------------------------------------------------------------------------
\* Rows are neither undone nor claimed.
RowsKeep ==
    \A j \in Rows : /\ row'[j].status = "absent" => row[j].status = "absent"
                    /\ row'[j].status = "processing" => row[j].status = "processing"
\* A generation stays with its row.
GensKeep == \A j \in Rows : row'[j].gen = row[j].gen
\* Where a process may go without being about to bind a row or to refund a failed one.
Fits(p) ==
    /\ p \in Users => proc'[p].pc \in UserPlaces
    /\ proc'[p].pc \in AtGeneration => proc'[p].gen # 0 /\ proc'[p].job # 0
    /\ proc'[p].pc \in {"idle", "create"} => proc'[p].gen = 0
    /\ proc'[p].pc \in {"failRow", "settle"} => proc'[p].job # 0
    /\ proc'[p].pc \notin {"refund", "bind"}
    /\ proc'[p].gen # 0 => Claimed(proc'[p].job, proc'[p].gen)
Moves == \A q \in Procs : proc'[q] = proc[q] \/ Fits(q)
\* A process that works for a generation has it from the task, its row or another process.
ClaimsKeep == \A q \in Procs : proc'[q].gen # 0 => Claimed(proc'[q].job, proc'[q].gen)
\* What a process other than p is at it is at still.
Alone(p) == \A q \in Procs \ {p} : proc'[q] = proc[q]

\* Every process is in its place still.
LEMMA PlaceKept ==
    ASSUME TypeOK, PlaceInv, RowsKeep, Moves
    PROVE  PlaceInv'
<1>1. ASSUME NEW p \in Procs
      PROVE  /\ p \in Users => proc'[p].pc \in UserPlaces
             /\ proc'[p].pc \in AtGeneration => proc'[p].gen # 0 /\ proc'[p].job # 0
             /\ proc'[p].pc \in {"idle", "create", "bind"} => proc'[p].gen = 0
             /\ proc'[p].pc \in {"failRow", "settle", "refund", "bind"} => proc'[p].job # 0
             /\ proc'[p].pc \in {"refund", "bind"} => row'[proc'[p].job].status # "absent"
  <2>1. CASE Fits(p)
    BY <2>1 DEF Fits
  <2>2. CASE proc'[p] = proc[p]
    <3>1. proc[p].job \in Rows \cup {0}
      BY Types DEF ProcType
    <3> QED
      BY <2>2, <3>1 DEF PlaceInv, RowsKeep
  <2> QED
    BY <2>1, <2>2 DEF Moves
<1> QED
  BY <1>1 DEF PlaceInv

\* The binding of the task stays, or ends.
LEMMA BindKept ==
    ASSUME TypeOK, PlaceInv, BindInv, RowsKeep, Moves,
           task'.job \in {0, task.job}, task'.job = 0 => task'.gen = 0,
           task'.job # 0 /\ task.status = "failed" => task'.status = "failed",
           task'.status = "quoted" => task.status = "quoted"
    PROVE  BindInv'
<1>1. \A p \in Procs : proc'[p].pc \in {"bind", "refund"} => proc'[p] = proc[p] /\ proc[p].job # 0
  BY DEF Moves, Fits, PlaceInv
<1>2. task'.job # 0 => row'[task'.job].status # "absent"
  BY Types DEF BindInv, RowsKeep, TaskType
<1> QED
  BY <1>1, <1>2 DEF BindInv, At

\* No generation goes to another row.
LEMMA ClaimStays ==
    ASSUME TypeOK, ClaimInv, ClaimsKeep, born' = born,
           \A j \in Rows : row'[j].gen \in {0, row[j].gen},
           task'.gen # 0 => task'.gen = task.gen /\ task'.job = task.job /\ task'.round = task.round,
           task'.status = "completed" => Claimed(task'.job, task'.path[2])
    PROVE  ClaimInv'
<1>1. ASSUME NEW j \in Rows \cup {0}, NEW g \in Gens, Claimed(j, g)' PROVE Claimed(j, g)
  <2>1. g # 0
    BY Bounds
  <2>2. CASE task'.job = j /\ task'.gen = g
    BY <2>1, <2>2 DEF Claimed
  <2>3. CASE j \in Rows /\ row'[j].gen = g
    BY <2>1, <2>3 DEF Claimed
  <2>4. ASSUME NEW p \in Procs, proc'[p].job = j, proc'[p].gen = g PROVE Claimed(j, g)
    BY <2>1, <2>4 DEF ClaimsKeep
  <2>5. CASE task'.status = "completed" /\ task'.job = j /\ task'.path[2] = g
    BY <2>5
  <2> QED
    BY <1>1, <2>2, <2>3, <2>4, <2>5 DEF Claimed
<1>2. \A j \in Rows \cup {0}, g \in Gens :
         Claimed(j, g)' => /\ g <= Len(born)
                           /\ \A k \in Rows \cup {0} : Claimed(k, g)' => j = k
  BY <1>1 DEF ClaimInv
<1>3. task'.gen # 0 => born'[task'.gen] = task'.round
  BY DEF ClaimInv
<1> QED
  BY <1>2, <1>3 DEF ClaimInv

\* So where the processes move.
LEMMA ClaimKept ==
    ASSUME TypeOK, ClaimInv, Moves, born' = born,
           \A j \in Rows : row'[j].gen \in {0, row[j].gen},
           task'.gen # 0 => task'.gen = task.gen /\ task'.job = task.job /\ task'.round = task.round,
           task'.status = "completed" => Claimed(task'.job, task'.path[2])
    PROVE  ClaimInv'
<1>1. ClaimsKeep
  BY DEF ClaimsKeep, Moves, Fits, Claimed
<1> QED
  BY <1>1, ClaimStays

\* A step that leaves the task and the money as they are.
LEMMA RestKept ==
    ASSUME TranslateInv, RowsKeep, GensKeep, Moves, UNCHANGED <<task, born, spent, returned>>
    PROVE  /\ PlaceInv' /\ BindInv' /\ LivePaid' /\ MoneyInv' /\ ClaimInv' /\ TokenCurrent'
<1>1. PlaceInv' /\ BindInv'
  BY PlaceKept, BindKept DEF TranslateInv, BindInv
<1>2. ClaimInv'
  <2>1. task.status = "completed" => Claimed(task.job, task.path[2])
    BY DEF Claimed
  <2>2. task'.status = "completed" => Claimed(task'.job, task'.path[2])
    BY <2>1
  <2> QED
    BY <2>2, ClaimKept DEF TranslateInv, GensKeep
<1>3. LivePaid' /\ MoneyInv'
  BY DEF TranslateInv, LivePaid, MoneyInv, MoneyKept, Owing
<1>4. TokenCurrent'
  <2>1. task.gen # 0 => task.job \in Rows
    BY Types DEF TranslateInv, BindInv, TaskType
  <2> QED
    BY <2>1 DEF TranslateInv, TokenCurrent, RowsKeep, GensKeep
<1> QED
  BY <1>1, <1>2, <1>3, <1>4

\* So do its files where nobody begins to publish.
LEMMA FilesKept ==
    ASSUME SavedInv, PublishedResult, UNCHANGED <<task, born, files>>,
           \A q \in Procs : proc'[q] = proc[q] \/ proc'[q].pc # "publish"
    PROVE  SavedInv' /\ PublishedResult'
  BY DEF SavedInv, PublishedResult, At, Attempt

----------------------------------------------------------------------------
\* Steps that touch neither the task, the money nor the files: a row at most, and the
\* process goes on, gives up or takes a row that it has read.
Restful ==
    \/ \E p \in Procs : CreateFails(p) \/ BindFails(p) \/ Unbind(p) \/ Abandon(p)
    \/ \E p \in Users : CancelRow(p)
    \/ \E p \in Ticks :
         \/ ClosePoisoned(p) \/ Prepare(p) \/ Look(p) \/ Close(p) \/ FailRow(p)
         \/ FindDue(p) \/ RetryRow(p) \/ Stranded(p) \/ Deadline(p) \/ FindOrphan(p)
    \/ Reclaim

\* They leave the rows' generations and claim none.
LEMMA RestfulRows ==
    ASSUME TypeOK, Restful
    PROVE  row' \in [Rows -> RowType] /\ RowsKeep /\ GensKeep
<1>1. row' = row => row' \in [Rows -> RowType] /\ RowsKeep /\ GensKeep
  BY Types DEF RowsKeep, GensKeep
<1>2. ASSUME NEW j, NEW s \in {"submitted", "failed", "success"}, RowTo(j, s)
      PROVE  row' \in [Rows -> RowType] /\ RowsKeep /\ GensKeep
  BY <1>2, RowToFacts DEF RowStatuses, RowsKeep, GensKeep
<1>3. ASSUME NEW p \in Procs, Unbind(p) \/ CancelRow(p) PROVE row' = row \/ \E j : RowTo(j, "failed")
  BY <1>3 DEF Unbind, CancelRow
<1>4. ASSUME NEW p \in Ticks, ClosePoisoned(p) \/ Prepare(p) \/ Look(p) \/ Close(p)
      PROVE  row' = row \/ \E j : \E s \in {"submitted", "failed", "success"} : RowTo(j, s)
  BY <1>4 DEF ClosePoisoned, Prepare, Look, Converge, Disown, Ask, Close, EndRow
<1>5. ASSUME NEW p \in Ticks, FailRow(p)
      PROVE  row' \in [Rows -> RowType] /\ RowsKeep /\ GensKeep
  <2>1. CASE row' = row
    BY <1>1, <2>1
  <2>2. ASSUME NEW j, NEW again \in BOOLEAN,
               row' = [row EXCEPT ![j].status = "failed", ![j].retryAt = again]
        PROVE  row' \in [Rows -> RowType] /\ RowsKeep /\ GensKeep
    <3>1. CASE j \in Rows
      <4>1. PICK r \in RowType : r = row[j]
        BY <3>1, Types
      <4>2. row' = [row EXCEPT ![j] = [r EXCEPT !.status = "failed", !.retryAt = again]]
        BY <2>2, <4>1
      <4>3. LET n == [r EXCEPT !.status = "failed", !.retryAt = again]
            IN  n \in RowType /\ n.status = "failed" /\ n.gen = r.gen
        BY DEF RowType, RowStatuses
      <4> QED
        BY <3>1, <4>1, <4>2, <4>3, Types DEF RowsKeep, GensKeep
    <3>2. CASE j \notin Rows
      <4>1. row' = row
        BY <2>2, <3>2, Types
      <4> QED
        BY <1>1, <4>1
    <3> QED
      BY <3>1, <3>2
  <2>3. row' = row \/ \E j : \E again \in BOOLEAN :
            row' = [row EXCEPT ![j].status = "failed", ![j].retryAt = again]
    <3>1. proc[p].retry \in BOOLEAN
      BY Types DEF ProcType, Procs
    <3> QED
      BY <1>5, <3>1 DEF FailRow
  <2> QED
    BY <2>1, <2>2, <2>3
<1>6. ASSUME NEW p \in Ticks, RetryRow(p)
      PROVE  row' \in [Rows -> RowType] /\ RowsKeep /\ GensKeep
  <2>1. CASE row' = row
    BY <1>1, <2>1
  <2>2. CASE /\ Repeatable(proc[p].job)
             /\ row' = [row EXCEPT ![proc[p].job].status = "submitted", ![proc[p].job].attempt = @ + 1]
    <3>1. CASE proc[p].job \in Rows
      <4>1. PICK j \in Rows : j = proc[p].job
        BY <3>1
      <4>2. PICK r \in RowType : r = row[j]
        BY <4>1, Types
      <4>3. row' = [row EXCEPT ![j] = [r EXCEPT !.status = "submitted", !.attempt = r.attempt + 1]]
        BY <2>2, <4>1, <4>2
      <4>4. r.attempt \in 1..MaxAttempts /\ r.attempt < MaxAttempts
        BY <2>2, <4>1, <4>2 DEF Repeatable, RowType
      <4>5. r.attempt + 1 \in 1..MaxAttempts
        BY <4>4, Bounds
      <4>6. LET n == [r EXCEPT !.status = "submitted", !.attempt = r.attempt + 1]
            IN  n \in RowType /\ n.status = "submitted" /\ n.gen = r.gen
        BY <4>5 DEF RowType, RowStatuses
      <4> QED
        BY <4>2, <4>3, <4>6, Types DEF RowsKeep, GensKeep
    <3>2. CASE proc[p].job \notin Rows
      <4>1. row' = row
        BY <2>2, <3>2, Types
      <4> QED
        BY <1>1, <4>1
    <3> QED
      BY <3>1, <3>2
  <2> QED
    BY <1>6, <2>1, <2>2 DEF RetryRow
<1>7. Reclaim => \E j : RowTo(j, "failed")
  BY DEF Reclaim
<1>8. ASSUME NEW p \in Procs,
             \/ CreateFails(p) \/ BindFails(p) \/ Abandon(p) \/ FindDue(p)
             \/ Stranded(p) \/ Deadline(p) \/ FindOrphan(p)
      PROVE  row' = row
  BY <1>8 DEF CreateFails, BindFails, Abandon, FindDue, Stranded, Deadline, FindOrphan
<1>9. Ticks \subseteq Procs /\ Users \subseteq Procs
  BY DEF Procs
<1> QED
  BY <1>1, <1>2, <1>3, <1>4, <1>5, <1>6, <1>7, <1>8, <1>9 DEF Restful

\* A process that goes on with its row, or returns, fits.
LEMMA GoFits ==
    ASSUME TypeOK, NEW p \in Procs, NEW pc \in Pcs \ {"failRow", "settle", "refund", "bind"},
           Go(p, pc), p \in Users => pc \in UserPlaces, pc \in AtGeneration => proc[p].gen # 0 /\ proc[p].job # 0,
           pc \in {"idle", "create"} => proc[p].gen = 0
    PROVE  Moves /\ proc' \in [Procs -> ProcType] /\ proc'[p].pc = pc /\ Alone(p)
<1>1. /\ proc' \in [Procs -> ProcType] /\ Alone(p)
      /\ proc'[p].pc = pc /\ proc'[p].job = proc[p].job /\ proc'[p].gen = proc[p].gen
  BY GoFacts DEF Alone
<1>2. proc[p].gen # 0 => Claimed(proc[p].job, proc[p].gen)
  BY DEF Claimed
<1> QED
  BY <1>1, <1>2 DEF Moves, Fits, Alone

\* One that returns fits.
LEMMA ReturnsFits ==
    ASSUME TypeOK, NEW p \in Procs, Returns(p)
    PROVE  Moves /\ proc' \in [Procs -> ProcType] /\ proc'[p].pc = "idle" /\ Alone(p)
  BY ReturnsFacts DEF Moves, Fits, UserPlaces, AtGeneration, Alone

\* One that takes up a row it has read fits where the row's generation is claimed.
LEMMA TakesFits ==
    ASSUME TypeOK, NEW p \in Ticks, NEW u \in ProcType, proc' = [proc EXCEPT ![p] = u],
           p \notin Users, u.pc \in AtGeneration => u.gen # 0 /\ u.job # 0, u.pc \in {"failRow", "settle"} => u.job # 0,
           u.pc \notin {"refund", "bind", "idle", "create"}, u.gen # 0 => Claimed(u.job, u.gen)
    PROVE  Moves /\ proc' \in [Procs -> ProcType] /\ proc'[p] = u /\ Alone(p)
<1>1. p \in Procs
  BY DEF Procs
<1> QED
  BY <1>1, TakesFacts DEF Moves, Fits, Alone

\* The processes fit in where the rows rest.
LEMMA RestfulProcs ==
    ASSUME TranslateInv, Restful
    PROVE  /\ Moves /\ proc' \in [Procs -> ProcType]
           /\ \A q \in Procs : proc'[q] = proc[q] \/ proc'[q].pc # "publish"
<1> DEFINE Good == /\ Moves /\ proc' \in [Procs -> ProcType]
                   /\ \A q \in Procs : proc'[q] = proc[q] \/ proc'[q].pc # "publish"
<1>1. TypeOK /\ PlaceInv /\ BindInv
  BY DEF TranslateInv
<1>2. \A p \in Ticks : p \in Procs /\ p \notin Users
  BY TranslateAssumption DEF Procs
<1>3. ASSUME NEW p \in Procs, Returns(p) PROVE Good
  BY <1>1, <1>3, ReturnsFits DEF Alone
<1>4. ASSUME NEW p \in Procs, NEW pc \in {"giveUp", "unbind", "create"}, Go(p, pc),
             pc = "create" => At(p, "idle")
      PROVE  Good
  <2>1. pc \in Pcs \ {"failRow", "settle", "refund", "bind"} /\ pc \in UserPlaces
        /\ pc \notin AtGeneration
    BY DEF Pcs, UserPlaces, AtGeneration
  <2>2. pc = "create" => proc[p].gen = 0
    BY <1>1, <1>4 DEF At, PlaceInv
  <2> QED
    BY <1>1, <1>4, <2>1, <2>2, GoFits DEF Alone
<1>5. proc' = proc => Good
  BY <1>1, Types DEF Moves
<1>6. ASSUME NEW p \in Ticks, NEW u \in ProcType, proc' = [proc EXCEPT ![p] = u],
             u.pc \in AtGeneration => u.gen # 0 /\ u.job # 0, u.pc \in {"failRow", "settle"} => u.job # 0,
             u.pc \notin {"refund", "bind", "publish", "idle", "create"},
             u.gen # 0 => Claimed(u.job, u.gen)
      PROVE  Good
  BY <1>1, <1>2, <1>6, TakesFits DEF Alone
<1>7. CASE \E p \in Procs : CreateFails(p) \/ BindFails(p) \/ Unbind(p) \/ Abandon(p)
  BY <1>3, <1>4, <1>7 DEF CreateFails, BindFails, Unbind, Abandon
<1>8. CASE \E p \in Users : CancelRow(p)
  BY <1>3, <1>8 DEF CancelRow, Procs
<1>9. ASSUME NEW p \in Ticks, NEW pc \in Pcs, NEW again \in BOOLEAN,
             proc' = [proc EXCEPT ![p].pc = pc, ![p].retry = again],
             pc \in {"failRow", "settle"}, proc[p].job # 0
      PROVE  Good
  <2>1. PICK v \in ProcType : v = proc[p]
    BY <1>1, <1>2, Types
  <2>0. PICK u : u = [v EXCEPT !.pc = pc, !.retry = again]
    OBVIOUS
  <2>2. u \in ProcType /\ u.pc = pc /\ u.job = v.job /\ u.gen = v.gen
    BY <2>0 DEF ProcType
  <2>3. proc' = [proc EXCEPT ![p] = u]
    BY <1>9, <2>1, <2>0
  <2>4. u.gen # 0 => Claimed(u.job, u.gen)
    BY <1>2, <2>1, <2>2 DEF Claimed
  <2> QED
    BY <1>6, <1>9, <2>1, <2>2, <2>3, <2>4 DEF AtGeneration
<1>10. ASSUME NEW p \in Ticks, Prepare(p) PROVE Good
  <2>1. CASE Returns(p)
    BY <1>2, <1>3, <2>1
  <2>2. ASSUME NEW next \in {"requeue", "issue"}, Go(p, next) PROVE Good
    <3>1. next \in Pcs \ {"failRow", "settle", "refund", "bind"} /\ next # "publish"
      BY DEF Pcs
    <3>2. proc[p].gen # 0 /\ proc[p].job # 0
      BY <1>1, <1>2, <1>10 DEF Prepare, At, PlaceInv, AtGeneration
    <3> QED
      BY <1>1, <1>2, <2>2, <3>1, <3>2, GoFits DEF Alone
  <2>3. ASSUME NEW again \in BOOLEAN, proc' = [proc EXCEPT ![p].pc = "failRow", ![p].retry = again],
               Owned(proc[p].job, proc[p].gen)
        PROVE  Good
    <3>1. proc[p].gen # 0
      BY <1>1, <1>2, <1>10 DEF Prepare, At, PlaceInv, AtGeneration
    <3>2. proc[p].job # 0
      BY <1>1, <2>3, <3>1 DEF Owned, BindInv
    <3> QED
      BY <1>9, <2>3, <3>2 DEF Pcs
  <2> QED
    BY <1>10, <2>1, <2>2, <2>3 DEF Prepare
<1>11. ASSUME NEW p \in Ticks, Look(p) PROVE Good
  <2>1. CASE proc' = proc
    BY <1>5, <2>1
  <2>2. ASSUME NEW j \in Rows, Ask(p, j) PROVE Good
    <3>1. PICK next \in {"requeue", "save", "failRow"}, again \in BOOLEAN :
            /\ next # "requeue" => row[j].gen \in remote
            /\ proc' = [proc EXCEPT ![p] = [Idle EXCEPT !.pc = next, !.job = j, !.gen = row[j].gen,
                                                        !.retry = again]]
      BY <2>2 DEF Ask
    <3>2. row[j].gen \in Gens \cup {0} /\ j # 0 /\ (next # "requeue" => row[j].gen # 0)
      BY <1>1, <3>1, Types, Bounds DEF RowType
    <3>3. PICK u : u = [Idle EXCEPT !.pc = next, !.job = j, !.gen = row[j].gen, !.retry = again]
      OBVIOUS
    <3>4. u \in ProcType /\ u.pc = next /\ u.job = j /\ u.gen = row[j].gen
      BY <3>2, <3>3, Bounds DEF Idle, ProcType, Pcs
    <3>5. Claimed(j, row[j].gen)
      BY DEF Claimed
    <3> QED
      BY <1>6, <3>1, <3>2, <3>3, <3>4, <3>5 DEF AtGeneration
  <2> QED
    BY <1>11, <2>1, <2>2 DEF Look, Converge, Disown
<1>12. ASSUME NEW p \in Ticks, FailRow(p) PROVE Good
  <2>1. proc[p].job # 0
    BY <1>1, <1>2, <1>12 DEF FailRow, At, PlaceInv
  <2>2. Returns(p) \/ \E again \in BOOLEAN : proc' = [proc EXCEPT ![p].pc = "settle", ![p].retry = again]
    <3>1. proc[p].retry \in BOOLEAN
      BY <1>1, <1>2, Types DEF ProcType
    <3> QED
      BY <1>12, <3>1 DEF FailRow
  <2> QED
    BY <1>2, <1>3, <1>9, <2>1, <2>2 DEF Pcs
<1>13. ASSUME NEW p \in Ticks, FindDue(p) \/ Stranded(p) \/ Deadline(p) PROVE Good
  <2>1. ASSUME NEW j \in Rows, NEW pc \in {"retry", "failRow"}, NEW again \in BOOLEAN,
               proc' = [proc EXCEPT ![p] = [Idle EXCEPT !.pc = pc, !.job = j, !.retry = again]]
        PROVE  Good
    <3>1. PICK u : u = [Idle EXCEPT !.pc = pc, !.job = j, !.retry = again]
      OBVIOUS
    <3>2. u \in ProcType /\ u.pc = pc /\ u.job = j /\ u.gen = 0 /\ j # 0
      BY <3>1, Bounds DEF Idle, ProcType, Pcs
    <3> QED
      BY <1>6, <2>1, <3>1, <3>2 DEF AtGeneration
  <2>5. ASSUME NEW j \in Rows, NEW pc \in {"retry", "failRow"},
               proc' = [proc EXCEPT ![p] = [Idle EXCEPT !.pc = pc, !.job = j]]
        PROVE  Good
    <3>1. PICK u : u = [Idle EXCEPT !.pc = pc, !.job = j]
      OBVIOUS
    <3>2. u \in ProcType /\ u.pc = pc /\ u.job = j /\ u.gen = 0 /\ j # 0
      BY <3>1, Bounds DEF Idle, ProcType, Pcs
    <3> QED
      BY <1>6, <2>5, <3>1, <3>2 DEF AtGeneration
  <2>2. CASE FindDue(p)
    BY <2>2, <2>5 DEF FindDue
  <2>3. CASE Stranded(p)
    <3>1. task.job \in Rows
      BY <1>1, <2>3, Types DEF Stranded, TaskType
    <3>2. \E again \in BOOLEAN :
            proc' = [proc EXCEPT ![p] = [Idle EXCEPT !.pc = "failRow", !.job = task.job,
                                                     !.retry = again]]
      <4>1. (row[task.job].attempt < MaxAttempts) \in BOOLEAN
        BY <1>1, <3>1, Types, Bounds DEF RowType
      <4> QED
        BY <2>3, <4>1, Zenon DEF Stranded
    <3> QED
      BY <2>1, <3>1, <3>2
  <2>4. CASE Deadline(p)
    <3>1. task.job \in Rows
      BY <1>1, <2>4, Types DEF Deadline, TaskType
    <3> QED
      BY <2>4, <2>5, <3>1 DEF Deadline
  <2> QED
    BY <1>13, <2>2, <2>3, <2>4
<1>14. ASSUME NEW p \in Ticks, ClosePoisoned(p) \/ Close(p) \/ RetryRow(p) \/ FindOrphan(p)
       PROVE  Good
  BY <1>2, <1>3, <1>4, <1>5, <1>14 DEF ClosePoisoned, Close, RetryRow, FindOrphan
<1>15. Reclaim => Good
  BY <1>5 DEF Reclaim
<1> QED
  BY <1>7, <1>8, <1>10, <1>11, <1>12, <1>13, <1>14, <1>15 DEF Restful

\* So they keep the invariant.
LEMMA RestfulStep ==
    ASSUME TranslateInv, Restful
    PROVE  TranslateInv'
<1>1. /\ UNCHANGED <<task, remote, files, born, spent, returned>>
      /\ faults' = faults \/ (faults < MaxFaults /\ faults' = faults + 1)
  <2>1. CASE \E p \in Procs : CreateFails(p) \/ BindFails(p) \/ Unbind(p) \/ Abandon(p)
    BY <2>1 DEF CreateFails, BindFails, Unbind, Abandon, money
  <2>2. CASE \E p \in Users : CancelRow(p)
    BY <2>2 DEF CancelRow, money
  <2>3. CASE \E p \in Ticks : ClosePoisoned(p) \/ Prepare(p) \/ Look(p) \/ Close(p) \/ FailRow(p)
    BY <2>3 DEF ClosePoisoned, Prepare, Look, Close, FailRow, money
  <2>4. CASE \E p \in Ticks : FindDue(p) \/ RetryRow(p) \/ Stranded(p) \/ Deadline(p) \/ FindOrphan(p)
    BY <2>4 DEF FindDue, RetryRow, Stranded, Deadline, FindOrphan, money
  <2>5. CASE Reclaim
    BY <2>5 DEF Reclaim, money
  <2> QED
    BY <2>1, <2>2, <2>3, <2>4, <2>5 DEF Restful
<1>2. TypeOK /\ SavedInv /\ PublishedResult
  BY DEF TranslateInv
<1>3. row' \in [Rows -> RowType] /\ RowsKeep /\ GensKeep
  BY <1>2, RestfulRows
<1>4. /\ Moves /\ proc' \in [Procs -> ProcType]
      /\ \A q \in Procs : proc'[q] = proc[q] \/ proc'[q].pc # "publish"
  BY RestfulProcs
<1>5. faults' \in 0..MaxFaults
  BY <1>1, <1>2, Types, Bounds
<1>6. TypeOK'
  BY <1>1, <1>2, <1>3, <1>4, <1>5, Types, TypesNext
<1>7. PlaceInv' /\ BindInv' /\ LivePaid' /\ MoneyInv' /\ ClaimInv' /\ TokenCurrent'
  BY <1>1, <1>3, <1>4, RestKept
<1>8. SavedInv' /\ PublishedResult'
  BY <1>1, <1>2, <1>4, FilesKept
<1> QED
  BY <1>6, <1>7, <1>8 DEF TranslateInv

----------------------------------------------------------------------------
\* A harvest saves its result, and takes it away where another one was published.
LEMMA HarvestStep ==
    ASSUME TranslateInv, NEW p \in Ticks, Save(p) \/ Readback(p)
    PROVE  TranslateInv'
<1>1. /\ UNCHANGED <<task, remote, born, spent, returned, faults>> /\ p \in Procs
      /\ TypeOK /\ PlaceInv /\ SavedInv /\ PublishedResult /\ ClaimInv
  BY DEF Save, Readback, money, Procs, TranslateInv
<1>2. proc[p].gen \in Gens /\ proc[p].job # 0
  BY <1>1, Types DEF Save, Readback, At, PlaceInv, AtGeneration, ProcType
<1>3. row' = row \/ RowTo(proc[p].job, "failed")
  BY DEF Save, Readback, EndRow
<1>4. row' \in [Rows -> RowType] /\ RowsKeep /\ GensKeep
  BY <1>1, <1>3, RowToFacts, Types DEF RowsKeep, GensKeep, RowStatuses
<1>5. Moves /\ proc' \in [Procs -> ProcType] /\ Alone(p) /\ proc'[p].pc \in {"publish", "close", "idle"}
  <2>1. p \notin Users
    BY TranslateAssumption
  <2>2. Returns(p) \/ Go(p, "publish") \/ Go(p, "close")
    BY DEF Save, Readback
  <2> QED
    BY <1>1, <1>2, <2>1, <2>2, GoFits, ReturnsFits, Bounds DEF Pcs
<1>6. files' \subseteq Ticks \X Gens
  BY <1>1, <1>2, Types DEF Save, Readback, Attempt
<1>7. TypeOK'
  BY <1>1, <1>4, <1>5, <1>6, Types, TypesNext
<1>8. PlaceInv' /\ BindInv' /\ LivePaid' /\ MoneyInv' /\ ClaimInv' /\ TokenCurrent'
  BY <1>1, <1>4, <1>5, RestKept
<1>9. CASE Save(p)
  <2>1. files' = files \cup {Attempt(p)} /\ Go(p, "publish")
    BY <1>9 DEF Save
  <2>2. proc'[p].gen = proc[p].gen
    BY <1>1, <2>1, GoFacts DEF Pcs
  <2>3. SavedInv'
    BY <1>1, <1>5, <2>1, <2>2 DEF SavedInv, At, Attempt, Alone
  <2>4. PublishedResult'
    BY <1>1, <2>1 DEF PublishedResult
  <2> QED
    BY <1>7, <1>8, <2>3, <2>4 DEF TranslateInv
<1>10. CASE Readback(p)
  <2>1. /\ Returns(p) \/ Go(p, "close")
        /\ files' = files \/ files' = files \ {Attempt(p)}
        /\ task.status = "completed" /\ task.job = proc[p].job /\ task.path = Attempt(p) =>
             files' = files
    BY <1>10 DEF Readback
  <2>2. proc'[p].pc # "publish"
    BY <1>1, <2>1, GoFacts, ReturnsFacts DEF Pcs
  <2>3. SavedInv'
    BY <1>1, <1>5, <2>1, <2>2 DEF SavedInv, At, Attempt, Alone
  <2>4. task.status = "completed" /\ task.path = Attempt(p) => task.job = proc[p].job
    <3>1. SUFFICES ASSUME task.status = "completed", task.path = Attempt(p)
                   PROVE  task.job = proc[p].job
      OBVIOUS
    <3>2. task.path[2] = proc[p].gen
      BY <3>1 DEF Attempt
    <3>3. Claimed(task.job, proc[p].gen) /\ Claimed(proc[p].job, proc[p].gen)
      BY <1>1, <3>1, <3>2 DEF Claimed
    <3>4. task.job \in Rows \cup {0} /\ proc[p].job \in Rows \cup {0}
      BY <1>1, Types DEF TaskType, ProcType
    <3> QED
      BY <1>1, <1>2, <3>3, <3>4 DEF ClaimInv
  <2>5. PublishedResult'
    BY <1>1, <2>1, <2>4 DEF PublishedResult
  <2> QED
    BY <1>7, <1>8, <2>3, <2>5 DEF TranslateInv
<1> QED
  BY <1>9, <1>10

\* A process creates a row that is nobody's yet, to bind it.
LEMMA CreateStep ==
    ASSUME TranslateInv, NEW p \in Procs, Create(p)
    PROVE  TranslateInv'
<1>1. /\ UNCHANGED <<task, remote, files, born, spent, returned, faults>>
      /\ TypeOK /\ PlaceInv /\ BindInv /\ SavedInv /\ PublishedResult /\ ClaimInv
  BY DEF Create, money, TranslateInv
<1>2. CASE Returns(p) /\ UNCHANGED row
  <2>1. Moves /\ proc' \in [Procs -> ProcType] /\ proc'[p].pc = "idle" /\ Alone(p)
    BY <1>1, <1>2, ReturnsFits
  <2>2. row' \in [Rows -> RowType] /\ RowsKeep /\ GensKeep
    BY <1>1, <1>2, Types DEF RowsKeep, GensKeep
  <2>3. TypeOK'
    BY <1>1, <2>1, <2>2, Types, TypesNext
  <2>4. PlaceInv' /\ BindInv' /\ LivePaid' /\ MoneyInv' /\ ClaimInv' /\ TokenCurrent'
    BY <1>1, <2>1, <2>2, RestKept
  <2>5. SavedInv' /\ PublishedResult'
    BY <1>1, <2>1, FilesKept DEF Alone
  <2> QED
    BY <2>3, <2>4, <2>5 DEF TranslateInv
<1>3. ASSUME NEW j \in Rows, row[j].status = "absent", RowTo(j, "submitted"),
             proc' = [proc EXCEPT ![p].pc = "bind", ![p].job = j, ![p].seen = task.round]
      PROVE  TranslateInv'
  <2>1. PICK v \in ProcType : v = proc[p]
    BY <1>1, Types
  <2>2. PICK u : u = [v EXCEPT !.pc = "bind", !.job = j, !.seen = task.round]
    OBVIOUS
  <2>3. task.round \in 0..MaxRows /\ j # 0
    BY <1>1, Types, Bounds DEF TaskType
  <2>4. u \in ProcType /\ u.pc = "bind" /\ u.job = j /\ u.gen = v.gen
    BY <2>2, <2>3 DEF ProcType, Pcs
  <2>5. proc' = [proc EXCEPT ![p] = u]
    BY <1>3, <2>1, <2>2
  <2>6. proc' \in [Procs -> ProcType] /\ proc'[p] = u /\ \A q \in Procs \ {p} : proc'[q] = proc[q]
    BY <1>1, <2>4, <2>5, TakesFacts
  <2>7. /\ row' \in [Rows -> RowType] /\ row'[j].status = "submitted"
        /\ \A k \in Rows : row'[k].gen = row[k].gen
        /\ \A k \in Rows \ {j} : row'[k].status = row[k].status
    BY <1>1, <1>3, RowToFacts DEF RowStatuses
  <2>8. TypeOK'
    BY <1>1, <2>6, <2>7, Types, TypesNext
  <2>9. PlaceInv'
    <3>1. ASSUME NEW q \in Procs, q # p
          PROVE  /\ q \in Users => proc'[q].pc \in UserPlaces
                 /\ proc'[q].pc \in AtGeneration => proc'[q].gen # 0 /\ proc'[q].job # 0
                 /\ proc'[q].pc \in {"idle", "create", "bind"} => proc'[q].gen = 0
                 /\ proc'[q].pc \in {"failRow", "settle", "refund", "bind"} => proc'[q].job # 0
                 /\ proc'[q].pc \in {"refund", "bind"} => row'[proc'[q].job].status # "absent"
      <4>1. proc'[q] = proc[q] /\ proc[q].job \in Rows \cup {0}
        BY <1>1, <2>6, <3>1, Types DEF ProcType
      <4> QED
        BY <1>1, <2>7, <4>1 DEF PlaceInv
    <3>2. proc[p].gen = 0
      BY <1>1 DEF Create, At, PlaceInv
    <3> QED
      BY <2>1, <2>3, <2>4, <2>6, <2>7, <3>1, <3>2 DEF PlaceInv, UserPlaces, AtGeneration
  <2>10. BindInv'
    <3>1. task.job # j
      BY <1>1, <1>3, <2>3 DEF BindInv
    <3>2. \A q \in Procs : proc[q].pc \in {"bind", "refund"} => proc[q].job # j
      BY <1>1, <1>3 DEF PlaceInv
    <3>3. task.job # 0 => row'[task.job].status # "absent"
      BY <1>1, <2>7, <3>1, Types DEF BindInv, TaskType
    <3> QED
      BY <1>1, <2>4, <2>6, <3>1, <3>2, <3>3 DEF BindInv, At
  <2>11. ClaimInv'
    <3>1. proc[p].gen = 0
      BY <1>1 DEF Create, At, PlaceInv
    <3>2. ASSUME NEW k \in Rows \cup {0}, NEW g \in Gens, Claimed(k, g)' PROVE Claimed(k, g)
      BY <1>1, <2>1, <2>4, <2>6, <2>7, <3>1, <3>2, Bounds DEF Claimed
    <3> QED
      BY <1>1, <3>2 DEF ClaimInv
  <2>12. LivePaid' /\ MoneyInv'
    BY <1>1 DEF TranslateInv, LivePaid, MoneyInv, MoneyKept, Owing
  <2>13. TokenCurrent'
    <3>1. task.gen # 0 => task.job \in Rows
      BY <1>1, Types DEF BindInv, TaskType
    <3> QED
      BY <1>1, <2>7, <3>1 DEF TranslateInv, TokenCurrent
  <2>14. SavedInv' /\ PublishedResult'
    BY <1>1, <2>4, <2>6, FilesKept
  <2> QED
    BY <2>8, <2>9, <2>10, <2>11, <2>12, <2>13, <2>14 DEF TranslateInv
<1> QED
  BY <1>2, <1>3 DEF Create

----------------------------------------------------------------------------
\* A step that ends the task's binding or its generation, or moves it on within them.
TaskMoves ==
    /\ task'.job \in {0, task.job} /\ (task'.job = 0 => task'.gen = 0)
    /\ task'.job # 0 /\ task.status = "failed" => task'.status = "failed"
    /\ task'.gen # 0 => task'.gen = task.gen /\ task'.job = task.job /\ task'.round = task.round
    /\ task'.token # 0 => /\ task'.token = task.token /\ task'.gen = task.gen
                          /\ task'.status = task.status
    /\ task'.status = "completed" => /\ task.status = "completed" /\ task'.path = task.path
                                     /\ task'.job = task.job /\ task'.round = task.round
    /\ task.status = "deleted" => task'.status = "deleted"
    /\ task'.status = "quoted" => task.status = "quoted"
\* Nobody begins to publish.
NoneSaved == \A q \in Procs : proc'[q] = proc[q] \/ proc'[q].pc # "publish"

\* A task that moves so keeps its bindings, its claims, its result and its credential.
LEMMA TaskKept ==
    ASSUME TranslateInv, TaskMoves, RowsKeep, GensKeep, Moves, NoneSaved, UNCHANGED <<born, files>>
    PROVE  PlaceInv' /\ BindInv' /\ ClaimInv' /\ SavedInv' /\ PublishedResult' /\ TokenCurrent'
<1>1. TypeOK /\ PlaceInv /\ BindInv /\ ClaimInv /\ SavedInv /\ PublishedResult /\ TokenCurrent
  BY DEF TranslateInv
<1>2. PlaceInv' /\ BindInv'
  BY <1>1, PlaceKept, BindKept DEF TaskMoves
<1>3. ClaimInv'
  <2>1. task'.status = "completed" => Claimed(task'.job, task'.path[2])
    BY DEF TaskMoves, Claimed
  <2> QED
    BY <1>1, <2>1, ClaimKept DEF TaskMoves, GensKeep
<1>4. SavedInv' /\ PublishedResult'
  BY <1>1 DEF TaskMoves, NoneSaved, SavedInv, PublishedResult, At, Attempt
<1>5. TokenCurrent'
  <2>1. task.gen # 0 => task.job \in Rows
    BY <1>1, Types DEF BindInv, TaskType
  <2>2. task'.gen # 0 /\ row'[task'.job].status = "processing" => row'[task'.job].gen = task'.gen
    BY <1>1, <2>1 DEF TaskMoves, TokenCurrent, RowsKeep, GensKeep
  <2>3. task'.token # 0 => task'.token = task'.gen /\ task'.status = "translating"
    BY <1>1 DEF TaskMoves, TokenCurrent
  <2> QED
    BY <2>2, <2>3 DEF TokenCurrent
<1> QED
  BY <1>2, <1>3, <1>4, <1>5

\* The charge stays with a task that is not deleted by the step.
LEMMA MoneyStays ==
    ASSUME TypeOK, LivePaid, MoneyInv, UNCHANGED <<spent, returned>>,
           task'.charged = task.charged, task'.refunded = task.refunded, task'.round = task.round,
           task'.status = "quoted" => task.status = "quoted",
           task'.status \in Live \cup {"completed"} => task.status \in Live \cup {"completed"},
           task'.status = "deleted" => task.status = "deleted" /\ task'.path = task.path
    PROVE  LivePaid' /\ MoneyInv'
  BY DEF LivePaid, MoneyInv, MoneyKept, Owing

\* Nothing but the place of a process.
LEMMA ProcStep ==
    ASSUME TranslateInv, UNCHANGED <<task, row, remote, files, born, spent, returned>>,
           faults' \in 0..MaxFaults, Moves, NoneSaved, proc' \in [Procs -> ProcType]
    PROVE  TranslateInv'
<1>1. TypeOK'
  BY Types, TypesNext DEF TranslateInv
<1>2. RowsKeep /\ GensKeep
  BY DEF RowsKeep, GensKeep
<1>3. PlaceInv' /\ BindInv' /\ LivePaid' /\ MoneyInv' /\ ClaimInv' /\ TokenCurrent'
  BY <1>2, RestKept
<1>4. SavedInv' /\ PublishedResult'
  BY FilesKept DEF TranslateInv, NoneSaved
<1> QED
  BY <1>1, <1>3, <1>4 DEF TranslateInv

\* A refund of a task that has ended.
LEMMA RefundStep ==
    ASSUME TranslateInv, Owing, task.status \notin Live \cup {"completed"},
           task' = [task EXCEPT !.refunded = TRUE], returned' = returned + 1,
           UNCHANGED <<row, remote, files, born, spent, faults>>,
           Moves, NoneSaved, proc' \in [Procs -> ProcType]
    PROVE  TranslateInv'
<1>1. TypeOK /\ LivePaid /\ MoneyInv /\ task \in TaskType /\ BindInv
  BY Types DEF TranslateInv
<1>2. /\ task' \in TaskType /\ task'.refunded /\ task'.status = task.status
      /\ task'.job = task.job /\ task'.gen = task.gen /\ task'.token = task.token
      /\ task'.charged = task.charged /\ task'.path = task.path /\ task'.round = task.round
  BY <1>1 DEF TaskType
<1>3. spent = returned + 1 /\ spent \in 0..MaxRows /\ returned \in 0..MaxRows
  BY <1>1, Types DEF MoneyInv, MoneyKept
<1>4. returned' \in 0..MaxRows
  BY <1>3, Bounds
<1>5. TypeOK'
  BY <1>1, <1>2, <1>4, Types, TypesNext
<1>6. RowsKeep /\ GensKeep
  BY DEF RowsKeep, GensKeep
<1>7. TaskMoves
  BY <1>1, <1>2 DEF TaskMoves, BindInv
<1>8. PlaceInv' /\ BindInv' /\ ClaimInv' /\ SavedInv' /\ PublishedResult' /\ TokenCurrent'
  BY <1>6, <1>7, TaskKept
<1>9. LivePaid' /\ MoneyInv'
  BY <1>1, <1>2, <1>3, Bounds DEF LivePaid, MoneyInv, MoneyKept, Owing
<1> QED
  BY <1>5, <1>8, <1>9 DEF TranslateInv

\* A step of the task alone that is no business of the wallet's.
LEMMA StatusStep ==
    ASSUME TranslateInv, TaskMoves, task' \in TaskType, RowsKeep, GensKeep, row' \in [Rows -> RowType],
           UNCHANGED <<remote, files, born, spent, returned>>, faults' \in 0..MaxFaults,
           task'.charged = task.charged, task'.refunded = task.refunded, task'.round = task.round,
           task'.status \in Live => task.status \in Live,
           task'.status = "deleted" => task.status = "deleted" /\ task'.path = task.path,
           Moves, NoneSaved, proc' \in [Procs -> ProcType]
    PROVE  TranslateInv'
<1>1. TypeOK'
  BY Types, TypesNext DEF TranslateInv
<1>2. PlaceInv' /\ BindInv' /\ ClaimInv' /\ SavedInv' /\ PublishedResult' /\ TokenCurrent'
  BY TaskKept
<1>3. LivePaid' /\ MoneyInv'
  BY MoneyStays DEF TranslateInv, TaskMoves
<1> QED
  BY <1>1, <1>2, <1>3 DEF TranslateInv

----------------------------------------------------------------------------
\* A process that is where it was.
LEMMA ProcStays ==
    ASSUME TypeOK, proc' = proc
    PROVE  Moves /\ NoneSaved /\ proc' \in [Procs -> ProcType]
  BY Types DEF Moves, NoneSaved

\* A process that returns, or goes on where it fits, and has nothing to publish.
LEMMA ReturnsOn ==
    ASSUME TypeOK, NEW p \in Procs, Returns(p)
    PROVE  Moves /\ NoneSaved /\ proc' \in [Procs -> ProcType]
  BY ReturnsFits DEF NoneSaved, Alone

\* The same of a step to a place that asks for nothing, or for a generation.
LEMMA GoesOn ==
    ASSUME TypeOK, NEW p \in Procs,
           NEW pc \in {"unbind", "giveUp", "repay", "close", "readback"},
           p \in Users => pc \in UserPlaces, pc \in AtGeneration => proc[p].gen # 0 /\ proc[p].job # 0, Go(p, pc)
    PROVE  Moves /\ NoneSaved /\ proc' \in [Procs -> ProcType]
<1>1. pc \in Pcs \ {"failRow", "settle", "refund", "bind"} /\ pc \notin {"idle", "create", "publish"}
  BY DEF Pcs
<1> QED
  BY <1>1, GoFits DEF NoneSaved, Alone

\* The same of a process that takes a new record.
LEMMA TakesOn ==
    ASSUME TypeOK, NEW p \in Procs, NEW u \in ProcType, proc' = [proc EXCEPT ![p] = u],
           p \in Users => u.pc \in UserPlaces,
           u.pc \in AtGeneration => u.gen # 0 /\ u.job # 0, u.pc \in {"failRow", "settle"} => u.job # 0,
           u.pc \in {"idle", "create"} => u.gen = 0,
           u.pc \notin {"refund", "bind", "publish"}, u.gen # 0 => Claimed(u.job, u.gen)
    PROVE  Moves /\ NoneSaved /\ proc' \in [Procs -> ProcType]
  BY TakesFacts DEF Moves, Fits, NoneSaved

\* The owner's refund of a task that has ended.
LEMMA RefundEndedStep ==
    ASSUME TranslateInv, NEW p \in Users, RefundEnded(p)
    PROVE  TranslateInv'
<1>1. Owing /\ task.status \notin Live \cup {"completed"}
  BY DEF RefundEnded, Ended, Live
<1>2. task' = [task EXCEPT !.refunded = TRUE] /\ returned' = returned + 1
  BY <1>1 DEF RefundEnded, Refund
<1>3. UNCHANGED <<row, remote, files, proc, born, spent, faults>>
  BY DEF RefundEnded
<1> QED
  BY <1>1, <1>2, <1>3, ProcStays, RefundStep DEF TranslateInv

\* The refund of a request whose task failed because no row could be bound to it.
LEMMA RepayStep ==
    ASSUME TranslateInv, NEW p \in Procs, Repay(p)
    PROVE  TranslateInv'
<1> DEFINE expected == task.status = "failed" /\ task.job = 0 /\ task.round = proc[p].round
<1>1. UNCHANGED <<row, remote, files, born, spent, faults>> /\ Returns(p) /\ Refund(expected)
  BY DEF Repay
<1>2. TypeOK /\ faults \in 0..MaxFaults
  BY Types DEF TranslateInv
<1>3. Moves /\ NoneSaved /\ proc' \in [Procs -> ProcType]
  BY <1>1, <1>2, ReturnsOn
<1>4. CASE expected /\ Owing
  <2>1. task' = [task EXCEPT !.refunded = TRUE] /\ returned' = returned + 1
    BY <1>1, <1>4 DEF Refund
  <2>2. task.status \notin Live \cup {"completed"}
    BY <1>4 DEF Live
  <2> QED
    BY <1>1, <1>3, <1>4, <2>1, <2>2, RefundStep
<1>5. CASE ~(expected /\ Owing)
  <2>1. UNCHANGED <<task, returned>>
    BY <1>1, <1>5 DEF Refund
  <2> QED
    BY <1>1, <1>2, <1>3, <2>1, ProcStep
<1> QED
  BY <1>4, <1>5

\* The refund of a cancellation.
LEMMA CancelRefundStep ==
    ASSUME TranslateInv, NEW p \in Users, CancelRefund(p)
    PROVE  TranslateInv'
<1> DEFINE expected == task.status = "canceled" /\ task.job = proc[p].job
                       /\ task.round = proc[p].round
<1>1. UNCHANGED <<row, remote, files, born, spent, faults>> /\ Refund(expected)
  BY DEF CancelRefund
<1>2. TypeOK /\ faults \in 0..MaxFaults /\ p \in Procs
  BY Types DEF TranslateInv, Procs
<1>3. Moves /\ NoneSaved /\ proc' \in [Procs -> ProcType]
  <2>1. CASE Returns(p)
    BY <1>2, <2>1, ReturnsOn
  <2>2. CASE proc' = [proc EXCEPT ![p].pc = "cancelRow", ![p].round = 0]
    <3>1. PICK v \in ProcType : v = proc[p]
      BY <1>2, Types
    <3>2. PICK u : u = [v EXCEPT !.pc = "cancelRow", !.round = 0]
      OBVIOUS
    <3>3. 0 \in 0..MaxRows
      BY Bounds
    <3>4. u \in ProcType /\ u.pc = "cancelRow" /\ u.job = v.job /\ u.gen = v.gen
      BY <3>2, <3>3 DEF ProcType, Pcs
    <3>5. proc' = [proc EXCEPT ![p] = u]
      BY <2>2, <3>1, <3>2
    <3>6. u.gen # 0 => Claimed(u.job, u.gen)
      BY <1>2, <3>1, <3>4 DEF Claimed
    <3> QED
      BY <1>2, <3>4, <3>5, <3>6, TakesOn DEF UserPlaces, AtGeneration
  <2> QED
    BY <2>1, <2>2 DEF CancelRefund
<1>4. CASE expected /\ Owing
  <2>1. task' = [task EXCEPT !.refunded = TRUE] /\ returned' = returned + 1
    BY <1>1, <1>4 DEF Refund
  <2>2. task.status \notin Live \cup {"completed"}
    BY <1>4 DEF Live
  <2> QED
    BY <1>1, <1>3, <1>4, <2>1, <2>2, RefundStep
<1>5. CASE ~(expected /\ Owing)
  <2>1. UNCHANGED <<task, returned>>
    BY <1>1, <1>5 DEF Refund
  <2> QED
    BY <1>1, <1>2, <1>3, <2>1, ProcStep
<1> QED
  BY <1>4, <1>5

\* The refund of a row that has failed for good: no later row is bound to the task then.
LEMMA RefundFailedStep ==
    ASSUME TranslateInv, NEW p \in Ticks, RefundFailed(p)
    PROVE  TranslateInv'
<1>1. UNCHANGED <<row, remote, files, born, spent, faults>> /\ Returns(p) /\ At(p, "refund")
      /\ Refund(task.job = proc[p].job)
  BY DEF RefundFailed, RefundBound
<1>2. TypeOK /\ faults \in 0..MaxFaults /\ p \in Procs
  BY Types DEF TranslateInv, Procs
<1>3. Moves /\ NoneSaved /\ proc' \in [Procs -> ProcType]
  BY <1>1, <1>2, ReturnsOn
<1>4. CASE task.job = proc[p].job /\ Owing
  <2>1. task' = [task EXCEPT !.refunded = TRUE] /\ returned' = returned + 1
    BY <1>1, <1>4 DEF Refund
  <2>2. task.status = "failed"
    BY <1>1, <1>2, <1>4 DEF TranslateInv, BindInv
  <2>3. task.status \notin Live \cup {"completed"}
    BY <2>2 DEF Live
  <2> QED
    BY <1>1, <1>3, <1>4, <2>1, <2>3, RefundStep
<1>5. CASE ~(task.job = proc[p].job /\ Owing)
  <2>1. UNCHANGED <<task, returned>>
    BY <1>1, <1>5 DEF Refund
  <2> QED
    BY <1>1, <1>2, <1>3, <2>1, ProcStep
<1> QED
  BY <1>4, <1>5

\* A request gives up a task that nothing was bound to.
LEMMA GiveUpStep ==
    ASSUME TranslateInv, NEW p \in Users, GiveUp(p)
    PROVE  TranslateInv'
<1>1. UNCHANGED <<row, remote, files, born, spent, returned, faults>> /\ p \in Procs
  BY DEF GiveUp, money, Procs
<1>2. TypeOK /\ faults \in 0..MaxFaults /\ task \in TaskType /\ row \in [Rows -> RowType]
  BY Types DEF TranslateInv
<1>3. CASE Unbound(proc[p].round) /\ task' = [task EXCEPT !.status = "failed"] /\ Go(p, "repay")
  <2>1. Moves /\ NoneSaved /\ proc' \in [Procs -> ProcType]
    BY <1>1, <1>2, <1>3, GoesOn DEF UserPlaces, AtGeneration
  <2>2. /\ task' \in TaskType /\ task'.status = "failed" /\ task'.job = task.job /\ task'.gen = task.gen
        /\ task'.token = task.token /\ task'.charged = task.charged
        /\ task'.refunded = task.refunded /\ task'.path = task.path /\ task'.round = task.round
    BY <1>2, <1>3 DEF TaskType, Statuses
  <2>3. task.status = "pending" /\ task.token = 0 /\ task.job = 0 /\ task.gen = 0
    BY <1>3 DEF Unbound, TranslateInv, TokenCurrent, BindInv
  <2>4. TaskMoves /\ RowsKeep /\ GensKeep
    BY <1>1, <2>2, <2>3 DEF TaskMoves, RowsKeep, GensKeep
  <2>5. task'.status \notin Live
    BY <2>2 DEF Live
  <2> QED
    BY <1>1, <1>2, <2>1, <2>2, <2>4, <2>5, StatusStep
<1>4. CASE Returns(p) /\ UNCHANGED task
  BY <1>1, <1>2, <1>4, ReturnsOn, ProcStep
<1> QED
  BY <1>3, <1>4 DEF GiveUp

\* The owner cancels a task under way, and keeps its generation to end the row.
LEMMA CancelStep ==
    ASSUME TranslateInv, NEW p \in Users, Cancel(p)
    PROVE  TranslateInv'
<1>1. UNCHANGED <<row, remote, files, born, spent, returned, faults>> /\ p \in Procs
  BY DEF Cancel, money, Procs
<1>2. TypeOK /\ faults \in 0..MaxFaults /\ task \in TaskType /\ row \in [Rows -> RowType]
  BY Types DEF TranslateInv
<1>3. PICK u : u = [Idle EXCEPT !.pc = "cancelRefund", !.job = task.job, !.gen = task.gen,
                                !.round = task.round]
  OBVIOUS
<1>4. /\ u \in ProcType /\ u.pc = "cancelRefund" /\ u.job = task.job /\ u.gen = task.gen
  BY <1>2, <1>3, Bounds DEF Idle, ProcType, Pcs, TaskType
<1>5. proc' = [proc EXCEPT ![p] = u]
  BY <1>3 DEF Cancel
<1>6. u.gen # 0 => Claimed(u.job, u.gen)
  BY <1>4 DEF Claimed
<1>7. Moves /\ NoneSaved /\ proc' \in [Procs -> ProcType]
  BY <1>1, <1>2, <1>4, <1>5, <1>6, TakesOn DEF UserPlaces, AtGeneration
<1>8. /\ task' \in TaskType /\ task'.status = "canceled" /\ task'.job = task.job /\ task'.gen = 0
      /\ task'.token = 0 /\ task'.charged = task.charged
      /\ task'.refunded = task.refunded /\ task'.path = task.path /\ task'.round = task.round
  BY <1>2 DEF Cancel, TaskType, Statuses
<1>9. TaskMoves /\ RowsKeep /\ GensKeep
  BY <1>1, <1>8 DEF TaskMoves, RowsKeep, GensKeep, Cancel, IsLive, Live
<1>10. task'.status \notin Live
  BY <1>8 DEF Live
<1> QED
  BY <1>1, <1>2, <1>7, <1>8, <1>9, <1>10, StatusStep

\* A row goes back to the queue, and its task with it.
LEMMA RequeueStep ==
    ASSUME TranslateInv, NEW p \in Ticks, Requeue(p)
    PROVE  TranslateInv'
<1>1. UNCHANGED <<remote, files, born, spent, returned, faults>> /\ p \in Procs /\ Returns(p)
  BY DEF Requeue, money, Procs
<1>2. TypeOK /\ faults \in 0..MaxFaults /\ task \in TaskType /\ row \in [Rows -> RowType]
  BY Types DEF TranslateInv
<1>3. Moves /\ NoneSaved /\ proc' \in [Procs -> ProcType]
  BY <1>1, <1>2, ReturnsOn
<1>4. CASE /\ RowTo(proc[p].job, "submitted") /\ task' = [task EXCEPT !.token = 0, !.gen = 0]
           /\ Held(proc[p].job, proc[p].gen) /\ Owned(proc[p].job, proc[p].gen)
  <2>1. /\ task' \in TaskType /\ task'.status = task.status /\ task'.job = task.job /\ task'.gen = 0
        /\ task'.token = 0 /\ task'.charged = task.charged
        /\ task'.refunded = task.refunded /\ task'.path = task.path /\ task'.round = task.round
    BY <1>2, <1>4 DEF TaskType
  <2>2. row' \in [Rows -> RowType] /\ RowsKeep /\ GensKeep
    BY <1>2, <1>4, RowToFacts DEF RowStatuses, RowsKeep, GensKeep
  <2>3. TaskMoves
    BY <2>1 DEF TaskMoves
  <2> QED
    BY <1>1, <1>2, <1>3, <2>1, <2>2, <2>3, StatusStep
<1>5. CASE UNCHANGED <<task, row>>
  BY <1>1, <1>2, <1>3, <1>5, ProcStep
<1> QED
  BY <1>4, <1>5 DEF Requeue

\* A failed row settles its task: for good, when the tick goes on to refund it.
LEMMA SettleStep ==
    ASSUME TranslateInv, NEW p \in Ticks, Settle(p)
    PROVE  TranslateInv'
<1>1. UNCHANGED <<row, remote, files, born, spent, returned, faults>> /\ p \in Procs /\ At(p, "settle")
  BY DEF Settle, money, Procs
<1>2. /\ TypeOK /\ faults \in 0..MaxFaults /\ task \in TaskType /\ row \in [Rows -> RowType]
      /\ PlaceInv /\ BindInv /\ LivePaid /\ MoneyInv /\ ClaimInv /\ SavedInv /\ PublishedResult
      /\ remote \subseteq Gens /\ files \subseteq Ticks \X Gens
      /\ born \in Seq(0..MaxRows) /\ Len(born) <= MaxGens
      /\ spent \in 0..MaxRows /\ returned \in 0..MaxRows
  BY Types DEF TranslateInv
<1>3. RowsKeep /\ GensKeep
  BY <1>1 DEF RowsKeep, GensKeep
<1>4. CASE /\ IsLive /\ task' = [task EXCEPT !.gen = 0, !.token = 0, !.status = @] /\ Returns(p)
  <2>1. /\ task' \in TaskType /\ task'.status = task.status /\ task'.job = task.job /\ task'.gen = 0
        /\ task'.token = 0 /\ task'.charged = task.charged
        /\ task'.refunded = task.refunded /\ task'.path = task.path /\ task'.round = task.round
    BY <1>2, <1>4 DEF TaskType
  <2>2. TaskMoves
    BY <2>1 DEF TaskMoves
  <2> QED
    BY <1>1, <1>2, <1>3, <1>4, <2>1, <2>2, ReturnsOn, StatusStep
<1>5. CASE /\ IsLive /\ task.job = proc[p].job
           /\ task' = [task EXCEPT !.gen = 0, !.token = 0, !.status = "failed"]
           /\ proc' = [proc EXCEPT ![p] = [Idle EXCEPT !.pc = "refund", !.job = proc[p].job]]
  <2>1. /\ task' \in TaskType /\ task'.status = "failed" /\ task'.job = task.job /\ task'.gen = 0
        /\ task'.token = 0 /\ task'.charged = task.charged
        /\ task'.refunded = task.refunded /\ task'.path = task.path /\ task'.round = task.round
    BY <1>2, <1>5 DEF TaskType, Statuses
  <2>2. PICK u : u = [Idle EXCEPT !.pc = "refund", !.job = task.job]
    OBVIOUS
  <2>3. u \in ProcType /\ u.pc = "refund" /\ u.job = task.job /\ u.gen = 0
    BY <1>2, <2>2, Bounds DEF Idle, ProcType, Pcs, TaskType
  <2>4. proc' \in [Procs -> ProcType] /\ proc'[p] = u /\ \A q \in Procs \ {p} : proc'[q] = proc[q]
    BY <1>1, <1>2, <1>5, <2>2, <2>3, TakesFacts
  <2>5. task.job # 0 /\ row[task.job].status # "absent" /\ p \notin Users
    BY <1>1, <1>2, <1>5, TranslateAssumption DEF PlaceInv, At, BindInv
  <2>6. TypeOK'
    BY <1>1, <1>2, <2>1, <2>4, TypesNext
  <2>7. PlaceInv'
    BY <1>1, <1>2, <2>3, <2>4, <2>5 DEF PlaceInv, AtGeneration
  <2>8. BindInv'
    BY <1>1, <1>2, <2>1, <2>3, <2>4, <2>5 DEF BindInv, At
  <2>9. ClaimInv'
    <3>1. ClaimsKeep
      BY <2>3, <2>4 DEF ClaimsKeep, Claimed
    <3> QED
      BY <1>1, <1>2, <2>1, <3>1, ClaimStays
  <2>10. LivePaid' /\ MoneyInv'
    BY <1>1, <1>2, <2>1, MoneyStays DEF Live
  <2>11. SavedInv' /\ PublishedResult'
    BY <1>1, <1>2, <1>5, <2>1, <2>3, <2>4 DEF SavedInv, PublishedResult, At, Attempt, IsLive, Live
  <2>12. TokenCurrent'
    BY <2>1 DEF TokenCurrent
  <2> QED
    BY <2>6, <2>7, <2>8, <2>9, <2>10, <2>11, <2>12 DEF TranslateInv
<1>6. CASE Returns(p) /\ UNCHANGED task
  BY <1>1, <1>2, <1>6, ReturnsOn, ProcStep
<1> QED
  BY <1>4, <1>5, <1>6 DEF Settle

\* A charge: the task begins its next round, and the request goes on to create its row.
LEMMA ChargeStep ==
    ASSUME TranslateInv, NEW p \in Users, At(p, "idle"),
           task' \in TaskType, task'.status = "pending", task'.job = 0, task'.gen = 0,
           task'.token = 0, task'.charged, ~task'.refunded, task'.round = task.round + 1,
           ~Owing, task.status # "deleted", spent' = spent + 1, task.round < MaxRows,
           NEW u \in ProcType, u.pc = "create", u.gen = 0, u.job = 0,
           proc' = [proc EXCEPT ![p] = u],
           UNCHANGED <<row, remote, files, born, returned, faults>>
    PROVE  TranslateInv'
<1>1. /\ TypeOK /\ row \in [Rows -> RowType] /\ LivePaid /\ MoneyInv /\ BindInv /\ p \in Procs
      /\ spent \in 0..MaxRows /\ returned \in 0..MaxRows
  BY Types DEF TranslateInv, Procs
<1>2. Moves /\ NoneSaved /\ proc' \in [Procs -> ProcType]
  BY <1>1, TakesOn DEF UserPlaces, AtGeneration
<1>3. spent = task.round /\ spent = returned
  BY <1>1 DEF MoneyInv, MoneyKept
<1>4. spent' \in 0..MaxRows
  BY <1>1, <1>3, Bounds
<1>5. TypeOK'
  BY <1>1, <1>2, <1>4, Types, TypesNext
<1>6. TaskMoves /\ RowsKeep /\ GensKeep
  BY DEF TaskMoves, RowsKeep, GensKeep
<1>7. PlaceInv' /\ BindInv' /\ ClaimInv' /\ SavedInv' /\ PublishedResult' /\ TokenCurrent'
  BY <1>2, <1>6, TaskKept
<1>8. Owing'
  BY DEF Owing
<1>9. LivePaid' /\ MoneyInv'
  BY <1>1, <1>3, <1>8 DEF LivePaid, MoneyInv, MoneyKept
<1> QED
  BY <1>5, <1>7, <1>9 DEF TranslateInv

\* The owner confirms, or has the task tried again.
LEMMA ConfirmStep ==
    ASSUME TranslateInv, NEW p \in Users, Confirm(p) \/ Retry(p)
    PROVE  TranslateInv'
<1>1. /\ TypeOK /\ task \in TaskType /\ MoneyInv /\ TokenCurrent /\ BindInv
  BY Types DEF TranslateInv
<1>2. 1 \in 0..MaxRows /\ 0 \in 0..MaxRows /\ 0 < MaxRows
  BY Bounds
<1>3. CASE Confirm(p)
  <2>1. /\ task.round = 0 /\ ~task.charged /\ ~task.refunded /\ task.job = 0 /\ task.gen = 0
        /\ task.token = 0 /\ task.status = "quoted"
    BY <1>1, <1>3 DEF Confirm, MoneyInv, BindInv, TokenCurrent
  <2>2. /\ task' \in TaskType /\ task'.status = "pending" /\ task'.charged /\ task'.round = 1
        /\ task'.job = task.job /\ task'.gen = task.gen /\ task'.token = task.token
        /\ task'.refunded = task.refunded
    BY <1>1, <1>2, <1>3 DEF Confirm, TaskType, Statuses
  <2>3. PICK u : u = [Idle EXCEPT !.pc = "create", !.round = 1]
    OBVIOUS
  <2>4. u \in ProcType /\ u.pc = "create" /\ u.job = 0 /\ u.gen = 0
    BY <1>2, <2>3, Bounds DEF Idle, ProcType, Pcs
  <2>5. /\ proc' = [proc EXCEPT ![p] = u] /\ At(p, "idle") /\ spent' = spent + 1
        /\ UNCHANGED <<row, remote, files, born, returned, faults>>
    BY <1>3, <2>3 DEF Confirm
  <2>6. task'.refunded = FALSE /\ task'.job = 0 /\ task'.gen = 0 /\ task'.token = 0
    BY <1>1, <2>1, <2>2 DEF TaskType
  <2>7. ~Owing /\ task.status # "deleted" /\ task.round < MaxRows /\ task'.round = task.round + 1
    BY <1>2, <2>1, <2>2 DEF Owing
  <2> QED
    BY <2>2, <2>4, <2>5, <2>6, <2>7, ChargeStep
<1>4. CASE Retry(p)
  <2>1. task.status \in Ended /\ ~Owing /\ task.round \in 0..MaxRows /\ task.round < MaxRows
    BY <1>1, <1>4 DEF Retry, Retryable, TaskType
  <2>2. task.round + 1 \in 0..MaxRows
    BY <2>1, Bounds
  <2>3. /\ task' \in TaskType /\ task'.status = "pending" /\ task'.charged /\ ~task'.refunded
        /\ task'.round = task.round + 1 /\ task'.job = 0 /\ task'.gen = 0 /\ task'.token = 0
    BY <1>4, <2>2 DEF Retry, TaskType, Statuses, Paths
  <2>4. PICK u : u = [Idle EXCEPT !.pc = "create", !.round = task.round + 1]
    OBVIOUS
  <2>5. u \in ProcType /\ u.pc = "create" /\ u.job = 0 /\ u.gen = 0
    BY <2>2, <2>4, Bounds DEF Idle, ProcType, Pcs
  <2>6. /\ proc' = [proc EXCEPT ![p] = u] /\ At(p, "idle") /\ spent' = spent + 1
        /\ UNCHANGED <<row, remote, files, born, returned, faults>> /\ task.status # "deleted"
    BY <1>4, <2>1, <2>4 DEF Retry, Ended
  <2> QED
    BY <2>1, <2>3, <2>5, <2>6, ChargeStep
<1> QED
  BY <1>3, <1>4

\* The credential is issued to the task's generation, and its remote job is started.
LEMMA IssueStep ==
    ASSUME TranslateInv, NEW p \in Ticks, Issue(p)
    PROVE  TranslateInv'
<1>1. UNCHANGED <<row, files, born, spent, returned, faults>> /\ p \in Procs /\ At(p, "issue")
  BY DEF Issue, money, Procs
<1>2. /\ TypeOK /\ faults \in 0..MaxFaults /\ task \in TaskType /\ row \in [Rows -> RowType]
      /\ PlaceInv /\ BindInv /\ LivePaid /\ MoneyInv /\ ClaimInv /\ SavedInv /\ PublishedResult
      /\ TokenCurrent /\ remote \subseteq Gens /\ files \subseteq Ticks \X Gens
      /\ born \in Seq(0..MaxRows) /\ Len(born) <= MaxGens
      /\ spent \in 0..MaxRows /\ returned \in 0..MaxRows
  BY Types DEF TranslateInv
<1>3. proc[p].job \in Rows /\ proc[p].gen \in Gens /\ p \notin Users
  BY <1>1, <1>2, TranslateAssumption, Types DEF PlaceInv, At, AtGeneration, ProcType
<1>4. ASSUME NEW again \in BOOLEAN, proc' = [proc EXCEPT ![p].pc = "failRow", ![p].retry = again]
      PROVE  Moves /\ NoneSaved /\ proc' \in [Procs -> ProcType]
  <2>1. PICK v \in ProcType : v = proc[p]
    BY <1>1, <1>2, Types
  <2>2. PICK u : u = [v EXCEPT !.pc = "failRow", !.retry = again]
    OBVIOUS
  <2>3. u \in ProcType /\ u.pc = "failRow" /\ u.job = v.job /\ u.gen = v.gen
    BY <2>2 DEF ProcType, Pcs
  <2>4. proc' = [proc EXCEPT ![p] = u] /\ Claimed(u.job, u.gen)
    BY <1>1, <1>4, <2>1, <2>2, <2>3 DEF Claimed
  <2> QED
    BY <1>1, <1>2, <1>3, <2>1, <2>3, <2>4, Bounds, TakesOn DEF AtGeneration
<1>5. CASE /\ Issuable(proc[p].job, proc[p].gen) /\ Start(p)
           /\ task' = [task EXCEPT !.token = proc[p].gen, !.status = "translating"]
  <2>1. Moves /\ NoneSaved /\ proc' \in [Procs -> ProcType] /\ remote' \subseteq Gens
    <3>1. CASE Returns(p)
      BY <1>1, <1>2, <1>3, <1>5, <3>1, ReturnsOn DEF Start
    <3>2. CASE Go(p, "requeue") /\ UNCHANGED remote
      BY <1>1, <1>2, <1>3, <3>2, GoFits DEF NoneSaved, Alone, Pcs, AtGeneration
    <3>3. CASE /\ proc' = [proc EXCEPT ![p].pc = "failRow", ![p].retry = FALSE]
               /\ UNCHANGED remote
      BY <1>2, <1>4, <3>3
    <3> QED
      BY <1>5, <3>1, <3>2, <3>3 DEF Start
  <2>2. /\ task' \in TaskType /\ task'.status = "translating" /\ task'.job = task.job
        /\ task'.gen = task.gen /\ task'.token = proc[p].gen /\ task'.charged = task.charged
        /\ task'.refunded = task.refunded /\ task'.path = task.path /\ task'.round = task.round
    BY <1>2, <1>3, <1>5 DEF TaskType, Statuses
  <2>3. IsLive /\ task.gen = proc[p].gen /\ task.job = proc[p].job
    BY <1>5 DEF Issuable, Owned
  <2>4. RowsKeep /\ GensKeep
    BY <1>1 DEF RowsKeep, GensKeep
  <2>5. TypeOK'
    BY <1>1, <1>2, <2>1, <2>2, TypesNext
  <2>6. PlaceInv' /\ BindInv'
    BY <1>2, <2>1, <2>2, <2>3, <2>4, PlaceKept, BindKept DEF BindInv, IsLive, Live
  <2>7. ClaimInv'
    BY <1>1, <1>2, <2>1, <2>2, ClaimKept
  <2>8. LivePaid' /\ MoneyInv'
    BY <1>1, <1>2, <2>2, <2>3, MoneyStays DEF IsLive
  <2>9. SavedInv' /\ PublishedResult'
    BY <1>1, <1>2, <2>1, <2>2, <2>3 DEF SavedInv, PublishedResult, At, Attempt, NoneSaved, IsLive, Live
  <2>10. TokenCurrent'
    BY <1>1, <1>2, <2>2, <2>3 DEF TokenCurrent
  <2> QED
    BY <2>5, <2>6, <2>7, <2>8, <2>9, <2>10 DEF TranslateInv
<1>6. CASE /\ proc' = [proc EXCEPT ![p].pc = "failRow", ![p].retry = TRUE]
           /\ UNCHANGED <<task, remote>>
  BY <1>1, <1>2, <1>4, <1>6, ProcStep
<1> QED
  BY <1>5, <1>6 DEF Issue

\* A result is published by the holder of the task's generation.
LEMMA PublishedStep ==
    ASSUME TranslateInv, NEW p \in Ticks, At(p, "publish"), Publishable(p), Published(p),
           NEW pc \in {"close", "readback"}, Go(p, pc),
           UNCHANGED <<row, remote, files, born, spent, returned>>, faults' \in 0..MaxFaults
    PROVE  TranslateInv'
<1>1. p \in Procs /\ p \notin Users
  BY TranslateAssumption DEF Procs
<1>2. /\ TypeOK /\ task \in TaskType /\ row \in [Rows -> RowType]
      /\ PlaceInv /\ BindInv /\ LivePaid /\ MoneyInv /\ ClaimInv /\ SavedInv /\ PublishedResult
      /\ TokenCurrent /\ remote \subseteq Gens /\ files \subseteq Ticks \X Gens
      /\ born \in Seq(0..MaxRows) /\ Len(born) <= MaxGens
      /\ spent \in 0..MaxRows /\ returned \in 0..MaxRows
  BY Types DEF TranslateInv
<1>3. proc[p].job \in Rows /\ proc[p].gen \in Gens
  BY <1>1, <1>2, Types DEF PlaceInv, At, AtGeneration, ProcType
<1>4. IsLive /\ task.job = proc[p].job /\ task.gen = proc[p].gen
  BY DEF Publishable, Owned
<1>5. Moves /\ NoneSaved /\ proc' \in [Procs -> ProcType]
  BY <1>1, <1>2, <1>3, Bounds, GoesOn
<1>6. /\ task' \in TaskType /\ task'.status = "completed" /\ task'.job = task.job
      /\ task'.gen = 0 /\ task'.token = 0 /\ task'.charged = task.charged
      /\ task'.refunded = task.refunded /\ task'.path = Attempt(p) /\ task'.round = task.round
  <2>1. Attempt(p) \in Paths
    BY <1>3 DEF Attempt, Paths
  <2> QED
    BY <1>2, <2>1 DEF Published, TaskType, Statuses
<1>7. RowsKeep /\ GensKeep
  BY DEF RowsKeep, GensKeep
<1>8. TypeOK'
  BY <1>2, <1>5, <1>6, TypesNext
<1>9. PlaceInv' /\ BindInv'
  BY <1>2, <1>4, <1>5, <1>6, <1>7, PlaceKept, BindKept DEF IsLive, Live
<1>10. Attempt(p)[2] = proc[p].gen
  BY DEF Attempt
<1>11. ClaimInv'
  <2>1. Claimed(task.job, task.gen)
    BY DEF Claimed
  <2>2. Claimed(task'.job, task'.path[2])
    BY <1>4, <1>6, <1>10, <2>1
  <2> QED
    BY <1>2, <1>5, <1>6, <2>2, ClaimKept
<1>12. LivePaid' /\ MoneyInv'
  BY <1>2, <1>4, <1>6, MoneyStays DEF IsLive
<1>13. Attempt(p) \in files
  BY <1>1, <1>2, <1>4 DEF SavedInv, IsLive, Live
<1>14. SavedInv' /\ PublishedResult'
  <2>1. born[proc[p].gen] = task.round
    BY <1>2, <1>3, <1>4, Bounds DEF ClaimInv
  <2>2. PublishedResult'
    BY <1>6, <1>10, <1>13, <2>1 DEF PublishedResult
  <2>3. SavedInv'
    BY <1>2, <1>4, <1>5 DEF SavedInv, At, Attempt, NoneSaved, IsLive, Live
  <2> QED
    BY <2>2, <2>3
<1>15. TokenCurrent'
  BY <1>6 DEF TokenCurrent
<1> QED
  BY <1>8, <1>9, <1>11, <1>12, <1>14, <1>15 DEF TranslateInv

\* So the two ends of the statement that publishes it.
LEMMA PublishStep ==
    ASSUME TranslateInv, NEW p \in Ticks, Publish(p) \/ PublishFails(p)
    PROVE  TranslateInv'
<1>1. /\ UNCHANGED <<row, remote, files, born, spent, returned>> /\ At(p, "publish")
      /\ faults' = faults \/ (faults < MaxFaults /\ faults' = faults + 1)
  BY DEF Publish, PublishFails, money
<1>2. p \in Procs /\ p \notin Users
  BY TranslateAssumption DEF Procs
<1>3. TypeOK /\ faults' \in 0..MaxFaults
  <2>1. TypeOK /\ faults \in 0..MaxFaults
    BY Types DEF TranslateInv
  <2> QED
    BY <1>1, <2>1, Bounds
<1>4. Go(p, "close") \/ Go(p, "readback")
  BY DEF Publish, PublishFails
<1>5. CASE Publishable(p) /\ Published(p)
  BY <1>1, <1>3, <1>4, <1>5, PublishedStep
<1>6. CASE UNCHANGED task
  <2>1. proc[p].gen # 0 /\ proc[p].job # 0
    BY <1>1, <1>2 DEF TranslateInv, PlaceInv, At, AtGeneration
  <2>2. Moves /\ NoneSaved /\ proc' \in [Procs -> ProcType]
    BY <1>2, <1>3, <1>4, <2>1, GoesOn
  <2> QED
    BY <1>1, <1>3, <1>6, <2>2, ProcStep
<1> QED
  BY <1>5, <1>6 DEF Publish, PublishFails

\* A row that was created is bound to a task that has none.
LEMMA BindStep ==
    ASSUME TranslateInv, NEW p \in Procs, Bind(p)
    PROVE  TranslateInv'
<1>1. UNCHANGED <<row, remote, files, born, spent, returned, faults>> /\ At(p, "bind")
  BY DEF Bind, money
<1>2. /\ TypeOK /\ faults \in 0..MaxFaults /\ task \in TaskType /\ row \in [Rows -> RowType]
      /\ PlaceInv /\ BindInv /\ LivePaid /\ MoneyInv /\ ClaimInv /\ SavedInv /\ PublishedResult
      /\ TokenCurrent /\ remote \subseteq Gens /\ files \subseteq Ticks \X Gens
      /\ born \in Seq(0..MaxRows) /\ Len(born) <= MaxGens
      /\ spent \in 0..MaxRows /\ returned \in 0..MaxRows /\ proc \in [Procs -> ProcType]
  BY Types DEF TranslateInv
<1>3. CASE Unbound(proc[p].seen) /\ task' = [task EXCEPT !.job = proc[p].job] /\ Returns(p)
  <2>1. /\ proc[p].job \in Rows /\ proc[p].job # 0 /\ row[proc[p].job].status # "absent"
    BY <1>1, <1>2 DEF PlaceInv, At, ProcType
  <2>2. /\ task.status = "pending" /\ task.job = 0 /\ task.gen = 0 /\ task.token = 0
    BY <1>2, <1>3 DEF Unbound, BindInv, TokenCurrent
  <2>3. /\ task' \in TaskType /\ task'.status = task.status /\ task'.job = proc[p].job
        /\ task'.gen = task.gen /\ task'.token = task.token /\ task'.charged = task.charged
        /\ task'.refunded = task.refunded /\ task'.path = task.path /\ task'.round = task.round
    BY <1>2, <1>3, <2>1 DEF TaskType
  <2>4. /\ Moves /\ NoneSaved /\ proc' \in [Procs -> ProcType]
        /\ proc'[p].pc = "idle" /\ \A q \in Procs \ {p} : proc'[q] = proc[q]
    BY <1>2, <1>3, ReturnsOn, ReturnsFacts
  <2>5. TypeOK'
    BY <1>1, <1>2, <2>3, <2>4, TypesNext
  <2>6. RowsKeep /\ GensKeep
    BY <1>1 DEF RowsKeep, GensKeep
  <2>7. PlaceInv'
    BY <1>2, <2>4, <2>6, PlaceKept
  <2>8. BindInv'
    BY <1>1, <1>2, <2>1, <2>2, <2>3, <2>4 DEF BindInv, At
  <2>9. ClaimInv'
    BY <1>1, <1>2, <2>2, <2>3, <2>4, ClaimKept
  <2>10. LivePaid' /\ MoneyInv'
    BY <1>1, <1>2, <2>2, <2>3, MoneyStays
  <2>11. SavedInv' /\ PublishedResult'
    BY <1>1, <1>2, <2>2, <2>3, <2>4 DEF SavedInv, PublishedResult, At, Attempt, NoneSaved
  <2>12. TokenCurrent'
    BY <2>2, <2>3 DEF TokenCurrent
  <2> QED
    BY <2>5, <2>7, <2>8, <2>9, <2>10, <2>11, <2>12 DEF TranslateInv
<1>4. CASE Go(p, "unbind") /\ UNCHANGED task
  <2>1. Moves /\ NoneSaved /\ proc' \in [Procs -> ProcType]
    BY <1>2, <1>4, GoesOn DEF UserPlaces, AtGeneration
  <2> QED
    BY <1>1, <1>2, <1>4, <2>1, ProcStep
<1> QED
  BY <1>3, <1>4 DEF Bind

\* A task is deleted with its files and its rows' generations.
LEMMA DeleteStep ==
    ASSUME TranslateInv, NEW p \in Users, Delete(p)
    PROVE  TranslateInv'
<1>1. UNCHANGED <<remote, proc, born, spent, returned, faults>> /\ p \in Procs
  BY DEF Delete, money, Procs
<1>2. /\ TypeOK /\ faults \in 0..MaxFaults /\ task \in TaskType /\ row \in [Rows -> RowType]
      /\ PlaceInv /\ BindInv /\ LivePaid /\ MoneyInv /\ ClaimInv /\ SavedInv /\ PublishedResult
      /\ remote \subseteq Gens /\ files \subseteq Ticks \X Gens
      /\ born \in Seq(0..MaxRows) /\ Len(born) <= MaxGens
      /\ spent \in 0..MaxRows /\ returned \in 0..MaxRows
  BY Types DEF TranslateInv
<1>3. /\ task' \in TaskType /\ task'.status = "deleted" /\ task'.job = 0 /\ task'.gen = 0
      /\ task'.token = 0 /\ task'.charged = task.charged
      /\ task'.refunded = task.refunded /\ task'.path = task.path /\ task'.round = task.round
  BY <1>2 DEF Delete, TaskType, Statuses
<1>4. /\ row' \in [Rows -> RowType]
      /\ \A j \in Rows : row'[j].gen = 0 /\ row'[j].status = row[j].status
  <2>1. row' = [j \in Rows |-> [row[j] EXCEPT !.gen = 0, !.retryAt = FALSE]]
    BY DEF Delete
  <2>2. ASSUME NEW r \in RowType
        PROVE  LET n == [r EXCEPT !.gen = 0, !.retryAt = FALSE]
               IN  n \in RowType /\ n.gen = 0 /\ n.status = r.status
    BY DEF RowType
  <2> QED
    BY <1>2, <2>1, <2>2
<1>5. files' \subseteq Ticks \X Gens
  BY DEF Delete
<1>6. TypeOK'
  BY <1>1, <1>2, <1>3, <1>4, <1>5, Types, TypesNext
<1>7. RowsKeep /\ Moves
  BY <1>1, <1>4 DEF RowsKeep, Moves
<1>8. PlaceInv' /\ BindInv'
  BY <1>2, <1>3, <1>7, PlaceKept, BindKept
<1>9. ClaimInv'
  BY <1>1, <1>2, <1>3, <1>4, <1>7, ClaimKept
<1>10. Owing => task.path # NoFile
  <2>1. Owing => task.status = "completed"
    BY <1>2 DEF Delete, MoneyInv, Owing
  <2>2. task.status = "completed" => task.path \in Ticks \X Gens
    BY <1>2 DEF PublishedResult
  <2>3. \A c \in Ticks \X Gens : c # NoFile
    BY DEF NoFile
  <2> QED
    BY <2>1, <2>2, <2>3
<1>11. LivePaid' /\ MoneyInv'
  BY <1>1, <1>2, <1>3, <1>10 DEF LivePaid, Live, MoneyInv, MoneyKept, Owing
<1>12. SavedInv' /\ PublishedResult' /\ TokenCurrent'
  BY <1>3 DEF SavedInv, PublishedResult, TokenCurrent
<1> QED
  BY <1>6, <1>8, <1>9, <1>11, <1>12 DEF TranslateInv

\* A claim: the row and the task get a generation that nobody has.
LEMMA ClaimStep ==
    ASSUME TranslateInv, NEW p \in Ticks, Claim(p)
    PROVE  TranslateInv'
<1>1. /\ UNCHANGED <<remote, files, spent, returned, faults>> /\ p \in Procs /\ p \notin Users
      /\ At(p, "idle")
  BY TranslateAssumption DEF Claim, money, Procs
<1>2. /\ TypeOK /\ faults \in 0..MaxFaults /\ task \in TaskType /\ row \in [Rows -> RowType]
      /\ PlaceInv /\ BindInv /\ LivePaid /\ MoneyInv /\ ClaimInv /\ SavedInv /\ PublishedResult
      /\ remote \subseteq Gens /\ files \subseteq Ticks \X Gens
      /\ born \in Seq(0..MaxRows) /\ Len(born) <= MaxGens
      /\ spent \in 0..MaxRows /\ returned \in 0..MaxRows /\ proc \in [Procs -> ProcType]
  BY Types DEF TranslateInv
<1>3. PICK g : g = Len(born) + 1
  OBVIOUS
<1>4. g \in Gens /\ g \in Nat /\ Len(born) < g /\ Len(born) \in Nat /\ g # 0
  BY <1>2, <1>3, Bounds DEF Claim, Gens
<1>5. PICK j \in Rows :
        /\ Claimable(j)
        /\ row' = [row EXCEPT ![j].status = "processing", ![j].gen = g]
        /\ task' = [task EXCEPT !.token = 0, !.gen = g]
        /\ born' = Append(born, task.round)
        /\ proc' = [proc EXCEPT ![p] = [Idle EXCEPT !.pc = "prepare", !.job = j, !.gen = g]]
  BY <1>3 DEF Claim
<1>6. /\ row[j].status = "submitted" /\ IsLive /\ task.job = j /\ task.gen = 0 /\ j # 0
  BY <1>5, Bounds DEF Claimable, Owned
<1>7. /\ task' \in TaskType /\ task'.status = task.status /\ task'.job = j
      /\ task'.gen = g /\ task'.token = 0 /\ task'.charged = task.charged
      /\ task'.refunded = task.refunded /\ task'.path = task.path /\ task'.round = task.round
  BY <1>2, <1>4, <1>5, <1>6 DEF TaskType
<1>8. /\ row' \in [Rows -> RowType] /\ row'[j].status = "processing" /\ row'[j].gen = g
      /\ \A k \in Rows \ {j} : row'[k] = row[k]
  <2>1. PICK r \in RowType : r = row[j]
    BY <1>2
  <2>2. PICK n : n = [r EXCEPT !.status = "processing", !.gen = g]
    OBVIOUS
  <2>3. n \in RowType /\ n.status = "processing" /\ n.gen = g
    BY <1>4, <2>2 DEF RowType, RowStatuses
  <2>4. row' = [row EXCEPT ![j] = n]
    BY <1>5, <2>1, <2>2
  <2> QED
    BY <1>2, <2>3, <2>4
<1>9. PICK u : u = [Idle EXCEPT !.pc = "prepare", !.job = j, !.gen = g]
  OBVIOUS
<1>10. u \in ProcType /\ u.pc = "prepare" /\ u.job = j /\ u.gen = g
  BY <1>4, <1>9, Bounds DEF Idle, ProcType, Pcs
<1>11. proc' \in [Procs -> ProcType] /\ proc'[p] = u /\ \A q \in Procs \ {p} : proc'[q] = proc[q]
  BY <1>1, <1>2, <1>5, <1>9, <1>10, TakesFacts
<1>12. /\ born' \in Seq(0..MaxRows) /\ Len(born') = g /\ born'[g] = task.round
       /\ \A h \in 1..Len(born) : born'[h] = born[h]
  BY <1>2, <1>3, <1>5 DEF TaskType
<1>13. TypeOK'
  <2>1. Len(born') <= MaxGens
    BY <1>4, <1>12, Bounds DEF Gens
  <2> QED
    BY <1>1, <1>2, <1>7, <1>8, <1>11, <1>12, <2>1, TypesNext
<1>14. PlaceInv'
  <2>1. ASSUME NEW q \in Procs, q # p
        PROVE  /\ q \in Users => proc'[q].pc \in UserPlaces
               /\ proc'[q].pc \in AtGeneration => proc'[q].gen # 0 /\ proc'[q].job # 0
               /\ proc'[q].pc \in {"idle", "create", "bind"} => proc'[q].gen = 0
               /\ proc'[q].pc \in {"failRow", "settle", "refund", "bind"} => proc'[q].job # 0
               /\ proc'[q].pc \in {"refund", "bind"} => row'[proc'[q].job].status # "absent"
    <3>1. proc'[q] = proc[q] /\ proc[q].job \in Rows \cup {0}
      BY <1>2, <1>11, <2>1 DEF ProcType
    <3> QED
      BY <1>2, <1>8, <3>1 DEF PlaceInv
  <2> QED
    BY <1>1, <1>4, <1>6, <1>10, <1>11, <2>1 DEF PlaceInv, AtGeneration
<1>15. BindInv'
  BY <1>2, <1>6, <1>7, <1>8, <1>10, <1>11 DEF BindInv, At, IsLive, Live
<1>16. ClaimInv'
  <2>1. ASSUME NEW k \in Rows \cup {0}, NEW h \in Gens, Claimed(k, h)', h # g PROVE Claimed(k, h)
    <3>1. h # 0
      BY Bounds
    <3>2. CASE task'.job = k /\ task'.gen = h
      BY <1>7, <2>1, <3>2
    <3>3. CASE k \in Rows /\ row'[k].gen = h
      BY <1>8, <2>1, <3>3 DEF Claimed
    <3>4. ASSUME NEW q \in Procs, proc'[q].job = k, proc'[q].gen = h PROVE Claimed(k, h)
      BY <1>10, <1>11, <2>1, <3>4 DEF Claimed
    <3>5. CASE task'.status = "completed" /\ task'.job = k /\ task'.path[2] = h
      BY <1>6, <1>7, <3>5 DEF IsLive, Live
    <3> QED
      BY <2>1, <3>2, <3>3, <3>4, <3>5 DEF Claimed
  <2>2. \A k \in Rows \cup {0} : ~Claimed(k, g)
    BY <1>2, <1>4 DEF ClaimInv
  <2>3. ASSUME NEW k \in Rows \cup {0}, Claimed(k, g)' PROVE k = j
    <3>1. CASE task'.job = k /\ task'.gen = g
      BY <1>7, <3>1
    <3>2. CASE k \in Rows /\ row'[k].gen = g
      BY <1>8, <2>2, <3>2 DEF Claimed
    <3>3. ASSUME NEW q \in Procs, proc'[q].job = k, proc'[q].gen = g PROVE k = j
      BY <1>10, <1>11, <2>2, <3>3 DEF Claimed
    <3>4. CASE task'.status = "completed" /\ task'.job = k /\ task'.path[2] = g
      BY <1>6, <1>7, <3>4 DEF IsLive, Live
    <3> QED
      BY <2>3, <3>1, <3>2, <3>3, <3>4 DEF Claimed
  <2>4. ASSUME NEW k \in Rows \cup {0}, NEW h \in Gens, Claimed(k, h)'
        PROVE  h <= Len(born') /\ \A l \in Rows \cup {0} : Claimed(l, h)' => k = l
    <3>1. CASE h = g
      BY <1>4, <1>12, <2>3, <2>4, <3>1
    <3>2. CASE h # g
      <4>1. Claimed(k, h) /\ \A l \in Rows \cup {0} : Claimed(l, h)' => Claimed(l, h)
        BY <2>1, <2>4, <3>2
      <4>2. h <= Len(born) /\ \A l \in Rows \cup {0} : Claimed(l, h) => k = l
        BY <1>2, <4>1 DEF ClaimInv
      <4>3. h \in Nat
        BY Bounds
      <4> QED
        BY <1>4, <1>12, <4>1, <4>2, <4>3
    <3> QED
      BY <3>1, <3>2
  <2>5. born'[task'.gen] = task'.round
    BY <1>7, <1>12
  <2> QED
    BY <2>4, <2>5 DEF ClaimInv
<1>17. LivePaid' /\ MoneyInv'
  BY <1>1, <1>2, <1>6, <1>7, MoneyStays DEF IsLive
<1>18. SavedInv' /\ PublishedResult'
  BY <1>1, <1>2, <1>6, <1>7, <1>10, <1>11 DEF SavedInv, PublishedResult, At, Attempt, IsLive, Live
<1>19. TokenCurrent'
  BY <1>7, <1>8 DEF TokenCurrent
<1> QED
  BY <1>13, <1>14, <1>15, <1>16, <1>17, <1>18, <1>19 DEF TranslateInv

----------------------------------------------------------------------------
\* The first state: a quoted task, no rows, every process at rest.
LEMMA InitHolds ==
    ASSUME Init
    PROVE  TranslateInv
<1>1. /\ task \in TaskType /\ row \in [Rows -> RowType] /\ proc \in [Procs -> ProcType]
      /\ remote \subseteq Gens /\ files \subseteq Ticks \X Gens
      /\ born \in Seq(0..MaxRows) /\ Len(born) <= MaxGens
      /\ spent \in 0..MaxRows /\ returned \in 0..MaxRows /\ faults \in 0..MaxFaults
  <2>1. /\ 0 \in 0..MaxRows /\ 0 \in 0..MaxFaults /\ 1 \in 1..MaxAttempts /\ 0 <= MaxGens
    BY Bounds
  <2>2. task \in TaskType
    BY <2>1 DEF Init, TaskType, Statuses, Paths
  <2>3. row \in [Rows -> RowType]
    BY <2>1 DEF Init, RowType, RowStatuses
  <2>4. proc \in [Procs -> ProcType]
    BY Bounds DEF Init
  <2> QED
    BY <2>1, <2>2, <2>3, <2>4 DEF Init
<1>2. TypeOK
  BY <1>1, Types
<1>3. \A p \in Procs : proc[p].pc = "idle" /\ proc[p].gen = 0
  BY Bounds DEF Init
<1>4. PlaceInv /\ SavedInv
  BY <1>3 DEF PlaceInv, SavedInv, At, UserPlaces, AtGeneration
<1>5. BindInv /\ LivePaid /\ MoneyInv /\ PublishedResult /\ TokenCurrent
  BY <1>3 DEF Init, BindInv, LivePaid, Live, MoneyInv, MoneyKept, Owing, PublishedResult, TokenCurrent, At
<1>6. ClaimInv
  <2>1. task.gen = 0 /\ task.status = "quoted" /\ \A j \in Rows : row[j].gen = 0
    BY DEF Init
  <2>2. \A j \in Rows \cup {0}, g \in Gens : ~Claimed(j, g)
    BY <1>3, <2>1, Bounds DEF Claimed
  <2> QED
    BY <2>1, <2>2 DEF ClaimInv
<1> QED
  BY <1>2, <1>4, <1>5, <1>6 DEF TranslateInv

\* Every step keeps the invariant.
LEMMA TranslateStep ==
    ASSUME TranslateInv, [Next]_vars
    PROVE  TranslateInv'
<1>1. \A p \in Users \cup Ticks : p \in Procs
  BY DEF Procs
<1>2. ASSUME NEW p \in Procs, Enqueue(p) \/ Abandon(p) PROVE TranslateInv'
  BY <1>2, RestfulStep, CreateStep, BindStep DEF Enqueue, Restful
<1>3. ASSUME NEW p \in Users, Request(p) PROVE TranslateInv'
  BY <1>1, <1>3, RestfulStep, ConfirmStep, RefundEndedStep, GiveUpStep, RepayStep, CancelStep,
     CancelRefundStep, DeleteStep DEF Request, Restful
<1>4. ASSUME NEW p \in Ticks, Dispatch(p) \/ Reconcile(p) PROVE TranslateInv'
  BY <1>4, RestfulStep, ClaimStep, IssueStep, RequeueStep DEF Dispatch, Reconcile, Restful
<1>5. ASSUME NEW p \in Ticks, Harvest(p) \/ Fail(p) PROVE TranslateInv'
  BY <1>5, RestfulStep, HarvestStep, PublishStep, SettleStep, RefundFailedStep
     DEF Harvest, Fail, Restful
<1>6. ASSUME NEW p \in Ticks, Heal(p) PROVE TranslateInv'
  BY <1>6, RestfulStep DEF Heal, Restful
<1>7. Reclaim => TranslateInv'
  BY RestfulStep DEF Restful
<1>8. ASSUME UNCHANGED vars PROVE TranslateInv'
  <2>1. UNCHANGED <<task, row, remote, files, born, spent, returned, faults>> /\ proc' = proc
    BY <1>8 DEF vars
  <2>2. TypeOK /\ faults \in 0..MaxFaults
    BY Types DEF TranslateInv
  <2> QED
    BY <2>1, <2>2, ProcStays, ProcStep
<1> QED
  BY <1>2, <1>3, <1>4, <1>5, <1>6, <1>7, <1>8 DEF Next

\* The invariant holds of every behaviour.
THEOREM TranslateHolds == Spec => []TranslateInv
<1>1. Init => TranslateInv
  BY InitHolds
<1>2. TranslateInv /\ [Next]_vars => TranslateInv'
  BY TranslateStep
<1> QED
  BY <1>1, <1>2, PTL DEF Spec

\* Every variable keeps its type.
THEOREM TranslateTyped == Spec => []TypeOK
<1>1. TranslateInv => TypeOK
  BY DEF TranslateInv
<1> QED
  BY <1>1, TranslateHolds, PTL

\* A task that is under way or complete is paid for by a charge that nobody gives back,
\* however late a tick or a request of an earlier round comes with its refund.
THEOREM LiveTaskPaid == Spec => []LivePaid
<1>1. TranslateInv => LivePaid
  BY DEF TranslateInv
<1> QED
  BY <1>1, TranslateHolds, PTL

\* The wallet: every charge but the one that stands was returned once, and no task is
\* deleted that stands charged for nothing.
THEOREM WalletKept == Spec => []MoneyKept
<1>1. TranslateInv => MoneyKept
  BY DEF TranslateInv, MoneyInv
<1> QED
  BY <1>1, TranslateHolds, PTL

\* The result a complete task names exists and was made in the round it was charged for,
\* whatever harvests of an older generation delete.
THEOREM ResultKept == Spec => []PublishedResult
<1>1. TranslateInv => PublishedResult
  BY DEF TranslateInv
<1> QED
  BY <1>1, TranslateHolds, PTL

\* The credential out for a task is that of its generation, which its row is in the hands of.
THEOREM CredentialCurrent == Spec => []TokenCurrent
<1>1. TranslateInv => TokenCurrent
  BY DEF TranslateInv
<1> QED
  BY <1>1, TranslateHolds, PTL

=============================================================================
