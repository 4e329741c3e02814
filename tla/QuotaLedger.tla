---------------------------- MODULE QuotaLedger ----------------------------
(***************************************************************************)
(* The minutes ledger of one non-administrator user of LectureLive         *)
(* (src/lib/quota.ts and its callers): the User row's monthly counter,      *)
(* its window and its purchased pool, and the reservations that are part   *)
(* of that counter: one column per Session and kind (asynchronous upload,  *)
(* full transcription) and one row per Soniox stream grant.                *)
(*                                                                         *)
(* A database transaction is a Begin step, at which it reads the clock,    *)
(* takes the locks it holds from then on and makes its non-locking reads,  *)
(* and a Commit step, at which its writes become visible.  A transaction   *)
(* that would wait for a row it can never get is a deadlock victim: Abort. *)
(* The monthly cron is not a transaction: each statement commits alone.    *)
(***************************************************************************)
EXTENDS Naturals, FiniteSets

CONSTANTS
    AsyncSlots,     \* Session.asyncReservedMinutes columns
    FullSlots,      \* Session.fullReservedMinutes columns
    Grants,         \* SonioxStreamGrant rows that can be minted
    NoTx,           \* nobody holds the User row
    Limits,         \* values of User.transcriptionMinutesLimit
    MaxPool,        \* bound: purchasedMinutesBalance
    MaxMonth,       \* bound: the clock, in quota months
    MaxReserve,     \* bound: minutes of one reservation
    MaxCharge,      \* bound: minutes of one charge
    MaxUsed,        \* bound: a charge may not push the counter past this
    MaxCrashes,     \* bound: how often the cron dies half way
    Straddle        \* may a month begin while a request transaction runs?

Slots == AsyncSlots \cup FullSlots
Holders == Slots \cup Grants

ASSUME HoldersAssumption ==
    /\ IsFiniteSet(AsyncSlots) /\ IsFiniteSet(FullSlots) /\ IsFiniteSet(Grants)
    /\ AsyncSlots \cap FullSlots = {} /\ Slots \cap Grants = {}
    /\ NoTx \notin Holders
ASSUME BoundsAssumption ==
    /\ Limits \subseteq Nat /\ Limits # {}
    /\ {MaxPool, MaxMonth, MaxReserve, MaxCharge, MaxUsed, MaxCrashes} \subseteq Nat
    /\ Straddle \in BOOLEAN

VARIABLES
    now,        \* the clock: month number now holds [now, now + 1)
    used,       \* User.transcriptionMinutesUsed
    limit,      \* User.transcriptionMinutesLimit
    pool,       \* User.purchasedMinutesBalance (gross)
    resetAt,    \* User.quotaResetAt
    reserved,   \* minutes registered on each column, on each unsettled grant
    grant,      \* each grant row: "none", "open" (settledAt null), "settled"
    ledger,     \* TranscriptionCharge minutes, by the month of chargedAt
    lock,       \* transaction that holds the User row FOR UPDATE
    tx,         \* the transaction running on each holder's row
    cron,       \* resetExpiredTranscriptionQuotas: its clock, where it is
    held,       \* ghost: minutes of each holder that are inside `used` now
    charged     \* ghost: minutes deducted since `used` was last zeroed

userRow == <<used, limit, pool, resetAt>>
vars == <<now, userRow, reserved, grant, ledger, lock, tx, cron, held, charged>>

----------------------------------------------------------------------------
Unclamped(a, b) == a - b                        \* slip: GREATEST(0, _) forgotten
Monus(a, b) == IF a > b THEN a - b ELSE 0      \* GREATEST(0, a - b)
AtMost(a, b) == IF a < b THEN a ELSE b
Nothing == [h \in Holders |-> 0]
\* The sum of a per-holder amount: SUM(...) over the user's rows.
Minutes(f) == Cardinality(UNION {{h} \X (1 .. f[h]) : h \in Holders})

Idle == [op |-> "idle", at |-> 0, expired |-> FALSE, owed |-> 0]
Running(op, expired, owed) ==
    [op |-> op, at |-> now, expired |-> expired, owed |-> owed]
CronIdle(crashes) ==
    [pc |-> "idle", at |-> 0, owed |-> 0, bulk |-> FALSE, crashes |-> crashes]

\* Pool minutes the closing window has consumed, were `used` equal to u.
PoolOwed(u) == Monus(Monus(u, Minutes(reserved)), limit)
OwedByHolder(u) == IF pool > 0 THEN PoolOwed(u) ELSE 0

\* Slip: the window rolls over and its reservations stay registered.
KeepColumns(at, expired, u, owed) ==
    LET won == expired /\ resetAt <= at
    IN  [used |-> IF won THEN 0 ELSE u,
         resetAt |-> IF won THEN at + 1 ELSE resetAt,
         pool |-> IF won THEN Monus(pool, owed) ELSE pool,
         reserved |-> reserved,
         held |-> IF won THEN Nothing ELSE held,
         charged |-> IF won THEN 0 ELSE charged]

\* What ensureQuotaWindow leaves inside a transaction with clock `at`: it saw the
\* window expired or not, clears every column if so, and zeroes the counter only
\* if the window it finds when it writes has expired too.
EnsureQuotaWindow(at, expired, u, owed) ==
    LET won == expired /\ resetAt <= at
    IN  [used |-> IF won THEN 0 ELSE u,
         resetAt |-> IF won THEN at + 1 ELSE resetAt,
         pool |-> IF won THEN Monus(pool, owed) ELSE pool,
         reserved |-> IF expired THEN Nothing ELSE reserved,
         held |-> IF won THEN Nothing ELSE held,
         charged |-> IF won THEN 0 ELSE charged]

\* The same under the User lock, where the row read is the row written.
EnsureLocked(at, u) == EnsureQuotaWindow(at, resetAt <= at, u, OwedByHolder(u))

SetWindow(w) == resetAt' = w.resetAt /\ pool' = w.pool
\* A running transaction holds its Session row from its first statement; a grant
\* row exists for others only once it is minted, and a finalizer then holds it.
RowLocked(h) == IF h \in Grants THEN tx[h].op = "charge" ELSE tx[h].op # "idle"
RowsFree(S) == \A h \in S : ~RowLocked(h)
Quiet == \A h \in Holders : tx[h].op = "idle"
Finish(h) == /\ tx' = [tx EXCEPT ![h] = Idle]
             /\ lock' = IF lock = h THEN NoTx ELSE lock

----------------------------------------------------------------------------
Init ==
    /\ now = 0 /\ resetAt = 1
    /\ used = 0 /\ limit \in Limits /\ pool \in 0 .. MaxPool
    /\ reserved = Nothing /\ held = Nothing /\ charged = 0
    /\ grant = [g \in Grants |-> "none"]
    /\ ledger = [m \in 0 .. MaxMonth |-> 0]
    /\ lock = NoTx
    /\ tx = [h \in Holders |-> Idle]
    /\ cron = CronIdle(0)

Tick ==
    /\ now < MaxMonth
    /\ Straddle \/ Quiet
    /\ now' = now + 1
    /\ UNCHANGED <<userRow, reserved, grant, ledger, lock, tx, cron, held, charged>>

\* The first statements of init, registerFullTranscribeReservation, the top-up
\* and the mint: Session row, then User row FOR UPDATE, then the clock.
BeginReserve(h, op) ==
    /\ tx[h].op = "idle" /\ lock = NoTx
    /\ tx' = [tx EXCEPT ![h] = Running(op, FALSE, 0)]
    /\ lock' = h
    /\ UNCHANGED <<now, userRow, reserved, grant, ledger, cron, held, charged>>

BeginInit(s) == s \in AsyncSlots /\ BeginReserve(s, "init")
BeginTopUp(s) == s \in AsyncSlots /\ BeginReserve(s, "topup")
BeginRegister(s) == s \in FullSlots /\ reserved[s] = 0 /\ BeginReserve(s, "register")
BeginMint(g) == g \in Grants /\ grant[g] = "none" /\ BeginReserve(g, "mint")

\* Slip: a refused init answers instead of throwing, and its work commits.
RefuseAndCommit(s, w) ==
    /\ used' = w.used /\ SetWindow(w) /\ UNCHANGED limit
    /\ reserved' = w.reserved /\ held' = w.held /\ charged' = w.charged
    /\ Finish(s)
    /\ UNCHANGED <<now, grant, ledger, cron>>

\* The reservation is refused: an init rolls back, so that the column it was to
\* replace survives; the others commit the window correction they have made.
RefuseReserve(s, w) ==
    /\ IF tx[s].op = "init"
       THEN UNCHANGED <<userRow, reserved, held, charged>>
       ELSE /\ used' = w.used /\ SetWindow(w) /\ UNCHANGED limit
            /\ reserved' = w.reserved /\ held' = w.held /\ charged' = w.charged
    /\ Finish(s)
    /\ UNCHANGED <<now, grant, ledger, cron>>

\* The commit of a column's reservation of want minutes.  An init first releases
\* the column it replaces; a top-up asks for what the column lacks.
CommitReserve(s) == \E want \in 1 .. MaxReserve :
    LET t == tx[s]
        prior == IF t.op = "init" THEN reserved[s] ELSE 0
        need == IF t.op = "topup" THEN Monus(want, reserved[s]) ELSE want
        w == EnsureLocked(t.at, Monus(used, prior))
        kept == IF t.op = "topup" THEN w.reserved[s] ELSE 0
    IN  /\ t.op \in {"init", "topup", "register"}
        /\ need > 0
        /\ resetAt <= t.at => RowsFree(Holders \ {s})
        /\ IF w.used + need <= limit + w.pool
           THEN /\ used' = w.used + need
                /\ SetWindow(w) /\ UNCHANGED limit
                /\ reserved' = [w.reserved EXCEPT ![s] = kept + need]
                /\ held' = [w.held EXCEPT ![s] = Monus(@, prior) + need]
                /\ charged' = w.charged
                /\ Finish(s)
                /\ UNCHANGED <<now, grant, ledger, cron>>
           ELSE RefuseReserve(s, w)

\* createStreamGrantWithReservation: shrink to what is left (and further, to the
\* allowance of the session), then insert the row.
CommitMint(g) ==
    LET w == EnsureLocked(tx[g].at, used)
        left == AtMost(MaxReserve, Monus(limit + w.pool, w.used))
    IN  /\ tx[g].op = "mint"
        /\ resetAt <= tx[g].at => RowsFree(Holders \ {g})
        /\ IF left > 0
           THEN \E m \in 1 .. left :
                /\ used' = w.used + m
                /\ SetWindow(w) /\ UNCHANGED limit
                /\ reserved' = [w.reserved EXCEPT ![g] = m]
                /\ held' = [w.held EXCEPT ![g] = m]
                /\ grant' = [grant EXCEPT ![g] = "open"]
                /\ charged' = w.charged
                /\ Finish(g)
                /\ UNCHANGED <<now, ledger, cron>>
           ELSE RefuseReserve(g, w)

\* Slip: a grant without minutes (a reset took them) is taken for a settled one.
ReleaseHolding(h) ==
    /\ tx[h].op = "idle" /\ lock = NoTx /\ reserved[h] > 0
    /\ used' = Monus(used, reserved[h])
    /\ reserved' = [reserved EXCEPT ![h] = 0]
    /\ held' = [held EXCEPT ![h] = Monus(@, reserved[h])]
    /\ grant' = [g \in Grants |-> IF g = h THEN "settled" ELSE grant[g]]
    /\ UNCHANGED <<now, limit, pool, resetAt, ledger, lock, tx, cron, charged>>

\* settleReservation alone (failed, cancelled, deleted or orphaned upload), the
\* release of a full transcription's claim, and the release of a grant that was
\* never used: the column is read and zeroed under its row lock.
Release(h) ==
    /\ tx[h].op = "idle" /\ lock = NoTx
    /\ IF h \in Grants THEN grant[h] = "open" ELSE reserved[h] > 0
    /\ used' = Monus(used, reserved[h])
    /\ reserved' = [reserved EXCEPT ![h] = 0]
    /\ held' = [held EXCEPT ![h] = Monus(@, reserved[h])]
    /\ grant' = [g \in Grants |-> IF g = h THEN "settled" ELSE grant[g]]
    /\ UNCHANGED <<now, limit, pool, resetAt, ledger, lock, tx, cron, charged>>

\* A finalizer: compare-and-set on its own row, then (after the release, which
\* locks the User row, for a grant that still reserves minutes) the non-locking
\* reads of deductTranscriptionMinutes.
BeginCharge(h) ==
    /\ tx[h].op = "idle"
    /\ h \in Grants => grant[h] = "open"
    /\ h \in Grants /\ reserved[h] > 0 => lock = NoTx
    /\ lock' = IF h \in Grants /\ reserved[h] > 0 THEN h ELSE lock
    /\ tx' = [tx EXCEPT ![h] = Running("charge", resetAt <= now, OwedByHolder(used))]
    /\ UNCHANGED <<now, userRow, reserved, grant, ledger, cron, held, charged>>

\* Deduct m minutes and settle h's own reservation, whose current value is read
\* under its row lock: after the deduction for a column, before it for a grant.
CommitCharge(h) == \E m \in 1 .. MaxCharge :
    LET t == tx[h]
        w == EnsureQuotaWindow(t.at, t.expired, used, t.owed)
        freed == w.reserved[h]
    IN  /\ t.op = "charge"
        /\ lock \in {NoTx, h}
        /\ t.expired => RowsFree(Holders \ {h})
        /\ used + m <= MaxUsed
        /\ used' = IF h \in Grants THEN Monus(w.used, freed) + m
                                   ELSE Monus(w.used + m, freed)
        /\ SetWindow(w) /\ UNCHANGED limit
        /\ reserved' = [w.reserved EXCEPT ![h] = 0]
        /\ held' = [w.held EXCEPT ![h] = Monus(@, freed)]
        /\ charged' = w.charged + m
        /\ ledger' = [ledger EXCEPT ![t.at] = @ + m]
        /\ grant' = [g \in Grants |-> IF g = h THEN "settled" ELSE grant[g]]
        /\ Finish(h)
        /\ UNCHANGED <<now, cron>>

\* Rolled back: deadlock victim, timeout, lost compare-and-set, account on hold,
\* too many streams, session duration reached, client or server gone.
Abort(h) ==
    /\ tx[h].op # "idle"
    /\ Finish(h)
    /\ UNCHANGED <<now, userRow, reserved, grant, ledger, cron, held, charged>>

\* ensureQuotaWindow called outside a transaction (any read of the quota): it
\* finds the window expired, locks the User row and looks again.
EnsureTopLevel ==
    /\ lock = NoTx /\ resetAt <= now
    /\ RowsFree(Holders)
    /\ LET w == EnsureLocked(now, used)
       IN  /\ used' = w.used /\ SetWindow(w) /\ UNCHANGED limit
           /\ reserved' = w.reserved /\ held' = w.held /\ charged' = w.charged
    /\ UNCHANGED <<now, grant, ledger, lock, tx, cron>>

----------------------------------------------------------------------------
\* Slip: the bulk pass alone, also for the holders of a pool.
CronStartBulk ==
    /\ cron.pc = "idle" /\ resetAt <= now
    /\ cron' = [cron EXCEPT !.pc = "find", !.at = now, !.owed = 0, !.bulk = FALSE]
    /\ UNCHANGED <<now, userRow, reserved, grant, ledger, lock, tx, held, charged>>

\* resetExpiredTranscriptionQuotas.  A run that finds the window open does
\* nothing, then or later: the window only moves forward.
CronStart ==
    /\ cron.pc = "idle" /\ resetAt <= now
    /\ cron' = [cron EXCEPT !.pc = IF pool > 0 THEN "owed" ELSE "find",
                            !.at = now, !.owed = 0, !.bulk = FALSE]
    /\ UNCHANGED <<now, userRow, reserved, grant, ledger, lock, tx, held, charged>>

CronOwed ==
    /\ cron.pc = "owed"
    /\ cron' = [cron EXCEPT !.pc = "slots", !.owed = PoolOwed(used)]
    /\ UNCHANGED <<now, userRow, reserved, grant, ledger, lock, tx, held, charged>>

\* Slip: the grants' reservations are forgotten.
SkipGrants ==
    /\ cron.pc = "grants" /\ cron' = [cron EXCEPT !.pc = "update"]
    /\ UNCHANGED <<now, userRow, reserved, grant, ledger, lock, tx, held, charged>>

CronClearSlots ==
    /\ cron.pc = "slots" /\ RowsFree(Slots)
    /\ reserved' = [h \in Holders |-> IF h \in Slots THEN 0 ELSE reserved[h]]
    /\ cron' = [cron EXCEPT !.pc = "grants"]
    /\ UNCHANGED <<now, userRow, grant, ledger, lock, tx, held, charged>>

CronClearGrants ==
    /\ cron.pc = "grants" /\ RowsFree(Grants)
    /\ reserved' = [h \in Holders |-> IF h \in Grants THEN 0 ELSE reserved[h]]
    /\ cron' = [cron EXCEPT !.pc = "update"]
    /\ UNCHANGED <<now, userRow, grant, ledger, lock, tx, held, charged>>

\* UPDATE User ... WHERE quotaResetAt <= now, per pool holder or in bulk.
CronUpdate ==
    /\ cron.pc = "update" /\ lock = NoTx
    /\ IF resetAt <= cron.at
       THEN /\ used' = 0 /\ resetAt' = cron.at + 1
            /\ pool' = Monus(pool, cron.owed)
            /\ held' = Nothing /\ charged' = 0
       ELSE UNCHANGED <<used, resetAt, pool, held, charged>>
    /\ cron' = IF cron.bulk THEN CronIdle(cron.crashes) ELSE [cron EXCEPT !.pc = "find"]
    /\ UNCHANGED <<now, limit, reserved, grant, ledger, lock, tx>>

\* Slip: no second pass.
CronFindNobody ==
    /\ cron.pc = "find"
    /\ cron' = CronIdle(cron.crashes)
    /\ UNCHANGED <<now, userRow, reserved, grant, ledger, lock, tx, held, charged>>

\* The second pass: whoever is still expired, as users without a pool are.
CronFind ==
    /\ cron.pc = "find"
    /\ cron' = IF resetAt <= cron.at
               THEN [cron EXCEPT !.pc = "slots", !.owed = 0, !.bulk = TRUE]
               ELSE CronIdle(cron.crashes)
    /\ UNCHANGED <<now, userRow, reserved, grant, ledger, lock, tx, held, charged>>

\* The process dies, or a statement throws, between two statements.
CronCrash ==
    /\ cron.pc # "idle" /\ cron.crashes < MaxCrashes
    /\ cron' = CronIdle(cron.crashes + 1)
    /\ UNCHANGED <<now, userRow, reserved, grant, ledger, lock, tx, held, charged>>

----------------------------------------------------------------------------
Request(h) ==
    \/ BeginInit(h) \/ BeginTopUp(h) \/ BeginRegister(h) \/ BeginMint(h)
    \/ CommitReserve(h) \/ (h \in Grants /\ CommitMint(h))
    \/ Release(h) \/ BeginCharge(h) \/ CommitCharge(h) \/ Abort(h)

Cron == \/ CronStart \/ CronOwed \/ CronClearSlots \/ CronClearGrants
        \/ CronUpdate \/ CronFind \/ CronCrash

Next == Tick \/ EnsureTopLevel \/ Cron \/ \E h \in Holders : Request(h)

Spec == Init /\ [][Next]_vars

\* The maintenance timer keeps running, a transaction ends, and the usage cron
\* settles what is open.  The requests of one user pause now and then, which lets
\* whoever waits for his rows have them (the strong fairness).
Fairness ==
    /\ WF_vars(CronStart) /\ WF_vars(CronOwed) /\ WF_vars(CronFind)
    /\ SF_vars(CronClearSlots) /\ SF_vars(CronClearGrants) /\ SF_vars(CronUpdate)
    /\ \A h \in Holders : WF_vars(Abort(h))
    /\ \A g \in Grants : SF_vars(Release(g))
    /\ []<>Quiet

FairSpec == Spec /\ Fairness

----------------------------------------------------------------------------
\* Every variable has its type.
TxType == [op : {"idle", "init", "topup", "register", "mint", "charge"},
           at : 0 .. MaxMonth, expired : BOOLEAN, owed : Nat]
CronType == [pc : {"idle", "owed", "slots", "grants", "update", "find"},
             at : 0 .. MaxMonth, owed : Nat, bulk : BOOLEAN, crashes : 0 .. MaxCrashes]
TypeOK ==
    /\ now \in 0 .. MaxMonth /\ resetAt \in 1 .. MaxMonth + 1
    /\ used \in Nat /\ limit \in Nat /\ pool \in Nat
    /\ reserved \in [Holders -> Nat] /\ held \in [Holders -> Nat] /\ charged \in Nat
    /\ grant \in [Grants -> {"none", "open", "settled"}]
    /\ ledger \in [0 .. MaxMonth -> Nat]
    /\ lock \in Holders \cup {NoTx}
    /\ tx \in [Holders -> TxType]
    /\ cron \in CronType

\* Whatever a settlement will release is still part of the counter it will be
\* released from: no reservation outlives the zeroing of `used`, so none is given
\* back twice, as free minutes of a later window (quota.ts, "B1" and "#8").
ReservationsBacked == \A h \in Holders : reserved[h] <= held[h]

\* Why ReservationsBacked holds when no month begins inside a transaction: each
\* running transaction has read the current month, the cron has not read a later
\* one, and once the cron has cleared the columns of an expired window every
\* transaction that could fill one of them again first rolls that window over.
TxsReadThisMonth == \A h \in Holders : tx[h].op # "idle" => tx[h].at = now
CronReadsNoFuture == cron.pc # "idle" => cron.at <= now
ClearedStaysClear ==
    resetAt <= cron.at =>
        /\ cron.pc \in {"grants", "update"} => \A s \in Slots : reserved[s] = 0
        /\ cron.pc = "update" => \A g \in Grants : reserved[g] = 0
BackedInv == /\ TypeOK /\ TxsReadThisMonth /\ CronReadsNoFuture
             /\ ClearedStaysClear /\ ReservationsBacked

\* The charges the reconciliation finds in the current cycle.
Recorded == Cardinality(UNION {{m} \X (1 .. ledger[m]) : m \in resetAt - 1 .. MaxMonth})

\* The counter never falls below what the charge ledger and the live reservations
\* account for: drift is never in the user's favour (quota.ts, drift = recorded - used).
NoFreeMinutes == used >= Recorded + Minutes(reserved)

\* The counter is exactly what was deducted in this window plus what is held.
CounterExplained == used = charged + Minutes(held)

\* A window that closes for a pool holder settles at least the minutes that were
\* really deducted beyond the free limit, whichever path closes it.  The init that
\* replaces a reservation is the exception InitSettlesPool is about.
ReplacesColumn == \E s \in AsyncSlots :
    tx[s].op = "init" /\ tx'[s].op = "idle" /\ reserved[s] > 0
Settled == pool' <= Monus(pool, Monus(charged, limit))
PoolNeverUndersettled ==
    [][resetAt' # resetAt /\ pool > 0 /\ ~ReplacesColumn => Settled]_vars

\* The same without the exception: what "L15" of quota.ts asks of every path.
InitSettlesPool == [][resetAt' # resetAt /\ pool > 0 => Settled]_vars

\* An expired window is always rolled over, however requests and crashes meet the
\* cron: the second pass takes whoever the first has left.
WindowRollsOver == (resetAt <= now) ~> (resetAt > now)

\* A minted grant is settled in the end, also when a new month has already emptied
\* its reservation: what it streamed must still be charged or written off.
OpenGrantSettles ==
    \A g \in Grants : (grant[g] = "open") ~> (grant[g] = "settled")
============================================================================
