# LectureLive: TLA+ models, model checking and proofs

LectureLive is a Next.js application for recording lectures, transcribing them
(live through a browser's stream to Soniox, or later from an uploaded file),
translating, summarising and sharing them.  It is one Node process (web
requests, timers, in-process background jobs) in front of MySQL (Prisma), Redis,
an object store (Cloudreve or local disk) and external services (Soniox, LLM
providers, payment providers, a translation worker).  What makes it hard is that
money-like state - minutes, tokens, balances, storage - is changed by requests,
timers and callbacks that interleave, die half way and are retried.

The models are written from the source under `src/` of the repository (the
paths below are relative to the repository, e.g. `src/lib/quota.ts`).  Every
definition that stands for code is listed in `PROJECT.json`, under `map`, with
the lines it stands for.

## 1. Inventory

| Component | State | Operations | Interacts with |
|---|---|---|---|
| **Quota ledger**: `src/lib/quota.ts`, `billing.ts`, `soniox/streamGrant.ts`, `billingMaintenance.ts` | `User.transcriptionMinutesUsed/Limit`, `purchasedMinutesBalance`, `quotaResetAt`; `Session.asyncReservedMinutes/fullReservedMinutes`; `SonioxStreamGrant`; `TranscriptionCharge` | reserve, reserve-up-to, release, settle, deduct, window reset (in a transaction, on top of one, or by the monthly cron), limit change, purchase, reconciliation repair | every component that transcribes; payments; administrator |
| **Asynchronous upload**: `audio/asyncUploadProcessor.ts`, `asyncTranscribeFinalize.ts`, `asyncUploadChunkPersistence.ts`, `api/sessions/[id]/async-upload/*` | `Session.asyncTranscribeStatus/JobId/FileId`, chunks on disk, upload state | init, chunk, complete, process, poll, finalize, cancel, recover | quota ledger, job queue, Soniox files, storage |
| **Full transcription**: `audio/fullTranscribe*.ts` | `Session.fullTranscribeStatus/ClaimId`, heartbeat | claim, register, process, finalize, fail, reclaim | quota ledger, job queue |
| **Realtime sessions**: `sessionFinalization.ts`, `sessionPersistence.ts`, `sessionDraftLock.ts`, `*DraftPersistence.ts` | `Session.status`, finalize claim, drafts on disk, artifacts | create, pause, draft flush, finalize, auto-finalize, recover | quota ledger, storage, live share |
| **Interpretation and stream usage**: `interpret/session.ts`, `soniox/usageReconciliation.ts` | grants, provider usage log cursor | start, deduct, settle, reconcile with the provider's log | quota ledger |
| **Job queue and admission**: `jobQueue.ts`, `llm/resourceBudget.ts`, `translate/llmProxyAdmission.ts`, the LLM proxy route | `JobQueue` rows: status, active key, reserved and actual units, scope, owner, resource | claim with budgets, settle, retry, reclaim | document translation, LLM gateway, embeddings, audio enhancement, summaries |
| **Document translation**: `translate/translateProcessor.ts`, `workerClient.ts`, `taskApi.ts` | `TranslationTask` status, worker task id, generation, proxy credential, token meter | create, start, poll, retry, cancel, finish, clean up | job queue, quota (pages/tokens), external worker |
| **Payments and wallet**: `wallet.ts`, `payment/*`, `api/wallet/*` | orders, entries of the wallet and funding ledgers, webhook inbox, refunds, disputes, account holds | create order, redirect/webhook, fulfil, refund, chargeback, review, expire | quota ledger (minutes, limits), e-mail |
| **Authentication**: `auth.ts`, `authTokenFamilyMaintenance.ts`, `api/auth/*`; in the browser `clientAuthCookieMutation.ts`, `authStore.ts`, `AuthSessionMonitor.tsx` | token families and generations, revocation, JWTs; the cookie, the account of each tab, pending revocations | login, refresh with rotation and reuse detection, change of password, logout, purge | every request, live share sockets |
| **Live share**: `liveShare/*`, `server/websocket.ts` | per-link publisher lease, segment buffers, viewers, snapshots | join, publish, snapshot chunks, back-pressure, revoke | sessions, authentication |
| **Stored artifacts**: `storage/*` | ledger rows `STAGED/ACTIVE/DELETING`, user's bytes | stage, publish, replace, delete, sweep | sessions, chat, translation |
| **LLM gateway and chat**: `llm/*`, `api/llm/*` | conversations, attachments, token meters | chat, summarise, titles, embeddings | job queue, stored artifacts |
| **Audio enhancement**: `audio/enhanceProcessor.ts`, `worker/` | task state, worker lease | submit, poll, publish | job queue, stored artifacts |
| **Browser**: `hooks/useSoniox.ts`, `soniox/tokenProcessor.ts`, stores, components | tokens of the open stream, reconnection | connect, merge tokens, pause, reconnect | realtime sessions |
| **Everything else**: UI, exports, e-mail, rate limits, scripts, deployment | - | formatting, I/O | - |

What is hard in each, and what makes it correct:

* *Quota ledger.*  A reservation lives both in its column and inside the counter;
  the counter is zeroed every month by whoever comes first (request or cron), and
  the reservations must go with it.  Correct: nothing is given back that the
  counter does not contain; the counter explains itself; drift is never in the
  user's favour; purchased minutes pay exactly for consumption beyond the free
  limit; windows roll over; grants are settled.
* *Job queue and admission.*  Concurrent claims against daily budgets, with a day
  boundary, unknown provider usage and process deaths between call and settlement.
  Correct: no overspending, no two live jobs of one key, a key is freed in the end.
* *Uploads, full transcription, realtime sessions, translation.*  A claim
  (status + claim id) taken by compare-and-set, work outside any transaction, then
  a compare-and-set back; timers reclaim stale claims while their owner may still
  be alive.  Correct: one effect per claim, billed at most once, nothing stuck.
* *Payments.*  Webhooks arrive twice, late, out of order, and race the redirect
  and the administrator.  Correct: an order is fulfilled at most once, the wallet is
  the sum of its entries, a refund never exceeds what was paid, every accepted
  event is applied in the end.
* *Authentication.*  Two tabs refresh at once; a replayed old token must kill its
  family; a purge must not resurrect it.
* *Live share.*  Two publishers, slow viewers, chunked snapshots.  Correct: a
  viewer's text is a prefix of one publisher's history; one publisher at a time.
* *Stored artifacts.*  Two-phase publication across database and object store.
  Correct: no lost object that is referenced, no referenced object deleted, bytes
  equal to the live rows.

The complete list of hazards, each with its line and the properties aimed at it,
is in `PROJECT.json`.

## 2. Plan

In the order of what is at stake.

| # | Module | Models | State | Section |
|---|---|---|---|---|
| 1 | `QuotaLedger` | one user's minutes: counter, window, pool, reservations, monthly cron | checked; five theorems | 3 |
| 2 | `JobAdmission` | daily token ledger and the translation proxy | checked; seven theorems | 4 |
| 3 | `PaymentOrder`, `PaidOnce` | one order: inbox, crediting, dispute, hold, and the promise it implements | checked, with its refinement; four theorems | 5 |
| 4 | `FundingLedger` | the value behind the orders: lots, spending, minutes, reversal, debt | checked; five theorems | 6 |
| 5 | `StoredArtifact` | staging, publication, replacement, expiry, clean-up of stored files | checked; four theorems | 7 |
| 6 | `DocTranslate` | a document's task, its queue rows, dispatches, results, refunds | checked; six theorems | 8 |
| 7 | `AsyncTranscribe` | an upload: attempts, processor, finalization, cancel, sweeps | checked; four theorems | 9 |
| 8 | `AuthSession` | token families and their rotation, and the browser's tabs around one cookie | checked; seven theorems | 10 |
| 9 | `FullTranscribe` | claim, heartbeat, reclaim, finalize | not written | - |
| 10 | `SessionFinalize` | finalize claim, drafts, automatic finalization | not written | - |
| 11 | `LiveShare` | publisher lease, snapshot chunks, viewers, back-pressure | not written | - |
| 12 | `QuotaAdmin` | limit change, usage reset, reconciliation and its repair, over 1 | not written | - |

How they fit together.  Each module keeps the state of one owner's row lock and
abstracts what its neighbours promise: `AsyncTranscribe` and `JobAdmission` know
*that* a reservation is held, `QuotaLedger` and `JobAdmission` what holding and
giving back does to the counters; `PaymentOrder` knows *that* a reversal leaves a
debt, `FundingLedger` how much; `DocTranslate` has the dispatch generations whose
calls `JobAdmission` admits; `AsyncTranscribe` and `DocTranslate` use the two-phase
publication that `StoredArtifact` takes apart.  The abstract specification that is
written down is `PaidOnce`, the promise about one order, and `PaymentOrder` is
checked and proved to implement it.

Runs stay at two or three actors of different roles, one or two boundaries of the
clock and one fault; sums are cardinalities of sets of points or folds and not
recursive, so that proofs can be about them.

## 3. The quota ledger (`QuotaLedger`)

### State and actions

One user; its `User` row is `used, limit, pool, resetAt`.  A *holder* is whatever
can register a reservation: `Session.asyncReservedMinutes` (`AsyncSlots`),
`Session.fullReservedMinutes` (`FullSlots`) and a `SonioxStreamGrant` row
(`Grants`); `reserved[h]` is the registered amount.  `ledger` is
`TranscriptionCharge` by month, `tx` the transaction running on each holder's row,
`lock` the holder of the `User` row, `cron` the monthly job.  Two variables are
ghosts and exist in no table: `held[h]`, the minutes of `h` that are inside `used`
now, and `charged`, the minutes deducted since `used` was last zeroed.

| Action | Code |
|---|---|
| `BeginInit`, `BeginTopUp`, `BeginRegister`, `BeginMint` | the first statements of the four reserving transactions: Session row, `User` row `FOR UPDATE`, clock |
| `CommitReserve` (init, top-up, register), `CommitMint` | the rest of those transactions: window correction, check, counter, column; with `RefuseReserve` for too little quota |
| `Release` | `settleReservation` alone: failure, cancel, delete, orphan clean-up, unused grant |
| `BeginCharge`, `CommitCharge` | finalization of an upload, a full transcription, a stream: compare-and-set, `deductTranscriptionMinutes`, `settleReservation` |
| `Abort` | any rollback |
| `EnsureTopLevel` | `ensureQuotaWindow` on the plain client |
| `CronStart` ... `CronFind`, `CronCrash` | `resetExpiredTranscriptionQuotas`, one action per statement |
| `Tick` | the month changes |

What is taken as given.  The database is InnoDB at its default isolation
(REPEATABLE READ): a locking read or an UPDATE sees the latest committed row and
keeps it locked, a plain SELECT sees the snapshot.  A transaction therefore shows
its writes at its Commit step, and one that needs a row another holds is a
deadlock victim (`Abort`) or waits (not enabled).  Administrators, who bypass the
ledger, and users whose `quotaResetAt` is null are left out.  Holds, role checks
and stream limits, which roll a transaction back, are `Abort`.  The reconciliation
of a stream that was already settled deducts without a reservation, which is
`CommitCharge` of a column that holds nothing.  `limit` and the purchases that
raise `pool` are fixed during a run (module 12 of the plan).

`Straddle` says whether a month may begin while a request's transaction runs.  The
transactions take milliseconds (Prisma cuts them off after seconds), so that
`FALSE` is the normal case and what the runs use.  With `TRUE` TLC finds
`NoFreeMinutes` violated: a mint that read its clock before the boundary and commits
after the cron has cleared the grants keeps a reservation the zeroed counter does not
hold, and settling it gives back minutes of the new window.  The comment at
`src/lib/quota.ts` 551-552 takes the remaining race to bill too much only.

### Runs

| Run | Instance | Shows |
|---|---|---|
| `quota_ledger` | one holder of each kind, a month boundary, one cron crash, `Straddle = FALSE`, `FairSpec` | type invariant; `ReservationsBacked`; `NoFreeMinutes`; `CounterExplained`; `PoolNeverUndersettled`; `WindowRollsOver`, `OpenGrantSettles` |
| `quota_reinit` | one column, one grant | violation of `InitSettlesPool`, finding 1 |

Bounds.  Three holders of different kinds are all pairs of kinds that meet, and a
column is reused by later uploads of the session; the boundary lets a run of
the cron of one month meet the reset of the next, and transactions meet what the
old window left over (columns, grants, a cron that died half way).  A reservation
is at most 2 minutes, a charge 1 at a time, the counter at most 3, with a limit of
1: enough for a charge to exceed the free minutes, to need the pool (0 or 1) and for a settlement to give back less than was held.  One crash
of the cron suffices because after it the cron starts from nothing; a second one
meets the same states.  TLC checks deadlock in these runs.

Fairness of `quota_ledger`.  The maintenance timer (`src/lib/billingMaintenance.ts`)
starts the cron again and again and each of its statements is sent when the one
before has returned (weak fairness); its UPDATEs wait for rows that requests hold
now and then (strong fairness, with `[]<>Quiet`: the requests of one user pause
now and then).  A transaction ends or is cut off by its timeout (weak fairness of
`Abort`).  A grant nobody settles is settled by the usage reconciliation, which
the same timer runs (strong fairness of `Release`).  Nothing forces a charge.

### Proofs (`QuotaLedgerProofs`)

For any finite sets of holders and any bounds:

* `TypeCorrect`: `Spec => []TypeOK`.
* `Backed`: when no month begins inside a request's transaction (`~Straddle`),
  `Spec => []ReservationsBacked`.  The property alone is not inductive: a commit
  after the cron has cleared the columns and before its update would fill a column
  that the update then takes out of the counter.  `BackedInv` says why it cannot
  happen: a running transaction has read the current month, the cron never a later
  one, so that while the window is expired for the cron it is expired for the
  transaction, which first rolls it over (and the cron's update then finds
  nothing to do); and what the cron has cleared stays clear meanwhile.
  `LockedWindowBacked` and `FinishBacked` carry the argument, one lemma per
  action applies it.

* `Explained` (`CounterExplained`, under `~Straddle`).  The code subtracts with
  `GREATEST(0, ...)`; that the counter stays *exactly* what was deducted and is held
  needs that no subtraction is cut off at zero, which is `BackedInv`, and that a grant
  that was not minted holds nothing (`MintIsNew`).
* `NoneFree` (`NoFreeMinutes`, under `~Straddle`), from `RecordedInv`: the charges the
  ledger records for the open window are among those deducted in it
  (`ChargesCounted`).  This rests on two facts about the clock: a finalizer whose
  window is expired has seen that it is (`ExpirySeen`), so that its charge is not
  recorded in one month and deducted in another; and no charge is recorded in a month
  whose window has not begun (`NoneAhead`), so that a new window starts with none.
* `PoolSettled` (the action property `PoolNeverUndersettled`, under `~Straddle`).
  Finalizers and the cron compute what the closing window owes the pool some steps
  before they write it, and `PoolInv` says that what they computed is still enough
  then (`ChargesOwe`, `CronOwes`): nothing is deducted into a window that stays
  expired, since every deduction first rolls it over.  The cron's second pass settles
  nothing, and finds no user with a pool.  The re-init of finding 1 is excepted by the
  property, and only uploads have one (`InitsOfColumns`).

`~Straddle` is not a convenience: with `Straddle = TRUE` TLC violates each of the four.

## 4. The token ledger and the translation proxy (`JobAdmission`)

### State and actions

A *call* is one request for the LLM that reserves tokens of the day, with the
`JobQueue` row it may insert: `row` (status), `keyed` (does it still hold its
`activeKey`), `actual` (`actualUnits`, `Null` when nobody could settle it),
`doneOn` (day of `completedAt`), `born` (the task's attempt at `createdAt`).
`Proxied` calls come from the workers of one document-translation task and share
its gate; the others (reports, keywords) are plain.  `mutex` is the scope's
sentinel row, `day` the database's UTC day, `req` and `answer` what the worker
knows, `task` the translation task as its calls see it.  Ghosts: `spent`, the
tokens the provider has really used, and `sentOn`.

| Action | Code |
|---|---|
| `Begin` | the request: the proxy's credential and replay checks; the window from the application's clock, which may differ from the database's |
| `TakeLock`, `Count`, `Insert`, `MissWindow` | `claimActiveJob` in `claimLlmTokenBudget`: lock and clock, key and budgets, row and final clock, one retry of a missed window |
| `Recheck` | the proxy's second look at its task, before the provider |
| `CallProvider` | the provider call, its reported usage and what is made of it |
| `Settle` | `settleActiveJob` with the proxy's business mutation (the task's meter) |
| `Crash` | the worker's process or database fails; also a settlement that fails |
| `Reclaim` | `reclaimStaleProcessingJobs` |
| `Dispatch`, `Requeue`, `Stop`, `Retry` | the task: claim with `issueProxyToken`, `requeueClaimedJob`, end or cancel, the user's paid retry |
| `Tick` | midnight UTC |

What is taken as given.  No worker that is alive outlives the two hours after
which a row is reclaimed (every provider call and transaction has a shorter
timeout); one that did would find its row FAILED and take that for its own settlement
(`jobQueue.ts` 610).  A provider uses no more than was reserved (the reservation is the
worst case of the request); an answer that reports more or nothing is settled at
the reservation, which the code does.  The reclaim is per row, as is its
transaction.  A requeue's row update and the revocation of its credential are one
step.  The proxy's second check of its task is a read before an awaited call, so that a
worker whose task was requeued in between still reaches the provider; its tokens were
reserved, and no budget is harmed.  A job that makes several calls under one
reservation (a report's parallel parts, all awaited) is one call.  A task whose `attemptStartedAt` cannot be read
is charged for its whole life, which is stricter, and is not modelled.

### Runs

| Run | Instance | Shows |
|---|---|---|
| `job_task` | three proxied calls, two of them the same request; 2 dispatches, a paid retry; `FairSpec` | `AttemptWithinBudget`, `MeterMatchesRows`, `OneInFlight`, `ReservationEnds` |
| `job_budget` | a proxied and two plain calls of two users, one midnight | type invariant, `BudgetHeld`, `SpentWithinBudget` |

Bounds.  Reservations are 1 or 2 tokens and the budgets such that one large and
one small call fit and two large ones do not, so that each budget refuses in some
behaviour (`UserLimit` before `GlobalLimit` and the reverse).  A call is used
once: a second request is another call, and a repeated one shares its key.  One
midnight is enough because a window is one day: a row can miss it only at the
boundary it crosses.  Calls end and the clock stops at its bound, so that these
runs do not check for deadlock.

Fairness of `job_task`.  A worker returns or is cut off by a timeout (weak
fairness of `Crash`, the worst way to end), and the maintenance timer reclaims
(strong fairness of `Reclaim`, which waits for a lock others hold now and then).

### Proofs (`JobAdmissionProofs`)

For any finite set of calls, any users, keys, reservations and limits:

* `AdmissionTypes`: `Spec => []TypeOK`.
* `LedgerSafe`: `Spec => []LedgerInv`, and from it `BudgetSafe`
  (`BudgetHeld`) and `SpentSafe` (`SpentWithinBudget`).  `BudgetHeld` is not
  inductive: it needs that what the lock's holder has counted still fits when it
  inserts its row (`CountStillFits`), which holds because rows change only under
  the lock (`HolderCounts`), a settlement never exceeds its reservation
  (`AnswersFit`) and midnight only takes rows out of the window, never brings one
  in (`EndedByNow`).  The sums are reasoned about through `TotalMonotone`,
  `TotalPlus` and the lemmas `BudgetsFall` (no amount grows) and `BudgetsPlus`
  (one row is inserted that found room).  `SpentCovered` ties what the provider
  has used to the row that must account for it, on a day not earlier.
* `SingleFlight`: `Spec => []OneInFlight`, from `FlightInv`: a claimed row holds
  its key, a key has one holder, and what the lock's holder found free stays free.
* `MeterExact`: `Spec => []MeterMatchesRows`, from `MeterInv`: attempts only grow
  from worker to row to task, so that a settlement whose dispatch is still the
  task's meters a row of the current attempt, and a retry starts with none.

* `AttemptSafe`: `Spec => []AttemptWithinBudget`, from `AttemptInv`.  The gate counts
  what the rows of an attempt use, or hold as long as their usage is unknown
  (`HeldRows`); that the sum stays within the task's budget (`AttemptHeld`) is
  inductive with `TaskStillFits`, that what the holder of the lock has counted still
  fits when it inserts.  It counts from the attempt of its credential, which is the
  task's or an earlier one (`AttemptsInOrder`), so that it counts no less than the rows
  of the attempt its own row is born in; `SpentCovered` carries the bound from the
  rows to what the provider has used.

`ReservationEnds` is checked by TLC only.

## 5. One payment order (`PaymentOrder`, `PaidOnce`)

### State and actions

`ord` is the order's `status` and `fulfillmentStatus`, `linked` whether the
provider's objects are mapped to it, `lot` its `WalletFundingLot`, `debt` its
`PaymentDebt`, `hold` the reasons of the account's active holds.  `inbox` is
`PaymentWebhookEvent.status` and `case` `PaymentReviewCase.status`; `acked` are the
events the provider was told are done.  `w` is what every worker is at, `facts`
what the world is like: paid after the order expired, dispute won by the shop.

| Action | Code |
|---|---|
| `Persist`, `Deliver` | `persistVerifiedWebhookEvent` and the claim, which takes over a claim of more than five minutes |
| `Resolve` | the callback route: which order, and what kind of event |
| `Credit`, `Reject` | `creditPaidOrder`: its transaction, and the statement after its rollback |
| `Reversal`, `Settle` | `handlePaymentReversal`, `settleStripePendingReversal` |
| `OpenCase`, `Mark` | review case, end of the inbox row, answer to the provider |
| `Fault` | a worker dies, or a statement fails and is caught |
| `Expire`, `SettleDebt`, `ReleaseHold` | the expiry sweep; the administrator's operations |

The abstract specification `PaidOnce` has two variables, whether the value was
`given` and the `debt`, and three steps: give, refuse for good, take back.
`PromiseKept` is `PaidOnce!Spec` with `given` read off the lot and the order: every
step of the detailed machine is one of the three or a stutter, so that duplicate,
late and overtaken deliveries give the value once, and never after the money went
back.

### Run

`payment` has an event of each kind (paid, pending dispute, end of the dispute),
any order and any number of deliveries, two workers and one fault; the four
combinations of `facts` are initial states.  Two workers are two claims of one
event, or two events of one order, and a third finds an order locked by one of
them; a fault frees a worker, so that more faults repeat the same claims.
`FairSpec`: a handler goes on (its statements have timeouts), and the provider
repeats the end of the dispute until it is acknowledged, which the provider's
documented retry and the route's error answers promise.  `DisputeEnds` holds under
it although workers die and claims are taken over.

The cases that events leave open (`unmapped`, and those an event opens that is
then handled elsewhere) cannot all be closed by an administrator's action of the
source; no property is stated of them, and `ReleaseHold` does not wait for the
unmapped ones.

### Proofs (`PaymentOrderProofs`)

For any number of workers, events, faults and amounts:

* `PaymentTypes` and `PaidOnceImplemented` hold of every instance.  The refinement
  rests on `BaseInv`: the type invariant, `OrderInv` (which states of order,
  lot and debt go together) and `PlaceInv` (what a worker that is at a place has
  found there).  `PromiseStep` maps each action to a step of `PaidOnce` or a
  stutter.
* `AcknowledgedIsDone` (`AckedHasEffect`) and `EndPrevails` (`TerminalPrevails`) assume
  `Chronological`: no pending notice of a dispute is dated after the notice of its
  end, which is what the code orders them by.  `PaymentInv` adds to `BaseInv` that a
  worker between its effect and its mark has had the effect (`Working`) and that an
  event marked done has (`DoneInv`); `EffectStays`, that no later step of anyone
  takes an effect back, is what both rest on.

`DisputeEnds` is checked by TLC only.

## 6. The money behind the orders (`FundingLedger`)

One user; every action is one transaction under the user's row lock, so that what
is hard here is the sequence, not the interleaving.  `wallet` is the balance,
`lots` the `WalletFundingLot` rows with cents left, the oldest first, `allocs` the
allocations of each order's lot, `pool` the purchased minutes (`bal`), of them used
this month (`owed`) and reserved (`held`), `debts` and `holds` the consequences of
reversals.  `used` and `adjust` are histories.

`lots` is a queue of cents, each the name of its source: a lot is a run of them, and
its remainder their number (`Own`).  `Funded` puts the cents no lot explains in
front, a spend cuts the n oldest off (`Left`) and books to every order how many of
them were its own (`TakenFrom`), and a reversal takes one run out (`Without`).

`Credit` and `CreditPurchase` are `creditPaidOrder`, `BuyMinutes`,
`SpendOnService`, `RefundService`, `AdminCredit`, `AdminDebit` the operations of the
wallet with `allocateWalletSpend` (`Allocate`: first in, first out;
cents no lot explains are the oldest), `Reserve`, `Charge`, `NewMonth` the
pool, `Reversal` is `freezeEntitlements`, `SettleDebt` and `ReleaseHold` the
administrator.

Run `funding`: a top-up and a purchase of 2 each, 2 older cents that no lot
explains, adjustments of at most 1.  Both orders may be reversed, before or after
their minutes are used and the month is settled; amounts of 2 let a payment be
partly spent.  `FundingSound` says, beside the types, that the structural check of a reversal never
fails, the lots never exceed the wallet and the cents of a lot keep together
(`Together`, without which a lot would not be a row); `ValueAccounted` that no cent or minute
appears or is lost; `LegacySpentFirst` the order of spending; `DebtFreezes` that no
sequence of settling and releasing opens an account that owes.  With
`InFlight = TRUE`, a reversal while a job holds minutes, TLC finds `ValueAccounted`
violated in 8 steps: the job's charge comes out of minutes the reversal has taken,
which the comment at `refundHandling.ts` 557-563 accepts; the run excludes it.

One cent buys one minute, so that apportioning has no remainder; memberships are
left out.

### Proofs (`FundingLedgerProofs`)

For any finite set of payments of any amounts, whatever the wallet held before:

* `FundHolds`: `Spec => []FundInv`, and from it `LotsSound` (`FundingSound`),
  `OldestSpentFirst` (`LegacySpentFirst`) and `OwingFrozen` (`DebtFreezes`), jobs in
  flight or not.  `FundInv` is the type invariant, `DebtFreezes` and `LotInv`.
  `FundingSound` alone is not inductive: a credit must find that its order has no cent
  and no allocation yet (`Unpaid`), and a purchase is spent as it comes (`AtOnce`);
  that a spend leaves each order what it has takes `Together`, for `Without` cuts out
  a run.  `LegacySpentFirst` needs that the older cents are in front (`Oldest`), not
  merely somewhere in the queue.  The lemmas about queues (`Split`, `TakenAndLeft`,
  `LeftKeeps`, `BeforeKeeps`, `AfterKeeps`, `RunInterval`, `WithoutKeeps`) say once
  what cutting, appending and taking out do to a source's places and their number.
* `NothingFromNothing` (`ValueAccounted`) assumes `~InFlight`, as the run does.  It adds
  that the pool covers what is used and held of it (`PoolCovers`), so that the
  month's settlement and a reversal are not cut off at zero.  With a job in
  flight the statement is false, as said above.

## 7. Stored files (`StoredArtifact`)

One column of one session (its recording).  `row` are the rows of `StoredArtifact`
(a publisher stands for its row and its files), `owner` the publisher whose file
the column names, `objects` the files on local disk and in Cloudreve.  A publisher
goes `Reserve`, `RecordLocal`, `WriteLocal`, `UploadRemote`, `RecordRemote`,
`RemoveLocal`, `Commit` (the column and the ledger in one transaction, settled
against the artifact it expects), `Retire`, `ReleasePrevious`; or `Refused`,
`Readback` (a lost acknowledgement), `Undo`, `EndUndo`.  The maintenance goes
`Scan`, `Claim`, `Remove`, `EndClean`, with the reference its scan read; the
session's deletion `DeleteRead`, `DeleteCommit`, `DeleteFile`.  `Stumble`, `Die`,
`CleanerDies` and the fault branches are the failures.

Run `artifact`: the recording at the start, two publishers that replace it (one
with Cloudreve, one local), one run of the maintenance, the deletion, one fault.
Two publishers are what an identity key can serialise; time is abstracted to "has
expired", which any row may have.  `PublishedExists`: the file the column names
exists.  `OwnerMatchesLedger`: the one active row is the column's (with the type invariant).  `NothingLost`:
a file that exists is charged to a row that leads to its removal, except what the
two ghosts name: files a crash left between upload and record (`stray`), and rows
taken from a publisher that outlived its hour or its session (`raced`).  The code
has no way to find these; they leak space, and no property is claimed of them.  In
particular the deletion reads the ledger before its transaction
(`api/sessions/[id]/route.ts` 388-397): a publication reserved after that read can
leave an active row without an owner.

Publishers, cleaners and the deletion end, so that the run does not check for
deadlock.

### Proofs (`StoredArtifactProofs`)

For any sets of publishers and cleaners and any number of faults: `ArtifactHolds`
(`Spec => []ArtifactInv`), and from it `PublishedFileExists` (`PublishedExists`),
`LedgerMatchesOwner` (`OwnerMatchesLedger`) and `FilesAccounted` (`NothingLost`).

`PublishedExists` is about whoever removes files, so the invariant says of each what it
knows.  A cleaner that has claimed a row, and a deletion that has committed, work on
rows that are gone for good (`TakenInv`); a publisher that retires what it has
replaced, likewise (`PublishInv`); and a publisher that asks for the publication has
stored the file its row names (`StagedInv`).  With `OwnerInv`, that the session's row
is the only active one, none of them touches its file.  `NothingLost` needs the other
direction: what each publisher has stored by where it is (`StoringInv`: nothing yet,
one file that its row names, or none that is not excused), and that the
reference with which a cleaner or the deletion removes a file is still the row's
(`SweepInv`), because a publisher whose row was not taken from it has ended by then.

## 8. Document translation (`DocTranslate`)

### State and actions

`task` is the `TranslationTask`: its status, the queue row it is bound to (`job`),
its dispatch generation (`gen`), the generation of its credential (`token`), charge
and refund, the published result (`path`) and, as `round`, which charge it runs on
(its `updatedAt` in the code's expectations).  `row` are the `JobQueue` rows,
`remote` the generations whose remote job was started, `files` the output
directories of harvests, `proc` what every process is at, with what it read.
`born`, `spent` and `returned` say under which charge a generation was claimed and
what the wallet paid and got back.

| Actions | Code |
|---|---|
| `Confirm`, `Retry`, `RefundEnded`, `Cancel`...`CancelRow`, `Delete` | the owner's routes |
| `Create`, `Bind`, `Unbind`, `GiveUp`, `Repay`, `FindOrphan` | `enqueueDocTranslate` with its failures; a charged task that no row was bound to |
| `Claim`, `ClosePoisoned`, `Prepare`, `Issue` | `claimJob`, `dispatchJob`, `issueProxyToken`, `startTranslateJob` |
| `Look`, `Requeue` | `reconcileProcessingJob`, `requeueClaimedJob` |
| `Save`, `Publish`, `Readback`, `Close` | `harvestJob` |
| `FailRow`, `Settle`, `RefundFailed` | the statements of `failJob` |
| `FindDue`, `RetryRow`, `Stranded`, `Deadline`, `Reclaim` | the phases of a tick that heal, and the queue's reclaim |
| `Abandon` | a process dies, or its statement fails |

A remote job's answer may be old when it is acted on, so that a worker "has a
result" or "has failed" at any time after it was started, and "is not there" at any
time at all; this is more than any worker does.  Which worker is chosen, the
estimate before the confirmation, administrators who pay nothing and rows from
before generations existed are left out.

### Runs

`translate`: two ticks, one owner, 2 rows (a confirmation and a paid retry), 2
generations, 2 attempts of a row, one fault.  Two ticks meet at one row, one task
and one generation; the second round is where a late refund, failure or result of
the first could hit.  The two ticks are interchangeable (symmetry; no liveness is
checked).  `LivePaid`: a task under way or complete is paid for, whatever refund of an
earlier failure comes late.  `MoneyKept`: no charge is given back twice or lost.  `PublishedResult`: the result a task names is there and was made under the
task's charge.  `TokenCurrent`: a live credential of the proxy is the one of the
task's generation, and so is whoever has its row.  `translate_stuck` is finding 2.

### Proofs (`DocTranslateProofs`)

For any number of ticks, requests, rows, generations, attempts and faults:
`TranslateHolds` (`Spec => []TranslateInv`), and from it `TranslateTyped`,
`LiveTaskPaid` (`LivePaid`), `WalletKept` (`MoneyKept`), `ResultKept`
(`PublishedResult`) and `CredentialCurrent` (`TokenCurrent`).

What the invariant adds to these properties is why a late step cannot hit the wrong
round.  `BindInv`: a row is bound once, by the process that created it, and a task
that a process is about to refund as failed is not bound to a row someone is about to
bind; so that the refund finds either its own failure or nothing.  `ClaimInv`: a
generation belongs to one row, whoever still carries it (the task, the row, a process,
a result), and the task's own was claimed in the round it runs on; so that a result or
a credential of an earlier round fails the comparison.  `MoneyInv`: the wallet has paid
once per round.  `SavedInv`: a harvest that is about to publish has its files, unless
the task was deleted.

## 9. Asynchronous upload (`AsyncTranscribe`)

### State and actions

One session.  `ses` is its row: `asyncTranscribeStatus`, the attempt
(`asyncTranscribeStartedAt`), the Soniox transcription it names, its recording and
transcript, whether the session was finalized (`closed`) and whether it holds a
reservation.  `dir` is the directory of the upload, which all attempts share, `job`
the transcription each attempt made at Soniox, `audio` the recording each attempt
staged, `text` the stored transcripts.  `proc` is the processor of each attempt,
`req` the requests of the owner and the runs of the maintenance; `bills` counts the
charges of the session by its two ends, the upload's and its own finalization.

| Actions | Code |
|---|---|
| `Start`, `Open`, `OpenFails`, `Chunks`, `Complete` | init with its claim, its manifest and its clean-up; chunks; the claim of the processor's start |
| `Begin` ... `Halt`, `Fail`, `Release` | `processAsyncUpload`, one action per statement or remote call, with the read-back of a failed publication (`Readback`) and the top-up |
| `Look`, `JobError`, `Claim`, `Fetch`, `Commit`, `CommitReadback`, `Check`, `Purge`, `Clear` | the status route and `finalizeAsyncTranscription` |
| `Ask`, `Cancel`, `Wipe` | the cancel route and `cancelAsyncUpload` |
| `Expire`, `SweepJob`, `SweepMinutes`, `Settle` | `reclaimStaleAsyncUploads`, `reclaimOrphanSonioxResources`, `releaseOrphanAsyncReservations` |
| `CloseSession` | the commit of the session's own finalization, with its charge |
| `Crash` | the one Node process ends, with every handler in it |

Time is abstracted: a timer may find an upload stale at any moment, also while its
processor is slow.

### Runs

`upload`: two attempts (so that a processor of the first, or a request that read
it, meets the second), one owner's request, one run of the maintenance, one crash
or lost acknowledgement.  The claims are conditional updates, so that two
finalizers are enough for every pair of who wins; a second fault would follow a
first that has already reset the process.  6.1 million states.  `EndsBilledOnce`,
`PublishedKept` and `FinalStays` hold.  `upload_stale` is finding 3.  Requests and
attempts end: no deadlock check.

A session has two ends that charge it, and `EndsBilledOnce` says of each that it does
so at most once: the upload's exactly when it completes, the session's own, if there
is a billable duration, when it closes the session.  That an upload which completes
also closes the session, and that nothing charges a completed one any more
(`FinalStays`), is one half of their exclusion.  The other half does not hold, and no
property states it: see the first point below.

What TLC's states show besides, and no property is stated of:

* *A session is charged twice* when it is finalized on its own while its upload is
  under way.  The code expects that order (`asyncUploadProcessor.ts` 88-92) and keeps
  the second recording out, but the upload's commit
  (`asyncTranscribeFinalize.ts` 171) asks for `asyncTranscribeStatus` alone, which the
  finalization does not touch, and charges again what `sessionFinalization.ts`
  469-480 has charged; the comment at `asyncTranscribeFinalize.ts` 188-189 says that
  claim and CAS make the settlement happen exactly once for each session.  With `bills.upload + bills.own <= 1`
  in the place of `EndsBilledOnce` TLC finds it in 18 steps with one attempt and no
  fault: an upload up to `Publish`, then `CloseSession`, then the rest of the upload
  to its `Commit`.
* The clearing of the transcription's number after its deletion names no number
  (`Clear`): a slow cancel or sweep can clear the number of a newer attempt, whose
  job then is neither polled nor deleted.
* An init accepts a session whose old transcription was not yet deleted; the new
  number overwrites it and nothing deletes the old one any more.
* The release after a failure and the sweep's settlement name no attempt: they can
  give back the reservation of the next attempt.  The top-up, which comes before
  the file goes to Soniox, takes it again.
* A transcription Soniox does not know (404) keeps a session out of the reclaim for
  ever, for the error is taken for a failed query.

### Proofs (`AsyncTranscribeProofs`)

For any number of attempts, requests, timers and faults all four properties of the
run hold of the specification: `UploadTypes`, `ChargedOnce`, `NamedIsThere`
(`PublishedKept`) and `EndsStay` (`FinalStays`).  `UploadInv` is the type invariant,
`EndsBilledOnce`, `RecordingInv` and `TranscriptInv`.  `PublishedKept` is not inductive:
that no rollback deletes the recording the session names needs that an attempt that
has not begun has staged nothing (`Fresh`), that no processor runs for a future
attempt (`Ahead`), and that whoever is about to delete a recording knows that the
session does not name it (`RecordingKept`); the transcript needs the same of its
finalizers.  `EndsStay` takes from `EndsBilledOnce` that a completed session is closed.
`StaleLeaves` does not hold, which is TLC's finding.

## 10. Login and logout across tabs (`AuthSession`)

### State and actions

Both sides of a session.  At the server every login is a token family: `fam` is its
`AuthTokenFamily` row (its state, and how often its one leaf was rotated), `tv` the
user's `tokenVersion`.  In the browser `cookie` is the HttpOnly leaf that all tabs
share, `store` the account in `localStorage`, `tab` the account each tab shows,
`pending` the revocations that no server has confirmed.  `op` is what every
operation is at: its tab (`None` once the tab has gone and only the server goes on),
the account it was asked for, whether that is still the tab's (`fresh`), the leaf it
carries.  `ended` and `lost` are histories: families the browser has decided to end,
and families a refresh of which a tab stopped waiting for.  Two more are in a leaf:
`by`, the version at which the password it was got with was checked (or, for a change
of the password that nothing overtook, the one it set), and `late`, that it comes from
a change which was overtaken.

| Actions | Code |
|---|---|
| `StartRefresh`, `StartLogin`, `StartChange`, `StartRequest` | the Web Lock: mutations of the cookie hold it exclusively and not beside an unconfirmed revocation, ordinary requests hold it shared until their headers have arrived |
| `RestorePending`, `StartLogout` | the two that do something before they have the lock |
| `VerifyRefresh`, `ReadUser`, `RotateAuthToken`, `RevokeReused` | the refresh route and `rotateAuthToken`, one action per statement |
| `Login`, `IssueAuthToken`, `ResetPassword` | the routes of login and of the reset: the password is checked, the leaf issued in a later step |
| `CheckChange`, `CheckPassword`, `ChangePassword` | the change of the password: the leaf is verified, then the current password, and the transaction later still |
| `Deliver`, `Commit`, `Switch`, `Undo`, `Forget`, `Wipe` | the answer in the tab: Set-Cookie with the headers, then the account, or the revocation of a session that came too late |
| `FastLogout`, `LockedLogout`, `RevokeOne` | logout: its first request before the lock, the rest under it |
| `VerifyToken`, `HandleDenied`, `IgnoreDenied` | an ordinary request and `AuthSessionMonitor` |
| `Notice`, `Reload`, `Drop`, `Truncated`, `Unavailable` | storage events, the page loaded again, connections that break, statements that fail |

An operation that waits for the lock does nothing when its tab's account has moved
by the time it gets it, so that operations are modelled from the moment they have
it; logout alone, which acts before, has a state of waiting.

### Run

`auth`: two tabs, two operations at once, two users, two families (the one at the
start and a new one), one rotation, one fault.  The password of one user changes, at
most twice (`Changeable`, `MaxVersion = 2`): a change and the reset that overtakes it.
The second user is there to be mistaken for the first, for which no password has to
change.  2.6 million states.  A property is
broken by two operations that meet, in one tab or in two; a third would hold or
await the same lock, and what it leaves behind (a cookie, a store, a pending
revocation) is reached by the first two in sequence as well.  Tabs and operations
are interchangeable (symmetry; no liveness is checked).  `NeverAsAnother`: no request
a tab sends for the account it shows is carried out for another.
`ReuseOnlyAfterLoss`: two tabs never trip the reuse detection that is meant for
thieves, but where a tab gave up a refresh that the server went on with.
`EndedOrPending`: what the browser has decided to end is dead, or still asked for.
`OldPasswordOut`: nothing that was got with an old password opens anything, but the
leaf of a change that was overtaken.

That exception is a defect.  The change checks the current password before its
transaction (`auth.ts` 1348-1353), and the transaction (1358-1384) does not ask whether
the version is still the one it was checked at: where a reset or another change has
committed in between, it sets its own password over theirs and issues a leaf at the
newest version to somebody who knew the old password only.  Without `late` TLC finds
`OldPasswordOut` violated in six states: `StartChange`, `CheckChange`, `CheckPassword`,
`ResetPassword`, `ChangePassword`.  For logins and refreshes there is no exception:
they take the version with the password, and their leaf is refused once it moved on.

A statement that commits and whose acknowledgement is lost, so that the route answers
with a 5xx and keeps the cookie, ends in the state in which the connection breaks
before the answer is read (`Drop` after the statement): the row has moved on, the
browser has the old leaf, and its tab has stopped waiting (`lost`).

`Abandon = FALSE` excludes one case: a tab that is closed or loaded again between the
Set-Cookie of its login and its taking over of the account or its undoing.  With
`TRUE` TLC finds `NeverAsAnother` violated: the cookie is the new account's, the
other tab and `localStorage` still show the old one, and nobody is left to undo the
login.  The comment in `AuthSessionMonitor` that the old account is never shown with
the new cookie holds while the tab that logs in stays.

What TLC's states show besides, and no property is stated of: after a refused
refresh the tab forgets its account outside the lock and compares with its own
memory only (`Forget`, `Wipe`), so that it can wipe from `localStorage` the account
another tab has just taken over; that tab then becomes anonymous with a good cookie.

### Proofs (`AuthSessionProofs`)

For any sets of users, families, tabs and (finitely many) operations and any number of
rotations, password changes and faults:

* `ServerHolds`: `Spec => []ServerInv`, and from it `AuthTyped`, `OldPasswordsOut`
  (`OldPasswordOut`, with its exception, here for a second change as well as for a reset), `ReuseAfterLoss` (`ReuseOnlyAfterLoss`) and `EndsAskedFor`
  (`EndedOrPending`).  That reuse is only ever detected after a loss needs to know who
  may present which leaf: the cookie has the last leaf of its family, or the answer
  that brings it is on its way (`CookieFresh`); a refresh that its tab waits for
  presents the last one (`Fresh`), because whoever changes the cookie has the lock
  alone (`Mutex`).  `Shape` and `Sound` say what an operation at each place holds (a
  leaf of a family that was born, no newer than the server's), and `VersionRoom` that
  the bound on password changes leaves room for those under way.
* `BrowserHolds` and `NotAsAnother` (`NeverAsAnother`) assume `~Abandon`.
  `NeverAsAnother` compares what a tab shows with what the shared cookie opens, and
  the link between them is `localStorage`: the cookie is the stored account's, unless a
  login has its cookie and not yet its account (`CookieUser` with `Between`); who has
  the lock shows the stored account (`Holds`) and has a leaf of the account it was
  begun for (`SameUser`); and a new session's leaf stays in the cookie until its tab
  has taken it over (`Carries`).  A tab that goes in between takes the witness of
  `CookieUser` with it, which is the counterexample with `Abandon = TRUE`.

`AuthAssumption` asks only that names of users, families and tabs, and `None`, are
different things, that bounds are numbers and that the operations are finitely many.

## 11. Findings

1. *A re-init in an expired window settles too little of the pool* (`quota_reinit`,
   code bug).  The init releases the old reservation from the counter before the
   window correction subtracts the column, which still holds it, once more.
2. *A row goes back to the queue that nobody can claim* (`translate_stuck`).
   `failJob` ends the row in one statement and the task's generation in another; a
   process that dies between them leaves a row that is retried and refused by every
   claim, for its task still has a generation, until the task's deadline a day
   later.
3. *A processor that was cancelled writes into the next attempt* (`upload_stale`,
   code bug).  Its status update asks whether the session is active and not whose
   attempt it is.

`PROJECT.json` quotes the lines.  Two more defects have no run of their own, and the
properties of the passing runs are stated so that they say what does hold beside
them:

* A session that is finalized on its own while its upload is under way is charged
  twice (section 9; `EndsBilledOnce` counts the two charges apart).
* A change of the password that is overtaken between its check and its transaction
  wins over the reset or change that overtook it (section 10; `OldPasswordOut` excepts
  its leaf).

Two more observations, of no run: between the
cron's clearing of the columns and its update, or after a crash there, the
settlement counts cleared reservations as consumption of the pool
(`quota.ts` 122-124 against 587-611); and in document translation a submitted row of
a deleted task is passed over by every claim and never closed, a failed task whose
refund statement failed is refunded only when its owner comes back, and the
deadline deletes the remote job under the row's id where the remote one is asked
for.

## 12. What is only model-checked, and what is not modelled

Every invariant and every action property of a passing run is proved, for all values of
the constants; `PROJECT.json` lists theorem and property side by side.  Some theorems
have a hypothesis, under which the run checks the same property.  `Chronological` is
the order the code itself relies on; without one of the others TLC refutes the
property:

| Hypothesis | Says | Theorems |
|---|---|---|
| `~Straddle` | no month begins inside a request's transaction | `Backed`, `Explained`, `NoneFree`, `PoolSettled` |
| `Chronological` | no notice of a pending dispute is dated after the notice of its end | `AcknowledgedIsDone`, `EndPrevails` |
| `~InFlight` | no job holds minutes while a payment is reversed | `NothingFromNothing` |
| `~Abandon` | no tab goes between a login's cookie and its account | `BrowserHolds`, `NotAsAnother` |

What TLC alone checks is liveness under fairness (`WindowRollsOver`,
`OpenGrantSettles`, `ReservationEnds`, `DisputeEnds`), which is out of the prover's
reach, and the violations of section 11.  The models have no recursion over data:
sums are cardinalities of sets of points and lots are queues cut at a place, so that
the proofs need the library's theorems about finite sets and sequences and, for
least elements (`Least` in `FundingLedgerProofs`), well-founded order, but no
induction theorem that takes an operator.

Not modelled inside the modelled components: storage hours and bytes of the quota,
its limit changes, usage reset and reconciliation; memberships, rounding of
apportioned amounts and provider data that contradicts the order; the byte counter
and the other columns of stored files; Soniox file numbers, regions and the
session's deletion in an upload; `JobQueue` rows of other job types; registration and
e-mail verification, expiry and purge of token families, the blacklist beside the
rows, browsers without Web Locks and established sockets.

Not modelled at all: full transcription beyond its quota (9), realtime finalization
beyond its commit (10), live share (11); their hazards are listed in `PROJECT.json`
without a property.  Not planned: the browser's stream handling (event wiring of one
client), prompt and document formatting, the LLM gateway's provider I/O, exports,
e-mail, scripts and the user interface, which keep no state that concurrent actors
change; rate limits, which promise nothing exact.
