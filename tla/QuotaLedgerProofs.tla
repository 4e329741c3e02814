------------------------- MODULE QuotaLedgerProofs -------------------------
(***************************************************************************)
(* Proofs about QuotaLedger for every number of reservations, every limit  *)
(* and every bound.                                                        *)
(***************************************************************************)
EXTENDS QuotaLedger, FiniteSetTheorems, FunctionTheorems, TLAPS

\* The sum of a per-holder amount is a natural number: SUM(...) of the user's rows.
LEMMA MinutesNat ==
    ASSUME NEW f \in [Holders -> Nat]
    PROVE  Minutes(f) \in Nat
<1> DEFINE Rows == {{h} \X (1 .. f[h]) : h \in Holders}
<1>1. IsFiniteSet(Holders)
  BY HoldersAssumption, FS_Union DEF Holders, Slots
<1> DEFINE row == [h \in Holders |-> {h} \X (1 .. f[h])]
<1>2. IsFiniteSet(Rows)
  <2>1. row \in Surjection(Holders, Rows)
    BY DEF Surjection
  <2> QED
    BY <2>1, <1>1, FS_Surjection
<1>3. ASSUME NEW R \in Rows PROVE IsFiniteSet(R)
  <2>1. PICK h \in Holders : R = {h} \X (1 .. f[h])
    BY <1>3
  <2>2. IsFiniteSet({h})
    BY FS_Singleton
  <2>3. f[h] \in Int
    OBVIOUS
  <2>4. IsFiniteSet(1 .. f[h])
    BY <2>3, FS_Interval
  <2> QED
    BY <2>1, <2>2, <2>4, FS_Product
<1>4. IsFiniteSet(UNION Rows)
  BY <1>2, <1>3, FS_UNION
<1> QED
  BY <1>4, FS_CardinalityType DEF Minutes

\* What a window owes the pool is a natural number, whatever is reserved.
LEMMA OwedNat ==
    ASSUME TypeOK, NEW u \in Nat
    PROVE  PoolOwed(u) \in Nat /\ OwedByHolder(u) \in Nat
<1>1. Minutes(reserved) \in Nat
  BY MinutesNat DEF TypeOK
<1> QED
  BY <1>1 DEF PoolOwed, OwedByHolder, Monus, TypeOK

\* The window correction keeps every field it touches in its type.
LEMMA WindowType ==
    ASSUME TypeOK, NEW at \in 0 .. MaxMonth, NEW e \in BOOLEAN,
           NEW u \in Nat, NEW o \in Nat, NEW w, w = EnsureQuotaWindow(at, e, u, o)
    PROVE  /\ w.used \in Nat /\ w.pool \in Nat /\ w.charged \in Nat
           /\ w.resetAt \in 1 .. MaxMonth + 1
           /\ w.reserved \in [Holders -> Nat] /\ w.held \in [Holders -> Nat]
<1> QED
  BY BoundsAssumption DEF EnsureQuotaWindow, TypeOK, Monus, Nothing

\* The same for a correction made under the User lock.
LEMMA LockedWindowType ==
    ASSUME TypeOK, NEW at \in 0 .. MaxMonth, NEW u \in Nat,
           NEW w, w = EnsureLocked(at, u)
    PROVE  /\ w.used \in Nat /\ w.pool \in Nat /\ w.charged \in Nat
           /\ w.resetAt \in 1 .. MaxMonth + 1
           /\ w.reserved \in [Holders -> Nat] /\ w.held \in [Holders -> Nat]
<1>1. OwedByHolder(u) \in Nat /\ (resetAt <= at) \in BOOLEAN
  BY OwedNat
<1>2. w = EnsureQuotaWindow(at, resetAt <= at, u, OwedByHolder(u))
  BY DEF EnsureLocked
<1> HIDE DEF EnsureLocked, EnsureQuotaWindow
<1> QED
  BY <1>1, <1>2, WindowType

\* The end of a transaction frees its row and the User row.
LEMMA FinishType ==
    ASSUME TypeOK, NEW h \in Holders, Finish(h)
    PROVE  tx' \in [Holders -> TxType] /\ lock' \in Holders \cup {NoTx}
<1>1. Idle \in TxType
  BY BoundsAssumption DEF Idle, TxType
<1> QED
  BY <1>1 DEF Finish, TypeOK

\* Starting a reservation's transaction keeps the types.
LEMMA BeginReserveType ==
    ASSUME TypeOK, NEW h \in Holders, NEW op \in {"init", "topup", "register", "mint"},
           BeginReserve(h, op)
    PROVE  TypeOK'
<1>1. Running(op, FALSE, 0) \in TxType
  BY DEF Running, TxType, TypeOK
<1> QED
  BY <1>1 DEF BeginReserve, TypeOK, userRow

\* A refused reservation keeps the types, rolled back or not.
LEMMA RefuseReserveType ==
    ASSUME TypeOK, NEW h \in Holders, NEW w, RefuseReserve(h, w),
           w.used \in Nat, w.pool \in Nat, w.charged \in Nat,
           w.resetAt \in 1 .. MaxMonth + 1,
           w.reserved \in [Holders -> Nat], w.held \in [Holders -> Nat]
    PROVE  TypeOK'
<1>1. tx' \in [Holders -> TxType] /\ lock' \in Holders \cup {NoTx}
  BY FinishType DEF RefuseReserve
<1> QED
  BY <1>1 DEF RefuseReserve, SetWindow, TypeOK, userRow

\* Committing a column's reservation keeps the types.
LEMMA CommitReserveType ==
    ASSUME TypeOK, NEW s \in Holders, CommitReserve(s)
    PROVE  TypeOK'
<1> DEFINE t == tx[s]
           prior == IF t.op = "init" THEN reserved[s] ELSE 0
           w == EnsureLocked(t.at, Monus(used, prior))
           kept == IF t.op = "topup" THEN w.reserved[s] ELSE 0
<1>1. PICK want \in 1 .. MaxReserve :
        LET need == IF t.op = "topup" THEN Monus(want, reserved[s]) ELSE want
        IN  IF w.used + need <= limit + w.pool
            THEN /\ used' = w.used + need
                 /\ SetWindow(w) /\ UNCHANGED limit
                 /\ reserved' = [w.reserved EXCEPT ![s] = kept + need]
                 /\ held' = [w.held EXCEPT ![s] = Monus(@, prior) + need]
                 /\ charged' = w.charged
                 /\ Finish(s)
                 /\ UNCHANGED <<now, grant, ledger, cron>>
            ELSE RefuseReserve(s, w)
  BY Zenon DEF CommitReserve
<1> DEFINE need == IF t.op = "topup" THEN Monus(want, reserved[s]) ELSE want
<1>2. t.at \in 0 .. MaxMonth /\ prior \in Nat /\ Monus(used, prior) \in Nat /\ need \in Nat
  <2>1. t.at \in 0 .. MaxMonth
    BY DEF TypeOK, TxType
  <2>2. reserved[s] \in Nat /\ used \in Nat
    BY DEF TypeOK
  <2>3. want \in Nat
    BY BoundsAssumption
  <2> QED
    BY <2>1, <2>2, <2>3 DEF Monus
<1>3. /\ w.used \in Nat /\ w.pool \in Nat /\ w.charged \in Nat
      /\ w.resetAt \in 1 .. MaxMonth + 1
      /\ w.reserved \in [Holders -> Nat] /\ w.held \in [Holders -> Nat]
  <2> HIDE DEF t, prior
  <2> QED
    BY <1>2, LockedWindowType
<1>4. CASE w.used + need <= limit + w.pool
  <2>1. tx' \in [Holders -> TxType] /\ lock' \in Holders \cup {NoTx}
    BY <1>1, <1>4, FinishType
  <2>2. kept + need \in Nat /\ Monus(w.held[s], prior) + need \in Nat
    <3> HIDE DEF t, w, prior, need
    <3> QED
      BY <1>2, <1>3 DEF Monus
  <2> HIDE DEF t, w, prior, need, kept
  <2>3. /\ used' = w.used + need /\ SetWindow(w) /\ UNCHANGED limit
        /\ reserved' = [w.reserved EXCEPT ![s] = kept + need]
        /\ held' = [w.held EXCEPT ![s] = Monus(@, prior) + need]
        /\ charged' = w.charged /\ UNCHANGED <<now, grant, ledger, cron>>
    BY <1>1, <1>4 DEF need
  <2>4. used' \in Nat /\ charged' \in Nat /\ pool' \in Nat /\ resetAt' \in 1 .. MaxMonth + 1
    BY <1>2, <1>3, <2>3 DEF SetWindow
  <2>5. reserved' \in [Holders -> Nat] /\ held' \in [Holders -> Nat]
    BY <1>3, <2>2, <2>3
  <2> QED
    BY <2>1, <2>3, <2>4, <2>5 DEF TypeOK
<1>5. CASE ~(w.used + need <= limit + w.pool)
  <2>1. RefuseReserve(s, w)
    BY <1>1, <1>5
  <2> HIDE DEF w
  <2> QED
    BY <2>1, <1>3, RefuseReserveType
<1> QED
  BY <1>4, <1>5

\* Minting a grant keeps the types.
LEMMA CommitMintType ==
    ASSUME TypeOK, NEW g \in Grants, CommitMint(g)
    PROVE  TypeOK'
<1> DEFINE w == EnsureLocked(tx[g].at, used)
           left == AtMost(MaxReserve, Monus(limit + w.pool, w.used))
<1>1. g \in Holders /\ tx[g].at \in 0 .. MaxMonth /\ used \in Nat
  BY DEF TypeOK, TxType, Holders
<1>2. /\ w.used \in Nat /\ w.pool \in Nat /\ w.charged \in Nat
      /\ w.resetAt \in 1 .. MaxMonth + 1
      /\ w.reserved \in [Holders -> Nat] /\ w.held \in [Holders -> Nat]
  BY <1>1, LockedWindowType
<1>3. CASE left > 0
  <2>1. PICK m \in 1 .. left :
           /\ used' = w.used + m
           /\ SetWindow(w) /\ UNCHANGED limit
           /\ reserved' = [w.reserved EXCEPT ![g] = m]
           /\ held' = [w.held EXCEPT ![g] = m]
           /\ grant' = [grant EXCEPT ![g] = "open"]
           /\ charged' = w.charged
           /\ Finish(g)
           /\ UNCHANGED <<now, ledger, cron>>
    BY <1>3 DEF CommitMint
  <2>2. tx' \in [Holders -> TxType] /\ lock' \in Holders \cup {NoTx}
    BY <1>1, <2>1, FinishType
  <2>3. m \in Nat
    <3>1. limit \in Nat
      BY DEF TypeOK
    <3> HIDE DEF w
    <3> QED
      BY <1>2, <3>1, BoundsAssumption DEF AtMost, Monus
  <2> HIDE DEF w
  <2>4. used' \in Nat /\ charged' \in Nat /\ pool' \in Nat /\ resetAt' \in 1 .. MaxMonth + 1
    BY <1>2, <2>1, <2>3 DEF SetWindow
  <2>5. reserved' \in [Holders -> Nat] /\ held' \in [Holders -> Nat]
    BY <1>2, <2>1, <2>3
  <2> QED
    BY <2>1, <2>2, <2>4, <2>5 DEF TypeOK
<1>4. CASE ~(left > 0)
  <2>1. RefuseReserve(g, w)
    BY <1>4 DEF CommitMint
  <2> HIDE DEF w
  <2> QED
    BY <2>1, <1>1, <1>2, RefuseReserveType
<1> QED
  BY <1>3, <1>4

\* A finalizer's reads keep the types.
LEMMA BeginChargeType ==
    ASSUME TypeOK, NEW h \in Holders, BeginCharge(h)
    PROVE  TypeOK'
<1>1. OwedByHolder(used) \in Nat
  BY OwedNat DEF TypeOK
<1>2. Running("charge", resetAt <= now, OwedByHolder(used)) \in TxType
  BY <1>1 DEF Running, TxType, TypeOK
<1> QED
  BY <1>2 DEF BeginCharge, TypeOK, userRow

\* A deduction with its settlement keeps the types.
LEMMA CommitChargeType ==
    ASSUME TypeOK, NEW h \in Holders, CommitCharge(h)
    PROVE  TypeOK'
<1> DEFINE t == tx[h]
           w == EnsureQuotaWindow(t.at, t.expired, used, t.owed)
           freed == w.reserved[h]
<1>1. PICK m \in 1 .. MaxCharge :
         /\ used' = IF h \in Grants THEN Monus(w.used, freed) + m
                                    ELSE Monus(w.used + m, freed)
         /\ SetWindow(w) /\ UNCHANGED limit
         /\ reserved' = [w.reserved EXCEPT ![h] = 0]
         /\ held' = [w.held EXCEPT ![h] = Monus(@, freed)]
         /\ charged' = w.charged + m
         /\ ledger' = [ledger EXCEPT ![t.at] = @ + m]
         /\ grant' = [g \in Grants |-> IF g = h THEN "settled" ELSE grant[g]]
         /\ Finish(h)
         /\ UNCHANGED <<now, cron>>
  BY Zenon DEF CommitCharge
<1>2. t.at \in 0 .. MaxMonth /\ t.expired \in BOOLEAN /\ t.owed \in Nat /\ used \in Nat
  BY DEF TypeOK, TxType
<1>3. /\ w.used \in Nat /\ w.pool \in Nat /\ w.charged \in Nat
      /\ w.resetAt \in 1 .. MaxMonth + 1
      /\ w.reserved \in [Holders -> Nat] /\ w.held \in [Holders -> Nat]
  <2> HIDE DEF t
  <2> QED
    BY <1>2, WindowType
<1>4. m \in Nat
  BY BoundsAssumption
<1>5. tx' \in [Holders -> TxType] /\ lock' \in Holders \cup {NoTx}
  BY <1>1, FinishType
<1> HIDE DEF w, t
<1>6. freed \in Nat /\ Monus(w.held[h], freed) \in Nat
  BY <1>3 DEF Monus
<1> HIDE DEF freed
<1>7. used' \in Nat /\ charged' \in Nat /\ pool' \in Nat /\ resetAt' \in 1 .. MaxMonth + 1
  BY <1>1, <1>3, <1>4, <1>6 DEF SetWindow, Monus
<1>8. reserved' \in [Holders -> Nat] /\ held' \in [Holders -> Nat]
  BY <1>1, <1>3, <1>6
<1>9. ledger' \in [0 .. MaxMonth -> Nat]
  <2>1. ledger \in [0 .. MaxMonth -> Nat]
    BY DEF TypeOK
  <2>2. ledger[t.at] + m \in Nat
    BY <1>2, <1>4, <2>1
  <2> QED
    BY <1>1, <2>1, <2>2
<1>10. grant' \in [Grants -> {"none", "open", "settled"}]
  BY <1>1 DEF TypeOK
<1> QED
  BY <1>1, <1>5, <1>7, <1>8, <1>9, <1>10 DEF TypeOK

\* Settling a reservation alone keeps the types.
LEMMA ReleaseType ==
    ASSUME TypeOK, NEW h \in Holders, Release(h)
    PROVE  TypeOK'
<1>1. used' \in Nat /\ reserved' \in [Holders -> Nat] /\ held' \in [Holders -> Nat]
  BY DEF Release, TypeOK, Monus
<1>2. grant' \in [Grants -> {"none", "open", "settled"}]
  BY DEF Release, TypeOK
<1> QED
  BY <1>1, <1>2 DEF Release, TypeOK

\* A window correction outside a transaction keeps the types.
LEMMA EnsureTopLevelType ==
    ASSUME TypeOK, EnsureTopLevel
    PROVE  TypeOK'
<1> DEFINE w == EnsureLocked(now, used)
<1>1. /\ w.used \in Nat /\ w.pool \in Nat /\ w.charged \in Nat
      /\ w.resetAt \in 1 .. MaxMonth + 1
      /\ w.reserved \in [Holders -> Nat] /\ w.held \in [Holders -> Nat]
  BY LockedWindowType DEF TypeOK
<1>2. /\ used' = w.used /\ SetWindow(w) /\ UNCHANGED limit
      /\ reserved' = w.reserved /\ held' = w.held /\ charged' = w.charged
      /\ UNCHANGED <<now, grant, ledger, lock, tx, cron>>
  BY DEF EnsureTopLevel
<1> HIDE DEF w
<1> QED
  BY <1>1, <1>2 DEF TypeOK, SetWindow

\* Every statement of the cron, and its crash, keeps the types.
LEMMA CronStepType ==
    ASSUME TypeOK, Cron
    PROVE  TypeOK'
<1> USE BoundsAssumption DEF TypeOK, CronType, CronIdle, userRow
<1>1. CASE CronStart
  BY <1>1 DEF CronStart
<1>2. CASE CronOwed
  <2>1. PoolOwed(used) \in Nat
    BY OwedNat
  <2> QED
    BY <1>2, <2>1 DEF CronOwed
<1>3. CASE CronClearSlots
  BY <1>3 DEF CronClearSlots
<1>4. CASE CronClearGrants
  BY <1>4 DEF CronClearGrants
<1> CronIdle(cron.crashes) \in CronType
  OBVIOUS
<1>5. CASE CronUpdate
  <2>1. cron' \in CronType
    <3>1. CASE cron.bulk
      BY <1>5, <3>1 DEF CronUpdate
    <3>2. CASE ~cron.bulk
      BY <1>5, <3>2 DEF CronUpdate
    <3> QED
      BY <3>1, <3>2
  <2>2. /\ used' \in Nat /\ resetAt' \in 1 .. MaxMonth + 1 /\ pool' \in Nat
        /\ held' \in [Holders -> Nat] /\ charged' \in Nat
    <3> cron.at \in 0 .. MaxMonth /\ cron.owed \in Nat /\ pool \in Nat
      OBVIOUS
    <3>1. CASE resetAt <= cron.at
      <4>1. /\ used' = 0 /\ resetAt' = cron.at + 1 /\ pool' = Monus(pool, cron.owed)
            /\ held' = [h \in Holders |-> 0] /\ charged' = 0
        BY <1>5, <3>1 DEF CronUpdate, Nothing
      <4> HIDE DEF TypeOK, CronType
      <4> QED
        BY <4>1 DEF Monus
    <3>2. CASE ~(resetAt <= cron.at)
      BY <1>5, <3>2 DEF CronUpdate
    <3> QED
      BY <3>1, <3>2
  <2> QED
    BY <1>5, <2>1, <2>2 DEF CronUpdate
<1>6. CASE CronFind
  <2>1. cron' \in CronType
    <3>1. CASE resetAt <= cron.at
      BY <1>6, <3>1 DEF CronFind
    <3>2. CASE ~(resetAt <= cron.at)
      BY <1>6, <3>2 DEF CronFind
    <3> QED
      BY <3>1, <3>2
  <2> QED
    BY <1>6, <2>1 DEF CronFind
<1>7. CASE CronCrash
  <2>1. cron.crashes \in 0 .. MaxCrashes /\ cron.crashes < MaxCrashes
    BY <1>7 DEF CronCrash
  <2>2. cron.crashes + 1 \in 0 .. MaxCrashes
    BY <2>1
  <2> QED
    BY <1>7, <2>2 DEF CronCrash
<1> QED
  BY <1>1, <1>2, <1>3, <1>4, <1>5, <1>6, <1>7 DEF Cron

\* Types are preserved by every step.
LEMMA TypeStep == TypeOK /\ [Next]_vars => TypeOK'
<1> SUFFICES ASSUME TypeOK, [Next]_vars PROVE TypeOK'
  OBVIOUS
<1>1. CASE Tick
  BY <1>1, BoundsAssumption DEF Tick, TypeOK, userRow
<1>2. CASE EnsureTopLevel
  BY <1>2, EnsureTopLevelType
<1>3. CASE Cron
  BY <1>3, CronStepType
<1>4. ASSUME NEW h \in Holders, Request(h) PROVE TypeOK'
  <2>1. CASE BeginInit(h)
    BY <2>1, BeginReserveType DEF BeginInit
  <2>2. CASE BeginTopUp(h)
    BY <2>2, BeginReserveType DEF BeginTopUp
  <2>3. CASE BeginRegister(h)
    BY <2>3, BeginReserveType DEF BeginRegister
  <2>4. CASE BeginMint(h)
    BY <2>4, BeginReserveType DEF BeginMint
  <2>5. CASE CommitReserve(h)
    BY <2>5, CommitReserveType
  <2>6. CASE h \in Grants /\ CommitMint(h)
    BY <2>6, CommitMintType
  <2>7. CASE Release(h)
    BY <2>7, ReleaseType
  <2>8. CASE BeginCharge(h)
    BY <2>8, BeginChargeType
  <2>9. CASE CommitCharge(h)
    BY <2>9, CommitChargeType
  <2>10. CASE Abort(h)
    <3>1. tx' \in [Holders -> TxType] /\ lock' \in Holders \cup {NoTx}
      BY <2>10, FinishType DEF Abort
    <3> QED
      BY <2>10, <3>1 DEF Abort, TypeOK, userRow
  <2> QED
    BY <1>4, <2>1, <2>2, <2>3, <2>4, <2>5, <2>6, <2>7, <2>8, <2>9, <2>10 DEF Request
<1>5. CASE UNCHANGED vars
  BY <1>5 DEF vars, userRow, TypeOK
<1> QED
  BY <1>1, <1>2, <1>3, <1>4, <1>5 DEF Next

\* Every variable keeps its type, for any set of reservations and any bounds.
THEOREM TypeCorrect == Spec => []TypeOK
<1>1. Init => TypeOK
  BY BoundsAssumption
     DEF Init, TypeOK, Nothing, Idle, TxType, CronIdle, CronType
<1> QED
  BY <1>1, TypeStep, PTL DEF Spec

----------------------------------------------------------------------------
\* A transaction that read the current month and corrects the window leaves every
\* reservation backed and the window past every clock the cron may have read.
LEMMA LockedWindowBacked ==
    ASSUME BackedInv, NEW u \in Nat, NEW w, w = EnsureLocked(now, u)
    PROVE  /\ \A h \in Holders : w.reserved[h] <= w.held[h]
           /\ cron.pc # "idle" => ~(w.resetAt <= cron.at)
<1> USE DEF BackedInv, TypeOK, CronType
<1>1. CASE resetAt <= now
  BY <1>1 DEF EnsureLocked, EnsureQuotaWindow, Nothing, CronReadsNoFuture
<1>2. CASE ~(resetAt <= now)
  BY <1>2 DEF EnsureLocked, EnsureQuotaWindow, ReservationsBacked, CronReadsNoFuture
<1> QED
  BY <1>1, <1>2

\* A step that ends h's transaction, leaves the clock and the cron alone, and
\* brings the window past the cron keeps the invariant if it keeps what is reserved
\* inside what is held.
LEMMA FinishBacked ==
    ASSUME BackedInv, TypeOK', NEW h \in Holders, Finish(h), UNCHANGED <<now, cron>>,
           cron.pc # "idle" => ~(resetAt' <= cron.at), ReservationsBacked'
    PROVE  BackedInv'
<1>1. TxsReadThisMonth'
  BY DEF BackedInv, TxsReadThisMonth, Finish, Idle, TypeOK
<1>2. CronReadsNoFuture' /\ ClearedStaysClear'
  BY DEF BackedInv, CronReadsNoFuture, ClearedStaysClear
<1> QED
  BY <1>1, <1>2 DEF BackedInv

\* A refused reservation leaves every reservation backed: what it commits is at most
\* the window's correction.
LEMMA RefuseReserveBacked ==
    ASSUME BackedInv, TypeOK', NEW h \in Holders, NEW u \in Nat, NEW w,
           w = EnsureLocked(now, u), RefuseReserve(h, w)
    PROVE  BackedInv'
<1>1. /\ \A g \in Holders : w.reserved[g] <= w.held[g]
      /\ cron.pc # "idle" => ~(w.resetAt <= cron.at)
  BY LockedWindowBacked
<1>2. CASE tx[h].op = "init"
  <2>1. TxsReadThisMonth'
    BY DEF BackedInv, TxsReadThisMonth, RefuseReserve, Finish, Idle, TypeOK
  <2> QED
    BY <1>2, <2>1 DEF BackedInv, RefuseReserve, CronReadsNoFuture, ClearedStaysClear,
                      ReservationsBacked, userRow
<1>3. CASE tx[h].op # "init"
  <2>1. /\ Finish(h) /\ UNCHANGED <<now, cron>> /\ resetAt' = w.resetAt
        /\ reserved' = w.reserved /\ held' = w.held
    BY <1>3 DEF RefuseReserve, SetWindow
  <2>2. ReservationsBacked'
    BY <1>1, <2>1 DEF ReservationsBacked
  <2> QED
    BY <1>1, <2>1, <2>2, FinishBacked
<1> QED
  BY <1>2, <1>3

\* A reservation enters the column and the counter together, on top of what the
\* corrected window still holds.
LEMMA CommitReserveBacked ==
    ASSUME BackedInv, TypeOK', NEW s \in Holders, CommitReserve(s)
    PROVE  BackedInv'
<1> DEFINE t == tx[s]
           prior == IF t.op = "init" THEN reserved[s] ELSE 0
           u == Monus(used, prior)
           w == EnsureLocked(t.at, u)
           kept == IF t.op = "topup" THEN w.reserved[s] ELSE 0
<1>1. PICK want \in 1 .. MaxReserve :
        LET need == IF t.op = "topup" THEN Monus(want, reserved[s]) ELSE want
        IN  /\ t.op \in {"init", "topup", "register"}
            /\ IF w.used + need <= limit + w.pool
               THEN /\ SetWindow(w)
                    /\ reserved' = [w.reserved EXCEPT ![s] = kept + need]
                    /\ held' = [w.held EXCEPT ![s] = Monus(@, prior) + need]
                    /\ Finish(s)
                    /\ UNCHANGED <<now, cron>>
               ELSE RefuseReserve(s, w)
  BY Zenon DEF CommitReserve
<1> DEFINE need == IF t.op = "topup" THEN Monus(want, reserved[s]) ELSE want
<1>2. t.at = now
  BY <1>1 DEF BackedInv, TxsReadThisMonth
<1>3. u \in Nat /\ prior \in Nat /\ need \in Nat /\ now \in 0 .. MaxMonth
  <2>1. reserved[s] \in Nat /\ used \in Nat /\ now \in 0 .. MaxMonth
    BY DEF BackedInv, TypeOK
  <2>2. want \in Nat
    BY BoundsAssumption
  <2> QED
    BY <2>1, <2>2 DEF Monus
<1>4. w = EnsureLocked(now, u)
  BY <1>2
<1>5. w.reserved \in [Holders -> Nat] /\ w.held \in [Holders -> Nat]
  <2> HIDE DEF w, u
  <2> QED
    BY <1>3, <1>4, LockedWindowType DEF BackedInv
<1>6. /\ \A h \in Holders : w.reserved[h] <= w.held[h]
      /\ cron.pc # "idle" => ~(w.resetAt <= cron.at)
  <2> HIDE DEF w, u
  <2> QED
    BY <1>3, <1>4, LockedWindowBacked
<1>7. kept <= Monus(w.held[s], prior)
  <2>1. t.op = "topup" => prior = 0
    OBVIOUS
  <2> HIDE DEF w, u, t, prior
  <2> QED
    BY <1>3, <1>5, <1>6, <2>1 DEF Monus
<1>8. kept \in Nat /\ Monus(w.held[s], prior) \in Nat
  <2> HIDE DEF w, u, t, prior
  <2> QED
    BY <1>3, <1>5 DEF Monus
<1>9. CASE w.used + need <= limit + w.pool
  <2> HIDE DEF w, u, t, prior, kept, need
  <2>1. /\ SetWindow(w) /\ Finish(s) /\ UNCHANGED <<now, cron>>
        /\ reserved' = [w.reserved EXCEPT ![s] = kept + need]
        /\ held' = [w.held EXCEPT ![s] = Monus(@, prior) + need]
    BY <1>1, <1>9 DEF need
  <2>2. ReservationsBacked'
    BY <1>3, <1>5, <1>6, <1>7, <1>8, <2>1 DEF ReservationsBacked
  <2> QED
    BY <1>6, <2>1, <2>2, FinishBacked DEF SetWindow
<1>10. CASE ~(w.used + need <= limit + w.pool)
  <2>1. RefuseReserve(s, w)
    BY <1>1, <1>10
  <2> HIDE DEF w, u
  <2> QED
    BY <2>1, <1>3, <1>4, RefuseReserveBacked
<1> QED
  BY <1>9, <1>10

\* A minted grant's minutes enter its row and the counter together.
LEMMA CommitMintBacked ==
    ASSUME BackedInv, TypeOK', NEW g \in Grants, CommitMint(g)
    PROVE  BackedInv'
<1> DEFINE w == EnsureLocked(tx[g].at, used)
           left == AtMost(MaxReserve, Monus(limit + w.pool, w.used))
<1>1. g \in Holders /\ used \in Nat /\ now \in 0 .. MaxMonth
  BY DEF BackedInv, TypeOK, Holders
<1>2. w = EnsureLocked(now, used)
  BY <1>1 DEF BackedInv, TxsReadThisMonth, CommitMint
<1>3. w.reserved \in [Holders -> Nat] /\ w.held \in [Holders -> Nat]
  <2> HIDE DEF w
  <2> QED
    BY <1>1, <1>2, LockedWindowType DEF BackedInv
<1>4. /\ \A h \in Holders : w.reserved[h] <= w.held[h]
      /\ cron.pc # "idle" => ~(w.resetAt <= cron.at)
  <2> HIDE DEF w
  <2> QED
    BY <1>1, <1>2, LockedWindowBacked
<1>5. CASE left > 0
  <2>1. PICK m \in 1 .. left :
           /\ SetWindow(w)
           /\ reserved' = [w.reserved EXCEPT ![g] = m]
           /\ held' = [w.held EXCEPT ![g] = m]
           /\ Finish(g)
           /\ UNCHANGED <<now, cron>>
    BY <1>5 DEF CommitMint
  <2>2. m <= m
    OBVIOUS
  <2> HIDE DEF w, left
  <2>3. ReservationsBacked'
    BY <1>1, <1>3, <1>4, <2>1, <2>2 DEF ReservationsBacked
  <2> QED
    BY <1>1, <1>4, <2>1, <2>3, FinishBacked DEF SetWindow
<1>6. CASE ~(left > 0)
  <2>1. RefuseReserve(g, w)
    BY <1>6 DEF CommitMint
  <2> HIDE DEF w
  <2> QED
    BY <2>1, <1>1, <1>2, RefuseReserveBacked
<1> QED
  BY <1>5, <1>6

\* A finalizer only ever clears what it does not itself zero out of the counter:
\* its correction of the window may be stale, and then it strands reservations, but
\* it never leaves one outside the counter.
LEMMA CommitChargeBacked ==
    ASSUME BackedInv, TypeOK', NEW h \in Holders, CommitCharge(h)
    PROVE  BackedInv'
<1> DEFINE t == tx[h]
           w == EnsureQuotaWindow(t.at, t.expired, used, t.owed)
           freed == w.reserved[h]
<1>1. PICK m \in 1 .. MaxCharge :
         /\ t.op = "charge"
         /\ SetWindow(w)
         /\ reserved' = [w.reserved EXCEPT ![h] = 0]
         /\ held' = [w.held EXCEPT ![h] = Monus(@, freed)]
         /\ Finish(h)
         /\ UNCHANGED <<now, cron>>
  BY Zenon DEF CommitCharge
<1>2. t.at = now
  BY <1>1 DEF BackedInv, TxsReadThisMonth
<1>3. /\ reserved \in [Holders -> Nat] /\ held \in [Holders -> Nat]
      /\ now \in 0 .. MaxMonth /\ resetAt \in 1 .. MaxMonth + 1
      /\ cron.at \in 0 .. MaxMonth
  BY DEF BackedInv, TypeOK, CronType
<1>4. /\ w.reserved \in {Nothing, reserved} /\ w.held \in {Nothing, held}
      /\ w.held = Nothing => w.reserved = Nothing \/ held = Nothing
      /\ w.resetAt \in {now + 1, resetAt}
  BY <1>2 DEF EnsureQuotaWindow
<1> HIDE DEF w, t
<1>5. /\ w.reserved \in [Holders -> Nat] /\ w.held \in [Holders -> Nat]
      /\ \A g \in Holders : w.reserved[g] <= w.held[g]
      /\ \A g \in Holders : reserved[g] = 0 => w.reserved[g] = 0
  BY <1>3, <1>4 DEF Nothing, BackedInv, ReservationsBacked
<1>6. ReservationsBacked'
  BY <1>1, <1>5 DEF ReservationsBacked, Monus
<1>7. ClearedStaysClear'
  <2> SUFFICES ASSUME resetAt' <= cron.at, cron.pc # "idle" PROVE ClearedStaysClear'
    BY <1>1 DEF ClearedStaysClear
  <2>1. resetAt' = resetAt
    BY <1>1, <1>3, <1>4 DEF SetWindow, BackedInv, CronReadsNoFuture
  <2>2. \A g \in Holders : reserved[g] = 0 => reserved'[g] = 0
    BY <1>1, <1>5
  <2> QED
    BY <2>1, <2>2, <1>1 DEF BackedInv, ClearedStaysClear, Holders
<1>8. TxsReadThisMonth' /\ CronReadsNoFuture'
  BY <1>1 DEF BackedInv, TxsReadThisMonth, CronReadsNoFuture, Finish, Idle, TypeOK
<1> QED
  BY <1>6, <1>7, <1>8 DEF BackedInv

\* A settlement takes the same minutes out of the column and out of the counter.
LEMMA ReleaseBacked ==
    ASSUME BackedInv, TypeOK', NEW h \in Holders, Release(h)
    PROVE  BackedInv'
<1> USE DEF BackedInv, TypeOK
<1>1. ReservationsBacked'
  BY DEF Release, ReservationsBacked, Monus
<1>2. TxsReadThisMonth' /\ CronReadsNoFuture'
  BY DEF Release, TxsReadThisMonth, CronReadsNoFuture
<1>3. ClearedStaysClear'
  BY DEF Release, ClearedStaysClear, Holders
<1> QED
  BY <1>1, <1>2, <1>3

\* A step that only starts or abandons a transaction.
LEMMA TxOnlyBacked ==
    ASSUME BackedInv, TypeOK', NEW h \in Holders, NEW r,
           tx' = [tx EXCEPT ![h] = r], r.op # "idle" => r.at = now,
           UNCHANGED <<now, resetAt, reserved, cron, held>>
    PROVE  BackedInv'
<1> USE DEF BackedInv, TypeOK
<1>1. TxsReadThisMonth'
  BY DEF TxsReadThisMonth
<1>2. CronReadsNoFuture' /\ ClearedStaysClear' /\ ReservationsBacked'
  BY DEF CronReadsNoFuture, ClearedStaysClear, ReservationsBacked
<1> QED
  BY <1>1, <1>2

\* A window correction outside a transaction clears every reservation with the counter.
LEMMA EnsureTopLevelBacked ==
    ASSUME BackedInv, TypeOK', EnsureTopLevel
    PROVE  BackedInv'
<1> DEFINE w == EnsureLocked(now, used)
<1>1. used \in Nat
  BY DEF BackedInv, TypeOK
<1>2. /\ \A h \in Holders : w.reserved[h] <= w.held[h]
      /\ cron.pc # "idle" => ~(w.resetAt <= cron.at)
  <2> HIDE DEF w
  <2> QED
    BY <1>1, LockedWindowBacked DEF w
<1>3. /\ resetAt' = w.resetAt /\ reserved' = w.reserved /\ held' = w.held
      /\ UNCHANGED <<now, tx, cron>>
  BY DEF EnsureTopLevel, SetWindow
<1> HIDE DEF w
<1> QED
  BY <1>2, <1>3 DEF BackedInv, TxsReadThisMonth, CronReadsNoFuture, ClearedStaysClear,
                    ReservationsBacked

\* The cron clears the columns before it zeroes the counter, statement by statement.
LEMMA CronStepBacked ==
    ASSUME BackedInv, TypeOK', Cron
    PROVE  BackedInv'
<1> USE DEF BackedInv
<1>1. CASE CronStart
  <2>1. cron \in CronType /\ now \in Nat
    BY DEF TypeOK
  <2>2. cron'.at = now /\ cron'.pc \in {"owed", "find"}
    BY <1>1, <2>1, SMTT(30) DEF CronStart, CronType
  <2>3. UNCHANGED <<now, resetAt, reserved, held, tx>>
    BY <1>1 DEF CronStart, userRow
  <2> QED
    BY <2>1, <2>2, <2>3, SMTT(30) DEF TxsReadThisMonth, CronReadsNoFuture,
                                      ClearedStaysClear, ReservationsBacked
<1>2. CASE CronOwed
  <2>1. cron'.at = cron.at /\ cron'.pc = "slots" /\ cron.pc = "owed"
    BY <1>2, SMTT(30) DEF CronOwed, TypeOK, CronType
  <2>2. UNCHANGED <<now, resetAt, reserved, held, tx>>
    BY <1>2 DEF CronOwed, userRow
  <2> QED
    BY <2>1, <2>2, SMTT(30) DEF TxsReadThisMonth, CronReadsNoFuture,
                                ClearedStaysClear, ReservationsBacked
<1>3. CASE CronClearSlots
  BY <1>3 DEF CronClearSlots, TypeOK, CronType, TxsReadThisMonth, CronReadsNoFuture,
              ClearedStaysClear, ReservationsBacked, userRow, Holders
<1>4. CASE CronClearGrants
  <2>1. \A g \in Grants : g \in Holders
    BY DEF Holders
  <2>2. \A s \in Slots : s \in Holders /\ s \notin Grants
    BY HoldersAssumption DEF Holders
  <2> QED
    BY <1>4, <2>1, <2>2 DEF CronClearGrants, TypeOK, CronType, TxsReadThisMonth,
              CronReadsNoFuture, ClearedStaysClear, ReservationsBacked, userRow
<1>5. CASE CronUpdate
  <2>1. TxsReadThisMonth' /\ CronReadsNoFuture' /\ ClearedStaysClear'
    BY <1>5 DEF CronUpdate, CronIdle, TypeOK, CronType, TxsReadThisMonth,
                CronReadsNoFuture, ClearedStaysClear
  <2>2. ReservationsBacked'
    <3>1. CASE resetAt <= cron.at
      <4>1. \A h \in Holders : reserved[h] = 0
        BY <1>5, <3>1 DEF CronUpdate, ClearedStaysClear, Holders
      <4> QED
        BY <1>5, <3>1, <4>1 DEF CronUpdate, ReservationsBacked, Nothing
    <3>2. CASE ~(resetAt <= cron.at)
      BY <1>5, <3>2 DEF CronUpdate, ReservationsBacked
    <3> QED
      BY <3>1, <3>2
  <2> QED
    BY <2>1, <2>2
<1>6. CASE CronFind
  BY <1>6, SMTT(30) DEF CronFind, CronIdle, TypeOK, CronType, TxsReadThisMonth,
              CronReadsNoFuture, ClearedStaysClear, ReservationsBacked, userRow
<1>7. CASE CronCrash
  BY <1>7, SMTT(30) DEF CronCrash, CronIdle, TypeOK, CronType, TxsReadThisMonth,
              CronReadsNoFuture, ClearedStaysClear, ReservationsBacked, userRow
<1> QED
  BY <1>1, <1>2, <1>3, <1>4, <1>5, <1>6, <1>7 DEF Cron

\* Every step keeps the inductive invariant.
LEMMA BackedStep ==
    ASSUME ~Straddle
    PROVE  BackedInv /\ [Next]_vars => BackedInv'
<1> SUFFICES ASSUME BackedInv, [Next]_vars PROVE BackedInv'
  OBVIOUS
<1>0. TypeOK'
  BY TypeStep DEF BackedInv
<1>1. CASE Tick
  BY <1>0, <1>1 DEF Tick, Quiet, BackedInv, TypeOK, CronType, TxsReadThisMonth,
     CronReadsNoFuture, ClearedStaysClear, ReservationsBacked, userRow
<1>2. CASE EnsureTopLevel
  BY <1>0, <1>2, EnsureTopLevelBacked
<1>3. CASE Cron
  BY <1>0, <1>3, CronStepBacked
<1>4. ASSUME NEW h \in Holders, Request(h) PROVE BackedInv'
  <2>1. ASSUME NEW op, op # "idle", BeginReserve(h, op) PROVE BackedInv'
    <3>1. Running(op, FALSE, 0).at = now
      BY DEF Running
    <3> QED
      BY <2>1, <3>1, <1>0, TxOnlyBacked DEF BeginReserve, userRow
  <2>2. CASE BeginInit(h) \/ BeginTopUp(h) \/ BeginRegister(h) \/ BeginMint(h)
    BY <2>1, <2>2 DEF BeginInit, BeginTopUp, BeginRegister, BeginMint
  <2>3. CASE CommitReserve(h)
    BY <1>0, <2>3, CommitReserveBacked
  <2>4. CASE h \in Grants /\ CommitMint(h)
    BY <1>0, <2>4, CommitMintBacked
  <2>5. CASE Release(h)
    BY <1>0, <2>5, ReleaseBacked
  <2>6. CASE BeginCharge(h)
    <3> DEFINE r == Running("charge", resetAt <= now, OwedByHolder(used))
    <3>1. r.at = now
      BY DEF Running
    <3>2. tx' = [tx EXCEPT ![h] = r] /\ UNCHANGED <<now, resetAt, reserved, cron, held>>
      BY <2>6 DEF BeginCharge, userRow
    <3> HIDE DEF r
    <3> QED
      BY <3>1, <3>2, <1>0, TxOnlyBacked
  <2>7. CASE CommitCharge(h)
    BY <1>0, <2>7, CommitChargeBacked
  <2>8. CASE Abort(h)
    BY <1>0, <2>8, TxOnlyBacked DEF Abort, Finish, Idle, userRow
  <2> QED
    BY <1>4, <2>2, <2>3, <2>4, <2>5, <2>6, <2>7, <2>8 DEF Request
<1>5. CASE UNCHANGED vars
  BY <1>0, <1>5 DEF vars, userRow, BackedInv, TxsReadThisMonth, CronReadsNoFuture,
     ClearedStaysClear, ReservationsBacked
<1> QED
  BY <1>1, <1>2, <1>3, <1>4, <1>5 DEF Next

\* Initially nothing is reserved, held or running.
LEMMA BackedInit == Init => BackedInv
<1>1. Init => TypeOK
  BY BoundsAssumption
     DEF Init, TypeOK, Nothing, Idle, TxType, CronIdle, CronType
<1> QED
  BY <1>1 DEF Init, BackedInv, TxsReadThisMonth, CronReadsNoFuture,
     ClearedStaysClear, ReservationsBacked, Nothing, Idle, CronIdle

\* As long as no month begins inside a transaction, what a settlement releases is
\* part of the counter it is released from: no free minutes, whatever the requests,
\* the cron and its crashes do in between.
THEOREM Backed ==
    ASSUME ~Straddle
    PROVE  Spec => []ReservationsBacked
<1>1. BackedInv => ReservationsBacked
  BY DEF BackedInv
<1> QED
  BY <1>1, BackedInit, BackedStep, PTL DEF Spec

----------------------------------------------------------------------------
\* The sum of f over a set: one point for each unit.
Marks(S, f) == UNION {{i} \X (1 .. f[i]) : i \in S}
Amount(S, f) == Cardinality(Marks(S, f))

\* A sum over a finite set is a natural number.
LEMMA AmountNat ==
    ASSUME NEW S, IsFiniteSet(S), NEW f, \A i \in S : f[i] \in Nat
    PROVE  IsFiniteSet(Marks(S, f)) /\ Amount(S, f) \in Nat
<1> DEFINE Rows == {{i} \X (1 .. f[i]) : i \in S}
           row == [i \in S |-> {i} \X (1 .. f[i])]
<1>1. IsFiniteSet(Rows)
  <2>1. row \in Surjection(S, Rows)
    BY DEF Surjection
  <2> QED
    BY <2>1, FS_Surjection
<1>2. ASSUME NEW R \in Rows PROVE IsFiniteSet(R)
  <2>1. PICK i \in S : R = {i} \X (1 .. f[i])
    BY <1>2
  <2>2. IsFiniteSet({i})
    BY FS_Singleton
  <2>3. f[i] \in Int
    OBVIOUS
  <2>4. IsFiniteSet(1 .. f[i])
    BY <2>3, FS_Interval
  <2> QED
    BY <2>1, <2>2, <2>4, FS_Product
<1>3. IsFiniteSet(UNION Rows)
  BY <1>1, <1>2, FS_UNION
<1> QED
  BY <1>3, FS_CardinalityType DEF Marks, Amount

\* Larger terms have a larger sum.
LEMMA AmountMonotone ==
    ASSUME NEW S, IsFiniteSet(S), NEW f, NEW g,
           \A i \in S : f[i] \in Nat /\ g[i] \in Nat /\ f[i] <= g[i]
    PROVE  Amount(S, f) <= Amount(S, g)
<1>1. Marks(S, f) \subseteq Marks(S, g)
  <2> SUFFICES ASSUME NEW p \in Marks(S, f) PROVE p \in Marks(S, g)
    OBVIOUS
  <2>1. PICK i \in S : p \in {i} \X (1 .. f[i])
    BY DEF Marks
  <2>2. p \in {i} \X (1 .. g[i])
    BY <2>1
  <2> QED
    BY <2>2 DEF Marks
<1>2. IsFiniteSet(Marks(S, g))
  BY AmountNat
<1> QED
  BY <1>1, <1>2, FS_Subset DEF Amount

\* Terms that are all nothing sum to nothing.
LEMMA AmountZero ==
    ASSUME NEW S, NEW f, \A i \in S : f[i] = 0
    PROVE  Amount(S, f) = 0
<1>1. 1 .. 0 = {}
  OBVIOUS
<1>2. Marks(S, f) = {}
  BY <1>1 DEF Marks
<1> QED
  BY <1>2, FS_EmptySet DEF Amount

\* One term that grows by n makes the sum grow by n.
LEMMA AmountAdd ==
    ASSUME NEW S, IsFiniteSet(S), NEW f, NEW g, NEW e \in S, NEW n \in Nat,
           \A i \in S : f[i] \in Nat /\ g[i] \in Nat,
           \A i \in S \ {e} : g[i] = f[i], g[e] = f[e] + n
    PROVE  Amount(S, g) = Amount(S, f) + n
<1> DEFINE E == {e} \X (f[e] + 1 .. f[e] + n)
<1>0. f[e] \in Nat /\ f[e] + 1 \in Int /\ f[e] + n \in Int
  OBVIOUS
<1>1. Marks(S, g) = Marks(S, f) \cup E
  <2>1. ASSUME NEW p \in Marks(S, g) PROVE p \in Marks(S, f) \cup E
    <3>1. PICK i \in S : p \in {i} \X (1 .. g[i])
      BY DEF Marks
    <3>2. CASE i = e
      <4>1. p \in {i} \X (1 .. f[i]) \/ p \in E
        BY <1>0, <3>1, <3>2
      <4> QED
        BY <4>1 DEF Marks
    <3>3. CASE i # e
      <4>1. p \in {i} \X (1 .. f[i])
        BY <3>1, <3>3
      <4> QED
        BY <4>1 DEF Marks
    <3> QED
      BY <3>2, <3>3
  <2>2. ASSUME NEW p \in Marks(S, f) PROVE p \in Marks(S, g)
    <3>1. PICK i \in S : p \in {i} \X (1 .. f[i])
      BY DEF Marks
    <3>2. p \in {i} \X (1 .. g[i])
      BY <1>0, <3>1
    <3> QED
      BY <3>2 DEF Marks
  <2>3. ASSUME NEW p \in E PROVE p \in Marks(S, g)
    <3>1. p \in {e} \X (1 .. g[e])
      BY <1>0, <2>3
    <3> QED
      BY <3>1 DEF Marks
  <2> QED
    BY <2>1, <2>2, <2>3
<1>2. Marks(S, f) \cap E = {}
  <2> SUFFICES ASSUME NEW p \in Marks(S, f), p \in E PROVE FALSE
    OBVIOUS
  <2>1. PICK i \in S : p \in {i} \X (1 .. f[i])
    BY DEF Marks
  <2>2. i = e /\ p[2] \in 1 .. f[e] /\ p[2] \in f[e] + 1 .. f[e] + n
    BY <2>1
  <2> QED
    BY <1>0, <2>2
<1>3. IsFiniteSet(E) /\ Cardinality(E) = n
  <2>1. IsFiniteSet({e}) /\ Cardinality({e}) = 1
    BY FS_Singleton
  <2>2. IsFiniteSet(f[e] + 1 .. f[e] + n) /\ Cardinality(f[e] + 1 .. f[e] + n) = n
    <3>1. /\ IsFiniteSet(f[e] + 1 .. f[e] + n)
          /\ Cardinality(f[e] + 1 .. f[e] + n)
               = IF f[e] + 1 > f[e] + n THEN 0 ELSE (f[e] + n) - (f[e] + 1) + 1
      BY <1>0, FS_Interval
    <3> QED
      BY <1>0, <3>1
  <2> DEFINE I == f[e] + 1 .. f[e] + n
  <2>3. IsFiniteSet(I) /\ Cardinality(I) = n
    BY <2>2
  <2> HIDE DEF I
  <2>4. IsFiniteSet({e} \X I) /\ Cardinality({e} \X I) = n
    BY <2>1, <2>3, FS_Product
  <2> QED
    BY <2>4 DEF I
<1>4. IsFiniteSet(Marks(S, f)) /\ Cardinality(Marks(S, f)) \in Nat
  BY AmountNat DEF Amount
<1>5. Cardinality(Marks(S, f) \cap E) = 0
  BY <1>2, FS_EmptySet
<1>6. Cardinality(Marks(S, f) \cup E)
        = Cardinality(Marks(S, f)) + Cardinality(E) - Cardinality(Marks(S, f) \cap E)
  BY <1>3, <1>4, FS_Union
<1> HIDE DEF E
<1>7. Cardinality(Marks(S, g)) = Cardinality(Marks(S, f)) + n
  BY <1>1, <1>3, <1>4, <1>5, <1>6
<1> QED
  BY <1>7 DEF Amount

\* The same for the minutes of the holders: what one of them gains.
LEMMA MinutesAdd ==
    ASSUME NEW f \in [Holders -> Nat], NEW g \in [Holders -> Nat], NEW e \in Holders,
           NEW n \in Nat, \A h \in Holders \ {e} : g[h] = f[h], g[e] = f[e] + n
    PROVE  Minutes(g) = Minutes(f) + n
<1>1. IsFiniteSet(Holders)
  BY HoldersAssumption, FS_Union DEF Holders, Slots
<1>2. Minutes(f) = Amount(Holders, f) /\ Minutes(g) = Amount(Holders, g)
  BY DEF Minutes, Amount, Marks
<1>3. \A h \in Holders : f[h] \in Nat /\ g[h] \in Nat
  OBVIOUS
<1> QED
  BY <1>1, <1>2, <1>3, AmountAdd

\* Less held by each holder is less held in all.
LEMMA MinutesMonotone ==
    ASSUME NEW f \in [Holders -> Nat], NEW g \in [Holders -> Nat],
           \A h \in Holders : f[h] <= g[h]
    PROVE  Minutes(f) <= Minutes(g)
<1>1. IsFiniteSet(Holders)
  BY HoldersAssumption, FS_Union DEF Holders, Slots
<1>2. Minutes(f) = Amount(Holders, f) /\ Minutes(g) = Amount(Holders, g)
  BY DEF Minutes, Amount, Marks
<1>3. \A h \in Holders : f[h] \in Nat /\ g[h] \in Nat
  OBVIOUS
<1> QED
  BY <1>1, <1>2, <1>3, AmountMonotone

\* Nothing held sums to nothing.
LEMMA MinutesNothing == Nothing \in [Holders -> Nat] /\ Minutes(Nothing) = 0
<1>1. \A h \in Holders : Nothing[h] = 0
  BY DEF Nothing
<1>2. Minutes(Nothing) = Amount(Holders, Nothing)
  BY DEF Minutes, Amount, Marks
<1>3. Nothing \in [Holders -> Nat]
  BY DEF Nothing
<1> QED
  BY <1>1, <1>2, <1>3, AmountZero

\* What one holder gives up, it had: the sum falls by as much.
LEMMA MinutesTake ==
    ASSUME NEW f \in [Holders -> Nat], NEW e \in Holders, NEW n \in Nat, n <= f[e]
    PROVE  /\ [f EXCEPT ![e] = Monus(@, n)] \in [Holders -> Nat]
           /\ Minutes(f) = Minutes([f EXCEPT ![e] = Monus(@, n)]) + n
           /\ Minutes(f) \in Nat /\ Minutes([f EXCEPT ![e] = Monus(@, n)]) \in Nat
<1> DEFINE g == [f EXCEPT ![e] = Monus(@, n)]
<1>1. f[e] \in Nat /\ Monus(f[e], n) \in Nat /\ f[e] = Monus(f[e], n) + n
  BY DEF Monus
<1>2. g \in [Holders -> Nat] /\ g[e] = Monus(f[e], n)
      /\ \A h \in Holders \ {e} : f[h] = g[h]
  BY <1>1
<1>3. Minutes(f) = Minutes(g) + n
  <2> HIDE DEF g
  <2> QED
    BY <1>1, <1>2, MinutesAdd
<1>4. Minutes(f) \in Nat /\ Minutes(g) \in Nat
  BY <1>2, MinutesNat
<1> QED
  BY <1>2, <1>3, <1>4

----------------------------------------------------------------------------
\* The steps that move minutes commit: all the others leave the counter, its window
\* and what is held alone, or roll the whole window over.
Keeps == UNCHANGED <<used, resetAt, held, charged>>
RolledOver(at) == /\ resetAt <= at /\ resetAt' = at + 1
                  /\ used' = 0 /\ charged' = 0 /\ held' = Nothing
KeepsOrRolls == Keeps \/ \E at \in 0 .. MaxMonth : RolledOver(at)

\* A correction of the window is one or the other, if it corrects the counter as it is.
LEMMA CorrectionRolls ==
    ASSUME TypeOK, NEW at \in 0 .. MaxMonth, NEW e \in BOOLEAN, NEW o, NEW w,
           w = EnsureQuotaWindow(at, e, used, o),
           used' = w.used, resetAt' = w.resetAt, held' = w.held, charged' = w.charged
    PROVE  KeepsOrRolls
<1>1. CASE e /\ resetAt <= at
  BY <1>1 DEF EnsureQuotaWindow, KeepsOrRolls, RolledOver
<1>2. CASE ~(e /\ resetAt <= at)
  BY <1>2 DEF EnsureQuotaWindow, KeepsOrRolls, Keeps
<1> QED
  BY <1>1, <1>2

\* A refused reservation commits nothing, or a correction.
LEMMA RefusalRolls ==
    ASSUME TypeOK, NEW h \in Holders, NEW p, p = IF tx[h].op = "init" THEN reserved[h] ELSE 0,
           NEW w, w = EnsureLocked(tx[h].at, Monus(used, p)), RefuseReserve(h, w)
    PROVE  KeepsOrRolls /\ UNCHANGED <<ledger, grant>>
<1>1. CASE tx[h].op = "init"
  BY <1>1 DEF RefuseReserve, KeepsOrRolls, Keeps, userRow
<1>2. CASE tx[h].op # "init"
  <2>1. used \in Nat /\ tx[h].at \in 0 .. MaxMonth
    BY DEF TypeOK, TxType
  <2>2. Monus(used, p) = used
    BY <1>2, <2>1 DEF Monus
  <2>3. w = EnsureQuotaWindow(tx[h].at, resetAt <= tx[h].at, used, OwedByHolder(used))
    BY <2>2 DEF EnsureLocked
  <2>4. used' = w.used /\ resetAt' = w.resetAt /\ held' = w.held /\ charged' = w.charged
    BY <1>2 DEF RefuseReserve, SetWindow
  <2>5. (resetAt <= tx[h].at) \in BOOLEAN
    OBVIOUS
  <2>6. KeepsOrRolls
    BY <2>1, <2>3, <2>4, <2>5, CorrectionRolls
  <2> QED
    BY <2>6 DEF RefuseReserve
<1> QED
  BY <1>1, <1>2

\* The cron, and whatever only begins, ends or ticks.
LEMMA OthersRoll ==
    ASSUME TypeOK, [Next]_vars,
           \A h \in Holders : ~(CommitReserve(h) \/ (h \in Grants /\ CommitMint(h))
                                \/ CommitCharge(h) \/ Release(h))
    PROVE  KeepsOrRolls /\ UNCHANGED <<ledger, grant>>
<1>1. CASE EnsureTopLevel
  <2> DEFINE w == EnsureLocked(now, used)
  <2>1. w = EnsureQuotaWindow(now, resetAt <= now, used, OwedByHolder(used))
    BY DEF EnsureLocked
  <2>2. /\ used' = w.used /\ resetAt' = w.resetAt /\ held' = w.held /\ charged' = w.charged
        /\ UNCHANGED <<ledger, grant>>
    BY <1>1 DEF EnsureTopLevel, SetWindow
  <2>3. now \in 0 .. MaxMonth /\ (resetAt <= now) \in BOOLEAN
    BY DEF TypeOK
  <2> HIDE DEF w
  <2> QED
    BY <2>1, <2>2, <2>3, CorrectionRolls
<1>2. CASE CronUpdate
  <2>1. cron.at \in 0 .. MaxMonth
    BY DEF TypeOK, CronType
  <2> QED
    BY <1>2, <2>1 DEF CronUpdate, KeepsOrRolls, Keeps, RolledOver
<1>3. CASE Cron /\ ~CronUpdate
  BY <1>3 DEF Cron, CronStart, CronOwed, CronClearSlots, CronClearGrants, CronFind,
              CronCrash, KeepsOrRolls, Keeps, userRow
<1>4. CASE Tick \/ UNCHANGED vars
  BY <1>4 DEF Tick, vars, KeepsOrRolls, Keeps, userRow
<1>5. ASSUME NEW h \in Holders, Request(h) PROVE KeepsOrRolls /\ UNCHANGED <<ledger, grant>>
  BY <1>5 DEF Request, BeginInit, BeginTopUp, BeginRegister, BeginMint, BeginReserve,
              BeginCharge, Abort, KeepsOrRolls, Keeps, userRow
<1> QED
  BY <1>1, <1>2, <1>3, <1>4, <1>5 DEF Next

----------------------------------------------------------------------------
\* A grant that was not minted holds nothing, also while the transaction runs that
\* will mint it.
MintIsNew == \A g \in Grants :
    /\ tx[g].op \in {"idle", "mint", "charge"}
    /\ tx[g].op = "mint" => grant[g] = "none"
    /\ grant[g] = "none" => held[g] = 0
ExplainedInv == BackedInv /\ MintIsNew /\ CounterExplained

\* The counter after a correction is explained by what the correction leaves, also
\* when a reservation that will be replaced was taken out of it first.
LEMMA WindowExplained ==
    ASSUME TypeOK, CounterExplained, NEW s \in Holders, NEW p \in Nat, p <= held[s],
           NEW at, NEW e, NEW o, NEW w, w = EnsureQuotaWindow(at, e, Monus(used, p), o)
    PROVE  w.used = w.charged + Minutes([w.held EXCEPT ![s] = Monus(@, p)])
<1>1. CASE e /\ resetAt <= at
  <2>1. w.used = 0 /\ w.charged = 0 /\ w.held = Nothing
    BY <1>1 DEF EnsureQuotaWindow
  <2>2. [Nothing EXCEPT ![s] = Monus(@, p)] = Nothing
    BY DEF Nothing, Monus
  <2>3. [w.held EXCEPT ![s] = Monus(@, p)] = Nothing
    BY <2>1, <2>2
  <2> DEFINE x == [w.held EXCEPT ![s] = Monus(@, p)]
  <2>4. x = Nothing
    BY <2>3
  <2> HIDE DEF x
  <2>5. Minutes(x) = 0
    BY <2>4, MinutesNothing
  <2>6. w.used = w.charged + Minutes(x)
    BY <2>1, <2>5
  <2> QED
    BY <2>6 DEF x
<1>2. CASE ~(e /\ resetAt <= at)
  <2>1. w.used = Monus(used, p) /\ w.charged = charged /\ w.held = held
    BY <1>2 DEF EnsureQuotaWindow
  <2> DEFINE k == Minutes([held EXCEPT ![s] = Monus(@, p)])
  <2>0. held \in [Holders -> Nat]
    BY DEF TypeOK
  <2>2. Minutes(held) = k + p /\ k \in Nat
    BY <2>0, MinutesTake
  <2>3. used = charged + Minutes(held) /\ charged \in Nat /\ used \in Nat
    BY DEF CounterExplained, TypeOK
  <2> HIDE DEF k
  <2>4. Monus(used, p) = charged + k
    BY <2>2, <2>3 DEF Monus
  <2> QED
    BY <2>1, <2>4 DEF k
<1> QED
  BY <1>1, <1>2

\* What keeps or rolls the window over keeps the counter explained.
LEMMA KeptExplained ==
    ASSUME TypeOK, CounterExplained, KeepsOrRolls
    PROVE  CounterExplained'
<1>1. CASE Keeps
  BY <1>1 DEF Keeps, CounterExplained, Minutes
<1>2. CASE ~Keeps
  <2>1. used' = 0 /\ charged' = 0 /\ held' = Nothing
    BY <1>2 DEF KeepsOrRolls, RolledOver
  <2>2. Minutes(held)' = Minutes(held')
    BY DEF Minutes
  <2> QED
    BY <2>1, <2>2, MinutesNothing DEF CounterExplained
<1> QED
  BY <1>1, <1>2

\* A reservation enters the counter and what is held together; the one it replaces
\* leaves both.
LEMMA CommitReserveExplained ==
    ASSUME ExplainedInv, NEW s \in Holders, CommitReserve(s)
    PROVE  CounterExplained'
<1> DEFINE t == tx[s]
           prior == IF t.op = "init" THEN reserved[s] ELSE 0
           u == Monus(used, prior)
           w == EnsureLocked(t.at, u)
           kept == IF t.op = "topup" THEN w.reserved[s] ELSE 0
<1>1. PICK want \in 1 .. MaxReserve :
        LET need == IF t.op = "topup" THEN Monus(want, reserved[s]) ELSE want
        IN  IF w.used + need <= limit + w.pool
            THEN /\ used' = w.used + need
                 /\ held' = [w.held EXCEPT ![s] = Monus(@, prior) + need]
                 /\ charged' = w.charged
            ELSE RefuseReserve(s, w)
  BY Zenon DEF CommitReserve
<1> DEFINE need == IF t.op = "topup" THEN Monus(want, reserved[s]) ELSE want
<1>2. /\ TypeOK /\ CounterExplained /\ t.at \in 0 .. MaxMonth
      /\ u \in Nat /\ prior \in Nat /\ need \in Nat /\ prior <= held[s]
  <2>1. /\ TypeOK /\ CounterExplained /\ t.at \in 0 .. MaxMonth
        /\ reserved[s] \in Nat /\ held[s] \in Nat /\ used \in Nat /\ reserved[s] <= held[s]
    BY DEF ExplainedInv, BackedInv, ReservationsBacked, TypeOK, TxType
  <2>2. want \in Nat
    BY BoundsAssumption
  <2> QED
    BY <2>1, <2>2 DEF Monus
<1>3. w = EnsureQuotaWindow(t.at, resetAt <= t.at, Monus(used, prior), OwedByHolder(u))
  BY DEF EnsureLocked
<1>4. w.held \in [Holders -> Nat] /\ w.used \in Nat /\ w.charged \in Nat
  <2> HIDE DEF t, u, w
  <2>1. w = EnsureLocked(t.at, u)
    BY DEF w
  <2> QED
    BY <1>2, <2>1, LockedWindowType
<1>5. w.used = w.charged + Minutes([w.held EXCEPT ![s] = Monus(@, prior)])
  <2> HIDE DEF t, u, w, prior
  <2> QED
    BY <1>2, <1>3, WindowExplained
<1>6. CASE w.used + need <= limit + w.pool
  <2>1. /\ used' = w.used + need /\ charged' = w.charged
        /\ held' = [w.held EXCEPT ![s] = Monus(@, prior) + need]
    BY <1>1, <1>6
  <2> HIDE DEF t, u, w, prior, need
  <2> DEFINE f == [w.held EXCEPT ![s] = Monus(@, prior)]
  <2>2. Monus(w.held[s], prior) \in Nat
    BY <1>2, <1>4 DEF Monus
  <2>3. /\ f \in [Holders -> Nat] /\ held' \in [Holders -> Nat]
        /\ held'[s] = f[s] + need /\ \A h \in Holders \ {s} : held'[h] = f[h]
    BY <1>2, <1>4, <2>1, <2>2
  <2>4. Minutes(held') = Minutes(f) + need
    <3> HIDE DEF f
    <3> QED
      BY <1>2, <2>3, MinutesAdd
  <2>5. Minutes(f) \in Nat
    BY <2>3, MinutesNat
  <2>6. Minutes(held)' = Minutes(held')
    BY DEF Minutes
  <2> HIDE DEF f
  <2> QED
    BY <1>2, <1>4, <1>5, <2>1, <2>4, <2>5, <2>6 DEF CounterExplained, f
<1>7. CASE ~(w.used + need <= limit + w.pool)
  <2>1. RefuseReserve(s, w)
    BY <1>1, <1>7
  <2>2. w = EnsureLocked(tx[s].at, Monus(used, prior))
        /\ prior = IF tx[s].op = "init" THEN reserved[s] ELSE 0
    OBVIOUS
  <2> HIDE DEF w, prior, u, t
  <2> QED
    BY <1>2, <2>1, <2>2, RefusalRolls, KeptExplained
<1> QED
  BY <1>6, <1>7

\* A grant holds nothing before it is minted, and then exactly what the counter gained.
LEMMA CommitMintExplained ==
    ASSUME ExplainedInv, NEW g \in Grants, CommitMint(g)
    PROVE  CounterExplained'
<1> DEFINE w == EnsureLocked(tx[g].at, used)
           left == AtMost(MaxReserve, Monus(limit + w.pool, w.used))
<1>1. /\ TypeOK /\ CounterExplained /\ g \in Holders /\ used \in Nat
      /\ tx[g].at \in 0 .. MaxMonth /\ limit \in Nat /\ tx[g].op = "mint"
      /\ held[g] = 0
  BY DEF ExplainedInv, BackedInv, TypeOK, TxType, Holders, CommitMint, MintIsNew
<1>2. Monus(used, 0) = used
  BY <1>1 DEF Monus
<1>3. w = EnsureQuotaWindow(tx[g].at, resetAt <= tx[g].at, Monus(used, 0), OwedByHolder(used))
  BY <1>2 DEF EnsureLocked
<1>4. w.held[g] = 0
  BY <1>1, <1>3 DEF EnsureQuotaWindow, Nothing
<1>5. w.held \in [Holders -> Nat] /\ w.used \in Nat /\ w.charged \in Nat /\ w.pool \in Nat
  <2>1. w = EnsureLocked(tx[g].at, used)
    OBVIOUS
  <2> HIDE DEF w
  <2> QED
    BY <1>1, <2>1, LockedWindowType
<1>6. w.used = w.charged + Minutes(w.held)
  <2> HIDE DEF w
  <2>1. [w.held EXCEPT ![g] = Monus(@, 0)] = w.held
    BY <1>4, <1>5 DEF Monus
  <2>2. 0 \in Nat /\ 0 <= held[g]
    BY <1>1
  <2> QED
    BY <1>1, <1>3, <2>1, <2>2, WindowExplained
<1>7. CASE left > 0
  <2>1. PICK m \in 1 .. left :
          used' = w.used + m /\ held' = [w.held EXCEPT ![g] = m] /\ charged' = w.charged
    BY <1>7 DEF CommitMint
  <2> HIDE DEF w
  <2>2. m \in Nat
    BY <1>1, <1>5, BoundsAssumption DEF AtMost, Monus
  <2>3. /\ held' \in [Holders -> Nat] /\ held'[g] = w.held[g] + m
        /\ \A h \in Holders \ {g} : held'[h] = w.held[h]
    BY <1>1, <1>4, <1>5, <2>1, <2>2
  <2>4. Minutes(held') = Minutes(w.held) + m
    BY <1>1, <1>5, <2>2, <2>3, MinutesAdd
  <2>5. Minutes(w.held) \in Nat /\ Minutes(held)' = Minutes(held')
    BY <1>5, MinutesNat DEF Minutes
  <2> QED
    BY <1>5, <1>6, <2>1, <2>2, <2>4, <2>5 DEF CounterExplained
<1>8. CASE ~(left > 0)
  <2>1. RefuseReserve(g, w)
    BY <1>8 DEF CommitMint
  <2>2. w = EnsureLocked(tx[g].at, Monus(used, 0))
    BY <1>2
  <2>3. 0 = IF tx[g].op = "init" THEN reserved[g] ELSE 0
    BY <1>1
  <2> HIDE DEF w
  <2> QED
    BY <1>1, <2>1, <2>2, <2>3, RefusalRolls, KeptExplained
<1> QED
  BY <1>7, <1>8

\* A settlement alone takes the same out of the counter and out of what is held.
LEMMA ReleaseExplained ==
    ASSUME ExplainedInv, NEW h \in Holders, Release(h)
    PROVE  CounterExplained'
<1> DEFINE r == reserved[h]
           f == [held EXCEPT ![h] = Monus(@, r)]
<1>1. /\ used = charged + Minutes(held) /\ used \in Nat /\ charged \in Nat
      /\ held \in [Holders -> Nat] /\ r \in Nat /\ r <= held[h]
  BY DEF ExplainedInv, BackedInv, TypeOK, CounterExplained, ReservationsBacked
<1>2. Minutes(held) = Minutes(f) + r /\ Minutes(f) \in Nat
  BY <1>1, MinutesTake
<1>3. used' = Monus(used, r) /\ held' = f /\ charged' = charged
  BY DEF Release
<1>4. Minutes(held)' = Minutes(held')
  BY DEF Minutes
<1> HIDE DEF r, f
<1> QED
  BY <1>1, <1>2, <1>3, <1>4 DEF CounterExplained, Monus

\* A finalizer adds what it charges and takes out what it releases; its correction of
\* the window may be stale, but never leaves a reservation outside the counter.
LEMMA CommitChargeExplained ==
    ASSUME ExplainedInv, NEW h \in Holders, CommitCharge(h)
    PROVE  CounterExplained'
<1> DEFINE t == tx[h]
           w == EnsureQuotaWindow(t.at, t.expired, used, t.owed)
           freed == w.reserved[h]
           f == [w.held EXCEPT ![h] = Monus(@, freed)]
<1>1. PICK m \in 1 .. MaxCharge :
         /\ used' = IF h \in Grants THEN Monus(w.used, freed) + m
                                    ELSE Monus(w.used + m, freed)
         /\ held' = f
         /\ charged' = w.charged + m
  BY Zenon DEF CommitCharge
<1>2. /\ TypeOK /\ CounterExplained /\ ReservationsBacked
      /\ t.at \in 0 .. MaxMonth /\ t.expired \in BOOLEAN /\ t.owed \in Nat /\ used \in Nat
      /\ reserved \in [Holders -> Nat] /\ held \in [Holders -> Nat] /\ held[h] \in Nat
  BY DEF ExplainedInv, BackedInv, TypeOK, TxType
<1>3. /\ w.used \in Nat /\ w.charged \in Nat
      /\ w.reserved \in [Holders -> Nat] /\ w.held \in [Holders -> Nat]
  <2>1. w = EnsureQuotaWindow(t.at, t.expired, used, t.owed)
    OBVIOUS
  <2> HIDE DEF t, w
  <2> QED
    BY <1>2, <2>1, WindowType
<1>4. freed <= w.held[h] /\ freed \in Nat
  <2>1. w.reserved \in {Nothing, reserved} /\ (w.held = held \/ w.reserved = Nothing)
    BY DEF EnsureQuotaWindow
  <2> HIDE DEF w
  <2> QED
    BY <1>2, <1>3, <2>1 DEF ReservationsBacked, Nothing
<1>5. w.used = w.charged + Minutes(w.held)
  <2>1. Monus(used, 0) = used /\ 0 \in Nat /\ 0 <= held[h]
    BY <1>2 DEF Monus
  <2>2. w = EnsureQuotaWindow(t.at, t.expired, Monus(used, 0), t.owed)
    BY <2>1
  <2> HIDE DEF w, t
  <2>3. w.used = w.charged + Minutes([w.held EXCEPT ![h] = Monus(@, 0)])
    BY <1>2, <2>1, <2>2, WindowExplained
  <2>4. w.held[h] \in Nat /\ Monus(w.held[h], 0) = w.held[h]
    BY <1>3 DEF Monus
  <2>5. [w.held EXCEPT ![h] = Monus(@, 0)] = w.held
    BY <1>3, <2>4
  <2> QED
    BY <2>3, <2>5
<1>6. Minutes(w.held) = Minutes(f) + freed /\ Minutes(f) \in Nat
  <2> HIDE DEF w, t, freed
  <2> QED
    BY <1>3, <1>4, MinutesTake
<1>7. m \in Nat
  BY BoundsAssumption
<1> HIDE DEF w, t, freed, f
<1>8. used' = w.charged + Minutes(f) + m
  BY <1>1, <1>3, <1>4, <1>5, <1>6, <1>7 DEF Monus
<1>9. Minutes(held)' = Minutes(f)
  BY <1>1 DEF Minutes
<1> QED
  BY <1>1, <1>3, <1>6, <1>7, <1>8, <1>9 DEF CounterExplained

\* A grant that nobody has minted holds nothing after every step: only its own mint
\* lets it hold minutes, and no column's reservation is ever made for a grant.
LEMMA MintStep ==
    ASSUME TypeOK, MintIsNew, [Next]_vars, NEW g \in Grants
    PROVE  /\ tx'[g].op \in {"idle", "mint", "charge"}
           /\ tx'[g].op = "mint" => grant'[g] = "none"
           /\ grant'[g] = "none" => held'[g] = 0
<1>0. /\ g \in Holders /\ g \notin Slots /\ g \notin AsyncSlots /\ g \notin FullSlots
      /\ tx[g].op \in {"idle", "mint", "charge"}
      /\ tx[g].op = "mint" => grant[g] = "none"
      /\ grant[g] = "none" => held[g] = 0
      /\ held[g] \in Nat
  BY HoldersAssumption DEF MintIsNew, Holders, Slots, TypeOK
<1>1. ASSUME NEW h \in Holders, NEW p, NEW w, w = EnsureLocked(tx[h].at, p)
      PROVE  w.held \in [Holders -> Nat] /\ w.held[g] \in {0, held[g]}
  BY <1>0, <1>1 DEF EnsureLocked, EnsureQuotaWindow, Nothing, TypeOK
<1>2. ASSUME NEW h \in Holders, Finish(h)
      PROVE  tx'[g] = tx[g] \/ tx'[g].op = "idle"
  BY <1>0, <1>2 DEF Finish, Idle, TypeOK
<1>3. ASSUME NEW h \in Holders, NEW w, RefuseReserve(h, w), w.held[g] \in {0, held[g]}
      PROVE  /\ tx'[g] = tx[g] \/ tx'[g].op = "idle"
             /\ grant' = grant /\ held'[g] \in {0, held[g]}
  BY <1>2, <1>3 DEF RefuseReserve
<1>4. ASSUME NEW h \in Holders, CommitReserve(h)
      PROVE  /\ tx'[g] = tx[g] \/ tx'[g].op = "idle"
             /\ grant' = grant /\ held'[g] \in {0, held[g]}
  <2> DEFINE t == tx[h]
             prior == IF t.op = "init" THEN reserved[h] ELSE 0
             w == EnsureLocked(t.at, Monus(used, prior))
  <2>1. h # g
    BY <1>0, <1>4 DEF CommitReserve
  <2>2. w.held \in [Holders -> Nat] /\ w.held[g] \in {0, held[g]}
    <3> HIDE DEF prior
    <3> QED
      BY <1>1
  <2>3. \/ /\ \E n : held' = [w.held EXCEPT ![h] = n]
           /\ Finish(h) /\ UNCHANGED grant
        \/ RefuseReserve(h, w)
    BY <1>4 DEF CommitReserve
  <2> HIDE DEF w
  <2> QED
    BY <1>0, <1>2, <1>3, <2>1, <2>2, <2>3
<1>5. ASSUME NEW h \in Grants, CommitMint(h)
      PROVE  \/ tx'[g].op = "idle" /\ grant'[g] = "open"
             \/ /\ tx'[g] = tx[g] \/ tx'[g].op = "idle"
                /\ grant'[g] = grant[g] /\ held'[g] \in {0, held[g]}
  <2> DEFINE w == EnsureLocked(tx[h].at, used)
  <2>1. h \in Holders
    BY DEF Holders
  <2>2. w.held \in [Holders -> Nat] /\ w.held[g] \in {0, held[g]}
    BY <1>1, <2>1
  <2>3. \/ /\ \E n : held' = [w.held EXCEPT ![h] = n]
           /\ Finish(h) /\ grant' = [grant EXCEPT ![h] = "open"]
        \/ RefuseReserve(h, w)
    BY <1>5 DEF CommitMint
  <2> HIDE DEF w
  <2>4. CASE RefuseReserve(h, w)
    BY <1>3, <2>1, <2>2, <2>4
  <2>5. CASE /\ \E n : held' = [w.held EXCEPT ![h] = n]
             /\ Finish(h) /\ grant' = [grant EXCEPT ![h] = "open"]
    <3>1. CASE h = g
      BY <1>0, <2>5, <3>1 DEF Finish, Idle, TypeOK
    <3>2. CASE h # g
      <4>1. grant'[g] = grant[g] /\ held'[g] = w.held[g]
        BY <1>0, <2>2, <2>5, <3>2 DEF TypeOK
      <4> QED
        BY <1>2, <2>1, <2>2, <2>5, <4>1
    <3> QED
      BY <3>1, <3>2
  <2> QED
    BY <2>3, <2>4, <2>5
<1>6. ASSUME NEW h \in Holders, CommitCharge(h) \/ Release(h)
      PROVE  /\ tx'[g] = tx[g] \/ tx'[g].op = "idle"
             /\ \/ grant'[g] = "settled" /\ tx'[g].op = "idle"
                \/ grant'[g] = grant[g] /\ held'[g] \in {0, held[g]}
  <2>1. CASE Release(h)
    BY <1>0, <2>1 DEF Release, TypeOK
  <2>2. CASE CommitCharge(h)
    <3> DEFINE w == EnsureQuotaWindow(tx[h].at, tx[h].expired, used, tx[h].owed)
    <3>1. w.held \in [Holders -> Nat] /\ w.held[g] \in {0, held[g]}
      BY <1>0 DEF EnsureQuotaWindow, Nothing, TypeOK
    <3>2. /\ \E n : held' = [w.held EXCEPT ![h] = n]
          /\ grant' = [i \in Grants |-> IF i = h THEN "settled" ELSE grant[i]]
          /\ Finish(h)
      BY <2>2 DEF CommitCharge
    <3> HIDE DEF w
    <3>3. CASE h = g
      BY <1>0, <3>2, <3>3 DEF Finish, Idle, TypeOK
    <3>4. CASE h # g
      <4>1. grant'[g] = grant[g] /\ held'[g] = w.held[g]
        BY <1>0, <3>1, <3>2, <3>4
      <4> QED
        BY <1>2, <3>1, <3>2, <4>1
    <3> QED
      BY <3>3, <3>4
  <2> QED
    BY <1>6, <2>1, <2>2
<1>7. CASE \A h \in Holders : ~(CommitReserve(h) \/ (h \in Grants /\ CommitMint(h))
                                \/ CommitCharge(h) \/ Release(h))
  <2>1. grant' = grant /\ held'[g] \in {0, held[g]}
    <3>1. KeepsOrRolls /\ grant' = grant
      BY <1>7, OthersRoll
    <3> QED
      BY <1>0, <3>1 DEF KeepsOrRolls, Keeps, RolledOver, Nothing
  <2>2. \/ tx'[g] = tx[g] \/ tx'[g].op \in {"idle", "charge"}
        \/ tx'[g].op = "mint" /\ grant[g] = "none"
    <3>1. ASSUME NEW h \in Holders, NEW op, BeginReserve(h, op)
          PROVE  tx'[g] = tx[g] \/ (h = g /\ tx'[g].op = op)
      BY <1>0, <3>1 DEF BeginReserve, Running, TypeOK
    <3>2. CASE Tick \/ EnsureTopLevel \/ Cron \/ UNCHANGED vars
      BY <3>2 DEF Tick, EnsureTopLevel, Cron, CronStart, CronOwed, CronClearSlots,
                  CronClearGrants, CronUpdate, CronFind, CronCrash, vars
    <3>3. ASSUME NEW h \in Holders, BeginCharge(h)
          PROVE  tx'[g] = tx[g] \/ tx'[g].op = "charge"
      BY <1>0, <3>3 DEF BeginCharge, Running, TypeOK
    <3>4. ASSUME NEW h \in Holders, Request(h)
          PROVE  \/ tx'[g] = tx[g] \/ tx'[g].op \in {"idle", "charge"}
                 \/ tx'[g].op = "mint" /\ grant[g] = "none"
      <4>1. BeginInit(h) \/ BeginTopUp(h) \/ BeginRegister(h) \/ BeginMint(h)
            \/ BeginCharge(h) \/ Abort(h)
        BY <1>7, <3>4 DEF Request
      <4> QED
        BY <1>0, <1>2, <3>1, <3>3, <4>1
           DEF BeginInit, BeginTopUp, BeginRegister, BeginMint, Abort
    <3> QED
      BY <3>2, <3>4 DEF Next
  <2> QED
    BY <1>0, <2>1, <2>2
<1> QED
  BY <1>0, <1>4, <1>5, <1>6, <1>7

\* Every step keeps the counter explained.
LEMMA ExplainedStep ==
    ASSUME ~Straddle
    PROVE  ExplainedInv /\ [Next]_vars => ExplainedInv'
<1> SUFFICES ASSUME ExplainedInv, [Next]_vars PROVE ExplainedInv'
  OBVIOUS
<1>0. TypeOK /\ MintIsNew /\ CounterExplained /\ BackedInv'
  BY BackedStep DEF ExplainedInv, BackedInv
<1>1. MintIsNew'
  BY <1>0, MintStep DEF MintIsNew
<1>2. CounterExplained'
  <2>1. CASE \A h \in Holders : ~(CommitReserve(h) \/ (h \in Grants /\ CommitMint(h))
                                  \/ CommitCharge(h) \/ Release(h))
    BY <1>0, <2>1, OthersRoll, KeptExplained
  <2>2. ASSUME NEW h \in Holders,
               CommitReserve(h) \/ (h \in Grants /\ CommitMint(h))
                 \/ CommitCharge(h) \/ Release(h)
        PROVE  CounterExplained'
    BY <2>2, CommitReserveExplained, CommitMintExplained, CommitChargeExplained,
       ReleaseExplained
  <2> QED
    BY <2>1, <2>2
<1> QED
  BY <1>0, <1>1, <1>2 DEF ExplainedInv

\* Initially nothing is held and nothing was deducted.
LEMMA ExplainedInit == Init => ExplainedInv
<1> SUFFICES ASSUME Init PROVE ExplainedInv
  OBVIOUS
<1>1. BackedInv
  BY BackedInit
<1>2. MintIsNew
  BY DEF Init, MintIsNew, Idle, Nothing, Holders
<1>3. CounterExplained
  BY MinutesNothing DEF Init, CounterExplained
<1> QED
  BY <1>1, <1>2, <1>3 DEF ExplainedInv

\* The counter is exactly what was deducted in its window plus what is held, for any
\* number of reservations, whatever requests, settlements, resets and the cron's
\* crashes do to it: GREATEST(0, _) never hides a difference (quota.ts).
THEOREM Explained ==
    ASSUME ~Straddle
    PROVE  Spec => []CounterExplained
<1>1. ExplainedInv => CounterExplained
  BY DEF ExplainedInv
<1> QED
  BY <1>1, ExplainedInit, ExplainedStep, PTL DEF Spec

----------------------------------------------------------------------------
\* A finalizer that runs has seen the window expired if it is; no charge is recorded
\* in a month whose window has not begun; and the counter has every recorded charge.
ExpirySeen == \A h \in Holders : tx[h].op = "charge" /\ resetAt <= now => tx[h].expired
NoneAhead == \A m \in 0 .. MaxMonth : m >= resetAt => ledger[m] = 0
ChargesCounted == Recorded <= charged
RecordedInv == BackedInv /\ ExpirySeen /\ NoneAhead /\ ChargesCounted

\* How a step that is not a charge moves the window: not at all, or to a later month,
\* with nothing deducted.
WindowMoves == \/ UNCHANGED <<resetAt, charged>>
               \/ \E at \in 0 .. MaxMonth :
                    resetAt <= at /\ resetAt' = at + 1 /\ charged' = 0

\* Every step that is not a charge moves it so, and records nothing.
LEMMA WindowStep ==
    ASSUME TypeOK, [Next]_vars, \A h \in Holders : ~CommitCharge(h)
    PROVE  WindowMoves /\ UNCHANGED ledger
<1>1. ASSUME NEW h \in Holders, NEW u, NEW w, w = EnsureLocked(tx[h].at, u)
      PROVE  \/ w.resetAt = resetAt /\ w.charged = charged
             \/ \E at \in 0 .. MaxMonth :
                  resetAt <= at /\ w.resetAt = at + 1 /\ w.charged = 0
  <2>1. tx[h].at \in 0 .. MaxMonth
    BY DEF TypeOK, TxType
  <2> QED
    BY <1>1, <2>1 DEF EnsureLocked, EnsureQuotaWindow
<1>2. ASSUME NEW h \in Holders, NEW u, NEW w, w = EnsureLocked(tx[h].at, u),
             \/ SetWindow(w) /\ charged' = w.charged /\ UNCHANGED ledger
             \/ RefuseReserve(h, w)
      PROVE  WindowMoves /\ UNCHANGED ledger
  <2>1. /\ UNCHANGED ledger
        /\ \/ resetAt' = w.resetAt /\ charged' = w.charged
           \/ UNCHANGED <<resetAt, charged>>
    BY <1>2 DEF SetWindow, RefuseReserve, userRow
  <2> QED
    BY <1>1, <1>2, <2>1 DEF WindowMoves
<1>3. ASSUME NEW h \in Holders, CommitReserve(h) PROVE WindowMoves /\ UNCHANGED ledger
  <2> DEFINE u == Monus(used, IF tx[h].op = "init" THEN reserved[h] ELSE 0)
             w == EnsureLocked(tx[h].at, u)
  <2>1. \/ SetWindow(w) /\ charged' = w.charged /\ UNCHANGED ledger
        \/ RefuseReserve(h, w)
    BY <1>3 DEF CommitReserve
  <2>2. w = EnsureLocked(tx[h].at, u)
    OBVIOUS
  <2> HIDE DEF w, u
  <2> QED
    BY <1>2, <2>1, <2>2
<1>4. ASSUME NEW h \in Holders, h \in Grants, CommitMint(h)
      PROVE  WindowMoves /\ UNCHANGED ledger
  <2> DEFINE w == EnsureLocked(tx[h].at, used)
  <2>1. \/ SetWindow(w) /\ charged' = w.charged /\ UNCHANGED ledger
        \/ RefuseReserve(h, w)
    BY <1>4 DEF CommitMint
  <2>2. w = EnsureLocked(tx[h].at, used)
    OBVIOUS
  <2> HIDE DEF w
  <2> QED
    BY <1>2, <2>1, <2>2
<1>5. ASSUME NEW h \in Holders, Release(h) PROVE WindowMoves /\ UNCHANGED ledger
  BY <1>5 DEF Release, WindowMoves
<1>6. CASE \A h \in Holders : ~(CommitReserve(h) \/ (h \in Grants /\ CommitMint(h))
                                \/ CommitCharge(h) \/ Release(h))
  BY <1>6, OthersRoll DEF KeepsOrRolls, Keeps, RolledOver, WindowMoves
<1> QED
  BY <1>3, <1>4, <1>5, <1>6

\* What a charge does to the window and to the charges: it records its minutes in the
\* month it read, which is the window's once the charge is through.
LEMMA ChargeStep ==
    ASSUME RecordedInv, NEW h \in Holders, CommitCharge(h)
    PROVE  \E m \in Nat :
             /\ ledger' = [ledger EXCEPT ![now] = @ + m] /\ now' = now
             /\ \/ resetAt' = resetAt /\ resetAt > now /\ charged' = charged + m
                \/ resetAt' = now + 1 /\ resetAt <= now /\ charged' = m
<1> DEFINE t == tx[h]
           w == EnsureQuotaWindow(t.at, t.expired, used, t.owed)
<1>1. PICK m \in 1 .. MaxCharge :
         /\ t.op = "charge" /\ SetWindow(w) /\ charged' = w.charged + m
         /\ ledger' = [ledger EXCEPT ![t.at] = @ + m] /\ now' = now
  BY Zenon DEF CommitCharge
<1>2. t.at = now /\ (resetAt <= now => t.expired)
      /\ m \in Nat /\ now \in Nat /\ resetAt \in Nat /\ charged \in Nat
  BY <1>1, BoundsAssumption
     DEF RecordedInv, BackedInv, TxsReadThisMonth, ExpirySeen, TypeOK
<1>3. CASE resetAt <= now
  <2>1. w.resetAt = now + 1 /\ w.charged = 0
    BY <1>2, <1>3 DEF EnsureQuotaWindow
  <2> HIDE DEF w, t
  <2>2. resetAt' = now + 1 /\ charged' = m
    BY <1>1, <1>2, <2>1 DEF SetWindow
  <2>3. ledger' = [ledger EXCEPT ![now] = @ + m] /\ now' = now
    BY <1>1, <1>2
  <2> QED
    BY <1>2, <1>3, <2>2, <2>3
<1>4. CASE ~(resetAt <= now)
  <2>1. w.resetAt = resetAt /\ w.charged = charged
    BY <1>2, <1>4 DEF EnsureQuotaWindow
  <2> HIDE DEF w, t
  <2>2. resetAt' = resetAt /\ charged' = charged + m /\ resetAt > now
    BY <1>1, <1>2, <1>4, <2>1 DEF SetWindow
  <2>3. ledger' = [ledger EXCEPT ![now] = @ + m] /\ now' = now
    BY <1>1, <1>2
  <2> QED
    BY <1>2, <2>2, <2>3
<1> QED
  BY <1>3, <1>4

\* The window only moves forward, and no charge is recorded ahead of it.
LEMMA AheadStep ==
    ASSUME RecordedInv, [Next]_vars
    PROVE  resetAt' >= resetAt /\ NoneAhead'
<1>0. /\ TypeOK /\ NoneAhead /\ resetAt \in Nat /\ now \in 0 .. MaxMonth
      /\ ledger \in [0 .. MaxMonth -> Nat] /\ MaxMonth \in Nat
  BY BoundsAssumption DEF RecordedInv, BackedInv, TypeOK
<1>1. CASE \A h \in Holders : ~CommitCharge(h)
  <2>1. WindowMoves /\ ledger' = ledger
    BY <1>0, <1>1, WindowStep
  <2>2. resetAt' >= resetAt /\ resetAt' \in Nat
    BY <1>0, <2>1 DEF WindowMoves
  <2> QED
    BY <1>0, <2>1, <2>2 DEF NoneAhead
<1>2. ASSUME NEW h \in Holders, CommitCharge(h) PROVE resetAt' >= resetAt /\ NoneAhead'
  <2>1. PICK m \in Nat :
          /\ ledger' = [ledger EXCEPT ![now] = @ + m] /\ now' = now
          /\ \/ resetAt' = resetAt /\ resetAt > now
             \/ resetAt' = now + 1 /\ resetAt <= now
    BY <1>2, ChargeStep
  <2>2. resetAt' \in Nat /\ resetAt' >= resetAt /\ resetAt' > now
    BY <1>0, <2>1
  <2>3. \A k \in 0 .. MaxMonth : k >= resetAt' => k # now /\ k >= resetAt
    BY <1>0, <2>2
  <2> QED
    BY <1>0, <2>1, <2>2, <2>3 DEF NoneAhead
<1> QED
  BY <1>1, <1>2

\* A finalizer that saw its window open still has it: the month does not change while
\* it runs, and the window only moves forward.
LEMMA ExpiryStep ==
    ASSUME ~Straddle, RecordedInv, [Next]_vars
    PROVE  ExpirySeen'
<1>0. TypeOK /\ ExpirySeen /\ resetAt' >= resetAt
      /\ resetAt \in Nat /\ now \in Nat /\ resetAt' \in Nat
  BY AheadStep, TypeStep DEF RecordedInv, BackedInv, TypeOK
<1>1. CASE Tick
  BY <1>1 DEF Tick, Quiet, ExpirySeen
<1>2. ASSUME now' = now,
             \A h \in Holders : tx'[h] = tx[h] \/ tx'[h].op # "charge"
      PROVE  ExpirySeen'
  BY <1>0, <1>2 DEF ExpirySeen
<1>3. CASE EnsureTopLevel \/ Cron \/ UNCHANGED vars
  <2>1. UNCHANGED <<now, tx>>
    BY <1>3 DEF EnsureTopLevel, Cron, CronStart, CronOwed, CronClearSlots,
                CronClearGrants, CronUpdate, CronFind, CronCrash, vars
  <2> QED
    BY <1>2, <2>1
<1>4. ASSUME NEW h \in Holders, Request(h) PROVE ExpirySeen'
  <2>1. CASE BeginCharge(h)
    <3>1. /\ tx' = [tx EXCEPT ![h] = Running("charge", resetAt <= now, OwedByHolder(used))]
          /\ UNCHANGED <<now, resetAt>>
      BY <2>1 DEF BeginCharge, userRow
    <3>2. \A i \in Holders \ {h} : tx'[i] = tx[i]
      BY <3>1 DEF RecordedInv, BackedInv, TypeOK
    <3>3. tx'[h].expired = (resetAt <= now)
      BY <1>0, <3>1 DEF Running, TypeOK
    <3> QED
      BY <1>0, <3>1, <3>2, <3>3 DEF ExpirySeen
  <2>2. CASE ~BeginCharge(h)
    <3>1. ASSUME Finish(h) PROVE \A i \in Holders : tx'[i] = tx[i] \/ tx'[i].op # "charge"
      BY <1>0, <3>1 DEF Finish, Idle, TypeOK
    <3>2. ASSUME NEW op, op # "charge", BeginReserve(h, op)
          PROVE  /\ now' = now
                 /\ \A i \in Holders : tx'[i] = tx[i] \/ tx'[i].op # "charge"
      BY <1>0, <3>2 DEF BeginReserve, Running, TypeOK
    <3>3. CASE BeginInit(h) \/ BeginTopUp(h) \/ BeginRegister(h) \/ BeginMint(h)
      BY <1>2, <3>2, <3>3 DEF BeginInit, BeginTopUp, BeginRegister, BeginMint
    <3>4. CASE CommitReserve(h) \/ (h \in Grants /\ CommitMint(h)) \/ CommitCharge(h)
               \/ Abort(h)
      <4>1. Finish(h) /\ now' = now
        BY <3>4 DEF CommitReserve, CommitMint, CommitCharge, Abort, RefuseReserve
      <4> QED
        BY <1>2, <3>1, <4>1
    <3>5. CASE Release(h)
      BY <1>2, <3>5 DEF Release
    <3> QED
      BY <1>4, <2>2, <3>3, <3>4, <3>5 DEF Request
  <2> QED
    BY <2>1, <2>2
<1> QED
  BY <1>1, <1>3, <1>4 DEF Next

\* What the reconciliation finds is what the charges of the window's months sum to.
LEMMA RecordedIs ==
    /\ Recorded = Amount(resetAt - 1 .. MaxMonth, ledger)
    /\ Recorded' = Amount(resetAt' - 1 .. MaxMonth, ledger')
BY DEF Recorded, Amount, Marks

\* No step records a charge that the counter does not have.
LEMMA CountedStep ==
    ASSUME RecordedInv, TypeOK', [Next]_vars
    PROVE  ChargesCounted'
<1>0. /\ TypeOK /\ NoneAhead /\ ChargesCounted
      /\ resetAt \in 1 .. MaxMonth + 1 /\ resetAt' \in 1 .. MaxMonth + 1
      /\ now \in 0 .. MaxMonth /\ MaxMonth \in Nat /\ charged \in Nat /\ charged' \in Nat
      /\ ledger \in [0 .. MaxMonth -> Nat] /\ ledger' \in [0 .. MaxMonth -> Nat]
  BY BoundsAssumption DEF RecordedInv, BackedInv, TypeOK
<1>r. PICK r \in 1 .. MaxMonth + 1 : r = resetAt'
  BY <1>0
<1> DEFINE S == r - 1 .. MaxMonth
<1>1. /\ IsFiniteSet(S) /\ \A k \in S : k \in 0 .. MaxMonth /\ k >= r - 1
      /\ \A k \in S : ledger[k] \in Nat /\ ledger'[k] \in Nat
  <2>1. r - 1 \in Int /\ MaxMonth \in Int /\ r - 1 >= 0
    BY <1>0
  <2>2. IsFiniteSet(S)
    BY <2>1, FS_Interval
  <2>3. \A k \in S : k \in 0 .. MaxMonth /\ k >= r - 1
    BY <1>0, <2>1
  <2> QED
    BY <1>0, <2>2, <2>3
<1>2. Recorded' = Amount(S, ledger')
  BY <1>r, RecordedIs
<1>3. Amount(S, ledger) \in Nat
  <2> HIDE DEF S
  <2> QED
    BY <1>1, AmountNat
<1>4. ASSUME resetAt' = resetAt PROVE Amount(S, ledger) <= charged
  BY <1>4, <1>0, <1>r, RecordedIs DEF ChargesCounted
<1>5. ASSUME resetAt' > resetAt PROVE Amount(S, ledger) = 0
  <2>1. \A k \in S : ledger[k] = 0
    <3>1. \A k \in S : k \in 0 .. MaxMonth /\ k >= resetAt
      <4> SUFFICES ASSUME NEW k \in S PROVE k \in 0 .. MaxMonth /\ k >= resetAt
        OBVIOUS
      <4>1. k \in 0 .. MaxMonth /\ k >= r - 1 /\ r > resetAt
        BY <1>1, <1>r, <1>5
      <4> HIDE DEF S
      <4> QED
        BY <1>0, <4>1
    <3> HIDE DEF S
    <3> QED
      BY <1>0, <3>1 DEF NoneAhead
  <2> HIDE DEF S
  <2> QED
    BY <2>1, AmountZero
<1>6. CASE \A h \in Holders : ~CommitCharge(h)
  <2>1. WindowMoves /\ ledger' = ledger
    BY <1>0, <1>6, WindowStep
  <2>2. CASE UNCHANGED <<resetAt, charged>>
    <3>1. Amount(S, ledger) <= charged
      BY <1>4, <2>2
    <3> HIDE DEF S
    <3> QED
      BY <1>2, <2>1, <2>2, <3>1 DEF ChargesCounted
  <2>3. CASE \E at \in 0 .. MaxMonth : resetAt <= at /\ resetAt' = at + 1 /\ charged' = 0
    <3>1. resetAt' > resetAt /\ charged' = 0
      BY <1>0, <2>3
    <3>2. Amount(S, ledger) = 0
      BY <1>5, <3>1
    <3> HIDE DEF S
    <3> QED
      BY <1>2, <2>1, <3>1, <3>2 DEF ChargesCounted
  <2> QED
    BY <2>1, <2>2, <2>3 DEF WindowMoves
<1>7. ASSUME NEW h \in Holders, CommitCharge(h) PROVE ChargesCounted'
  <2>1. PICK m \in Nat :
          /\ ledger' = [ledger EXCEPT ![now] = @ + m]
          /\ \/ resetAt' = resetAt /\ resetAt > now /\ charged' = charged + m
             \/ resetAt' = now + 1 /\ resetAt <= now /\ charged' = m
    BY <1>7, ChargeStep
  <2>2. \E c \in Nat : Amount(S, ledger) <= c /\ charged' = c + m
    <3>1. CASE resetAt' = resetAt /\ charged' = charged + m
      <4>1. Amount(S, ledger) <= charged
        BY <1>4, <3>1
      <4> QED
        BY <1>0, <3>1, <4>1
    <3>2. CASE resetAt' = now + 1 /\ resetAt <= now /\ charged' = m
      <4>1. resetAt' > resetAt
        BY <1>0, <3>2
      <4>2. Amount(S, ledger) = 0 /\ charged' = 0 + m
        BY <1>5, <2>1, <3>2, <4>1
      <4> QED
        BY <4>2
    <3> QED
      BY <2>1, <3>1, <3>2
  <2>3. Amount(S, ledger') <= Amount(S, ledger) + m
    <3>1. CASE now \in S
      <4>1. /\ ledger'[now] = ledger[now] + m
            /\ \A k \in S \ {now} : ledger'[k] = ledger[k]
        BY <1>0, <1>1, <2>1
      <4> HIDE DEF S
      <4>2. Amount(S, ledger') = Amount(S, ledger) + m
        BY <1>1, <3>1, <4>1, AmountAdd
      <4> QED
        BY <1>3, <4>2
    <3>2. CASE now \notin S
      <4>1. \A k \in S : ledger'[k] = ledger[k]
        BY <1>0, <1>1, <2>1, <3>2
      <4> HIDE DEF S
      <4>2. \A k \in S : ledger'[k] <= ledger[k]
        BY <1>1, <4>1
      <4>3. Amount(S, ledger') <= Amount(S, ledger) /\ Amount(S, ledger') \in Nat
        BY <1>1, <4>2, AmountMonotone, AmountNat
      <4> QED
        BY <1>3, <4>3
    <3> QED
      BY <3>1, <3>2
  <2>4. Amount(S, ledger') \in Nat
    <3> HIDE DEF S
    <3> QED
      BY <1>1, AmountNat
  <2> HIDE DEF S
  <2> QED
    BY <1>2, <1>3, <2>2, <2>3, <2>4 DEF ChargesCounted
<1> QED
  BY <1>6, <1>7

\* Initially no charge is recorded.
LEMMA RecordedInit == Init => RecordedInv
<1> SUFFICES ASSUME Init PROVE RecordedInv
  OBVIOUS
<1>1. BackedInv
  BY BackedInit
<1>2. ExpirySeen /\ NoneAhead
  BY DEF Init, ExpirySeen, NoneAhead, Idle
<1>3. ChargesCounted
  <2>1. \A k \in resetAt - 1 .. MaxMonth : ledger[k] = 0
    BY BoundsAssumption DEF Init
  <2>2. Recorded = 0
    BY <2>1, RecordedIs, AmountZero
  <2> QED
    BY <2>2 DEF Init, ChargesCounted
<1> QED
  BY <1>1, <1>2, <1>3 DEF RecordedInv

\* Every step keeps the recorded charges inside the counter.
LEMMA RecordedStep ==
    ASSUME ~Straddle
    PROVE  RecordedInv /\ [Next]_vars => RecordedInv'
<1> SUFFICES ASSUME RecordedInv, [Next]_vars PROVE RecordedInv'
  OBVIOUS
<1>1. BackedInv' /\ TypeOK'
  BY BackedStep DEF RecordedInv, BackedInv
<1> QED
  BY <1>1, AheadStep, ExpiryStep, CountedStep DEF RecordedInv

\* The counter is never below what the reconciliation finds and the live reservations,
\* for any number of reservations, charges and months: no drift is in the user's favour.
THEOREM NoneFree ==
    ASSUME ~Straddle
    PROVE  Spec => []NoFreeMinutes
<1>1. ASSUME RecordedInv, CounterExplained PROVE NoFreeMinutes
  <2>1. /\ reserved \in [Holders -> Nat] /\ held \in [Holders -> Nat]
        /\ \A h \in Holders : reserved[h] <= held[h]
        /\ used = charged + Minutes(held) /\ charged \in Nat /\ Recorded <= charged
        /\ resetAt \in 1 .. MaxMonth + 1 /\ ledger \in [0 .. MaxMonth -> Nat]
    BY <1>1 DEF RecordedInv, BackedInv, TypeOK, ReservationsBacked, CounterExplained,
                ChargesCounted
  <2>2. Minutes(reserved) <= Minutes(held)
    BY <2>1, MinutesMonotone
  <2>3. Minutes(reserved) \in Nat /\ Minutes(held) \in Nat
    BY <2>1, MinutesNat
  <2>4. Recorded \in Nat
    <3> DEFINE S == resetAt - 1 .. MaxMonth
    <3>1. MaxMonth \in Int /\ resetAt - 1 \in Int /\ resetAt - 1 >= 0
      BY <2>1, BoundsAssumption
    <3>2. IsFiniteSet(S)
      BY <3>1, FS_Interval
    <3>3. \A k \in S : ledger[k] \in Nat
      BY <2>1, <3>1
    <3>4. Recorded = Amount(S, ledger)
      BY RecordedIs
    <3> HIDE DEF S
    <3> QED
      BY <3>2, <3>3, <3>4, AmountNat
  <2> QED
    BY <2>1, <2>2, <2>3, <2>4 DEF NoFreeMinutes
<1> QED
  BY <1>1, RecordedInit, RecordedStep, Explained, PTL DEF Spec

----------------------------------------------------------------------------
\* What has been computed for the pool is enough while the window it was computed for
\* is open: by a finalizer before it commits, and by the cron before it updates.  The
\* cron's second pass, which computes nothing, finds no holder of a pool.
InitsOfColumns == \A h \in Holders : tx[h].op = "init" => h \in AsyncSlots
ChargesOwe == \A h \in Holders :
    tx[h].op = "charge" /\ resetAt <= now /\ pool > 0 => tx[h].owed >= Monus(charged, limit)
CronOwes == pool > 0 /\ resetAt <= cron.at =>
    /\ cron.pc \in {"slots", "grants", "update"} => cron.owed >= Monus(charged, limit)
    /\ cron.pc # "find"
PoolInv == ExplainedInv /\ RecordedInv /\ InitsOfColumns /\ ChargesOwe /\ CronOwes

\* What the closing window owes covers what was really deducted beyond the free limit:
\* the reservations it leaves out are all held.
LEMMA OwedCoversCharged ==
    ASSUME ExplainedInv
    PROVE  /\ PoolOwed(used) \in Nat /\ PoolOwed(used) >= Monus(charged, limit)
           /\ OwedByHolder(used) \in Nat
           /\ pool > 0 => OwedByHolder(used) >= Monus(charged, limit)
<1>1. /\ reserved \in [Holders -> Nat] /\ held \in [Holders -> Nat]
      /\ \A h \in Holders : reserved[h] <= held[h]
      /\ used = charged + Minutes(held) /\ charged \in Nat /\ limit \in Nat
      /\ TypeOK /\ used \in Nat
  BY DEF ExplainedInv, BackedInv, TypeOK, ReservationsBacked, CounterExplained
<1>2. /\ Minutes(reserved) <= Minutes(held)
      /\ Minutes(reserved) \in Nat /\ Minutes(held) \in Nat
  BY <1>1, MinutesMonotone, MinutesNat
<1>3. Monus(used, Minutes(reserved)) >= charged /\ Monus(used, Minutes(reserved)) \in Nat
  BY <1>1, <1>2 DEF Monus
<1>4. PoolOwed(used) \in Nat /\ PoolOwed(used) >= Monus(charged, limit)
  BY <1>1, <1>3 DEF PoolOwed, Monus
<1> QED
  BY <1>1, <1>4, OwedNat DEF OwedByHolder

\* How a step touches the pool: not at all and the window neither, or it settles at
\* least what was deducted beyond the limit, or an init replaces its column.
Settles(o) == pool' = Monus(pool, o)
PoolMoves == \/ UNCHANGED <<resetAt, pool>>
             \/ \E o \in Nat : Settles(o) /\ (pool > 0 => o >= Monus(charged, limit))
             \/ ReplacesColumn /\ \E o \in Nat : Settles(o)

\* A correction under the User lock settles what the window owes.
LEMMA LockedSettles ==
    ASSUME ExplainedInv, NEW at, NEW w, w = EnsureLocked(at, used), SetWindow(w)
    PROVE  PoolMoves
<1> DEFINE o == OwedByHolder(used)
<1>1. o \in Nat /\ (pool > 0 => o >= Monus(charged, limit))
  BY OwedCoversCharged
<1>2. w = EnsureQuotaWindow(at, resetAt <= at, used, o)
  BY DEF EnsureLocked
<1> HIDE DEF o
<1>3. CASE resetAt <= at
  BY <1>1, <1>2, <1>3 DEF EnsureQuotaWindow, SetWindow, PoolMoves, Settles
<1>4. CASE ~(resetAt <= at)
  BY <1>2, <1>4 DEF EnsureQuotaWindow, SetWindow, PoolMoves
<1> QED
  BY <1>3, <1>4

\* A column's reservation settles the window it closes, unless it replaces one.
LEMMA ReserveSettles ==
    ASSUME PoolInv, NEW s \in Holders, CommitReserve(s)
    PROVE  limit' = limit /\ PoolMoves
<1> DEFINE t == tx[s]
           prior == IF t.op = "init" THEN reserved[s] ELSE 0
           u == Monus(used, prior)
           w == EnsureLocked(t.at, u)
<1>1. /\ limit' = limit /\ Finish(s)
      /\ SetWindow(w) \/ (RefuseReserve(s, w) /\ (t.op = "init" => UNCHANGED userRow))
  BY DEF CommitReserve, RefuseReserve, userRow
<1>2. /\ ExplainedInv /\ used \in Nat /\ reserved[s] \in Nat /\ TypeOK
      /\ t.op = "init" => s \in AsyncSlots
  BY DEF PoolInv, ExplainedInv, BackedInv, TypeOK, InitsOfColumns
<1>3. CASE prior = 0
  <2>1. w = EnsureLocked(t.at, used)
    BY <1>2, <1>3 DEF Monus
  <2> HIDE DEF w, u, prior, t
  <2>2. SetWindow(w) => PoolMoves
    BY <1>2, <2>1, LockedSettles
  <2>3. ~SetWindow(w) => UNCHANGED <<resetAt, pool>>
    BY <1>1 DEF RefuseReserve, userRow, t
  <2> QED
    BY <1>1, <2>2, <2>3 DEF PoolMoves
<1>4. CASE prior # 0
  <2>1. t.op = "init" /\ reserved[s] > 0 /\ s \in AsyncSlots
    BY <1>2, <1>4
  <2>2. ReplacesColumn
    <3>1. tx'[s].op = "idle"
      BY <1>1, <1>2 DEF Finish, Idle, TypeOK
    <3> QED
      BY <2>1, <3>1 DEF ReplacesColumn
  <2>3. CASE SetWindow(w)
    <3>1. u \in Nat
      BY <1>2 DEF Monus
    <3>2. OwedByHolder(u) \in Nat
      <4> HIDE DEF u
      <4> QED
        BY <1>2, <3>1, OwedNat
    <3>3. pool' = Monus(pool, OwedByHolder(u)) \/ UNCHANGED <<resetAt, pool>>
      BY <2>3 DEF EnsureLocked, EnsureQuotaWindow, SetWindow
    <3> HIDE DEF w, u
    <3> QED
      BY <1>1, <2>2, <3>2, <3>3 DEF PoolMoves, Settles
  <2>4. CASE ~SetWindow(w)
    <3>1. UNCHANGED <<resetAt, pool>>
      BY <1>1, <2>1, <2>4 DEF userRow
    <3> QED
      BY <1>1, <3>1 DEF PoolMoves
  <2> QED
    BY <2>3, <2>4
<1> QED
  BY <1>3, <1>4

\* Whatever closes the window of a pool's holder settles the pool.
LEMMA PoolStep ==
    ASSUME PoolInv, [Next]_vars
    PROVE  limit' = limit /\ PoolMoves
<1>0. ExplainedInv /\ RecordedInv /\ TypeOK
  BY DEF PoolInv, ExplainedInv, BackedInv
<1>1. CASE EnsureTopLevel
  <2> DEFINE w == EnsureLocked(now, used)
  <2>1. SetWindow(w) /\ limit' = limit /\ w = EnsureLocked(now, used)
    BY <1>1 DEF EnsureTopLevel
  <2> HIDE DEF w
  <2> QED
    BY <1>0, <2>1, LockedSettles
<1>2. CASE CronUpdate
  <2>1. CASE resetAt <= cron.at
    <3>1. cron.owed \in Nat
      BY <1>0 DEF TypeOK, CronType
    <3>2. pool > 0 => cron.owed >= Monus(charged, limit)
      BY <1>2, <2>1 DEF CronUpdate, PoolInv, CronOwes
    <3> QED
      BY <1>2, <2>1, <3>1, <3>2 DEF CronUpdate, PoolMoves, Settles
  <2>2. CASE ~(resetAt <= cron.at)
    BY <1>2, <2>2 DEF CronUpdate, PoolMoves
  <2> QED
    BY <2>1, <2>2
<1>3. CASE (Cron /\ ~CronUpdate) \/ Tick \/ UNCHANGED vars
  BY <1>3 DEF Cron, CronStart, CronOwed, CronClearSlots, CronClearGrants, CronFind,
              CronCrash, Tick, vars, PoolMoves, userRow
<1>4. ASSUME NEW h \in Holders, Request(h) PROVE limit' = limit /\ PoolMoves
  <2>1. CASE CommitReserve(h)
    BY <2>1, ReserveSettles
  <2>2. CASE h \in Grants /\ CommitMint(h)
    <3> DEFINE w == EnsureLocked(tx[h].at, used)
    <3>1. /\ limit' = limit /\ w = EnsureLocked(tx[h].at, used)
          /\ SetWindow(w) \/ UNCHANGED <<resetAt, pool>>
      BY <2>2 DEF CommitMint, RefuseReserve, userRow
    <3> HIDE DEF w
    <3>2. SetWindow(w) => PoolMoves
      BY <1>0, <3>1, LockedSettles
    <3> QED
      BY <3>1, <3>2 DEF PoolMoves
  <2>3. CASE CommitCharge(h)
    <3> DEFINE t == tx[h]
               w == EnsureQuotaWindow(t.at, t.expired, used, t.owed)
    <3>1. SetWindow(w) /\ limit' = limit /\ t.op = "charge"
      BY <2>3 DEF CommitCharge
    <3>2. t.owed \in Nat /\ t.at = now
      BY <1>0, <3>1 DEF TypeOK, TxType, RecordedInv, BackedInv, TxsReadThisMonth
    <3>3. CASE t.expired /\ resetAt <= t.at
      <4>1. pool > 0 => t.owed >= Monus(charged, limit)
        BY <3>1, <3>2, <3>3 DEF PoolInv, ChargesOwe
      <4>2. pool' = Monus(pool, t.owed)
        BY <3>1, <3>3 DEF EnsureQuotaWindow, SetWindow
      <4> QED
        BY <3>1, <3>2, <4>1, <4>2 DEF PoolMoves, Settles
    <3>4. CASE ~(t.expired /\ resetAt <= t.at)
      BY <3>1, <3>4 DEF EnsureQuotaWindow, SetWindow, PoolMoves
    <3> QED
      BY <3>3, <3>4
  <2>4. CASE ~(CommitReserve(h) \/ (h \in Grants /\ CommitMint(h)) \/ CommitCharge(h))
    BY <1>4, <2>4 DEF Request, BeginInit, BeginTopUp, BeginRegister, BeginMint,
       BeginReserve, BeginCharge, Abort, Release, PoolMoves, userRow
  <2> QED
    BY <2>1, <2>2, <2>3, <2>4
<1> QED
  BY <1>1, <1>2, <1>3, <1>4 DEF Next

\* The pool never grows, and nothing is deducted into a window that stays expired: a
\* charge rolls it over.
LEMMA PoolFalls ==
    ASSUME PoolInv, [Next]_vars
    PROVE  /\ limit' = limit /\ pool' <= pool /\ resetAt' >= resetAt
           /\ resetAt' <= now => charged' \in {charged, 0}
<1>0. TypeOK /\ RecordedInv /\ pool \in Nat /\ now \in Nat /\ resetAt \in Nat
  BY DEF PoolInv, ExplainedInv, BackedInv, TypeOK
<1>1. limit' = limit /\ PoolMoves
  BY PoolStep
<1>2. pool' <= pool
  BY <1>0, <1>1 DEF PoolMoves, Settles, Monus
<1>3. resetAt' >= resetAt
  BY <1>0, AheadStep
<1>4. ASSUME resetAt' <= now PROVE charged' \in {charged, 0}
  <2>1. CASE \A h \in Holders : ~CommitCharge(h)
    BY <1>0, <2>1, WindowStep DEF WindowMoves
  <2>2. ASSUME NEW h \in Holders, CommitCharge(h) PROVE FALSE
    <3>1. (resetAt' = resetAt /\ resetAt > now) \/ resetAt' = now + 1
      BY <1>0, <2>2, ChargeStep
    <3> QED
      BY <1>0, <1>4, <3>1
  <2> QED
    BY <2>1, <2>2
<1> QED
  BY <1>1, <1>2, <1>3, <1>4

\* What a step does to the transactions: it ends some, or begins one.
LEMMA TxStep ==
    ASSUME TypeOK, [Next]_vars, NEW h \in Holders
    PROVE  \/ tx'[h] = tx[h] \/ tx'[h].op \notin {"init", "charge"}
           \/ tx'[h].op = "init" /\ h \in AsyncSlots
           \/ /\ tx'[h].op = "charge" /\ tx'[h].owed = OwedByHolder(used)
              /\ UNCHANGED <<userRow, charged, now>>
<1>1. CASE Tick \/ EnsureTopLevel \/ Cron \/ UNCHANGED vars
  BY <1>1 DEF Tick, EnsureTopLevel, Cron, CronStart, CronOwed, CronClearSlots,
              CronClearGrants, CronUpdate, CronFind, CronCrash, vars
<1>2. ASSUME NEW i \in Holders, Finish(i) PROVE tx'[h] = tx[h] \/ tx'[h].op = "idle"
  BY <1>2 DEF Finish, Idle, TypeOK
<1>3. ASSUME NEW i \in Holders, NEW op, BeginReserve(i, op)
      PROVE  tx'[h] = tx[h] \/ (i = h /\ tx'[h].op = op)
  BY <1>3 DEF BeginReserve, Running, TypeOK
<1>4. ASSUME NEW i \in Holders, BeginCharge(i)
      PROVE  \/ tx'[h] = tx[h]
             \/ /\ tx'[h].op = "charge" /\ tx'[h].owed = OwedByHolder(used)
                /\ UNCHANGED <<userRow, charged, now>>
  BY <1>4 DEF BeginCharge, Running, TypeOK
<1>5. ASSUME NEW i \in Holders,
             CommitReserve(i) \/ CommitMint(i) \/ CommitCharge(i) \/ Abort(i) \/ Release(i)
      PROVE  tx'[h] = tx[h] \/ tx'[h].op = "idle"
  <2>1. Finish(i) \/ tx' = tx
    BY <1>5 DEF CommitReserve, CommitMint, CommitCharge, Abort, Release, RefuseReserve
  <2> QED
    BY <1>2, <2>1
<1>6. ASSUME NEW i \in Holders,
             BeginInit(i) \/ BeginTopUp(i) \/ BeginRegister(i) \/ BeginMint(i)
      PROVE  \/ tx'[h] = tx[h] \/ tx'[h].op \notin {"init", "charge"}
             \/ tx'[h].op = "init" /\ h \in AsyncSlots
  BY <1>3, <1>6 DEF BeginInit, BeginTopUp, BeginRegister, BeginMint
<1>7. ASSUME NEW i \in Holders, Request(i)
      PROVE  \/ BeginInit(i) \/ BeginTopUp(i) \/ BeginRegister(i) \/ BeginMint(i)
             \/ BeginCharge(i)
             \/ CommitReserve(i) \/ CommitMint(i) \/ CommitCharge(i) \/ Abort(i) \/ Release(i)
  BY <1>7 DEF Request
<1>8. ASSUME NEW i \in Holders, Request(i)
      PROVE  \/ tx'[h] = tx[h] \/ tx'[h].op \notin {"init", "charge"}
             \/ tx'[h].op = "init" /\ h \in AsyncSlots
             \/ /\ tx'[h].op = "charge" /\ tx'[h].owed = OwedByHolder(used)
                /\ UNCHANGED <<userRow, charged, now>>
  BY <1>4, <1>5, <1>6, <1>7, <1>8
<1> QED
  BY <1>1, <1>8 DEF Next

\* Only the clock moves the clock, and only the cron the cron.
LEMMA ClockStep ==
    ASSUME [Next]_vars
    PROVE  (now' = now \/ Tick) /\ (cron' = cron \/ Cron)
<1>1. CASE Tick \/ EnsureTopLevel \/ UNCHANGED vars
  BY <1>1 DEF Tick, EnsureTopLevel, vars
<1>2. CASE Cron
  BY <1>2 DEF Cron, CronStart, CronOwed, CronClearSlots, CronClearGrants, CronUpdate,
              CronFind, CronCrash
<1>3. ASSUME NEW h \in Holders, Request(h) PROVE now' = now /\ cron' = cron
  <2>1. CASE BeginInit(h) \/ BeginTopUp(h) \/ BeginRegister(h) \/ BeginMint(h)
    BY <2>1 DEF BeginInit, BeginTopUp, BeginRegister, BeginMint, BeginReserve
  <2>2. CASE CommitReserve(h)
    BY <2>2 DEF CommitReserve, RefuseReserve
  <2>3. CASE h \in Grants /\ CommitMint(h)
    BY <2>3 DEF CommitMint, RefuseReserve
  <2>4. CASE Release(h) \/ BeginCharge(h) \/ CommitCharge(h) \/ Abort(h)
    BY <2>4 DEF Release, BeginCharge, CommitCharge, Abort
  <2> QED
    BY <1>3, <2>1, <2>2, <2>3, <2>4 DEF Request
<1> QED
  BY <1>1, <1>2, <1>3 DEF Next

\* What a finalizer has computed stays enough for its window.
LEMMA ChargesOweStep ==
    ASSUME ~Straddle, PoolInv, TypeOK', [Next]_vars
    PROVE  InitsOfColumns' /\ ChargesOwe'
<1>0. /\ TypeOK /\ ExplainedInv /\ pool \in Nat /\ pool' \in Nat /\ now \in Nat
      /\ resetAt \in Nat /\ resetAt' \in Nat /\ charged \in Nat /\ limit \in Nat
  <2>1. TypeOK /\ ExplainedInv
    BY DEF PoolInv, ExplainedInv, BackedInv
  <2>2. /\ pool \in Nat /\ now \in Nat /\ resetAt \in Nat /\ charged \in Nat
        /\ limit \in Nat
    BY <2>1 DEF TypeOK
  <2>3. pool' \in Nat /\ resetAt' \in Nat
    BY DEF TypeOK
  <2> QED
    BY <2>1, <2>2, <2>3
<1>1. /\ limit' = limit /\ pool' <= pool /\ resetAt' >= resetAt
      /\ resetAt' <= now => charged' \in {charged, 0}
  BY PoolFalls
<1>2. InitsOfColumns'
  BY <1>0, TxStep DEF PoolInv, InitsOfColumns
<1>3. CASE Tick
  <2>1. \A h \in Holders : tx'[h].op = "idle"
    BY <1>3 DEF Tick, Quiet
  <2> QED
    BY <1>2, <2>1 DEF ChargesOwe
<1>4. CASE ~Tick
  <2>1. now' = now
    BY <1>4, ClockStep
  <2>2. ASSUME NEW h \in Holders, tx'[h].op = "charge", resetAt' <= now, pool' > 0
        PROVE  tx'[h].owed >= Monus(charged', limit)
    <3>1. resetAt <= now /\ pool > 0
      BY <1>0, <1>1, <2>2
    <3>2. tx'[h] = tx[h]
          \/ (tx'[h].owed = OwedByHolder(used) /\ UNCHANGED <<userRow, charged, now>>)
      BY <1>0, <2>2, TxStep
    <3>3. CASE tx'[h] = tx[h]
      <4>1. tx[h].owed >= Monus(charged, limit) /\ tx[h].owed \in Nat
        BY <1>0, <2>2, <3>1, <3>3 DEF PoolInv, ChargesOwe, TypeOK, TxType
      <4>2. charged' = charged \/ charged' = 0
        BY <1>1, <2>2
      <4> QED
        BY <1>0, <3>3, <4>1, <4>2 DEF Monus
    <3>4. CASE tx'[h].owed = OwedByHolder(used) /\ charged' = charged
      BY <1>0, <3>1, <3>4, OwedCoversCharged
    <3> QED
      BY <3>2, <3>3, <3>4
  <2>3. ASSUME NEW h \in Holders, tx'[h].op = "charge", resetAt' <= now', pool' > 0
        PROVE  tx'[h].owed >= Monus(charged', limit')
    BY <1>1, <2>1, <2>2, <2>3
  <2> QED
    BY <1>2, <2>3 DEF ChargesOwe, Monus
<1> QED
  BY <1>2, <1>3, <1>4

\* What the cron has computed stays enough for the window it found expired.
LEMMA CronOwesStep ==
    ASSUME PoolInv, TypeOK', [Next]_vars
    PROVE  CronOwes'
<1>0. /\ TypeOK /\ ExplainedInv /\ pool \in Nat /\ pool' \in Nat /\ now \in Nat
      /\ resetAt \in Nat /\ resetAt' \in Nat /\ charged \in Nat /\ limit \in Nat
      /\ cron \in CronType /\ cron.at \in Nat /\ cron.owed \in Nat
      /\ cron.pc # "idle" => cron.at <= now
      /\ CronOwes
  <2>1. TypeOK /\ ExplainedInv /\ CronOwes /\ CronReadsNoFuture
    BY DEF PoolInv, ExplainedInv, BackedInv
  <2>2. /\ pool \in Nat /\ now \in Nat /\ resetAt \in Nat /\ charged \in Nat
        /\ limit \in Nat /\ cron \in CronType
    BY <2>1 DEF TypeOK
  <2>3. cron.at \in Nat /\ cron.owed \in Nat
    BY <2>2 DEF CronType
  <2>4. pool' \in Nat /\ resetAt' \in Nat
    BY DEF TypeOK
  <2> QED
    BY <2>1, <2>2, <2>3, <2>4 DEF CronReadsNoFuture
<1>1. /\ limit' = limit /\ pool' <= pool /\ resetAt' >= resetAt
      /\ resetAt' <= now => charged' \in {charged, 0}
  BY PoolFalls
<1>2. CASE cron' = cron
  <2> SUFFICES ASSUME pool' > 0, resetAt' <= cron.at,
                      cron.pc \in {"slots", "grants", "update", "find"}
               PROVE  /\ cron.pc # "find"
                      /\ cron.owed >= Monus(charged', limit)
    BY <1>1, <1>2 DEF CronOwes, Monus
  <2>1. pool > 0 /\ resetAt <= cron.at /\ resetAt' <= now
    BY <1>0, <1>1
  <2>2. cron.pc # "find" /\ cron.owed >= Monus(charged, limit)
    BY <1>0, <2>1 DEF CronOwes
  <2>3. charged' = charged \/ charged' = 0
    BY <1>1, <2>1
  <2> QED
    BY <1>0, <2>2, <2>3 DEF Monus
<1>3. CASE CronStart
  <2>1. /\ cron'.pc = IF pool > 0 THEN "owed" ELSE "find"
        /\ pool' = pool
    BY <1>0, <1>3 DEF CronStart, CronType, userRow
  <2> QED
    BY <1>0, <2>1 DEF CronOwes
<1>4. CASE CronOwed
  <2>1. cron'.pc = "slots" /\ cron'.owed = PoolOwed(used)
        /\ charged' = charged
    BY <1>0, <1>4 DEF CronOwed, CronType
  <2>2. PoolOwed(used) >= Monus(charged, limit)
    BY <1>0, OwedCoversCharged
  <2> QED
    BY <1>1, <2>1, <2>2 DEF CronOwes, Monus
<1>5. CASE CronClearSlots \/ CronClearGrants
  <2>1. /\ cron.pc \in {"slots", "grants"} /\ cron'.pc # "find"
        /\ cron'.owed = cron.owed /\ cron'.at = cron.at
        /\ UNCHANGED <<pool, resetAt, charged>>
    BY <1>0, <1>5 DEF CronClearSlots, CronClearGrants, CronType, userRow
  <2>2. pool > 0 /\ resetAt <= cron.at => cron.owed >= Monus(charged, limit)
    BY <1>0, <2>1 DEF CronOwes
  <2> QED
    BY <1>1, <2>1, <2>2 DEF CronOwes, Monus
<1>6. CASE CronUpdate
  <2>1. /\ resetAt' > cron.at
        /\ cron'.pc = "idle" \/ cron'.at = cron.at
    BY <1>0, <1>6 DEF CronUpdate, CronIdle, CronType
  <2> QED
    BY <1>0, <2>1 DEF CronOwes
<1>7. CASE CronFind
  <2>1. CASE resetAt <= cron.at
    <3>1. ~(pool > 0) /\ pool' = pool
      BY <1>0, <1>7, <2>1 DEF CronFind, CronOwes, userRow
    <3> QED
      BY <3>1 DEF CronOwes
  <2>2. CASE ~(resetAt <= cron.at)
    <3>1. cron'.pc = "idle"
      BY <1>7, <2>2 DEF CronFind, CronIdle
    <3> QED
      BY <3>1 DEF CronOwes
  <2> QED
    BY <2>1, <2>2
<1>8. CASE CronCrash
  <2>1. cron'.pc = "idle"
    BY <1>8 DEF CronCrash, CronIdle
  <2> QED
    BY <2>1 DEF CronOwes
<1>9. cron' = cron \/ Cron
  BY ClockStep
<1> QED
  BY <1>2, <1>3, <1>4, <1>5, <1>6, <1>7, <1>8, <1>9 DEF Cron

\* Whichever path closes the window of a pool's holder, it settles at least what was
\* really deducted beyond the free limit, for any number of reservations and months,
\* though the cron and the finalizers compute what is owed long before they write it.
THEOREM PoolSettled ==
    ASSUME ~Straddle
    PROVE  Spec => PoolNeverUndersettled
<1>1. Init => PoolInv
  <2> SUFFICES ASSUME Init PROVE PoolInv
    OBVIOUS
  <2>1. InitsOfColumns /\ ChargesOwe /\ CronOwes
    BY DEF Init, InitsOfColumns, ChargesOwe, CronOwes, Idle, CronIdle
  <2> QED
    BY <2>1, ExplainedInit, RecordedInit DEF PoolInv
<1>2. PoolInv /\ [Next]_vars => PoolInv'
  <2> SUFFICES ASSUME PoolInv, [Next]_vars PROVE PoolInv'
    OBVIOUS
  <2>1. ExplainedInv' /\ RecordedInv'
    BY ExplainedStep, RecordedStep DEF PoolInv
  <2>2. TypeOK'
    BY <2>1 DEF ExplainedInv, BackedInv
  <2>3. InitsOfColumns' /\ ChargesOwe'
    BY <2>2, ChargesOweStep
  <2>4. CronOwes'
    BY <2>2, CronOwesStep
  <2> QED
    BY <2>1, <2>3, <2>4 DEF PoolInv
<1>3. ASSUME PoolInv, [Next]_vars, resetAt' # resetAt, pool > 0, ~ReplacesColumn
      PROVE  Settled
  <2>1. PICK o \in Nat : pool' = Monus(pool, o) /\ o >= Monus(charged, limit)
    BY <1>3, PoolStep DEF PoolMoves, Settles
  <2>2. pool \in Nat /\ charged \in Nat /\ limit \in Nat
    BY <1>3 DEF PoolInv, ExplainedInv, BackedInv, TypeOK
  <2>3. Monus(charged, limit) \in Nat
    BY <2>2 DEF Monus
  <2> QED
    BY <2>1, <2>2, <2>3 DEF Settled, Monus
<1>4. PoolInv /\ [Next]_vars
        => [resetAt' # resetAt /\ pool > 0 /\ ~ReplacesColumn => Settled]_vars
  BY <1>3
<1> QED
  BY <1>1, <1>2, <1>4, PTL DEF Spec, PoolNeverUndersettled

=============================================================================
