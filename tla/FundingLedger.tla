----------------------------- MODULE FundingLedger -----------------------------
(***************************************************************************)
(* Where the money of one user comes from and where it went: the wallet, the *)
(* lots that say which payment each remaining cent stems from, the           *)
(* allocations that say which lot paid for what, the pool of purchased       *)
(* minutes, and what a reversal (refund, chargeback) of one payment takes    *)
(* back of all that (src/lib/payment/fundingLedger.ts, wallet.ts,            *)
(* refundHandling.ts, adminReview.ts).  Every action is one transaction      *)
(* under the user's row lock.                                               *)
(*                                                                         *)
(* The active lots are a queue of cents, each the name of its source, the      *)
(* oldest first: a lot is a run of them, its remainder their number.         *)
(* One cent buys one minute, so units need no apportioning; memberships are  *)
(* left out.  `pool.bal' is the gross balance: minutes used in this month    *)
(* beyond the base quota (`owed') leave it at the month's end.              *)
(***************************************************************************)
EXTENDS Integers, FiniteSets, Sequences

CONSTANTS
    Orders,         \* payments of the user
    Purchases,      \* those that buy minutes at once; the others top up
    Amount,         \* cents of each order
    Legacy,         \* wallet from before the lots existed
    MaxAdjust,      \* bound: what administrators add or take
    InFlight        \* may a job hold minutes while a payment is reversed?

ASSUME FundingAssumption ==
    /\ IsFiniteSet(Orders) /\ Purchases \subseteq Orders
    /\ Amount \in [Orders -> Nat \ {0}] /\ {Legacy, MaxAdjust} \subseteq Nat
    /\ InFlight \in BOOLEAN /\ Orders \cap {"legacy", "refund", "admin"} = {}

VARIABLES
    wallet,     \* User.walletBalanceCents
    lots,       \* cents of the active WalletFundingLots, the oldest first
    lot,        \* status of each order's lot
    allocs,     \* WalletFundingAllocations of each order's lot, by target
    pool,       \* purchasedMinutesBalance, of it used, reserved by a job
    debts,      \* PaymentDebt of each order
    holds,      \* orders with an active PaymentAccountHold
    used,       \* services and minutes consumed (history)
    adjust      \* what administrators gave and took (history)

vars == <<wallet, lots, lot, allocs, pool, debts, holds, used, adjust>>

Targets == {"service", "minutes", "admin"}
Sources == Orders \cup {"legacy", "refund", "admin"}
Smaller(a, b) == IF a < b THEN a ELSE b
Positive(a) == IF a > 0 THEN a ELSE 0
Total(f) == Cardinality(UNION {{x} \X (1 .. f[x]) : x \in DOMAIN f})

\* assertWalletAccountActive, and entitlementAdmission for reservations.
Frozen == holds # {}

----------------------------------------------------------------------------
(* createWalletFundingLot and allocateWalletSpend.                          *)
Lot(s, n) == [i \in 1 .. n |-> s]

\* Slip: unexplained cents taken for the newest.
FundedGapLast == lots \o Lot("legacy", Positive(wallet - Len(lots)))

\* The active lots, with the cents no lot explains as the oldest of all.
Funded == Lot("legacy", Positive(wallet - Len(lots))) \o lots

\* The places of o's cents, and how many of the n oldest are o's.
Own(ls, o) == {i \in DOMAIN ls : ls[i] = o}
TakenFrom(ls, n, o) == Cardinality(Own(SubSeq(ls, 1, n), o))

\* Slip: what is allocated to the oldest is taken from the newest.
LeftOldest(ls, n) == SubSeq(ls, 1, Len(ls) - n)

\* What a spend of n leaves.
Left(ls, n) == SubSeq(ls, n + 1, Len(ls))

\* A spend of n cents on `target', first in first out.
Allocate(n, target) ==
    /\ n \in 1 .. wallet /\ Len(lots) <= wallet
    /\ wallet' = wallet - n
    /\ lots' = Left(Funded, n)
    /\ allocs' = [o \in Orders |->
           [allocs[o] EXCEPT ![target] = @ + TakenFrom(Funded, n, o)]]

----------------------------------------------------------------------------
Init ==
    /\ wallet = Legacy /\ lots = <<>> /\ lot = [o \in Orders |-> "none"]
    /\ allocs = [o \in Orders |-> [t \in Targets |-> 0]]
    /\ pool = [bal |-> 0, owed |-> 0, held |-> 0]
    /\ debts = [o \in Orders |-> [cents |-> 0, open |-> FALSE]] /\ holds = {}
    /\ used = [cents |-> 0, minutes |-> 0] /\ adjust = 0

\* creditPaidOrder of a top-up.
Credit(o) ==
    /\ o \notin Purchases /\ lot[o] = "none" /\ ~Frozen
    /\ wallet' = wallet + Amount[o]
    /\ lots' = lots \o Lot(o, Amount[o])
    /\ lot' = [lot EXCEPT ![o] = "active"]
    /\ UNCHANGED <<allocs, pool, debts, holds, used, adjust>>

\* creditPaidOrder of a purchase: credited, then spent at once on the order's
\* own grant, whatever else the wallet holds (forcedFundingLotId).
CreditPurchase(o) ==
    /\ o \in Purchases /\ lot[o] = "none" /\ ~Frozen
    /\ lot' = [lot EXCEPT ![o] = "active"]
    /\ allocs' = [allocs EXCEPT ![o].minutes = Amount[o]]
    /\ pool' = [pool EXCEPT !.bal = @ + Amount[o]]
    /\ UNCHANGED <<wallet, lots, debts, holds, used, adjust>>

\* spendFromBalance: minutes from the wallet.
BuyMinutes(n) ==
    /\ ~Frozen
    /\ Allocate(n, "minutes")
    /\ pool' = [pool EXCEPT !.bal = @ + n]
    /\ UNCHANGED <<lot, debts, holds, used, adjust>>

\* spendWalletCents: a document translation.
SpendOnService(n) ==
    /\ ~Frozen
    /\ Allocate(n, "service")
    /\ used' = [used EXCEPT !.cents = @ + n]
    /\ UNCHANGED <<lot, pool, debts, holds, adjust>>

\* refundWalletCents: a failed one is paid back, into a lot of its own.
RefundService(n) ==
    /\ n \in 1 .. used.cents
    /\ wallet' = wallet + n
    /\ lots' = lots \o Lot("refund", n)
    /\ used' = [used EXCEPT !.cents = @ - n]
    /\ UNCHANGED <<lot, allocs, pool, debts, holds, adjust>>

\* adminAdjust of the wallet.
AdminCredit ==
    /\ adjust < MaxAdjust
    /\ wallet' = wallet + 1
    /\ lots' = lots \o Lot("admin", 1)
    /\ adjust' = adjust + 1
    /\ UNCHANGED <<lot, allocs, pool, debts, holds, used>>

AdminDebit(n) ==
    /\ adjust - n >= -MaxAdjust
    /\ Allocate(n, "admin")
    /\ adjust' = adjust - n
    /\ UNCHANGED <<lot, pool, debts, holds, used>>

----------------------------------------------------------------------------
(* The pool: quota.ts reserves, charges and settles it once a month.        *)
Reserve(n) ==
    /\ ~Frozen /\ pool.held = 0 /\ n \in 1 .. pool.bal - pool.owed
    /\ pool' = [pool EXCEPT !.held = n]
    /\ UNCHANGED <<wallet, lots, lot, allocs, debts, holds, used, adjust>>

\* A job ends, having used n of the minutes it holds; the rest is released.
Charge(n) ==
    /\ pool.held > 0 /\ n \in 0 .. pool.held
    /\ pool' = [pool EXCEPT !.owed = @ + n, !.held = 0]
    /\ used' = [used EXCEPT !.minutes = @ + n]
    /\ UNCHANGED <<wallet, lots, lot, allocs, debts, holds, adjust>>

NewMonth ==
    /\ pool.owed > 0
    /\ pool' = [pool EXCEPT !.bal = Positive(@ - pool.owed), !.owed = 0]
    /\ UNCHANGED <<wallet, lots, lot, allocs, debts, holds, used, adjust>>

----------------------------------------------------------------------------
(* freezeEntitlements, recordPaymentDebtAndHold, markFundingLotReversed.    *)
RemainderOf(o) == Cardinality(Own(lots, o))
Spent(o) == allocs[o].service + allocs[o].minutes + allocs[o].admin

\* The lots without o's, a run of cents (Together).
Without(o) ==
    LET first == CHOOSE i \in Own(lots, o) : \A j \in Own(lots, o) : i <= j
    IN  IF Own(lots, o) = {} THEN lots
        ELSE SubSeq(lots, 1, first - 1)
             \o SubSeq(lots, first + RemainderOf(o), Len(lots))

\* The structural check that guards the reversal: an order that fails it is
\* quarantined whole.  FundingSound says that this never happens.
Sound(o) == RemainderOf(o) + Spent(o) = Amount[o]

\* Minutes that are really still in the pool.
\* Slip: all of the pool is.
RecoverableWholePool(o) == Smaller(allocs[o].minutes, pool.bal)
Recoverable(o) == Smaller(allocs[o].minutes, Positive(pool.bal - pool.owed))

FromWallet(o) == Smaller(RemainderOf(o), wallet)

Reversal(o) ==
    LET debt == Amount[o] - FromWallet(o) - Recoverable(o)
    IN  /\ lot[o] = "active" /\ Sound(o)
        /\ InFlight \/ pool.held = 0
        /\ wallet' = wallet - FromWallet(o)
        /\ pool' = [pool EXCEPT !.bal = @ - Recoverable(o)]
        /\ lots' = Without(o)
        /\ lot' = [lot EXCEPT ![o] = "reversed"]
        /\ debts' = [debts EXCEPT ![o] = [cents |-> debt, open |-> debt > 0]]
        /\ holds' = holds \cup IF debt > 0 THEN {o} ELSE {}
        /\ UNCHANGED <<allocs, used, adjust>>

\* settleDebt: resolved or waived; the account stays frozen.
SettleDebt(o) ==
    /\ debts[o].open
    /\ debts' = [debts EXCEPT ![o].open = FALSE]
    /\ UNCHANGED <<wallet, lots, lot, allocs, pool, holds, used, adjust>>

\* Slip: debts are not looked at.
ReleaseUnchecked(o) ==
    /\ o \in holds
    /\ holds' = holds \ {o}
    /\ UNCHANGED <<wallet, lots, lot, allocs, pool, debts, used, adjust>>

\* releaseHold, after ensureNoOpenDebt.
ReleaseHold(o) ==
    /\ o \in holds /\ \A p \in Orders: ~debts[p].open
    /\ holds' = holds \ {o}
    /\ UNCHANGED <<wallet, lots, lot, allocs, pool, debts, used, adjust>>

Next ==
    \/ \E o \in Orders: Credit(o) \/ CreditPurchase(o)
    \/ \E n \in 1 .. wallet: BuyMinutes(n) \/ SpendOnService(n) \/ AdminDebit(n)
    \/ \E n \in 1 .. used.cents: RefundService(n)
    \/ AdminCredit \/ NewMonth
    \/ \E n \in 0 .. pool.bal: Reserve(n) \/ Charge(n)
    \/ \E o \in Orders: Reversal(o) \/ SettleDebt(o) \/ ReleaseHold(o)

Spec == Init /\ [][Next]_vars

----------------------------------------------------------------------------
TypeOK ==
    /\ wallet \in Nat /\ used \in [cents : Nat, minutes : Nat] /\ adjust \in Int
    /\ lots \in Seq(Sources)
    /\ lot \in [Orders -> {"none", "active", "reversed"}]
    /\ allocs \in [Orders -> [Targets -> Nat]]
    /\ pool \in [bal : Nat, owed : Nat, held : Nat]
    /\ debts \in [Orders -> [cents : Nat, open : BOOLEAN]] /\ holds \subseteq Orders

\* Nothing lies between two cents of a lot.
Together(o) ==
    \A i, j \in Own(lots, o) : \A k \in i .. j : k \in Own(lots, o)

\* The lots never claim more than the wallet holds (allocateWalletSpend would
\* refuse every later purchase: 'wallet funding ledger exceeds locked wallet
\* balance'), the cents of a lot keep together, and an order's lot and
\* allocations explain all of its cents, so that its reversal never has to
\* be quarantined.
FundingSound ==
    /\ TypeOK
    /\ Len(lots) <= wallet
    /\ \A o \in Orders: Together(o)
    /\ \A o \in Orders: lot[o] = "active" => Sound(o)

\* No value appears or disappears: what the user has (wallet, minutes not yet
\* used) and has consumed is what was there, what was given, what the payments
\* that still stand brought and what is owed for those that do not.  A reversal
\* that took back a minute already used would break it (freezeEntitlements:
\* only pool - owed is really in the pool).
ValueAccounted ==
    wallet + pool.bal - pool.owed + used.cents + used.minutes
        = Legacy + adjust
          + Total([o \in Orders |-> CASE lot[o] = "active" -> Amount[o]
                                      [] lot[o] = "reversed" -> debts[o].cents
                                      [] OTHER -> 0])

\* Money that is older than the lots is spent before any payment's: otherwise
\* a chargeback of a new top-up would claw back what older money paid for
\* (allocateWalletSpend).
LegacySpentFirst ==
    wallet > Len(lots) \/ Own(lots, "legacy") # {}
        => \A o \in Orders \ Purchases: Spent(o) = 0

\* While any payment's debt is open, the account is frozen: settling one
\* debt, or releasing the hold of one order, never opens an account that still
\* owes (settleDebt, releaseHold).
DebtFreezes ==
    (\E o \in Orders: debts[o].open) => Frozen

=============================================================================
