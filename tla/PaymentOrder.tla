----------------------------- MODULE PaymentOrder -----------------------------
(***************************************************************************)
(* One payment order of LectureLive and everything the payment provider's   *)
(* notifications do to it: the durable inbox and its claims                  *)
(* (src/lib/payment/webhookInbox.ts), the callback route, the crediting      *)
(* (src/lib/wallet.ts), the reversal (src/lib/payment/refundHandling.ts),    *)
(* the account's holds and the review cases.  What a credit or a reversal    *)
(* does to the wallet and the minutes is FundingLedger's subject: here it is *)
(* done or not, and a reversal leaves some debt.                             *)
(*                                                                         *)
(* The provider sends every event at least once, in any order, until it is  *)
(* acknowledged.  A worker claims the event's row, runs one transaction on  *)
(* the order under its row lock, and then writes review case and row in     *)
(* statements of their own.  Workers die, fail, or are so slow that their   *)
(* claim is taken over while they live.                                     *)
(***************************************************************************)
EXTENDS Naturals, FiniteSets

CONSTANTS
    Workers,        \* requests being handled
    Paid,           \* the provider's events about the order: it is paid,
    Pending,        \* a refund or dispute of it is under way,
    Ending,         \* and has ended
    NoEvent,
    Dispute,        \* that refund or dispute, and the hold named after it
    At,             \* occurredAt of the events
    Amount,         \* cents of the order
    MaxFaults       \* bound: crashes and failed statements

Events == Paid \cup Pending \cup Ending

ASSUME PaymentAssumption ==
    /\ NoEvent \notin Events /\ Dispute # "debt"
    /\ Paid \cap Pending = {} /\ Paid \cap Ending = {} /\ Pending \cap Ending = {}
    /\ At \in [Events -> Nat]
    /\ {Amount, MaxFaults} \subseteq Nat

VARIABLES
    facts,      \* was it paid late?  did the dispute end for the shop?
    ord,        \* PaymentOrder: status, fulfillmentStatus
    linked,     \* are the provider's objects mapped to the order?
    lot,        \* the order's WalletFundingLot: none, active, reversed
    debt,       \* PaymentDebt of the order: amount and is it open?
    hold,       \* reasons of the active PaymentAccountHolds
    inbox,      \* PaymentWebhookEvent.status
    case,       \* PaymentReviewCase.status, by event and reason
    acked,      \* events the provider has been told are done
    w,          \* what each worker is at
    faults

order == <<ord, linked>>
money == <<lot, debt>>
review == <<inbox, case, acked>>
vars == <<facts, order, money, hold, review, w, faults>>

Why == {"unmapped", "pending", "rejected", "acknowledged"}
Refunded == ord.status = "refunded"

Idle == [pc |-> "idle", ev |-> NoEvent, out |-> "none"]
Go(k, pc) == w' = [w EXCEPT ![k].pc = pc]
Finish(k, pc, out) == w' = [w EXCEPT ![k].pc = pc, ![k].out = out]
Returns(k) == w' = [w EXCEPT ![k] = Idle]

----------------------------------------------------------------------------
Init ==
    /\ facts \in [late : BOOLEAN, won : BOOLEAN]
    /\ ord = [status |-> "pending", ful |-> "pending"] /\ linked = FALSE
    /\ lot = "none"
    /\ debt = [cents |-> 0, open |-> FALSE] /\ hold = {}
    /\ inbox = [e \in Events |-> "absent"]
    /\ case = [c \in Events \X Why |-> "none"]
    /\ acked = {} /\ w = [k \in Workers |-> Idle] /\ faults = 0

\* expireStalePaymentOrders.
Expire ==
    /\ ord = [status |-> "pending", ful |-> "pending"]
    /\ ord' = [ord EXCEPT !.status = "expired"]
    /\ UNCHANGED <<facts, linked, money, hold, review, w, faults>>

----------------------------------------------------------------------------
\* persistVerifiedWebhookEvent, by a request that then dies.
Persist(e) ==
    /\ inbox[e] = "absent"
    /\ inbox' = [inbox EXCEPT ![e] = "received"]
    /\ UNCHANGED <<facts, order, money, hold, case, acked, w, faults>>

\* Slip: an event somebody else is handling is acknowledged.
DeliverAckBusy(k, e) ==
    /\ w[k].pc = "idle"
    /\ IF inbox[e] \in {"processed", "processing"}
       THEN acked' = acked \cup {e} /\ UNCHANGED <<inbox, w>>
       ELSE /\ inbox' = [inbox EXCEPT ![e] = "processing"]
            /\ w' = [w EXCEPT ![k] = [pc |-> "resolve", ev |-> e, out |-> "none"]]
            /\ UNCHANGED acked
    /\ UNCHANGED <<facts, order, money, hold, case, faults>>

\* Slip: a claim is never taken over.
DeliverFresh(k, e) ==
    /\ w[k].pc = "idle" /\ inbox[e] # "processing"
    /\ IF inbox[e] = "processed"
       THEN acked' = acked \cup {e} /\ UNCHANGED <<inbox, w>>
       ELSE /\ inbox' = [inbox EXCEPT ![e] = "processing"]
            /\ w' = [w EXCEPT ![k] = [pc |-> "resolve", ev |-> e, out |-> "none"]]
            /\ UNCHANGED acked
    /\ UNCHANGED <<facts, order, money, hold, case, faults>>

\* A delivery: the row is written if it is new and claimed, also from a worker that
\* has held it for more than five minutes and may be alive.  A processed event is
\* acknowledged at once.
Deliver(k, e) ==
    /\ w[k].pc = "idle"
    /\ IF inbox[e] = "processed"
       THEN acked' = acked \cup {e} /\ UNCHANGED <<inbox, w>>
       ELSE /\ inbox' = [inbox EXCEPT ![e] = "processing"]
            /\ w' = [w EXCEPT ![k] = [pc |-> "resolve", ev |-> e, out |-> "none"]]
            /\ UNCHANGED acked
    /\ UNCHANGED <<facts, order, money, hold, case, faults>>

\* The order is found by its number, which only a paid event carries, or by objects a
\* paid event has mapped.
Resolve(k) ==
    LET e == w[k].ev IN
    /\ w[k].pc = "resolve"
    /\ linked' = (linked \/ e \in Paid)
    /\ IF ~linked'
       THEN Finish(k, "case", "unmapped")
       ELSE Go(k, CASE e \in Paid -> "credit"
                    [] e \in Ending /\ facts.won -> "settle"
                    [] OTHER -> "reverse")
    /\ UNCHANGED <<facts, ord, money, hold, review, faults>>

\* creditPaidOrder's transaction: paid and fulfilled, with the value and its source lot,
\* or nothing at all.
Grant ==
    /\ ord' = [status |-> "paid", ful |-> "fulfilled"]
    /\ lot' = "active"

\* Slip: only the late payment is looked for.
TooLateOnly == ord.status = "late_paid"

\* The money has gone back, or came too late: there is nothing to credit, ever.
TooLate == Refunded \/ ord.status = "late_paid"

Credit(k) ==
    /\ w[k].pc = "credit"
    /\ CASE TooLate ->
              Finish(k, "case", "acknowledged") /\ UNCHANGED <<ord, lot>>
         [] ~TooLate /\ ord.ful = "fulfilled" ->
              Finish(k, "mark", "done") /\ UNCHANGED <<ord, lot>>
         [] ord.status \in {"pending", "expired"} /\ facts.late ->
              /\ ord' = [status |-> "late_paid", ful |-> "review"]
              /\ Finish(k, "case", "acknowledged") /\ UNCHANGED lot
         [] ord.status \in {"pending", "expired"} /\ ~facts.late /\ hold # {} ->
              Go(k, "reject") /\ UNCHANGED <<ord, lot>>
         [] OTHER ->
              Grant /\ Finish(k, "mark", "done")
    /\ UNCHANGED <<facts, linked, debt, hold, review, faults>>

\* The crediting was rolled back because the account is frozen; a statement of its own
\* says so, unless the order has meanwhile been fulfilled or reversed.
Reject(k) ==
    /\ w[k].pc = "reject"
    /\ ord' = IF Refunded \/ ord.ful \in {"fulfilled", "reversed"}
              THEN ord ELSE [ord EXCEPT !.ful = "review"]
    /\ Finish(k, "case", IF Refunded THEN "acknowledged" ELSE "rejected")
    /\ UNCHANGED <<facts, linked, money, hold, review, faults>>

----------------------------------------------------------------------------
\* freezeEntitlements: what cannot be recovered is owed, and freezes the account.
Freeze ==
    /\ lot' = "reversed"
    /\ \E rest \in 0 .. Amount :
         /\ debt' = [cents |-> rest, open |-> rest > 0]
         /\ hold' = IF rest > 0 THEN hold \cup {"debt"} ELSE hold

\* Slip: the end of the dispute is not looked for.
SupersededNever(e) == e \notin Events

\* A terminal fact about the dispute that is not older is known, if not yet handled.
Superseded(e) == \E t \in Ending : inbox[t] # "absent" /\ At[t] >= At[e]

\* handlePaymentReversal's transaction.
Reversal(k) ==
    LET e == w[k].ev
        done == IF e \in Ending THEN Go(k, "settle") ELSE Finish(k, "mark", "done")
    IN
    /\ w[k].pc = "reverse"
    /\ CASE Refunded -> done /\ UNCHANGED <<ord, money, hold>>
         [] ~Refunded /\ e \in Pending ->
              /\ IF Superseded(e) THEN done /\ UNCHANGED hold
                 ELSE Finish(k, "case", "pending") /\ hold' = hold \cup {Dispute}
              /\ UNCHANGED <<ord, money>>
         [] ~Refunded /\ e \in Ending /\ ord.ful \in {"pending", "review"} ->
              /\ ord' = [status |-> "refunded", ful |-> "reversed"]
              /\ done /\ UNCHANGED <<money, hold>>
         [] OTHER ->
              /\ ord' = [status |-> "refunded", ful |-> "reversed"]
              /\ Freeze /\ done
    /\ UNCHANGED <<facts, linked, review, faults>>

\* settleStripePendingReversal: the pending events of the dispute are done with, their
\* cases closed and their hold released; after a won dispute so is the event itself.
Settle(k) ==
    LET e == w[k].ev
        over == {p \in Pending : inbox[p] # "absent"}
                  \cup {x \in {e} : facts.won /\ inbox[x] = "processing"}
    IN
    /\ w[k].pc = "settle"
    /\ inbox' = [x \in Events |-> IF x \in over THEN "processed" ELSE inbox[x]]
    /\ case' = [c \in Events \X Why |->
                  IF c[1] \in Pending /\ case[c] = "open" THEN "closed" ELSE case[c]]
    /\ hold' = hold \ {Dispute}
    /\ IF facts.won
       THEN Returns(k) /\ acked' = acked \cup {e}
       ELSE Finish(k, "mark", "done") /\ UNCHANGED acked
    /\ UNCHANGED <<facts, order, money, faults>>

\* openPaymentReviewCase: a case that was closed is not opened again.
OpenCase(k) ==
    LET c == <<w[k].ev, w[k].out>> IN
    /\ w[k].pc = "case"
    /\ case' = [case EXCEPT ![c] = IF @ = "none" THEN "open" ELSE @]
    /\ Go(k, "mark")
    /\ UNCHANGED <<facts, order, money, hold, inbox, acked, faults>>

\* What the provider is answered: done, or not.
Good(k) == w[k].out \in {"done", "acknowledged"}

\* Slip: the row is given the outcome for its status.
MarkOutcome(k) ==
    LET e == w[k].ev IN
    /\ w[k].pc = "mark"
    /\ inbox' = IF inbox[e] # "processing" THEN inbox ELSE [inbox EXCEPT ![e] = w[k].out]
    /\ acked' = IF Good(k) THEN acked \cup {e} ELSE acked
    /\ Returns(k)
    /\ UNCHANGED <<facts, order, money, hold, case, faults>>

\* markWebhookEventProcessed or markWebhookEventFailed, whoever's claim it is, and the
\* answer to the provider.
Mark(k) ==
    LET e == w[k].ev IN
    /\ w[k].pc = "mark"
    /\ inbox' = IF inbox[e] # "processing" THEN inbox
                ELSE [inbox EXCEPT ![e] = IF Good(k) THEN "processed"
                                          ELSE IF w[k].out = "failed" THEN "failed"
                                          ELSE "review"]
    /\ acked' = IF Good(k) THEN acked \cup {e} ELSE acked
    /\ Returns(k)
    /\ UNCHANGED <<facts, order, money, hold, case, faults>>

\* A statement fails and the handler catches it, or the worker dies.
Fault(k) ==
    /\ w[k].pc # "idle" /\ faults < MaxFaults
    /\ faults' = faults + 1
    /\ Returns(k) \/ (w[k].pc # "mark" /\ Finish(k, "mark", "failed"))
    /\ UNCHANGED <<facts, order, money, hold, review>>

\* The administrator: settleDebt, releaseHold.
SettleDebt ==
    /\ debt.open /\ debt' = [debt EXCEPT !.open = FALSE]
    /\ UNCHANGED <<facts, order, lot, hold, review, w, faults>>
ReleaseHold(h) ==
    /\ h \in hold /\ ~debt.open /\ ord.ful # "review"
    /\ \A c \in Events \X Why : c[2] # "unmapped" => case[c] # "open"
    /\ hold' = hold \ {h}
    /\ UNCHANGED <<facts, order, money, review, w, faults>>

----------------------------------------------------------------------------
Step(k) == \/ Resolve(k) \/ Credit(k) \/ Reject(k) \/ Reversal(k)
           \/ Settle(k) \/ OpenCase(k) \/ Mark(k)
Next ==
    \/ Expire \/ SettleDebt
    \/ \E h \in {"debt", Dispute} : ReleaseHold(h)
    \/ \E e \in Events : Persist(e) \/ \E k \in Workers : Deliver(k, e)
    \/ \E k \in Workers : Step(k) \/ Fault(k)
Spec == Init /\ [][Next]_vars

\* A handler returns (its statements have timeouts), and the provider sends the end of
\* the dispute again until it is acknowledged.
FairSpec ==
    /\ Spec
    /\ \A k \in Workers : WF_vars(Step(k))
    /\ \A e \in Ending : SF_vars(inbox[e] # "absent" /\ \E k \in Workers : Deliver(k, e))

----------------------------------------------------------------------------
PcType == {"idle", "resolve", "credit", "reject", "reverse", "settle", "case", "mark"}
WorkType == [pc : PcType, ev : Events \cup {NoEvent}, out : Why \cup {"none", "done", "failed"}]

\* Every variable has its type.
TypeOK ==
    /\ facts \in [late : BOOLEAN, won : BOOLEAN]
    /\ ord \in [status : {"pending", "expired", "late_paid", "paid", "refunded"},
                ful : {"pending", "review", "fulfilled", "reversed"}]
    /\ linked \in BOOLEAN /\ lot \in {"none", "active", "reversed"}
    /\ debt \in [cents : Nat, open : BOOLEAN] /\ hold \subseteq {"debt", Dispute}
    /\ inbox \in [Events -> {"absent", "received", "processing", "processed",
                             "review", "failed"}]
    /\ case \in [Events \X Why -> {"none", "open", "closed"}]
    /\ acked \subseteq Events
    /\ w \in [Workers -> WorkType]
    /\ faults \in 0 .. MaxFaults

\* Once the end of a dispute has been handled its hold is gone, and no late or slow
\* pending notification puts it back.
TerminalPrevails ==
    \A t \in Ending : inbox[t] = "processed" => Dispute \notin hold

\* What the provider has been told is done has had its effect: it will not send it again.
AckedHasEffect == \A e \in acked :
    /\ e \in Paid => lot # "none" \/ Refunded \/ ord.status = "late_paid"
    /\ e \in Ending => IF facts.won THEN Dispute \notin hold ELSE Refunded
    /\ e \in Pending => Refunded \/ Superseded(e)

\* The order keeps the promise of PaidOnce.
given == CASE lot = "active" -> "yes"
           [] lot = "reversed" -> "back"
           [] lot = "none" /\ Refunded -> "never"
           [] OTHER -> "no"
Promise == INSTANCE PaidOnce WITH debt <- debt.cents
PromiseKept == Promise!Spec

\* The end of a dispute is handled in the end, whatever crashed, failed or was claimed
\* by a worker that died before.
DisputeEnds == \A t \in Ending : inbox[t] # "absent" /\ linked ~> t \in acked
=============================================================================
