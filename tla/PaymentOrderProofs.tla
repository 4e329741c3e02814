------------------------- MODULE PaymentOrderProofs -------------------------
(***************************************************************************)
(* Proofs about PaymentOrder for every number of workers, events and faults, *)
(* and every amount: the order keeps the promise of PaidOnce, and what the   *)
(* provider was told is done has had its effect for good.                    *)
(***************************************************************************)
EXTENDS PaymentOrder, TLAPS

\* The order's two statuses and its lot tell the same story.
OrderInv ==
    /\ ord.ful = "reversed" <=> ord.status = "refunded"
    /\ ord.ful = "fulfilled" <=> lot = "active"
    /\ ord.ful = "fulfilled" => ord.status = "paid"
    /\ lot = "reversed" => ord.status = "refunded"

\* The effect that an event has had once it is done with.
Effect(e) ==
    /\ e \in Paid => lot # "none" \/ Refunded \/ ord.status = "late_paid"
    /\ e \in Ending => Dispute \notin hold /\ (facts.won \/ Refunded)
    /\ e \in Pending => Refunded \/ Superseded(e)

\* A worker's event is in the inbox, is at a step for its kind, and has had its effect when
\* the worker is about to say so.
Working(k) ==
    /\ w[k].pc # "idle" => w[k].ev \in Events /\ inbox[w[k].ev] # "absent"
    /\ w[k].pc \in {"credit", "reject"} => w[k].ev \in Paid
    /\ w[k].pc = "reverse" =>
           w[k].ev \in Pending \cup Ending /\ (w[k].ev \in Ending => ~facts.won)
    /\ w[k].pc = "settle" => w[k].ev \in Ending /\ (facts.won \/ Refunded)
    /\ w[k].pc \in {"case", "mark"} /\ w[k].out \in {"done", "acknowledged"} => Effect(w[k].ev)
WorkInv == \A k \in Workers : Working(k)

\* So it has when its row or its acknowledgement says so.
DoneInv ==
    /\ \A e \in Events : inbox[e] = "processed" => Effect(e)
    /\ \A e \in acked : e \in Events /\ inbox[e] # "absent" /\ Effect(e)

\* What was given, taken back or come too late stays so, and so do the facts.
Fate ==
    /\ Refunded => Refunded'
    /\ lot # "none" => lot' # "none"
    /\ ord.status = "late_paid" => ord'.status = "late_paid" \/ Refunded'
    /\ facts' = facts

\* No notice that a refund or dispute is under way is dated after its end.
Chronological == \A t \in Ending, p \in Pending : At[p] <= At[t]

\* A busy worker has an event, and a refund or dispute when it reverses the order.
PlaceInv ==
    \A k \in Workers :
        /\ w[k].pc # "idle" => w[k].ev \in Events
        /\ w[k].pc = "reverse" => w[k].ev \in Pending \cup Ending

\* The inductive invariant, and its part that needs no assumption on the events' dates.
BaseInv == TypeOK /\ OrderInv /\ PlaceInv
PaymentInv == BaseInv /\ WorkInv /\ DoneInv

\* A worker moves alone.
LEMMA GoFacts ==
    ASSUME TypeOK, NEW k \in Workers, NEW pc \in PcType, Go(k, pc)
    PROVE  /\ w' \in [Workers -> WorkType]
           /\ w'[k].pc = pc /\ w'[k].ev = w[k].ev /\ w'[k].out = w[k].out
           /\ \A j \in Workers \ {k} : w'[j] = w[j]
  BY DEF TypeOK, WorkType, Go

\* So it does when it has an outcome.
LEMMA FinishFacts ==
    ASSUME TypeOK, NEW k \in Workers, NEW pc \in PcType,
           NEW out \in Why \cup {"none", "done", "failed"}, Finish(k, pc, out)
    PROVE  /\ w' \in [Workers -> WorkType]
           /\ w'[k].pc = pc /\ w'[k].ev = w[k].ev /\ w'[k].out = out
           /\ \A j \in Workers \ {k} : w'[j] = w[j]
<1> DEFINE u == [w[k] EXCEPT !.pc = pc, !.out = out]
<1>1. w[k] \in WorkType /\ w \in [Workers -> WorkType]
  BY DEF TypeOK
<1>2. w' = [w EXCEPT ![k] = u]
  BY <1>1 DEF Finish, WorkType
<1>3. u \in WorkType /\ u.pc = pc /\ u.ev = w[k].ev /\ u.out = out
  <2>1. PICK v \in WorkType : v = w[k]
    BY <1>1
  <2>2. u = [v EXCEPT !.pc = pc, !.out = out]
    BY <2>1
  <2> QED
    BY <2>1, <2>2 DEF WorkType
<1> HIDE DEF u
<1> QED
  BY <1>1, <1>2, <1>3

\* So it does when it returns.
LEMMA ReturnsFacts ==
    ASSUME TypeOK, NEW k \in Workers, Returns(k)
    PROVE  /\ w' \in [Workers -> WorkType]
           /\ w'[k].pc = "idle"
           /\ \A j \in Workers \ {k} : w'[j] = w[j]
  BY DEF TypeOK, WorkType, PcType, Returns, Idle

\* Nothing has happened.
LEMMA InitHolds == Init => PaymentInv
<1> SUFFICES ASSUME Init PROVE PaymentInv
  OBVIOUS
<1>1. Idle \in WorkType
  BY DEF Idle, WorkType, PcType
<1>2. /\ w \in [Workers -> WorkType] /\ inbox \in [Events -> {"absent", "received", "processing",
                                                           "processed", "review", "failed"}]
      /\ case \in [Events \X Why -> {"none", "open", "closed"}]
  BY <1>1 DEF Init
<1>6. faults \in 0 .. MaxFaults
  BY PaymentAssumption DEF Init
<1>7. /\ debt \in [cents : Nat, open : BOOLEAN]
      /\ ord \in [status : {"pending", "expired", "late_paid", "paid", "refunded"},
                  ful : {"pending", "review", "fulfilled", "reversed"}]
  BY DEF Init
<1>8. TypeOK
  BY <1>2, <1>6, <1>7 DEF Init, TypeOK
<1>3. OrderInv
  BY DEF Init, OrderInv
<1>4. WorkInv
  BY DEF Init, WorkInv, Working, Idle
<1>5. DoneInv
  BY DEF Init, DoneInv
<1>9. PlaceInv
  BY DEF Init, PlaceInv, Idle
<1> QED
  BY <1>3, <1>4, <1>5, <1>8, <1>9 DEF PaymentInv, BaseInv

\* A step keeps the types.
LEMMA TypeStep ==
    ASSUME TypeOK, PlaceInv, [Next]_vars
    PROVE  TypeOK'
<1>1. CASE Expire
  BY <1>1, PaymentAssumption DEF Expire, money, review, TypeOK, PcType, Why, WorkType
<1>2. CASE SettleDebt
  BY <1>2, PaymentAssumption DEF SettleDebt, order, review, TypeOK, PcType, Why, WorkType
<1>3. ASSUME NEW h \in {"debt", Dispute}, ReleaseHold(h) PROVE TypeOK'
  BY <1>3, PaymentAssumption DEF ReleaseHold, order, money, review, Why, Events, TypeOK, PcType,
      WorkType
<1>4. ASSUME NEW e \in Events, Persist(e) PROVE TypeOK'
  BY <1>4, PaymentAssumption DEF Persist, order, money, TypeOK, PcType, Why, WorkType
<1>5. ASSUME NEW k \in Workers, NEW e \in Events, Deliver(k, e) PROVE TypeOK'
  <2>1. [pc |-> "resolve", ev |-> e, out |-> "none"] \in WorkType
    BY DEF WorkType, PcType
  <2>2. w' \in [Workers -> WorkType]
    BY <1>5, <2>1 DEF Deliver, TypeOK
  <2>3. inbox' \in [Events -> {"absent", "received", "processing", "processed", "review", "failed"}]
    BY <1>5 DEF Deliver, TypeOK
  <2>4. acked' \subseteq Events
    BY <1>5 DEF Deliver, TypeOK
  <2> QED
    BY <1>5, <2>2, <2>3, <2>4 DEF Deliver, TypeOK, order, money
<1>6. ASSUME NEW k \in Workers, Step(k) \/ Fault(k) PROVE TypeOK'
  <2>1. CASE Resolve(k)
    BY <2>1, PaymentAssumption, GoFacts, FinishFacts DEF Resolve, money, review, TypeOK, PcType,
        Why, WorkType
  <2>2. CASE Credit(k)
    <3>1. w' \in [Workers -> WorkType]
      BY <2>2, GoFacts, FinishFacts DEF Credit, PcType, Why
    <3>2. /\ ord' \in [status : {"pending", "expired", "late_paid", "paid", "refunded"},
                     ful : {"pending", "review", "fulfilled", "reversed"}]
          /\ lot' \in {"none", "active", "reversed"}
      BY <2>2 DEF Credit, Grant, TypeOK
    <3> QED
      BY <2>2, <3>1, <3>2 DEF Credit, TypeOK, review
  <2>3. CASE Reject(k)
    BY <2>3, PaymentAssumption, FinishFacts DEF Reject, money, review, Refunded, TypeOK, PcType,
        Why, WorkType
  <2>4. CASE Reversal(k)
    <3>1. w' \in [Workers -> WorkType]
      BY <2>4, GoFacts, FinishFacts DEF Reversal, PcType, Why
    <3>2. /\ ord' \in [status : {"pending", "expired", "late_paid", "paid", "refunded"},
                     ful : {"pending", "review", "fulfilled", "reversed"}]
          /\ lot' \in {"none", "active", "reversed"}
      BY <2>4 DEF Reversal, Freeze, TypeOK, money
    <3>5. ASSUME Freeze PROVE debt' \in [cents : Nat, open : BOOLEAN]
      BY <3>5, PaymentAssumption DEF Freeze
    <3>3. debt' \in [cents : Nat, open : BOOLEAN]
      BY <2>4, <3>5 DEF Reversal, TypeOK, money
    <3>4. hold' \subseteq {"debt", Dispute}
      BY <2>4 DEF Reversal, Freeze, TypeOK
    <3> QED
      BY <2>4, <3>1, <3>2, <3>3, <3>4 DEF Reversal, TypeOK, review
  <2>5. CASE Settle(k)
    <3>1. w' \in [Workers -> WorkType]
      BY <2>5, FinishFacts, ReturnsFacts DEF Settle, PcType, Why
    <3>2. inbox' \in [Events -> {"absent", "received", "processing", "processed", "review", "failed"}]
      BY <2>5 DEF Settle, TypeOK
    <3>3. case' \in [Events \X Why -> {"none", "open", "closed"}]
      BY <2>5 DEF Settle, TypeOK
    <3>4. acked' \subseteq Events
      BY <2>5 DEF Settle, TypeOK, PlaceInv
    <3>5. hold' \subseteq {"debt", Dispute}
      BY <2>5 DEF Settle, TypeOK
    <3> QED
      BY <2>5, <3>1, <3>2, <3>3, <3>4, <3>5 DEF Settle, TypeOK, order, money
  <2>6. CASE OpenCase(k)
    BY <2>6, PaymentAssumption, GoFacts DEF OpenCase, order, money, TypeOK, PcType, Why,
        WorkType
  <2>7. CASE Mark(k)
    <3>1. w' \in [Workers -> WorkType]
      BY <2>7, ReturnsFacts DEF Mark
    <3>2. inbox' \in [Events -> {"absent", "received", "processing", "processed", "review", "failed"}]
      BY <2>7 DEF Mark, TypeOK
    <3>3. acked' \subseteq Events
      BY <2>7 DEF Mark, TypeOK, PlaceInv
    <3> QED
      BY <2>7, <3>1, <3>2, <3>3 DEF Mark, TypeOK, order, money
  <2>8. CASE Fault(k)
    <3>1. w' \in [Workers -> WorkType]
      BY <2>8, FinishFacts, ReturnsFacts DEF Fault, PcType
    <3>2. faults' \in 0 .. MaxFaults
      BY <2>8, PaymentAssumption DEF Fault, TypeOK
    <3> QED
      BY <2>8, <3>1, <3>2 DEF Fault, TypeOK, order, money, review
  <2> QED
    BY <1>6, <2>1, <2>2, <2>3, <2>4, <2>5, <2>6, <2>7, <2>8 DEF Step
<1>7. CASE UNCHANGED vars
  BY <1>7 DEF vars, order, money, review, TypeOK, PcType, Why, WorkType
<1> QED
  BY <1>1, <1>2, <1>3, <1>4, <1>5, <1>6, <1>7 DEF Next

\* The order, its lot and their statuses move together.
LEMMA OrderStep ==
    ASSUME TypeOK, OrderInv, [Next]_vars
    PROVE  OrderInv'
<1>1. CASE Expire
  BY <1>1 DEF Expire, money, review, OrderInv, TypeOK
<1>2. CASE SettleDebt
  BY <1>2 DEF SettleDebt, order, review, OrderInv, TypeOK
<1>3. ASSUME NEW h \in {"debt", Dispute}, ReleaseHold(h) PROVE OrderInv'
  BY <1>3 DEF ReleaseHold, order, money, review, Why, Events, OrderInv, TypeOK
<1>4. ASSUME NEW e \in Events, Persist(e) PROVE OrderInv'
  BY <1>4 DEF Persist, order, money, OrderInv, TypeOK
<1>5. ASSUME NEW k \in Workers, NEW e \in Events, Deliver(k, e) PROVE OrderInv'
  BY <1>5 DEF Deliver, order, money, OrderInv, TypeOK
<1>6. ASSUME NEW k \in Workers, Step(k) \/ Fault(k) PROVE OrderInv'
  <2>1. CASE Resolve(k)
    BY <2>1 DEF Resolve, money, review, OrderInv, TypeOK
  <2>2. CASE Credit(k)
    BY <2>2 DEF Credit, review, Refunded, Grant, TooLate, OrderInv, TypeOK
  <2>3. CASE Reject(k)
    BY <2>3 DEF Reject, money, review, Refunded, OrderInv, TypeOK
  <2>4. CASE Reversal(k)
    BY <2>4 DEF Reversal, money, review, Refunded, Freeze, Superseded, OrderInv, TypeOK
  <2>5. CASE Settle(k)
    BY <2>5 DEF Settle, order, money, Why, Events, OrderInv, TypeOK
  <2>6. CASE OpenCase(k)
    BY <2>6 DEF OpenCase, order, money, OrderInv, TypeOK
  <2>7. CASE Mark(k)
    BY <2>7 DEF Mark, order, money, review, Good, OrderInv, TypeOK
  <2>8. CASE Fault(k)
    BY <2>8 DEF Fault, order, money, review, OrderInv, TypeOK
  <2> QED
    BY <1>6, <2>1, <2>2, <2>3, <2>4, <2>5, <2>6, <2>7, <2>8 DEF Step
<1>7. CASE UNCHANGED vars
  BY <1>7 DEF vars, order, money, review, OrderInv, TypeOK
<1> QED
  BY <1>1, <1>2, <1>3, <1>4, <1>5, <1>6, <1>7 DEF Next

\* A worker takes a known event, and reverses only by one that says so.
LEMMA PlaceStep ==
    ASSUME TypeOK, PlaceInv, [Next]_vars
    PROVE  PlaceInv'
<1>1. CASE Expire
  BY <1>1 DEF Expire, money, review, PlaceInv, PcType, Why, Events
<1>2. CASE SettleDebt
  BY <1>2 DEF SettleDebt, order, review, PlaceInv, PcType, Why, Events
<1>3. ASSUME NEW h \in {"debt", Dispute}, ReleaseHold(h) PROVE PlaceInv'
  BY <1>3 DEF ReleaseHold, order, money, review, Why, Events, PlaceInv, PcType
<1>4. ASSUME NEW e \in Events, Persist(e) PROVE PlaceInv'
  BY <1>4 DEF Persist, order, money, PlaceInv, PcType, Why, Events
<1>5. ASSUME NEW k \in Workers, NEW e \in Events, Deliver(k, e) PROVE PlaceInv'
  BY <1>5 DEF Deliver, order, money, TypeOK, PlaceInv, PcType, Why, Events
<1>6. ASSUME NEW k \in Workers, Step(k) \/ Fault(k) PROVE PlaceInv'
  <2>1. CASE Resolve(k)
    BY <2>1, GoFacts, FinishFacts DEF Resolve, money, review, PlaceInv, PcType, Why, Events
  <2>2. CASE Credit(k)
    BY <2>2, GoFacts, FinishFacts DEF Credit, review, Refunded, Grant, TooLate, PlaceInv,
        PcType, Why, Events
  <2>3. CASE Reject(k)
    BY <2>3, FinishFacts DEF Reject, money, review, Refunded, PlaceInv, PcType, Why, Events
  <2>4. CASE Reversal(k)
    BY <2>4, GoFacts, FinishFacts DEF Reversal, money, review, Refunded, Freeze, Superseded,
        PlaceInv, PcType, Why, Events
  <2>5. CASE Settle(k)
    BY <2>5, FinishFacts, ReturnsFacts DEF Settle, order, money, Why, Events, PlaceInv, PcType
  <2>6. CASE OpenCase(k)
    BY <2>6, GoFacts DEF OpenCase, order, money, PlaceInv, PcType, Why, Events
  <2>7. CASE Mark(k)
    BY <2>7, ReturnsFacts DEF Mark, order, money, review, Good, PlaceInv, PcType, Why, Events
  <2>8. CASE Fault(k)
    BY <2>8, FinishFacts, ReturnsFacts DEF Fault, order, money, review, PlaceInv, PcType, Why,
        Events
  <2> QED
    BY <1>6, <2>1, <2>2, <2>3, <2>4, <2>5, <2>6, <2>7, <2>8 DEF Step
<1>7. CASE UNCHANGED vars
  BY <1>7 DEF vars, order, money, review, PlaceInv, PcType, Why, Events
<1> QED
  BY <1>1, <1>2, <1>3, <1>4, <1>5, <1>6, <1>7 DEF Next

\* An event that is known stays so.
LEMMA InboxStays ==
    ASSUME TypeOK, NEW x \in Events, inbox[x] # "absent", [Next]_vars
    PROVE  inbox'[x] # "absent"
<1>1. CASE Expire
  BY <1>1 DEF Expire, money, review, TypeOK
<1>2. CASE SettleDebt
  BY <1>2 DEF SettleDebt, order, review, TypeOK
<1>3. ASSUME NEW h \in {"debt", Dispute}, ReleaseHold(h) PROVE inbox'[x] # "absent"
  BY <1>3 DEF ReleaseHold, order, money, review, Why, Events, TypeOK
<1>4. ASSUME NEW e \in Events, Persist(e) PROVE inbox'[x] # "absent"
  BY <1>4 DEF Persist, order, money, TypeOK
<1>5. ASSUME NEW k \in Workers, NEW e \in Events, Deliver(k, e) PROVE inbox'[x] # "absent"
  BY <1>5 DEF Deliver, order, money, TypeOK
<1>6. ASSUME NEW k \in Workers, Step(k) \/ Fault(k) PROVE inbox'[x] # "absent"
  <2>1. CASE Resolve(k)
    BY <2>1 DEF Resolve, money, review, TypeOK
  <2>2. CASE Credit(k)
    BY <2>2 DEF Credit, review, Refunded, Grant, TooLate, TypeOK
  <2>3. CASE Reject(k)
    BY <2>3 DEF Reject, money, review, Refunded, TypeOK
  <2>4. CASE Reversal(k)
    BY <2>4 DEF Reversal, money, review, Refunded, Freeze, Superseded, TypeOK
  <2>5. CASE Settle(k)
    BY <2>5 DEF Settle, order, money, Why, Events, TypeOK
  <2>6. CASE OpenCase(k)
    BY <2>6 DEF OpenCase, order, money, TypeOK
  <2>7. CASE Mark(k)
    BY <2>7 DEF Mark, order, money, review, Good, TypeOK
  <2>8. CASE Fault(k)
    BY <2>8 DEF Fault, order, money, review, TypeOK
  <2> QED
    BY <1>6, <2>1, <2>2, <2>3, <2>4, <2>5, <2>6, <2>7, <2>8 DEF Step
<1>7. CASE UNCHANGED vars
  BY <1>7 DEF vars, order, money, review, TypeOK
<1> QED
  BY <1>1, <1>2, <1>3, <1>4, <1>5, <1>6, <1>7 DEF Next

\* What was given, taken back or come too late stays so.
LEMMA FateStays ==
    ASSUME TypeOK, OrderInv, [Next]_vars
    PROVE  Fate
<1>1. CASE Expire
  BY <1>1 DEF Expire, money, review, Fate, OrderInv, TypeOK, Refunded
<1>2. CASE SettleDebt
  BY <1>2 DEF SettleDebt, order, review, Fate, OrderInv, TypeOK, Refunded
<1>3. ASSUME NEW h \in {"debt", Dispute}, ReleaseHold(h) PROVE Fate
  BY <1>3 DEF ReleaseHold, order, money, review, Why, Events, Fate, OrderInv, TypeOK, Refunded
<1>4. ASSUME NEW e \in Events, Persist(e) PROVE Fate
  BY <1>4 DEF Persist, order, money, Fate, OrderInv, TypeOK, Refunded
<1>5. ASSUME NEW k \in Workers, NEW e \in Events, Deliver(k, e) PROVE Fate
  BY <1>5 DEF Deliver, order, money, Fate, OrderInv, TypeOK, Refunded
<1>6. ASSUME NEW k \in Workers, Step(k) \/ Fault(k) PROVE Fate
  <2>1. CASE Resolve(k)
    BY <2>1 DEF Resolve, money, review, Fate, OrderInv, TypeOK, Refunded
  <2>2. CASE Credit(k)
    BY <2>2 DEF Credit, review, Refunded, Grant, TooLate, Fate, OrderInv, TypeOK
  <2>3. CASE Reject(k)
    BY <2>3 DEF Reject, money, review, Refunded, Fate, OrderInv, TypeOK
  <2>4. CASE Reversal(k)
    BY <2>4 DEF Reversal, money, review, Refunded, Freeze, Superseded, Fate, OrderInv, TypeOK
  <2>5. CASE Settle(k)
    BY <2>5 DEF Settle, order, money, Why, Events, Fate, OrderInv, TypeOK, Refunded
  <2>6. CASE OpenCase(k)
    BY <2>6 DEF OpenCase, order, money, Fate, OrderInv, TypeOK, Refunded
  <2>7. CASE Mark(k)
    BY <2>7 DEF Mark, order, money, review, Good, Fate, OrderInv, TypeOK, Refunded
  <2>8. CASE Fault(k)
    BY <2>8 DEF Fault, order, money, review, Fate, OrderInv, TypeOK, Refunded
  <2> QED
    BY <1>6, <2>1, <2>2, <2>3, <2>4, <2>5, <2>6, <2>7, <2>8 DEF Step
<1>7. CASE UNCHANGED vars
  BY <1>7 DEF vars, order, money, review, Fate, OrderInv, TypeOK, Refunded
<1> QED
  BY <1>1, <1>2, <1>3, <1>4, <1>5, <1>6, <1>7 DEF Next

\* A dispute whose end is known holds nothing again.
LEMMA HoldStaysAway ==
    ASSUME TypeOK, WorkInv, Chronological,
           NEW t \in Ending, inbox[t] # "absent", Dispute \notin hold, [Next]_vars
    PROVE  Dispute \notin hold'
<1>1. CASE Expire
  BY <1>1, PaymentAssumption DEF Expire, money, review, WorkInv, Working, Chronological, TypeOK
<1>2. CASE SettleDebt
  BY <1>2, PaymentAssumption DEF SettleDebt, order, review, WorkInv, Working, Chronological,
      TypeOK
<1>3. ASSUME NEW h \in {"debt", Dispute}, ReleaseHold(h) PROVE Dispute \notin hold'
  BY <1>3, PaymentAssumption DEF ReleaseHold, order, money, review, Why, Events, WorkInv,
      Working, Chronological, TypeOK
<1>4. ASSUME NEW e \in Events, Persist(e) PROVE Dispute \notin hold'
  BY <1>4, PaymentAssumption DEF Persist, order, money, WorkInv, Working, Chronological, TypeOK
<1>5. ASSUME NEW k \in Workers, NEW e \in Events, Deliver(k, e) PROVE Dispute \notin hold'
  BY <1>5, PaymentAssumption DEF Deliver, order, money, WorkInv, Working, Chronological, TypeOK
<1>6. ASSUME NEW k \in Workers, Step(k) \/ Fault(k) PROVE Dispute \notin hold'
  <2>1. CASE Resolve(k)
    BY <2>1, PaymentAssumption DEF Resolve, money, review, WorkInv, Working, Chronological,
        TypeOK
  <2>2. CASE Credit(k)
    BY <2>2, PaymentAssumption DEF Credit, review, Refunded, Grant, TooLate, WorkInv, Working,
        Chronological, TypeOK
  <2>3. CASE Reject(k)
    BY <2>3, PaymentAssumption DEF Reject, money, review, Refunded, WorkInv, Working,
        Chronological, TypeOK
  <2>4. CASE Reversal(k)
    BY <2>4, PaymentAssumption DEF Reversal, money, review, Refunded, Freeze, Superseded,
        WorkInv, Working, Chronological, TypeOK
  <2>5. CASE Settle(k)
    BY <2>5, PaymentAssumption DEF Settle, order, money, Why, Events, WorkInv, Working,
        Chronological, TypeOK
  <2>6. CASE OpenCase(k)
    BY <2>6, PaymentAssumption DEF OpenCase, order, money, WorkInv, Working, Chronological,
        TypeOK
  <2>7. CASE Mark(k)
    BY <2>7, PaymentAssumption DEF Mark, order, money, review, Good, WorkInv, Working,
        Chronological, TypeOK
  <2>8. CASE Fault(k)
    BY <2>8, PaymentAssumption DEF Fault, order, money, review, WorkInv, Working, Chronological,
        TypeOK
  <2> QED
    BY <1>6, <2>1, <2>2, <2>3, <2>4, <2>5, <2>6, <2>7, <2>8 DEF Step
<1>7. CASE UNCHANGED vars
  BY <1>7 DEF vars, order, money, review, WorkInv, Working, Chronological, TypeOK
<1> QED
  BY <1>1, <1>2, <1>3, <1>4, <1>5, <1>6, <1>7 DEF Next

\* The effect of an event is for good.
LEMMA EffectStays ==
    ASSUME PaymentInv, Chronological, [Next]_vars, NEW e \in Events,
           inbox[e] # "absent", Effect(e)
    PROVE  inbox'[e] # "absent" /\ Effect(e)'
<1> USE DEF PaymentInv, BaseInv
<1>1. inbox'[e] # "absent"
  BY InboxStays
<1>2. /\ Refunded => Refunded'
      /\ lot # "none" => lot' # "none"
      /\ ord.status = "late_paid" => ord'.status = "late_paid" \/ Refunded'
      /\ facts' = facts
  BY FateStays DEF Fate
<1>3. e \in Paid => lot' # "none" \/ Refunded' \/ ord'.status = "late_paid"
  BY <1>2 DEF Effect
<1>4. e \in Ending => Dispute \notin hold' /\ (facts'.won \/ Refunded')
  BY <1>2, HoldStaysAway DEF Effect
<1>5. e \in Pending => Refunded' \/ Superseded(e)'
  <2>1. \A t \in Ending : inbox[t] # "absent" => inbox'[t] # "absent"
    BY InboxStays DEF Events
  <2> QED
    BY <1>2, <2>1 DEF Effect, Superseded
<1> QED
  BY <1>1, <1>3, <1>4, <1>5 DEF Effect

\* A worker that does not move is where its event lets it be.
LEMMA WorkingStays ==
    ASSUME PaymentInv, Chronological, [Next]_vars, NEW j \in Workers, w'[j] = w[j]
    PROVE  Working(j)'
<1> USE DEF PaymentInv, BaseInv
<1>1. Working(j)
  BY DEF WorkInv
<1>2. w[j].pc # "idle" => w[j].ev \in Events /\ inbox'[w[j].ev] # "absent"
  BY <1>1, InboxStays DEF Working
<1>3. (Refunded => Refunded') /\ facts' = facts
  BY FateStays DEF Fate
<1>4. w[j].pc \in {"case", "mark"} /\ w[j].out \in {"done", "acknowledged"} => Effect(w[j].ev)'
  BY <1>1, EffectStays DEF Working
<1> QED
  BY <1>1, <1>2, <1>3, <1>4 DEF Working

\* A worker acts on an event that is known, at a step for its kind.
LEMMA DeliverWorks ==
    ASSUME PaymentInv, NEW k \in Workers, NEW e \in Events, Deliver(k, e)
    PROVE  Working(k)'
<1> USE DEF PaymentInv, BaseInv
<1>1. CASE inbox[e] = "processed"
  BY <1>1 DEF Deliver, Working, WorkInv
<1>2. CASE inbox[e] # "processed"
  <2>1. w'[k].pc = "resolve" /\ w'[k].ev = e
    BY <1>2 DEF Deliver, TypeOK
  <2>2. inbox'[e] = "processing"
    BY <1>2 DEF Deliver, TypeOK
  <2> QED
    BY <2>1, <2>2 DEF Working
<1> QED
  BY <1>1, <1>2

\* An event found is credited, settled or reversed by its kind.
LEMMA ResolveWorks ==
    ASSUME PaymentInv, NEW k \in Workers, Resolve(k)
    PROVE  Working(k)'
<1> USE DEF PaymentInv, BaseInv
<1>1. w[k].ev \in Events /\ inbox'[w[k].ev] # "absent" /\ facts' = facts
  BY DEF Resolve, WorkInv, Working, review
<1>2. CASE ~linked'
  BY <1>1, <1>2, FinishFacts DEF Resolve, Working, PcType, Why
<1>3. CASE linked'
  <2>1. CASE w[k].ev \in Paid
    BY <1>1, <1>3, <2>1, GoFacts, PaymentAssumption DEF Resolve, Working, PcType
  <2>2. CASE w[k].ev \in Ending /\ facts.won
    BY <1>1, <1>3, <2>2, GoFacts, PaymentAssumption DEF Resolve, Working, PcType
  <2>3. CASE w[k].ev \notin Paid /\ ~(w[k].ev \in Ending /\ facts.won)
    <3>1. w'[k].pc = "reverse" /\ w'[k].ev = w[k].ev
      BY <1>3, <2>3, GoFacts DEF Resolve, PcType
    <3> QED
      BY <1>1, <2>3, <3>1 DEF Working, Events
  <2> QED
    BY <2>1, <2>2, <2>3
<1> QED
  BY <1>2, <1>3

\* A paid event that was acknowledged has been given, or came too late or after a refund.
LEMMA CreditWorks ==
    ASSUME PaymentInv, NEW k \in Workers, Credit(k)
    PROVE  Working(k)'
<1> USE DEF PaymentInv, BaseInv
<1>1. /\ w[k].ev \in Events /\ inbox'[w[k].ev] # "absent" /\ w[k].ev \in Paid
      /\ w[k].ev \notin Pending \cup Ending
  BY PaymentAssumption DEF Credit, WorkInv, Working, review
<1>2. w'[k].ev = w[k].ev /\ w'[k].pc \in {"case", "mark", "reject"}
  BY GoFacts, FinishFacts DEF Credit, PcType, Why
<1>3. w'[k].pc # "reject" => lot' # "none" \/ Refunded' \/ ord'.status = "late_paid"
  BY GoFacts, OrderInv DEF Credit, Grant, TooLate, Refunded, OrderInv, PcType, TypeOK
<1> QED
  BY <1>1, <1>2, <1>3 DEF Working, Effect

\* A rejected credit is acknowledged only of an order that was refunded.
LEMMA RejectWorks ==
    ASSUME PaymentInv, NEW k \in Workers, Reject(k)
    PROVE  Working(k)'
<1> USE DEF PaymentInv, BaseInv
<1>1. /\ w[k].ev \in Events /\ inbox'[w[k].ev] # "absent" /\ w[k].ev \in Paid
      /\ w[k].ev \notin Pending \cup Ending
  BY PaymentAssumption DEF Reject, WorkInv, Working, review
<1>2. /\ w'[k].ev = w[k].ev /\ w'[k].pc = "case"
      /\ w'[k].out = IF Refunded THEN "acknowledged" ELSE "rejected"
  BY FinishFacts DEF Reject, PcType, Why
<1>3. Refunded => Refunded'
  BY DEF Reject, Refunded
<1> QED
  BY <1>1, <1>2, <1>3 DEF Working, Effect

\* A reversal has happened when its worker goes on, or a pending notice is superseded.
LEMMA ReversalWorks ==
    ASSUME PaymentInv, NEW k \in Workers, Reversal(k)
    PROVE  Working(k)'
<1> USE DEF PaymentInv, BaseInv
<1>1. /\ w[k].ev \in Events /\ inbox'[w[k].ev] # "absent" /\ inbox' = inbox
      /\ w[k].ev \in Pending \cup Ending /\ w[k].ev \notin Paid
  BY PaymentAssumption DEF Reversal, WorkInv, Working, review
<1>2. w'[k].ev = w[k].ev
  BY GoFacts, FinishFacts DEF Reversal, PcType, Why
<1>3. CASE w[k].ev \in Ending
  <2>1. w[k].ev \notin Pending
    BY <1>3, PaymentAssumption
  <2>2. w'[k].pc = "settle" /\ Refunded'
    BY <1>3, <2>1, GoFacts DEF Reversal, Refunded, PcType, TypeOK
  <2> QED
    BY <1>1, <1>2, <1>3, <2>2 DEF Working
<1>4. CASE w[k].ev \in Pending
  <2>1. w[k].ev \notin Ending
    BY <1>4, PaymentAssumption
  <2>2. /\ w'[k].pc \in {"case", "mark"}
        /\ w'[k].out = "pending" \/ Refunded' \/ Superseded(w[k].ev)
    BY <1>4, <2>1, FinishFacts DEF Reversal, Refunded, PcType, Why, TypeOK
  <2>3. Superseded(w[k].ev) => Superseded(w[k].ev)'
    BY <1>1, <1>2 DEF Superseded
  <2> QED
    BY <1>1, <1>2, <2>1, <2>2, <2>3 DEF Working, Effect, Superseded
<1> QED
  BY <1>1, <1>3, <1>4

\* The end of a dispute releases its hold.
LEMMA SettleWorks ==
    ASSUME PaymentInv, NEW k \in Workers, Settle(k)
    PROVE  Working(k)'
<1> USE DEF PaymentInv, BaseInv
<1>1. /\ w[k].ev \in Ending /\ w[k].ev \in Events /\ w[k].ev \notin Paid \cup Pending
      /\ facts.won \/ Refunded
  BY PaymentAssumption DEF Settle, WorkInv, Working
<1>2. CASE facts.won
  BY <1>2, ReturnsFacts DEF Settle, Working
<1>3. CASE ~facts.won
  <2>1. w'[k].pc = "mark" /\ w'[k].ev = w[k].ev
    BY <1>3, FinishFacts DEF Settle, PcType
  <2>2. Dispute \notin hold' /\ Refunded'
    BY <1>1, <1>3 DEF Settle, order, Refunded
  <2>3. inbox'[w[k].ev] # "absent"
    BY <1>1 DEF Settle, WorkInv, Working
  <2> QED
    BY <1>1, <2>1, <2>2, <2>3 DEF Working, Effect
<1> QED
  BY <1>2, <1>3

\* A case, a mark and a fault claim nothing new.
LEMMA LastStepsWork ==
    ASSUME PaymentInv, Chronological, [Next]_vars, NEW k \in Workers,
           OpenCase(k) \/ Mark(k) \/ Fault(k)
    PROVE  Working(k)'
<1> USE DEF PaymentInv, BaseInv
<1>1. CASE OpenCase(k)
  <2>1. w'[k].pc = "mark" /\ w'[k].ev = w[k].ev /\ w'[k].out = w[k].out
    BY <1>1, GoFacts DEF OpenCase, PcType
  <2>2. /\ w[k].ev \in Events /\ inbox'[w[k].ev] # "absent"
        /\ w[k].out \in {"done", "acknowledged"} => Effect(w[k].ev)'
    BY <1>1, <2>1, EffectStays, InboxStays DEF OpenCase, WorkInv, Working
  <2> QED
    BY <2>1, <2>2 DEF Working
<1>2. CASE Mark(k)
  BY <1>2, ReturnsFacts DEF Mark, Working
<1>3. CASE Fault(k)
  <2>1. CASE Returns(k)
    BY <2>1, ReturnsFacts DEF Working
  <2>2. CASE Finish(k, "mark", "failed")
    <3>1. w'[k].pc = "mark" /\ w'[k].ev = w[k].ev /\ w'[k].out = "failed"
      BY <2>2, FinishFacts DEF PcType
    <3>2. w[k].ev \in Events /\ inbox'[w[k].ev] # "absent"
      BY <1>3, InboxStays DEF Fault, WorkInv, Working
    <3> QED
      BY <3>1, <3>2 DEF Working
  <2> QED
    BY <1>3, <2>1, <2>2 DEF Fault
<1> QED
  BY <1>1, <1>2, <1>3

\* Every step leaves every worker where it may be.
LEMMA WorkStep ==
    ASSUME PaymentInv, Chronological, [Next]_vars
    PROVE  WorkInv'
<1> SUFFICES ASSUME NEW j \in Workers PROVE Working(j)'
  BY DEF WorkInv
<1>1. CASE w'[j] = w[j]
  BY <1>1, WorkingStays
<1>2. CASE w'[j] # w[j]
  <2>1. PICK k \in Workers : (\E e \in Events : Deliver(k, e)) \/ Step(k) \/ Fault(k)
    BY <1>2 DEF Next, vars, Expire, SettleDebt, ReleaseHold, Persist
  <2>2. j = k
    <3>1. w \in [Workers -> WorkType]
      BY DEF PaymentInv, BaseInv, TypeOK
    <3> QED
      BY <1>2, <2>1, <3>1 DEF Step, Deliver, Resolve, Credit, Reject, Reversal, Settle,
          OpenCase, Mark, Fault, Go, Finish, Returns
  <2>3. CASE \E e \in Events : Deliver(k, e)
    BY <2>2, <2>3, DeliverWorks
  <2>4. CASE Step(k)
    BY <2>2, <2>4, ResolveWorks, CreditWorks, RejectWorks, ReversalWorks, SettleWorks,
        LastStepsWork DEF Step
  <2>5. CASE Fault(k)
    BY <2>2, <2>5, LastStepsWork
  <2> QED
    BY <2>1, <2>3, <2>4, <2>5
<1> QED
  BY <1>1, <1>2

\* What a step marks as done has had its effect.
LEMMA DoneStep ==
    ASSUME PaymentInv, Chronological, [Next]_vars
    PROVE  DoneInv'
<1> USE DEF PaymentInv, BaseInv
<1>1. \A e \in Events : inbox[e] = "processed" => Effect(e)'
  BY EffectStays DEF DoneInv
<1>2. \A e \in acked : e \in Events /\ inbox'[e] # "absent" /\ Effect(e)'
  BY EffectStays DEF DoneInv
<1>3. CASE \E k \in Workers, e \in Events : Deliver(k, e)
  <2>1. PICK k \in Workers, e \in Events : Deliver(k, e)
    BY <1>3
  <2>2. \A x \in Events : inbox'[x] = "processed" => inbox[x] = "processed"
    BY <2>1 DEF Deliver, TypeOK
  <2>3. \A x \in acked' : x \in acked \/ (x \in Events /\ inbox[x] = "processed")
    BY <2>1 DEF Deliver
  <2>4. \A x \in Events : inbox[x] = "processed" => inbox'[x] # "absent"
    BY InboxStays
  <2> QED
    BY <1>1, <1>2, <2>2, <2>3, <2>4 DEF DoneInv
<1>4. CASE \E k \in Workers : Settle(k)
  <2>1. PICK k \in Workers : Settle(k)
    BY <1>4
  <2>2. /\ w[k].ev \in Ending /\ w[k].ev \in Events /\ w[k].ev \notin Paid \cup Pending
        /\ inbox[w[k].ev] # "absent" /\ (facts.won \/ Refunded)
    BY <2>1, PaymentAssumption DEF Settle, WorkInv, Working
  <2>3. /\ Dispute \notin hold' /\ facts' = facts /\ (Refunded => Refunded')
        /\ \A x \in Events : inbox[x] # "absent" => inbox'[x] # "absent"
    BY <2>1, InboxStays, FateStays DEF Settle, Fate
  <2>4. ASSUME NEW x \in Events, x = w[k].ev PROVE Effect(x)'
    BY <2>2, <2>3, <2>4 DEF Effect
  <2>5. ASSUME NEW x \in Pending PROVE Effect(x)'
    <3>1. PICK t \in Ending : t = w[k].ev
      BY <2>2
    <3>2. inbox'[t] # "absent" /\ At[t] >= At[x]
      BY <2>2, <2>3, <3>1, PaymentAssumption DEF Chronological, Events
    <3>3. x \notin Paid \cup Ending
      BY <2>5, PaymentAssumption
    <3> QED
      BY <3>2, <3>3 DEF Effect, Superseded
  <2>6. \A x \in Events : inbox'[x] = "processed" =>
           inbox[x] = "processed" \/ x \in Pending \/ x = w[k].ev
    BY <2>1 DEF Settle
  <2>7. acked' \subseteq acked \cup {w[k].ev}
    BY <2>1 DEF Settle
  <2> QED
    BY <1>1, <1>2, <2>2, <2>3, <2>4, <2>5, <2>6, <2>7 DEF DoneInv
<1>5. CASE \E k \in Workers : Mark(k)
  <2>1. PICK k \in Workers : Mark(k)
    BY <1>5
  <2>2. w[k].ev \in Events /\ inbox[w[k].ev] # "absent"
    BY <2>1 DEF Mark, WorkInv, Working
  <2>3. ASSUME NEW x \in Events, x = w[k].ev, Good(k) PROVE inbox'[x] # "absent" /\ Effect(x)'
    <3>1. Effect(x)
      BY <2>1, <2>3 DEF Mark, WorkInv, Working, Good
    <3> QED
      BY <2>2, <2>3, <3>1, EffectStays
  <2>4. \A x \in Events : inbox'[x] = "processed" =>
           inbox[x] = "processed" \/ (x = w[k].ev /\ Good(k))
    BY <2>1 DEF Mark, TypeOK
  <2>5. \A x \in acked' : x \in acked \/ (x = w[k].ev /\ Good(k))
    BY <2>1 DEF Mark
  <2> QED
    BY <1>1, <1>2, <2>2, <2>3, <2>4, <2>5 DEF DoneInv
<1>6. CASE ~(\/ \E k \in Workers, e \in Events : Deliver(k, e)
             \/ \E k \in Workers : Settle(k) \/ Mark(k))
  <2>1. acked' = acked /\ \A x \in Events : inbox'[x] = "processed" => inbox[x] = "processed"
    BY <1>6 DEF Next, Step, vars, review, Expire, SettleDebt, ReleaseHold, Persist, Resolve,
        Credit, Reject, Reversal, OpenCase, Fault, TypeOK
  <2> QED
    BY <1>1, <1>2, <2>1 DEF DoneInv
<1> QED
  BY <1>3, <1>4, <1>5, <1>6

\* A step gives, refuses or takes back the value as PaidOnce does, or leaves it.
LEMMA PromiseStep ==
    ASSUME BaseInv, [Next]_vars
    PROVE  [Promise!Next]_<<given, debt.cents>>
<1>1. CASE Expire
  BY <1>1 DEF Expire, money, review, BaseInv, OrderInv, PlaceInv, given, Promise!Next,
      Promise!Give, Promise!Refuse, Promise!TakeBack
<1>2. CASE SettleDebt
  BY <1>2 DEF SettleDebt, order, review, BaseInv, OrderInv, PlaceInv, given, Promise!Next,
      Promise!Give, Promise!Refuse, Promise!TakeBack
<1>3. ASSUME NEW h \in {"debt", Dispute}, ReleaseHold(h) PROVE [Promise!Next]_<<given, debt.cents>>
  BY <1>3 DEF ReleaseHold, order, money, review, Why, Events, BaseInv, OrderInv, PlaceInv,
      given, Promise!Next, Promise!Give, Promise!Refuse, Promise!TakeBack
<1>4. ASSUME NEW e \in Events, Persist(e) PROVE [Promise!Next]_<<given, debt.cents>>
  BY <1>4 DEF Persist, order, money, BaseInv, OrderInv, PlaceInv, given, Promise!Next,
      Promise!Give, Promise!Refuse, Promise!TakeBack
<1>5. ASSUME NEW k \in Workers, NEW e \in Events, Deliver(k, e) PROVE [Promise!Next]_<<given, debt.cents>>
  BY <1>5 DEF Deliver, order, money, BaseInv, OrderInv, PlaceInv, given, Promise!Next,
      Promise!Give, Promise!Refuse, Promise!TakeBack
<1>6. ASSUME NEW k \in Workers, Step(k) \/ Fault(k) PROVE [Promise!Next]_<<given, debt.cents>>
  <2>1. CASE Resolve(k)
    BY <2>1 DEF Resolve, money, review, BaseInv, OrderInv, PlaceInv, given, Promise!Next,
        Promise!Give, Promise!Refuse, Promise!TakeBack
  <2>2. CASE Credit(k)
    BY <2>2 DEF Credit, review, Refunded, Grant, TooLate, BaseInv, OrderInv, PlaceInv, given,
        Promise!Next, Promise!Give, Promise!Refuse, Promise!TakeBack
  <2>3. CASE Reject(k)
    BY <2>3 DEF Reject, money, review, Refunded, BaseInv, OrderInv, PlaceInv, given,
        Promise!Next, Promise!Give, Promise!Refuse, Promise!TakeBack
  <2>4. CASE Reversal(k)
    <3>1. ~Refunded => lot \in {"none", "active"} /\ ord.ful \in {"pending", "review", "fulfilled"}
      BY DEF BaseInv, TypeOK, OrderInv, Refunded
    <3>2. \/ ord' = ord /\ lot' = lot /\ debt' = debt
          \/ /\ ~Refunded /\ ord.ful \in {"pending", "review"}
             /\ ord'.status = "refunded" /\ lot' = lot /\ debt' = debt
          \/ ~Refunded /\ ord.ful \notin {"pending", "review"} /\ ord'.status = "refunded" /\ Freeze
      <4>1. w[k].ev \in Pending \cup Ending
        BY <2>4 DEF Reversal, BaseInv, PlaceInv
      <4>2. CASE Refunded
        BY <2>4, <4>2 DEF Reversal, money
      <4>3. CASE ~Refunded /\ w[k].ev \in Pending
        BY <2>4, <4>3, PaymentAssumption DEF Reversal, money
      <4>4. CASE ~Refunded /\ w[k].ev \in Ending \ Pending /\ ord.ful \in {"pending", "review"}
        <5>1. ord' = [status |-> "refunded", ful |-> "reversed"] /\ UNCHANGED money
          BY <2>4, <4>4 DEF Reversal
        <5> QED
          BY <4>4, <5>1 DEF money
      <4>5. CASE ~Refunded /\ w[k].ev \in Ending \ Pending /\ ord.ful \notin {"pending", "review"}
        <5>1. ord' = [status |-> "refunded", ful |-> "reversed"] /\ Freeze
          BY <2>4, <4>5 DEF Reversal
        <5> QED
          BY <4>5, <5>1
      <4> QED
        BY <4>1, <4>2, <4>3, <4>4, <4>5
    <3>3. CASE ord' = ord /\ lot' = lot /\ debt' = debt
      BY <3>3 DEF given, Refunded
    <3>4. CASE /\ ~Refunded /\ ord.ful \in {"pending", "review"}
             /\ ord'.status = "refunded" /\ lot' = lot /\ debt' = debt
      <4>1. lot = "none"
        BY <3>1, <3>4 DEF BaseInv, TypeOK, OrderInv
      <4> QED
        BY <4>1, <3>4 DEF given, Refunded, Promise!Next, Promise!Refuse
    <3>5. CASE ~Refunded /\ ord.ful \notin {"pending", "review"} /\ ord'.status = "refunded" /\ Freeze
      <4>1. lot = "active"
        BY <3>1, <3>5 DEF BaseInv, TypeOK, OrderInv
      <4>2. lot' = "reversed" /\ debt'.cents \in 0 .. Amount
        BY <3>5 DEF Freeze
      <4> QED
        BY <4>1, <4>2 DEF given, Promise!Next, Promise!TakeBack
    <3> QED
      BY <3>2, <3>3, <3>4, <3>5
  <2>5. CASE Settle(k)
    BY <2>5 DEF Settle, order, money, Why, Events, BaseInv, OrderInv, PlaceInv, given,
        Promise!Next, Promise!Give, Promise!Refuse, Promise!TakeBack
  <2>6. CASE OpenCase(k)
    BY <2>6 DEF OpenCase, order, money, BaseInv, OrderInv, PlaceInv, given, Promise!Next,
        Promise!Give, Promise!Refuse, Promise!TakeBack
  <2>7. CASE Mark(k)
    BY <2>7 DEF Mark, order, money, review, Good, BaseInv, OrderInv, PlaceInv, given,
        Promise!Next, Promise!Give, Promise!Refuse, Promise!TakeBack
  <2>8. CASE Fault(k)
    BY <2>8 DEF Fault, order, money, review, BaseInv, OrderInv, PlaceInv, given, Promise!Next,
        Promise!Give, Promise!Refuse, Promise!TakeBack
  <2> QED
    BY <1>6, <2>1, <2>2, <2>3, <2>4, <2>5, <2>6, <2>7, <2>8 DEF Step
<1>7. CASE UNCHANGED vars
  BY <1>7 DEF vars, order, money, review, BaseInv, OrderInv, PlaceInv, given, Promise!Next,
      Promise!Give, Promise!Refuse, Promise!TakeBack
<1> QED
  BY <1>1, <1>2, <1>3, <1>4, <1>5, <1>6, <1>7 DEF Next

\* The part of the invariant that needs no assumption holds of every reachable state.
THEOREM PaymentBase == Spec => []BaseInv
<1>1. Init => BaseInv
  BY InitHolds DEF PaymentInv
<1>2. BaseInv /\ [Next]_vars => BaseInv'
  BY TypeStep, OrderStep, PlaceStep DEF BaseInv
<1> QED
  BY <1>1, <1>2, PTL DEF Spec

\* Every variable keeps its type.
THEOREM PaymentTypes == Spec => []TypeOK
<1>1. BaseInv => TypeOK
  BY DEF BaseInv
<1> QED
  BY <1>1, PaymentBase, PTL

\* The order implements PaidOnce: its value is given once, never after the money has gone
\* back, and what is taken back is recovered or owed.
THEOREM PaidOnceImplemented == Spec => PromiseKept
<1>1. Init => Promise!Init
  BY DEF Init, Promise!Init, given, Refunded
<1>2. BaseInv /\ [Next]_vars => [Promise!Next]_<<given, debt.cents>>
  BY PromiseStep
<1> QED
  BY <1>1, <1>2, PaymentBase, PTL DEF Spec, PromiseKept, Promise!Spec

\* The whole invariant, where no pending notice is dated after the end of its dispute.
THEOREM PaymentSafe ==
    ASSUME Chronological
    PROVE  Spec => []PaymentInv
<1>1. PaymentInv /\ [Next]_vars => PaymentInv'
  BY TypeStep, OrderStep, PlaceStep, WorkStep, DoneStep DEF PaymentInv, BaseInv
<1> QED
  BY <1>1, InitHolds, PTL DEF Spec

\* What the provider has been told is done has had its effect.
THEOREM AcknowledgedIsDone ==
    ASSUME Chronological
    PROVE  Spec => []AckedHasEffect
<1>1. PaymentInv => AckedHasEffect
  BY DEF PaymentInv, DoneInv, Effect, AckedHasEffect
<1> QED
  BY <1>1, PaymentSafe, PTL

\* A dispute whose end was handled holds the account no more.
THEOREM EndPrevails ==
    ASSUME Chronological
    PROVE  Spec => []TerminalPrevails
<1>1. PaymentInv => TerminalPrevails
  BY DEF PaymentInv, DoneInv, Effect, TerminalPrevails, Events
<1> QED
  BY <1>1, PaymentSafe, PTL
=============================================================================
