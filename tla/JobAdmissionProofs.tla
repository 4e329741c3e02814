------------------------- MODULE JobAdmissionProofs -------------------------
(***************************************************************************)
(* Proofs about JobAdmission for every finite set of calls, every set of    *)
(* users and all limits.                                                   *)
(***************************************************************************)
EXTENDS JobAdmission, FiniteSetTheorems, FunctionTheorems, TLAPS

\* One point for each unit of each call: Total counts them.
Points(f) == UNION {{c} \X (1 .. f[c]) : c \in Calls}

\* There are finitely many points, so that the total is a natural number.
LEMMA TotalNat ==
    ASSUME NEW f \in [Calls -> Nat]
    PROVE  IsFiniteSet(Points(f)) /\ Total(f) \in Nat
<1> DEFINE Rows == {{c} \X (1 .. f[c]) : c \in Calls}
           line == [c \in Calls |-> {c} \X (1 .. f[c])]
<1>1. IsFiniteSet(Calls)
  BY CallsAssumption
<1>2. IsFiniteSet(Rows)
  <2>1. line \in Surjection(Calls, Rows)
    BY DEF Surjection
  <2> QED
    BY <2>1, <1>1, FS_Surjection
<1>3. ASSUME NEW R \in Rows PROVE IsFiniteSet(R)
  <2>1. PICK c \in Calls : R = {c} \X (1 .. f[c])
    BY <1>3
  <2>2. IsFiniteSet({c})
    BY FS_Singleton
  <2>3. f[c] \in Int
    OBVIOUS
  <2>4. IsFiniteSet(1 .. f[c])
    BY <2>3, FS_Interval
  <2> QED
    BY <2>1, <2>2, <2>4, FS_Product
<1>4. IsFiniteSet(UNION Rows)
  BY <1>2, <1>3, FS_UNION
<1> QED
  BY <1>4, FS_CardinalityType DEF Total, Points

\* A total grows with its terms.
LEMMA TotalMonotone ==
    ASSUME NEW f \in [Calls -> Nat], NEW g \in [Calls -> Nat],
           \A c \in Calls : f[c] <= g[c]
    PROVE  Total(f) <= Total(g)
<1>1. Points(f) \subseteq Points(g)
  <2>1. ASSUME NEW p \in Points(f) PROVE p \in Points(g)
    <3>1. PICK c \in Calls : p \in {c} \X (1 .. f[c])
      BY DEF Points
    <3>2. p \in {c} \X (1 .. g[c])
      BY <3>1
    <3> QED
      BY <3>2 DEF Points
  <2> QED
    BY <2>1
<1> QED
  BY <1>1, TotalNat, FS_Subset DEF Total, Points

\* One term that was nothing and becomes n adds n at most.
LEMMA TotalPlus ==
    ASSUME NEW f \in [Calls -> Nat], NEW g \in [Calls -> Nat], NEW e \in Calls,
           NEW n \in Nat, f[e] <= n, \A c \in Calls \ {e} : f[c] <= g[c]
    PROVE  Total(f) <= Total(g) + n
<1> DEFINE E == {e} \X (1 .. n)
<1>1. Points(f) \subseteq Points(g) \cup E
  <2>1. ASSUME NEW p \in Points(f) PROVE p \in Points(g) \cup E
    <3>1. PICK c \in Calls : p \in {c} \X (1 .. f[c])
      BY DEF Points
    <3>2. CASE c = e
      BY <3>1, <3>2
    <3>3. CASE c # e
      <4>1. p \in {c} \X (1 .. g[c])
        BY <3>1, <3>3
      <4> QED
        BY <4>1 DEF Points
    <3> QED
      BY <3>2, <3>3
  <2> QED
    BY <2>1
<1>2. IsFiniteSet(E) /\ Cardinality(E) = n
  <2>1. IsFiniteSet({e}) /\ Cardinality({e}) = 1
    BY FS_Singleton
  <2>2. IsFiniteSet(1 .. n) /\ Cardinality(1 .. n) = n
    BY FS_Interval
  <2> QED
    BY <2>1, <2>2, FS_Product
<1>3. IsFiniteSet(Points(g) \cup E)
      /\ Cardinality(Points(g) \cup E)
           = Cardinality(Points(g)) + Cardinality(E) - Cardinality(Points(g) \cap E)
  BY <1>2, TotalNat, FS_Union
<1>4. Cardinality(Points(g) \cap E) \in Nat
  BY <1>2, FS_Intersection, FS_CardinalityType
<1>5. Cardinality(Points(f)) <= Cardinality(Points(g) \cup E)
  BY <1>1, <1>3, FS_Subset
<1>6. /\ Cardinality(Points(f)) = Total(f) /\ Total(f) \in Nat
      /\ Cardinality(Points(g)) = Total(g) /\ Total(g) \in Nat
  BY TotalNat DEF Total, Points
<1> HIDE DEF E
<1> QED
  BY <1>2, <1>3, <1>4, <1>5, <1>6

\* The end of a worker's request, and of its hold on the lock, keep the types.
LEMMA EndType ==
    ASSUME TypeOK, NEW c \in Calls
    PROVE  /\ Release(c) => mutex' \in Calls \cup {NoCall}
           /\ \A l \in PcType : Go(c, l) => pc' \in [Calls -> PcType]
           /\ End(c) => /\ pc' \in [Calls -> PcType] /\ req' \in [Calls -> ReqType]
                        /\ answer' \in [Calls -> [units : Nat, ok : BOOLEAN]]
<1>1. Release(c) => mutex' \in Calls \cup {NoCall}
  BY DEF Release, TypeOK
<1>2. \A l \in PcType : Go(c, l) => pc' \in [Calls -> PcType]
  BY DEF Go, TypeOK
<1>3. NothingRead \in ReqType
  BY LimitsAssumption DEF NothingRead, ReqType
<1>4. NoAnswer \in [units : Nat, ok : BOOLEAN]
  BY DEF NoAnswer
<1>5. "end" \in PcType
  BY DEF PcType
<1>6. End(c) => pc' \in [Calls -> PcType]
  BY <1>2, <1>5 DEF End
<1>7. End(c) => req' \in [Calls -> ReqType]
  BY <1>3 DEF End, TypeOK
<1>8. End(c) => answer' \in [Calls -> [units : Nat, ok : BOOLEAN]]
  BY <1>4 DEF End, TypeOK
<1> QED
  BY <1>1, <1>2, <1>6, <1>7, <1>8

\* A missed window keeps the types.
LEMMA MissWindowType ==
    ASSUME TypeOK, NEW c \in Calls, MissWindow(c)
    PROVE  TypeOK'
<1>1. mutex' \in Calls \cup {NoCall}
  BY EndType DEF MissWindow
<1>2. pc' \in [Calls -> PcType] /\ req' \in [Calls -> ReqType]
      /\ answer' \in [Calls -> [units : Nat, ok : BOOLEAN]]
  <2>1. CASE req[c].again
    <3>1. req' = [req EXCEPT ![c].win = day, ![c].again = FALSE]
          /\ Go(c, "locking") /\ UNCHANGED answer
      BY <2>1 DEF MissWindow
    <3>2. pc' \in [Calls -> PcType]
      BY <3>1, EndType DEF PcType
    <3>3. req' \in [Calls -> ReqType]
      <4> DEFINE r == [req EXCEPT ![c].win = day]
      <4>1. r \in [Calls -> ReqType]
        BY DEF TypeOK, ReqType
      <4>2. [r EXCEPT ![c].again = FALSE] \in [Calls -> ReqType]
        <5> HIDE DEF r
        <5> QED
          BY <4>1 DEF ReqType
      <4> QED
        BY <3>1, <4>2
    <3> QED
      BY <3>1, <3>2, <3>3 DEF TypeOK
  <2>2. CASE ~req[c].again
    BY <2>2, EndType DEF MissWindow
  <2> QED
    BY <2>1, <2>2
<1>3. UNCHANGED <<day, rows, task, spent, sentOn>>
  BY DEF MissWindow
<1> QED
  BY <1>1, <1>2, <1>3 DEF TypeOK, rows

\* A request and the transaction of its claim keep the types.
LEMMA ClaimType ==
    ASSUME TypeOK, NEW c \in Calls, Begin(c) \/ TakeLock(c) \/ Count(c) \/ Insert(c)
    PROVE  TypeOK'
<1> USE DEF PcType
<1>1. CASE Begin(c)
  <2>1. PICK w \in 0 .. MaxDay :
          req' = [req EXCEPT ![c] = [win |-> w, again |-> TRUE, gen |-> task.gen,
                                     attempt |-> task.attempt, floor |-> task.meter]]
    BY <1>1 DEF Begin
  <2>2. req' \in [Calls -> ReqType]
    BY <2>1 DEF TypeOK, ReqType, TaskType
  <2>3. pc' \in [Calls -> PcType]
    BY <1>1, EndType DEF Begin
  <2> QED
    BY <1>1, <2>2, <2>3 DEF Begin, TypeOK, rows
<1>2. CASE TakeLock(c)
  <2>1. CASE req[c].win = day
    <3>1. pc' \in [Calls -> PcType]
      BY <1>2, <2>1, EndType DEF TakeLock
    <3> QED
      BY <1>2, <2>1, <3>1 DEF TakeLock, TypeOK, rows
  <2>2. CASE req[c].win # day
    BY <1>2, <2>2, MissWindowType DEF TakeLock
  <2> QED
    BY <2>1, <2>2
<1>3. CASE Count(c)
  <2>1. \/ Go(c, "fits") /\ UNCHANGED <<mutex, req, answer>>
        \/ End(c) /\ Release(c)
    BY <1>3 DEF Count
  <2>2. UNCHANGED <<day, rows, task, spent, sentOn>>
    BY <1>3 DEF Count
  <2>3. /\ pc' \in [Calls -> PcType] /\ mutex' \in Calls \cup {NoCall}
        /\ req' \in [Calls -> ReqType]
        /\ answer' \in [Calls -> [units : Nat, ok : BOOLEAN]]
    BY <2>1, EndType DEF TypeOK
  <2> QED
    BY <2>2, <2>3 DEF TypeOK, rows
<1>4. CASE Insert(c)
  <2>1. CASE req[c].win = day
    <3>1. pc' \in [Calls -> PcType] /\ mutex' \in Calls \cup {NoCall}
      BY <1>4, <2>1, EndType DEF Insert
    <3>2. /\ row' \in [Calls -> {"none", "processing", "success", "failed"}]
          /\ keyed' \in [Calls -> BOOLEAN] /\ born' \in [Calls -> Nat]
      BY <1>4, <2>1 DEF Insert, TypeOK, TaskType
    <3> QED
      BY <1>4, <2>1, <3>1, <3>2 DEF Insert, TypeOK
  <2>2. CASE req[c].win # day
    BY <1>4, <2>2, MissWindowType DEF Insert
  <2> QED
    BY <2>1, <2>2
<1> QED
  BY <1>1, <1>2, <1>3, <1>4

\* The call and whatever ends its row keep the types.
LEMMA CallType ==
    ASSUME TypeOK, NEW c \in Calls,
           Recheck(c) \/ CallProvider(c) \/ Settle(c) \/ Crash(c) \/ Reclaim(c)
    PROVE  TypeOK'
<1>0. Units[c] \in Nat
  BY CallsAssumption
<1>1. CASE Recheck(c)
  <2>1. Go(c, "cleared") \/ Go(c, "answered")
    BY <1>1 DEF Recheck
  <2>2. pc' \in [Calls -> PcType]
    BY <2>1, EndType DEF PcType
  <2> QED
    BY <1>1, <2>2 DEF Recheck, TypeOK, rows
<1>2. CASE CallProvider(c)
  <2>1. PICK s \in 0 .. Units[c], ok \in BOOLEAN : \E m \in s .. Units[c] :
          /\ spent' = [spent EXCEPT ![c] = s]
          /\ answer' = [answer EXCEPT ![c] = [units |-> m, ok |-> ok]]
    BY <1>2 DEF CallProvider
  <2>2. PICK m \in s .. Units[c] :
          /\ spent' = [spent EXCEPT ![c] = s]
          /\ answer' = [answer EXCEPT ![c] = [units |-> m, ok |-> ok]]
    BY <2>1
  <2>3. s \in Nat /\ m \in Nat
    BY <1>0
  <2>4. pc' \in [Calls -> PcType]
    BY <1>2, EndType DEF CallProvider, PcType
  <2>5. spent' \in [Calls -> Nat] /\ answer' \in [Calls -> [units : Nat, ok : BOOLEAN]]
    BY <2>2, <2>3 DEF TypeOK
  <2>6. sentOn' \in [Calls -> 0 .. MaxDay]
    BY <1>2 DEF CallProvider, TypeOK
  <2> QED
    BY <1>2, <2>4, <2>5, <2>6 DEF CallProvider, TypeOK, rows
<1>3. CASE Settle(c)
  <2> DEFINE u == answer[c].units
  <2>1. u \in Nat
    BY DEF TypeOK
  <2>2. \/ UNCHANGED <<rows, task>>
        \/ /\ row' = [row EXCEPT ![c] = IF answer[c].ok THEN "success" ELSE "failed"]
           /\ actual' = [actual EXCEPT ![c] = u]
           /\ doneOn' = [doneOn EXCEPT ![c] = day]
           /\ keyed' = [keyed EXCEPT ![c] = answer[c].ok /\ c \in Proxied]
           /\ task' = [task EXCEPT !.meter = @ + u] \/ task' = task
           /\ UNCHANGED born
    BY <1>3 DEF Settle
  <2>3. End(c) /\ UNCHANGED <<day, mutex, spent, sentOn>>
    BY <1>3 DEF Settle
  <2> HIDE DEF u
  <2>4. CASE UNCHANGED <<rows, task>>
    BY <2>3, <2>4, EndType DEF TypeOK, rows
  <2>5. CASE ~UNCHANGED <<rows, task>>
    <3>1. row' \in [Calls -> {"none", "processing", "success", "failed"}]
      BY <2>2, <2>5 DEF TypeOK
    <3>4. actual' \in [Calls -> Nat \cup {Null}] /\ doneOn' \in [Calls -> 0 .. MaxDay]
      BY <2>1, <2>2, <2>5 DEF TypeOK
    <3>2. keyed' \in [Calls -> BOOLEAN]
      BY <2>2, <2>5 DEF TypeOK
    <3>3. task' \in TaskType
      BY <2>1, <2>2, <2>5 DEF TypeOK, TaskType
    <3> QED
      BY <2>2, <2>3, <2>5, <3>1, <3>2, <3>3, <3>4, EndType DEF TypeOK
  <2> QED
    BY <2>4, <2>5
<1>4. CASE Crash(c)
  <2>1. \/ /\ \E s \in 0 .. Units[c] : spent' = [spent EXCEPT ![c] = s]
           /\ sentOn' = [sentOn EXCEPT ![c] = day]
        \/ UNCHANGED <<spent, sentOn>>
    BY <1>4 DEF Crash
  <2>2. spent' \in [Calls -> Nat] /\ sentOn' \in [Calls -> 0 .. MaxDay]
    <3>1. CASE UNCHANGED <<spent, sentOn>>
      BY <3>1 DEF TypeOK
    <3>2. CASE ~UNCHANGED <<spent, sentOn>>
      <4>1. PICK s \in 0 .. Units[c] : spent' = [spent EXCEPT ![c] = s]
        BY <2>1, <3>2
      <4>2. s \in Nat /\ sentOn' = [sentOn EXCEPT ![c] = day]
        BY <1>0, <2>1, <3>2
      <4> QED
        BY <4>1, <4>2 DEF TypeOK
    <3> QED
      BY <3>1, <3>2
  <2> QED
    BY <1>4, <2>2, EndType DEF Crash, TypeOK, rows
<1>5. CASE Reclaim(c)
  BY <1>5 DEF Reclaim, TypeOK
<1> QED
  BY <1>1, <1>2, <1>3, <1>4, <1>5

\* Types are preserved by every step.
LEMMA TypeStep == TypeOK /\ [Next]_vars => TypeOK'
<1> SUFFICES ASSUME TypeOK, [Next]_vars PROVE TypeOK'
  OBVIOUS
<1>1. CASE Tick
  BY <1>1, LimitsAssumption DEF Tick, TypeOK, rows
<1>2. CASE Dispatch \/ Requeue \/ Stop \/ Retry
  <2>1. task' \in TaskType
    <3>1. CASE Dispatch
      <4> DEFINE t == [task EXCEPT !.status = "on"]
      <4>1. t \in TaskType /\ task.gen \in Nat
        BY DEF TypeOK, TaskType
      <4>2. [t EXCEPT !.gen = task.gen + 1] \in TaskType
        <5> HIDE DEF t
        <5> QED
          BY <4>1 DEF TaskType
      <4> QED
        BY <3>1, <4>2 DEF Dispatch, SetTask
    <3>2. CASE Requeue \/ Stop
      BY <3>2 DEF Requeue, Stop, SetTask, TypeOK, TaskType
    <3>3. CASE Retry
      <4> DEFINE q == [task EXCEPT !.status = "queued"]
                 t == [q EXCEPT !.attempt = task.attempt + 1]
      <4>0. q \in TaskType /\ task.attempt \in Nat
        BY DEF TypeOK, TaskType
      <4>1. t \in TaskType
        <5> HIDE DEF q
        <5> QED
          BY <4>0 DEF TaskType
      <4>2. [t EXCEPT !.meter = 0] \in TaskType
        <5> HIDE DEF t
        <5> QED
          BY <4>1 DEF TaskType
      <4> QED
        BY <3>3, <4>2 DEF Retry, SetTask
    <3> QED
      BY <1>2, <3>1, <3>2, <3>3
  <2>2. UNCHANGED <<day, mutex, rows, pc, req, answer, spent, sentOn>>
    BY <1>2 DEF Dispatch, Requeue, Stop, Retry, SetTask
  <2> QED
    BY <2>1, <2>2 DEF TypeOK, rows
<1>3. ASSUME NEW c \in Calls, Step(c) PROVE TypeOK'
  BY <1>3, ClaimType, CallType DEF Step
<1>4. CASE UNCHANGED vars
  BY <1>4 DEF TypeOK, vars, rows
<1> QED
  BY <1>1, <1>2, <1>3, <1>4 DEF Next

\* Every variable keeps its type, for any set of calls and any limits.
THEOREM AdmissionTypes == Spec => []TypeOK
<1>1. Init => TypeOK
  BY LimitsAssumption DEF Init, TypeOK, NothingRead, NoAnswer, ReqType, TaskType, PcType
<1> QED
  BY <1>1, TypeStep, PTL DEF Spec

----------------------------------------------------------------------------
\* What every step of a call leaves alone: the clock, and the rows and workers of
\* the other calls.
LEMMA StepLocal ==
    ASSUME TypeOK, NEW c \in Calls, Step(c)
    PROVE  /\ day' = day
           /\ \A e \in Calls \ {c} :
                /\ pc'[e] = pc[e] /\ row'[e] = row[e] /\ actual'[e] = actual[e]
                /\ keyed'[e] = keyed[e] /\ born'[e] = born[e]
                /\ doneOn'[e] = doneOn[e] /\ req'[e] = req[e] /\ answer'[e] = answer[e]
                /\ spent'[e] = spent[e] /\ sentOn'[e] = sentOn[e]
<1> USE DEF TypeOK, rows, Go, End
<1>1. CASE Begin(c)
  BY <1>1 DEF Begin
<1>2. CASE TakeLock(c)
  BY <1>2 DEF TakeLock, MissWindow
<1>3. CASE Count(c)
  BY <1>3 DEF Count
<1>4. CASE Insert(c)
  BY <1>4 DEF Insert, MissWindow
<1>5. CASE Recheck(c)
  BY <1>5 DEF Recheck
<1>6. CASE CallProvider(c)
  BY <1>6 DEF CallProvider
<1>7. CASE Settle(c)
  BY <1>7 DEF Settle
<1>8. CASE Crash(c)
  BY <1>8 DEF Crash
<1>9. CASE Reclaim(c)
  BY <1>9 DEF Reclaim
<1> QED
  BY <1>1, <1>2, <1>3, <1>4, <1>5, <1>6, <1>7, <1>8, <1>9 DEF Step

\* The end of a worker's request.
LEMMA EndPoint ==
    ASSUME TypeOK, NEW c \in Calls, End(c)
    PROVE  pc'[c] = "end" /\ answer'[c].units = 0
BY DEF End, Go, NoAnswer, TypeOK

\* What a step does to the row and the worker of its own call.
LEMMA StepOwn ==
    ASSUME TypeOK, RowFollowsWorker, HolderCounts, AnswersFit, NEW c \in Calls, Step(c)
    PROVE  \/ /\ pc'[c] \in {"locking", "counting", "fits", "end"} \* before its row
              /\ pc[c] \in {"idle", "locking", "counting", "fits"}
              /\ UNCHANGED rows /\ UNCHANGED <<spent, sentOn>>
              /\ answer'[c].units <= Units[c]
              /\ mutex' = mutex \/ mutex \in {c, NoCall}
              /\ pc'[c] = "counting" => mutex' = c /\ mutex = NoCall
              /\ pc'[c] = "fits" => /\ mutex' = mutex /\ mutex = c /\ pc[c] = "counting"
                                    /\ req' = req /\ FitsDay(c, req[c].win)
                                    /\ ~KeyHeld(KeyOf[c]) /\ (c \in Proxied => FitsTask(c))
           \/ /\ pc[c] = "fits" /\ req[c].win = day /\ pc'[c] = "claimed" \* inserted
              /\ mutex = c
              /\ row' = [row EXCEPT ![c] = "processing"]
              /\ keyed' = [keyed EXCEPT ![c] = TRUE]
              /\ UNCHANGED <<actual, doneOn, answer, spent, sentOn>>
           \/ /\ pc[c] \in {"claimed", "cleared", "answered"} \* with its row
              /\ pc'[c] \in {"cleared", "answered", "end"}
              /\ mutex' = mutex \/ mutex = c
              /\ UNCHANGED rows
              /\ answer'[c].units <= Units[c]
           \/ /\ Active(c) /\ pc[c] \in {"answered", "end"} /\ pc'[c] = "end" \* it ends
              /\ mutex = NoCall /\ mutex' = mutex
              /\ row'[c] \in {"success", "failed"}
              /\ doneOn'[c] = day
              /\ actual'[c] \in {answer[c].units, actual[c]}
              /\ answer'[c].units <= Units[c]
              /\ UNCHANGED <<spent, sentOn>>
<1> USE DEF Go
<1>0. Units[c] \in Nat /\ c # NoCall
  BY CallsAssumption
<1>m. ASSUME MissWindow(c), pc[c] \in {"locking", "fits"}
      PROVE  /\ pc'[c] \in {"locking", "end"} /\ UNCHANGED rows /\ UNCHANGED <<spent, sentOn>>
             /\ mutex' = mutex \/ mutex = c
             /\ answer'[c].units <= Units[c]
  BY <1>m, <1>0, EndPoint DEF MissWindow, Release, TypeOK, AnswersFit
<1>1. CASE Begin(c)
  BY <1>1 DEF Begin, TypeOK, AnswersFit
<1>2. CASE TakeLock(c)
  BY <1>2, <1>m DEF TakeLock, TypeOK, AnswersFit
<1>3. CASE Count(c)
  <2>1. CASE /\ Go(c, "fits") /\ UNCHANGED <<mutex, req, answer>>
             /\ FitsDay(c, req[c].win)
             /\ ~KeyHeld(KeyOf[c]) /\ (c \in Proxied => FitsTask(c))
    BY <1>3, <2>1 DEF Count, TypeOK, AnswersFit, HolderCounts
  <2>2. CASE End(c) /\ Release(c)
    BY <1>3, <2>2, <1>0, EndPoint DEF Count, Release
  <2> QED
    BY <1>3, <2>1, <2>2 DEF Count
<1>4. CASE Insert(c)
  <2>1. CASE req[c].win = day
    BY <1>4, <2>1 DEF Insert, TypeOK, HolderCounts
  <2>2. CASE req[c].win # day
    BY <1>4, <2>2, <1>m DEF Insert
  <2> QED
    BY <2>1, <2>2
<1>5. CASE Recheck(c)
  BY <1>5 DEF Recheck, TypeOK, AnswersFit
<1>6. CASE CallProvider(c)
  <2>1. PICK s \in 0 .. Units[c], ok \in BOOLEAN : \E m \in s .. Units[c] :
          answer' = [answer EXCEPT ![c] = [units |-> m, ok |-> ok]]
    BY <1>6 DEF CallProvider
  <2>3. PICK m \in s .. Units[c] : answer' = [answer EXCEPT ![c] = [units |-> m, ok |-> ok]]
    BY <2>1
  <2>2. answer'[c].units <= Units[c]
    BY <1>0, <2>3 DEF TypeOK
  <2> QED
    BY <1>6, <2>2 DEF CallProvider, TypeOK
<1>7. CASE Settle(c)
  <2>1. pc[c] = "answered" /\ mutex = NoCall /\ Active(c) /\ End(c)
        /\ UNCHANGED <<mutex, spent, sentOn>>
    BY <1>7 DEF Settle, RowFollowsWorker
  <2>2. pc'[c] = "end" /\ answer'[c].units <= Units[c]
    BY <2>1, <1>0, EndPoint
  <2>3. CASE UNCHANGED rows
    BY <2>1, <2>2, <2>3
  <2>4. CASE ~UNCHANGED rows
    <3>1. /\ row' = [row EXCEPT ![c] = IF answer[c].ok THEN "success" ELSE "failed"]
          /\ actual' = [actual EXCEPT ![c] = answer[c].units]
          /\ doneOn' = [doneOn EXCEPT ![c] = day]
      BY <1>7, <2>4 DEF Settle
    <3> QED
      BY <2>1, <2>2, <3>1 DEF TypeOK
  <2> QED
    BY <2>3, <2>4
<1>8. CASE Crash(c)
  <2>1. /\ pc[c] \notin {"idle", "end"} /\ Release(c) /\ End(c) /\ UNCHANGED rows
        /\ pc[c] # "cleared" => UNCHANGED <<spent, sentOn>>
    BY <1>8 DEF Crash
  <2>2. pc[c] \in PcType
    BY DEF TypeOK
  <2>3. mutex' = mutex \/ mutex = c
    BY <2>1 DEF Release
  <2> QED
    BY <2>1, <2>2, <2>3, <1>0, EndPoint DEF PcType
<1>9. CASE Reclaim(c)
  BY <1>9 DEF Reclaim, TypeOK, AnswersFit
<1> QED
  BY <1>1, <1>2, <1>3, <1>4, <1>5, <1>6, <1>7, <1>8, <1>9 DEF Step

----------------------------------------------------------------------------
\* The parts of the invariant that are not about sums.
Orderly == TypeOK /\ RowFollowsWorker /\ HolderCounts /\ AnswersFit /\ EndedByNow

\* Every step keeps them.
LEMMA OrderlyStep == Orderly /\ [Next]_vars => Orderly'
<1> SUFFICES ASSUME Orderly, [Next]_vars PROVE Orderly'
  OBVIOUS
<1>0. TypeOK'
  BY TypeStep DEF Orderly
<1>1. CASE Tick
  BY <1>0, <1>1 DEF Orderly, Tick, rows, TypeOK, RowFollowsWorker, HolderCounts, AnswersFit,
       EndedByNow, Active, Terminal
<1>2. CASE Dispatch \/ Requeue \/ Stop \/ Retry \/ UNCHANGED vars
  <2>1. UNCHANGED <<day, mutex, rows, pc, req, answer, spent, sentOn>>
    BY <1>2 DEF Dispatch, Requeue, Stop, Retry, SetTask, vars
  <2> QED
    BY <1>0, <2>1 DEF Orderly, rows, RowFollowsWorker, HolderCounts, AnswersFit, EndedByNow,
         Active, Terminal
<1>3. ASSUME NEW c \in Calls, Step(c) PROVE Orderly'
  <2> DEFINE own == /\ pc'[c] \in {"idle", "locking", "counting", "fits"} => row'[c] = "none"
                    /\ pc'[c] \in {"claimed", "cleared", "answered"} => row'[c] = "processing"
                    /\ row'[c] \notin {"success", "failed"} => actual'[c] = Null
                    /\ pc'[c] \in {"counting", "fits"} => mutex' = c
                    /\ answer'[c].units <= Units[c] /\ doneOn'[c] <= day'
  <2>0. /\ day' = day
        /\ \A e \in Calls \ {c} :
             /\ pc'[e] = pc[e] /\ row'[e] = row[e] /\ actual'[e] = actual[e]
             /\ doneOn'[e] = doneOn[e] /\ answer'[e] = answer[e]
    BY <1>3, StepLocal DEF Orderly
  <2>1. own
    BY <1>3, <2>0, StepOwn DEF Orderly, TypeOK, rows, RowFollowsWorker, AnswersFit, EndedByNow, Active,
         Terminal
  <2>2. \A e \in Calls \ {c} : pc[e] \in {"counting", "fits"} => mutex' = e
    BY <1>3, StepOwn, CallsAssumption DEF Orderly, HolderCounts
  <2> QED
    BY <1>0, <2>0, <2>1, <2>2
       DEF Orderly, RowFollowsWorker, HolderCounts, AnswersFit, EndedByNow, Active, Terminal
<1> QED
  BY <1>1, <1>2, <1>3 DEF Next

----------------------------------------------------------------------------
\* The sums of the budgets, for any amount per call.
Part(S, f) == [c \in Calls |-> IF c \in S THEN f[c] ELSE 0]
Charges(d) == [c \in Calls |-> Charge(c, d)]
Budgets(f) == /\ Total(Part(Calls, f)) <= GlobalLimit
              /\ \A u \in Users : Total(Part(CallsOf(u), f)) <= UserLimit
Room(c, f) == /\ Total(Part(Calls, f)) + Units[c] <= GlobalLimit
              /\ Total(Part(CallsOf(UserOf[c]), f)) + Units[c] <= UserLimit

\* A part of an amount per call is one, too.
LEMMA PartNat ==
    ASSUME NEW f \in [Calls -> Nat], NEW S
    PROVE  Part(S, f) \in [Calls -> Nat] /\ Total(Part(S, f)) \in Nat
<1>1. Part(S, f) \in [Calls -> Nat]
  BY DEF Part
<1> QED
  BY <1>1, TotalNat

\* Amounts that do not grow keep to the budgets, and leave the room there was.
LEMMA BudgetsFall ==
    ASSUME NEW f \in [Calls -> Nat], NEW g \in [Calls -> Nat],
           \A c \in Calls : g[c] <= f[c]
    PROVE  Budgets(f) => Budgets(g)
<1>1. ASSUME NEW S PROVE Total(Part(S, g)) <= Total(Part(S, f))
  <2>1. \A c \in Calls : Part(S, g)[c] <= Part(S, f)[c]
    BY DEF Part
  <2> QED
    BY <2>1, PartNat, TotalMonotone
<1>2. \A S : Total(Part(S, f)) \in Nat /\ Total(Part(S, g)) \in Nat
  BY PartNat
<1>3. GlobalLimit \in Nat /\ UserLimit \in Nat
  BY LimitsAssumption
<1> QED
  BY <1>1, <1>2, <1>3 DEF Budgets

\* A row that finds room keeps to the budgets when it is inserted.
LEMMA BudgetsPlus ==
    ASSUME NEW f \in [Calls -> Nat], NEW g \in [Calls -> Nat], NEW e \in Calls,
           g[e] <= Units[e], \A c \in Calls \ {e} : g[c] <= f[c],
           Room(e, f), Budgets(f)
    PROVE  Budgets(g)
<1>0. Units[e] \in Nat /\ GlobalLimit \in Nat /\ UserLimit \in Nat
  BY CallsAssumption, LimitsAssumption
<1>1. ASSUME NEW S PROVE Total(Part(S, g)) <= Total(Part(S, f)) + Units[e]
  <2>1. /\ \A c \in Calls \ {e} : Part(S, g)[c] <= Part(S, f)[c]
        /\ Part(S, g)[e] <= Units[e]
    BY <1>0 DEF Part
  <2>2. Part(S, f) \in [Calls -> Nat] /\ Part(S, g) \in [Calls -> Nat]
    BY PartNat
  <2> QED
    BY <1>0, <2>1, <2>2, TotalPlus
<1>2. ASSUME NEW u \in Users, u # UserOf[e]
      PROVE  Total(Part(CallsOf(u), g)) <= Total(Part(CallsOf(u), f))
  <2>1. \A c \in Calls : Part(CallsOf(u), g)[c] <= Part(CallsOf(u), f)[c]
    BY <1>2 DEF Part, CallsOf
  <2> QED
    BY <2>1, PartNat, TotalMonotone
<1>3. \A S : Total(Part(S, f)) \in Nat /\ Total(Part(S, g)) \in Nat
  BY PartNat
<1>4. Total(Part(Calls, g)) <= GlobalLimit
  BY <1>0, <1>1, <1>3 DEF Room
<1>5. ASSUME NEW u \in Users PROVE Total(Part(CallsOf(u), g)) <= UserLimit
  <2>1. CASE u = UserOf[e]
    BY <1>0, <1>1, <1>3, <2>1 DEF Room
  <2>2. CASE u # UserOf[e]
    BY <1>0, <1>2, <1>3, <2>2 DEF Budgets
  <2> QED
    BY <2>1, <2>2
<1> QED
  BY <1>4, <1>5 DEF Budgets

----------------------------------------------------------------------------
\* What the rows count for today, now and after a step; and what the definitions of
\* the model say of it.
LEMMA ChargesNow ==
    /\ \A d : TypeOK => Charges(d) \in [Calls -> Nat]
    /\ TypeOK' => Charges(day)' \in [Calls -> Nat]
    /\ BudgetHeld <=> Budgets(Charges(day))
    /\ BudgetHeld' <=> Budgets(Charges(day)')
    /\ \A d : \A c \in Calls : FitsDay(c, d) <=> Room(c, Charges(d))
<1>1. ASSUME NEW d, TypeOK PROVE Charges(d) \in [Calls -> Nat]
  BY <1>1, CallsAssumption DEF TypeOK, Charges, Charge
<1>2. ASSUME TypeOK' PROVE Charges(day)' \in [Calls -> Nat]
  BY <1>2, CallsAssumption DEF TypeOK, Charges, Charge
<1>3. ASSUME NEW S, NEW d PROVE Committed(S, d) = Total(Part(S, Charges(d)))
  BY DEF Committed, Part, Charges
<1>4. ASSUME NEW S PROVE Committed(S, day)' = Total(Part(S, Charges(day)'))
  BY DEF Committed, Part, Charges
<1>5. BudgetHeld <=> Budgets(Charges(day))
  BY <1>3 DEF BudgetHeld, Budgets
<1>6. BudgetHeld' <=> Budgets(Charges(day)')
  BY <1>4 DEF BudgetHeld, Budgets
<1>7. \A d : \A c \in Calls : FitsDay(c, d) <=> Room(c, Charges(d))
  BY <1>3 DEF FitsDay, Room
<1> QED
  BY <1>1, <1>2, <1>5, <1>6, <1>7

\* No step takes what is reserved or settled today beyond the budgets.
LEMMA BudgetStep ==
    Orderly /\ CountStillFits /\ BudgetHeld /\ [Next]_vars => BudgetHeld'
<1> SUFFICES ASSUME Orderly, CountStillFits, BudgetHeld, [Next]_vars PROVE BudgetHeld'
  OBVIOUS
<1> DEFINE f == Charges(day)
           g == Charges(day)'
<1>0. TypeOK /\ TypeOK' /\ Orderly'
  BY OrderlyStep DEF Orderly
<1>1. /\ f \in [Calls -> Nat] /\ g \in [Calls -> Nat] /\ Budgets(f)
      /\ BudgetHeld' <=> Budgets(g)
  BY <1>0, ChargesNow
<1>2. \A c \in Calls : f[c] = Charge(c, day) /\ g[c] = Charge(c, day)'
  BY DEF Charges
<1>3. ASSUME \A c \in Calls : g[c] <= f[c] PROVE BudgetHeld'
  <2> HIDE DEF f, g
  <2> QED
    BY <1>1, <1>3, BudgetsFall
<1>4. CASE Tick
  <2>1. \A c \in Calls : g[c] <= f[c]
    BY <1>0, <1>1, <1>2, <1>4, CallsAssumption
       DEF Tick, rows, Orderly, TypeOK, EndedByNow, Charge, Active, Terminal
  <2> QED
    BY <1>3, <2>1
<1>5. CASE Dispatch \/ Requeue \/ Stop \/ Retry \/ UNCHANGED vars
  <2>1. UNCHANGED <<day, rows>>
    BY <1>5 DEF Dispatch, Requeue, Stop, Retry, SetTask, vars
  <2>2. \A c \in Calls : g[c] = f[c]
    BY <1>2, <2>1 DEF rows, Charge, Active, Terminal
  <2> QED
    BY <1>1, <1>3, <2>2
<1>6. ASSUME NEW c \in Calls, Step(c) PROVE BudgetHeld'
  <2>0. /\ day' = day
        /\ \A e \in Calls \ {c} :
             row'[e] = row[e] /\ actual'[e] = actual[e] /\ doneOn'[e] = doneOn[e]
    BY <1>0, <1>6, StepLocal
  <2>1. \A e \in Calls \ {c} : g[e] = f[e]
    BY <1>2, <2>0 DEF Charge, Active, Terminal
  <2>2. CASE UNCHANGED rows
    <3>1. g[c] = f[c]
      BY <1>2, <2>0, <2>2 DEF rows, Charge, Active, Terminal
    <3> QED
      BY <1>1, <1>3, <2>1, <3>1
  <2>3. CASE /\ pc[c] = "fits" /\ req[c].win = day
             /\ row' = [row EXCEPT ![c] = "processing"]
    <3>1. Room(c, f)
      BY <2>3, ChargesNow DEF CountStillFits
    <3>2. g[c] <= Units[c]
      <4>1. row'[c] = "processing" /\ Units[c] \in Nat
        BY <1>0, <2>3, CallsAssumption DEF TypeOK
      <4>2. g[c] = Units[c]
        BY <1>2, <4>1 DEF Charge, Active
      <4> QED
        BY <4>1, <4>2
    <3> HIDE DEF f, g
    <3> QED
      BY <1>1, <2>1, <3>1, <3>2, BudgetsPlus
  <2>4. CASE /\ Active(c) /\ row'[c] \in {"success", "failed"} /\ doneOn'[c] = day
             /\ actual'[c] \in {answer[c].units, actual[c]}
    <3>1. actual[c] = Null /\ answer[c].units <= Units[c] /\ answer[c].units \in Nat
      BY <2>4 DEF Orderly, TypeOK, RowFollowsWorker, AnswersFit, Active, Terminal
    <3>2. f[c] = Units[c] /\ g[c] <= Units[c]
      BY <1>2, <2>0, <2>4, <3>1, CallsAssumption DEF Charge, Active, Terminal
    <3> QED
      BY <1>1, <1>3, <2>1, <3>2
  <2> QED
    BY <1>6, <2>2, <2>3, <2>4, StepOwn DEF Orderly
<1> QED
  BY <1>4, <1>5, <1>6 DEF Next

\* Whoever has counted and found room still has it after every step.
LEMMA CountStep == Orderly /\ CountStillFits /\ [Next]_vars => CountStillFits'
<1> SUFFICES ASSUME Orderly, CountStillFits, [Next]_vars,
                    NEW e \in Calls, pc'[e] = "fits"
             PROVE  FitsDay(e, req[e].win)'
  BY DEF CountStillFits
<1>1. ASSUME UNCHANGED rows, req'[e] = req[e], FitsDay(e, req[e].win)
      PROVE  FitsDay(e, req[e].win)'
  BY <1>1 DEF rows, FitsDay, Committed, Charge, Active, Terminal
<1>2. CASE Tick \/ Dispatch \/ Requeue \/ Stop \/ Retry \/ UNCHANGED vars
  <2>1. UNCHANGED <<rows, pc, req>>
    BY <1>2 DEF Tick, Dispatch, Requeue, Stop, Retry, SetTask, vars
  <2> QED
    BY <1>1, <2>1 DEF CountStillFits
<1>3. ASSUME NEW c \in Calls, Step(c) PROVE FitsDay(e, req[e].win)'
  <2>1. CASE e = c
    BY <1>1, <1>3, <2>1, StepOwn DEF Orderly
  <2>2. CASE e # c
    <3>1. pc[e] = "fits" /\ req'[e] = req[e]
      BY <1>3, <2>2, StepLocal DEF Orderly
    <3>2. mutex = e /\ mutex # NoCall
      BY <3>1, CallsAssumption DEF Orderly, HolderCounts
    <3>3. UNCHANGED rows
      BY <1>3, <2>2, <3>2, StepOwn DEF Orderly
    <3> QED
      BY <1>1, <3>1, <3>3 DEF CountStillFits
  <2> QED
    BY <2>1, <2>2
<1> QED
  BY <1>2, <1>3 DEF Next

----------------------------------------------------------------------------
\* SpentCovered, for one call.
Covered(c) ==
    /\ spent[c] <= Units[c] /\ sentOn[c] <= day
    /\ row[c] = "none" \/ pc[c] \in {"claimed", "cleared"} => spent[c] = 0
    /\ pc[c] = "answered" => spent[c] <= answer[c].units
    /\ Terminal(c) /\ spent[c] > 0 =>
         sentOn[c] <= doneOn[c] /\ (actual[c] # Null => spent[c] <= actual[c])

\* The steps of a call keep its use covered: until its claim nothing is used, what the
\* provider has used is what will be settled or less, and no settlement is early.
LEMMA CoveredStep ==
    ASSUME Orderly, NEW c \in Calls, Step(c), Covered(c)
    PROVE  Covered(c)'
<1>0. /\ TypeOK /\ Units[c] \in Nat /\ day' = day /\ day \in Nat
      /\ spent[c] \in Nat /\ answer[c].units \in Nat /\ sentOn[c] \in Nat
      /\ pc[c] \in PcType
  BY StepLocal, CallsAssumption, LimitsAssumption DEF Orderly, TypeOK
<1>1. CASE /\ pc[c] \in {"idle", "locking", "counting", "fits"}
           /\ pc'[c] \in {"locking", "counting", "fits", "end"}
           /\ UNCHANGED rows /\ UNCHANGED <<spent, sentOn>>
  <2>1. row[c] = "none" /\ row'[c] = "none"
    BY <1>1 DEF Orderly, RowFollowsWorker, rows
  <2> QED
    BY <1>0, <1>1, <2>1 DEF Covered, Terminal
<1>2. CASE Insert(c) /\ req[c].win = day
  <2>1. row[c] = "none"
    BY <1>2 DEF Insert, Orderly, RowFollowsWorker
  <2>2. row'[c] = "processing" /\ pc'[c] = "claimed" /\ UNCHANGED <<spent, sentOn>>
    BY <1>0, <1>2 DEF Insert, Go, TypeOK
  <2> QED
    BY <1>0, <2>1, <2>2 DEF Covered, Terminal
<1>3. CASE Recheck(c)
  <2>1. /\ spent[c] = 0 /\ Active(c) /\ UNCHANGED <<rows, spent, sentOn, answer>>
        /\ pc'[c] \in {"cleared", "answered"}
    BY <1>0, <1>3 DEF Recheck, Covered, Orderly, RowFollowsWorker, Go, TypeOK
  <2> QED
    BY <1>0, <2>1 DEF Covered, Active, Terminal, rows
<1>4. CASE CallProvider(c)
  <2>1. PICK s \in 0 .. Units[c], ok \in BOOLEAN : \E m \in s .. Units[c] :
          /\ spent' = [spent EXCEPT ![c] = s]
          /\ answer' = [answer EXCEPT ![c] = [units |-> m, ok |-> ok]]
    BY <1>4 DEF CallProvider
  <2>2. PICK m \in s .. Units[c] :
          /\ spent' = [spent EXCEPT ![c] = s]
          /\ answer' = [answer EXCEPT ![c] = [units |-> m, ok |-> ok]]
    BY <2>1
  <2>3. /\ spent'[c] = s /\ answer'[c].units = m /\ s <= m /\ s \in Nat /\ s <= Units[c]
        /\ m \in Nat
    BY <1>0, <2>2 DEF TypeOK
  <2>4. /\ Active(c) /\ UNCHANGED rows /\ sentOn'[c] = day /\ pc'[c] = "answered"
    BY <1>0, <1>4 DEF CallProvider, Orderly, RowFollowsWorker, Go, TypeOK
  <2> QED
    BY <1>0, <2>3, <2>4 DEF Covered, Active, Terminal, rows
<1>5. CASE Settle(c)
  <2>1. /\ pc[c] = "answered" /\ Active(c) /\ UNCHANGED <<spent, sentOn>>
    BY <1>5 DEF Settle, Orderly, RowFollowsWorker
  <2>2. pc'[c] = "end"
    BY <1>0, <1>5, EndPoint DEF Settle
  <2>3. CASE UNCHANGED rows
    BY <1>0, <2>1, <2>2, <2>3 DEF Covered, Active, Terminal, rows
  <2>4. CASE ~UNCHANGED rows
    <3>1. /\ row'[c] \in {"success", "failed"} /\ actual'[c] = answer[c].units
          /\ doneOn'[c] = day
      BY <1>0, <1>5, <2>4 DEF Settle, TypeOK
    <3> QED
      BY <1>0, <2>1, <2>2, <3>1 DEF Covered, Terminal
  <2> QED
    BY <2>3, <2>4
<1>6. CASE Crash(c) /\ pc[c] = "cleared"
  <2>1. PICK s \in 0 .. Units[c] : spent' = [spent EXCEPT ![c] = s]
    BY <1>6 DEF Crash
  <2>2. /\ spent'[c] = s /\ s \in Nat /\ s <= Units[c]
    BY <1>0, <2>1 DEF TypeOK
  <2>3. /\ Active(c) /\ UNCHANGED rows /\ sentOn'[c] = day
    BY <1>0, <1>6 DEF Crash, Orderly, RowFollowsWorker, TypeOK
  <2>4. pc'[c] = "end"
    BY <1>0, <1>6, EndPoint DEF Crash
  <2> QED
    BY <1>0, <2>2, <2>3, <2>4 DEF Covered, Active, Terminal, rows
<1>7. CASE Crash(c) /\ pc[c] \in {"claimed", "answered"}
  <2>1. /\ Active(c) /\ UNCHANGED rows /\ UNCHANGED <<spent, sentOn>>
    BY <1>7 DEF Crash, Orderly, RowFollowsWorker
  <2>2. pc'[c] = "end"
    BY <1>0, <1>7, EndPoint DEF Crash
  <2> QED
    BY <1>0, <2>1, <2>2 DEF Covered, Active, Terminal, rows
<1>8. CASE Reclaim(c)
  <2>1. /\ row'[c] = "failed" /\ doneOn'[c] = day /\ pc'[c] = "end"
        /\ actual'[c] = Null /\ UNCHANGED <<spent, sentOn>>
    BY <1>0, <1>8 DEF Reclaim, Orderly, RowFollowsWorker, Active, Terminal, TypeOK
  <2> QED
    BY <1>0, <2>1 DEF Covered, Terminal
<1>9. Begin(c) \/ TakeLock(c) \/ Count(c) \/ (Insert(c) /\ req[c].win # day)
      \/ (Crash(c) /\ pc[c] \in {"locking", "counting", "fits"})
        => /\ pc[c] \in {"idle", "locking", "counting", "fits"}
           /\ pc'[c] \in {"locking", "counting", "fits", "end"}
           /\ UNCHANGED rows /\ UNCHANGED <<spent, sentOn>>
  BY <1>0, EndPoint
     DEF Begin, TakeLock, Count, Insert, Crash, MissWindow, Go, TypeOK
<1>10. Crash(c) => pc[c] \in {"locking", "counting", "fits", "claimed", "cleared", "answered"}
  BY <1>0 DEF Crash, PcType
<1> QED
  BY <1>1, <1>2, <1>3, <1>4, <1>5, <1>6, <1>7, <1>8, <1>9, <1>10 DEF Step

\* Every step keeps the use of every call covered.
LEMMA SpentStep == Orderly /\ SpentCovered /\ [Next]_vars => SpentCovered'
<1> SUFFICES ASSUME Orderly, SpentCovered, [Next]_vars, NEW e \in Calls
             PROVE  Covered(e)'
  BY DEF SpentCovered, Covered
<1>1. Covered(e)
  BY DEF SpentCovered, Covered
<1>2. day \in Nat /\ sentOn[e] \in Nat
  BY LimitsAssumption DEF Orderly, TypeOK
<1>3. CASE Tick
  BY <1>1, <1>2, <1>3 DEF Tick, rows, Covered, Terminal
<1>4. CASE Dispatch \/ Requeue \/ Stop \/ Retry \/ UNCHANGED vars
  <2>1. UNCHANGED <<day, rows, pc, answer, spent, sentOn>>
    BY <1>4 DEF Dispatch, Requeue, Stop, Retry, SetTask, vars
  <2> QED
    BY <1>1, <2>1 DEF rows, Covered, Terminal
<1>5. ASSUME NEW c \in Calls, Step(c) PROVE Covered(e)'
  <2>1. CASE e = c
    BY <1>1, <1>5, <2>1, CoveredStep
  <2>2. CASE e # c
    BY <1>1, <1>5, <2>2, StepLocal DEF Orderly, Covered, Terminal
  <2> QED
    BY <2>1, <2>2
<1> QED
  BY <1>3, <1>4, <1>5 DEF Next

----------------------------------------------------------------------------
\* Initially nothing is charged.
LEMMA LedgerInit == Init => LedgerInv
<1> SUFFICES ASSUME Init PROVE LedgerInv
  OBVIOUS
<1>1. TypeOK
  BY LimitsAssumption DEF Init, TypeOK, NothingRead, NoAnswer, ReqType, TaskType, PcType
<1>2. RowFollowsWorker /\ HolderCounts /\ AnswersFit /\ EndedByNow /\ CountStillFits
      /\ SpentCovered
  BY CallsAssumption DEF Init, RowFollowsWorker, HolderCounts, AnswersFit, EndedByNow,
       CountStillFits, SpentCovered, NoAnswer, Active, Terminal
<1>3. BudgetHeld
  <2> DEFINE zero == [c \in Calls |-> 0]
  <2>1. \A S : Part(S, Charges(day)) = zero
    BY DEF Init, Part, Charges, Charge, Active, Terminal
  <2>2. Points(zero) = {}
    <3>1. 1 .. 0 = {}
      OBVIOUS
    <3> QED
      BY <3>1 DEF Points
  <2>3. Total(zero) = 0
    <3> HIDE DEF zero
    <3> QED
      BY <2>2, FS_EmptySet DEF Total, Points
  <2> HIDE DEF zero
  <2>4. Budgets(Charges(day))
    BY <2>1, <2>3, LimitsAssumption DEF Budgets
  <2> QED
    BY <2>4, ChargesNow
<1> QED
  BY <1>1, <1>2, <1>3 DEF LedgerInv

\* The invariant of the ledger holds for any set of calls, any limits and clock.
THEOREM LedgerSafe == Spec => []LedgerInv
<1>1. LedgerInv /\ [Next]_vars => LedgerInv'
  BY OrderlyStep, CountStep, BudgetStep, SpentStep DEF LedgerInv, Orderly
<1> QED
  BY <1>1, LedgerInit, PTL DEF Spec

\* What is reserved or settled today fits the budgets of the platform and of each
\* user, though claims, settlements and midnights interleave (claimActiveJob).
THEOREM BudgetSafe == Spec => []BudgetHeld
<1>1. LedgerInv => BudgetHeld
  BY DEF LedgerInv
<1> QED
  BY <1>1, LedgerSafe, PTL

\* The tokens used by the calls sent today are inside the platform's budget, though
\* workers die between a call and its settlement and their rows are reclaimed.
THEOREM SpentSafe == Spec => []SpentWithinBudget
<1>1. ASSUME LedgerInv PROVE SpentWithinBudget
  <2> DEFINE f == [c \in Calls |-> SpentToday(c)]
             g == Part(Calls, Charges(day))
  <2>1. TypeOK /\ Budgets(Charges(day)) /\ Charges(day) \in [Calls -> Nat]
    BY <1>1, ChargesNow DEF LedgerInv
  <2>2. f \in [Calls -> Nat] /\ g \in [Calls -> Nat]
    BY <2>1, PartNat DEF SpentToday, TypeOK
  <2>3. ASSUME NEW c \in Calls PROVE SpentToday(c) <= Charge(c, day)
    <3>1. Covered(c) /\ doneOn[c] <= day
      BY <1>1 DEF LedgerInv, SpentCovered, Covered, EndedByNow
    <3>2. /\ Units[c] \in Nat /\ spent[c] \in Nat /\ day \in Nat /\ doneOn[c] \in Nat
          /\ actual[c] \in Nat \cup {Null}
          /\ row[c] \in {"none", "processing", "success", "failed"}
      BY <2>1, CallsAssumption, LimitsAssumption DEF TypeOK
    <3>3. Charge(c, day) \in Nat
      BY <3>2, CallsAssumption DEF Charge
    <3> QED
      BY <3>1, <3>2, <3>3 DEF SpentToday, Covered, Charge, Active, Terminal
  <2>4. \A c \in Calls : f[c] <= g[c]
    BY <2>3 DEF Part, Charges
  <2>5. Total(f) <= Total(g) /\ Total(f) \in Nat /\ Total(g) \in Nat
    <3> HIDE DEF f, g
    <3> QED
      BY <2>2, <2>4, TotalMonotone, TotalNat
  <2> QED
    BY <2>1, <2>5, LimitsAssumption DEF SpentWithinBudget, Budgets
<1> QED
  BY <1>1, LedgerSafe, PTL

----------------------------------------------------------------------------
\* Nobody has claimed what the lock's holder has counted on: its key is free, and
\* the task has no other paid call.
StillFree == \A c \in Calls : pc[c] = "fits" =>
    ~KeyHeld(KeyOf[c]) /\ (c \in Proxied => \A d \in Proxied : ~Active(d))
\* A claimed row holds its key; a key has one holder, and the task one claimed row.
KeysHeld == \A c \in Calls : Active(c) => keyed[c]
OneHolder == \A c, d \in Calls : c # d =>
    /\ KeyOf[c] = KeyOf[d] => ~(keyed[c] /\ keyed[d])
    /\ {c, d} \subseteq Proxied => ~(Active(c) /\ Active(d))
FlightInv == Orderly /\ StillFree /\ KeysHeld /\ OneHolder

\* Every step keeps them: a key is only taken by the holder of the lock, who has
\* found it free, and while it holds the lock no row changes.
LEMMA FlightStep == FlightInv /\ [Next]_vars => FlightInv'
<1> SUFFICES ASSUME FlightInv, [Next]_vars PROVE FlightInv'
  OBVIOUS
<1>0. TypeOK /\ Orderly /\ Orderly'
  BY OrderlyStep DEF FlightInv, Orderly
<1>1. CASE Tick \/ Dispatch \/ Requeue \/ Stop \/ Retry \/ UNCHANGED vars
  <2>1. UNCHANGED <<rows, pc>>
    BY <1>1 DEF Tick, Dispatch, Requeue, Stop, Retry, SetTask, vars
  <2> QED
    BY <1>0, <2>1 DEF FlightInv, StillFree, KeysHeld, OneHolder, rows, KeyHeld, Active
<1>2. ASSUME NEW c \in Calls, Step(c) PROVE FlightInv'
  <2>0. \A e \in Calls \ {c} :
          pc'[e] = pc[e] /\ row'[e] = row[e] /\ keyed'[e] = keyed[e]
    BY <1>0, <1>2, StepLocal
  <2>1. CASE UNCHANGED rows
    <3>1. pc'[c] = "fits" =>
            ~KeyHeld(KeyOf[c]) /\ (c \in Proxied => \A d \in Proxied : ~Active(d))
      BY <1>0, <1>2, StepOwn DEF Orderly, FitsTask
    <3>2. KeysHeld' /\ OneHolder'
      BY <2>1 DEF FlightInv, KeysHeld, OneHolder, rows, Active
    <3>3. StillFree'
      BY <2>0, <2>1, <3>1 DEF FlightInv, StillFree, rows, KeyHeld, Active
    <3> QED
      BY <1>0, <3>2, <3>3 DEF FlightInv
  <2>2. CASE ~UNCHANGED rows
    <3>1. \/ /\ mutex = c /\ pc[c] = "fits"
             /\ row'[c] = "processing" /\ keyed'[c] = TRUE
          \/ mutex = NoCall /\ Active(c) /\ row'[c] # "processing"
      BY <1>0, <1>2, <2>2, StepOwn DEF Orderly, TypeOK
    <3>2. pc'[c] # "fits"
      BY <1>0, <1>2, <2>2, StepOwn DEF Orderly
    <3>3. \A e \in Calls \ {c} : pc'[e] # "fits"
      BY <1>0, <2>0, <3>1, CallsAssumption DEF Orderly, HolderCounts
    <3>4. StillFree'
      BY <3>2, <3>3 DEF StillFree
    <3>5. KeysHeld'
      BY <2>0, <3>1 DEF FlightInv, KeysHeld, Active
    <3>6. OneHolder'
      <4>1. CASE mutex = c /\ pc[c] = "fits"
        <5>1. /\ \A e \in Calls \ {c} : KeyOf[e] = KeyOf[c] => ~keyed[e]
              /\ \A e \in Calls \ {c} : {c, e} \subseteq Proxied => ~Active(e)
          BY <4>1 DEF FlightInv, StillFree, KeyHeld
        <5> QED
          BY <2>0, <5>1 DEF FlightInv, OneHolder, Active
      <4>2. CASE Active(c) /\ row'[c] # "processing"
        BY <2>0, <4>2 DEF FlightInv, KeysHeld, OneHolder, Active
      <4> QED
        BY <3>1, <4>1, <4>2
    <3> QED
      BY <1>0, <3>4, <3>5, <3>6 DEF FlightInv
  <2> QED
    BY <2>1, <2>2
<1> QED
  BY <1>1, <1>2 DEF Next

\* One paid call of the task and one of each key at a time, for any number of calls
\* and dispatches: the lock and the counted rows are enough.
THEOREM SingleFlight == Spec => []OneInFlight
<1>1. Init => FlightInv
  <2> SUFFICES ASSUME Init PROVE FlightInv
    OBVIOUS
  <2>1. Orderly
    BY LedgerInit DEF LedgerInv, Orderly
  <2> QED
    BY <2>1 DEF Init, FlightInv, StillFree, KeysHeld, OneHolder, Active
<1>2. FlightInv => OneInFlight
  <2> SUFFICES ASSUME FlightInv, NEW c \in Calls, NEW d \in Calls, c # d,
                      pc[c] \in {"cleared", "answered"}
               PROVE  /\ {c, d} \subseteq Proxied => ~Active(d)
                      /\ KeyOf[c] = KeyOf[d] => ~keyed[d]
    BY DEF OneInFlight
  <2>1. Active(c) /\ keyed[c]
    BY DEF FlightInv, Orderly, RowFollowsWorker, KeysHeld
  <2>2. /\ KeyOf[c] = KeyOf[d] => ~(keyed[c] /\ keyed[d])
        /\ {c, d} \subseteq Proxied => ~(Active(c) /\ Active(d))
    BY DEF FlightInv, OneHolder
  <2>3. {c, d} \subseteq Proxied => ~Active(d)
    BY <2>1, <2>2 DEF Active
  <2>4. KeyOf[c] = KeyOf[d] => ~keyed[d]
    BY <2>1, <2>2
  <2> QED
    BY <2>3, <2>4
<1> QED
  BY <1>1, <1>2, FlightStep, PTL DEF Spec

----------------------------------------------------------------------------
\* Nothing sums to nothing.
LEMMA TotalZero == Total([c \in Calls |-> 0]) = 0
<1> DEFINE zero == [c \in Calls |-> 0]
<1>1. 1 .. 0 = {}
  OBVIOUS
<1>2. Points(zero) = {}
  BY <1>1 DEF Points
<1> HIDE DEF zero
<1>3. Total(zero) = 0
  BY <1>2, FS_EmptySet DEF Total, Points
<1> QED
  BY <1>3 DEF zero

\* One term that was nothing and becomes n adds n.
LEMMA TotalAdds ==
    ASSUME NEW f \in [Calls -> Nat], NEW g \in [Calls -> Nat], NEW e \in Calls,
           g[e] = 0, \A c \in Calls \ {e} : f[c] = g[c]
    PROVE  Total(f) = Total(g) + f[e]
<1> DEFINE E == {e} \X (1 .. f[e])
<1>1. Points(f) = Points(g) \cup E
  <2>1. ASSUME NEW p \in Points(f) PROVE p \in Points(g) \cup E
    <3>1. PICK c \in Calls : p \in {c} \X (1 .. f[c])
      BY DEF Points
    <3>2. CASE c = e
      BY <3>1, <3>2
    <3>3. CASE c # e
      <4>1. p \in {c} \X (1 .. g[c])
        BY <3>1, <3>3
      <4> QED
        BY <4>1 DEF Points
    <3> QED
      BY <3>2, <3>3
  <2>2. ASSUME NEW p \in Points(g) PROVE p \in Points(f)
    <3>1. PICK c \in Calls : p \in {c} \X (1 .. g[c])
      BY DEF Points
    <3>2. p \in {c} \X (1 .. f[c])
      BY <3>1
    <3> QED
      BY <3>2 DEF Points
  <2>3. E \subseteq Points(f)
    BY DEF Points
  <2> QED
    BY <2>1, <2>2, <2>3
<1>2. Points(g) \cap E = {}
  <2> SUFFICES ASSUME NEW p \in Points(g), p \in E PROVE FALSE
    OBVIOUS
  <2>1. PICK c \in Calls : p \in {c} \X (1 .. g[c])
    BY DEF Points
  <2>2. c = e
    BY <2>1
  <2> QED
    BY <2>1, <2>2
<1>3. IsFiniteSet(E) /\ Cardinality(E) = f[e]
  <2>1. IsFiniteSet({e}) /\ Cardinality({e}) = 1
    BY FS_Singleton
  <2>2. f[e] \in Nat
    OBVIOUS
  <2>3. IsFiniteSet(1 .. f[e]) /\ Cardinality(1 .. f[e]) = f[e]
    BY <2>2, FS_Interval
  <2> QED
    BY <2>1, <2>2, <2>3, FS_Product
<1>4. Cardinality(Points(g) \cup E) = Cardinality(Points(g)) + f[e]
  <2>1. Cardinality(Points(g) \cap E) = 0
    BY <1>2, FS_EmptySet
  <2>2. Cardinality(Points(g)) \in Nat /\ f[e] \in Nat
    BY TotalNat DEF Total, Points
  <2> HIDE DEF E
  <2>3. Cardinality(Points(g) \cup E)
          = Cardinality(Points(g)) + Cardinality(E) - Cardinality(Points(g) \cap E)
    BY <1>3, TotalNat, FS_Union
  <2> QED
    BY <1>3, <2>1, <2>2, <2>3
<1> QED
  BY <1>1, <1>4 DEF Total, Points

\* What a row counts for in the meter of attempt a.
Metered(c, a) == IF InAttempt(c, a) /\ actual[c] # Null THEN actual[c] ELSE 0
MeterRows(a) == [c \in Calls |-> Metered(c, a)]

\* The meter, now and after a step, is the sum of what the rows count for.
LEMMA MeterIs ==
    /\ Known(task.attempt) = Total(MeterRows(task.attempt))
    /\ Known(task.attempt)' = Total(MeterRows(task.attempt)')
    /\ TypeOK => MeterRows(task.attempt) \in [Calls -> Nat]
    /\ TypeOK' => MeterRows(task.attempt)' \in [Calls -> Nat]
<1>1. Known(task.attempt) = Total(MeterRows(task.attempt))
  BY DEF Known, MeterRows, Metered
<1>2. Known(task.attempt)' = Total(MeterRows(task.attempt)')
  BY DEF Known, MeterRows, Metered
<1>3. TypeOK => MeterRows(task.attempt) \in [Calls -> Nat]
  BY DEF TypeOK, MeterRows, Metered
<1>4. TypeOK' => MeterRows(task.attempt)' \in [Calls -> Nat]
  BY DEF TypeOK, MeterRows, Metered
<1> QED
  BY <1>1, <1>2, <1>3, <1>4

\* No row and no worker is of a later attempt than the task, and a row is not of an
\* earlier one than its worker.
AttemptsInOrder == \A c \in Calls :
    /\ born[c] <= task.attempt /\ req[c].attempt <= task.attempt
    /\ Active(c) => req[c].attempt <= born[c]
MeterInv == Orderly /\ AttemptsInOrder /\ MeterMatchesRows

\* What a step of a call does to its attempt: the row is born in the task's attempt,
\* and the worker's is the one it started in.
LEMMA AttemptStep ==
    ASSUME Orderly, AttemptsInOrder, NEW c \in Calls, Step(c)
    PROVE  AttemptsInOrder'
<1>0. /\ TypeOK /\ task.attempt \in Nat /\ task'.attempt = task.attempt
      /\ req[c].attempt \in Nat /\ born[c] \in Nat
      /\ born[c] <= task.attempt /\ req[c].attempt <= task.attempt
      /\ Active(c) => req[c].attempt <= born[c]
  <2>1. TypeOK /\ task.attempt \in Nat /\ req[c].attempt \in Nat /\ born[c] \in Nat
    BY DEF Orderly, TypeOK, TaskType, ReqType
  <2>2. task' = task \/ \E n \in Nat : task' = [task EXCEPT !.meter = n]
    <3>1. answer[c].units \in Nat /\ task.meter \in Nat
      BY <2>1 DEF TypeOK, TaskType
    <3>2. CASE Settle(c)
      <4>1. task' = task \/ task' = [task EXCEPT !.meter = task.meter + answer[c].units]
        BY <3>2 DEF Settle
      <4> QED
        BY <3>1, <4>1
    <3>3. CASE ~Settle(c)
      BY <3>3 DEF Step, Begin, TakeLock, MissWindow, Count, Insert, Recheck, CallProvider,
           Crash, Reclaim
    <3> QED
      BY <3>2, <3>3
  <2>3. task'.attempt = task.attempt
    BY <2>1, <2>2 DEF TypeOK, TaskType
  <2> QED
    BY <2>1, <2>3 DEF AttemptsInOrder
<1>1. \A e \in Calls \ {c} :
        row'[e] = row[e] /\ born'[e] = born[e] /\ req'[e] = req[e]
  BY <1>0, StepLocal
<1>2. /\ born'[c] <= task.attempt /\ req'[c].attempt <= task.attempt
      /\ row'[c] = "processing" => req'[c].attempt <= born'[c]
  <2>e. End(c) => req'[c].attempt = 0
    BY <1>0 DEF End, NothingRead, TypeOK
  <2>1. CASE Begin(c)
    <3>1. req'[c].attempt = task.attempt /\ UNCHANGED rows
      BY <1>0, <2>1 DEF Begin, TypeOK
    <3>2. row[c] = "none"
      BY <2>1 DEF Begin, Orderly, RowFollowsWorker
    <3> QED
      BY <1>0, <3>1, <3>2 DEF rows
  <2>2. ASSUME MissWindow(c)
        PROVE  UNCHANGED rows /\ req'[c].attempt \in {req[c].attempt, 0}
    BY <1>0, <2>e, <2>2 DEF MissWindow, TypeOK, ReqType
  <2>3. CASE Insert(c) /\ req[c].win = day
    <3>1. born'[c] = task.attempt /\ req' = req
      BY <1>0, <2>3 DEF Insert, TypeOK
    <3> QED
      BY <1>0, <3>1
  <2>4. CASE TakeLock(c) \/ Count(c) \/ (Insert(c) /\ req[c].win # day)
    <3>1. UNCHANGED rows /\ (req' = req \/ req'[c].attempt \in {req[c].attempt, 0})
      BY <2>4, <2>2, <2>e DEF TakeLock, Count, Insert
    <3> QED
      BY <1>0, <3>1 DEF rows, Active
  <2>5. CASE Recheck(c) \/ CallProvider(c) \/ Reclaim(c)
    <3>1. req' = req /\ born' = born /\ (row'[c] = "processing" => Active(c))
      BY <1>0, <2>5 DEF Recheck, CallProvider, Reclaim, rows, Active, TypeOK
    <3> QED
      BY <1>0, <3>1
  <2>6. CASE Settle(c) \/ Crash(c)
    <3>1. req'[c].attempt = 0 /\ born' = born
      BY <2>6, <2>e DEF Settle, Crash, rows
    <3> QED
      BY <1>0, <3>1
  <2> QED
    BY <2>1, <2>3, <2>4, <2>5, <2>6 DEF Step
<1> QED
  BY <1>0, <1>1, <1>2 DEF AttemptsInOrder, Active

\* Every step keeps the attempts in order.
LEMMA OrderStep == Orderly /\ AttemptsInOrder /\ [Next]_vars => AttemptsInOrder'
<1> SUFFICES ASSUME Orderly, AttemptsInOrder, [Next]_vars PROVE AttemptsInOrder'
  OBVIOUS
<1>0. TypeOK /\ task.attempt \in Nat
  BY DEF Orderly, TypeOK, TaskType
<1>1. CASE Tick \/ Dispatch \/ Requeue \/ Stop \/ UNCHANGED vars
  <2>1. UNCHANGED <<rows, req>> /\ task'.attempt = task.attempt
    BY <1>0, <1>1 DEF Tick, Dispatch, Requeue, Stop, SetTask, vars, TypeOK, TaskType
  <2> QED
    BY <2>1 DEF AttemptsInOrder, rows, Active
<1>2. CASE Retry
  <2>1. UNCHANGED <<rows, req>> /\ task'.attempt = task.attempt + 1
    BY <1>0, <1>2 DEF Retry, SetTask, TypeOK, TaskType
  <2> QED
    BY <1>0, <2>1 DEF AttemptsInOrder, rows, Active, TypeOK, ReqType
<1>3. ASSUME NEW c \in Calls, Step(c) PROVE AttemptsInOrder'
  BY <1>3, AttemptStep
<1> QED
  BY <1>1, <1>2, <1>3 DEF Next

\* Every step keeps the meter equal to the rows of the attempt: the only step that
\* ends a row with a known usage also meters it, or its attempt is over.
LEMMA MeterStep == MeterInv /\ [Next]_vars => MeterInv'
<1> SUFFICES ASSUME MeterInv, [Next]_vars PROVE MeterInv'
  OBVIOUS
<1> DEFINE f == MeterRows(task.attempt)
           g == MeterRows(task.attempt)'
<1>0. /\ Orderly /\ Orderly' /\ TypeOK /\ TypeOK' /\ task.attempt \in Nat
      /\ task.meter \in Nat
  BY OrderlyStep DEF MeterInv, Orderly, TypeOK, TaskType
<1>1. /\ f \in [Calls -> Nat] /\ g \in [Calls -> Nat]
      /\ MeterMatchesRows <=> task.meter = Total(f)
      /\ MeterMatchesRows' <=> task'.meter = Total(g)
      /\ MeterMatchesRows
  BY <1>0, MeterIs DEF MeterInv, MeterMatchesRows
<1>2. \A c \in Calls : f[c] = Metered(c, task.attempt) /\ g[c] = Metered(c, task.attempt)'
  BY DEF MeterRows
<1>3. ASSUME task'.meter = task.meter, \A c \in Calls : g[c] = f[c] PROVE MeterMatchesRows'
  <2> HIDE DEF f, g
  <2>1. f = g
    BY <1>1, <1>3
  <2> QED
    BY <1>1, <1>3, <2>1
<1>4. CASE Tick \/ Dispatch \/ Requeue \/ Stop \/ UNCHANGED vars
  <2>1. UNCHANGED <<rows, req>> /\ task'.meter = task.meter /\ task'.attempt = task.attempt
    BY <1>0, <1>4 DEF Tick, Dispatch, Requeue, Stop, SetTask, vars, TypeOK, TaskType
  <2>2. \A c \in Calls : g[c] = f[c]
    BY <1>2, <2>1 DEF rows, Metered, InAttempt, Terminal
  <2>3. AttemptsInOrder'
    BY <2>1 DEF MeterInv, AttemptsInOrder, rows, Active
  <2> QED
    BY <1>0, <1>3, <2>1, <2>2, <2>3 DEF MeterInv
<1>5. CASE Retry
  <2>1. /\ UNCHANGED <<rows, req>>
        /\ task'.meter = 0 /\ task'.attempt = task.attempt + 1
    BY <1>0, <1>5 DEF Retry, SetTask, TypeOK, TaskType
  <2>2. \A c \in Calls : born[c] \in Nat /\ born[c] <= task.attempt
    BY <1>0 DEF MeterInv, AttemptsInOrder, TypeOK
  <2>3. ASSUME NEW c \in Calls PROVE g[c] = 0
    <3>1. ~(born'[c] >= task'.attempt)
      BY <1>0, <2>1, <2>2 DEF rows
    <3> QED
      BY <1>2, <3>1 DEF Metered, InAttempt
  <2>4. g = [c \in Calls |-> 0]
    BY <1>1, <2>3
  <2>5. AttemptsInOrder'
    BY <1>0, <2>1 DEF MeterInv, AttemptsInOrder, rows, Active, TypeOK, ReqType
  <2> QED
    BY <1>0, <1>1, <2>1, <2>4, <2>5, TotalZero DEF MeterInv
<1>6. ASSUME NEW c \in Calls, Step(c) PROVE MeterInv'
  <2>0. AttemptsInOrder'
    BY <1>0, <1>6, AttemptStep DEF MeterInv
  <2>1. \A e \in Calls \ {c} :
          row'[e] = row[e] /\ actual'[e] = actual[e] /\ born'[e] = born[e]
    BY <1>0, <1>6, StepLocal
  <2>2. ASSUME task'.attempt = task.attempt PROVE \A e \in Calls \ {c} : g[e] = f[e]
    BY <1>2, <2>1, <2>2 DEF Metered, InAttempt, Terminal
  <2>3. CASE task' = task /\ UNCHANGED rows
    <3>1. g[c] = f[c]
      BY <1>2, <2>3 DEF rows, Metered, InAttempt, Terminal
    <3>2. MeterMatchesRows'
      BY <1>3, <2>2, <2>3, <3>1
    <3> QED
      BY <1>0, <2>0, <3>2 DEF MeterInv
  <2>4. CASE /\ task' = task /\ ~Terminal(c) /\ (actual'[c] = Null \/ ~Terminal(c)')
    <3>1. g[c] = 0 /\ f[c] = 0
      BY <1>2, <2>4 DEF Metered, InAttempt
    <3>2. MeterMatchesRows'
      BY <1>3, <2>2, <2>4, <3>1
    <3> QED
      BY <1>0, <2>0, <3>2 DEF MeterInv
  <2>5. CASE Settle(c) /\ ~UNCHANGED <<rows, task>>
    <3> DEFINE u == answer[c].units
    <3>1. /\ Active(c) /\ u \in Nat /\ c \in Calls
          /\ row'[c] \in {"success", "failed"} /\ actual'[c] = u /\ born'[c] = born[c]
          /\ born[c] \in Nat /\ req[c].attempt <= born[c]
          /\ req[c].attempt \in Nat
      BY <1>0, <2>5 DEF Settle, MeterInv, AttemptsInOrder, Orderly, TypeOK, ReqType,
           RowFollowsWorker
    <3>2. f[c] = 0
      BY <1>2, <3>1 DEF Metered, InAttempt, Active, Terminal
    <3>3. CASE c \in Proxied /\ u > 0
      <4>1. task.attempt = req[c].attempt /\ task' = [task EXCEPT !.meter = @ + u]
        BY <2>5, <3>3 DEF Settle, SameDispatch
      <4>2. task'.attempt = task.attempt /\ task'.meter = task.meter + u
        BY <1>0, <4>1 DEF TypeOK, TaskType
      <4>3. InAttempt(c, task.attempt)' /\ u # Null
        BY <3>1, <3>3, <4>1, <4>2, CallsAssumption DEF InAttempt, Terminal
      <4>4. g[c] = u
        BY <1>2, <3>1, <4>3 DEF Metered
      <4>5. Total(g) = Total(f) + u
        <5>1. \A e \in Calls \ {c} : g[e] = f[e]
          BY <2>2, <4>2
        <5> HIDE DEF f, g, u
        <5> QED
          BY <1>1, <3>2, <4>4, <5>1, TotalAdds
      <4>6. MeterMatchesRows'
        BY <1>1, <4>2, <4>5
      <4> QED
        BY <1>0, <2>0, <4>6 DEF MeterInv
    <3>4. CASE ~(c \in Proxied /\ u > 0)
      <4>1. task' = task
        BY <2>5, <3>4 DEF Settle
      <4>2. g[c] = 0
        BY <1>2, <3>1, <3>4 DEF Metered, InAttempt
      <4>3. MeterMatchesRows'
        BY <1>3, <2>2, <3>2, <4>1, <4>2
      <4> QED
        BY <1>0, <2>0, <4>3 DEF MeterInv
    <3> QED
      BY <3>3, <3>4
  <2>6. \/ task' = task /\ UNCHANGED rows
        \/ task' = task /\ ~Terminal(c) /\ (actual'[c] = Null \/ ~Terminal(c)')
        \/ Settle(c) /\ ~UNCHANGED <<rows, task>>
    <3>1. CASE Insert(c) /\ req[c].win = day
      BY <1>0, <3>1 DEF Insert, Orderly, TypeOK, RowFollowsWorker, Terminal
    <3>2. CASE Reclaim(c)
      BY <1>0, <3>2 DEF Reclaim, Orderly, RowFollowsWorker, Active, Terminal
    <3>3. CASE Settle(c)
      BY <3>3
    <3>4. CASE ~Settle(c) /\ ~Reclaim(c) /\ ~(Insert(c) /\ req[c].win = day)
      BY <1>6, <3>4
         DEF Step, Begin, TakeLock, Count, Insert, Recheck, CallProvider, Crash, MissWindow
    <3> QED
      BY <3>1, <3>2, <3>3, <3>4
  <2> QED
    BY <2>3, <2>4, <2>5, <2>6
<1> QED
  BY <1>4, <1>5, <1>6 DEF Next

\* The task's meter is what its attempt's rows were settled with, for any number of
\* calls, dispatches and retries (settleActiveJob and its business mutation).
THEOREM MeterExact == Spec => []MeterMatchesRows
<1>1. Init => MeterInv
  <2> SUFFICES ASSUME Init PROVE MeterInv
    OBVIOUS
  <2>1. TypeOK /\ Orderly
    BY LedgerInit DEF LedgerInv, Orderly
  <2>2. MeterRows(task.attempt) = [c \in Calls |-> 0]
    BY DEF Init, MeterRows, Metered, InAttempt, Terminal
  <2>3. MeterMatchesRows
    BY <2>2, MeterIs, TotalZero DEF Init, MeterMatchesRows
  <2>4. AttemptsInOrder
    BY DEF Init, AttemptsInOrder, NothingRead, Active
  <2> QED
    BY <2>1, <2>3, <2>4 DEF MeterInv
<1>2. MeterInv => MeterMatchesRows
  BY DEF MeterInv
<1> QED
  BY <1>1, <1>2, MeterStep, PTL DEF Spec

----------------------------------------------------------------------------
\* What a row may take of the budget of attempt a: its reservation while its usage is
\* unknown, then its usage.
Held(c, a) ==
    IF ~(c \in Proxied /\ born[c] = a) THEN 0
    ELSE IF Active(c) \/ (Terminal(c) /\ actual[c] = Null) THEN Units[c]
    ELSE IF Terminal(c) THEN actual[c] ELSE 0
HeldRows(a) == [c \in Calls |-> Held(c, a)]

\* What the task's gate has counted still fits until the row is inserted; and no
\* attempt's rows may take more than its budget.
TaskStillFits == \A c \in Proxied : pc[c] = "fits" => FitsTask(c)
AttemptHeld == \A a \in Nat : Total(HeldRows(a)) <= TaskLimit
AttemptInv == Orderly /\ SpentCovered /\ AttemptsInOrder /\ TaskStillFits /\ AttemptHeld

\* Terms that are each covered by one of two amounts sum to no more than both.
LEMMA TotalOfTwo ==
    ASSUME NEW f \in [Calls -> Nat], NEW g \in [Calls -> Nat], NEW h \in [Calls -> Nat],
           \A c \in Calls : h[c] <= f[c] \/ h[c] <= g[c]
    PROVE  Total(h) <= Total(f) + Total(g)
<1>1. Points(h) \subseteq Points(f) \cup Points(g)
  <2> SUFFICES ASSUME NEW p \in Points(h) PROVE p \in Points(f) \cup Points(g)
    OBVIOUS
  <2>1. PICK c \in Calls : p \in {c} \X (1 .. h[c])
    BY DEF Points
  <2>2. p \in {c} \X (1 .. f[c]) \/ p \in {c} \X (1 .. g[c])
    BY <2>1
  <2> QED
    BY <2>2 DEF Points
<1>2. /\ IsFiniteSet(Points(f) \cup Points(g))
      /\ Cardinality(Points(f) \cup Points(g)) = Cardinality(Points(f))
           + Cardinality(Points(g)) - Cardinality(Points(f) \cap Points(g))
  BY TotalNat, FS_Union
<1>3. Cardinality(Points(f) \cap Points(g)) \in Nat
  BY TotalNat, FS_Intersection, FS_CardinalityType
<1>4. Cardinality(Points(h)) <= Cardinality(Points(f) \cup Points(g))
  BY <1>1, <1>2, FS_Subset
<1>5. /\ Cardinality(Points(f)) = Total(f) /\ Total(f) \in Nat
      /\ Cardinality(Points(g)) = Total(g) /\ Total(g) \in Nat
      /\ Cardinality(Points(h)) = Total(h) /\ Total(h) \in Nat
  BY TotalNat DEF Total, Points
<1> QED
  BY <1>2, <1>3, <1>4, <1>5

\* What the rows may take, now and after a step, is a natural number for each call.
LEMMA HeldNat ==
    ASSUME NEW a
    PROVE  /\ TypeOK => HeldRows(a) \in [Calls -> Nat]
           /\ TypeOK' => HeldRows(a)' \in [Calls -> Nat]
BY CallsAssumption DEF TypeOK, HeldRows, Held

\* Whoever the gate let through still fits after every step: while it holds the lock
\* no row changes.
LEMMA TaskFitsStep == Orderly /\ TaskStillFits /\ [Next]_vars => TaskStillFits'
<1> SUFFICES ASSUME Orderly, TaskStillFits, [Next]_vars,
                    NEW e \in Proxied, pc'[e] = "fits"
             PROVE  FitsTask(e)'
  BY DEF TaskStillFits
<1>0. e \in Calls
  BY CallsAssumption
<1>1. ASSUME UNCHANGED rows, req'[e] = req[e], FitsTask(e)
      PROVE  FitsTask(e)'
  BY <1>1 DEF rows, FitsTask, Known, Doubtful, InAttempt, Active, Terminal
<1>2. CASE Tick \/ Dispatch \/ Requeue \/ Stop \/ Retry \/ UNCHANGED vars
  <2>1. UNCHANGED <<rows, pc, req>>
    BY <1>2 DEF Tick, Dispatch, Requeue, Stop, Retry, SetTask, vars
  <2> QED
    BY <1>1, <2>1 DEF TaskStillFits
<1>3. ASSUME NEW c \in Calls, Step(c) PROVE FitsTask(e)'
  <2>1. CASE e = c
    BY <1>1, <1>3, <2>1, StepOwn DEF Orderly
  <2>2. CASE e # c
    <3>1. pc[e] = "fits" /\ req'[e] = req[e]
      BY <1>0, <1>3, <2>2, StepLocal DEF Orderly
    <3>2. mutex = e /\ mutex # NoCall
      BY <1>0, <3>1, CallsAssumption DEF Orderly, HolderCounts
    <3>3. UNCHANGED rows
      BY <1>3, <2>2, <3>2, StepOwn DEF Orderly
    <3> QED
      BY <1>1, <3>1, <3>3 DEF TaskStillFits
  <2> QED
    BY <2>1, <2>2
<1> QED
  BY <1>2, <1>3 DEF Next

\* A row that the gate let through fits the attempt it is born in: the other rows of
\* that attempt have ended, and the gate counted each with its usage or, where that is
\* unknown, with its reservation; it counted from the attempt of the worker's
\* credential, which is this one or an earlier one.
LEMMA InsertFitsAttempt ==
    ASSUME AttemptInv, TypeOK', NEW c \in Proxied, pc[c] = "fits", Insert(c),
           req[c].win = day, NEW a \in Nat, a = task.attempt
    PROVE  Total(HeldRows(a)') <= TaskLimit
<1> DEFINE r == req[c].attempt
           k == [e \in Calls |-> IF InAttempt(e, r) /\ actual[e] # Null THEN actual[e] ELSE 0]
           d == [e \in Calls |-> IF InAttempt(e, r) /\ actual[e] = Null THEN Units[e] ELSE 0]
           g == HeldRows(a)'
           h == [e \in Calls |-> IF e = c THEN 0 ELSE g[e]]
<1>0. /\ c \in Calls /\ TypeOK /\ a \in Nat /\ r \in Nat /\ r <= a
      /\ Units \in [Calls -> Nat] /\ Units[c] \in Nat /\ TaskLimit \in Nat
      /\ req[c].floor \in Nat
  BY CallsAssumption, LimitsAssumption
     DEF AttemptInv, Orderly, AttemptsInOrder, TypeOK, TaskType, ReqType
<1>1. k \in [Calls -> Nat] /\ d \in [Calls -> Nat]
  BY <1>0 DEF TypeOK
<1>2. g \in [Calls -> Nat] /\ h \in [Calls -> Nat]
  BY HeldNat
<1>3. Total(k) = Known(r) /\ Total(d) = Doubtful(r)
  BY DEF Known, Doubtful
<1>4. /\ \A e \in Proxied : ~Active(e)
      /\ Larger(Known(r), req[c].floor) + Doubtful(r) + Units[c] <= TaskLimit
  BY DEF AttemptInv, TaskStillFits, FitsTask
<1>5. ASSUME NEW e \in Calls PROVE h[e] <= k[e] \/ h[e] <= d[e]
  <2>1. CASE e = c \/ g[e] = 0
    <3>1. h[e] = 0 /\ k[e] \in Nat
      BY <1>1, <2>1
    <3> QED
      BY <3>1
  <2>2. CASE e # c /\ g[e] # 0
    <3>1. row'[e] = row[e] /\ actual'[e] = actual[e] /\ born'[e] = born[e]
      BY <1>0, <2>2 DEF Insert, TypeOK
    <3>2. g[e] = Held(e, a)'
      BY DEF HeldRows
    <3>3. e \in Proxied /\ born[e] = a /\ Terminal(e)
      BY <1>4, <2>2, <3>1, <3>2 DEF Held, Active, Terminal
    <3>4. InAttempt(e, r)
      BY <1>0, <3>3 DEF InAttempt
    <3>5. g[e] = IF actual[e] = Null THEN Units[e] ELSE actual[e]
      BY <3>1, <3>2, <3>3 DEF Held, Active, Terminal
    <3>6. h[e] = g[e] /\ h[e] \in Nat
      BY <1>2, <2>2
    <3>7. CASE actual[e] = Null
      <4>1. d[e] = h[e]
        BY <3>4, <3>5, <3>6, <3>7
      <4> QED
        BY <3>6, <4>1
    <3>8. CASE actual[e] # Null
      <4>1. k[e] = h[e]
        BY <3>4, <3>5, <3>6, <3>8
      <4> QED
        BY <3>6, <4>1
    <3> QED
      BY <3>7, <3>8
  <2> QED
    BY <2>1, <2>2
<1>6. g[c] <= Units[c] /\ \A e \in Calls \ {c} : g[e] <= h[e]
  <2>1. row'[c] = "processing"
    BY <1>0 DEF Insert, TypeOK
  <2>2. g[c] = Held(c, a)'
    BY <1>0 DEF HeldRows
  <2>3. g[c] \in {0, Units[c]}
    BY <2>1, <2>2 DEF Held, Active
  <2>4. \A e \in Calls \ {c} : g[e] = h[e] /\ g[e] \in Nat
    BY <1>2
  <2> QED
    BY <1>0, <2>3, <2>4
<1> HIDE DEF k, d, g, h
<1>7. Total(h) <= Known(r) + Doubtful(r)
  BY <1>1, <1>2, <1>3, <1>5, TotalOfTwo
<1>8. Total(g) <= Total(h) + Units[c]
  BY <1>0, <1>2, <1>6, TotalPlus
<1>9. /\ Total(g) \in Nat /\ Total(h) \in Nat /\ Known(r) \in Nat /\ Doubtful(r) \in Nat
  BY <1>1, <1>2, <1>3, TotalNat
<1>10. Known(r) <= Larger(Known(r), req[c].floor) /\ Larger(Known(r), req[c].floor) \in Nat
  BY <1>0, <1>9 DEF Larger
<1>11. Total(g) <= TaskLimit
  BY <1>0, <1>4, <1>7, <1>8, <1>9, <1>10
<1> QED
  BY <1>11 DEF g

\* No step takes what the rows of an attempt may use beyond its budget.
LEMMA AttemptHeldStep == AttemptInv /\ [Next]_vars => AttemptHeld'
<1> SUFFICES ASSUME AttemptInv, [Next]_vars, NEW a \in Nat
             PROVE  Total(HeldRows(a)') <= TaskLimit
  BY DEF AttemptHeld
<1> DEFINE f == HeldRows(a)
           g == HeldRows(a)'
<1>0. /\ TypeOK /\ TypeOK' /\ Orderly /\ TaskLimit \in Nat
      /\ f \in [Calls -> Nat] /\ g \in [Calls -> Nat] /\ Total(f) <= TaskLimit
      /\ Total(f) \in Nat /\ Total(g) \in Nat
  <2>1. TypeOK /\ TypeOK' /\ Orderly /\ TaskLimit \in Nat /\ Total(f) <= TaskLimit
    BY TypeStep, LimitsAssumption DEF AttemptInv, Orderly, AttemptHeld
  <2>2. f \in [Calls -> Nat] /\ g \in [Calls -> Nat]
    BY <2>1, HeldNat
  <2> HIDE DEF f, g
  <2> QED
    BY <2>1, <2>2, TotalNat
<1>1. \A c \in Calls : f[c] = Held(c, a) /\ g[c] = Held(c, a)'
  BY DEF HeldRows
<1>2. ASSUME \A c \in Calls : g[c] <= f[c] PROVE Total(g) <= TaskLimit
  <2> HIDE DEF f, g
  <2>1. Total(g) <= Total(f)
    BY <1>0, <1>2, TotalMonotone
  <2> QED
    BY <1>0, <2>1
<1>3. ASSUME UNCHANGED rows PROVE Total(g) <= TaskLimit
  <2>1. \A c \in Calls : g[c] = f[c]
    BY <1>1, <1>3 DEF rows, Held, Active, Terminal
  <2> QED
    BY <1>0, <1>2, <2>1
<1>4. CASE Tick \/ Dispatch \/ Requeue \/ Stop \/ Retry \/ UNCHANGED vars
  BY <1>3, <1>4 DEF Tick, Dispatch, Requeue, Stop, Retry, SetTask, vars
<1>5. ASSUME NEW c \in Calls, Step(c) PROVE Total(g) <= TaskLimit
  <2>0. \A e \in Calls \ {c} :
          row'[e] = row[e] /\ actual'[e] = actual[e] /\ born'[e] = born[e]
    BY <1>0, <1>5, StepLocal
  <2>1. \A e \in Calls \ {c} : g[e] = f[e]
    BY <1>1, <2>0 DEF Held, Active, Terminal
  <2>2. CASE UNCHANGED rows
    BY <1>3, <2>2
  <2>3. CASE Insert(c) /\ req[c].win = day
    <3>1. /\ row'[c] = "processing" /\ born'[c] = task.attempt /\ pc[c] = "fits"
          /\ actual' = actual
      BY <1>0, <2>3 DEF Insert, TypeOK
    <3>2. CASE c \in Proxied /\ a = task.attempt
      BY <1>0, <2>3, <3>1, <3>2, InsertFitsAttempt
    <3>3. CASE ~(c \in Proxied /\ a = task.attempt)
      <4>1. g[c] = 0
        BY <1>1, <3>1, <3>3 DEF Held
      <4>2. \A e \in Calls : g[e] <= f[e]
        BY <1>0, <2>1, <4>1
      <4> QED
        BY <1>2, <4>2
    <3> QED
      BY <3>2, <3>3
  <2>4. CASE /\ Active(c) /\ born'[c] = born[c]
             /\ row'[c] \in {"success", "failed"}
             /\ actual'[c] \in {answer[c].units, actual[c]}
    <3>1. actual[c] = Null /\ answer[c].units <= Units[c] /\ answer[c].units \in Nat
          /\ Units[c] \in Nat
      BY <1>0, <2>4, CallsAssumption
         DEF Orderly, TypeOK, RowFollowsWorker, AnswersFit, Active, Terminal
    <3>2. g[c] <= f[c]
      BY <1>1, <2>4, <3>1 DEF Held, Active, Terminal
    <3>3. \A e \in Calls : g[e] <= f[e]
      BY <1>0, <2>1, <3>2
    <3> QED
      BY <1>2, <3>3
  <2>5. \/ UNCHANGED rows
        \/ Insert(c) /\ req[c].win = day
        \/ /\ Active(c) /\ born'[c] = born[c]
           /\ row'[c] \in {"success", "failed"}
           /\ actual'[c] \in {answer[c].units, actual[c]}
    <3>1. CASE Settle(c)
      BY <1>0, <3>1 DEF Settle, Orderly, TypeOK, RowFollowsWorker
    <3>2. CASE Reclaim(c)
      BY <1>0, <3>2 DEF Reclaim, TypeOK
    <3>3. CASE ~Settle(c) /\ ~Reclaim(c)
      BY <1>5, <3>3
         DEF Step, Begin, TakeLock, Count, Insert, Recheck, CallProvider, Crash, MissWindow
    <3> QED
      BY <3>1, <3>2, <3>3
  <2> QED
    BY <2>2, <2>3, <2>4, <2>5
<1> QED
  BY <1>4, <1>5 DEF Next

\* No paid attempt of the task uses more than the task's budget, for any number of
\* calls, dispatches and retries, though calls of an earlier dispatch or attempt are
\* still out when a later one starts (the gate of claimActiveJob in the proxy).
THEOREM AttemptSafe == Spec => []AttemptWithinBudget
<1>1. Init => AttemptInv
  <2> SUFFICES ASSUME Init PROVE AttemptInv
    OBVIOUS
  <2>1. Orderly /\ SpentCovered
    BY LedgerInit DEF LedgerInv, Orderly
  <2>2. AttemptsInOrder /\ TaskStillFits
    BY CallsAssumption DEF Init, AttemptsInOrder, TaskStillFits, NothingRead, Active
  <2>3. ASSUME NEW a \in Nat PROVE Total(HeldRows(a)) <= TaskLimit
    <3>1. HeldRows(a) = [c \in Calls |-> 0]
      BY DEF Init, HeldRows, Held, Active, Terminal
    <3> QED
      BY <3>1, TotalZero, LimitsAssumption
  <2> QED
    BY <2>1, <2>2, <2>3 DEF AttemptInv, AttemptHeld
<1>2. AttemptInv /\ [Next]_vars => AttemptInv'
  <2> SUFFICES ASSUME AttemptInv, [Next]_vars PROVE AttemptInv'
    OBVIOUS
  <2>1. Orderly' /\ SpentCovered' /\ TaskStillFits' /\ AttemptHeld'
    BY OrderlyStep, SpentStep, TaskFitsStep, AttemptHeldStep DEF AttemptInv
  <2>2. AttemptsInOrder'
    BY OrderStep DEF AttemptInv
  <2> QED
    BY <2>1, <2>2 DEF AttemptInv
<1>3. ASSUME AttemptInv PROVE AttemptWithinBudget
  <2> SUFFICES ASSUME NEW a \in 0 .. MaxAttempt
               PROVE  Total([c \in Calls |-> SpentInAttempt(c, a)]) <= TaskLimit
    BY DEF AttemptWithinBudget
  <2> DEFINE s == [c \in Calls |-> SpentInAttempt(c, a)]
             f == HeldRows(a)
  <2>0. TypeOK /\ a \in Nat /\ TaskLimit \in Nat /\ Total(f) <= TaskLimit
    BY <1>3, LimitsAssumption DEF AttemptInv, Orderly, AttemptHeld
  <2>1. s \in [Calls -> Nat] /\ f \in [Calls -> Nat]
    BY <2>0, HeldNat DEF SpentInAttempt, TypeOK
  <2>2. ASSUME NEW c \in Calls PROVE SpentInAttempt(c, a) <= Held(c, a)
    <3>1. Covered(c)
      BY <1>3 DEF AttemptInv, SpentCovered, Covered
    <3>2. /\ Units[c] \in Nat /\ spent[c] \in Nat /\ actual[c] \in Nat \cup {Null}
          /\ row[c] \in {"none", "processing", "success", "failed"}
      BY <2>0, CallsAssumption DEF TypeOK
    <3>3. Held(c, a) \in Nat
      BY <3>2, CallsAssumption DEF Held
    <3> QED
      BY <3>1, <3>2, <3>3 DEF SpentInAttempt, Covered, Held, Active, Terminal
  <2>3. \A c \in Calls : s[c] <= f[c]
    BY <2>2 DEF HeldRows
  <2> HIDE DEF s, f
  <2>4. Total(s) <= Total(f) /\ Total(s) \in Nat /\ Total(f) \in Nat
    BY <2>1, <2>3, TotalMonotone, TotalNat
  <2>5. Total(s) <= TaskLimit
    BY <2>0, <2>4
  <2> QED
    BY <2>5 DEF s
<1> QED
  BY <1>1, <1>2, <1>3, PTL DEF Spec

=============================================================================
