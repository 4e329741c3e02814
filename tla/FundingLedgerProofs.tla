------------------------ MODULE FundingLedgerProofs ------------------------
(***************************************************************************)
(* Proofs about FundingLedger for any number of payments of any amount,     *)
(* whatever the wallet held before them.                                   *)
(***************************************************************************)
EXTENDS FundingLedger, SequenceTheorems, FiniteSetTheorems, FunctionTheorems,
        WellFoundedInduction, TLAPS

\* The cents of a source lie together in ls.
Run(ls, o) == \A i, j \in Own(ls, o) : \A k \in i .. j : k \in Own(ls, o)

\* The cents no payment explains are the oldest.
Oldest(ls) == \A i \in Own(ls, "legacy") : \A j \in 1 .. i : ls[j] = "legacy"

----------------------------------------------------------------------------
(* Queues of cents.                                                         *)

\* Nonempty sets of numbers have a least one.
LEMMA Least ==
    ASSUME NEW T, T \subseteq Nat, T # {}
    PROVE  \E x \in T : \A y \in T : x <= y
<1>1. PICK x \in T : \A y \in T : ~ (<<y, x>> \in OpToRel(<, Nat))
  BY NatLessThanWellFounded, WFMin
<1>2. ASSUME NEW y \in T PROVE x <= y
  <2>1. ~ (y < x)
    BY <1>1 DEF OpToRel
  <2> QED
    BY <2>1
<1> QED
  BY <1>2

\* The places of a source are finitely many, at most the queue's length.
LEMMA OwnType ==
    ASSUME NEW S, NEW ls \in Seq(S), NEW o
    PROVE  /\ Own(ls, o) \subseteq 1 .. Len(ls) /\ IsFiniteSet(Own(ls, o))
           /\ Cardinality(Own(ls, o)) \in Nat /\ Cardinality(Own(ls, o)) <= Len(ls)
           /\ Cardinality(Own(ls, o)) = 0 <=> Own(ls, o) = {}
<1>1. Len(ls) \in Nat /\ DOMAIN ls = 1 .. Len(ls)
  BY LenProperties
<1>2. IsFiniteSet(1 .. Len(ls)) /\ Cardinality(1 .. Len(ls)) = Len(ls)
  BY <1>1, FS_Interval
<1>3. Own(ls, o) \subseteq 1 .. Len(ls)
  BY <1>1 DEF Own
<1>4. IsFiniteSet(Own(ls, o)) /\ Cardinality(Own(ls, o)) <= Len(ls)
  BY <1>2, <1>3, FS_Subset
<1> QED
  BY <1>3, <1>4, FS_CardinalityType, FS_EmptySet

\* What a source owns of two queues together is what it owns of each.
LEMMA OwnConcat ==
    ASSUME NEW S, NEW ls \in Seq(S), NEW ms \in Seq(S), NEW o
    PROVE  Cardinality(Own(ls \o ms, o))
             = Cardinality(Own(ls, o)) + Cardinality(Own(ms, o))
<1> DEFINE up == [i \in Own(ms, o) |-> Len(ls) + i]
           Up == {Len(ls) + i : i \in Own(ms, o)}
<1>1. /\ Len(ls) \in Nat /\ DOMAIN ls = 1 .. Len(ls)
      /\ Len(ms) \in Nat /\ DOMAIN ms = 1 .. Len(ms)
  BY LenProperties
<1>2. /\ ls \o ms \in Seq(S) /\ Len(ls \o ms) = Len(ls) + Len(ms)
      /\ \A i \in 1 .. Len(ls) + Len(ms) :
           (ls \o ms)[i] = IF i <= Len(ls) THEN ls[i] ELSE ms[i - Len(ls)]
  BY ConcatProperties
<1>3. DOMAIN (ls \o ms) = 1 .. Len(ls) + Len(ms)
  BY <1>2, LenProperties
<1>4. Own(ls \o ms, o) \subseteq Own(ls, o) \cup Up
  <2>1. ASSUME NEW i \in Own(ls \o ms, o) PROVE i \in Own(ls, o) \cup Up
    <3>1. i \in 1 .. Len(ls) + Len(ms) /\ (ls \o ms)[i] = o
      BY <1>3 DEF Own
    <3>2. CASE i <= Len(ls)
      BY <3>1, <3>2, <1>1, <1>2 DEF Own
    <3>3. CASE i > Len(ls)
      <4>1. i - Len(ls) \in Own(ms, o)
        BY <3>1, <3>3, <1>1, <1>2 DEF Own
      <4>2. i = Len(ls) + (i - Len(ls))
        BY <3>1, <1>1
      <4> QED
        BY <4>1, <4>2
    <3> QED
      BY <3>1, <3>2, <3>3, <1>1
  <2> QED
    BY <2>1
<1>5. Own(ls, o) \cup Up \subseteq Own(ls \o ms, o)
  <2>1. ASSUME NEW i \in Own(ls, o) PROVE i \in Own(ls \o ms, o)
    BY <1>1, <1>2, <1>3 DEF Own
  <2>2. ASSUME NEW i \in Own(ms, o) PROVE Len(ls) + i \in Own(ls \o ms, o)
    BY <1>1, <1>2, <1>3 DEF Own
  <2> QED
    BY <2>1, <2>2
<1>6. IsFiniteSet(Own(ms, o)) /\ Own(ms, o) \subseteq 1 .. Len(ms)
      /\ IsFiniteSet(Own(ls, o)) /\ Own(ls, o) \subseteq 1 .. Len(ls)
      /\ Cardinality(Own(ms, o)) \in Nat /\ Cardinality(Own(ls, o)) \in Nat
  BY OwnType
<1>7. IsFiniteSet(Up) /\ Cardinality(Up) = Cardinality(Own(ms, o))
  <2>1. up \in Surjection(Own(ms, o), Up)
    BY DEF Surjection
  <2>2. up \in Injection(Own(ms, o), Up)
    BY <1>1, <1>6 DEF Injection, IsInjective
  <2> QED
    BY <2>1, <2>2, <1>6, FS_Surjection
<1>8. Own(ls, o) \cap Up = {}
  BY <1>1, <1>6
<1>9. Own(ls \o ms, o) = Own(ls, o) \cup Up
  BY <1>4, <1>5
<1> HIDE DEF Up, up
<1>10. Cardinality(Own(ls, o) \cup Up)
         = Cardinality(Own(ls, o)) + Cardinality(Up) - Cardinality(Own(ls, o) \cap Up)
  BY <1>6, <1>7, FS_Union
<1>11. Cardinality(Own(ls, o) \cap Up) = 0
  BY <1>8, FS_EmptySet
<1> QED
  BY <1>6, <1>7, <1>9, <1>10, <1>11

\* A lot is a queue of its source's cents.
LEMMA LotType ==
    ASSUME NEW s \in Sources, NEW n \in Nat
    PROVE  /\ Lot(s, n) \in Seq(Sources) /\ Len(Lot(s, n)) = n
           /\ Cardinality(Own(Lot(s, n), s)) = n
           /\ \A o : o # s => Own(Lot(s, n), o) = {} /\ Cardinality(Own(Lot(s, n), o)) = 0
<1>1. Lot(s, n) \in Seq(Sources) /\ Len(Lot(s, n)) = n
  <2>1. Lot(s, n) \in [1 .. n -> Sources]
    BY DEF Lot
  <2> QED
    BY <2>1, LenProperties, SeqDef DEF Lot
<1>2. Own(Lot(s, n), s) = 1 .. n
  BY DEF Own, Lot
<1>3. ASSUME NEW o, o # s PROVE Own(Lot(s, n), o) = {}
  BY <1>3 DEF Own, Lot
<1>4. Cardinality(1 .. n) = n
  BY FS_Interval
<1>5. Cardinality({}) = 0
  BY FS_EmptySet
<1> QED
  BY <1>1, <1>2, <1>3, <1>4, <1>5

\* A queue falls into its n oldest cents and the rest.
LEMMA Split ==
    ASSUME NEW S, NEW ls \in Seq(S), NEW n \in 0 .. Len(ls)
    PROVE  /\ SubSeq(ls, 1, n) \in Seq(S) /\ Len(SubSeq(ls, 1, n)) = n
           /\ \A i \in 1 .. n : SubSeq(ls, 1, n)[i] = ls[i]
           /\ Left(ls, n) \in Seq(S) /\ Len(Left(ls, n)) = Len(ls) - n
           /\ \A i \in 1 .. Len(ls) - n : Left(ls, n)[i] = ls[n + i]
           /\ SubSeq(ls, 1, n) \o Left(ls, n) = ls
<1>1. Len(ls) \in Nat /\ \A i \in 1 .. Len(ls) : ls[i] \in S
  BY LenProperties
<1>2. \A i \in 1 .. n : ls[i] \in S
  BY <1>1
<1>3. /\ SubSeq(ls, 1, n) \in Seq(S) /\ Len(SubSeq(ls, 1, n)) = n
      /\ \A i \in 1 .. n : SubSeq(ls, 1, n)[i] = ls[i]
  BY <1>1, <1>2, SubSeqProperties
<1>4. n + 1 \in Int /\ Len(ls) \in Int /\ \A i \in n + 1 .. Len(ls) : ls[i] \in S
  BY <1>1
<1>5. /\ SubSeq(ls, n + 1, Len(ls)) \in Seq(S)
      /\ Len(SubSeq(ls, n + 1, Len(ls)))
           = IF n + 1 <= Len(ls) THEN Len(ls) - (n + 1) + 1 ELSE 0
      /\ \A i \in 1 .. Len(ls) - (n + 1) + 1 :
           SubSeq(ls, n + 1, Len(ls))[i] = ls[n + 1 + i - 1]
  BY <1>4, SubSeqProperties
<1>6. /\ Left(ls, n) \in Seq(S) /\ Len(Left(ls, n)) = Len(ls) - n
      /\ \A i \in 1 .. Len(ls) - n : Left(ls, n)[i] = ls[n + i]
  BY <1>1, <1>5 DEF Left
<1>7. SubSeq(ls, 1, n) \o SubSeq(ls, n + 1, Len(ls)) = SubSeq(ls, 1, Len(ls))
  <2>1. 1 \in 1 .. Len(ls) + 1 /\ n \in 1 - 1 .. Len(ls) /\ Len(ls) \in n .. Len(ls)
    BY <1>1
  <2> QED
    BY <2>1, ConcatAdjacentSubSeq
<1> QED
  BY <1>3, <1>6, <1>7, SubSeqFull DEF Left

\* What a spend takes from a source and what it leaves is what there was.
LEMMA TakenAndLeft ==
    ASSUME NEW S, NEW ls \in Seq(S), NEW n \in 0 .. Len(ls), NEW o
    PROVE  /\ TakenFrom(ls, n, o) \in Nat
           /\ TakenFrom(ls, n, o) + Cardinality(Own(Left(ls, n), o))
                = Cardinality(Own(ls, o))
<1>1. PICK A \in Seq(S), B \in Seq(S) :
          A = SubSeq(ls, 1, n) /\ B = Left(ls, n) /\ A \o B = ls
  <2>1. SubSeq(ls, 1, n) \in Seq(S) /\ Left(ls, n) \in Seq(S)
        /\ SubSeq(ls, 1, n) \o Left(ls, n) = ls
    BY Split
  <2> QED
    BY <2>1
<1>2. Cardinality(Own(A \o B, o)) = Cardinality(Own(A, o)) + Cardinality(Own(B, o))
  BY OwnConcat
<1>3. Cardinality(Own(A, o)) \in Nat
  BY OwnType
<1> QED
  BY <1>1, <1>2, <1>3 DEF TakenFrom

\* Where the cents of a source are in two queues together.
LEMMA OwnPlaces ==
    ASSUME NEW S, NEW ls \in Seq(S), NEW ms \in Seq(S), NEW o
    PROVE  /\ Len(ls) \in Nat /\ Len(ms) \in Nat
           /\ \A i : i \in Own(ls \o ms, o) <=>
                /\ i \in 1 .. Len(ls) + Len(ms)
                /\ IF i <= Len(ls) THEN i \in Own(ls, o) ELSE i - Len(ls) \in Own(ms, o)
<1>1. /\ Len(ls) \in Nat /\ DOMAIN ls = 1 .. Len(ls)
      /\ Len(ms) \in Nat /\ DOMAIN ms = 1 .. Len(ms)
  BY LenProperties
<1>2. /\ ls \o ms \in Seq(S) /\ Len(ls \o ms) = Len(ls) + Len(ms)
      /\ \A i \in 1 .. Len(ls) + Len(ms) :
           (ls \o ms)[i] = IF i <= Len(ls) THEN ls[i] ELSE ms[i - Len(ls)]
  BY ConcatProperties
<1>3. DOMAIN (ls \o ms) = 1 .. Len(ls) + Len(ms)
  BY <1>2, LenProperties
<1>4. ASSUME NEW i \in 1 .. Len(ls) + Len(ms)
      PROVE  i \in Own(ls \o ms, o) <=>
               IF i <= Len(ls) THEN i \in Own(ls, o) ELSE i - Len(ls) \in Own(ms, o)
  <2>1. CASE i <= Len(ls)
    BY <2>1, <1>1, <1>2, <1>3 DEF Own
  <2>2. CASE i > Len(ls)
    <3>1. i - Len(ls) \in 1 .. Len(ms) /\ (ls \o ms)[i] = ms[i - Len(ls)]
      BY <2>2, <1>1, <1>2
    <3>2. ~ (i <= Len(ls))
      BY <2>2, <1>1
    <3> QED
      BY <3>1, <3>2, <1>1, <1>3 DEF Own
  <2> QED
    BY <2>1, <2>2, <1>1
<1>5. \A i : i \in Own(ls \o ms, o) => i \in 1 .. Len(ls) + Len(ms)
  BY <1>3 DEF Own
<1> QED
  BY <1>1, <1>4, <1>5

\* What is left of a queue is as well ordered as the queue.
LEMMA LeftKeeps ==
    ASSUME NEW S, NEW ls \in Seq(S), NEW n \in 0 .. Len(ls)
    PROVE  /\ \A o : Run(ls, o) => Run(Left(ls, n), o)
           /\ Oldest(ls) => Oldest(Left(ls, n))
<1>1. Len(ls) \in Nat /\ DOMAIN ls = 1 .. Len(ls)
  BY LenProperties
<1>2. /\ Left(ls, n) \in Seq(S) /\ Len(Left(ls, n)) = Len(ls) - n
      /\ \A i \in 1 .. Len(ls) - n : Left(ls, n)[i] = ls[n + i]
  BY Split
<1>3. DOMAIN Left(ls, n) = 1 .. Len(ls) - n
  BY <1>2, LenProperties
<1>4. ASSUME NEW o, NEW i
      PROVE  i \in Own(Left(ls, n), o) <=> i \in 1 .. Len(ls) - n /\ n + i \in Own(ls, o)
  BY <1>1, <1>2, <1>3 DEF Own
<1>5. ASSUME NEW o, Run(ls, o) PROVE Run(Left(ls, n), o)
  <2> SUFFICES ASSUME NEW i \in Own(Left(ls, n), o), NEW j \in Own(Left(ls, n), o),
                      NEW k \in i .. j
               PROVE  k \in Own(Left(ls, n), o)
    BY DEF Run
  <2>1. i \in 1 .. Len(ls) - n /\ j \in 1 .. Len(ls) - n
        /\ n + i \in Own(ls, o) /\ n + j \in Own(ls, o)
    BY <1>4
  <2>2. n + k \in (n + i) .. (n + j) /\ k \in 1 .. Len(ls) - n
    BY <2>1, <1>1
  <2>3. n + k \in Own(ls, o)
    BY <2>1, <2>2, <1>5 DEF Run
  <2> QED
    BY <2>2, <2>3, <1>4
<1>6. ASSUME Oldest(ls), NEW i \in Own(Left(ls, n), "legacy"), NEW j \in 1 .. i
      PROVE  Left(ls, n)[j] = "legacy"
  <2>1. i \in 1 .. Len(ls) - n /\ n + i \in Own(ls, "legacy")
    BY <1>4
  <2>2. n + j \in 1 .. (n + i) /\ j \in 1 .. Len(ls) - n
    BY <2>1, <1>1
  <2> QED
    BY <2>1, <2>2, <1>2, <1>6 DEF Oldest
<1>7. Oldest(ls) => Oldest(Left(ls, n))
  BY <1>6 DEF Oldest
<1> QED
  BY <1>5, <1>7

\* A lot in front of a queue leaves the runs of others and the age of legacy.
LEMMA BeforeKeeps ==
    ASSUME NEW ls \in Seq(Sources), NEW n \in Nat
    PROVE  /\ \A o : o # "legacy" /\ Run(ls, o) => Run(Lot("legacy", n) \o ls, o)
           /\ Oldest(ls) => Oldest(Lot("legacy", n) \o ls)
<1> DEFINE g == Lot("legacy", n)
<1>1. g \in Seq(Sources) /\ Len(g) = n /\ \A i \in 1 .. n : g[i] = "legacy"
  BY LotType DEF Lot, Sources
<1>2. \A o : o # "legacy" => Own(g, o) = {}
  BY LotType DEF Sources
<1> HIDE DEF g
<1>3. ASSUME NEW o, NEW i
      PROVE  i \in Own(g \o ls, o) <=>
               /\ i \in 1 .. n + Len(ls)
               /\ IF i <= n THEN i \in Own(g, o) ELSE i - n \in Own(ls, o)
  BY <1>1, OwnPlaces
<1>4. Len(ls) \in Nat /\ g \o ls \in Seq(Sources)
      /\ \A i \in 1 .. n + Len(ls) :
           (g \o ls)[i] = IF i <= n THEN g[i] ELSE ls[i - n]
  BY <1>1, LenProperties, ConcatProperties
<1>5. ASSUME NEW o, o # "legacy", Run(ls, o) PROVE Run(g \o ls, o)
  <2> SUFFICES ASSUME NEW i \in Own(g \o ls, o), NEW j \in Own(g \o ls, o),
                      NEW k \in i .. j
               PROVE  k \in Own(g \o ls, o)
    BY DEF Run
  <2>1. i \in 1 .. n + Len(ls) /\ i > n /\ i - n \in Own(ls, o)
    BY <1>2, <1>3, <1>4, <1>5
  <2>2. j \in 1 .. n + Len(ls) /\ j > n /\ j - n \in Own(ls, o)
    BY <1>2, <1>3, <1>4, <1>5
  <2>3. k \in 1 .. n + Len(ls) /\ ~ (k <= n) /\ k - n \in (i - n) .. (j - n)
    BY <2>1, <2>2, <1>4
  <2>4. k - n \in Own(ls, o)
    BY <2>1, <2>2, <2>3, <1>5 DEF Run
  <2> QED
    BY <2>3, <2>4, <1>3
<1>6. ASSUME Oldest(ls), NEW i \in Own(g \o ls, "legacy"), NEW j \in 1 .. i
      PROVE  (g \o ls)[j] = "legacy"
  <2>1. i \in 1 .. n + Len(ls)
        /\ IF i <= n THEN i \in Own(g, "legacy") ELSE i - n \in Own(ls, "legacy")
    BY <1>3
  <2>2. CASE j <= n
    BY <2>1, <2>2, <1>1, <1>4
  <2>3. CASE j > n
    <3>1. i - n \in Own(ls, "legacy") /\ j - n \in 1 .. (i - n) /\ j \in 1 .. n + Len(ls)
      BY <2>1, <2>3, <1>4
    <3>2. ls[j - n] = "legacy"
      BY <3>1, <1>6 DEF Oldest
    <3>3. (g \o ls)[j] = ls[j - n]
      <4>1. ~ (j <= n)
        BY <3>1, <2>3
      <4> QED
        BY <4>1, <3>1, <1>4
    <3> QED
      BY <3>2, <3>3
  <2>4. j <= n \/ j > n
    BY <2>1
  <2> QED
    BY <2>2, <2>3, <2>4, Zenon
<1>7. Oldest(ls) => Oldest(g \o ls)
  BY <1>6 DEF Oldest
<1> QED
  BY <1>5, <1>7 DEF g

\* A new lot behind a queue leaves the runs of others and the age of legacy,
\* and is a run of its own where its source had none.
LEMMA AfterKeeps ==
    ASSUME NEW ls \in Seq(Sources), NEW s \in Sources, NEW n \in Nat
    PROVE  /\ \A o : o # s /\ Run(ls, o) => Run(ls \o Lot(s, n), o)
           /\ Own(ls, s) = {} => Run(ls \o Lot(s, n), s)
           /\ s # "legacy" /\ Oldest(ls) => Oldest(ls \o Lot(s, n))
<1> DEFINE g == Lot(s, n)
<1>1. g \in Seq(Sources) /\ Len(g) = n /\ \A o : o # s => Own(g, o) = {}
  BY LotType
<1>2. Own(g, s) = 1 .. n
  BY DEF Own, Lot
<1> HIDE DEF g
<1>3. ASSUME NEW o, NEW i
      PROVE  i \in Own(ls \o g, o) <=>
               /\ i \in 1 .. Len(ls) + n
               /\ IF i <= Len(ls) THEN i \in Own(ls, o) ELSE i - Len(ls) \in Own(g, o)
  BY <1>1, OwnPlaces
<1>4. Len(ls) \in Nat /\ ls \o g \in Seq(Sources)
      /\ \A i \in 1 .. Len(ls) : (ls \o g)[i] = ls[i]
  BY <1>1, LenProperties, ConcatProperties
<1>5. ASSUME NEW o, o # s, Run(ls, o) PROVE Run(ls \o g, o)
  <2> SUFFICES ASSUME NEW i \in Own(ls \o g, o), NEW j \in Own(ls \o g, o),
                      NEW k \in i .. j
               PROVE  k \in Own(ls \o g, o)
    BY DEF Run
  <2>1. i \in 1 .. Len(ls) /\ i \in Own(ls, o)
    BY <1>1, <1>3, <1>4, <1>5
  <2>2. j \in 1 .. Len(ls) /\ j \in Own(ls, o)
    BY <1>1, <1>3, <1>4, <1>5
  <2>3. k \in 1 .. Len(ls) + n /\ k <= Len(ls) /\ k \in Own(ls, o)
    BY <2>1, <2>2, <1>4, <1>5 DEF Run
  <2> QED
    BY <2>3, <1>3
<1>6. ASSUME Own(ls, s) = {} PROVE Run(ls \o g, s)
  <2> SUFFICES ASSUME NEW i \in Own(ls \o g, s), NEW j \in Own(ls \o g, s),
                      NEW k \in i .. j
               PROVE  k \in Own(ls \o g, s)
    BY DEF Run
  <2>1. i \in 1 .. Len(ls) + n /\ ~ (i <= Len(ls))
    BY <1>3, <1>4, <1>6
  <2>2. j \in 1 .. Len(ls) + n
    BY <1>3
  <2>3. k \in 1 .. Len(ls) + n /\ ~ (k <= Len(ls)) /\ k - Len(ls) \in 1 .. n
    BY <2>1, <2>2, <1>4
  <2> QED
    BY <2>3, <1>2, <1>3
<1>7. ASSUME s # "legacy", Oldest(ls) PROVE Oldest(ls \o g)
  <2> SUFFICES ASSUME NEW i \in Own(ls \o g, "legacy"), NEW j \in 1 .. i
               PROVE  (ls \o g)[j] = "legacy"
    BY DEF Oldest
  <2>1. i \in 1 .. Len(ls) /\ i \in Own(ls, "legacy")
    BY <1>1, <1>3, <1>4, <1>7
  <2>2. j \in 1 .. Len(ls) /\ ls[j] = "legacy"
    BY <2>1, <1>4, <1>7 DEF Oldest
  <2> QED
    BY <2>2, <1>4
<1> QED
  BY <1>5, <1>6, <1>7 DEF g

\* A run is an interval.
LEMMA RunInterval ==
    ASSUME NEW S, NEW ls \in Seq(S), NEW o, Run(ls, o), Own(ls, o) # {}
    PROVE  \E f \in 1 .. Len(ls), m \in 1 .. Len(ls) :
             /\ f <= m /\ Own(ls, o) = f .. m
             /\ Cardinality(Own(ls, o)) = m - f + 1
             /\ f = CHOOSE i \in Own(ls, o) : \A j \in Own(ls, o) : i <= j
<1> DEFINE O == Own(ls, o)
           B == {Len(ls) - i : i \in O}
<1>1. Len(ls) \in Nat /\ O \subseteq 1 .. Len(ls)
  BY LenProperties, OwnType
<1>2. O \subseteq Nat /\ O # {}
  BY <1>1
<1>3. PICK f \in O : \A y \in O : f <= y
  BY <1>2, Least
<1>4. B \subseteq Nat /\ B # {}
  BY <1>1, <1>2
<1>5. PICK b \in B : \A y \in B : b <= y
  <2> HIDE DEF B
  <2> QED
    BY <1>4, Least
<1>6. PICK m \in O : b = Len(ls) - m
  BY <1>5
<1>7. \A y \in O : y <= m
  <2>1. ASSUME NEW y \in O PROVE y <= m
    <3>1. Len(ls) - y \in B
      OBVIOUS
    <3>2. b <= Len(ls) - y
      BY <3>1, <1>5
    <3>3. y \in Nat /\ m \in Nat
      BY <1>1
    <3> QED
      BY <3>2, <3>3, <1>1, <1>6
  <2> QED
    BY <2>1
<1> HIDE DEF B
<1>8. f \in 1 .. Len(ls) /\ m \in 1 .. Len(ls) /\ f <= m
  BY <1>1, <1>3
<1>9. O = f .. m
  <2>1. O \subseteq f .. m
    BY <1>1, <1>3, <1>7, <1>8
  <2>2. f .. m \subseteq O
    BY DEF Run
  <2> QED
    BY <2>1, <2>2
<1>10. Cardinality(O) = m - f + 1
  BY <1>8, <1>9, FS_Interval
<1>11. f = CHOOSE i \in O : \A j \in O : i <= j
  <2>1. \A i \in O : (\A j \in O : i <= j) => i = f
    BY <1>1, <1>3, <1>8
  <2> HIDE DEF O
  <2> QED
    BY <2>1, <1>3
<1> QED
  BY <1>8, <1>9, <1>10, <1>11

\* Taking a lot out removes its cents and no others, and leaves the rest in
\* order.
LEMMA WithoutKeeps ==
    ASSUME lots \in Seq(Sources), NEW o, Run(lots, o)
    PROVE  /\ Without(o) \in Seq(Sources)
           /\ Len(Without(o)) = Len(lots) - RemainderOf(o)
           /\ Own(Without(o), o) = {}
           /\ \A p : p # o =>
                /\ Cardinality(Own(Without(o), p)) = RemainderOf(p)
                /\ Run(lots, p) => Run(Without(o), p)
           /\ o # "legacy" /\ Oldest(lots) => Oldest(Without(o))
           /\ o # "legacy" => (Own(Without(o), "legacy") # {} <=> Own(lots, "legacy") # {})
<1>1. CASE Own(lots, o) = {}
  <2>1. Without(o) = lots
    BY <1>1 DEF Without
  <2>2. RemainderOf(o) = 0 /\ Len(lots) \in Nat
    BY <1>1, FS_EmptySet, LenProperties DEF RemainderOf
  <2>3. \A p : Cardinality(Own(lots, p)) = RemainderOf(p)
    BY DEF RemainderOf
  <2> QED
    BY <1>1, <2>1, <2>2, <2>3
<1>2. CASE Own(lots, o) # {}
  <2>1. PICK f \in 1 .. Len(lots), m \in 1 .. Len(lots) :
          /\ f <= m /\ Own(lots, o) = f .. m
          /\ Cardinality(Own(lots, o)) = m - f + 1
          /\ f = CHOOSE i \in Own(lots, o) : \A j \in Own(lots, o) : i <= j
    BY <1>2, RunInterval
  <2> DEFINE A == SubSeq(lots, 1, f - 1)
             C == Left(lots, m)
             gap == m - f + 1
             new == A \o C
  <2>2. Len(lots) \in Nat /\ DOMAIN lots = 1 .. Len(lots)
        /\ f \in Nat /\ m \in Nat /\ gap \in Nat /\ f - 1 \in 0 .. Len(lots)
        /\ m \in 0 .. Len(lots)
    BY <2>1, LenProperties
  <2>3. Without(o) = new
    <3>1. f + RemainderOf(o) = m + 1
      BY <2>1, <2>2 DEF RemainderOf
    <3>2. Without(o) = SubSeq(lots, 1, f - 1)
                         \o SubSeq(lots, f + RemainderOf(o), Len(lots))
      BY <1>2, <2>1 DEF Without
    <3> QED
      BY <3>1, <3>2 DEF Left
  <2>4. /\ A \in Seq(Sources) /\ Len(A) = f - 1
        /\ \A i \in 1 .. f - 1 : A[i] = lots[i]
    BY <2>2, Split
  <2>5. /\ C \in Seq(Sources) /\ Len(C) = Len(lots) - m
        /\ \A i \in 1 .. Len(lots) - m : C[i] = lots[m + i]
    BY <2>2, Split
  <2> HIDE DEF A, C
  <2>6. /\ new \in Seq(Sources) /\ Len(new) = f - 1 + (Len(lots) - m)
        /\ \A i \in 1 .. f - 1 + (Len(lots) - m) :
             new[i] = IF i <= f - 1 THEN A[i] ELSE C[i - (f - 1)]
    <3>1. /\ A \o C \in Seq(Sources) /\ Len(A \o C) = Len(A) + Len(C)
          /\ \A i \in 1 .. Len(A) + Len(C) :
               (A \o C)[i] = IF i <= Len(A) THEN A[i] ELSE C[i - Len(A)]
      BY <2>4, <2>5, ConcatProperties
    <3> QED
      BY <3>1, <2>4, <2>5
  <2>7. Len(new) = Len(lots) - gap /\ gap = RemainderOf(o)
        /\ DOMAIN new = 1 .. Len(lots) - gap
    <3>1. f - 1 + (Len(lots) - m) = Len(lots) - gap
      BY <2>2
    <3>2. DOMAIN new = 1 .. Len(new)
      BY <2>6, LenProperties
    <3> QED
      BY <3>1, <3>2, <2>6, <2>1 DEF RemainderOf
  <2>8. ASSUME NEW i \in 1 .. Len(lots) - gap
        PROVE  new[i] = IF i < f THEN lots[i] ELSE lots[i + gap]
    <3>1. CASE i < f
      BY <3>1, <2>2, <2>4, <2>6
    <3>2. CASE ~ (i < f)
      <4>1. i - (f - 1) \in 1 .. Len(lots) - m /\ m + (i - (f - 1)) = i + gap
        BY <3>2, <2>2
      <4>2. new[i] = C[i - (f - 1)]
        BY <3>2, <2>2, <2>6
      <4> QED
        BY <3>2, <4>1, <4>2, <2>5
    <3> QED
      BY <3>1, <3>2
  <2> HIDE DEF new, gap
  <2>9. ASSUME NEW p, NEW i
        PROVE  i \in Own(new, p) <=>
                 /\ i \in 1 .. Len(lots) - gap
                 /\ IF i < f THEN i \in Own(lots, p) ELSE i + gap \in Own(lots, p)
    BY <2>2, <2>7, <2>8 DEF Own
  <2>10. m = f + gap - 1 /\ gap >= 1
    BY <2>1, <2>2 DEF gap
  <2>11. Own(new, o) = {}
    <3> SUFFICES ASSUME NEW i \in Own(new, o) PROVE FALSE
      OBVIOUS
    <3>1. /\ i \in 1 .. Len(lots) - gap
          /\ IF i < f THEN i \in f .. m ELSE i + gap \in f .. m
      BY <2>1, <2>9
    <3> QED
      BY <3>1, <2>2, <2>10
  <2>12. ASSUME NEW p, p # o, Run(lots, p) PROVE Run(new, p)
    <3> SUFFICES ASSUME NEW i \in Own(new, p), NEW j \in Own(new, p), NEW k \in i .. j
                 PROVE  k \in Own(new, p)
      BY DEF Run
    <3>1. /\ i \in 1 .. Len(lots) - gap /\ j \in 1 .. Len(lots) - gap
          /\ IF i < f THEN i \in Own(lots, p) ELSE i + gap \in Own(lots, p)
          /\ IF j < f THEN j \in Own(lots, p) ELSE j + gap \in Own(lots, p)
      BY <2>9
    <3>2. k \in 1 .. Len(lots) - gap
      BY <3>1, <2>2
    <3>3. IF k < f THEN k \in Own(lots, p) ELSE k + gap \in Own(lots, p)
      <4>1. PICK x \in Own(lots, p) : x <= i + gap /\ (i < f => x = i) /\ (~ (i < f) => x = i + gap)
        BY <3>1, <2>2
      <4>2. PICK y \in Own(lots, p) : y >= j /\ (j < f => y = j) /\ (~ (j < f) => y = j + gap)
        BY <3>1, <2>2
      <4>3. CASE k < f
        BY <4>1, <4>2, <4>3, <3>1, <2>2, <2>12 DEF Run
      <4>4. CASE ~ (k < f)
        <5>1. k + gap \in x .. y
          BY <4>1, <4>2, <4>4, <3>1, <2>2
        <5> QED
          BY <4>4, <5>1, <2>12 DEF Run
      <4> QED
        BY <4>3, <4>4
    <3> QED
      BY <3>2, <3>3, <2>9
  <2>13. ASSUME NEW p, p # o PROVE Cardinality(Own(new, p)) = RemainderOf(p)
    <3>1. m \in 0 .. Len(lots) /\ f - 1 \in 0 .. Len(lots)
      BY <2>2
    <3>2. /\ SubSeq(lots, 1, m) \in Seq(Sources) /\ Len(SubSeq(lots, 1, m)) = m
          /\ \A i \in 1 .. m : SubSeq(lots, 1, m)[i] = lots[i]
      BY <3>1, Split
    <3>3. DOMAIN SubSeq(lots, 1, m) = 1 .. m /\ DOMAIN A = 1 .. f - 1
      BY <3>2, <2>4, LenProperties
    <3>4. Own(SubSeq(lots, 1, m), p) = Own(A, p)
      <4>1. \A i \in f .. m : lots[i] = o
        BY <2>1 DEF Own
      <4>2. \A i : i \in 1 .. m <=> i \in 1 .. f - 1 \/ i \in f .. m
        BY <2>2, <2>1
      <4> QED
        BY <4>1, <4>2, <3>2, <3>3, <2>4, <2>13 DEF Own
    <3>5. Cardinality(Own(SubSeq(lots, 1, m), p)) + Cardinality(Own(C, p))
            = Cardinality(Own(lots, p))
      BY <3>1, TakenAndLeft DEF TakenFrom, C
    <3>6. Cardinality(Own(A \o C, p)) = Cardinality(Own(A, p)) + Cardinality(Own(C, p))
      BY <2>4, <2>5, OwnConcat
    <3> QED
      BY <3>4, <3>5, <3>6 DEF new, RemainderOf
  <2>14. ASSUME o # "legacy", Oldest(lots) PROVE Oldest(new)
    <3> SUFFICES ASSUME NEW i \in Own(new, "legacy"), NEW j \in 1 .. i
                 PROVE  new[j] = "legacy"
      BY DEF Oldest
    <3>1. /\ i \in 1 .. Len(lots) - gap
          /\ IF i < f THEN i \in Own(lots, "legacy") ELSE i + gap \in Own(lots, "legacy")
      BY <2>9
    <3>2. j \in 1 .. Len(lots) - gap /\ j \in 1 .. (i + gap) /\ j + gap \in 1 .. (i + gap)
      BY <3>1, <2>2
    <3>3. CASE i < f
      BY <3>1, <3>2, <3>3, <2>2, <2>8, <2>14 DEF Oldest
    <3>4. CASE ~ (i < f)
      BY <3>1, <3>2, <3>4, <2>2, <2>8, <2>14 DEF Oldest
    <3> QED
      BY <3>3, <3>4
  <2>15. ASSUME o # "legacy" PROVE Own(new, "legacy") # {} <=> Own(lots, "legacy") # {}
    <3>1. Cardinality(Own(new, "legacy")) = Cardinality(Own(lots, "legacy"))
      BY <2>13, <2>15 DEF RemainderOf
    <3>2. new \in Seq(Sources)
      BY <2>6 DEF new
    <3> QED
      BY <3>1, <3>2, OwnType
  <2> QED
    BY <2>3, <2>6, <2>7, <2>11, <2>12, <2>13, <2>14, <2>15
<1> QED
  BY <1>1, <1>2

----------------------------------------------------------------------------
(* The invariant.  What the queue and the allocations say holds together:   *)
(* an order that was not paid owns nothing and has spent nothing, and what a *)
(* purchase brings is spent at once.                                        *)
Unpaid ==
    \A o \in Orders : lot[o] = "none" => RemainderOf(o) = 0 /\ Spent(o) = 0
AtOnce ==
    \A o \in Purchases : RemainderOf(o) = 0

LotInv ==
    /\ wallet \in Nat /\ lots \in Seq(Sources)
    /\ lot \in [Orders -> {"none", "active", "reversed"}]
    /\ allocs \in [Orders -> [Targets -> Nat]]
    /\ Len(lots) <= wallet
    /\ \A o \in Orders : Together(o)
    /\ \A o \in Orders : lot[o] = "active" => Sound(o)
    /\ Unpaid /\ AtOnce /\ Oldest(lots) /\ LegacySpentFirst

RestType ==
    /\ used \in [cents : Nat, minutes : Nat] /\ adjust \in Int
    /\ pool \in [bal : Nat, owed : Nat, held : Nat]
    /\ debts \in [Orders -> [cents : Nat, open : BOOLEAN]] /\ holds \subseteq Orders

FundInv == LotInv /\ RestType /\ DebtFreezes

\* The lots with the gap in front hold the whole wallet and leave every order
\* what it has.
LEMMA FundedType ==
    ASSUME LotInv
    PROVE  /\ Funded \in Seq(Sources) /\ Len(Funded) = wallet
           /\ \A o \in Orders : /\ Cardinality(Own(Funded, o)) = RemainderOf(o)
                                /\ Run(Funded, o)
           /\ Oldest(Funded)
           /\ Own(Funded, "legacy") # {} => wallet > Len(lots) \/ Own(lots, "legacy") # {}
<1> DEFINE n == Positive(wallet - Len(lots))
           g == Lot("legacy", n)
<1>1. n \in Nat /\ n = wallet - Len(lots) /\ Len(lots) \in Nat
  BY LenProperties DEF LotInv, Positive
<1>2. "legacy" \in Sources /\ \A o \in Orders : o # "legacy"
  BY FundingAssumption DEF Sources
<1>3. /\ g \in Seq(Sources) /\ Len(g) = n
      /\ \A o \in Orders : Cardinality(Own(g, o)) = 0
  BY <1>1, <1>2, LotType
<1>4. Funded = g \o lots /\ lots \in Seq(Sources)
  BY DEF Funded, LotInv
<1>5. \A o \in Orders : Run(g \o lots, o)
  BY <1>1, <1>2, BeforeKeeps DEF LotInv, Together, Run
<1>6. Oldest(g \o lots)
  BY <1>1, BeforeKeeps DEF LotInv
<1>7. ASSUME wallet = Len(lots), Own(g \o lots, "legacy") # {}
      PROVE  Own(lots, "legacy") # {}
  <2>1. PICK i : i \in Own(g \o lots, "legacy")
    BY <1>7
  <2>2. n = 0
    BY <1>1, <1>7
  <2> HIDE DEF g, n
  <2>3. i \in 1 .. n + Len(lots)
        /\ IF i <= n THEN i \in Own(g, "legacy") ELSE i - n \in Own(lots, "legacy")
    BY <2>1, <1>3, <1>4, OwnPlaces
  <2> QED
    BY <2>2, <2>3, <1>1
<1> HIDE DEF g, n
<1>8. \A o \in Orders : Cardinality(Own(g \o lots, o))
                          = Cardinality(Own(g, o)) + Cardinality(Own(lots, o))
  BY <1>3, <1>4, OwnConcat
<1>9. \A o \in Orders : Cardinality(Own(lots, o)) \in Nat
  BY <1>4, OwnType
<1>10. g \o lots \in Seq(Sources) /\ Len(g \o lots) = n + Len(lots)
  BY <1>3, <1>4, ConcatProperties
<1>11. wallet > Len(lots) \/ wallet = Len(lots)
  BY <1>1 DEF LotInv
<1>12. n + Len(lots) = wallet
  BY <1>1 DEF LotInv
<1>13. \A o \in Orders : Cardinality(Own(g \o lots, o)) = RemainderOf(o)
  BY <1>3, <1>8, <1>9 DEF RemainderOf
<1> QED
  BY <1>4, <1>5, <1>6, <1>7, <1>10, <1>11, <1>12, <1>13

\* A spend, whatever it is for, keeps what the queue and the allocations say.
LEMMA AllocateKeeps ==
    ASSUME LotInv, NEW n \in Nat, NEW target \in Targets, Allocate(n, target), lot' = lot
    PROVE  LotInv'
<1>1. /\ Funded \in Seq(Sources) /\ Len(Funded) = wallet
      /\ \A o \in Orders : /\ Cardinality(Own(Funded, o)) = RemainderOf(o)
                           /\ Run(Funded, o)
      /\ Oldest(Funded)
      /\ Own(Funded, "legacy") # {} => wallet > Len(lots) \/ Own(lots, "legacy") # {}
  BY FundedType
<1>2. /\ n \in 1 .. wallet /\ wallet' = wallet - n /\ lots' = Left(Funded, n)
      /\ allocs' = [o \in Orders |->
           [allocs[o] EXCEPT ![target] = @ + TakenFrom(Funded, n, o)]]
  BY DEF Allocate
<1>3. n \in 0 .. Len(Funded) /\ wallet \in Nat
  BY <1>1, <1>2 DEF LotInv
<1>4. /\ lots' \in Seq(Sources) /\ Len(lots') = wallet'
      /\ \A i \in 1 .. wallet' : lots'[i] = Funded[n + i]
  BY <1>1, <1>2, <1>3, Split
<1>5. Oldest(lots') /\ \A o \in Orders : Run(lots', o)
  BY <1>1, <1>2, <1>3, LeftKeeps
<1>6. ASSUME NEW o \in Orders
      PROVE  /\ TakenFrom(Funded, n, o) \in Nat
             /\ RemainderOf(o)' \in Nat /\ RemainderOf(o) \in Nat
             /\ TakenFrom(Funded, n, o) + RemainderOf(o)' = RemainderOf(o)
  <2>1. TakenFrom(Funded, n, o) \in Nat
        /\ TakenFrom(Funded, n, o) + Cardinality(Own(Left(Funded, n), o))
             = Cardinality(Own(Funded, o))
    BY <1>1, <1>3, TakenAndLeft
  <2>2. RemainderOf(o)' = Cardinality(Own(Left(Funded, n), o))
    BY <1>2 DEF RemainderOf
  <2>3. Cardinality(Own(Left(Funded, n), o)) \in Nat
    BY <1>2, <1>4, OwnType
  <2> QED
    BY <2>1, <2>2, <2>3, <1>1
<1>7. allocs' \in [Orders -> [Targets -> Nat]]
  <2>1. ASSUME NEW o \in Orders
        PROVE  [allocs[o] EXCEPT ![target] = @ + TakenFrom(Funded, n, o)] \in [Targets -> Nat]
    BY <1>6 DEF LotInv
  <2> QED
    BY <1>2, <2>1
<1>8. ASSUME NEW o \in Orders
      PROVE  Spent(o)' = Spent(o) + TakenFrom(Funded, n, o) /\ Spent(o) \in Nat
  <2>1. PICK a \in [Targets -> Nat] : a = allocs[o]
    BY DEF LotInv
  <2>2. PICK t \in Nat : t = TakenFrom(Funded, n, o)
    BY <1>6
  <2>3. allocs'[o] = [a EXCEPT ![target] = @ + t]
    BY <1>2, <2>1, <2>2
  <2>4. Spent(o) = a["service"] + a["minutes"] + a["admin"]
    BY <2>1 DEF Spent
  <2>5. Spent(o)' = allocs'[o]["service"] + allocs'[o]["minutes"] + allocs'[o]["admin"]
    BY DEF Spent
  <2>6. allocs'[o]["service"] + allocs'[o]["minutes"] + allocs'[o]["admin"]
          = a["service"] + a["minutes"] + a["admin"] + t
    BY <2>3 DEF Targets
  <2>7. a["service"] + a["minutes"] + a["admin"] \in Nat
    BY DEF Targets
  <2> QED
    BY <2>2, <2>4, <2>5, <2>6, <2>7
<1>9. ASSUME NEW o \in Orders, lot'[o] = "active" PROVE Sound(o)'
  BY <1>6, <1>8, <1>9 DEF LotInv, Sound
<1>10. Unpaid'
  BY <1>6, <1>8 DEF LotInv, Unpaid
<1>11. AtOnce'
  BY <1>6, FundingAssumption DEF LotInv, AtOnce
<1>12. LegacySpentFirst'
  <2> SUFFICES ASSUME Own(lots', "legacy") # {}, NEW o \in Orders \ Purchases
               PROVE  Spent(o)' = 0
    BY <1>3, <1>4 DEF LegacySpentFirst
  <2>1. PICK i \in Own(lots', "legacy") : TRUE
    OBVIOUS
  <2>2. i \in 1 .. wallet' /\ lots'[i] = "legacy"
    BY <1>4, LenProperties DEF Own
  <2>3. n + i \in Own(Funded, "legacy")
    <3>1. DOMAIN Funded = 1 .. wallet
      BY <1>1, LenProperties
    <3>2. n + i \in 1 .. wallet /\ Funded[n + i] = "legacy"
      BY <2>2, <1>2, <1>3, <1>4
    <3> QED
      BY <3>1, <3>2 DEF Own
  <2>4. Spent(o) = 0
    BY <2>3, <1>1 DEF LotInv, LegacySpentFirst
  <2>5. TakenFrom(Funded, n, o) = 0
    <3>1. /\ SubSeq(Funded, 1, n) \in Seq(Sources) /\ Len(SubSeq(Funded, 1, n)) = n
          /\ \A j \in 1 .. n : SubSeq(Funded, 1, n)[j] = Funded[j]
      BY <1>1, <1>3, Split
    <3>2. \A j \in 1 .. n : Funded[j] = "legacy"
      <4>1. \A j \in 1 .. n : j \in 1 .. n + i
        BY <2>2, <1>3
      <4> QED
        BY <4>1, <2>3, <1>1 DEF Oldest
    <3>3. Own(SubSeq(Funded, 1, n), o) = {}
      BY <3>1, <3>2, LenProperties, FundingAssumption DEF Own
    <3> QED
      BY <3>3, FS_EmptySet DEF TakenFrom
  <2> QED
    BY <2>4, <2>5, <1>8
<1>13. wallet' \in Nat
  BY <1>2, <1>3
<1>14. \A o \in Orders : Together(o)'
  BY <1>5 DEF Together, Run
<1>15. Len(lots') <= wallet' /\ lot' \in [Orders -> {"none", "active", "reversed"}]
  BY <1>4, <1>13 DEF LotInv
<1> QED
  BY <1>4, <1>5, <1>7, <1>9, <1>10, <1>11, <1>12, <1>13, <1>14, <1>15 DEF LotInv

\* Money that comes in, as the cents of a payment or of another source, keeps
\* what the queue and the allocations say.
LEMMA AppendKeeps ==
    ASSUME LotInv, NEW s \in Sources \ {"legacy"}, NEW n \in Nat,
           wallet' = wallet + n, lots' = lots \o Lot(s, n), allocs' = allocs,
           \/ s \notin Orders /\ lot' = lot
           \/ /\ s \in Orders \ Purchases /\ lot[s] = "none" /\ n = Amount[s]
              /\ lot' = [lot EXCEPT ![s] = "active"]
    PROVE  LotInv'
<1>1. /\ Lot(s, n) \in Seq(Sources) /\ Len(Lot(s, n)) = n
      /\ Cardinality(Own(Lot(s, n), s)) = n
      /\ \A o : o # s => Cardinality(Own(Lot(s, n), o)) = 0
      /\ \A o : o # s => Own(Lot(s, n), o) = {}
  BY LotType
<1>2. lots \in Seq(Sources) /\ Len(lots) \in Nat /\ wallet \in Nat
  BY LenProperties DEF LotInv
<1>3. lots' \in Seq(Sources) /\ Len(lots') = Len(lots) + n
  <2>1. /\ lots \o Lot(s, n) \in Seq(Sources)
        /\ Len(lots \o Lot(s, n)) = Len(lots) + Len(Lot(s, n))
    BY <1>1, <1>2, ConcatProperties
  <2> QED
    BY <2>1, <1>1
<1>4. ASSUME NEW o
      PROVE  /\ RemainderOf(o) \in Nat
             /\ RemainderOf(o)' = RemainderOf(o) + IF o = s THEN n ELSE 0
             /\ Spent(o)' = Spent(o)
  <2>1. Cardinality(Own(lots \o Lot(s, n), o))
          = Cardinality(Own(lots, o)) + Cardinality(Own(Lot(s, n), o))
    BY <1>1, <1>2, OwnConcat
  <2>2. Cardinality(Own(lots, o)) \in Nat
    BY <1>2, OwnType
  <2>3. RemainderOf(o)' = Cardinality(Own(lots \o Lot(s, n), o))
    BY DEF RemainderOf
  <2>4. Spent(o)' = Spent(o)
    BY DEF Spent
  <2>5. Cardinality(Own(Lot(s, n), o)) = IF o = s THEN n ELSE 0
    BY <1>1
  <2> QED
    BY <2>1, <2>2, <2>3, <2>4, <2>5 DEF RemainderOf
<1>5. ASSUME NEW o \in Orders PROVE Together(o)'
  <2>1. Run(lots, o)
    BY DEF LotInv, Together, Run
  <2>2. CASE o # s
    BY <1>2, <2>1, <2>2, AfterKeeps DEF Together, Run
  <2>3. CASE o = s
    <3>1. RemainderOf(s) = 0
      BY <2>3 DEF LotInv, Unpaid
    <3>2. Own(lots, s) = {}
      BY <3>1, <1>2, OwnType DEF RemainderOf
    <3>3. Run(lots \o Lot(s, n), s)
      BY <3>2, <1>2, AfterKeeps
    <3> QED
      BY <3>3, <2>3 DEF Together, Run
  <2> QED
    BY <2>2, <2>3
<1>6. Oldest(lots')
  BY <1>2, AfterKeeps DEF LotInv
<1>7. lot' \in [Orders -> {"none", "active", "reversed"}]
  BY DEF LotInv
<1>8. ASSUME NEW o \in Orders, lot'[o] = "active" PROVE Sound(o)'
  <2>1. CASE o # s
    <3>1. lot[o] = "active"
      BY <2>1, <1>8 DEF LotInv
    <3> QED
      BY <2>1, <3>1, <1>4 DEF LotInv, Sound
  <2>2. CASE o = s
    <3>1. RemainderOf(s) = 0 /\ Spent(s) = 0 /\ n = Amount[s]
      BY <2>2 DEF LotInv, Unpaid
    <3>2. RemainderOf(s)' = n /\ Spent(s)' = 0
      BY <3>1, <1>4
    <3> QED
      BY <3>1, <3>2, <2>2 DEF Sound
  <2> QED
    BY <2>1, <2>2
<1>9. Unpaid'
  <2> SUFFICES ASSUME NEW o \in Orders, lot'[o] = "none"
               PROVE  RemainderOf(o)' = 0 /\ Spent(o)' = 0
    BY DEF Unpaid
  <2>1. o # s /\ lot[o] = "none"
    BY DEF LotInv
  <2> QED
    BY <2>1, <1>4 DEF LotInv, Unpaid
<1>10. AtOnce'
  <2>1. ASSUME NEW o \in Purchases PROVE RemainderOf(o)' = 0
    <3>1. o # s
      BY FundingAssumption
    <3>2. RemainderOf(o) = 0
      BY DEF LotInv, AtOnce
    <3> QED
      BY <3>1, <3>2, <1>4
  <2> QED
    BY <2>1 DEF AtOnce
<1>11. LegacySpentFirst'
  <2> SUFFICES ASSUME wallet' > Len(lots') \/ Own(lots', "legacy") # {},
                      NEW o \in Orders \ Purchases
               PROVE  Spent(o)' = 0
    BY DEF LegacySpentFirst
  <2>1. wallet' > Len(lots') => wallet > Len(lots)
    BY <1>2, <1>3
  <2>2. Own(lots', "legacy") # {} => Own(lots, "legacy") # {}
    <3>1. RemainderOf("legacy")' = RemainderOf("legacy")
      BY <1>4
    <3> QED
      BY <3>1, <1>2, <1>3, OwnType DEF RemainderOf
  <2>3. Spent(o) = 0
    BY <2>1, <2>2 DEF LotInv, LegacySpentFirst
  <2> QED
    BY <2>3, <1>4
<1>12. wallet' \in Nat /\ Len(lots') <= wallet'
  BY <1>2, <1>3 DEF LotInv
<1> QED
  BY <1>3, <1>5, <1>6, <1>7, <1>8, <1>9, <1>10, <1>11, <1>12 DEF LotInv

\* A purchase is spent at once on its own grant.
LEMMA PurchaseKeeps ==
    ASSUME LotInv, NEW o \in Orders, CreditPurchase(o)
    PROVE  LotInv'
<1>1. /\ o \in Purchases /\ lot[o] = "none" /\ lot' = [lot EXCEPT ![o] = "active"]
      /\ allocs' = [allocs EXCEPT ![o].minutes = Amount[o]]
      /\ wallet' = wallet /\ lots' = lots
  BY DEF CreditPurchase
<1>2. Amount[o] \in Nat \ {0}
  BY FundingAssumption
<1>3. PICK a \in [Targets -> Nat] : a = allocs[o]
  BY DEF LotInv
<1>4. PICK b : b = [a EXCEPT !["minutes"] = Amount[o]]
  OBVIOUS
<1>5. b \in [Targets -> Nat] /\ b["minutes"] = Amount[o]
      /\ b["service"] = a["service"] /\ b["admin"] = a["admin"]
  BY <1>2, <1>4 DEF Targets
<1>6. allocs' = [allocs EXCEPT ![o] = b]
  BY <1>1, <1>3, <1>4
<1>7. allocs' \in [Orders -> [Targets -> Nat]] /\ allocs'[o] = b
      /\ \A p \in Orders \ {o} : allocs'[p] = allocs[p]
  BY <1>5, <1>6 DEF LotInv
<1>8. Spent(o)' = Amount[o]
  <2>1. Spent(o) = 0
    BY <1>1 DEF LotInv, Unpaid
  <2>2. a["service"] \in Nat /\ a["minutes"] \in Nat /\ a["admin"] \in Nat
    BY DEF Targets
  <2>3. Spent(o) = a["service"] + a["minutes"] + a["admin"]
    BY <1>3 DEF Spent
  <2>4. a["service"] = 0 /\ a["admin"] = 0
    BY <2>1, <2>2, <2>3
  <2>5. Spent(o)' = b["service"] + b["minutes"] + b["admin"]
    BY <1>7 DEF Spent
  <2> QED
    BY <2>4, <2>5, <1>2, <1>5
<1>9. \A p \in Orders \ {o} : Spent(p)' = Spent(p)
  BY <1>7 DEF Spent
<1>10. \A p : RemainderOf(p)' = RemainderOf(p)
  BY <1>1 DEF RemainderOf
<1>11. lot' \in [Orders -> {"none", "active", "reversed"}] /\ lot'[o] = "active"
       /\ \A p \in Orders \ {o} : lot'[p] = lot[p]
  BY <1>1 DEF LotInv
<1>12. ASSUME NEW p \in Orders, lot'[p] = "active" PROVE Sound(p)'
  <2>1. CASE p = o
    <3>1. RemainderOf(o) = 0
      BY <1>1 DEF LotInv, AtOnce
    <3> QED
      BY <3>1, <2>1, <1>2, <1>8, <1>10 DEF Sound
  <2>2. CASE p # o
    BY <2>2, <1>9, <1>10, <1>11, <1>12 DEF LotInv, Sound
  <2> QED
    BY <2>1, <2>2
<1>13. Unpaid'
  BY <1>9, <1>10, <1>11 DEF LotInv, Unpaid
<1>14. AtOnce'
  BY <1>10 DEF LotInv, AtOnce
<1>15. LegacySpentFirst'
  BY <1>1, <1>9 DEF LotInv, LegacySpentFirst
<1>16. \A p \in Orders : Together(p)'
  BY <1>1 DEF LotInv, Together
<1> QED
  BY <1>1, <1>7, <1>11, <1>12, <1>13, <1>14, <1>15, <1>16 DEF LotInv

\* What a reversal takes from the wallet is all that is left of the lot.
LEMMA FromWalletAll ==
    ASSUME LotInv, NEW o \in Orders
    PROVE  /\ FromWallet(o) = RemainderOf(o) /\ RemainderOf(o) \in Nat
           /\ RemainderOf(o) <= Len(lots) /\ RemainderOf(o) <= wallet
<1>1. Cardinality(Own(lots, o)) \in Nat /\ Cardinality(Own(lots, o)) <= Len(lots)
      /\ Len(lots) \in Nat
  BY OwnType, LenProperties DEF LotInv
<1> QED
  BY <1>1 DEF LotInv, FromWallet, RemainderOf, Smaller

\* A reversal takes one order's cents out and leaves the others theirs.
LEMMA ReversalKeeps ==
    ASSUME LotInv, NEW o \in Orders, Reversal(o)
    PROVE  LotInv'
<1>1. /\ lot[o] = "active" /\ lot' = [lot EXCEPT ![o] = "reversed"]
      /\ wallet' = wallet - FromWallet(o) /\ lots' = Without(o) /\ allocs' = allocs
  BY DEF Reversal
<1>2. o # "legacy"
  BY FundingAssumption
<1>3. /\ lots' \in Seq(Sources) /\ Len(lots') = Len(lots) - RemainderOf(o)
      /\ Own(lots', o) = {}
      /\ \A p : p # o => /\ Cardinality(Own(lots', p)) = RemainderOf(p)
                         /\ Run(lots, p) => Run(lots', p)
      /\ Oldest(lots')
      /\ Own(lots', "legacy") # {} <=> Own(lots, "legacy") # {}
  <2>1. lots \in Seq(Sources) /\ Run(lots, o) /\ Oldest(lots)
    BY DEF LotInv, Together, Run
  <2> QED
    BY <2>1, <1>1, <1>2, WithoutKeeps
<1>4. /\ FromWallet(o) = RemainderOf(o) /\ RemainderOf(o) \in Nat
      /\ RemainderOf(o) <= wallet
  BY FromWalletAll
<1>5. Len(lots) \in Nat /\ wallet \in Nat /\ Len(lots) <= wallet
  BY LenProperties DEF LotInv
<1>6. wallet' \in Nat /\ Len(lots') <= wallet' /\ (wallet' > Len(lots') => wallet > Len(lots))
  BY <1>1, <1>3, <1>4, <1>5
<1>7. RemainderOf(o)' = 0 /\ \A p \in Orders \ {o} : RemainderOf(p)' = RemainderOf(p)
  BY <1>3, FS_EmptySet DEF RemainderOf
<1>8. \A p \in Orders : Spent(p)' = Spent(p)
  BY <1>1 DEF Spent
<1>9. lot' \in [Orders -> {"none", "active", "reversed"}] /\ lot'[o] = "reversed"
      /\ \A p \in Orders \ {o} : lot'[p] = lot[p]
  BY <1>1 DEF LotInv
<1>10. ASSUME NEW p \in Orders, lot'[p] = "active" PROVE Sound(p)'
  <2>1. p # o /\ lot[p] = "active"
    BY <1>9, <1>10
  <2> QED
    BY <2>1, <1>7, <1>8 DEF LotInv, Sound
<1>11. Unpaid'
  BY <1>7, <1>8, <1>9 DEF LotInv, Unpaid
<1>12. AtOnce'
  BY <1>7, FundingAssumption DEF LotInv, AtOnce
<1>13. LegacySpentFirst'
  BY <1>3, <1>6, <1>8 DEF LotInv, LegacySpentFirst
<1>14. ASSUME NEW p \in Orders PROVE Together(p)'
  <2>1. Run(lots', p)
    <3>1. CASE p = o
      BY <3>1, <1>3 DEF Run
    <3>2. CASE p # o
      BY <3>2, <1>3 DEF LotInv, Together, Run
    <3> QED
      BY <3>1, <3>2
  <2> QED
    BY <2>1 DEF Together, Run
<1>15. allocs' \in [Orders -> [Targets -> Nat]]
  BY <1>1 DEF LotInv
<1> QED
  BY <1>3, <1>6, <1>9, <1>10, <1>11, <1>12, <1>13, <1>14, <1>15 DEF LotInv

----------------------------------------------------------------------------
(* The steps.                                                               *)

\* The amounts of a reversal: what it recovers is really there, and what it
\* does not recover is owed.
LEMMA ReversalAmounts ==
    ASSUME LotInv, RestType, NEW o \in Orders, Sound(o)
    PROVE  /\ Amount[o] \in Nat /\ Recoverable(o) \in Nat /\ FromWallet(o) \in Nat
           /\ Recoverable(o) <= pool.bal
           /\ pool.owed <= pool.bal => Recoverable(o) <= pool.bal - pool.owed
           /\ FromWallet(o) + Recoverable(o) <= Amount[o]
<1>1. Amount[o] \in Nat
  BY FundingAssumption
<1>2. PICK a \in [Targets -> Nat] : a = allocs[o]
  BY DEF LotInv
<1>3. a["service"] \in Nat /\ a["minutes"] \in Nat /\ a["admin"] \in Nat
  BY DEF Targets
<1>4. Spent(o) = a["service"] + a["minutes"] + a["admin"]
  BY <1>2 DEF Spent
<1>5. pool.bal \in Nat /\ pool.owed \in Nat
  BY DEF RestType
<1>6. Recoverable(o) = Smaller(a["minutes"], Positive(pool.bal - pool.owed))
  BY <1>2 DEF Recoverable
<1>7. Recoverable(o) \in Nat /\ Recoverable(o) <= a["minutes"] /\ Recoverable(o) <= pool.bal
      /\ (pool.owed <= pool.bal => Recoverable(o) <= pool.bal - pool.owed)
  BY <1>3, <1>5, <1>6 DEF Smaller, Positive
<1>8. FromWallet(o) = RemainderOf(o) /\ RemainderOf(o) \in Nat
  BY FromWalletAll
<1>9. RemainderOf(o) + Spent(o) = Amount[o]
  BY DEF Sound
<1> QED
  BY <1>1, <1>3, <1>4, <1>7, <1>8, <1>9

\* A step that leaves queue, orders and allocations alone keeps what they say.
LEMMA LotStutter ==
    ASSUME LotInv, UNCHANGED <<wallet, lots, lot, allocs>>
    PROVE  LotInv'
BY DEF LotInv, Together, Sound, Spent, RemainderOf, Unpaid, AtOnce, Oldest, LegacySpentFirst

\* Nothing is paid, held or spent at first.
LEMMA FundInit ==
    ASSUME Init
    PROVE  FundInv
<1>1. /\ wallet = Legacy /\ lots = <<>> /\ lot = [o \in Orders |-> "none"]
      /\ allocs = [o \in Orders |-> [t \in Targets |-> 0]]
      /\ pool = [bal |-> 0, owed |-> 0, held |-> 0]
      /\ debts = [o \in Orders |-> [cents |-> 0, open |-> FALSE]] /\ holds = {}
      /\ used = [cents |-> 0, minutes |-> 0] /\ adjust = 0
  BY DEF Init
<1>2. Legacy \in Nat
  BY FundingAssumption
<1>3. lots \in Seq(Sources) /\ Len(lots) = 0
  BY <1>1, EmptySeq
<1>4. \A o : Own(lots, o) = {} /\ RemainderOf(o) = 0
  <2>1. ASSUME NEW o PROVE Own(lots, o) = {}
    BY <1>3, LenProperties DEF Own
  <2> QED
    BY <2>1, FS_EmptySet DEF RemainderOf
<1>5. \A o \in Orders : Spent(o) = 0
  <2>1. ASSUME NEW o \in Orders PROVE Spent(o) = 0
    <3>1. PICK a \in [Targets -> Nat] : a = allocs[o] /\ a = [t \in Targets |-> 0]
      BY <1>1
    <3>2. a["service"] = 0 /\ a["minutes"] = 0 /\ a["admin"] = 0
      BY <3>1 DEF Targets
    <3> QED
      BY <3>1, <3>2 DEF Spent
  <2> QED
    BY <2>1
<1>6. LotInv
  <2>1. wallet \in Nat /\ Len(lots) <= wallet
        /\ lot \in [Orders -> {"none", "active", "reversed"}]
        /\ allocs \in [Orders -> [Targets -> Nat]]
    BY <1>1, <1>2, <1>3
  <2>2. \A o \in Orders : Together(o) /\ lot[o] # "active"
    BY <1>1, <1>4 DEF Together
  <2>3. Oldest(lots) /\ LegacySpentFirst /\ Unpaid /\ AtOnce
    BY <1>4, <1>5, FundingAssumption DEF Oldest, LegacySpentFirst, Unpaid, AtOnce
  <2> QED
    BY <1>3, <2>1, <2>2, <2>3 DEF LotInv
<1>7. RestType
  BY <1>1 DEF RestType
<1>8. DebtFreezes
  BY <1>1 DEF DebtFreezes
<1> QED
  BY <1>6, <1>7, <1>8 DEF FundInv

\* Debts and holds move only in a reversal and in the two reviews.
LEMMA FreezeStutter ==
    ASSUME DebtFreezes, UNCHANGED <<debts, holds>>
    PROVE  DebtFreezes'
BY DEF DebtFreezes, Frozen

\* Every step of the ledger keeps the invariant.
LEMMA FundStep ==
    ASSUME FundInv, [Next]_vars
    PROVE  FundInv'
<1>0. LotInv /\ RestType /\ DebtFreezes
  BY DEF FundInv
<1>a. /\ wallet \in Nat /\ pool.bal \in Nat /\ pool.owed \in Nat /\ pool.held \in Nat
      /\ used.cents \in Nat /\ used.minutes \in Nat
  BY <1>0 DEF LotInv, RestType
<1>1. ASSUME NEW o \in Orders, Credit(o) PROVE FundInv'
  <2>1. LotInv'
    <3>1. /\ o \in Sources \ {"legacy"} /\ Amount[o] \in Nat /\ o \in Orders \ Purchases
          /\ lot[o] = "none" /\ wallet' = wallet + Amount[o]
          /\ lots' = lots \o Lot(o, Amount[o]) /\ allocs' = allocs
          /\ lot' = [lot EXCEPT ![o] = "active"]
      BY <1>1, FundingAssumption DEF Credit, Sources
    <3> QED
      BY <3>1, <1>0, AppendKeeps
  <2>2. RestType'
    BY <1>0, <1>1 DEF Credit, RestType
  <2>3. DebtFreezes'
    BY <1>0, <1>1, FreezeStutter DEF Credit
  <2> QED
    BY <2>1, <2>2, <2>3 DEF FundInv
<1>2. ASSUME NEW o \in Orders, CreditPurchase(o) PROVE FundInv'
  <2>1. LotInv'
    BY <1>0, <1>2, PurchaseKeeps
  <2>2. RestType'
    <3>1. Amount[o] \in Nat
      BY FundingAssumption
    <3> QED
      BY <3>1, <1>0, <1>2 DEF CreditPurchase, RestType
  <2>3. DebtFreezes'
    BY <1>0, <1>2, FreezeStutter DEF CreditPurchase
  <2> QED
    BY <2>1, <2>2, <2>3 DEF FundInv
<1>3. ASSUME NEW n \in 1 .. wallet, BuyMinutes(n) PROVE FundInv'
  <2>0. n \in Nat
    BY <1>a
  <2>1. LotInv'
    BY <1>0, <1>3, <2>0, AllocateKeeps DEF BuyMinutes, Targets
  <2>2. RestType'
    BY <1>0, <1>3, <2>0 DEF BuyMinutes, RestType
  <2>3. DebtFreezes'
    BY <1>0, <1>3, FreezeStutter DEF BuyMinutes
  <2> QED
    BY <2>1, <2>2, <2>3 DEF FundInv
<1>4. ASSUME NEW n \in 1 .. wallet, SpendOnService(n) PROVE FundInv'
  <2>0. n \in Nat
    BY <1>a
  <2>1. LotInv'
    BY <1>0, <1>4, <2>0, AllocateKeeps DEF SpendOnService, Targets
  <2>2. RestType'
    BY <1>0, <1>4, <2>0 DEF SpendOnService, RestType
  <2>3. DebtFreezes'
    BY <1>0, <1>4, FreezeStutter DEF SpendOnService
  <2> QED
    BY <2>1, <2>2, <2>3 DEF FundInv
<1>5. ASSUME NEW n \in 1 .. wallet, AdminDebit(n) PROVE FundInv'
  <2>0. n \in Nat
    BY <1>a
  <2>1. LotInv'
    BY <1>0, <1>5, <2>0, AllocateKeeps DEF AdminDebit, Targets
  <2>2. RestType'
    BY <1>0, <1>5, <2>0 DEF AdminDebit, RestType
  <2>3. DebtFreezes'
    BY <1>0, <1>5, FreezeStutter DEF AdminDebit
  <2> QED
    BY <2>1, <2>2, <2>3 DEF FundInv
<1>6. ASSUME NEW n \in 1 .. used.cents, RefundService(n) PROVE FundInv'
  <2>0. n \in Nat /\ n <= used.cents
    BY <1>a
  <2>1. LotInv'
    <3>1. "refund" \in Sources \ {"legacy"} /\ "refund" \notin Orders
      BY FundingAssumption DEF Sources
    <3> QED
      BY <3>1, <1>0, <1>6, <2>0, AppendKeeps DEF RefundService
  <2>2. RestType'
    <3>1. used.cents - n \in Nat
      BY <1>a, <2>0
    <3> QED
      BY <3>1, <1>0, <1>6 DEF RefundService, RestType
  <2>3. DebtFreezes'
    BY <1>0, <1>6, FreezeStutter DEF RefundService
  <2> QED
    BY <2>1, <2>2, <2>3 DEF FundInv
<1>7. ASSUME AdminCredit PROVE FundInv'
  <2>1. LotInv'
    <3>1. "admin" \in Sources \ {"legacy"} /\ "admin" \notin Orders /\ 1 \in Nat
      BY FundingAssumption DEF Sources
    <3> QED
      BY <3>1, <1>0, <1>7, AppendKeeps DEF AdminCredit
  <2>2. RestType'
    BY <1>0, <1>7 DEF AdminCredit, RestType
  <2>3. DebtFreezes'
    BY <1>0, <1>7, FreezeStutter DEF AdminCredit
  <2> QED
    BY <2>1, <2>2, <2>3 DEF FundInv
<1>8. ASSUME NewMonth PROVE FundInv'
  <2>1. LotInv'
    BY <1>0, <1>8, LotStutter DEF NewMonth
  <2>2. RestType'
    <3>1. Positive(pool.bal - pool.owed) \in Nat
      BY <1>a DEF Positive
    <3> QED
      BY <3>1, <1>0, <1>8 DEF NewMonth, RestType
  <2>3. DebtFreezes'
    BY <1>0, <1>8, FreezeStutter DEF NewMonth
  <2> QED
    BY <2>1, <2>2, <2>3 DEF FundInv
<1>9. ASSUME NEW n \in 0 .. pool.bal, Reserve(n) PROVE FundInv'
  <2>0. n \in Nat
    BY <1>a
  <2>1. LotInv'
    BY <1>0, <1>9, LotStutter DEF Reserve
  <2>2. RestType'
    BY <1>0, <1>9, <2>0 DEF Reserve, RestType
  <2>3. DebtFreezes'
    BY <1>0, <1>9, FreezeStutter DEF Reserve
  <2> QED
    BY <2>1, <2>2, <2>3 DEF FundInv
<1>10. ASSUME NEW n \in 0 .. pool.bal, Charge(n) PROVE FundInv'
  <2>0. n \in Nat
    BY <1>a
  <2>1. LotInv'
    BY <1>0, <1>10, LotStutter DEF Charge
  <2>2. RestType'
    <3>1. pool.owed + n \in Nat /\ used.minutes + n \in Nat
      BY <1>a, <2>0
    <3>2. pool' \in [bal : Nat, owed : Nat, held : Nat]
      BY <3>1, <1>0, <1>10 DEF Charge, RestType
    <3>3. used' \in [cents : Nat, minutes : Nat]
      BY <3>1, <1>0, <1>10 DEF Charge, RestType
    <3> QED
      BY <3>2, <3>3, <1>0, <1>10 DEF Charge, RestType
  <2>3. DebtFreezes'
    BY <1>0, <1>10, FreezeStutter DEF Charge
  <2> QED
    BY <2>1, <2>2, <2>3 DEF FundInv
<1>11. ASSUME NEW o \in Orders, Reversal(o) PROVE FundInv'
  <2>1. LotInv'
    BY <1>0, <1>11, ReversalKeeps
  <2>2. PICK debt : /\ debt = Amount[o] - FromWallet(o) - Recoverable(o)
                    /\ debts' = [debts EXCEPT ![o] = [cents |-> debt, open |-> debt > 0]]
                    /\ holds' = holds \cup IF debt > 0 THEN {o} ELSE {}
    BY <1>11 DEF Reversal
  <2>3. Sound(o) /\ pool' = [pool EXCEPT !.bal = @ - Recoverable(o)]
        /\ used' = used /\ adjust' = adjust
    BY <1>11 DEF Reversal
  <2>4. debt \in Nat /\ pool.bal - Recoverable(o) \in Nat
    BY <2>2, <2>3, <1>0, <1>a, ReversalAmounts
  <2>5. RestType'
    BY <2>2, <2>3, <2>4, <1>0 DEF RestType
  <2>6. DebtFreezes'
    <3> SUFFICES ASSUME NEW p \in Orders, debts'[p].open PROVE holds' # {}
      BY DEF DebtFreezes, Frozen
    <3>1. CASE p = o
      <4>1. debts'[o] = [cents |-> debt, open |-> debt > 0]
        BY <2>2, <1>0 DEF RestType
      <4>2. debts'[o].open = (debt > 0)
        BY <4>1
      <4>3. debt > 0
        BY <4>2, <3>1
      <4> QED
        BY <4>3, <2>2
    <3>2. CASE p # o
      BY <3>2, <2>2, <1>0 DEF RestType, DebtFreezes, Frozen
    <3> QED
      BY <3>1, <3>2
  <2> QED
    BY <2>1, <2>5, <2>6 DEF FundInv
<1>12. ASSUME NEW o \in Orders, SettleDebt(o) PROVE FundInv'
  <2>1. LotInv'
    BY <1>0, <1>12, LotStutter DEF SettleDebt
  <2>2. RestType'
    BY <1>0, <1>12 DEF SettleDebt, RestType
  <2>3. DebtFreezes'
    BY <1>0, <1>12 DEF SettleDebt, RestType, DebtFreezes, Frozen
  <2> QED
    BY <2>1, <2>2, <2>3 DEF FundInv
<1>13. ASSUME NEW o \in Orders, ReleaseHold(o) PROVE FundInv'
  <2>1. LotInv'
    BY <1>0, <1>13, LotStutter DEF ReleaseHold
  <2>2. RestType'
    BY <1>0, <1>13 DEF ReleaseHold, RestType
  <2>3. DebtFreezes'
    BY <1>13 DEF ReleaseHold, DebtFreezes
  <2> QED
    BY <2>1, <2>2, <2>3 DEF FundInv
<1>14. ASSUME UNCHANGED vars PROVE FundInv'
  <2>1. LotInv'
    BY <1>0, <1>14, LotStutter DEF vars
  <2>2. RestType' /\ DebtFreezes'
    BY <1>0, <1>14 DEF vars, RestType, DebtFreezes, Frozen
  <2> QED
    BY <2>1, <2>2 DEF FundInv
<1> QED
  BY <1>1, <1>2, <1>3, <1>4, <1>5, <1>6, <1>7, <1>8, <1>9, <1>10, <1>11, <1>12,
     <1>13, <1>14 DEF Next

\* The invariant holds of every behaviour, jobs in flight or not.
THEOREM FundHolds == Spec => []FundInv
<1>1. Init => FundInv
  BY FundInit
<1>2. FundInv /\ [Next]_vars => FundInv'
  BY FundStep
<1> QED
  BY <1>1, <1>2, PTL DEF Spec

\* The lots never claim more than the wallet holds, the cents of a lot keep
\* together, and what an order has left and has spent is what it brought, so
\* that no reversal has to be quarantined: for any number of payments.
THEOREM LotsSound == Spec => []FundingSound
<1>1. FundInv => FundingSound
  BY DEF FundInv, LotInv, RestType, FundingSound, TypeOK
<1> QED
  BY <1>1, FundHolds, PTL

\* Money older than the lots is spent before any payment's.
THEOREM OldestSpentFirst == Spec => []LegacySpentFirst
<1>1. FundInv => LegacySpentFirst
  BY DEF FundInv, LotInv
<1> QED
  BY <1>1, FundHolds, PTL

\* An account with an open debt is frozen, whichever reviews come in whichever
\* order.
THEOREM OwingFrozen == Spec => []DebtFreezes
<1>1. FundInv => DebtFreezes
  BY DEF FundInv
<1> QED
  BY <1>1, FundHolds, PTL

----------------------------------------------------------------------------
(* What all of it adds up to, where no job holds minutes while a payment is *)
(* reversed.                                                                *)

\* What the payment of each order still stands for.
Brought ==
    [o \in Orders |-> CASE lot[o] = "active" -> Amount[o]
                        [] lot[o] = "reversed" -> debts[o].cents
                        [] OTHER -> 0]

\* A job holds no minute that is not in the pool.
PoolCovers == pool.owed + pool.held <= pool.bal

MoneyInv == FundInv /\ PoolCovers /\ ValueAccounted

\* A total is a natural number, and changes with the term that changes.
LEMMA TotalType ==
    ASSUME NEW E, IsFiniteSet(E), NEW f \in [E -> Nat]
    PROVE  /\ IsFiniteSet(UNION {{x} \X (1 .. f[x]) : x \in E})
           /\ Total(f) = Cardinality(UNION {{x} \X (1 .. f[x]) : x \in E})
           /\ Total(f) \in Nat
<1> DEFINE Rows == {{x} \X (1 .. f[x]) : x \in E}
           row == [x \in E |-> {x} \X (1 .. f[x])]
<1>1. IsFiniteSet(Rows)
  <2>1. row \in Surjection(E, Rows)
    BY DEF Surjection
  <2> QED
    BY <2>1, FS_Surjection
<1>2. ASSUME NEW R \in Rows PROVE IsFiniteSet(R)
  <2>1. PICK x \in E : R = {x} \X (1 .. f[x])
    BY <1>2
  <2>2. IsFiniteSet({x})
    BY FS_Singleton
  <2>3. f[x] \in Int
    OBVIOUS
  <2>4. IsFiniteSet(1 .. f[x])
    BY <2>3, FS_Interval
  <2> QED
    BY <2>1, <2>2, <2>4, FS_Product
<1>3. IsFiniteSet(UNION Rows)
  BY <1>1, <1>2, FS_UNION
<1>4. DOMAIN f = E
  OBVIOUS
<1> QED
  BY <1>3, <1>4, FS_CardinalityType DEF Total

\* A total is one term and the total of the others.
LEMMA TotalSplit ==
    ASSUME NEW E, IsFiniteSet(E), NEW f \in [E -> Nat], NEW e \in E
    PROVE  /\ Total(f) = f[e] + Cardinality(UNION {{x} \X (1 .. f[x]) : x \in E \ {e}})
           /\ Cardinality(UNION {{x} \X (1 .. f[x]) : x \in E \ {e}}) \in Nat
<1> DEFINE All == UNION {{x} \X (1 .. f[x]) : x \in E}
           Rest == UNION {{x} \X (1 .. f[x]) : x \in E \ {e}}
           One == {e} \X (1 .. f[e])
<1>1. IsFiniteSet(All) /\ Total(f) = Cardinality(All)
  BY TotalType
<1>2. IsFiniteSet(One) /\ Cardinality(One) = f[e]
  <2>1. IsFiniteSet({e}) /\ Cardinality({e}) = 1
    BY FS_Singleton
  <2>2. f[e] \in Nat
    OBVIOUS
  <2>3. IsFiniteSet(1 .. f[e]) /\ Cardinality(1 .. f[e]) = f[e]
    BY <2>2, FS_Interval
  <2>4. Cardinality(One) = Cardinality({e}) * Cardinality(1 .. f[e]) /\ IsFiniteSet(One)
    BY <2>1, <2>3, FS_Product
  <2> QED
    BY <2>1, <2>2, <2>3, <2>4
<1>3. All = One \cup Rest
  <2>1. {{x} \X (1 .. f[x]) : x \in E} = {One} \cup {{x} \X (1 .. f[x]) : x \in E \ {e}}
    OBVIOUS
  <2> QED
    BY <2>1
<1>4. One \cap Rest = {}
  <2>1. ASSUME NEW p \in One, p \in Rest PROVE FALSE
    <3>1. PICK x \in E \ {e} : p \in {x} \X (1 .. f[x])
      BY <2>1
    <3>2. p[1] = x /\ p[1] = e
      BY <3>1, <2>1
    <3> QED
      BY <3>2
  <2> QED
    BY <2>1
<1>5. IsFiniteSet(Rest)
  BY <1>1, <1>3, FS_Subset
<1> HIDE DEF All, Rest, One
<1>6. Cardinality(One \cup Rest)
        = Cardinality(One) + Cardinality(Rest) - Cardinality(One \cap Rest)
  BY <1>2, <1>5, FS_Union
<1>7. Cardinality(One \cap Rest) = 0 /\ Cardinality(Rest) \in Nat
  BY <1>4, <1>5, FS_EmptySet, FS_CardinalityType
<1>8. Total(f) = f[e] + Cardinality(Rest)
  BY <1>1, <1>2, <1>3, <1>6, <1>7
<1> QED
  BY <1>7, <1>8 DEF Rest

\* Where one term changes, the total changes by as much.
LEMMA TotalChange ==
    ASSUME NEW E, IsFiniteSet(E), NEW f \in [E -> Nat], NEW g \in [E -> Nat], NEW e \in E,
           \A x \in E \ {e} : g[x] = f[x]
    PROVE  /\ Total(f) \in Nat /\ Total(g) \in Nat
           /\ Total(g) - g[e] = Total(f) - f[e]
<1>1. {{x} \X (1 .. f[x]) : x \in E \ {e}} = {{x} \X (1 .. g[x]) : x \in E \ {e}}
  OBVIOUS
<1> DEFINE r == Cardinality(UNION {{x} \X (1 .. f[x]) : x \in E \ {e}})
<1>2. Total(f) = f[e] + r /\ r \in Nat
  BY TotalSplit
<1>3. Total(g) = g[e] + Cardinality(UNION {{x} \X (1 .. g[x]) : x \in E \ {e}})
  BY TotalSplit
<1>4. Total(g) = g[e] + r
  BY <1>1, <1>3
<1>5. Total(f) \in Nat /\ Total(g) \in Nat /\ f[e] \in Nat /\ g[e] \in Nat
  BY TotalType
<1> HIDE DEF r
<1>6. Total(f) - f[e] = Total(g) - g[e]
  BY <1>2, <1>4, <1>5
<1> QED
  BY <1>5, <1>6

\* What each order brought is a natural number.
LEMMA BroughtType ==
    ASSUME LotInv, RestType
    PROVE  /\ Brought \in [Orders -> Nat]
           /\ \A o \in Orders :
                Brought[o] = IF lot[o] = "active" THEN Amount[o]
                             ELSE IF lot[o] = "reversed" THEN debts[o].cents ELSE 0
<1>1. \A o \in Orders : Amount[o] \in Nat /\ debts[o].cents \in Nat
  BY FundingAssumption DEF RestType
<1> QED
  BY <1>1 DEF Brought

\* The balance of the ledger in the terms of the invariant.
LEMMA Balance ==
    ValueAccounted <=>
      wallet + pool.bal - pool.owed + used.cents + used.minutes
        = Legacy + adjust + Total(Brought)
BY DEF ValueAccounted, Brought

\* A step that changes neither orders nor debts leaves what they brought.
LEMMA BroughtStutter ==
    ASSUME UNCHANGED <<lot, debts>>
    PROVE  Total(Brought)' = Total(Brought)
<1>1. Brought' = Brought
  BY DEF Brought
<1> QED
  BY <1>1 DEF Total

\* Nothing is there at first but the legacy.
LEMMA MoneyInit ==
    ASSUME Init
    PROVE  MoneyInv
<1>1. FundInv
  BY FundInit
<1>2. /\ wallet = Legacy /\ lot = [o \in Orders |-> "none"]
      /\ pool = [bal |-> 0, owed |-> 0, held |-> 0]
      /\ used = [cents |-> 0, minutes |-> 0] /\ adjust = 0
  BY DEF Init
<1>3. PoolCovers
  BY <1>2 DEF PoolCovers
<1>4. Brought \in [Orders -> Nat] /\ \A o \in Orders : Brought[o] = 0
  BY <1>1, <1>2, BroughtType DEF FundInv
<1>5. Total(Brought) = 0
  <2>1. Total(Brought) = Cardinality(UNION {{x} \X (1 .. Brought[x]) : x \in Orders})
    BY <1>4, FundingAssumption, TotalType
  <2>2. UNION {{x} \X (1 .. Brought[x]) : x \in Orders} = {}
    <3>1. ASSUME NEW x \in Orders PROVE {x} \X (1 .. Brought[x]) = {}
      BY <1>4
    <3> QED
      BY <3>1
  <2> QED
    BY <2>1, <2>2, FS_EmptySet
<1>6. Legacy \in Nat
  BY FundingAssumption
<1>7. ValueAccounted
  BY <1>2, <1>5, <1>6, Balance
<1> QED
  BY <1>1, <1>3, <1>7 DEF MoneyInv

\* Every step gives and takes the same, where no job is in flight when a
\* payment is reversed.
LEMMA MoneyStep ==
    ASSUME ~InFlight, MoneyInv, [Next]_vars
    PROVE  MoneyInv'
<1>0. FundInv /\ LotInv /\ RestType /\ PoolCovers /\ ValueAccounted
  BY DEF MoneyInv, FundInv
<1>a. FundInv'
  BY <1>0, FundStep
<1>b. /\ wallet \in Nat /\ pool.bal \in Nat /\ pool.owed \in Nat /\ pool.held \in Nat
      /\ used.cents \in Nat /\ used.minutes \in Nat /\ adjust \in Int /\ Legacy \in Nat
      /\ Total(Brought) \in Nat
  BY <1>0, BroughtType, TotalType, FundingAssumption DEF LotInv, RestType
<1>c. wallet + pool.bal - pool.owed + used.cents + used.minutes
        = Legacy + adjust + Total(Brought)
  BY <1>0, Balance
<1>d. pool.owed + pool.held <= pool.bal
  BY <1>0 DEF PoolCovers
<1>e. IsFiniteSet(Orders)
  BY FundingAssumption
<1>f. /\ Brought \in [Orders -> Nat] /\ Brought' \in [Orders -> Nat]
      /\ \A o \in Orders :
           Brought[o] = IF lot[o] = "active" THEN Amount[o]
                        ELSE IF lot[o] = "reversed" THEN debts[o].cents ELSE 0
      /\ \A o \in Orders :
           Brought'[o] = IF lot'[o] = "active" THEN Amount[o]
                         ELSE IF lot'[o] = "reversed" THEN debts'[o].cents ELSE 0
  <2>1. LotInv' /\ RestType'
    BY <1>a DEF FundInv
  <2>2. /\ Brought \in [Orders -> Nat]
        /\ \A o \in Orders :
             Brought[o] = IF lot[o] = "active" THEN Amount[o]
                          ELSE IF lot[o] = "reversed" THEN debts[o].cents ELSE 0
    BY <1>0, BroughtType
  <2>3. \A o \in Orders : Amount[o] \in Nat /\ debts'[o].cents \in Nat
    BY <2>1, FundingAssumption DEF RestType
  <2>4. /\ Brought' \in [Orders -> Nat]
        /\ \A o \in Orders :
             Brought'[o] = IF lot'[o] = "active" THEN Amount[o]
                           ELSE IF lot'[o] = "reversed" THEN debts'[o].cents ELSE 0
    BY <2>3 DEF Brought
  <2> QED
    BY <2>2, <2>4
<1> DEFINE Covers == pool'.owed + pool'.held <= pool'.bal
           Even == wallet' + pool'.bal - pool'.owed + used'.cents + used'.minutes
                     = Legacy + adjust' + Total(Brought')
<1>g. SUFFICES Covers /\ Even
  <2>1. Total(Brought)' = Total(Brought')
    BY DEF Total
  <2>2. Even => ValueAccounted'
    BY DEF ValueAccounted, Brought
  <2>3. Covers => PoolCovers'
    BY DEF PoolCovers
  <2> QED
    BY <2>2, <2>3, <1>a DEF MoneyInv
<1>h. UNCHANGED <<lot, debts>> => Total(Brought') = Total(Brought)
  <2>1. UNCHANGED <<lot, debts>> => Brought' = Brought
    BY DEF Brought
  <2> QED
    BY <2>1
<1>i. ASSUME NEW o \in Orders, lot[o] = "none", lot' = [lot EXCEPT ![o] = "active"],
             debts' = debts
      PROVE  Total(Brought') = Total(Brought) + Amount[o] /\ Amount[o] \in Nat
  <2>1. lot'[o] = "active" /\ \A p \in Orders \ {o} : lot'[p] = lot[p]
    BY <1>i, <1>0 DEF LotInv
  <2>2. Brought[o] = 0 /\ Brought'[o] = Amount[o] /\ Amount[o] \in Nat
    BY <1>i, <2>1, <1>f, FundingAssumption
  <2>3. \A p \in Orders \ {o} : Brought'[p] = Brought[p]
    BY <1>i, <2>1, <1>f
  <2>4. /\ Total(Brought) \in Nat /\ Total(Brought') \in Nat
        /\ Total(Brought') - Brought'[o] = Total(Brought) - Brought[o]
    BY <2>3, <1>e, <1>f, TotalChange
  <2> QED
    BY <2>2, <2>4
<1>1. ASSUME NEW o \in Orders, Credit(o) PROVE Covers /\ Even
  <2>1. /\ wallet' = wallet + Amount[o] /\ pool' = pool /\ used' = used /\ adjust' = adjust
        /\ lot[o] = "none" /\ lot' = [lot EXCEPT ![o] = "active"] /\ debts' = debts
    BY <1>1 DEF Credit
  <2>2. Total(Brought') = Total(Brought) + Amount[o] /\ Amount[o] \in Nat
    BY <2>1, <1>i
  <2> QED
    BY <2>1, <2>2, <1>b, <1>c, <1>d
<1>2. ASSUME NEW o \in Orders, CreditPurchase(o) PROVE Covers /\ Even
  <2>1. /\ wallet' = wallet /\ pool' = [pool EXCEPT !.bal = @ + Amount[o]]
        /\ used' = used /\ adjust' = adjust
        /\ lot[o] = "none" /\ lot' = [lot EXCEPT ![o] = "active"] /\ debts' = debts
    BY <1>2 DEF CreditPurchase
  <2>2. Total(Brought') = Total(Brought) + Amount[o] /\ Amount[o] \in Nat
    BY <2>1, <1>i
  <2>3. pool'.bal = pool.bal + Amount[o] /\ pool'.owed = pool.owed /\ pool'.held = pool.held
    BY <2>1, <1>0 DEF RestType
  <2>4. wallet' = wallet /\ used' = used /\ adjust' = adjust
    BY <2>1
  <2>5. PICK n \in Nat : n = Amount[o]
    BY <2>2
  <2>6. Total(Brought') = Total(Brought) + n /\ pool'.bal = pool.bal + n
        /\ pool'.owed = pool.owed /\ pool'.held = pool.held
    BY <2>2, <2>3, <2>5
  <2>7. Covers
    BY <2>6, <1>b, <1>d
  <2>8. Even
    <3>1. wallet' + pool'.bal - pool'.owed + used'.cents + used'.minutes
            = wallet + pool.bal + n - pool.owed + used.cents + used.minutes
      BY <2>4, <2>6, <1>b
    <3>2. Legacy + adjust' + Total(Brought') = Legacy + adjust + Total(Brought) + n
      BY <2>4, <2>6, <1>b
    <3> QED
      BY <3>1, <3>2, <1>b, <1>c
  <2> QED
    BY <2>7, <2>8
<1>3. ASSUME NEW n \in 1 .. wallet, BuyMinutes(n) PROVE Covers /\ Even
  <2>1. /\ wallet' = wallet - n /\ pool' = [pool EXCEPT !.bal = @ + n]
        /\ used' = used /\ adjust' = adjust /\ lot' = lot /\ debts' = debts /\ n \in Nat
    BY <1>3, <1>b DEF BuyMinutes, Allocate
  <2>2. pool'.bal = pool.bal + n /\ pool'.owed = pool.owed /\ pool'.held = pool.held
    BY <2>1, <1>0 DEF RestType
  <2> QED
    BY <2>1, <2>2, <1>b, <1>c, <1>d, <1>h
<1>4. ASSUME NEW n \in 1 .. wallet, SpendOnService(n) PROVE Covers /\ Even
  <2>1. /\ wallet' = wallet - n /\ pool' = pool /\ used' = [used EXCEPT !.cents = @ + n]
        /\ adjust' = adjust /\ lot' = lot /\ debts' = debts /\ n \in Nat
    BY <1>4, <1>b DEF SpendOnService, Allocate
  <2>2. used'.cents = used.cents + n /\ used'.minutes = used.minutes
    BY <2>1, <1>0 DEF RestType
  <2> QED
    BY <2>1, <2>2, <1>b, <1>c, <1>d, <1>h
<1>5. ASSUME NEW n \in 1 .. wallet, AdminDebit(n) PROVE Covers /\ Even
  <2>1. /\ wallet' = wallet - n /\ pool' = pool /\ used' = used
        /\ adjust' = adjust - n /\ lot' = lot /\ debts' = debts /\ n \in Nat
    BY <1>5, <1>b DEF AdminDebit, Allocate
  <2> QED
    BY <2>1, <1>b, <1>c, <1>d, <1>h
<1>6. ASSUME NEW n \in 1 .. used.cents, RefundService(n) PROVE Covers /\ Even
  <2>1. /\ wallet' = wallet + n /\ pool' = pool /\ used' = [used EXCEPT !.cents = @ - n]
        /\ adjust' = adjust /\ lot' = lot /\ debts' = debts /\ n \in Nat
    BY <1>6, <1>b DEF RefundService
  <2>2. used'.cents = used.cents - n /\ used'.minutes = used.minutes
    BY <2>1, <1>0 DEF RestType
  <2> QED
    BY <2>1, <2>2, <1>b, <1>c, <1>d, <1>h
<1>7. ASSUME AdminCredit PROVE Covers /\ Even
  <2>1. /\ wallet' = wallet + 1 /\ pool' = pool /\ used' = used
        /\ adjust' = adjust + 1 /\ lot' = lot /\ debts' = debts
    BY <1>7 DEF AdminCredit
  <2> QED
    BY <2>1, <1>b, <1>c, <1>d, <1>h
<1>8. ASSUME NewMonth PROVE Covers /\ Even
  <2>1. /\ wallet' = wallet /\ used' = used /\ adjust' = adjust /\ lot' = lot /\ debts' = debts
        /\ pool' = [pool EXCEPT !.bal = Positive(@ - pool.owed), !.owed = 0]
    BY <1>8 DEF NewMonth
  <2>2. Positive(pool.bal - pool.owed) = pool.bal - pool.owed
    BY <1>b, <1>d DEF Positive
  <2>3. pool'.bal = pool.bal - pool.owed /\ pool'.owed = 0 /\ pool'.held = pool.held
    BY <2>1, <2>2, <1>0 DEF RestType
  <2> QED
    BY <2>1, <2>3, <1>b, <1>c, <1>d, <1>h
<1>9. ASSUME NEW n \in 0 .. pool.bal, Reserve(n) PROVE Covers /\ Even
  <2>1. /\ wallet' = wallet /\ used' = used /\ adjust' = adjust /\ lot' = lot /\ debts' = debts
        /\ pool' = [pool EXCEPT !.held = n] /\ n \in 1 .. pool.bal - pool.owed
    BY <1>9 DEF Reserve
  <2>2. pool'.bal = pool.bal /\ pool'.owed = pool.owed /\ pool'.held = n
    BY <2>1, <1>0 DEF RestType
  <2> QED
    BY <2>1, <2>2, <1>b, <1>c, <1>d, <1>h
<1>10. ASSUME NEW n \in 0 .. pool.bal, Charge(n) PROVE Covers /\ Even
  <2>1. /\ wallet' = wallet /\ adjust' = adjust /\ lot' = lot /\ debts' = debts
        /\ pool' = [pool EXCEPT !.owed = @ + n, !.held = 0]
        /\ used' = [used EXCEPT !.minutes = @ + n] /\ n \in 0 .. pool.held
    BY <1>10 DEF Charge
  <2>2. pool'.bal = pool.bal /\ pool'.owed = pool.owed + n /\ pool'.held = 0
    BY <2>1, <1>0 DEF RestType
  <2>3. used'.cents = used.cents /\ used'.minutes = used.minutes + n
    BY <2>1, <1>0 DEF RestType
  <2> QED
    BY <2>1, <2>2, <2>3, <1>b, <1>c, <1>d, <1>h
<1>11. ASSUME NEW o \in Orders, Reversal(o) PROVE Covers /\ Even
  <2>1. PICK debt : /\ debt = Amount[o] - FromWallet(o) - Recoverable(o)
                    /\ debts' = [debts EXCEPT ![o] = [cents |-> debt, open |-> debt > 0]]
    BY <1>11 DEF Reversal
  <2>2. /\ Sound(o) /\ pool.held = 0 /\ lot[o] = "active"
        /\ wallet' = wallet - FromWallet(o)
        /\ pool' = [pool EXCEPT !.bal = @ - Recoverable(o)]
        /\ lot' = [lot EXCEPT ![o] = "reversed"]
        /\ used' = used /\ adjust' = adjust
    BY <1>11 DEF Reversal
  <2>3. /\ Amount[o] \in Nat /\ Recoverable(o) \in Nat /\ FromWallet(o) \in Nat
        /\ pool.owed <= pool.bal => Recoverable(o) <= pool.bal - pool.owed
    BY <2>2, <1>0, ReversalAmounts
  <2>4. pool'.bal = pool.bal - Recoverable(o) /\ pool'.owed = pool.owed /\ pool'.held = 0
    BY <2>2, <1>0 DEF RestType
  <2>5. /\ lot'[o] = "reversed" /\ debts'[o].cents = debt
        /\ \A p \in Orders \ {o} : lot'[p] = lot[p] /\ debts'[p] = debts[p]
    BY <2>1, <2>2, <1>0 DEF LotInv, RestType
  <2>6. Brought[o] = Amount[o] /\ Brought'[o] = debt
    BY <2>2, <2>5, <1>f
  <2>7. \A p \in Orders \ {o} : Brought'[p] = Brought[p]
    BY <2>5, <1>f
  <2>8. /\ Total(Brought') \in Nat
        /\ Total(Brought') - Brought'[o] = Total(Brought) - Brought[o]
    BY <2>7, <1>e, <1>f, TotalChange
  <2>9. PICK all \in Nat, cash \in Nat, pooled \in Nat :
          all = Amount[o] /\ cash = FromWallet(o) /\ pooled = Recoverable(o)
    BY <2>3
  <2>10. debt = all - cash - pooled
    BY <2>1, <2>9
  <2>11. Total(Brought') = Total(Brought) - cash - pooled
    BY <2>6, <2>8, <2>9, <2>10, <1>b
  <2>12. wallet' = wallet - cash /\ used' = used /\ adjust' = adjust
         /\ pool'.bal = pool.bal - pooled /\ pool'.owed = pool.owed /\ pool'.held = 0
    BY <2>2, <2>4, <2>9
  <2>13. Covers
    BY <2>3, <2>9, <2>12, <1>b, <1>d
  <2>14. Even
    BY <2>11, <2>12, <1>b, <1>c
  <2> QED
    BY <2>13, <2>14
<1>12. ASSUME NEW o \in Orders, SettleDebt(o) PROVE Covers /\ Even
  <2>1. /\ wallet' = wallet /\ pool' = pool /\ used' = used /\ adjust' = adjust /\ lot' = lot
        /\ debts' = [debts EXCEPT ![o].open = FALSE]
    BY <1>12 DEF SettleDebt
  <2>2. \A p \in Orders : debts'[p].cents = debts[p].cents
    BY <2>1, <1>0 DEF RestType
  <2>3. Brought' = Brought
    BY <2>1, <2>2, <1>f
  <2> QED
    BY <2>1, <2>3, <1>b, <1>c, <1>d
<1>13. ASSUME NEW o \in Orders, ReleaseHold(o) PROVE Covers /\ Even
  <2>1. /\ wallet' = wallet /\ pool' = pool /\ used' = used /\ adjust' = adjust
        /\ lot' = lot /\ debts' = debts
    BY <1>13 DEF ReleaseHold
  <2> QED
    BY <2>1, <1>b, <1>c, <1>d, <1>h
<1>14. ASSUME UNCHANGED vars PROVE Covers /\ Even
  <2>1. /\ wallet' = wallet /\ pool' = pool /\ used' = used /\ adjust' = adjust
        /\ lot' = lot /\ debts' = debts
    BY <1>14 DEF vars
  <2> QED
    BY <2>1, <1>b, <1>c, <1>d, <1>h
<1> HIDE DEF Covers, Even
<1> QED
  BY <1>1, <1>2, <1>3, <1>4, <1>5, <1>6, <1>7, <1>8, <1>9, <1>10, <1>11, <1>12,
     <1>13, <1>14 DEF Next

\* No value appears or disappears: what the user has and has consumed is what
\* was there, what was given, what the payments that stand brought and what is
\* owed for those that do not.
THEOREM NothingFromNothing ==
    ASSUME ~InFlight
    PROVE  Spec => []ValueAccounted
<1>1. Init => MoneyInv
  BY MoneyInit
<1>2. MoneyInv /\ [Next]_vars => MoneyInv'
  BY MoneyStep
<1>3. MoneyInv => ValueAccounted
  BY DEF MoneyInv
<1> QED
  BY <1>1, <1>2, <1>3, PTL DEF Spec

=============================================================================
