--------------------------- MODULE AuthSessionProofs ---------------------------
(***************************************************************************)
(* Proofs about AuthSession for every number of users, families, tabs,       *)
(* operations, password changes, rotations and faults: what the server keeps *)
(* of a token family, what the browser has to end, and that no request goes  *)
(* out as another account.                                                  *)
(***************************************************************************)
EXTENDS AuthSession, FiniteSetTheorems, TLAPS

\* A leaf that names a family is one of a user's, and no newer than what the server has.
GoodLeaf(l) ==
    l.fam # None => /\ l.user # None /\ fam[l.fam].status # "unborn"
                    /\ l.tv <= tv[l.user]
                    /\ Live(l.fam) => l.gen <= fam[l.fam].gen
Known(f) == f # None => fam[f].status # "unborn"

\* So is what is stored, shown and to be ended.
AllKnown ==
    /\ Known(store.fam) /\ \A t \in Tabs : Known(tab[t].fam)
    /\ \A f \in pending \cup ended : Known(f)

\* A leaf carries the version that its password was checked at, but where a change was overtaken.
Dated(l) == l.tv = l.by \/ l.late

\* What an operation can be at: its kind, its tab, and what it has found out.
Shape(v) ==
    /\ v.pc \in {"verify", "user", "rotate", "reuse"} => v.kind = "refresh"
    /\ v.pc \in {"read", "issue", "switch"} => v.kind = "login"
    /\ v.pc \in {"check", "password", "change"} => v.kind = "change"
    /\ v.pc \in {"reply", "body"} => v.kind \in Mutations
    /\ v.pc \in {"send", "denied"} => v.kind = "request"
    /\ v.kind = "logout" <=> v.pc \in {"wait", "revoke"}
    /\ v.tab = None => v.pc \in AtServer \cup {"idle"}
    /\ v.pc \in {"verify", "user", "rotate"} => v.leaf.gen < MaxGen
    /\ v.pc \in {"user", "rotate", "reuse", "password", "change", "switch"} => v.leaf.fam # None
    /\ v.pc \in {"reply", "body"} /\ v.ans = "ok" => v.leaf.fam # None
    /\ v.pc \in {"read", "issue"} => v.leaf.user # None /\ v.leaf.fam = None /\ v.leaf.gen = 0
    /\ v.kind = "change" /\ v.tab # None /\ v.pc \in AtServer \cup {"body"} => v.exp.user # None
    /\ v.pc # "change" => Dated(v.leaf)

\* What it holds of the server is born there and not from its future, and a family whose
\* logout was answered is over.
Sound(v) ==
    /\ v.pc # "undo" => GoodLeaf(v.leaf)
    /\ Known(v.leaf.fam) /\ Known(v.exp.fam) /\ \A f \in v.left : Known(f)
    /\ v.pc = "issue" => v.leaf.tv <= tv[v.leaf.user]
    /\ v.kind = "logout" /\ v.ans = "ok" => ~Live(v.exp.fam)

\* A refresh that its tab stopped waiting for is lost; one that the tab waits for has
\* the family's last leaf, unless the family is lost or over.
Presents(v) == v.pc \in {"verify", "user", "rotate"} \/ (v.pc = "reply" /\ v.ans = "ok")
Fresh(v) ==
    /\ v.kind = "refresh" /\ v.tab = None /\ v.leaf.fam # None => v.leaf.fam \in lost
    /\ v.pc = "reuse" /\ Live(v.leaf.fam) => v.leaf.fam \in lost
    /\ v.tab # None /\ Presents(v) /\ Live(v.leaf.fam) =>
         v.leaf.fam \in lost \/ v.leaf.gen = fam[v.leaf.fam].gen

\* An operation that has the lock has it alone.
Locked(v) == v.tab # None /\ v.pc \in Exclusive
Mutex == \A o, x \in Ops : Locked(op[o]) /\ Locked(op[x]) => o = x

\* The leaf in the cookie is the family's last one, or the answer with that is on its way.
Brings(v) == v.tab # None /\ v.pc = "reply" /\ v.ans = "ok" /\ v.kind = "refresh"
CookieFresh ==
    Live(cookie.fam) => \/ cookie.fam \in lost
                        \/ cookie.gen = fam[cookie.fam].gen
                        \/ \E o \in Ops : Brings(op[o]) /\ op[o].leaf.fam = cookie.fam

\* The password can be changed as often as changes are under way.
Changers == {o \in Ops : op[o].pc \in {"check", "password", "change"}}
VersionRoom == \A u \in Users : tv[u] + Cardinality(Changers) <= MaxVersion

\* The inductive invariant of the server's side.
ServerInv ==
    /\ TypeOK
    /\ \A o \in Ops : Shape(op[o]) /\ Sound(op[o]) /\ Fresh(op[o])
    /\ GoodLeaf(cookie) /\ Dated(cookie)
    /\ Known(store.fam) /\ \A t \in Tabs : Known(tab[t].fam)
    /\ \A f \in pending \cup ended : Known(f)
    /\ \A f \in Families : fam[f].status = "unborn" => fam[f].gen = 0
    /\ VersionRoom /\ Mutex /\ CookieFresh
    /\ ReuseOnlyAfterLoss /\ EndedOrPending

\* While an operation has the lock, the stored account is the one its tab shows, or none.
Holds(v) ==
    Locked(v) /\ store.user # None =>
        /\ v.fresh /\ tab[v.tab] = store
        /\ v.pc \in AtServer \cup {"body"} => store = v.exp
\* A new session's leaf is in the cookie until its tab has taken it over.
Carries(v) ==
    v.tab # None /\ ((v.pc = "body" /\ v.ans = "ok") \/ v.pc = "switch") => cookie = v.leaf
\* What is not a login has a leaf of the account that it was begun for, or of none.
SameUser(v) ==
    /\ v.tab # None /\ v.kind # "login" /\ v.pc \in AtServer \cup {"send", "body"} =>
         (v.exp.user # None /\ Strict(v.leaf) => v.leaf.user = v.exp.user)
    /\ v.tab # None /\ v.pc \in {"password", "change"} => v.leaf.user = v.exp.user
\* A login that has its cookie and has not put its account in place of the old one.
Between(v) ==
    v.tab # None /\ v.kind = "login" /\ ((v.pc = "body" /\ v.ans = "ok") \/ v.pc = "undo")
CookieUser ==
    store.user # None /\ Strict(cookie) =>
        cookie.user = store.user \/ \E o \in Ops : Between(op[o])

\* The inductive invariant of the browser's side.
BrowserInv ==
    /\ \A o \in Ops : Holds(op[o]) /\ Carries(op[o]) /\ SameUser(op[o])
    /\ CookieUser

----------------------------------------------------------------------------
\* What the names stand for.
LEMMA Names ==
    /\ None \notin Users /\ None \notin Families /\ None \notin Tabs
    /\ None \notin Mutations \cup {"request", "logout"}
    /\ None \notin {"ok", "refused", "unauthorized", "flying", "failed"}
    /\ MaxVersion \in Nat /\ MaxGen \in Nat /\ MaxFaults \in Nat /\ IsFiniteSet(Ops)
    /\ user0 \in Users /\ family0 \in Families
  BY AuthAssumption DEF Mutations

\* The places an operation can be at.
Pcs == Exclusive \cup Shared \cup {"idle", "wait", "forget", "wipe", "denied"}
\* They are these.
LEMMA Places ==
    Pcs = {"verify", "user", "rotate", "reuse", "read", "issue", "check", "password", "change",
           "reply", "body", "switch", "undo", "revoke", "send", "idle", "wait", "forget", "wipe", "denied"}
  BY DEF Pcs, Exclusive, AtServer, Shared

\* What nobody has.
LEMMA Nothing ==
    /\ NoLeaf \in LeafType /\ NoLeaf.fam = None /\ NoLeaf.user = None
    /\ NoLeaf.gen = 0 /\ NoLeaf.tv = 0 /\ NoLeaf.by = 0 /\ Dated(NoLeaf)
    /\ Nobody \in BoundaryType /\ Nobody.user = None /\ Nobody.fam = None
    /\ Idle \in OpType /\ Idle.pc = "idle" /\ Idle.kind = None /\ Idle.tab = None
    /\ Idle.exp = Nobody /\ ~Idle.fresh /\ Idle.leaf = NoLeaf /\ Idle.ans = None /\ Idle.left = {}
    /\ ~Live(None)
<1>1. 0 \in 0..MaxGen /\ 0 \in 0..MaxVersion
  BY Names
<1>2. NoLeaf \in LeafType /\ Nobody \in BoundaryType
  BY <1>1 DEF NoLeaf, LeafType, Nobody, BoundaryType
<1>3. Idle \in OpType
  BY <1>2 DEF Idle, OpType
<1> QED
  BY <1>2, <1>3 DEF NoLeaf, Nobody, Idle, Live, Dated

\* One operation has a new record.
LEMMA Takes ==
    ASSUME TypeOK, NEW o \in Ops, NEW u \in OpType, op' = [op EXCEPT ![o] = u]
    PROVE  /\ op' \in [Ops -> OpType] /\ op'[o] = u
           /\ \A x \in Ops \ {o} : op'[x] = op[x]
  BY DEF TypeOK

\* It goes on.
LEMMA StepTakes ==
    ASSUME TypeOK, NEW o \in Ops, NEW pc \in Pcs, Step(o, pc)
    PROVE  /\ op'[o] = [op[o] EXCEPT !.pc = pc] /\ op'[o] \in OpType
           /\ op' = [op EXCEPT ![o] = op'[o]]
           /\ op'[o].pc = pc /\ op'[o].kind = op[o].kind /\ op'[o].tab = op[o].tab
           /\ op'[o].exp = op[o].exp /\ op'[o].fresh = op[o].fresh /\ op'[o].leaf = op[o].leaf
           /\ op'[o].ans = op[o].ans /\ op'[o].left = op[o].left
<1>1. PICK v \in OpType : v = op[o]
  BY DEF TypeOK
<1>2. PICK u : u = [v EXCEPT !.pc = pc]
  OBVIOUS
<1>3. /\ u \in OpType /\ u.pc = pc /\ u.kind = v.kind /\ u.tab = v.tab /\ u.exp = v.exp
      /\ u.fresh = v.fresh /\ u.leaf = v.leaf /\ u.ans = v.ans /\ u.left = v.left
  BY <1>2 DEF OpType, Pcs
<1>4. op' = [op EXCEPT ![o] = u]
  BY <1>1, <1>2 DEF Step
<1> QED
  BY <1>1, <1>2, <1>3, <1>4 DEF TypeOK

\* It has its answer from the server, without a leaf.
LEMMA AnswersTakes ==
    ASSUME TypeOK, NEW o \in Ops, NEW a \in {"refused", "unauthorized"}, Answers(o, a)
    PROVE  /\ op'[o] \in OpType /\ op' = [op EXCEPT ![o] = op'[o]]
           /\ op'[o].pc = "reply" /\ op'[o].kind = op[o].kind /\ op'[o].tab = op[o].tab
           /\ op'[o].exp = op[o].exp /\ op'[o].fresh = op[o].fresh /\ op'[o].leaf = NoLeaf
           /\ op'[o].ans = a /\ op'[o].left = op[o].left
<1>1. PICK v \in OpType : v = op[o]
  BY DEF TypeOK
<1>2. PICK u : u = [v EXCEPT !.pc = "reply", !.ans = a, !.leaf = NoLeaf]
  OBVIOUS
<1>3. /\ u \in OpType /\ u.pc = "reply" /\ u.kind = v.kind /\ u.tab = v.tab /\ u.exp = v.exp
      /\ u.fresh = v.fresh /\ u.leaf = NoLeaf /\ u.ans = a /\ u.left = v.left
  BY <1>2, Nothing DEF OpType, Exclusive, AtServer
<1>4. op' = [op EXCEPT ![o] = u]
  BY <1>1, <1>2 DEF Answers
<1> QED
  BY <1>1, <1>3, <1>4 DEF TypeOK

----------------------------------------------------------------------------
\* An operation that is where it was, in a tab that may have moved on.
Agrees(w, v) ==
    /\ w.pc = v.pc /\ w.kind = v.kind /\ w.tab = v.tab /\ w.exp = v.exp /\ w.leaf = v.leaf
    /\ w.ans = v.ans /\ w.left = v.left
    /\ w.fresh => v.fresh
\* Versions and leaves only go up, a family is born once and ends once.
Grows ==
    /\ \A u \in Users : tv'[u] >= tv[u]
    /\ \A f \in Families :
         /\ fam'[f].status = "unborn" => fam[f].status = "unborn"
         /\ Live(f)' => fam[f].status = "unborn" \/ (Live(f) /\ fam'[f].gen >= fam[f].gen)
    /\ lost \subseteq lost'
\* What was live has its leaf still, or is lost.
GensStay ==
    \A f \in Families : Live(f)' /\ fam[f].status # "unborn" =>
        fam'[f].gen = fam[f].gen \/ f \in lost'

\* A step that is not the server's.
LEMMA ServerStays ==
    ASSUME TypeOK, UNCHANGED <<tv, fam>>, lost \subseteq lost'
    PROVE  Grows /\ GensStay
<1>1. \A f \in Families : fam[f].gen \in 0..MaxGen
  BY DEF TypeOK, FamType
<1>2. \A u \in Users : tv[u] \in 0..MaxVersion
  BY DEF TypeOK
<1> QED
  BY <1>1, <1>2 DEF Grows, GensStay, Live

\* What was born is born.
LEMMA KnownKept ==
    ASSUME Grows, NEW f \in Families \cup {None}, Known(f)
    PROVE  Known(f)'
  BY DEF Grows, Known

\* A leaf that was no longer accepted is never accepted again.
LEMMA GoodKept ==
    ASSUME TypeOK, TypeOK', Grows, NEW l \in LeafType, GoodLeaf(l)
    PROVE  GoodLeaf(l)' /\ (Strict(l)' => Strict(l))
<1>1. CASE l.fam = None
  BY <1>1 DEF GoodLeaf, Strict, Accepts, Live
<1>2. CASE l.fam # None
  <2>1. l.fam \in Families /\ l.user \in Users /\ l.tv \in Nat /\ l.gen \in Nat
    BY <1>2, Names DEF LeafType, GoodLeaf
  <2>2. tv[l.user] \in Nat /\ tv'[l.user] \in Nat /\ tv'[l.user] >= tv[l.user] /\ l.tv <= tv[l.user]
    BY <1>2, <2>1, Names DEF TypeOK, Grows, GoodLeaf
  <2>3. fam[l.fam].gen \in Nat /\ fam'[l.fam].gen \in Nat
    BY <2>1, Names DEF TypeOK, FamType
  <2>4. /\ fam[l.fam].status # "unborn" /\ fam'[l.fam].status # "unborn"
        /\ Live(l.fam)' => Live(l.fam) /\ fam'[l.fam].gen >= fam[l.fam].gen
        /\ Live(l.fam) => l.gen <= fam[l.fam].gen
    BY <1>2, <2>1 DEF Grows, GoodLeaf
  <2>5. GoodLeaf(l)'
    BY <2>1, <2>2, <2>3, <2>4 DEF GoodLeaf
  <2>6. Strict(l)' => Live(l.fam)' /\ tv'[l.user] = l.tv /\ fam'[l.fam].gen = l.gen
    BY DEF Strict, Accepts
  <2>7. Strict(l)' => Live(l.fam) /\ tv[l.user] = l.tv /\ fam[l.fam].gen = l.gen
    BY <2>1, <2>2, <2>3, <2>4, <2>6
  <2>8. Strict(l)' => Strict(l)
    BY <2>7 DEF Strict, Accepts
  <2> QED
    BY <2>5, <2>8
<1> QED
  BY <1>1, <1>2

\* The conditions on an operation hold of one that is where it was.
LEMMA OpKept ==
    ASSUME TypeOK, TypeOK', Grows, NEW v \in OpType, NEW w \in OpType, Agrees(w, v),
           GensStay \/ ~Locked(v),
           Shape(v), Sound(v), Fresh(v)
    PROVE  Shape(w) /\ Sound(w)' /\ Fresh(w)'
<1>1. v.leaf \in LeafType /\ v.exp \in BoundaryType /\ v.left \subseteq Families
  BY DEF OpType
<1>2. /\ v.leaf.fam \in Families \cup {None} /\ v.exp.fam \in Families \cup {None}
      /\ v.leaf.user \in Users \cup {None} /\ v.leaf.tv \in Nat
  BY <1>1, Names DEF LeafType, BoundaryType
<1>3. Shape(w)
  BY DEF Shape, Agrees
<1>4. /\ v.pc # "undo" => GoodLeaf(v.leaf)'
      /\ Known(v.leaf.fam)' /\ Known(v.exp.fam)' /\ \A f \in v.left : Known(f)'
  BY <1>1, <1>2, GoodKept, KnownKept DEF Sound
<1>5. v.pc = "issue" => v.leaf.tv <= tv'[v.leaf.user]
  <2>1. SUFFICES ASSUME v.pc = "issue" PROVE v.leaf.tv <= tv'[v.leaf.user]
    OBVIOUS
  <2>2. v.leaf.user \in Users /\ v.leaf.tv <= tv[v.leaf.user]
    BY <1>2, <2>1 DEF Shape, Sound
  <2>3. tv[v.leaf.user] \in Nat /\ tv'[v.leaf.user] \in Nat /\ tv'[v.leaf.user] >= tv[v.leaf.user]
    BY <2>2, Names DEF TypeOK, Grows
  <2> QED
    BY <1>2, <2>2, <2>3
<1>6. \A f \in Families \cup {None} : Known(f) /\ Live(f)' => Live(f)
  BY DEF Known, Grows, Live
<1>7. Sound(w)'
  BY <1>2, <1>4, <1>5, <1>6 DEF Sound, Agrees
<1>8. Known(v.leaf.fam) /\ lost \subseteq lost' /\ \A f \in Families : Live(f)' => f # None
  BY DEF Sound, Grows, Live
<1>9. /\ v.kind = "refresh" /\ v.tab = None /\ v.leaf.fam # None => v.leaf.fam \in lost'
      /\ v.pc = "reuse" /\ Live(v.leaf.fam)' => v.leaf.fam \in lost'
  BY <1>2, <1>6, <1>8 DEF Fresh
<1>10. v.tab # None /\ Presents(v) /\ Live(v.leaf.fam)' =>
         v.leaf.fam \in lost' \/ v.leaf.gen = fam'[v.leaf.fam].gen
  <2>1. CASE GensStay
    BY <1>2, <1>6, <1>8, <2>1 DEF Fresh, GensStay, Known, Live
  <2>2. CASE ~Locked(v)
    BY <2>2 DEF Presents, Locked, Exclusive, AtServer
  <2> QED
    BY <2>1, <2>2
<1> QED
  BY <1>3, <1>7, <1>9, <1>10 DEF Fresh, Agrees, Presents

\* An operation that meets the conditions where it goes.
NewOp(x) == Shape(op'[x]) /\ Sound(op[x])' /\ Fresh(op[x])'

\* So with all of them.
LEMMA OpsKept ==
    ASSUME ServerInv, TypeOK', Grows,
           \A x \in Ops : \/ Agrees(op'[x], op[x]) /\ (GensStay \/ ~Locked(op[x]))
                          \/ NewOp(x)
    PROVE  \A x \in Ops : Shape(op'[x]) /\ Sound(op[x])' /\ Fresh(op[x])'
<1>1. ASSUME NEW x \in Ops PROVE NewOp(x)
  <2>1. TypeOK /\ Shape(op[x]) /\ Sound(op[x]) /\ Fresh(op[x])
    BY DEF ServerInv
  <2>2. PICK v \in OpType : v = op[x]
    BY <2>1 DEF TypeOK
  <2>3. PICK w \in OpType : w = op'[x]
    BY DEF TypeOK
  <2>4. CASE Agrees(w, v) /\ (GensStay \/ ~Locked(v))
    <3>1. Shape(w) /\ Sound(w)' /\ Fresh(w)'
      BY <2>1, <2>2, <2>4, OpKept
    <3> QED
      BY <2>3, <3>1 DEF NewOp
  <2> QED
    BY <2>2, <2>3, <2>4
<1> QED
  BY <1>1 DEF NewOp

\* Nobody takes the lock.
LEMMA MutexKept ==
    ASSUME Mutex, \A x \in Ops : Locked(op'[x]) => Locked(op[x])
    PROVE  Mutex'
  BY DEF Mutex, Locked

\* One who has it alone.
LEMMA MutexTaken ==
    ASSUME NEW o \in Ops, \A x \in Ops \ {o} : ~Locked(op'[x])
    PROVE  Mutex'
  BY DEF Mutex, Locked

\* No other change of a password is under way.
LEMMA RoomKept ==
    ASSUME ServerInv, TypeOK', tv' = tv,
           \A x \in Ops : op'[x].pc \in {"check", "password", "change"} => op[x].pc \in {"check", "password", "change"}
    PROVE  VersionRoom'
<1>1. Changers' \subseteq Changers /\ Changers \subseteq Ops
  BY DEF Changers
<1>2. IsFiniteSet(Changers)
  BY <1>1, Names, FS_Subset
<1>3. Cardinality(Changers') <= Cardinality(Changers) /\ IsFiniteSet(Changers')
  BY <1>1, <1>2, FS_Subset
<1>4. Cardinality(Changers') \in Nat /\ Cardinality(Changers) \in Nat
  BY <1>2, <1>3, FS_CardinalityType
<1>5. \A u \in Users : tv[u] \in Nat /\ tv[u] + Cardinality(Changers) <= MaxVersion
  BY Names DEF ServerInv, VersionRoom, TypeOK
<1> QED
  BY <1>3, <1>4, <1>5, Names DEF VersionRoom

\* The cookie stays, and the answer that brings the family's leaf is on its way or lost.
LEMMA CookieKept ==
    ASSUME ServerInv, TypeOK', Grows, GensStay, cookie' = cookie,
           \A x \in Ops : Brings(op[x]) =>
             (Brings(op'[x]) /\ op'[x].leaf = op[x].leaf) \/ op[x].leaf.fam \in lost'
    PROVE  GoodLeaf(cookie)' /\ Dated(cookie') /\ CookieFresh'
<1>1. TypeOK /\ GoodLeaf(cookie) /\ Dated(cookie) /\ CookieFresh
  BY DEF ServerInv
<1>2. cookie \in LeafType
  BY <1>1 DEF TypeOK
<1>3. PICK l \in LeafType : l = cookie
  BY <1>2
<1>4. GoodLeaf(l)'
  BY <1>1, <1>3, GoodKept
<1>5. GoodLeaf(cookie)'
  BY <1>3, <1>4 DEF GoodLeaf
<1>6. l.fam \in Families \cup {None}
  BY DEF LeafType
<1>7. ASSUME Live(l.fam)'
      PROVE  \/ l.fam \in lost' \/ l.gen = fam'[l.fam].gen
             \/ \E x \in Ops : Brings(op'[x]) /\ op'[x].leaf.fam = l.fam
  <2>1. l.fam \in Families /\ fam[l.fam].status # "unborn" /\ Live(l.fam)
    BY <1>1, <1>3, <1>6, <1>7 DEF GoodLeaf, Live, Grows
  <2>2. CASE l.fam \in lost
    BY <2>2 DEF Grows
  <2>3. CASE l.gen = fam[l.fam].gen
    BY <1>7, <2>1, <2>3 DEF GensStay
  <2>4. ASSUME NEW x \in Ops, Brings(op[x]), op[x].leaf.fam = l.fam
        PROVE  l.fam \in lost' \/ (Brings(op'[x]) /\ op'[x].leaf.fam = l.fam)
    BY <2>4
  <2> QED
    BY <1>1, <1>3, <2>1, <2>2, <2>3, <2>4 DEF CookieFresh
<1>8. CookieFresh'
  BY <1>3, <1>7 DEF CookieFresh, Brings, Live
<1> QED
  BY <1>1, <1>5, <1>8

\* A step of the browser's: the server and the cookie are as they were.
LEMMA QuietStep ==
    ASSUME ServerInv, TypeOK', UNCHANGED <<tv, fam, cookie>>, lost \subseteq lost',
           \A x \in Ops : Agrees(op'[x], op[x])
                          \/ (NewOp(x) /\ (Brings(op[x]) => op[x].leaf.fam \in lost')),
           Mutex', VersionRoom',
           Known(store'.fam), \A t \in Tabs : Known(tab'[t].fam),
           \A f \in pending' \cup ended' : Known(f),
           \A f \in ended' : f \in pending' \/ (f \in ended /\ f \notin pending)
    PROVE  ServerInv'
<1>1. TypeOK /\ Grows /\ GensStay
  BY ServerStays DEF ServerInv
<1>2. \A x \in Ops : Shape(op'[x]) /\ Sound(op[x])' /\ Fresh(op[x])'
  BY <1>1, OpsKept
<1>3. GoodLeaf(cookie)' /\ Dated(cookie') /\ CookieFresh'
  BY <1>1, CookieKept DEF Agrees, Brings
<1>4. \A f : Known(f)' <=> Known(f)
  BY DEF Known
<1>5. Known(store.fam)' /\ (\A t \in Tabs : Known(tab[t].fam))' /\ (\A f \in pending \cup ended : Known(f))'
  BY DEF Known
<1>6. (\A f \in Families : fam[f].status = "unborn" => fam[f].gen = 0)'
  BY DEF ServerInv
<1>7. ReuseOnlyAfterLoss' /\ EndedOrPending'
  BY DEF ServerInv, ReuseOnlyAfterLoss, EndedOrPending, Live
<1> QED
  BY <1>2, <1>3, <1>5, <1>6, <1>7 DEF ServerInv

\* The browser's conditions on an operation that is where it was: its tab and the stored
\* account are as they were, or the account is gone, or the operation has no lock.
LEMMA OtherKept ==
    ASSUME ServerInv, BrowserInv, TypeOK', Grows, NEW x \in Ops, Agrees(op'[x], op[x]),
           cookie' = cookie \/ ~Locked(op[x]),
           \/ store'.user = None \/ ~Locked(op[x])
           \/ /\ store' = store /\ op'[x].fresh = op[x].fresh
              /\ tab'[op[x].tab] = tab[op[x].tab]
    PROVE  Holds(op[x])' /\ Carries(op[x])' /\ SameUser(op[x])'
<1>1. /\ Holds(op[x]) /\ Carries(op[x]) /\ SameUser(op[x])
      /\ TypeOK /\ Sound(op[x])
  BY DEF BrowserInv, ServerInv
<1>2. PICK v \in OpType : v = op[x]
  BY <1>1 DEF TypeOK
<1>3. PICK w \in OpType : w = op'[x]
  BY DEF TypeOK
<1>4. Locked(w) <=> Locked(v)
  BY <1>2, <1>3 DEF Locked, Agrees
<1>5. Holds(w)'
  BY <1>1, <1>2, <1>3, <1>4 DEF Holds, Agrees, Locked
<1>6. Carries(w)'
  BY <1>1, <1>2, <1>3 DEF Carries, Agrees, Locked, Exclusive
<1>7. SameUser(w)'
  <2>1. v.leaf \in LeafType /\ (v.pc # "undo" => GoodLeaf(v.leaf))
    BY <1>1, <1>2 DEF OpType, Sound
  <2>2. v.pc # "undo" => (Strict(v.leaf)' => Strict(v.leaf))
    BY <1>1, <2>1, GoodKept
  <2>3. w.pc \in AtServer \cup {"send", "body"} => w.pc # "undo"
    BY DEF AtServer
  <2>4. w.leaf = v.leaf /\ w.exp = v.exp /\ w.pc = v.pc /\ w.tab = v.tab /\ w.kind = v.kind
    BY <1>2, <1>3 DEF Agrees
  <2> QED
    BY <1>1, <1>2, <2>2, <2>3, <2>4 DEF SameUser
<1> QED
  BY <1>3, <1>5, <1>6, <1>7 DEF Holds, Carries, SameUser, Strict, Accepts, Live, Locked

\* The stored account and the cookie are as they were, or the account is gone.
LEMMA CookieUserKept ==
    ASSUME ServerInv, BrowserInv, TypeOK', Grows,
           store'.user = None \/ (store' = store /\ cookie' = cookie),
           \A x \in Ops : Between(op[x]) => Between(op'[x])
    PROVE  CookieUser'
<1>1. TypeOK /\ GoodLeaf(cookie) /\ CookieUser
  BY DEF ServerInv, BrowserInv
<1>2. PICK l \in LeafType : l = cookie
  BY <1>1 DEF TypeOK
<1>3. Strict(l)' => Strict(l)
  BY <1>1, <1>2, GoodKept
<1>4. store' = store /\ cookie' = cookie /\ Strict(cookie)' => Strict(cookie)
  BY <1>2, <1>3 DEF Strict, Accepts, Live
<1> QED
  BY <1>1, <1>4 DEF CookieUser

\* One operation goes on, and nothing else is seen of it.
LEMMA QuietOne ==
    ASSUME ServerInv, NEW o \in Ops, op'[o] \in OpType, op' = [op EXCEPT ![o] = op'[o]],
           UNCHANGED <<tv, fam, cookie, store, tab>>, lost' = lost,
           pending' \in SUBSET Families, ended' \in SUBSET Families, faults' \in 0..MaxFaults,
           NewOp(o), ~Brings(op[o]),
           Locked(op'[o]) => Locked(op[o]) \/ \A x \in Ops : ~Locked(op[x]),
           VersionRoom' \/ (op'[o].pc \in {"check", "password", "change"} => op[o].pc \in {"check", "password", "change"}),
           \A f \in pending' \cup ended' : Known(f),
           \A f \in ended' : f \in pending' \/ (f \in ended /\ f \notin pending)
    PROVE  /\ ServerInv'
           /\ BrowserInv /\ Holds(op[o])' /\ Carries(op[o])' /\ SameUser(op[o])'
              /\ (Between(op[o]) => Between(op'[o])) => BrowserInv'
<1>1. TypeOK /\ Mutex
  BY DEF ServerInv
<1>2. op' \in [Ops -> OpType] /\ \A x \in Ops \ {o} : op'[x] = op[x]
  BY <1>1, Takes
<1>3. TypeOK'
  BY <1>1, <1>2 DEF TypeOK
<1>4. \A x \in Ops \ {o} : Agrees(op'[x], op[x]) /\ op'[x] = op[x]
  BY <1>2 DEF Agrees
<1>5. Mutex'
  <2>1. CASE Locked(op'[o]) => Locked(op[o])
    BY <1>1, <1>4, <2>1, MutexKept
  <2>2. CASE \A x \in Ops : ~Locked(op[x])
    BY <1>4, <2>2, MutexTaken
  <2> QED
    BY <2>1, <2>2
<1>6. VersionRoom'
  BY <1>3, <1>4, RoomKept
<1>7. ServerInv'
  <2>1. Known(store'.fam) /\ \A t \in Tabs : Known(tab'[t].fam)
    BY DEF ServerInv
  <2>2. \A x \in Ops : Agrees(op'[x], op[x])
                       \/ (NewOp(x) /\ (Brings(op[x]) => op[x].leaf.fam \in lost'))
    BY <1>4
  <2> QED
    BY <1>3, <1>5, <1>6, <2>1, <2>2, QuietStep
<1>8. ASSUME BrowserInv, Holds(op[o])', Carries(op[o])', SameUser(op[o])', Between(op[o]) => Between(op'[o])
      PROVE  BrowserInv'
  <2>1. Grows
    BY <1>1, ServerStays
  <2>2. \A x \in Ops \ {o} : Holds(op[x])' /\ Carries(op[x])' /\ SameUser(op[x])'
    BY <1>3, <1>4, <1>8, <2>1, OtherKept
  <2>3. CookieUser'
    BY <1>3, <1>4, <1>8, <2>1, CookieUserKept
  <2> QED
    BY <1>8, <2>2, <2>3 DEF BrowserInv
<1> QED
  BY <1>7, <1>8

----------------------------------------------------------------------------
\* An operation that is at rest meets every condition.
LEMMA IdleFits ==
    /\ Shape(Idle) /\ Sound(Idle)' /\ Fresh(Idle)'
    /\ Holds(Idle)' /\ Carries(Idle)' /\ SameUser(Idle)' /\ ~Brings(Idle) /\ ~Between(Idle)
    /\ ~Locked(Idle)
<1>1. Shape(Idle)
  BY Nothing, Names DEF Shape, AtServer
<1>2. Sound(Idle)' /\ Fresh(Idle)'
  BY Nothing, Names DEF Sound, GoodLeaf, Known, Fresh, Presents
<1>3. /\ Holds(Idle)' /\ Carries(Idle)' /\ SameUser(Idle)' /\ ~Brings(Idle) /\ ~Between(Idle)
      /\ ~Locked(Idle)
  BY Nothing DEF Holds, Carries, SameUser, Brings, Between, Locked
<1> QED
  BY <1>1, <1>2, <1>3

\* An operation begins for the account that its tab shows and that is stored.
LEMMA StartsStep ==
    ASSUME ServerInv, NEW t \in Tabs, NEW o \in Ops, NEW kind \in Mutations \cup {"request"},
           NEW pc \in {"verify", "read", "check", "send"}, NEW leaf \in LeafType,
           Starts(t, o, kind, pc, leaf),
           \A x \in Ops : ~Locked(op[x]),
           pc = "verify" => kind = "refresh" /\ leaf = cookie /\ leaf.gen < MaxGen,
           pc = "read" => /\ kind = "login" /\ leaf.user # None /\ leaf.fam = None
                          /\ leaf.gen = 0 /\ leaf.tv = 0 /\ leaf.by = 0,
           pc = "check" => kind = "change" /\ leaf = cookie /\ tab[t].user # None /\ MayChange(tab[t].user),
           pc = "send" => kind = "request" /\ leaf = cookie
    PROVE  ServerInv' /\ (BrowserInv => BrowserInv')
<1>1. /\ TypeOK /\ Mutex /\ GoodLeaf(cookie) /\ Dated(cookie) /\ Known(store.fam)
      /\ \A f \in pending \cup ended : Known(f)
      /\ CookieFresh /\ EndedOrPending
      /\ \A x \in Ops : Shape(op[x])
  BY DEF ServerInv
<1>2. op[o] = Idle /\ tab[t] = store /\ UNCHANGED <<tv, fam, cookie, store, tab, pending, ended, lost, faults>>
  BY DEF Starts, SendState
<1>3. PICK u : u = [Idle EXCEPT !.pc = pc, !.kind = kind, !.tab = t, !.exp = tab[t],
                                !.fresh = TRUE, !.leaf = leaf]
  OBVIOUS
<1>4. /\ u \in OpType /\ u.pc = pc /\ u.kind = kind /\ u.tab = t /\ u.exp = store /\ u.fresh
      /\ u.leaf = leaf /\ u.ans = None /\ u.left = {}
  <2>1. store \in BoundaryType
    BY <1>1 DEF TypeOK
  <2> QED
    BY <1>2, <1>3, <2>1, Nothing DEF Idle, OpType, Exclusive, Shared, AtServer
<1>5. op' = [op EXCEPT ![o] = u] /\ op'[o] = u
  BY <1>1, <1>3 DEF Starts, TypeOK
<1>6. t # None
  BY Names
<1>7. Shape(u)
  <2>1. Dated(leaf)
    BY <1>1 DEF Dated
  <2> QED
    BY <1>2, <1>4, <1>6, <2>1, Names DEF Shape, Mutations, AtServer
<1>8. Sound(u)'
  <2>1. GoodLeaf(leaf)'
    BY <1>1, <1>2 DEF GoodLeaf, Live
  <2>2. Known(leaf.fam)' /\ Known(store.fam)'
    BY <1>1, <1>2, <2>1 DEF GoodLeaf, Known
  <2> QED
    BY <1>2, <1>4, <2>1, <2>2, Names DEF Sound, Known
<1>9. Fresh(u)'
  <2>1. \A x \in Ops : ~Brings(op[x])
    BY DEF Brings, Locked, Exclusive, AtServer
  <2>2. pc = "verify" /\ Live(leaf.fam)' => leaf.fam \in lost' \/ leaf.gen = fam'[leaf.fam].gen
    BY <1>1, <1>2, <2>1 DEF CookieFresh, Live
  <2> QED
    BY <1>4, <1>6, <2>2 DEF Fresh, Presents
<1>10. VersionRoom' \/ (pc \in {"check", "password", "change"} => op[o].pc \in {"check", "password", "change"})
  <2>1. SUFFICES ASSUME pc = "check" PROVE VersionRoom'
    OBVIOUS
  <2>2. Changers \subseteq Changing /\ Changing \subseteq Ops
    BY <1>1 DEF Changers, Changing, Shape
  <2>3. IsFiniteSet(Changing) /\ IsFiniteSet(Changers)
    BY <2>2, Names, FS_Subset
  <2>4. /\ Cardinality(Changers) <= Cardinality(Changing)
        /\ Cardinality(Changers) \in Nat /\ Cardinality(Changing) \in Nat
    BY <2>2, <2>3, FS_Subset, FS_CardinalityType
  <2>5. Changers' = Changers \cup {o} /\ o \notin Changers
    BY <1>1, <1>2, <1>4, <1>5, <2>1, Nothing DEF Changers, TypeOK
  <2>6. Cardinality(Changers') = Cardinality(Changers) + 1
    BY <2>3, <2>5, FS_AddElement
  <2>7. \A c \in Users : tv[c] \in Nat /\ tv[c] + Cardinality(Changing) < MaxVersion
    BY <1>1, <2>1, Names DEF MayChange, TypeOK
  <2> QED
    BY <1>2, <2>4, <2>6, <2>7, Names DEF VersionRoom
<1>11. \A f \in ended' : f \in pending' \/ (f \in ended /\ f \notin pending)
  BY <1>2
<1>12. ~Brings(op[o]) /\ ~Between(op[o])
  BY <1>2, IdleFits
<1>13. ASSUME BrowserInv PROVE Holds(u)' /\ Carries(u)' /\ SameUser(u)'
  <2>1. \A x \in Ops : ~Between(op[x])
    BY DEF Between, Locked, Exclusive
  <2>2. store.user # None /\ Strict(cookie) => cookie.user = store.user
    BY <1>13, <2>1 DEF BrowserInv, CookieUser
  <2>3. Strict(cookie)' => Strict(cookie)
    BY <1>2 DEF Strict, Accepts, Live
  <2>4. SameUser(u)'
    <3>1. kind # "login" => leaf = cookie /\ pc \notin {"password", "change"}
      BY DEF Mutations
    <3> QED
      BY <1>2, <1>4, <2>2, <2>3, <3>1 DEF SameUser
  <2>5. Holds(u)'
    BY <1>2, <1>4 DEF Holds
  <2>6. Carries(u)'
    BY <1>4 DEF Carries
  <2> QED
    BY <2>4, <2>5, <2>6
<1>14. pending' \in SUBSET Families /\ ended' \in SUBSET Families /\ faults' \in 0..MaxFaults
  BY <1>1, <1>2 DEF TypeOK
<1>15. NewOp(o)
  BY <1>5, <1>7, <1>8, <1>9 DEF NewOp, Sound, Fresh, GoodLeaf, Known, Live
<1>16. ASSUME BrowserInv PROVE Holds(op[o])' /\ Carries(op[o])' /\ SameUser(op[o])'
  BY <1>5, <1>13, <1>16 DEF Holds, Carries, SameUser, Strict, Accepts, Live, Locked
<1> QED
  BY <1>1, <1>2, <1>4, <1>5, <1>10, <1>11, <1>12, <1>14, <1>15, <1>16, QuietOne

\* A step of one operation that nothing else is seen of, by its new record.
LEMMA QuietTake ==
    ASSUME ServerInv, NEW o \in Ops, NEW u \in OpType, op' = [op EXCEPT ![o] = u],
           UNCHANGED <<tv, fam, cookie, store, tab, lost>>,
           pending' \in SUBSET Families, ended' \in SUBSET Families, faults' \in 0..MaxFaults,
           Shape(u), Sound(u)', Fresh(u)', ~Brings(op[o]), Locked(u) => Locked(op[o]),
           u.pc \in {"check", "password", "change"} => op[o].pc \in {"check", "password", "change"},
           \A f \in pending' \cup ended' : Known(f),
           \A f \in ended' : f \in pending' \/ (f \in ended /\ f \notin pending),
           BrowserInv => /\ Holds(u)' /\ Carries(u)' /\ SameUser(u)'
                         /\ Between(op[o]) => Between(u)
    PROVE  ServerInv' /\ (BrowserInv => BrowserInv')
<1>1. op'[o] = u /\ TypeOK
  BY DEF ServerInv, TypeOK
<1>2. NewOp(o)
  BY <1>1 DEF NewOp, Sound, Fresh, GoodLeaf, Known, Live
<1>3. BrowserInv => Holds(op[o])' /\ Carries(op[o])' /\ SameUser(op[o])'
  BY <1>1 DEF Holds, Carries, SameUser, Strict, Accepts, Live, Locked
<1> QED
  BY <1>1, <1>2, <1>3, QuietOne

\* What the browser has to end is known.
LEMMA EndsKnown ==
    ASSUME ServerInv, UNCHANGED <<pending, ended>>
    PROVE  /\ \A f \in pending' \cup ended' : Known(f)
           /\ \A f \in ended' : f \in pending' \/ (f \in ended /\ f \notin pending)
           /\ pending' \in SUBSET Families /\ ended' \in SUBSET Families
  BY DEF ServerInv, TypeOK

\* An operation ends without a trace.
LEMMA EndsStep ==
    ASSUME ServerInv, NEW o \in Ops, Ends(o), ~Brings(op[o]), ~Between(op[o]),
           UNCHANGED <<tv, fam, cookie, store, tab, pending, ended, lost, faults>>
    PROVE  ServerInv' /\ (BrowserInv => BrowserInv')
<1>1. op' = [op EXCEPT ![o] = Idle] /\ Idle \in OpType /\ Idle.pc = "idle"
  BY Nothing DEF Ends
<1>2. faults' \in 0..MaxFaults
  BY DEF ServerInv, TypeOK
<1> QED
  BY <1>1, <1>2, IdleFits, EndsKnown, QuietTake

\* What a tab asks for when it has the lock, or need not have it.
LEMMA StartsSteps ==
    ASSUME ServerInv, NEW t \in Tabs, NEW o \in Ops,
           \/ StartRefresh(t, o) \/ StartChange(t, o) \/ StartRequest(t, o)
           \/ \E u \in Users : StartLogin(t, o, u)
    PROVE  ServerInv' /\ (BrowserInv => BrowserInv')
<1>1. cookie \in LeafType
  BY DEF ServerInv, TypeOK
<1>2. ~Held(Exclusive \cup Shared) \/ ~Held(Exclusive) => \A x \in Ops : ~Locked(op[x])
  BY DEF Held, Locked
<1>3. CASE StartRefresh(t, o)
  BY <1>1, <1>2, <1>3, StartsStep DEF StartRefresh, Alone, Mutations
<1>4. CASE StartChange(t, o)
  BY <1>1, <1>2, <1>4, StartsStep DEF StartChange, Alone, Mutations
<1>5. CASE StartRequest(t, o)
  BY <1>1, <1>2, <1>5, StartsStep DEF StartRequest, Mutations
<1>6. ASSUME NEW u \in Users, StartLogin(t, o, u)
      PROVE  ServerInv' /\ (BrowserInv => BrowserInv')
  <2>1. PICK l : l = [NoLeaf EXCEPT !.user = u]
    OBVIOUS
  <2>2. /\ l \in LeafType /\ l.user = u /\ l.fam = None /\ l.gen = 0 /\ l.tv = 0 /\ l.by = 0
    BY <2>1, Nothing DEF LeafType, NoLeaf
  <2>3. u # None
    BY Names
  <2>4. Starts(t, o, "login", "read", l) /\ Alone
    BY <1>6, <2>1 DEF StartLogin
  <2> QED
    BY <1>2, <2>2, <2>3, <2>4, StartsStep DEF Alone, Mutations
<1> QED
  BY <1>3, <1>4, <1>5, <1>6

\* The server answers without a leaf.
LEMMA AnswersStep ==
    ASSUME ServerInv, NEW o \in Ops, NEW a \in {"refused", "unauthorized"}, Answers(o, a),
           op[o].pc \in {"verify", "user", "reuse", "check", "password"},
           UNCHANGED <<tv, fam, cookie, store, tab, pending, ended, lost, faults>>
    PROVE  ServerInv' /\ (BrowserInv => BrowserInv')
<1>1. TypeOK /\ Shape(op[o]) /\ Sound(op[o]) /\ faults' \in 0..MaxFaults
  BY DEF ServerInv, TypeOK
<1>2. PICK v \in OpType : v = op[o]
  BY <1>1 DEF TypeOK
<1>3. PICK u \in OpType : u = op'[o]
  BY <1>1, AnswersTakes
<1>4. /\ op' = [op EXCEPT ![o] = u]
      /\ u.pc = "reply" /\ u.kind = v.kind /\ u.tab = v.tab /\ u.exp = v.exp
      /\ u.fresh = v.fresh /\ u.leaf = NoLeaf /\ u.ans = a /\ u.left = v.left
  BY <1>1, <1>2, <1>3, AnswersTakes
<1>5. Shape(u)
  BY <1>1, <1>2, <1>4, Nothing, Names DEF Shape, Mutations, AtServer
<1>6. Sound(u)'
  BY <1>1, <1>2, <1>4, Nothing, Names DEF Sound, GoodLeaf, Known, Live
<1>7. Fresh(u)'
  BY <1>4, Nothing DEF Fresh, Presents
<1>8. Locked(u) => Locked(op[o])
  BY <1>2, <1>4 DEF Locked, Exclusive, AtServer
<1>9. ~Brings(op[o]) /\ ~Between(op[o])
  BY DEF Brings, Between
<1>10. ASSUME BrowserInv PROVE Holds(u)' /\ Carries(u)' /\ SameUser(u)'
  <2>1. Holds(v)
    BY <1>2, <1>10 DEF BrowserInv
  <2>2. Holds(u)'
    BY <1>2, <1>4, <1>8, <2>1 DEF Holds, AtServer
  <2>3. ~Strict(NoLeaf)'
    BY Nothing DEF Strict, Accepts, Live
  <2> QED
    BY <1>4, <2>2, <2>3, Names DEF Carries, SameUser
<1> QED
  BY <1>1, <1>4, <1>5, <1>6, <1>7, <1>8, <1>9, <1>10, EndsKnown, QuietTake

\* The server goes on with a leaf that it accepts.
LEMMA GoesStep ==
    ASSUME ServerInv, NEW o \in Ops, NEW u \in OpType, op' = [op EXCEPT ![o] = u],
           UNCHANGED <<tv, fam, cookie, store, tab, pending, ended, lost, faults>>,
           u.kind = op[o].kind, u.tab = op[o].tab, u.exp = op[o].exp, u.fresh = op[o].fresh,
           u.leaf = op[o].leaf, u.ans = op[o].ans, u.left = op[o].left,
           \/ op[o].pc = "verify" /\ u.pc = "user" /\ u.leaf.fam # None
           \/ op[o].pc = "user" /\ u.pc = "rotate"
           \/ op[o].pc = "rotate" /\ u.pc = "reuse" /\ ~(Live(u.leaf.fam) /\ fam[u.leaf.fam].gen = u.leaf.gen)
           \/ op[o].pc = "check" /\ u.pc = "password" /\ Strict(u.leaf)
    PROVE  ServerInv' /\ (BrowserInv => BrowserInv')
<1>1. TypeOK /\ Shape(op[o]) /\ Sound(op[o]) /\ Fresh(op[o]) /\ faults' \in 0..MaxFaults
  BY DEF ServerInv, TypeOK
<1>2. PICK v \in OpType : v = op[o]
  BY <1>1 DEF TypeOK
<1>3. Strict(u.leaf) => u.leaf.fam # None
  BY DEF Strict, Accepts, Live
<1>4. Shape(u)
  BY <1>1, <1>3, Names DEF Shape, Mutations, AtServer
<1>5. Sound(u)'
  BY <1>1 DEF Sound, GoodLeaf, Known, Live
<1>6. Fresh(u)'
  <2>1. u.kind = "refresh" /\ u.tab = None /\ u.leaf.fam # None => u.leaf.fam \in lost
    BY <1>1 DEF Fresh
  <2>2. u.pc = "reuse" /\ Live(u.leaf.fam) => u.leaf.fam \in lost
    <3>1. SUFFICES ASSUME u.pc = "reuse", Live(u.leaf.fam) PROVE u.leaf.fam \in lost
      OBVIOUS
    <3>2. op[o].pc = "rotate" /\ u.kind = "refresh" /\ fam[u.leaf.fam].gen # u.leaf.gen /\ u.leaf.fam # None
      BY <1>1, <3>1 DEF Shape
    <3>3. CASE u.tab = None
      BY <2>1, <3>2, <3>3
    <3>4. CASE u.tab # None
      BY <1>1, <3>1, <3>2, <3>4 DEF Fresh, Presents
    <3> QED
      BY <3>3, <3>4
  <2>3. u.tab # None /\ Presents(u) /\ Live(u.leaf.fam) =>
         u.leaf.fam \in lost \/ u.leaf.gen = fam[u.leaf.fam].gen
    BY <1>1 DEF Fresh, Presents
  <2> QED
    BY <2>1, <2>2, <2>3 DEF Fresh, Presents, Live
<1>7. Locked(u) => Locked(op[o])
  BY DEF Locked, Exclusive, AtServer
<1>8. ~Brings(op[o]) /\ ~Between(op[o])
  BY DEF Brings, Between
<1>9. u.pc \in {"check", "password", "change"} => op[o].pc \in {"check", "password", "change"}
  OBVIOUS
<1>10. ASSUME BrowserInv PROVE Holds(u)' /\ Carries(u)' /\ SameUser(u)'
  <2>1. Holds(op[o]) /\ SameUser(op[o])
    BY <1>10 DEF BrowserInv
  <2>2. Holds(u)'
    BY <1>7, <2>1 DEF Holds, AtServer
  <2>3. Carries(u)'
    BY DEF Carries
  <2>4. Strict(u.leaf)' => Strict(u.leaf)
    BY DEF Strict, Accepts, Live
  <2>5. SameUser(u)'
    <3>1. op[o].pc \in AtServer /\ u.pc \in AtServer
      BY DEF AtServer
    <3>2. u.tab # None /\ u.pc = "password" => u.leaf.user = u.exp.user
      BY <1>1, <2>1, <3>1 DEF SameUser, Shape
    <3>3. u.tab # None /\ u.kind # "login" =>
            (u.exp.user # None /\ Strict(u.leaf)' => u.leaf.user = u.exp.user)
      BY <2>1, <2>4, <3>1 DEF SameUser
    <3> QED
      BY <3>2, <3>3 DEF SameUser
  <2> QED
    BY <2>2, <2>3, <2>5
<1> QED
  BY <1>1, <1>4, <1>5, <1>6, <1>7, <1>8, <1>9, <1>10, EndsKnown, QuietTake

\* The server takes the steps of its routes that leave its tables alone.
LEMMA RouteSteps ==
    ASSUME ServerInv, NEW o \in Ops,
           VerifyRefresh(o) \/ ReadUser(o) \/ CheckChange(o) \/ Unavailable(o) \/ IgnoreDenied(o)
    PROVE  ServerInv' /\ (BrowserInv => BrowserInv')
<1>1. TypeOK /\ Shape(op[o])
  BY DEF ServerInv
<1>2. UNCHANGED <<tv, fam, cookie, store, tab, pending, ended, lost, faults>>
  BY DEF VerifyRefresh, ReadUser, CheckChange, Unavailable, IgnoreDenied, SendState
<1>3. {"user", "rotate", "reuse", "password"} \subseteq Pcs
  BY Places
<1>4. CASE VerifyRefresh(o)
  <2>1. op[o].pc = "verify"
    BY <1>4 DEF VerifyRefresh
  <2>2. \/ Answers(o, "refused") \/ Answers(o, "unauthorized")
        \/ op[o].leaf.fam # None /\ Step(o, "user")
    BY <1>4 DEF VerifyRefresh
  <2>3. CASE op[o].leaf.fam # None /\ Step(o, "user")
    <3>1. PICK u \in OpType : u = op'[o]
      BY <1>1, <1>3, <2>3, StepTakes
    <3>2. /\ op' = [op EXCEPT ![o] = u] /\ u.pc = "user" /\ u.kind = op[o].kind
          /\ u.tab = op[o].tab /\ u.exp = op[o].exp /\ u.fresh = op[o].fresh
          /\ u.leaf = op[o].leaf /\ u.ans = op[o].ans /\ u.left = op[o].left
      BY <1>1, <1>3, <2>3, <3>1, StepTakes
    <3> QED
      BY <1>2, <2>1, <2>3, <3>2, GoesStep
  <2> QED
    BY <1>2, <2>1, <2>2, <2>3, AnswersStep
<1>5. CASE ReadUser(o)
  <2>1. op[o].pc = "user"
    BY <1>5 DEF ReadUser
  <2>2. CASE Answers(o, "unauthorized")
    BY <1>2, <2>1, <2>2, AnswersStep
  <2>3. CASE /\ tv[op[o].leaf.user] = op[o].leaf.tv
             /\ op' = [op EXCEPT ![o].pc = "rotate", ![o].leaf.tv = tv[op[o].leaf.user]]
    <3>1. PICK v \in OpType : v = op[o]
      BY <1>1 DEF TypeOK
    <3>2. PICK l \in LeafType : l = v.leaf
      BY DEF OpType
    <3>3. [l EXCEPT !.tv = l.tv] = l
      BY DEF LeafType
    <3>4. PICK u : u = [v EXCEPT !.pc = "rotate", !.leaf = l]
      OBVIOUS
    <3>5. /\ u \in OpType /\ u.pc = "rotate" /\ u.kind = v.kind /\ u.tab = v.tab /\ u.exp = v.exp
          /\ u.fresh = v.fresh /\ u.leaf = v.leaf /\ u.ans = v.ans /\ u.left = v.left
      BY <3>2, <3>4 DEF OpType, Exclusive, AtServer
    <3>6. PICK k : k = [l EXCEPT !.tv = l.tv]
      OBVIOUS
    <3>7. op' = [op EXCEPT ![o] = [v EXCEPT !.pc = "rotate", !.leaf = k]]
      BY <2>3, <3>1, <3>2, <3>6
    <3>8. op' = [op EXCEPT ![o] = u]
      BY <3>3, <3>4, <3>6, <3>7
    <3> QED
      BY <1>2, <2>1, <3>1, <3>5, <3>8, GoesStep
  <2> QED
    BY <1>5, <2>2, <2>3 DEF ReadUser
<1>6. CASE CheckChange(o)
  <2>1. op[o].pc = "check"
    BY <1>6 DEF CheckChange
  <2>2. CASE Strict(op[o].leaf) /\ Step(o, "password")
    <3>1. PICK u \in OpType : u = op'[o]
      BY <1>1, <1>3, <2>2, StepTakes
    <3>2. /\ op' = [op EXCEPT ![o] = u] /\ u.pc = "password" /\ u.kind = op[o].kind
          /\ u.tab = op[o].tab /\ u.exp = op[o].exp /\ u.fresh = op[o].fresh
          /\ u.leaf = op[o].leaf /\ u.ans = op[o].ans /\ u.left = op[o].left
      BY <1>1, <1>3, <2>2, <3>1, StepTakes
    <3> QED
      BY <1>2, <2>1, <2>2, <3>2, GoesStep
  <2> QED
    BY <1>2, <1>6, <2>1, <2>2, AnswersStep DEF CheckChange
<1>7. CASE Unavailable(o) \/ IgnoreDenied(o)
  <2>1. ~Brings(op[o]) /\ ~Between(op[o]) /\ Ends(o)
    BY <1>7 DEF Unavailable, IgnoreDenied, Brings, Between, AtServer
  <2> QED
    BY <1>2, <2>1, EndsStep
<1> QED
  BY <1>4, <1>5, <1>6, <1>7

\* The password that was sent is compared with that of now.
LEMMA CheckPasswordStep ==
    ASSUME ServerInv, NEW o \in Ops, CheckPassword(o)
    PROVE  ServerInv' /\ (BrowserInv => BrowserInv')
<1>1. /\ TypeOK /\ Shape(op[o]) /\ Sound(op[o]) /\ faults' \in 0..MaxFaults
      /\ op[o].pc = "password"
      /\ UNCHANGED <<tv, fam, cookie, store, tab, pending, ended, lost, faults>>
  BY DEF ServerInv, TypeOK, CheckPassword, SendState
<1>2. CASE Answers(o, "refused")
  BY <1>1, <1>2, AnswersStep
<1>3. CASE op' = [op EXCEPT ![o].pc = "change", ![o].leaf.by = tv[op[o].leaf.user]]
  <2>1. PICK v \in OpType : v = op[o]
    BY <1>1 DEF TypeOK
  <2>2. PICK l \in LeafType : l = v.leaf
    BY DEF OpType
  <2>3. v.kind = "change" /\ l.fam # None /\ l.user \in Users
    BY <1>1, <2>1, <2>2, Names DEF Shape, Sound, GoodLeaf, LeafType
  <2>4. PICK n \in 0..MaxVersion : n = tv[l.user]
    BY <1>1, <2>3 DEF TypeOK
  <2>5. PICK k : k = [l EXCEPT !.by = n]
    OBVIOUS
  <2>6. k \in LeafType /\ k.fam = l.fam /\ k.user = l.user /\ k.gen = l.gen /\ k.tv = l.tv
    BY <2>5 DEF LeafType
  <2>7. PICK u : u = [v EXCEPT !.pc = "change", !.leaf = k]
    OBVIOUS
  <2>8. /\ u \in OpType /\ u.pc = "change" /\ u.kind = v.kind /\ u.tab = v.tab /\ u.exp = v.exp
        /\ u.fresh = v.fresh /\ u.leaf = k /\ u.ans = v.ans /\ u.left = v.left
    BY <2>6, <2>7 DEF OpType, Exclusive, AtServer
  <2>9. op' = [op EXCEPT ![o] = u]
    BY <1>3, <2>1, <2>2, <2>4, <2>5, <2>7
  <2>10. Shape(u)
    BY <1>1, <2>1, <2>3, <2>6, <2>8, Names DEF Shape, AtServer
  <2>11. Sound(u)'
    BY <1>1, <2>1, <2>2, <2>6, <2>8 DEF Sound, GoodLeaf, Known, Live
  <2>12. Fresh(u)'
    BY <2>3, <2>8 DEF Fresh, Presents
  <2>13. Locked(u) => Locked(op[o])
    BY <1>1, <2>1, <2>8 DEF Locked, Exclusive, AtServer
  <2>14. ~Brings(op[o]) /\ ~Between(op[o])
    BY <1>1 DEF Brings, Between
  <2>15. ASSUME BrowserInv PROVE Holds(u)' /\ Carries(u)' /\ SameUser(u)'
    <3>1. Holds(v) /\ SameUser(v)
      BY <2>1, <2>15 DEF BrowserInv
    <3>2. Holds(u)'
      BY <1>1, <2>1, <2>8, <2>13, <3>1 DEF Holds, AtServer
    <3>3. Carries(u)'
      BY <2>8 DEF Carries
    <3>4. SameUser(u)'
      BY <1>1, <2>1, <2>2, <2>6, <2>8, <3>1 DEF SameUser
    <3> QED
      BY <3>2, <3>3, <3>4
  <2> QED
    BY <1>1, <2>8, <2>9, <2>10, <2>11, <2>12, <2>13, <2>14, <2>15, EndsKnown, QuietTake
<1> QED
  BY <1>2, <1>3 DEF CheckPassword

\* A login reads the user and the version that the password is checked with.
LEMMA LoginStep ==
    ASSUME ServerInv, NEW o \in Ops, Login(o)
    PROVE  ServerInv' /\ (BrowserInv => BrowserInv')
<1>1. TypeOK /\ Shape(op[o]) /\ Sound(op[o]) /\ faults' \in 0..MaxFaults
  BY DEF ServerInv, TypeOK, Login
<1>2. UNCHANGED <<tv, fam, cookie, store, tab, pending, ended, lost, faults>> /\ op[o].pc = "read"
  BY DEF Login, SendState
<1>3. PICK v \in OpType : v = op[o]
  BY <1>1 DEF TypeOK
<1>4. PICK l \in LeafType : l = v.leaf
  BY DEF OpType
<1>5. /\ v.kind = "login" /\ l.user \in Users /\ l.fam = None /\ l.gen = 0
  BY <1>1, <1>2, <1>3, <1>4, Names DEF Shape, LeafType
<1>6. PICK n \in Nat : n = tv[l.user]
  BY <1>1, <1>5, Names DEF TypeOK
<1>7. n \in 0..MaxVersion
  BY <1>1, <1>5, <1>6 DEF TypeOK
<1>8. PICK k : k = [l EXCEPT !.tv = n, !.by = n]
  OBVIOUS
<1>9. k \in LeafType /\ k.tv = n /\ Dated(k) /\ k.fam = None /\ k.user = l.user /\ k.gen = 0
  BY <1>5, <1>7, <1>8 DEF LeafType, Dated
<1>10. PICK u : u = [v EXCEPT !.pc = "issue", !.leaf = k]
  OBVIOUS
<1>11. /\ u \in OpType /\ u.pc = "issue" /\ u.kind = v.kind /\ u.tab = v.tab /\ u.exp = v.exp
       /\ u.fresh = v.fresh /\ u.leaf = k /\ u.ans = v.ans /\ u.left = v.left
  BY <1>9, <1>10 DEF OpType, Exclusive, AtServer
<1>12. op' = [op EXCEPT ![o] = u]
  BY <1>3, <1>4, <1>6, <1>8, <1>10 DEF Login
<1>13. Shape(u)
  BY <1>1, <1>2, <1>3, <1>5, <1>9, <1>11, Names DEF Shape, AtServer
<1>14. Sound(u)' /\ Fresh(u)'
  BY <1>1, <1>2, <1>3, <1>5, <1>6, <1>9, <1>11, Nothing
     DEF Sound, GoodLeaf, Known, Fresh, Presents, Live
<1>15. Locked(u) => Locked(op[o])
  BY <1>2, <1>3, <1>11 DEF Locked, Exclusive, AtServer
<1>16. ~Brings(op[o]) /\ ~Between(op[o])
  BY <1>2 DEF Brings, Between
<1>17. ASSUME BrowserInv PROVE Holds(u)' /\ Carries(u)' /\ SameUser(u)'
  BY <1>2, <1>3, <1>5, <1>11, <1>15, <1>17 DEF BrowserInv, Holds, Carries, SameUser, AtServer
<1> QED
  BY <1>1, <1>2, <1>11, <1>12, <1>13, <1>14, <1>15, <1>16, <1>17, EndsKnown, QuietTake

\* The headers of an ordinary request's answer arrive.
LEMMA VerifyTokenStep ==
    ASSUME ServerInv, NEW o \in Ops, VerifyToken(o)
    PROVE  ServerInv' /\ (BrowserInv => BrowserInv')
<1>1. TypeOK /\ Shape(op[o]) /\ Sound(op[o]) /\ faults' \in 0..MaxFaults
  BY DEF ServerInv, TypeOK, VerifyToken
<1>2. UNCHANGED <<tv, fam, cookie, store, tab, pending, ended, lost, faults>> /\ op[o].pc = "send"
  BY DEF VerifyToken, SendState
<1>3. ~Brings(op[o]) /\ ~Between(op[o])
  BY <1>2 DEF Brings, Between
<1>4. CASE Ends(o)
  BY <1>2, <1>3, <1>4, EndsStep
<1>5. CASE op' = [op EXCEPT ![o].pc = "denied", ![o].leaf = NoLeaf]
  <2>1. PICK v \in OpType : v = op[o]
    BY <1>1 DEF TypeOK
  <2>2. PICK u : u = [v EXCEPT !.pc = "denied", !.leaf = NoLeaf]
    OBVIOUS
  <2>3. /\ u \in OpType /\ u.pc = "denied" /\ u.kind = v.kind /\ u.tab = v.tab /\ u.exp = v.exp
        /\ u.fresh = v.fresh /\ u.leaf = NoLeaf /\ u.ans = v.ans /\ u.left = v.left
    BY <2>2, Nothing DEF OpType
  <2>4. op' = [op EXCEPT ![o] = u]
    BY <1>5, <2>1, <2>2
  <2>5. Shape(u)
    BY <1>1, <1>2, <2>1, <2>3, Nothing DEF Shape, AtServer
  <2>6. Sound(u)' /\ Fresh(u)'
    BY <1>1, <1>2, <2>1, <2>3, Nothing
       DEF Shape, Sound, GoodLeaf, Known, Fresh, Presents, Live
  <2>7. ~Locked(u) /\ Holds(u)' /\ Carries(u)' /\ SameUser(u)'
    BY <2>3 DEF Locked, Exclusive, AtServer, Holds, Carries, SameUser
  <2> QED
    BY <1>1, <1>2, <1>3, <2>3, <2>4, <2>5, <2>6, <2>7, EndsKnown, QuietTake
<1> QED
  BY <1>4, <1>5 DEF VerifyToken

----------------------------------------------------------------------------
\* One operation takes a step that is seen of it; the others may have to learn that their
\* tab has moved on.
LEMMA StepOne ==
    ASSUME ServerInv, TypeOK', Grows, NEW o \in Ops, NEW u \in OpType, op'[o] = u,
           \A x \in Ops \ {o} : Agrees(op'[x], op[x]),
           GensStay \/ Locked(op[o]), Shape(u), Sound(u)', Fresh(u)',
           Locked(u) => Locked(op[o]) \/ \A x \in Ops : ~Locked(op[x]),
           VersionRoom', CookieFresh', GoodLeaf(cookie)', Dated(cookie'),
           AllKnown', \A f \in Families : fam'[f].status = "unborn" => fam'[f].gen = 0,
           ReuseOnlyAfterLoss', EndedOrPending'
    PROVE  ServerInv'
<1>1. Mutex
  BY DEF ServerInv
<1>2. NewOp(o)
  BY DEF NewOp, Sound, Fresh, GoodLeaf, Known, Live
<1>3. \A x \in Ops \ {o} : Agrees(op'[x], op[x]) /\ (GensStay \/ ~Locked(op[x]))
  BY <1>1 DEF Mutex
<1>4. \A x \in Ops : Shape(op'[x]) /\ Sound(op[x])' /\ Fresh(op[x])'
  BY <1>2, <1>3, OpsKept
<1>5. Mutex'
  <2>1. \A x \in Ops \ {o} : Locked(op'[x]) => Locked(op[x])
    BY DEF Locked, Agrees
  <2>2. CASE Locked(u) => Locked(op[o])
    BY <1>1, <2>1, <2>2, MutexKept
  <2>3. CASE \A x \in Ops : ~Locked(op[x])
    BY <2>1, <2>3, MutexTaken
  <2> QED
    BY <2>2, <2>3
<1> QED
  BY <1>4, <1>5 DEF ServerInv, AllKnown

\* What the browser sees of it.
LEMMA BrowserOne ==
    ASSUME ServerInv, BrowserInv, TypeOK', Grows, NEW o \in Ops, NEW u \in OpType, op'[o] = u,
           \A x \in Ops \ {o} : Agrees(op'[x], op[x]),
           cookie' = cookie \/ Locked(op[o]),
           \/ store'.user = None \/ Locked(op[o])
           \/ /\ store' = store /\ tab' = tab
              /\ \A x \in Ops \ {o} : op'[x].fresh = op[x].fresh,
           Holds(u)', Carries(u)', SameUser(u)', CookieUser'
    PROVE  BrowserInv'
<1>1. Mutex
  BY DEF ServerInv
<1>2. Locked(op[o]) => \A x \in Ops \ {o} : ~Locked(op[x])
  BY <1>1 DEF Mutex
<1>3. \A x \in Ops \ {o} : Holds(op[x])' /\ Carries(op[x])' /\ SameUser(op[x])'
  BY <1>2, OtherKept
<1>4. Holds(op[o])' /\ Carries(op[o])' /\ SameUser(op[o])'
  BY DEF Holds, Carries, SameUser, Strict, Accepts, Live, Locked
<1> QED
  BY <1>3, <1>4 DEF BrowserInv

\* What is stored and shown, and what is to be ended, is known as before.
LEMMA BoundariesKept ==
    ASSUME ServerInv, Grows, UNCHANGED <<store, tab>>,
           pending' \cup ended' \subseteq pending \cup ended
    PROVE  AllKnown'
<1>1. /\ store.fam \in Families \cup {None} /\ \A t \in Tabs : tab[t].fam \in Families \cup {None}
      /\ pending \cup ended \subseteq Families
  BY DEF ServerInv, TypeOK, BoundaryType
<1>2. /\ Known(store.fam) /\ \A t \in Tabs : Known(tab[t].fam)
      /\ \A f \in pending \cup ended : Known(f)
  BY DEF ServerInv
<1> QED
  BY <1>1, <1>2 DEF AllKnown, Known, Grows

\* The compare-and-swap of the leaf: the tab that waits for it is the only one that has it.
LEMMA RotateStep ==
    ASSUME ServerInv, NEW o \in Ops, RotateAuthToken(o)
    PROVE  ServerInv' /\ (BrowserInv => BrowserInv')
<1>1. /\ UNCHANGED <<tv, cookie, store, tab, pending, ended, lost, faults>> /\ op[o].pc = "rotate"
      /\ TypeOK /\ Shape(op[o]) /\ Sound(op[o]) /\ Fresh(op[o]) /\ Mutex
      /\ GoodLeaf(cookie) /\ Dated(cookie) /\ CookieFresh
      /\ ReuseOnlyAfterLoss /\ EndedOrPending
      /\ \A f \in Families : fam[f].status = "unborn" => fam[f].gen = 0
  BY DEF RotateAuthToken, ServerInv
<1>2. PICK v \in OpType : v = op[o]
  BY <1>1 DEF TypeOK
<1>3. PICK l \in LeafType : l = v.leaf
  BY DEF OpType
<1>4. /\ v.kind = "refresh" /\ l.fam # None /\ l.fam \in Families /\ l.gen < MaxGen /\ l.gen \in Nat
      /\ GoodLeaf(l) /\ l.user \in Users
  BY <1>1, <1>2, <1>3, Names DEF Shape, Sound, LeafType, GoodLeaf
<1>5. CASE ~(Live(l.fam) /\ fam[l.fam].gen = l.gen) /\ Step(o, "reuse") /\ UNCHANGED fam
  <2>1. "reuse" \in Pcs
    BY Places
  <2>2. PICK u \in OpType : u = op'[o]
    BY <1>1, <1>5, <2>1, StepTakes
  <2>3. /\ op' = [op EXCEPT ![o] = u] /\ u.pc = "reuse" /\ u.kind = op[o].kind
        /\ u.tab = op[o].tab /\ u.exp = op[o].exp /\ u.fresh = op[o].fresh
        /\ u.leaf = op[o].leaf /\ u.ans = op[o].ans /\ u.left = op[o].left
    BY <1>1, <1>5, <2>1, <2>2, StepTakes
  <2> QED
    BY <1>1, <1>2, <1>3, <1>5, <2>3, GoesStep
<1>6. CASE /\ Live(l.fam) /\ fam[l.fam].gen = l.gen
           /\ fam' = [fam EXCEPT ![l.fam].gen = @ + 1]
           /\ op' = [op EXCEPT ![o].pc = "reply", ![o].ans = "ok", ![o].leaf.gen = @ + 1]
  <2>1. PICK k : k = [l EXCEPT !.gen = l.gen + 1]
    OBVIOUS
  <2>2. l.gen + 1 \in 0..MaxGen
    BY <1>4, Names
  <2>3. /\ k \in LeafType /\ k.gen = l.gen + 1 /\ k.fam = l.fam /\ k.user = l.user
        /\ k.tv = l.tv /\ (Dated(l) => Dated(k))
    BY <2>1, <2>2 DEF LeafType, Dated
  <2>4. PICK u : u = [v EXCEPT !.pc = "reply", !.ans = "ok", !.leaf = k]
    OBVIOUS
  <2>5. /\ u \in OpType /\ u.pc = "reply" /\ u.kind = v.kind /\ u.tab = v.tab /\ u.exp = v.exp
        /\ u.fresh = v.fresh /\ u.leaf = k /\ u.ans = "ok" /\ u.left = v.left
    BY <2>3, <2>4 DEF OpType, Exclusive, AtServer
  <2>6. op' = [op EXCEPT ![o] = u]
    BY <1>2, <1>3, <1>6, <2>1, <2>4
  <2>7. /\ op' \in [Ops -> OpType] /\ op'[o] = u /\ \A x \in Ops \ {o} : op'[x] = op[x]
    BY <1>1, <2>5, <2>6, Takes
  <2>8. /\ fam' \in [Families -> FamType] /\ fam'[l.fam].gen = l.gen + 1
        /\ fam'[l.fam].status = fam[l.fam].status
        /\ \A f \in Families \ {l.fam} : fam'[f] = fam[f]
    <3>1. PICK r \in FamType : r = fam[l.fam]
      BY <1>1, <1>4 DEF TypeOK
    <3>2. PICK n : n = [r EXCEPT !.gen = r.gen + 1]
      OBVIOUS
    <3>3. n \in FamType /\ n.gen = l.gen + 1 /\ n.status = r.status
      BY <1>6, <2>2, <3>1, <3>2 DEF FamType
    <3>4. fam' = [fam EXCEPT ![l.fam] = n]
      BY <1>6, <3>1, <3>2
    <3> QED
      BY <1>1, <1>4, <3>1, <3>3, <3>4 DEF TypeOK
  <2>9. TypeOK'
    BY <1>1, <2>7, <2>8 DEF TypeOK
  <2>10. \A f \in Families : fam[f].gen \in Nat /\ (Live(f)' <=> Live(f))
    BY <1>1, <1>4, <2>8, Names DEF TypeOK, FamType, Live
  <2>11. Grows
    <3>1. \A c \in Users : tv[c] \in Nat /\ tv'[c] = tv[c]
      BY <1>1, Names DEF TypeOK
    <3> QED
      BY <1>1, <1>4, <1>6, <2>8, <2>10, <3>1 DEF Grows
  <2>12. l.fam \in lost \/ v.tab # None
    BY <1>1, <1>2, <1>3, <1>4 DEF Fresh
  <2>13. GensStay \/ Locked(op[o])
    BY <1>1, <1>2, <2>8, <2>12 DEF GensStay, Locked, Exclusive, AtServer
  <2>14. Shape(u)
    BY <1>1, <1>2, <1>3, <1>4, <2>3, <2>5, Names DEF Shape, Mutations, AtServer
  <2>15. GoodLeaf(k)'
    <3>1. GoodLeaf(l)'
      BY <1>1, <1>4, <2>9, <2>11, GoodKept
    <3> QED
      BY <2>2, <2>3, <2>8, <3>1 DEF GoodLeaf
  <2>16. Sound(u)'
    <3>1. Known(v.exp.fam)' /\ \A f \in v.left : Known(f)'
      <4>1. v.exp.fam \in Families \cup {None} /\ v.left \subseteq Families
        BY DEF OpType, BoundaryType
      <4> QED
        BY <1>1, <1>2, <2>11, <4>1, KnownKept DEF Sound
    <3>2. Known(k.fam)'
      BY <2>15 DEF GoodLeaf, Known
    <3> QED
      BY <1>4, <2>5, <2>15, <3>1, <3>2 DEF Sound
  <2>17. Fresh(u)'
    BY <1>1, <2>3, <2>5, <2>8, <2>12 DEF Fresh, Presents
  <2>18. Locked(u) => Locked(op[o])
    BY <1>1, <1>2, <2>5 DEF Locked, Exclusive, AtServer
  <2>19. VersionRoom'
    BY <1>1, <2>5, <2>7, <2>9, RoomKept
  <2>20. PICK c \in LeafType : c = cookie
    BY <1>1 DEF TypeOK
  <2>21. GoodLeaf(c)' /\ (Strict(c)' => Strict(c))
    BY <1>1, <2>9, <2>11, <2>20, GoodKept
  <2>22. CookieFresh'
    <3>1. CASE c.fam = l.fam
      <4>1. v.tab # None => Brings(op'[o]) /\ op'[o].leaf.fam = c.fam
        BY <1>4, <2>3, <2>5, <2>7, <3>1 DEF Brings
      <4> QED
        BY <1>1, <2>12, <2>20, <3>1, <4>1 DEF CookieFresh
    <3>2. CASE c.fam # l.fam
      <4>1. c.fam \in Families \cup {None} /\ ~Brings(op[o])
        BY <1>1 DEF LeafType, Brings
      <4>2. Live(c.fam)' => c.fam \in Families /\ Live(c.fam) /\ fam'[c.fam] = fam[c.fam]
        BY <2>8, <2>10, <3>2, <4>1 DEF Live
      <4>3. \A x \in Ops : Brings(op[x]) => op'[x] = op[x]
        BY <2>7, <4>1
      <4> QED
        BY <1>1, <2>20, <4>2, <4>3 DEF CookieFresh
    <3> QED
      BY <3>1, <3>2
  <2>23. GoodLeaf(cookie)' /\ Dated(cookie')
    BY <1>1, <2>20, <2>21 DEF GoodLeaf
  <2>24. \A f \in Families : fam'[f].status = "unborn" => fam'[f].gen = 0
    BY <1>1, <1>6, <2>8 DEF Live
  <2>25. ReuseOnlyAfterLoss' /\ EndedOrPending'
    BY <1>1, <1>4, <2>8, <2>10 DEF ReuseOnlyAfterLoss, EndedOrPending, TypeOK
  <2>26. ServerInv'
    BY <1>1, <2>5, <2>7, <2>9, <2>11, <2>13, <2>14, <2>16, <2>17, <2>18, <2>19, <2>22, <2>23,
       <2>24, <2>25, BoundariesKept, StepOne DEF Agrees
  <2>27. ASSUME BrowserInv PROVE BrowserInv'
    <3>1. Holds(v) /\ SameUser(v)
      BY <1>2, <2>27 DEF BrowserInv
    <3>2. Holds(u)'
      BY <1>1, <1>2, <2>5, <2>18, <3>1 DEF Holds, AtServer
    <3>3. Carries(u)'
      BY <2>5 DEF Carries
    <3>4. Strict(k)' => Strict(l)
      BY <1>1, <1>6, <2>3 DEF Strict, Accepts
    <3>5. SameUser(u)'
      BY <1>1, <1>2, <1>3, <2>3, <2>5, <3>1, <3>4 DEF SameUser, AtServer
    <3>6. CookieUser'
      <4>1. ~Between(op[o])
        BY <1>1 DEF Between
      <4>2. \A x \in Ops : Between(op[x]) => Between(op'[x])
        BY <2>7, <4>1
      <4> QED
        BY <1>1, <2>9, <2>11, <2>27, <4>2, CookieUserKept
    <3> QED
      BY <1>1, <2>5, <2>7, <2>9, <2>11, <2>27, <3>2, <3>3, <3>5, <3>6, BrowserOne DEF Agrees
  <2> QED
    BY <2>26, <2>27
<1> QED
  BY <1>2, <1>3, <1>5, <1>6 DEF RotateAuthToken

----------------------------------------------------------------------------
\* Families end, none is born and no leaf is rotated.
Closes ==
    /\ fam' \in [Families -> FamType]
    /\ \A f \in Families :
         /\ Live(f)' => Live(f) /\ fam'[f] = fam[f]
         /\ fam'[f].status = "unborn" <=> fam[f].status = "unborn"
         /\ fam'[f].status = "unborn" => fam'[f] = fam[f]
         /\ fam'[f].status = "reused" => fam[f].status = "reused" \/ f \in lost'

\* A revocation, or none.
LEMMA RevokedCloses ==
    ASSUME TypeOK, NEW f \in Families \cup {None}, fam' \in {fam, Revoked(f)}
    PROVE  Closes /\ (fam' = Revoked(f) => ~Live(f)')
<1>1. CASE fam' = fam
  BY <1>1 DEF Closes, TypeOK, Live, Revoked
<1>2. CASE Live(f) /\ fam' = Revoked(f)
  <2>1. PICK n : n = [status |-> "over", gen |-> 0]
    OBVIOUS
  <2>2. n \in FamType /\ n.status = "over"
    BY <2>1, Names DEF FamType
  <2>3. f \in Families /\ fam' = [fam EXCEPT ![f] = n]
    BY <1>2, <2>1 DEF Revoked, Live
  <2>4. fam' \in [Families -> FamType] /\ fam'[f] = n /\ \A g \in Families \ {f} : fam'[g] = fam[g]
    BY <2>2, <2>3 DEF TypeOK
  <2> QED
    BY <1>2, <2>2, <2>3, <2>4 DEF Closes, Live
<1>3. CASE ~Live(f) /\ fam' = Revoked(f)
  BY <1>1, <1>3 DEF Revoked, Live
<1> QED
  BY <1>1, <1>2, <1>3

\* What ends does not go back.
LEMMA ClosesGrows ==
    ASSUME TypeOK, Closes, tv' = tv, lost \subseteq lost'
    PROVE  Grows /\ GensStay
<1>1. \A f \in Families : fam[f].gen \in Nat
  BY Names DEF TypeOK, FamType
<1>2. \A c \in Users : tv[c] \in Nat
  BY Names DEF TypeOK
<1> QED
  BY <1>1, <1>2 DEF Closes, Grows, GensStay

\* What was known is known, and what is shown, stored and to be ended was known.
LEMMA AllKnownKept ==
    ASSUME ServerInv, Grows, NEW K \in SUBSET Families, \A f \in K : Known(f),
           store' \in {store, Nobody}, \A t \in Tabs : tab'[t] \in {tab[t], store, Nobody},
           pending' \cup ended' \subseteq pending \cup ended \cup K
    PROVE  AllKnown'
<1>1. /\ store.fam \in Families \cup {None} /\ \A t \in Tabs : tab[t].fam \in Families \cup {None}
      /\ pending \cup ended \subseteq Families
  BY DEF ServerInv, TypeOK, BoundaryType
<1>2. /\ Known(store.fam) /\ \A t \in Tabs : Known(tab[t].fam)
      /\ \A f \in pending \cup ended : Known(f)
  BY DEF ServerInv
<1>3. \A f \in Families \cup {None} : f # None /\ fam[f].status # "unborn" => fam'[f].status # "unborn"
  BY DEF Grows
<1>4. Known(store'.fam) /\ \A t \in Tabs : Known(tab'[t].fam)
  BY <1>2, Nothing DEF Known
<1>5. store'.fam \in Families \cup {None} /\ \A t \in Tabs : tab'[t].fam \in Families \cup {None}
  BY <1>1, Nothing
<1>6. \A f \in pending' \cup ended' : f \in Families /\ Known(f)
  BY <1>1, <1>2
<1> QED
  BY <1>3, <1>4, <1>5, <1>6 DEF AllKnown, Known

\* One operation takes a step that rotates no leaf and leaves the cookie alone.
LEMMA ClosingOne ==
    ASSUME ServerInv, TypeOK', UNCHANGED <<tv, cookie>>, Closes, lost \subseteq lost',
           NEW o \in Ops, NEW u \in OpType, op'[o] = u,
           \A x \in Ops \ {o} : Agrees(op'[x], op[x]),
           Shape(u), Sound(u)', Fresh(u)',
           Brings(op[o]) => op[o].leaf.fam \in lost',
           Locked(u) => Locked(op[o]) \/ \A x \in Ops : ~Locked(op[x]),
           u.pc \in {"check", "password", "change"} => op[o].pc \in {"check", "password", "change"},
           AllKnown', \A f \in ended' : Live(f)' => f \in pending',
           BrowserInv =>
             /\ \/ store'.user = None \/ Locked(op[o])
                \/ UNCHANGED <<store, tab>> /\ \A x \in Ops \ {o} : op'[x].fresh = op[x].fresh
             /\ Holds(u)' /\ Carries(u)' /\ SameUser(u)'
             /\ CookieUser' \/ (store' = store /\ (Between(op[o]) => Between(u)))
    PROVE  ServerInv' /\ (BrowserInv => BrowserInv')
<1>1. TypeOK /\ Grows /\ GensStay
  BY ClosesGrows DEF ServerInv
<1>2. VersionRoom'
  <2>1. \A x \in Ops : op'[x].pc \in {"check", "password", "change"} => op[x].pc \in {"check", "password", "change"}
    BY DEF Agrees
  <2> QED
    BY <2>1, RoomKept
<1>3. GoodLeaf(cookie)' /\ Dated(cookie') /\ CookieFresh'
  <2>1. \A x \in Ops : Brings(op[x]) =>
          (Brings(op'[x]) /\ op'[x].leaf = op[x].leaf) \/ op[x].leaf.fam \in lost'
    BY DEF Agrees, Brings
  <2> QED
    BY <1>1, <2>1, CookieKept
<1>4. \A f \in Families : fam'[f].status = "unborn" => fam'[f].gen = 0
  BY DEF ServerInv, Closes
<1>5. ReuseOnlyAfterLoss' /\ EndedOrPending'
  BY DEF ServerInv, ReuseOnlyAfterLoss, EndedOrPending, Closes
<1>6. ServerInv'
  BY <1>1, <1>2, <1>3, <1>4, <1>5, StepOne
<1>7. ASSUME BrowserInv PROVE BrowserInv'
  <2>1. CookieUser'
    <3>1. SUFFICES ASSUME store' = store, Between(op[o]) => Between(u) PROVE CookieUser'
      BY <1>7
    <3>2. \A x \in Ops : Between(op[x]) => Between(op'[x])
      BY <3>1 DEF Agrees, Between
    <3> QED
      BY <1>1, <1>7, <3>1, <3>2, CookieUserKept
  <2>2. \/ store'.user = None \/ Locked(op[o])
        \/ UNCHANGED <<store, tab>> /\ \A x \in Ops \ {o} : op'[x].fresh = op[x].fresh
    BY <1>7
  <2>3. Holds(u)' /\ Carries(u)' /\ SameUser(u)'
    BY <1>7
  <2> QED
    BY <1>1, <1>7, <2>1, <2>2, <2>3, BrowserOne
<1> QED
  BY <1>6, <1>7

\* The reuse of a leaf is found out: only of a family that is lost.
LEMMA ReuseStep ==
    ASSUME ServerInv, NEW o \in Ops, RevokeReused(o)
    PROVE  ServerInv' /\ (BrowserInv => BrowserInv')
<1>1. /\ UNCHANGED <<tv, cookie, store, tab, pending, ended, lost, faults>> /\ op[o].pc = "reuse"
      /\ TypeOK /\ Shape(op[o]) /\ Sound(op[o]) /\ Fresh(op[o]) /\ EndedOrPending
  BY DEF RevokeReused, ServerInv
<1>2. PICK v \in OpType : v = op[o]
  BY <1>1 DEF TypeOK
<1>3. PICK f \in Families : f = v.leaf.fam
  BY <1>1, <1>2 DEF Shape, OpType, LeafType
<1>4. PICK u \in OpType : u = op'[o]
  BY <1>1, AnswersTakes DEF RevokeReused
<1>5. /\ op' = [op EXCEPT ![o] = u] /\ u.pc = "reply" /\ u.kind = v.kind /\ u.tab = v.tab
      /\ u.exp = v.exp /\ u.fresh = v.fresh /\ u.leaf = NoLeaf /\ u.ans = "unauthorized"
      /\ u.left = v.left
  BY <1>1, <1>2, <1>4, AnswersTakes DEF RevokeReused
<1>6. /\ op' \in [Ops -> OpType] /\ \A x \in Ops \ {o} : op'[x] = op[x]
  BY <1>1, <1>5, Takes
<1>7. Closes
  <2>1. CASE ~Live(f)
    BY <1>1, <1>2, <1>3, <2>1 DEF RevokeReused, Closes, TypeOK, Live
  <2>2. CASE Live(f)
    <3>1. PICK r \in FamType : r = fam[f]
      BY <1>1 DEF TypeOK
    <3>2. PICK n : n = [r EXCEPT !.status = "reused"]
      OBVIOUS
    <3>3. n \in FamType /\ n.status = "reused" /\ f \in lost
      BY <1>1, <1>2, <1>3, <2>2, <3>2 DEF FamType, Fresh
    <3>4. fam' = [fam EXCEPT ![f] = n]
      BY <1>2, <1>3, <2>2, <3>1, <3>2 DEF RevokeReused
    <3>5. fam' \in [Families -> FamType] /\ fam'[f] = n /\ \A g \in Families \ {f} : fam'[g] = fam[g]
      BY <1>1, <3>3, <3>4 DEF TypeOK
    <3> QED
      BY <1>1, <2>2, <3>3, <3>5 DEF Closes, Live
  <2> QED
    BY <2>1, <2>2
<1>8. Grows
  BY <1>1, <1>7, ClosesGrows
<1>9. TypeOK'
  BY <1>1, <1>6, <1>7 DEF TypeOK, Closes
<1>10. Shape(u)
  BY <1>1, <1>2, <1>5, Nothing, Names DEF Shape, AtServer, Mutations
<1>11. Sound(u)' /\ Fresh(u)'
  <2>1. Known(v.exp.fam)' /\ \A g \in v.left : Known(g)'
    <3>1. v.exp.fam \in Families \cup {None} /\ v.left \subseteq Families
      BY DEF OpType, BoundaryType
    <3> QED
      BY <1>1, <1>2, <1>8, <3>1, KnownKept DEF Sound
  <2>2. v.kind = "refresh"
    BY <1>1, <1>2 DEF Shape
  <2> QED
    BY <1>5, <2>1, <2>2, Nothing DEF Sound, Fresh, GoodLeaf, Known, Presents
<1>12. ~Brings(op[o]) /\ ~Between(op[o]) /\ (Locked(u) => Locked(op[o]))
  BY <1>1, <1>2, <1>5 DEF Brings, Between, Locked, Exclusive, AtServer
<1>13. AllKnown'
  BY <1>1, <1>8, BoundariesKept
<1>14. \A g \in ended' : Live(g)' => g \in pending'
  BY <1>1, <1>7 DEF EndedOrPending, Closes, TypeOK
<1>15. ASSUME BrowserInv PROVE Holds(u)' /\ Carries(u)' /\ SameUser(u)'
  <2>1. Holds(v)
    BY <1>2, <1>15 DEF BrowserInv
  <2>2. Holds(u)'
    BY <1>1, <1>2, <1>5, <1>12, <2>1 DEF Holds, AtServer
  <2> QED
    BY <1>5, <2>2, Nothing DEF Carries, SameUser, Strict, Accepts, Live
<1>16. \A x \in Ops \ {o} : Agrees(op'[x], op[x]) /\ op'[x].fresh = op[x].fresh
  BY <1>6 DEF Agrees
<1> QED
  BY <1>1, <1>4, <1>5, <1>7, <1>9, <1>10, <1>11, <1>12, <1>13, <1>14, <1>15, <1>16, ClosingOne

----------------------------------------------------------------------------
\* A family is born, and another may end.
LEMMA BornFacts ==
    ASSUME ServerInv, NEW f \in Unborn, NEW g \in Families \cup {None}, Known(g),
           fam' = Born(f, Revoked(g)), \A c \in Users : tv'[c] >= tv[c], lost' = lost
    PROVE  /\ fam' \in [Families -> FamType]
           /\ f \in Families /\ fam[f].status = "unborn" /\ Live(f)' /\ fam'[f].gen = 0
           /\ \A h \in Families \ {f} :
                /\ Live(h)' => Live(h) /\ fam'[h] = fam[h]
                /\ fam'[h].status = "unborn" => fam[h].status = "unborn" /\ fam'[h].gen = 0
                /\ fam'[h].status = "reused" => fam[h].status = "reused"
           /\ f \notin ended /\ Grows /\ GensStay /\ f # g /\ (g # None => ~Live(g)')
<1>1. /\ TypeOK /\ f \in Families /\ fam[f].status = "unborn" /\ fam[f].gen = 0
      /\ \A h \in Families : fam[h].status = "unborn" => fam[h].gen = 0
      /\ \A h \in ended : Known(h) /\ h \in Families
  BY DEF ServerInv, Unborn, TypeOK
<1>2. PICK rows \in [Families -> FamType] :
        /\ rows = Revoked(g) /\ rows[f] = fam[f]
        /\ \A h \in Families :
             /\ rows[h].status = "live" => fam[h].status = "live" /\ rows[h] = fam[h] /\ h # g
             /\ rows[h].status = "unborn" => fam[h].status = "unborn" /\ rows[h].gen = 0
             /\ rows[h].status = "reused" => fam[h].status = "reused"
  <2>1. CASE ~Live(g)
    <3>1. PICK rows \in [Families -> FamType] : rows = fam
      BY <1>1 DEF TypeOK
    <3>2. rows = Revoked(g) /\ \A h \in Families : fam[h].status = "live" => h # g
      BY <2>1, <3>1, Names DEF Revoked, Live
    <3> QED
      BY <1>1, <3>1, <3>2
  <2>2. CASE Live(g)
    <3>1. PICK n : n = [status |-> "over", gen |-> 0]
      OBVIOUS
    <3>2. n \in FamType /\ n.status = "over"
      BY <3>1, Names DEF FamType
    <3>3. g \in Families /\ Revoked(g) = [fam EXCEPT ![g] = n] /\ f # g
      BY <1>1, <2>2, <3>1 DEF Revoked, Live
    <3>4. PICK rows : rows = [fam EXCEPT ![g] = n]
      OBVIOUS
    <3>5. /\ rows \in [Families -> FamType] /\ rows[g] = n
          /\ \A h \in Families \ {g} : rows[h] = fam[h]
      BY <1>1, <3>2, <3>3, <3>4 DEF TypeOK
    <3>6. rows = Revoked(g)
      BY <3>3, <3>4
    <3>7. \A h \in Families :
             /\ rows[h].status = "live" => fam[h].status = "live" /\ rows[h] = fam[h] /\ h # g
             /\ rows[h].status = "unborn" => fam[h].status = "unborn" /\ rows[h].gen = 0
             /\ rows[h].status = "reused" => fam[h].status = "reused"
      BY <1>1, <3>2, <3>5
    <3> QED
      BY <1>1, <3>3, <3>5, <3>6, <3>7
  <2> QED
    BY <2>1, <2>2
<1>3. PICK r \in FamType : r = rows[f]
  BY <1>1
<1>4. PICK m : m = [r EXCEPT !.status = "live"]
  OBVIOUS
<1>5. m \in FamType /\ m.status = "live" /\ m.gen = 0
  BY <1>1, <1>2, <1>3, <1>4 DEF FamType
<1>6. fam' = [rows EXCEPT ![f] = m]
  BY <1>2, <1>3, <1>4 DEF Born
<1>7. fam' \in [Families -> FamType] /\ fam'[f] = m /\ \A h \in Families \ {f} : fam'[h] = rows[h]
  BY <1>1, <1>5, <1>6
<1>8. f # None /\ f # g /\ f \notin ended
  BY <1>1, Names DEF Known
<1>9. /\ Live(f)' /\ fam'[f].gen = 0
      /\ \A h \in Families \ {f} :
            /\ Live(h)' => Live(h) /\ fam'[h] = fam[h] /\ h # g
            /\ fam'[h].status = "unborn" => fam[h].status = "unborn" /\ fam'[h].gen = 0
            /\ fam'[h].status = "reused" => fam[h].status = "reused"
  BY <1>1, <1>2, <1>5, <1>7, <1>8 DEF Live
<1>10. \A h \in Families : fam[h].gen \in Nat
  BY <1>1, Names DEF TypeOK, FamType
<1>11. Grows /\ GensStay
  BY <1>1, <1>7, <1>8, <1>9, <1>10 DEF Grows, GensStay
<1> QED
  BY <1>1, <1>7, <1>8, <1>9, <1>11

\* One operation's family is born.
LEMMA BornOne ==
    ASSUME ServerInv, TypeOK', NEW o \in Ops, NEW u \in OpType, op' = [op EXCEPT ![o] = u],
           NEW f \in Unborn, NEW g \in Families \cup {None}, Known(g),
           fam' = Born(f, Revoked(g)), \A c \in Users : tv'[c] >= tv[c],
           UNCHANGED <<cookie, store, tab, pending, ended, lost>>,
           Shape(u), Sound(u)', Fresh(u)', VersionRoom', op[o].pc \in {"issue", "change"},
           Locked(u) => Locked(op[o]),
           BrowserInv => Holds(u)' /\ Carries(u)' /\ SameUser(u)'
    PROVE  ServerInv' /\ (BrowserInv => BrowserInv')
<1>1. TypeOK /\ ReuseOnlyAfterLoss /\ EndedOrPending
  BY DEF ServerInv
<1>2. op'[o] = u /\ \A x \in Ops \ {o} : op'[x] = op[x]
  BY <1>1, Takes
<1>3. Grows /\ GensStay
  BY BornFacts
<1>4. ~Brings(op[o]) /\ ~Between(op[o])
  BY DEF Brings, Between
<1>5. GoodLeaf(cookie)' /\ Dated(cookie') /\ CookieFresh'
  <2>1. \A x \in Ops : Brings(op[x]) =>
          (Brings(op'[x]) /\ op'[x].leaf = op[x].leaf) \/ op[x].leaf.fam \in lost'
    BY <1>2, <1>4
  <2> QED
    BY <1>3, <2>1, CookieKept
<1>6. AllKnown'
  BY <1>3, BoundariesKept
<1>7. \A h \in Families : fam'[h].status = "unborn" => fam'[h].gen = 0
  <2>1. fam'[f].gen = 0
    BY BornFacts
  <2>2. \A h \in Families \ {f} : fam'[h].status = "unborn" => fam'[h].gen = 0
    BY BornFacts
  <2> QED
    BY <2>1, <2>2
<1>8. ReuseOnlyAfterLoss' /\ EndedOrPending'
  <2>1. /\ Live(f)' /\ f \notin ended
        /\ \A h \in Families \ {f} : /\ Live(h)' => Live(h)
                                     /\ fam'[h].status = "reused" => fam[h].status = "reused"
    BY BornFacts
  <2> QED
    BY <1>1, <2>1 DEF ReuseOnlyAfterLoss, EndedOrPending, Live, TypeOK
<1>9. ServerInv'
  BY <1>2, <1>3, <1>5, <1>6, <1>7, <1>8, StepOne DEF Agrees
<1>10. ASSUME BrowserInv PROVE BrowserInv'
  <2>1. CookieUser'
    BY <1>2, <1>3, <1>4, <1>10, CookieUserKept
  <2>2. Holds(u)' /\ Carries(u)' /\ SameUser(u)'
    BY <1>10
  <2>3. \A x \in Ops \ {o} : Agrees(op'[x], op[x]) /\ op'[x].fresh = op[x].fresh
    BY <1>2 DEF Agrees
  <2> QED
    BY <1>2, <1>3, <1>10, <2>1, <2>2, <2>3, BrowserOne
<1> QED
  BY <1>9, <1>10

\* A login's token is issued.
LEMMA IssueStep ==
    ASSUME ServerInv, NEW o \in Ops, NEW f \in Families, IssueAuthToken(o, f)
    PROVE  ServerInv' /\ (BrowserInv => BrowserInv')
<1>1. /\ UNCHANGED <<tv, cookie, store, tab, pending, ended, lost, faults>> /\ op[o].pc = "issue"
      /\ TypeOK /\ Shape(op[o]) /\ Sound(op[o]) /\ f \in Unborn
      /\ \A c \in Users : tv'[c] >= tv[c]
  <2>1. TypeOK /\ tv' = tv
    BY DEF IssueAuthToken, ServerInv
  <2>2. \A c \in Users : tv[c] \in Nat
    BY <2>1, Names DEF TypeOK
  <2> QED
    BY <2>1, <2>2 DEF IssueAuthToken, ServerInv
<1>2. PICK v \in OpType : v = op[o]
  BY <1>1 DEF TypeOK
<1>3. PICK l \in LeafType : l = v.leaf
  BY DEF OpType
<1>4. /\ v.kind = "login" /\ l.user \in Users /\ l.fam = None /\ l.gen = 0 /\ Dated(l)
      /\ l.tv <= tv[l.user]
  BY <1>1, <1>2, <1>3, Names DEF Shape, Sound, LeafType
<1>5. PICK k : k = [l EXCEPT !.fam = f]
  OBVIOUS
<1>6. k \in LeafType /\ k.fam = f /\ k.user = l.user /\ k.gen = 0 /\ k.tv = l.tv /\ Dated(k)
  BY <1>4, <1>5 DEF LeafType, Dated
<1>7. PICK u : u = [v EXCEPT !.pc = "reply", !.ans = "ok", !.leaf = k]
  OBVIOUS
<1>8. /\ u \in OpType /\ u.pc = "reply" /\ u.kind = v.kind /\ u.tab = v.tab /\ u.exp = v.exp
      /\ u.fresh = v.fresh /\ u.leaf = k /\ u.ans = "ok" /\ u.left = v.left
  BY <1>6, <1>7 DEF OpType, Exclusive, AtServer
<1>9. op' = [op EXCEPT ![o] = u]
  BY <1>2, <1>3, <1>5, <1>7 DEF IssueAuthToken
<1>10. fam' = Born(f, Revoked(None)) /\ Known(None) /\ None \in Families \cup {None}
  BY Nothing DEF IssueAuthToken, Revoked, Known
<1>11. fam' \in [Families -> FamType] /\ Live(f)' /\ fam'[f].gen = 0 /\ Grows /\ f # None
  <2>1. f # None
    BY Names
  <2> QED
    BY <1>1, <1>10, <2>1, BornFacts
<1>12. TypeOK'
  BY <1>1, <1>8, <1>9, <1>11 DEF TypeOK
<1>13. Shape(u)
  BY <1>1, <1>2, <1>3, <1>4, <1>6, <1>8, <1>11, Names DEF Shape, AtServer, Mutations
<1>14. Sound(u)' /\ Fresh(u)'
  <2>1. Known(v.exp.fam)' /\ \A g \in v.left : Known(g)'
    <3>1. v.exp.fam \in Families \cup {None} /\ v.left \subseteq Families
      BY DEF OpType, BoundaryType
    <3> QED
      BY <1>1, <1>2, <1>11, <3>1, KnownKept DEF Sound
  <2>2. GoodLeaf(k)' /\ Known(k.fam)'
    BY <1>1, <1>4, <1>6, <1>11, Names DEF GoodLeaf, Known, Live
  <2> QED
    BY <1>4, <1>6, <1>8, <1>11, <2>1, <2>2 DEF Sound, Fresh, Presents
<1>15. Locked(u) => Locked(op[o])
  BY <1>1, <1>2, <1>8 DEF Locked, Exclusive, AtServer
<1>16. VersionRoom'
  <2>1. \A x \in Ops : op'[x].pc \in {"check", "password", "change"} => op[x].pc \in {"check", "password", "change"}
    BY <1>1, <1>8, <1>9, Takes
  <2> QED
    BY <1>1, <1>12, <2>1, RoomKept
<1>17. ASSUME BrowserInv PROVE Holds(u)' /\ Carries(u)' /\ SameUser(u)'
  BY <1>1, <1>2, <1>4, <1>8, <1>15, <1>17 DEF BrowserInv, Holds, Carries, SameUser, AtServer
<1> QED
  BY <1>1, <1>8, <1>9, <1>10, <1>12, <1>13, <1>14, <1>15, <1>16, <1>17, BornOne

\* The password is changed: a new version, a new family for this browser, the old one over.
LEMMA ChangeStep ==
    ASSUME ServerInv, NEW o \in Ops, NEW f \in Families, ChangePassword(o, f)
    PROVE  ServerInv' /\ (BrowserInv => BrowserInv')
<1>1. /\ UNCHANGED <<cookie, store, tab, pending, ended, lost, faults>> /\ op[o].pc = "change"
      /\ TypeOK /\ Shape(op[o]) /\ Sound(op[o]) /\ VersionRoom /\ f \in Unborn
  BY DEF ChangePassword, ServerInv
<1>2. PICK v \in OpType : v = op[o]
  BY <1>1 DEF TypeOK
<1>3. PICK l \in LeafType : l = v.leaf
  BY DEF OpType
<1>4. /\ v.kind = "change" /\ l.fam \in Families /\ l.user \in Users /\ Known(l.fam)
  BY <1>1, <1>2, <1>3, Names DEF Shape, Sound, GoodLeaf, LeafType
<1>5. o \in Changers /\ Changers \subseteq Ops /\ IsFiniteSet(Changers)
  <2>1. o \in Changers /\ Changers \subseteq Ops
    BY <1>1 DEF Changers
  <2> QED
    BY <2>1, Names, FS_Subset
<1>6. Cardinality(Changers) \in Nat /\ Cardinality(Changers) >= 1
  <2>1. Cardinality(Changers) \in Nat /\ Cardinality(Changers) # 0
    BY <1>5, FS_CardinalityType, FS_EmptySet
  <2> QED
    BY <2>1
<1>7. PICK n \in Nat : n = tv[l.user]
  BY <1>1, <1>4, Names DEF TypeOK
<1>8. n + 1 \in 0..MaxVersion
  BY <1>1, <1>4, <1>6, <1>7, Names DEF VersionRoom
<1>9. PICK k : k = [l EXCEPT !.fam = f, !.gen = 0, !.tv = n + 1, !.late = (n # l.by),
                             !.by = IF n # l.by THEN l.by ELSE n + 1]
  OBVIOUS
<1>10. 0 \in 0..MaxGen
  BY Names
<1>11. /\ k \in LeafType /\ k.fam = f /\ k.user = l.user /\ k.gen = 0 /\ k.tv = n + 1
       /\ Dated(k)
  BY <1>8, <1>9, <1>10 DEF LeafType, Dated
<1>12. PICK u : u = [v EXCEPT !.pc = "reply", !.ans = "ok", !.leaf = k]
  OBVIOUS
<1>13. /\ u \in OpType /\ u.pc = "reply" /\ u.kind = v.kind /\ u.tab = v.tab /\ u.exp = v.exp
       /\ u.fresh = v.fresh /\ u.leaf = k /\ u.ans = "ok" /\ u.left = v.left
  BY <1>11, <1>12 DEF OpType, Exclusive, AtServer
<1>14. /\ op' = [op EXCEPT ![o] = u] /\ fam' = Born(f, Revoked(l.fam))
       /\ tv' = [tv EXCEPT ![l.user] = n + 1]
  BY <1>2, <1>3, <1>7, <1>9, <1>12 DEF ChangePassword
<1>15. /\ tv' \in [Users -> 0..MaxVersion] /\ tv'[l.user] = n + 1
       /\ \A c \in Users \ {l.user} : tv'[c] = tv[c]
  BY <1>1, <1>4, <1>8, <1>14 DEF TypeOK
<1>16. \A c \in Users : tv[c] \in Nat /\ tv'[c] >= tv[c]
  BY <1>1, <1>7, <1>15, Names DEF TypeOK
<1>17. fam' \in [Families -> FamType] /\ Live(f)' /\ fam'[f].gen = 0 /\ Grows /\ f # None
  <2>1. f # None
    BY Names
  <2> QED
    BY <1>1, <1>4, <1>14, <1>16, <2>1, BornFacts
<1>18. TypeOK'
  BY <1>1, <1>13, <1>14, <1>15, <1>17 DEF TypeOK
<1>19. Shape(u)
  BY <1>1, <1>2, <1>4, <1>11, <1>13, <1>17, Names DEF Shape, AtServer, Mutations
<1>20. Sound(u)' /\ Fresh(u)'
  <2>1. Known(v.exp.fam)' /\ \A g \in v.left : Known(g)'
    <3>1. v.exp.fam \in Families \cup {None} /\ v.left \subseteq Families
      BY DEF OpType, BoundaryType
    <3> QED
      BY <1>1, <1>2, <1>17, <3>1, KnownKept DEF Sound
  <2>2. GoodLeaf(k)' /\ Known(k.fam)'
    BY <1>4, <1>11, <1>15, <1>17, Names DEF GoodLeaf, Known, Live
  <2> QED
    BY <1>4, <1>11, <1>13, <1>17, <2>1, <2>2 DEF Sound, Fresh, Presents
<1>21. Locked(u) => Locked(op[o])
  BY <1>1, <1>2, <1>13 DEF Locked, Exclusive, AtServer
<1>22. VersionRoom'
  <2>1. Changers' = Changers \ {o}
    BY <1>1, <1>13, <1>14, Takes DEF Changers
  <2>2. Cardinality(Changers') = Cardinality(Changers) - 1
    BY <1>5, <2>1, FS_RemoveElement
  <2>3. \A c \in Users : tv'[c] \in Nat /\ tv'[c] <= tv[c] + 1
    BY <1>7, <1>15, <1>16, Names
  <2>4. \A c \in Users : tv[c] + Cardinality(Changers) <= MaxVersion
    BY <1>1 DEF VersionRoom
  <2> QED
    BY <1>6, <1>16, <2>2, <2>3, <2>4, Names DEF VersionRoom
<1>23. ASSUME BrowserInv PROVE Holds(u)' /\ Carries(u)' /\ SameUser(u)'
  <2>1. Holds(v) /\ SameUser(v)
    BY <1>2, <1>23 DEF BrowserInv
  <2>2. Holds(u)'
    BY <1>1, <1>2, <1>13, <1>21, <2>1 DEF Holds, AtServer
  <2>3. Carries(u)'
    BY <1>13 DEF Carries
  <2>4. SameUser(u)'
    BY <1>1, <1>2, <1>3, <1>11, <1>13, <2>1 DEF SameUser
  <2> QED
    BY <2>2, <2>3, <2>4
<1> QED
  BY <1>1, <1>4, <1>13, <1>14, <1>16, <1>18, <1>19, <1>20, <1>21, <1>22, <1>23, BornOne

\* The password is reset by a link: no family ends, its leaves are refused.
LEMMA ResetStep ==
    ASSUME ServerInv, NEW c \in Users, ResetPassword(c)
    PROVE  ServerInv' /\ (BrowserInv => BrowserInv')
<1>1. /\ UNCHANGED <<fam, cookie, store, tab, pending, op, ended, lost, faults>> /\ MayChange(c)
      /\ TypeOK /\ Mutex /\ \A x \in Ops : Shape(op[x])
      /\ ReuseOnlyAfterLoss /\ EndedOrPending
  BY DEF ResetPassword, ServerInv
<1>2. PICK n \in Nat : n = tv[c]
  BY <1>1, Names DEF TypeOK
<1>3. Changers \subseteq Changing /\ Changing \subseteq Ops
  BY <1>1 DEF Changers, Changing, Shape
<1>4. /\ IsFiniteSet(Changing) /\ IsFiniteSet(Changers)
  BY <1>3, Names, FS_Subset
<1>5. /\ Cardinality(Changers) <= Cardinality(Changing)
      /\ Cardinality(Changers) \in Nat /\ Cardinality(Changing) \in Nat
  BY <1>3, <1>4, FS_Subset, FS_CardinalityType
<1>6. \A d \in Users : tv[d] \in Nat /\ tv[d] + Cardinality(Changers) < MaxVersion
  BY <1>1, <1>5, Names DEF MayChange, TypeOK
<1>7. n + 1 \in 0..MaxVersion
  BY <1>2, <1>5, <1>6, Names
<1>8. tv' = [tv EXCEPT ![c] = n + 1]
  BY <1>2 DEF ResetPassword
<1>9. /\ tv' \in [Users -> 0..MaxVersion] /\ tv'[c] = n + 1
      /\ \A d \in Users \ {c} : tv'[d] = tv[d]
  BY <1>1, <1>7, <1>8 DEF TypeOK
<1>10. TypeOK'
  BY <1>1, <1>9 DEF TypeOK
<1>11. \A d \in Users : tv'[d] \in Nat /\ tv'[d] >= tv[d] /\ tv'[d] <= tv[d] + 1
  BY <1>2, <1>6, <1>9
<1>12. Grows /\ GensStay
  <2>1. \A f \in Families : fam[f].gen \in Nat
    BY <1>1, Names DEF TypeOK, FamType
  <2> QED
    BY <1>1, <1>11, <2>1 DEF Grows, GensStay, Live
<1>13. \A x \in Ops : Agrees(op'[x], op[x])
  BY <1>1 DEF Agrees
<1>14. \A x \in Ops : Shape(op'[x]) /\ Sound(op[x])' /\ Fresh(op[x])'
  BY <1>10, <1>12, <1>13, OpsKept
<1>15. GoodLeaf(cookie)' /\ Dated(cookie') /\ CookieFresh'
  BY <1>1, <1>10, <1>12, CookieKept
<1>16. AllKnown'
  BY <1>1, <1>12, BoundariesKept
<1>17. VersionRoom'
  <2>1. Changers' = Changers
    BY <1>1 DEF Changers
  <2> QED
    BY <1>5, <1>6, <1>11, <2>1, Names DEF VersionRoom
<1>18. Mutex'
  BY <1>1, MutexKept
<1>19. ReuseOnlyAfterLoss' /\ EndedOrPending'
  BY <1>1 DEF ReuseOnlyAfterLoss, EndedOrPending, Live
<1>20. (\A f \in Families : fam[f].status = "unborn" => fam[f].gen = 0)'
  BY <1>1 DEF ServerInv
<1>21. ServerInv'
  BY <1>10, <1>14, <1>15, <1>16, <1>17, <1>18, <1>19, <1>20 DEF ServerInv, AllKnown
<1>22. ASSUME BrowserInv PROVE BrowserInv'
  <2>1. \A x \in Ops : Holds(op[x])' /\ Carries(op[x])' /\ SameUser(op[x])'
    BY <1>1, <1>10, <1>12, <1>13, <1>22, OtherKept
  <2>2. CookieUser'
    BY <1>1, <1>10, <1>12, <1>22, CookieUserKept
  <2> QED
    BY <2>1, <2>2 DEF BrowserInv
<1> QED
  BY <1>21, <1>22

----------------------------------------------------------------------------
\* The answer's headers arrive: the cookie has the leaf that the server has.
LEMMA DeliverStep ==
    ASSUME ServerInv, NEW o \in Ops, Deliver(o)
    PROVE  ServerInv' /\ (BrowserInv => BrowserInv')
<1>1. /\ UNCHANGED <<tv, fam, store, tab, pending, ended, lost, faults>> /\ op[o].pc = "reply"
      /\ TypeOK /\ Shape(op[o]) /\ Sound(op[o]) /\ Fresh(op[o])
      /\ GoodLeaf(cookie) /\ Dated(cookie) /\ CookieFresh
      /\ ReuseOnlyAfterLoss /\ EndedOrPending
      /\ \A f \in Families : fam[f].status = "unborn" => fam[f].gen = 0
  BY DEF Deliver, ServerInv
<1>2. PICK v \in OpType : v = op[o]
  BY <1>1 DEF TypeOK
<1>3. CASE v.tab = None
  <2>1. ~Brings(op[o]) /\ ~Between(op[o])
    BY <1>2, <1>3 DEF Brings, Between
  <2> QED
    BY <1>1, <1>2, <1>3, <2>1, EndsStep DEF Deliver
<1>4. CASE v.tab # None
  <2>1. "body" \in Pcs /\ Step(o, "body")
    BY <1>2, <1>4, Places DEF Deliver
  <2>2. cookie' = CASE v.ans = "ok" -> v.leaf [] v.ans = "unauthorized" -> NoLeaf
                    [] OTHER -> cookie
    BY <1>2, <1>4 DEF Deliver
  <2>3. PICK u \in OpType : u = op'[o]
    BY <1>1, <2>1, StepTakes
  <2>4. /\ op' = [op EXCEPT ![o] = u] /\ u.pc = "body" /\ u.kind = v.kind /\ u.tab = v.tab
        /\ u.exp = v.exp /\ u.fresh = v.fresh /\ u.leaf = v.leaf /\ u.ans = v.ans
        /\ u.left = v.left
    BY <1>1, <1>2, <2>1, <2>3, StepTakes
  <2>5. op' \in [Ops -> OpType] /\ \A x \in Ops \ {o} : op'[x] = op[x]
    BY <1>1, <2>4, Takes
  <2>6. /\ v.ans = "ok" => cookie' = v.leaf
        /\ v.ans = "unauthorized" => cookie' = NoLeaf
        /\ v.ans \notin {"ok", "unauthorized"} => cookie' = cookie
    BY <2>2
  <2>7. TypeOK'
    <3>1. v.leaf \in LeafType
      BY DEF OpType
    <3> QED
      BY <1>1, <2>5, <2>6, <3>1, Nothing DEF TypeOK
  <2>8. Grows /\ GensStay
    BY <1>1, ServerStays
  <2>9. Shape(u)
    BY <1>1, <1>2, <1>4, <2>4 DEF Shape, AtServer
  <2>10. Sound(u)' /\ Fresh(u)'
    BY <1>1, <1>2, <1>4, <2>4 DEF Sound, Fresh, Presents, GoodLeaf, Known, Live
  <2>11. Locked(op[o])
    BY <1>1, <1>2, <1>4 DEF Locked, Exclusive, AtServer
  <2>12. VersionRoom'
    BY <1>1, <2>4, <2>5, <2>7, RoomKept
  <2>13. GoodLeaf(cookie)' /\ Dated(cookie')
    BY <1>1, <1>2, <2>6, Nothing DEF Shape, Sound, GoodLeaf, Live
  <2>14. CookieFresh'
    <3>1. CASE v.ans = "ok"
      BY <1>1, <1>2, <1>4, <2>6, <3>1 DEF CookieFresh, Fresh, Presents, Live
    <3>2. CASE v.ans = "unauthorized"
      BY <2>6, <3>2, Nothing DEF CookieFresh, Live
    <3>3. CASE v.ans \notin {"ok", "unauthorized"}
      <4>1. \A x \in Ops : Brings(op[x]) => op'[x] = op[x]
        BY <1>2, <2>5, <3>3 DEF Brings
      <4> QED
        BY <1>1, <2>6, <3>3, <4>1 DEF CookieFresh, Live
    <3> QED
      BY <3>1, <3>2, <3>3
  <2>15. AllKnown'
    BY <1>1, <2>8, BoundariesKept
  <2>16. ReuseOnlyAfterLoss' /\ EndedOrPending'
    BY <1>1 DEF ReuseOnlyAfterLoss, EndedOrPending, Live
  <2>17. \A f \in Families : fam'[f].status = "unborn" => fam'[f].gen = 0
    BY <1>1
  <2>18. \A x \in Ops \ {o} : Agrees(op'[x], op[x]) /\ op'[x].fresh = op[x].fresh
    BY <2>5 DEF Agrees
  <2>19. ServerInv'
    BY <2>3, <2>7, <2>8, <2>9, <2>10, <2>11, <2>12, <2>13, <2>14, <2>15, <2>16, <2>17, <2>18, StepOne
  <2>20. ASSUME BrowserInv PROVE BrowserInv'
    <3>1. Holds(v) /\ SameUser(v)
      BY <1>2, <2>20 DEF BrowserInv
    <3>2. Holds(u)'
      BY <1>1, <1>2, <2>4, <2>11, <3>1 DEF Holds, AtServer
    <3>3. Carries(u)'
      BY <2>4, <2>6 DEF Carries
    <3>4. SameUser(u)'
      BY <1>1, <1>2, <2>4, <3>1 DEF SameUser, AtServer, Strict, Accepts, Live
    <3>5. CookieUser'
      <4>1. CASE v.ans = "ok" /\ v.kind = "login"
        <5>1. Between(op'[o])
          BY <1>4, <2>3, <2>4, <4>1 DEF Between
        <5> QED
          BY <5>1 DEF CookieUser, Between
      <4>2. CASE v.ans = "ok" /\ v.kind # "login"
        <5>1. store.user # None => store = v.exp
          BY <1>1, <1>2, <2>11, <3>1 DEF Holds, AtServer
        <5>2. v.exp.user # None /\ Strict(v.leaf) => v.leaf.user = v.exp.user
          BY <1>1, <1>2, <1>4, <3>1, <4>2 DEF SameUser, AtServer
        <5> QED
          BY <1>1, <2>6, <4>2, <5>1, <5>2 DEF CookieUser, Strict, Accepts, Live
      <4>3. CASE v.ans = "unauthorized"
        BY <2>6, <4>3, Nothing DEF CookieUser, Strict, Accepts, Live
      <4>4. CASE v.ans \notin {"ok", "unauthorized"}
        <5>1. \A x \in Ops : Between(op[x]) => Between(op'[x])
          BY <1>1, <1>2, <2>5 DEF Between
        <5> QED
          BY <1>1, <2>6, <2>7, <2>8, <2>20, <4>4, <5>1, CookieUserKept
      <4> QED
        BY <4>1, <4>2, <4>3, <4>4
    <3> QED
      BY <1>1, <2>3, <2>7, <2>8, <2>11, <2>18, <2>20, <3>2, <3>3, <3>4, <3>5, BrowserOne
  <2> QED
    BY <2>19, <2>20
<1> QED
  BY <1>3, <1>4

\* A tab stops waiting for what it has asked the server for.
CutOff(v) == [v EXCEPT !.tab = None, !.fresh = FALSE,
                       !.exp = IF v.pc = "verify" THEN v.exp ELSE Nobody]
\* What it leaves at the server meets the conditions, and is lost if it was a refresh.
LEMMA CutFits ==
    ASSUME NEW v \in OpType, Shape(v), Sound(v), Fresh(v), v.pc \in AtServer,
           UNCHANGED <<tv, fam>>, lost \subseteq lost',
           v.kind = "refresh" => v.leaf.fam \in lost' \cup {None}
    PROVE  /\ CutOff(v) \in OpType /\ Shape(CutOff(v)) /\ Sound(CutOff(v))' /\ Fresh(CutOff(v))'
           /\ ~Locked(CutOff(v)) /\ CutOff(v).pc = v.pc /\ (Brings(v) => v.leaf.fam \in lost')
           /\ Holds(CutOff(v))' /\ Carries(CutOff(v))' /\ SameUser(CutOff(v))'
<1>1. PICK e \in BoundaryType : e = IF v.pc = "verify" THEN v.exp ELSE Nobody
  BY Nothing DEF OpType
<1>2. PICK u : u = [v EXCEPT !.tab = None, !.fresh = FALSE, !.exp = e]
  OBVIOUS
<1>3. /\ u \in OpType /\ u.pc = v.pc /\ u.kind = v.kind /\ u.tab = None /\ u.exp = e
      /\ u.fresh = FALSE /\ u.leaf = v.leaf /\ u.ans = v.ans /\ u.left = v.left
  BY <1>2 DEF OpType
<1>4. u = CutOff(v)
  BY <1>1, <1>2 DEF CutOff
<1>5. Shape(u)
  BY <1>3 DEF Shape, AtServer
<1>6. Sound(u)'
  <2>1. Known(e.fam)
    BY <1>1, Nothing DEF Sound, Known
  <2>2. v.pc # "undo" /\ v.kind # "logout"
    BY DEF Shape, AtServer
  <2> QED
    BY <1>3, <2>1, <2>2 DEF Sound, Known, GoodLeaf, Live
<1>7. Fresh(u)'
  BY <1>3 DEF Fresh, Live
<1>8. ~Locked(u) /\ (Brings(v) => v.leaf.fam \in lost')
  BY <1>3 DEF Locked, Brings, Shape
<1>9. Holds(u)' /\ Carries(u)' /\ SameUser(u)'
  BY <1>3 DEF Locked, Holds, Carries, SameUser
<1> QED
  BY <1>3, <1>4, <1>5, <1>6, <1>7, <1>8, <1>9
     DEF Sound, Fresh, Holds, Carries, SameUser, Known, GoodLeaf, Live, Locked, Strict, Accepts

\* The server and what is to be ended are as they were.
LEMMA NothingCloses ==
    ASSUME ServerInv, UNCHANGED <<tv, fam>>, lost \subseteq lost'
    PROVE  Closes /\ Grows
<1>1. TypeOK
  BY DEF ServerInv
<1>2. Closes
  BY <1>1 DEF Closes, TypeOK, Live
<1> QED
  BY <1>1, <1>2, ClosesGrows

\* The connection breaks.
LEMMA DropStep ==
    ASSUME ServerInv, NEW o \in Ops, Drop(o)
    PROVE  ServerInv' /\ (BrowserInv => BrowserInv')
<1>1. /\ UNCHANGED <<tv, fam, cookie, store, tab, pending, ended>> /\ op[o].pc \in AtServer
      /\ TypeOK /\ Shape(op[o]) /\ Sound(op[o]) /\ Fresh(op[o]) /\ EndedOrPending
      /\ faults' \in 0..MaxFaults
  BY Names DEF Drop, ServerInv, TypeOK, Fault
<1>2. PICK v \in OpType : v = op[o]
  BY <1>1 DEF TypeOK
<1>3. lost' = lost \cup (IF v.kind = "refresh" THEN {v.leaf.fam} \ {None} ELSE {})
  BY <1>2 DEF Drop
<1>4. v.leaf.fam \in Families \cup {None}
  BY DEF OpType, LeafType
<1>5. /\ lost \subseteq lost' /\ lost' \in SUBSET Families
      /\ v.kind = "refresh" => v.leaf.fam \in lost' \cup {None}
  BY <1>1, <1>3, <1>4 DEF TypeOK
<1>6. PICK u : u = CutOff(v)
  OBVIOUS
<1>7. /\ u \in OpType /\ Shape(u) /\ Sound(u)' /\ Fresh(u)' /\ ~Locked(u) /\ u.pc = v.pc
      /\ Brings(v) => v.leaf.fam \in lost'
      /\ Holds(u)' /\ Carries(u)' /\ SameUser(u)'
  BY <1>1, <1>2, <1>5, <1>6, CutFits
     DEF Sound, Fresh, Holds, Carries, SameUser, Known, GoodLeaf, Live, Locked, Strict, Accepts
<1>8. op' = [op EXCEPT ![o] = u]
  BY <1>2, <1>6 DEF Drop, CutOff
<1>9. op'[o] = u /\ op' \in [Ops -> OpType] /\ \A x \in Ops \ {o} : op'[x] = op[x]
  BY <1>1, <1>7, <1>8, Takes
<1>10. TypeOK'
  BY <1>1, <1>5, <1>9 DEF TypeOK
<1>11. Closes /\ Grows
  BY <1>1, <1>5, NothingCloses
<1>12. AllKnown'
  BY <1>1, <1>11, BoundariesKept
<1>13. \A f \in ended' : Live(f)' => f \in pending'
  BY <1>1 DEF EndedOrPending, Live
<1>14. \A x \in Ops \ {o} : Agrees(op'[x], op[x]) /\ op'[x].fresh = op[x].fresh
  BY <1>9 DEF Agrees
<1>15. ~Between(op[o])
  BY <1>1 DEF Between, AtServer
<1> QED
  BY <1>1, <1>2, <1>5, <1>7, <1>9, <1>10, <1>11, <1>12, <1>13, <1>14, <1>15, ClosingOne

\* A new session that the tab cannot take over is to be ended.
LEMMA UndoFits ==
    ASSUME ServerInv, NEW o \in Ops, op[o].pc \in {"body", "switch"}, op[o].leaf.fam # None,
           BeginUndo(o), UNCHANGED <<tv, fam, cookie, lost>>, faults' \in 0..MaxFaults
    PROVE  ServerInv' /\ (BrowserInv => BrowserInv')
<1>1. UNCHANGED <<store, tab>> /\ TypeOK /\ Shape(op[o]) /\ Sound(op[o])
  BY DEF BeginUndo, ServerInv
<1>2. PICK v \in OpType : v = op[o]
  BY <1>1 DEF TypeOK
<1>3. PICK f \in Families : f = v.leaf.fam
  BY <1>2 DEF OpType, LeafType
<1>4. PICK k : k = [NoLeaf EXCEPT !.fam = f]
  OBVIOUS
<1>5. k \in LeafType /\ k.fam = f /\ k.user = None /\ k.gen = 0 /\ k.tv = 0 /\ Dated(k)
  BY <1>4, Nothing DEF NoLeaf, LeafType, Dated
<1>6. PICK u : u = [v EXCEPT !.pc = "undo", !.exp = Nobody, !.ans = None, !.leaf = k]
  OBVIOUS
<1>7. /\ u \in OpType /\ u.pc = "undo" /\ u.kind = v.kind /\ u.tab = v.tab /\ u.exp = Nobody
      /\ u.fresh = v.fresh /\ u.leaf = k /\ u.ans = None /\ u.left = v.left
  BY <1>5, <1>6, Nothing DEF OpType, Exclusive, AtServer
<1>8. op' = [op EXCEPT ![o] = u]
  BY <1>2, <1>3, <1>4, <1>6 DEF BeginUndo
<1>9. v.tab # None /\ v.kind \in Mutations
  BY <1>1, <1>2 DEF Shape, AtServer, Mutations
<1>10. Shape(u)
  BY <1>5, <1>7, <1>9, Names DEF Shape, AtServer, Mutations
<1>11. Known(f)
  BY <1>1, <1>2, <1>3 DEF Sound
<1>12. Sound(u)' /\ Fresh(u)'
  BY <1>1, <1>2, <1>5, <1>7, <1>9, <1>11, Nothing
     DEF Sound, Fresh, Known, GoodLeaf, Presents, Mutations, Live
<1>13. ~Brings(op[o]) /\ Locked(op[o])
  BY <1>2, <1>9 DEF Brings, Locked, Exclusive
<1>14. pending' = pending \cup {f} /\ ended' = ended \cup {f}
  BY <1>2, <1>3 DEF BeginUndo
<1>15. /\ pending' \in SUBSET Families /\ ended' \in SUBSET Families
       /\ \A g \in pending' \cup ended' : Known(g)
       /\ \A g \in ended' : g \in pending' \/ (g \in ended /\ g \notin pending)
  BY <1>1, <1>11, <1>14 DEF ServerInv, TypeOK
<1>16. ASSUME BrowserInv PROVE Holds(u)' /\ Carries(u)' /\ SameUser(u)' /\ (Between(op[o]) => Between(u))
  <2>1. Holds(v)
    BY <1>2, <1>16 DEF BrowserInv
  <2>2. Holds(u)'
    BY <1>1, <1>2, <1>7, <1>13, <2>1 DEF Holds, Locked, AtServer
  <2>3. Carries(u)' /\ SameUser(u)'
    BY <1>7 DEF Carries, SameUser, AtServer
  <2>4. Between(op[o]) => Between(u)
    BY <1>2, <1>7 DEF Between
  <2> QED
    BY <2>2, <2>3, <2>4
<1> QED
  BY <1>1, <1>7, <1>8, <1>10, <1>12, <1>13, <1>15, <1>16, QuietTake

----------------------------------------------------------------------------
\* The tab of an operation shows another boundary.
LEMMA MovesFacts ==
    ASSUME TypeOK, NEW o \in Ops, op[o].tab \in Tabs, NEW b \in BoundaryType, NEW u \in OpType,
           Moves(o, b, u)
    PROVE  /\ op' \in [Ops -> OpType] /\ op'[o] = u
           /\ \A x \in Ops \ {o} : Agrees(op'[x], op[x])
           /\ tab' \in [Tabs -> BoundaryType] /\ tab'[op[o].tab] = b
           /\ \A t \in Tabs : tab'[t] \in {tab[t], b}
<1>1. /\ tab' \in [Tabs -> BoundaryType] /\ tab'[op[o].tab] = b
      /\ \A t \in Tabs : tab'[t] \in {tab[t], b}
  BY DEF TypeOK, Moves
<1>2. op'[o] = u
  BY DEF Moves
<1>3. ASSUME NEW x \in Ops \ {o} PROVE op'[x] \in OpType /\ Agrees(op'[x], op[x])
  <2>1. PICK v \in OpType : v = op[x]
    BY DEF TypeOK
  <2>2. PICK w : w = [v EXCEPT !.fresh = FALSE]
    OBVIOUS
  <2>3. w \in OpType /\ Agrees(w, v) /\ Agrees(v, v)
    BY <2>2 DEF OpType, Agrees
  <2>4. op'[x] = w \/ op'[x] = v
    BY <2>1, <2>2 DEF Moves
  <2> QED
    BY <2>1, <2>3, <2>4
<1>4. op' = [x \in Ops |-> op'[x]]
  BY DEF Moves
<1> QED
  BY <1>1, <1>2, <1>3, <1>4

\* An operation gives its tab the boundary that it stores: nobody, or what it has the lock for.
LEMMA MovesStep ==
    ASSUME ServerInv, UNCHANGED <<tv, cookie, lost>>, Closes, NEW o \in Ops,
           op[o].tab \in Tabs, NEW b \in BoundaryType, Known(b.fam), NEW u \in OpType,
           Moves(o, b, u), store' = b,
           pending' \in SUBSET Families, ended' \in SUBSET Families, faults' \in 0..MaxFaults,
           Shape(u), Sound(u)', Fresh(u)', ~Brings(op[o]),
           Locked(u) => Locked(op[o]) \/ \A x \in Ops : ~Locked(op[x]),
           u.pc \notin {"check", "password", "change"},
           \A f \in pending' \cup ended' : Known(f), \A f \in ended' : Live(f)' => f \in pending',
           BrowserInv => /\ Carries(u)' /\ SameUser(u)'
                         /\ b.user = None \/ (Locked(op[o]) /\ Holds(u)' /\ CookieUser')
    PROVE  ServerInv' /\ (BrowserInv => BrowserInv')
<1>1. TypeOK /\ Grows
  BY ClosesGrows DEF ServerInv
<1>2. /\ op' \in [Ops -> OpType] /\ op'[o] = u
      /\ \A x \in Ops \ {o} : Agrees(op'[x], op[x])
      /\ tab' \in [Tabs -> BoundaryType] /\ \A t \in Tabs : tab'[t] \in {tab[t], b}
  BY <1>1, MovesFacts
<1>3. TypeOK'
  BY <1>1, <1>2 DEF TypeOK, Closes
<1>4. AllKnown'
  <2>1. \A f \in Families \cup {None} : Known(f) => (f # None => fam'[f].status # "unborn")
    BY <1>1 DEF Grows, Known
  <2>2. Known(store'.fam) /\ store'.fam \in Families \cup {None}
    BY DEF BoundaryType
  <2>3. \A t \in Tabs : Known(tab'[t].fam) /\ tab'[t].fam \in Families \cup {None}
    BY <1>2 DEF ServerInv, BoundaryType
  <2>4. \A f \in pending' \cup ended' : Known(f) /\ f \in Families \cup {None}
    OBVIOUS
  <2> QED
    BY <2>1, <2>2, <2>3, <2>4 DEF AllKnown, Known
<1>5. ASSUME BrowserInv
      PROVE  /\ store'.user = None \/ Locked(op[o])
             /\ Holds(u)' /\ Carries(u)' /\ SameUser(u)' /\ CookieUser'
  <2>1. CASE b.user = None
    BY <1>5, <2>1 DEF Holds, CookieUser
  <2>2. CASE Locked(op[o]) /\ Holds(u)' /\ CookieUser'
    BY <1>5, <2>2
  <2> QED
    BY <1>5, <2>1, <2>2
<1> QED
  BY <1>2, <1>3, <1>4, <1>5, ClosingOne

\* The tab of an operation that goes becomes anonymous, or is no longer the operation's.
LEMMA AnonymousStep ==
    ASSUME ServerInv, UNCHANGED <<tv, cookie, lost>>, Closes, NEW o \in Ops,
           op[o].tab \in Tabs, op[o].pc \in {"undo", "forget", "denied"}, NEW u \in OpType,
           Anonymous(o, u),
           pending' \in SUBSET Families, ended' \in SUBSET Families, faults' \in 0..MaxFaults,
           Shape(u), Sound(u)', Fresh(u)', u.pc \in {"idle", "undo", "wipe"},
           Locked(u) => Locked(op[o]) \/ \A x \in Ops : ~Locked(op[x]),
           \A f \in pending' \cup ended' : Known(f), \A f \in ended' : Live(f)' => f \in pending'
    PROVE  ServerInv' /\ (BrowserInv => BrowserInv')
<1>1. TypeOK /\ Grows
  BY ClosesGrows DEF ServerInv
<1>2. ~Brings(op[o])
  BY DEF Brings
<1>3. CASE op[o].fresh
  <2>1. Moves(o, Nobody, u) /\ store' = Nobody /\ Nobody \in BoundaryType /\ Known(Nobody.fam)
    BY <1>3, Nothing DEF Anonymous, Known
  <2>2. Carries(u)' /\ SameUser(u)'
    BY DEF Carries, SameUser, AtServer
  <2>3. Nobody.user = None
    BY Nothing
  <2> QED
    BY <1>2, <2>1, <2>2, <2>3, MovesStep
<1>4. CASE ~op[o].fresh
  <2>1. op' = [op EXCEPT ![o] = Idle] /\ UNCHANGED <<tab, store>> /\ Idle \in OpType
    BY <1>4, Nothing DEF Anonymous
  <2>2. op' \in [Ops -> OpType] /\ op'[o] = Idle /\ \A x \in Ops \ {o} : op'[x] = op[x]
    BY <1>1, <2>1, Takes
  <2>3. TypeOK'
    BY <1>1, <2>1, <2>2 DEF TypeOK, Closes
  <2>4. AllKnown'
    <3>1. PICK K \in SUBSET Families : K = pending' \cup ended'
      OBVIOUS
    <3>2. \A f \in K : Known(f)
      BY <3>1
    <3> QED
      BY <1>1, <2>1, <3>1, <3>2, AllKnownKept
  <2>5. Shape(Idle) /\ Sound(Idle)' /\ Fresh(Idle)' /\ ~Locked(Idle) /\ Idle.pc = "idle"
    BY IdleFits, Nothing
  <2>6. \A x \in Ops \ {o} : Agrees(op'[x], op[x]) /\ op'[x].fresh = op[x].fresh
    BY <2>2 DEF Agrees
  <2>7. ASSUME BrowserInv
        PROVE  /\ Holds(Idle)' /\ Carries(Idle)' /\ SameUser(Idle)'
               /\ CookieUser' \/ (store' = store /\ (Between(op[o]) => Between(Idle)))
    <3>1. CASE ~Between(op[o])
      BY <2>1, <3>1, IdleFits
    <3>2. CASE Between(op[o])
      <4>1. Locked(op[o]) /\ Holds(op[o])
        BY <2>7, <3>2 DEF Between, Locked, Exclusive, BrowserInv
      <4>2. store'.user = None
        BY <1>4, <2>1, <4>1 DEF Holds
      <4> QED
        BY <4>2, IdleFits DEF CookieUser
    <3> QED
      BY <3>1, <3>2
  <2> QED
    BY <1>2, <2>1, <2>2, <2>3, <2>4, <2>5, <2>6, <2>7, ClosingOne
<1> QED
  BY <1>3, <1>4

\* What the answer does in the tab.
LEMMA CommitStep ==
    ASSUME ServerInv, NEW o \in Ops, Commit(o)
    PROVE  ServerInv' /\ (BrowserInv => BrowserInv')
<1>1. /\ UNCHANGED <<tv, fam, cookie, lost, faults>> /\ op[o].pc = "body"
      /\ TypeOK /\ Shape(op[o]) /\ Sound(op[o]) /\ faults' \in 0..MaxFaults
      /\ Known(store.fam)
  BY DEF Commit, ServerInv, TypeOK
<1>2. PICK v \in OpType : v = op[o]
  BY <1>1 DEF TypeOK
<1>3. v.kind \in Mutations /\ v.tab \in Tabs /\ Locked(op[o]) /\ ~Brings(op[o])
  BY <1>1, <1>2, Names DEF Shape, OpType, AtServer, Locked, Exclusive, Brings
<1>4. v.ans = "ok" => v.leaf.fam # None
  BY <1>1, <1>2 DEF Shape
<1>5. Closes /\ Grows
  BY <1>1, NothingCloses
<1>6. CASE v.ans = "ok" /\ ~Current(o)
  <2>1. BeginUndo(o)
    BY <1>2, <1>6 DEF Commit
  <2> QED
    BY <1>1, <1>2, <1>4, <1>6, <2>1, UndoFits
<1>7. CASE v.ans = "ok" /\ Current(o) /\ v.kind = "refresh"
  <2>1. Ends(o) /\ UNCHANGED <<store, tab, pending, ended>>
    BY <1>2, <1>7 DEF Commit
  <2>2. ~Between(op[o])
    BY <1>2, <1>7 DEF Between
  <2> QED
    BY <1>1, <1>3, <2>1, <2>2, EndsStep
<1>8. CASE v.ans = "ok" /\ Current(o) /\ v.kind = "login"
  <2>1. Moves(o, Nobody, [v EXCEPT !.pc = "switch"]) /\ store' = Nobody /\ UNCHANGED <<pending, ended>>
    BY <1>2, <1>8 DEF Commit
  <2>2. PICK u : u = [v EXCEPT !.pc = "switch"]
    OBVIOUS
  <2>3. /\ u \in OpType /\ u.pc = "switch" /\ u.kind = v.kind /\ u.tab = v.tab /\ u.exp = v.exp
        /\ u.fresh = v.fresh /\ u.leaf = v.leaf /\ u.ans = v.ans /\ u.left = v.left
    BY <2>2 DEF OpType, Exclusive, AtServer
  <2>4. Shape(u)
    BY <1>1, <1>2, <1>3, <1>4, <1>8, <2>3, Names DEF Shape, AtServer, Mutations
  <2>5. Sound(u)' /\ Fresh(u)'
    BY <1>1, <1>2, <1>3, <1>8, <2>3, Names DEF Sound, Fresh, GoodLeaf, Known, Presents, Live
  <2>6. Locked(u) => Locked(op[o])
    BY <1>3
  <2>7. ASSUME BrowserInv PROVE Carries(u)' /\ SameUser(u)'
    BY <1>1, <1>2, <1>8, <2>3, <2>7 DEF BrowserInv, Carries, SameUser
  <2>8. Nobody \in BoundaryType /\ Known(Nobody.fam) /\ Nobody.user = None
    BY Nothing DEF Known
  <2>9. \A f \in ended' : Live(f)' => f \in pending'
    BY <1>1, <2>1 DEF ServerInv, EndedOrPending, Live
  <2> QED
    BY <1>1, <1>2, <1>3, <1>5, <2>1, <2>2, <2>3, <2>4, <2>5, <2>6, <2>7, <2>8, <2>9, EndsKnown,
       MovesStep
<1>9. CASE v.ans = "ok" /\ Current(o) /\ v.kind = "change"
  <2>1. PICK b : b = [v.exp EXCEPT !.fam = v.leaf.fam]
    OBVIOUS
  <2>2. v.exp \in BoundaryType /\ v.leaf \in LeafType
    BY DEF OpType
  <2>3. b \in BoundaryType /\ b.user = v.exp.user /\ b.fam = v.leaf.fam
    BY <2>1, <2>2 DEF BoundaryType, LeafType
  <2>4. /\ Moves(o, b, Idle) /\ store' = b /\ UNCHANGED <<pending, ended>>
    BY <1>2, <1>9, <2>1 DEF Commit, Current
  <2>5. Known(b.fam)
    BY <1>1, <1>2, <2>3 DEF Sound
  <2>6. /\ Shape(Idle) /\ Sound(Idle)' /\ Fresh(Idle)' /\ ~Locked(Idle) /\ Idle.pc = "idle"
        /\ Holds(Idle)' /\ Carries(Idle)' /\ SameUser(Idle)' /\ Idle \in OpType
    BY IdleFits, Nothing
  <2>7. ASSUME BrowserInv PROVE CookieUser'
    <3>1. cookie = v.leaf
      BY <1>1, <1>2, <1>3, <1>9, <2>7, Names DEF BrowserInv, Carries
    <3>2. v.exp.user # None /\ Strict(v.leaf) => v.leaf.user = v.exp.user
      BY <1>1, <1>2, <1>3, <1>9, <2>7, Names DEF BrowserInv, SameUser
    <3> QED
      BY <1>1, <2>3, <2>4, <3>1, <3>2 DEF CookieUser, Strict, Accepts, Live
  <2>8. \A f \in ended' : Live(f)' => f \in pending'
    BY <1>1, <2>4 DEF ServerInv, EndedOrPending, Live
  <2> QED
    BY <1>1, <1>2, <1>3, <1>5, <2>3, <2>4, <2>5, <2>6, <2>7, <2>8, EndsKnown, MovesStep
<1>10. CASE v.ans \in {"refused", "unauthorized"} /\ v.kind = "refresh"
  <2>1. Step(o, "forget") /\ UNCHANGED <<store, tab, pending, ended>> /\ "forget" \in Pcs
    BY <1>2, <1>10, Places DEF Commit
  <2>2. PICK u \in OpType : u = op'[o]
    BY <1>1, <2>1, StepTakes
  <2>3. /\ op' = [op EXCEPT ![o] = u] /\ u.pc = "forget" /\ u.kind = v.kind /\ u.tab = v.tab
        /\ u.exp = v.exp /\ u.fresh = v.fresh /\ u.leaf = v.leaf /\ u.ans = v.ans
        /\ u.left = v.left
    BY <1>1, <1>2, <2>1, <2>2, StepTakes
  <2>4. Shape(u)
    BY <1>1, <1>2, <1>3, <1>10, <2>3, Names DEF Shape, AtServer, Mutations
  <2>5. Sound(u)' /\ Fresh(u)'
    BY <1>1, <1>2, <1>3, <1>10, <2>3, Names DEF Sound, Fresh, GoodLeaf, Known, Presents, Live
  <2>6. ~Locked(u) /\ Holds(u)' /\ Carries(u)' /\ SameUser(u)' /\ ~Between(op[o])
    BY <1>2, <1>10, <2>3 DEF Locked, Exclusive, AtServer, Holds, Carries, SameUser, Between
  <2> QED
    BY <1>1, <1>3, <2>1, <2>3, <2>4, <2>5, <2>6, EndsKnown, QuietTake
<1>11. CASE v.ans # "ok" /\ ~(v.ans \in {"refused", "unauthorized"} /\ v.kind = "refresh")
  <2>1. Ends(o) /\ UNCHANGED <<store, tab, pending, ended>>
    BY <1>2, <1>11 DEF Commit
  <2>2. ~Between(op[o])
    BY <1>1, <1>2, <1>11 DEF Between
  <2> QED
    BY <1>1, <1>3, <2>1, <2>2, EndsStep
<1> QED
  BY <1>3, <1>6, <1>7, <1>8, <1>9, <1>10, <1>11 DEF Mutations

\* A good answer that cannot be read, and a login that cannot be taken over, are undone.
LEMMA SwitchStep ==
    ASSUME ServerInv, NEW o \in Ops, Truncated(o) \/ Switch(o)
    PROVE  ServerInv' /\ (BrowserInv => BrowserInv')
<1>1. /\ UNCHANGED <<tv, fam, cookie, lost>>
      /\ TypeOK /\ Shape(op[o]) /\ Sound(op[o]) /\ faults' \in 0..MaxFaults
  BY Names DEF Truncated, Switch, ServerInv, TypeOK, Fault
<1>2. PICK v \in OpType : v = op[o]
  BY <1>1 DEF TypeOK
<1>3. CASE BeginUndo(o)
  <2>1. op[o].pc \in {"body", "switch"} /\ op[o].leaf.fam # None
    BY <1>1 DEF Truncated, Switch, Shape
  <2> QED
    BY <1>1, <1>3, <2>1, UndoFits
<1>4. CASE Switch(o) /\ ~BeginUndo(o)
  <2>1. PICK b : b = [user |-> v.leaf.user, fam |-> v.leaf.fam]
    OBVIOUS
  <2>2. b \in BoundaryType /\ b.user = v.leaf.user /\ b.fam = v.leaf.fam
    BY <2>1 DEF OpType, LeafType, BoundaryType
  <2>3. /\ Moves(o, b, Idle) /\ store' = b /\ UNCHANGED <<pending, ended, faults>>
        /\ v.pc = "switch"
    BY <1>2, <1>4, <2>1 DEF Switch
  <2>4. v.kind = "login" /\ v.tab \in Tabs /\ Locked(op[o]) /\ ~Brings(op[o])
    BY <1>1, <1>2, <2>3, Names DEF Shape, OpType, AtServer, Locked, Exclusive, Brings
  <2>5. Known(b.fam)
    BY <1>1, <1>2, <2>2 DEF Sound
  <2>6. /\ Shape(Idle) /\ Sound(Idle)' /\ Fresh(Idle)' /\ ~Locked(Idle) /\ Idle.pc = "idle"
        /\ Holds(Idle)' /\ Carries(Idle)' /\ SameUser(Idle)' /\ Idle \in OpType
    BY IdleFits, Nothing
  <2>7. ASSUME BrowserInv PROVE CookieUser'
    <3>1. cookie = v.leaf
      BY <1>2, <2>3, <2>4, <2>7, Names DEF BrowserInv, Carries
    <3> QED
      BY <1>1, <2>2, <2>3, <3>1 DEF CookieUser
  <2>8. \A f \in ended' : Live(f)' => f \in pending'
    BY <1>1, <2>3 DEF ServerInv, EndedOrPending, Live
  <2>9. Closes
    BY <1>1, NothingCloses
  <2> QED
    BY <1>1, <1>2, <2>2, <2>3, <2>4, <2>5, <2>6, <2>7, <2>8, <2>9, EndsKnown, MovesStep
<1> QED
  BY <1>3, <1>4 DEF Truncated

----------------------------------------------------------------------------
\* A session is revoked and the tab clears itself.
LEMMA UndoStep ==
    ASSUME ServerInv, NEW o \in Ops, Undo(o)
    PROVE  ServerInv' /\ (BrowserInv => BrowserInv')
<1>1. /\ UNCHANGED <<tv, cookie, ended, lost>> /\ op[o].pc = "undo" /\ Anonymous(o, Idle)
      /\ TypeOK /\ Shape(op[o]) /\ Sound(op[o]) /\ faults' \in 0..MaxFaults
      /\ \A f \in pending \cup ended : Known(f)
  BY Names DEF Undo, ServerInv, TypeOK, Fault
<1>2. PICK v \in OpType : v = op[o]
  BY <1>1 DEF TypeOK
<1>3. PICK f \in Families \cup {None} : f = v.leaf.fam
  BY DEF OpType, LeafType
<1>4. \/ fam' = Revoked(f) /\ pending' = pending \ {f}
      \/ fam' \in {fam, Revoked(f)} /\ pending' = pending
  BY <1>2, <1>3 DEF Undo
<1>5. Closes /\ (fam' = Revoked(f) => ~Live(f)')
  BY <1>1, <1>4, RevokedCloses
<1>6. \A g \in ended' : Live(g)' => g \in pending'
  <2>1. \A g \in ended : g \in Families /\ (Live(g) => g \in pending)
    BY <1>1 DEF ServerInv, EndedOrPending, TypeOK
  <2> QED
    BY <1>1, <1>4, <1>5, <2>1 DEF Closes
<1>7. pending' \in SUBSET Families /\ ended' \in SUBSET Families
  BY <1>1, <1>4 DEF TypeOK
<1>8. \A g \in pending' \cup ended' : Known(g)
  BY <1>1, <1>4
<1>9. v.tab \in Tabs
  BY <1>1, <1>2 DEF Shape, OpType, AtServer
<1>10. /\ Shape(Idle) /\ Sound(Idle)' /\ Fresh(Idle)' /\ ~Locked(Idle) /\ Idle.pc = "idle"
       /\ Idle \in OpType
  BY IdleFits, Nothing
<1> QED
  BY <1>1, <1>2, <1>5, <1>6, <1>7, <1>8, <1>9, <1>10, AnonymousStep

\* A tab whose refresh was refused becomes anonymous, in two writes.
LEMMA ForgetStep ==
    ASSUME ServerInv, NEW o \in Ops, Forget(o)
    PROVE  ServerInv' /\ (BrowserInv => BrowserInv')
<1>1. /\ UNCHANGED <<tv, fam, cookie, pending, ended, lost, faults>> /\ op[o].pc = "forget"
      /\ TypeOK /\ Shape(op[o]) /\ Sound(op[o]) /\ faults' \in 0..MaxFaults
  BY DEF Forget, ServerInv, TypeOK
<1>2. PICK v \in OpType : v = op[o]
  BY <1>1 DEF TypeOK
<1>3. PICK u : u = [v EXCEPT !.pc = "wipe", !.exp = Nobody, !.ans = None]
  OBVIOUS
<1>4. /\ u \in OpType /\ u.pc = "wipe" /\ u.kind = v.kind /\ u.tab = v.tab /\ u.exp = Nobody
      /\ u.fresh = v.fresh /\ u.leaf = v.leaf /\ u.ans = None /\ u.left = v.left
  BY <1>3, Nothing DEF OpType
<1>5. v.tab \in Tabs
  BY <1>1, <1>2 DEF Shape, OpType, AtServer
<1>6. Shape(u)
  BY <1>1, <1>2, <1>4, <1>5, Names DEF Shape, AtServer
<1>7. Sound(u)' /\ Fresh(u)'
  BY <1>1, <1>2, <1>4, <1>5, Nothing, Names DEF Sound, Fresh, GoodLeaf, Known, Presents, Live
<1>8. Anonymous(o, u)
  BY <1>2, <1>3 DEF Forget
<1>9. ~Locked(u)
  BY <1>4 DEF Locked, Exclusive, AtServer
<1>10. Closes
  BY <1>1, NothingCloses
<1>11. \A f \in ended' : Live(f)' => f \in pending'
  BY <1>1 DEF ServerInv, EndedOrPending, Live
<1> QED
  BY <1>1, <1>2, <1>4, <1>5, <1>6, <1>7, <1>8, <1>9, <1>10, <1>11, EndsKnown, AnonymousStep

\* The last write of that.
LEMMA WipeStep ==
    ASSUME ServerInv, NEW o \in Ops, Wipe(o)
    PROVE  ServerInv' /\ (BrowserInv => BrowserInv')
<1>1. /\ UNCHANGED <<tv, fam, cookie, tab, pending, ended, lost, faults>> /\ op[o].pc = "wipe"
      /\ TypeOK /\ op' = [op EXCEPT ![o] = Idle] /\ store' \in {store, Nobody}
  BY DEF Wipe, ServerInv, Ends
<1>2. Idle \in OpType
  BY Nothing
<1>3. op' \in [Ops -> OpType] /\ op'[o] = Idle /\ \A x \in Ops \ {o} : op'[x] = op[x]
  BY <1>1, <1>2, Takes
<1>4. TypeOK'
  BY <1>1, <1>3, Nothing DEF TypeOK
<1>5. Closes /\ Grows
  BY <1>1, NothingCloses
<1>6. AllKnown'
  <2>1. PICK K \in SUBSET Families : K = {}
    OBVIOUS
  <2> QED
    BY <1>1, <1>5, <2>1, AllKnownKept
<1>7. /\ Shape(Idle) /\ Sound(Idle)' /\ Fresh(Idle)' /\ ~Locked(Idle) /\ Idle.pc = "idle"
      /\ Holds(Idle)' /\ Carries(Idle)' /\ SameUser(Idle)'
  BY IdleFits, Nothing
<1>8. ~Brings(op[o]) /\ ~Between(op[o])
  BY <1>1 DEF Brings, Between
<1>9. \A x \in Ops \ {o} : Agrees(op'[x], op[x]) /\ op'[x].fresh = op[x].fresh
  BY <1>3 DEF Agrees
<1>10. \A f \in ended' : Live(f)' => f \in pending'
  BY <1>1 DEF ServerInv, EndedOrPending, Live
<1>11. /\ store'.user = None \/ UNCHANGED <<store, tab>>
       /\ CookieUser' \/ store' = store
  BY <1>1, Nothing DEF CookieUser
<1> QED
  BY <1>1, <1>2, <1>3, <1>4, <1>5, <1>6, <1>7, <1>8, <1>9, <1>10, <1>11, ClosingOne

\* A tab with unconfirmed revocations that restores its account shows nobody instead.
LEMMA RestoreStep ==
    ASSUME ServerInv, NEW t \in Tabs, NEW o \in Ops, RestorePending(t, o)
    PROVE  ServerInv' /\ (BrowserInv => BrowserInv')
<1>1. /\ UNCHANGED <<tv, fam, cookie, pending, ended, lost, faults>> /\ op[o] = Idle
      /\ TypeOK /\ store' = Nobody /\ tab' = [tab EXCEPT ![t] = Nobody] /\ t # None
  BY Names DEF RestorePending, ServerInv
<1>2. PICK u : u = [Idle EXCEPT !.pc = "wipe", !.kind = "refresh", !.tab = t, !.fresh = TRUE]
  OBVIOUS
<1>3. /\ u \in OpType /\ u.pc = "wipe" /\ u.kind = "refresh" /\ u.tab = t /\ u.exp = Nobody
      /\ u.fresh /\ u.leaf = NoLeaf /\ u.ans = None /\ u.left = {}
  BY <1>2, Nothing DEF Idle, OpType, Mutations
<1>4. op'[o] = u
  BY <1>2 DEF RestorePending
<1>5. ASSUME NEW x \in Ops \ {o} PROVE op'[x] \in OpType /\ Agrees(op'[x], op[x])
  <2>1. PICK v \in OpType : v = op[x]
    BY <1>1 DEF TypeOK
  <2>2. PICK w : w = [v EXCEPT !.fresh = FALSE]
    OBVIOUS
  <2>3. w \in OpType /\ Agrees(w, v) /\ Agrees(v, v)
    BY <2>2 DEF OpType, Agrees
  <2>4. op'[x] = w \/ op'[x] = v
    BY <2>1, <2>2 DEF RestorePending
  <2> QED
    BY <2>1, <2>3, <2>4
<1>6. op' = [x \in Ops |-> op'[x]]
  BY DEF RestorePending
<1>7. op' \in [Ops -> OpType]
  BY <1>3, <1>4, <1>5, <1>6
<1>8. TypeOK'
  BY <1>1, <1>7, Nothing DEF TypeOK
<1>9. Closes /\ Grows
  BY <1>1, NothingCloses
<1>10. AllKnown'
  <2>1. PICK K \in SUBSET Families : K = {}
    OBVIOUS
  <2>2. \A s \in Tabs : tab'[s] \in {tab[s], store, Nobody}
    BY <1>1 DEF TypeOK
  <2> QED
    BY <1>1, <1>9, <2>1, <2>2, AllKnownKept
<1>11. Shape(u)
  BY <1>1, <1>3, Nothing, Names DEF Shape, AtServer
<1>12. Sound(u)' /\ Fresh(u)' /\ ~Locked(u)
  BY <1>1, <1>3, Nothing
     DEF Sound, Fresh, GoodLeaf, Known, Presents, Locked, Exclusive, AtServer
<1>13. ~Brings(op[o])
  BY <1>1, IdleFits
<1>14. \A f \in ended' : Live(f)' => f \in pending'
  BY <1>1 DEF ServerInv, EndedOrPending, Live
<1>15. store'.user = None /\ Holds(u)' /\ CookieUser' /\ Carries(u)' /\ SameUser(u)'
  BY <1>1, <1>3, Nothing DEF Holds, CookieUser, Carries, SameUser, AtServer
<1> QED
  BY <1>1, <1>3, <1>4, <1>5, <1>8, <1>9, <1>10, <1>11, <1>12, <1>13, <1>14, <1>15, ClosingOne

\* A logout notes the session that is to be ended and sends its revocation.
LEMMA StartLogoutStep ==
    ASSUME ServerInv, NEW t \in Tabs, NEW o \in Ops, StartLogout(t, o)
    PROVE  ServerInv' /\ (BrowserInv => BrowserInv')
<1>1. /\ UNCHANGED <<tv, fam, cookie, store, tab, lost, faults>> /\ op[o] = Idle /\ t # None
      /\ TypeOK /\ Known(tab[t].fam) /\ \A f \in pending \cup ended : Known(f)
      /\ faults' \in 0..MaxFaults
  BY Names DEF StartLogout, ServerInv, TypeOK
<1>2. PICK b \in BoundaryType : b = tab[t]
  BY <1>1 DEF TypeOK
<1>3. PICK a \in {"ok", "flying"} : a = IF b.fam = None THEN "ok" ELSE "flying"
  OBVIOUS
<1>4. PICK u : u = [Idle EXCEPT !.pc = "wait", !.kind = "logout", !.tab = t, !.exp = b,
                                !.fresh = TRUE, !.ans = a]
  OBVIOUS
<1>5. /\ u \in OpType /\ u.pc = "wait" /\ u.kind = "logout" /\ u.tab = t /\ u.exp = b
      /\ u.fresh /\ u.leaf = NoLeaf /\ u.ans = a /\ u.left = {}
  BY <1>4, Nothing DEF Idle, OpType
<1>6. op' = [op EXCEPT ![o] = u]
  BY <1>2, <1>3, <1>4 DEF StartLogout
<1>7. /\ pending' = pending \cup ({b.fam} \ {None}) /\ ended' = ended \cup ({b.fam} \ {None})
      /\ b.fam \in Families \cup {None} /\ Known(b.fam)
  BY <1>1, <1>2 DEF StartLogout, BoundaryType
<1>8. Shape(u)
  BY <1>1, <1>5, Nothing, Names DEF Shape, AtServer
<1>9. Sound(u)' /\ Fresh(u)'
  BY <1>1, <1>3, <1>5, <1>7, Nothing DEF Sound, Fresh, GoodLeaf, Known, Presents, Live
<1>10. ~Locked(u) /\ Holds(u)' /\ Carries(u)' /\ SameUser(u)'
  BY <1>5 DEF Locked, Exclusive, AtServer, Holds, Carries, SameUser
<1>11. ~Brings(op[o]) /\ ~Between(op[o])
  BY <1>1, IdleFits
<1>12. /\ pending' \in SUBSET Families /\ ended' \in SUBSET Families
       /\ \A f \in pending' \cup ended' : Known(f)
       /\ \A f \in ended' : f \in pending' \/ (f \in ended /\ f \notin pending)
  BY <1>1, <1>7 DEF TypeOK
<1> QED
  BY <1>1, <1>5, <1>6, <1>8, <1>9, <1>10, <1>11, <1>12, QuietTake

\* The answer to the revocation that a logout has sent.
LEMMA FastLogoutStep ==
    ASSUME ServerInv, NEW o \in Ops, FastLogout(o)
    PROVE  ServerInv' /\ (BrowserInv => BrowserInv')
<1>1. /\ UNCHANGED <<tv, cookie, store, tab, pending, ended, lost>> /\ op[o].kind = "logout"
      /\ TypeOK /\ Shape(op[o]) /\ Sound(op[o]) /\ faults' \in 0..MaxFaults
  BY Names DEF FastLogout, ServerInv, TypeOK, Fault
<1>2. PICK v \in OpType : v = op[o]
  BY <1>1 DEF TypeOK
<1>3. PICK f \in Families \cup {None} : f = v.exp.fam
  BY DEF OpType, BoundaryType
<1>4. PICK a \in {"ok", "failed"} :
        /\ op' = [op EXCEPT ![o].ans = a] /\ fam' \in {fam, Revoked(f)}
        /\ a = "ok" => fam' = Revoked(f)
  BY <1>2, <1>3 DEF FastLogout
<1>5. Closes /\ (fam' = Revoked(f) => ~Live(f)')
  BY <1>1, <1>4, RevokedCloses
<1>6. PICK u : u = [v EXCEPT !.ans = a]
  OBVIOUS
<1>7. /\ u \in OpType /\ u.pc = v.pc /\ u.kind = v.kind /\ u.tab = v.tab /\ u.exp = v.exp
      /\ u.fresh = v.fresh /\ u.leaf = v.leaf /\ u.ans = a /\ u.left = v.left
  BY <1>6 DEF OpType
<1>8. op' = [op EXCEPT ![o] = u]
  BY <1>2, <1>4, <1>6
<1>9. op' \in [Ops -> OpType] /\ op'[o] = u /\ \A x \in Ops \ {o} : op'[x] = op[x]
  BY <1>1, <1>7, <1>8, Takes
<1>10. TypeOK'
  BY <1>1, <1>5, <1>9 DEF TypeOK, Closes
<1>11. Grows
  BY <1>1, <1>5, ClosesGrows
<1>12. v.pc \in {"wait", "revoke"}
  BY <1>1, <1>2 DEF Shape
<1>13. Shape(u)
  BY <1>1, <1>2, <1>7, <1>12 DEF Shape, AtServer
<1>14. Sound(u)' /\ Fresh(u)'
  <2>1. v.leaf \in LeafType /\ GoodLeaf(v.leaf)
    BY <1>1, <1>2, <1>12 DEF OpType, Sound
  <2>2. GoodLeaf(v.leaf)'
    BY <1>1, <1>10, <1>11, <2>1, GoodKept
  <2>3. /\ v.leaf.fam \in Families \cup {None} /\ v.exp.fam \in Families \cup {None}
        /\ v.left \subseteq Families
    BY DEF OpType, BoundaryType, LeafType
  <2>4. Known(v.leaf.fam)' /\ Known(v.exp.fam)' /\ \A g \in v.left : Known(g)'
    BY <1>1, <1>2, <1>11, <2>3, KnownKept DEF Sound
  <2> QED
    BY <1>1, <1>2, <1>3, <1>4, <1>5, <1>7, <1>12, <2>2, <2>4 DEF Sound, Fresh, Presents
<1>15. ~Brings(op[o]) /\ ~Between(op[o]) /\ (Locked(u) => Locked(op[o]))
  BY <1>2, <1>7, <1>12 DEF Brings, Between, Locked
<1>16. AllKnown'
  BY <1>1, <1>11, BoundariesKept
<1>17. \A g \in ended' : Live(g)' => g \in pending'
  <2>1. \A g \in ended : g \in Families /\ (Live(g) => g \in pending)
    BY <1>1 DEF ServerInv, EndedOrPending, TypeOK
  <2> QED
    BY <1>1, <1>5, <2>1 DEF Closes
<1>18. ASSUME BrowserInv PROVE Holds(u)' /\ Carries(u)' /\ SameUser(u)'
  <2>1. Holds(v)
    BY <1>2, <1>18 DEF BrowserInv
  <2>2. Holds(u)'
    BY <1>1, <1>2, <1>7, <1>12, <1>15, <2>1 DEF Holds, AtServer
  <2> QED
    BY <1>7, <1>12, <2>2 DEF Carries, SameUser, AtServer
<1>19. \A x \in Ops \ {o} : Agrees(op'[x], op[x]) /\ op'[x].fresh = op[x].fresh
  BY <1>9 DEF Agrees
<1>20. u.pc \notin {"check", "password", "change"}
  BY <1>7, <1>12
<1> QED
  BY <1>1, <1>5, <1>7, <1>9, <1>10, <1>13, <1>14, <1>15, <1>16, <1>17, <1>18, <1>19, <1>20, ClosingOne

\* Nobody has the lock.
LEMMA NoneLocked ==
    ASSUME ~Held(Exclusive \cup Shared)
    PROVE  \A x \in Ops : ~Locked(op[x])
  BY DEF Held, Locked

\* The logout has the lock: the tab is anonymous and all that is unconfirmed is to be revoked.
LEMMA LockedLogoutStep ==
    ASSUME ServerInv, NEW o \in Ops, LockedLogout(o)
    PROVE  ServerInv' /\ (BrowserInv => BrowserInv')
<1>1. /\ UNCHANGED <<tv, fam, cookie, lost, faults>> /\ op[o].pc = "wait" /\ store' = Nobody
      /\ TypeOK /\ Shape(op[o]) /\ Sound(op[o]) /\ faults' \in 0..MaxFaults
      /\ Known(store.fam) /\ (\A t \in Tabs : Known(tab[t].fam))
      /\ \A f \in pending \cup ended : Known(f)
  BY DEF LockedLogout, ServerInv, TypeOK
<1>2. PICK v \in OpType : v = op[o]
  BY <1>1 DEF TypeOK
<1>3. v.tab \in Tabs /\ v.kind = "logout"
  BY <1>1, <1>2 DEF Shape, OpType, AtServer
<1>4. PICK T : T = (pending \cup {v.exp.fam, tab[v.tab].fam, store.fam}) \ {None}
  OBVIOUS
<1>5. T \in SUBSET Families /\ pending \subseteq T /\ \A f \in T : Known(f)
  <2>1. /\ v.exp.fam \in Families \cup {None} /\ Known(v.exp.fam)
    BY <1>1, <1>2 DEF OpType, BoundaryType, Sound
  <2>2. /\ store.fam \in Families \cup {None} /\ tab[v.tab].fam \in Families \cup {None}
        /\ pending \subseteq Families
    BY <1>1, <1>3 DEF TypeOK, BoundaryType
  <2> QED
    BY <1>1, <1>3, <1>4, <2>1, <2>2, Names
<1>6. PICK w : w = [v EXCEPT !.pc = "revoke", !.left = T]
  OBVIOUS
<1>7. /\ w \in OpType /\ w.pc = "revoke" /\ w.kind = v.kind /\ w.tab = v.tab /\ w.exp = v.exp
      /\ w.fresh = v.fresh /\ w.leaf = v.leaf /\ w.ans = v.ans /\ w.left = T
  BY <1>5, <1>6 DEF OpType, Exclusive
<1>8. PICK u \in {Idle, w} : Moves(o, Nobody, u)
  BY <1>2, <1>4, <1>6 DEF LockedLogout
<1>9. pending' = T /\ ended' = ended \cup T
  BY <1>2, <1>4 DEF LockedLogout
<1>10. Shape(w)
  BY <1>1, <1>2, <1>3, <1>7, Names DEF Shape, AtServer
<1>11. Sound(w)' /\ Fresh(w)'
  BY <1>1, <1>2, <1>3, <1>5, <1>7, Names DEF Sound, Fresh, GoodLeaf, Known, Presents, Live
<1>12. Carries(w)' /\ SameUser(w)'
  BY <1>7 DEF Carries, SameUser, AtServer
<1>13. /\ Shape(Idle) /\ Sound(Idle)' /\ Fresh(Idle)' /\ ~Locked(Idle) /\ Idle.pc = "idle"
       /\ Idle \in OpType /\ Carries(Idle)' /\ SameUser(Idle)'
  BY IdleFits, Nothing
<1>14. /\ u \in OpType /\ Shape(u) /\ Sound(u)' /\ Fresh(u)' /\ u.pc \in {"idle", "revoke"}
       /\ Carries(u)' /\ SameUser(u)'
  <2>1. CASE u = Idle
    BY <1>13, <2>1 DEF Sound, Fresh, Carries, SameUser, GoodLeaf, Known, Live, Strict, Accepts
  <2>2. CASE u = w
    BY <1>7, <1>10, <1>11, <1>12, <2>2
       DEF Sound, Fresh, Carries, SameUser, GoodLeaf, Known, Live, Strict, Accepts
  <2> QED
    BY <1>8, <2>1, <2>2
<1>15. \A x \in Ops : ~Locked(op[x])
  BY NoneLocked DEF LockedLogout
<1>16. ~Brings(op[o]) /\ Nobody \in BoundaryType /\ Known(Nobody.fam) /\ Nobody.user = None
  BY <1>1, Nothing DEF Brings, Known
<1>17. /\ pending' \in SUBSET Families /\ ended' \in SUBSET Families
       /\ \A f \in pending' \cup ended' : Known(f)
  BY <1>1, <1>5, <1>9 DEF TypeOK
<1>18. \A f \in ended' : Live(f)' => f \in pending'
  BY <1>1, <1>5, <1>9 DEF ServerInv, EndedOrPending, Live
<1>19. Closes
  BY <1>1, NothingCloses
<1> QED
  BY <1>1, <1>2, <1>3, <1>8, <1>14, <1>15, <1>16, <1>17, <1>18, <1>19, MovesStep

\* One of the logout's revocations is answered.
LEMMA RevokeOneStep ==
    ASSUME ServerInv, NEW o \in Ops, NEW f \in Families, RevokeOne(o, f)
    PROVE  ServerInv' /\ (BrowserInv => BrowserInv')
<1>1. /\ UNCHANGED <<tv, cookie, store, tab, ended, lost>> /\ op[o].pc = "revoke"
      /\ TypeOK /\ Shape(op[o]) /\ Sound(op[o]) /\ faults' \in 0..MaxFaults
  BY Names DEF RevokeOne, ServerInv, TypeOK, Fault
<1>2. PICK v \in OpType : v = op[o]
  BY <1>1 DEF TypeOK
<1>3. v.kind = "logout" /\ v.tab # None
  BY <1>1, <1>2 DEF Shape, AtServer
<1>4. /\ fam' \in {fam, Revoked(f)}
      /\ \/ pending' = pending
         \/ pending' = pending \ {f} /\ fam' = Revoked(f)
         \/ pending' = pending \ {f} /\ fam' = fam /\ ~Live(f)
  BY <1>1, <1>2, <1>3 DEF RevokeOne, Sound
<1>5. Closes /\ (fam' = Revoked(f) => ~Live(f)')
  BY <1>1, <1>4, RevokedCloses
<1>6. Grows
  BY <1>1, <1>5, ClosesGrows
<1>7. PICK w : w = [v EXCEPT !.left = v.left \ {f}]
  OBVIOUS
<1>8. /\ w \in OpType /\ w.pc = "revoke" /\ w.kind = v.kind /\ w.tab = v.tab /\ w.exp = v.exp
      /\ w.fresh = v.fresh /\ w.leaf = v.leaf /\ w.ans = v.ans /\ w.left = v.left \ {f}
  BY <1>1, <1>2, <1>7 DEF OpType
<1>9. PICK u \in {Idle, w} : op' = [op EXCEPT ![o] = u]
  BY <1>2, <1>7 DEF RevokeOne, Ends
<1>10. Shape(w)
  BY <1>1, <1>2, <1>3, <1>8 DEF Shape, AtServer
<1>11. u \in OpType /\ u.pc \in {"idle", "revoke"}
  BY <1>8, <1>9, Nothing
<1>12. op' \in [Ops -> OpType] /\ op'[o] = u /\ \A x \in Ops \ {o} : op'[x] = op[x]
  BY <1>1, <1>9, <1>11, Takes
<1>13. TypeOK'
  BY <1>1, <1>4, <1>5, <1>12 DEF TypeOK, Closes
<1>14. Sound(w)' /\ Fresh(w)'
  <2>1. v.leaf \in LeafType /\ GoodLeaf(v.leaf)
    BY <1>1, <1>2 DEF OpType, Sound
  <2>2. GoodLeaf(v.leaf)'
    BY <1>1, <1>6, <1>13, <2>1, GoodKept
  <2>3. /\ v.leaf.fam \in Families \cup {None} /\ v.exp.fam \in Families \cup {None}
        /\ v.left \subseteq Families
    BY DEF OpType, BoundaryType, LeafType
  <2>4. Known(v.leaf.fam)' /\ Known(v.exp.fam)' /\ \A g \in v.left : Known(g)'
    BY <1>1, <1>2, <1>6, <2>3, KnownKept DEF Sound
  <2>5. ~Live(v.exp.fam) => ~Live(v.exp.fam)'
    BY <1>5, <2>3 DEF Closes, Live
  <2> QED
    BY <1>1, <1>2, <1>3, <1>8, <2>2, <2>4, <2>5 DEF Sound, Fresh, Presents
<1>15. ASSUME BrowserInv PROVE Holds(w)' /\ Carries(w)' /\ SameUser(w)'
  <2>1. Holds(v)
    BY <1>2, <1>15 DEF BrowserInv
  <2>2. Holds(w)'
    BY <1>1, <1>2, <1>8, <2>1 DEF Holds, AtServer, Locked
  <2> QED
    BY <1>8, <2>2 DEF Carries, SameUser, AtServer
<1>16. /\ Shape(Idle) /\ Sound(Idle)' /\ Fresh(Idle)'
       /\ Holds(Idle)' /\ Carries(Idle)' /\ SameUser(Idle)'
  BY IdleFits
<1>17. /\ Shape(u) /\ Sound(u)' /\ Fresh(u)'
       /\ BrowserInv => Holds(u)' /\ Carries(u)' /\ SameUser(u)'
  <2>1. CASE u = Idle
    BY <1>16, <2>1
       DEF Sound, Fresh, Holds, Carries, SameUser, GoodLeaf, Known, Live, Strict, Accepts, Locked
  <2>2. CASE u = w
    BY <1>10, <1>14, <1>15, <2>2
       DEF Sound, Fresh, Holds, Carries, SameUser, GoodLeaf, Known, Live, Strict, Accepts, Locked
  <2> QED
    BY <1>9, <2>1, <2>2
<1>18. ~Brings(op[o]) /\ ~Between(op[o]) /\ Locked(op[o])
  BY <1>1, <1>2, <1>3 DEF Brings, Between, Locked, Exclusive
<1>19. pending' \cup ended' \subseteq pending \cup ended
  BY <1>1, <1>4
<1>20. AllKnown'
  BY <1>1, <1>6, <1>19, BoundariesKept
<1>21. \A g \in ended' : Live(g)' => g \in pending'
  <2>1. \A g \in ended : g \in Families /\ (Live(g) => g \in pending)
    BY <1>1 DEF ServerInv, EndedOrPending, TypeOK
  <2> QED
    BY <1>1, <1>4, <1>5, <2>1 DEF Closes
<1>22. \A x \in Ops \ {o} : Agrees(op'[x], op[x]) /\ op'[x].fresh = op[x].fresh
  BY <1>12 DEF Agrees
<1> QED
  BY <1>1, <1>5, <1>11, <1>12, <1>13, <1>17, <1>18, <1>20, <1>21, <1>22, ClosingOne

\* A refused request of the account that is shown and stored ends its session.
LEMMA HandleDeniedStep ==
    ASSUME ServerInv, NEW o \in Ops, HandleDenied(o)
    PROVE  ServerInv' /\ (BrowserInv => BrowserInv')
<1>1. /\ UNCHANGED <<tv, fam, cookie, lost, faults>> /\ op[o].pc = "denied"
      /\ TypeOK /\ Shape(op[o]) /\ Sound(op[o]) /\ faults' \in 0..MaxFaults
      /\ \A f \in pending \cup ended : Known(f)
  BY DEF HandleDenied, ServerInv, TypeOK
<1>2. PICK v \in OpType : v = op[o]
  BY <1>1 DEF TypeOK
<1>3. v.tab \in Tabs /\ v.kind = "request"
  BY <1>1, <1>2 DEF Shape, OpType, AtServer
<1>4. \A x \in Ops : ~Locked(op[x])
  BY NoneLocked DEF HandleDenied
<1>5. Closes
  BY <1>1, NothingCloses
<1>6. CASE v.exp.fam = None
  <2>1. Anonymous(o, Idle) /\ UNCHANGED <<pending, ended>>
    BY <1>2, <1>6 DEF HandleDenied
  <2>2. /\ Shape(Idle) /\ Sound(Idle)' /\ Fresh(Idle)' /\ ~Locked(Idle) /\ Idle.pc = "idle"
        /\ Idle \in OpType
    BY IdleFits, Nothing
  <2>3. \A f \in ended' : Live(f)' => f \in pending'
    BY <1>1, <2>1 DEF ServerInv, EndedOrPending, Live
  <2> QED
    BY <1>1, <1>2, <1>3, <1>5, <2>1, <2>2, <2>3, EndsKnown, AnonymousStep
<1>7. CASE v.exp.fam # None
  <2>1. PICK f \in Families : f = v.exp.fam
    BY <1>7 DEF OpType, BoundaryType
  <2>2. PICK l \in LeafType : l = v.leaf
    BY DEF OpType
  <2>3. PICK k : k = [l EXCEPT !.fam = f]
    OBVIOUS
  <2>4. /\ k \in LeafType /\ k.fam = f /\ k.user = l.user /\ k.gen = l.gen /\ k.tv = l.tv
        /\ Dated(l) => Dated(k)
    BY <2>3 DEF LeafType, Dated
  <2>5. PICK u : u = [v EXCEPT !.pc = "undo", !.exp = Nobody, !.ans = None, !.leaf = k]
    OBVIOUS
  <2>6. /\ u \in OpType /\ u.pc = "undo" /\ u.kind = v.kind /\ u.tab = v.tab /\ u.exp = Nobody
        /\ u.fresh = v.fresh /\ u.leaf = k /\ u.ans = None /\ u.left = v.left
    BY <2>4, <2>5, Nothing DEF OpType, Exclusive
  <2>7. /\ Anonymous(o, u) /\ pending' = pending \cup {f} /\ ended' = ended \cup {f}
    BY <1>2, <1>7, <2>1, <2>2, <2>3, <2>5 DEF HandleDenied
  <2>8. Known(f)
    BY <1>1, <1>2, <2>1 DEF Sound
  <2>9. Shape(u)
    BY <1>1, <1>2, <1>3, <2>2, <2>4, <2>6, Names DEF Shape, AtServer
  <2>10. Sound(u)' /\ Fresh(u)'
    BY <1>1, <1>2, <1>3, <2>4, <2>6, <2>8, Nothing DEF Sound, Fresh, GoodLeaf, Known, Presents, Live
  <2>11. /\ pending' \in SUBSET Families /\ ended' \in SUBSET Families
         /\ \A g \in pending' \cup ended' : Known(g)
    BY <1>1, <2>7, <2>8 DEF TypeOK
  <2>12. \A g \in ended' : Live(g)' => g \in pending'
    BY <1>1, <2>7 DEF ServerInv, EndedOrPending, Live
  <2> QED
    BY <1>1, <1>2, <1>3, <1>4, <1>5, <2>6, <2>7, <2>9, <2>10, <2>11, <2>12, AnonymousStep
<1> QED
  BY <1>6, <1>7

\* A tab learns that another one has written the stored account.
LEMMA NoticeStep ==
    ASSUME ServerInv, NEW t \in Tabs, Notice(t)
    PROVE  ServerInv' /\ (BrowserInv => BrowserInv')
<1>1. /\ UNCHANGED <<tv, fam, cookie, store, pending, ended, lost, faults>> /\ tab[t] # store
      /\ TypeOK /\ Mutex /\ tab' = [tab EXCEPT ![t] = Nobody] /\ t # None
  BY Names DEF Notice, ServerInv
<1>2. ASSUME NEW x \in Ops
      PROVE  /\ op'[x] \in OpType /\ Agrees(op'[x], op[x])
             /\ op[x].tab # t => op'[x] = op[x]
  <2>1. PICK v \in OpType : v = op[x]
    BY <1>1 DEF TypeOK
  <2>2. PICK w : w = [v EXCEPT !.fresh = FALSE]
    OBVIOUS
  <2>3. w \in OpType /\ Agrees(w, v) /\ Agrees(v, v)
    BY <2>2 DEF OpType, Agrees
  <2>4. op'[x] = IF v.tab = t THEN w ELSE v
    BY <2>1, <2>2 DEF Notice
  <2> QED
    BY <2>1, <2>3, <2>4
<1>3. op' = [x \in Ops |-> op'[x]]
  BY DEF Notice
<1>4. op' \in [Ops -> OpType]
  BY <1>2, <1>3
<1>5. TypeOK'
  BY <1>1, <1>4, Nothing DEF TypeOK
<1>6. Mutex'
  BY <1>1, <1>2, MutexKept DEF Agrees, Locked
<1>7. VersionRoom'
  BY <1>1, <1>2, <1>5, RoomKept DEF Agrees
<1>8. Known(store'.fam) /\ \A s \in Tabs : Known(tab'[s].fam)
  BY <1>1, Nothing DEF ServerInv, Known, TypeOK
<1>9. ServerInv'
  BY <1>1, <1>2, <1>5, <1>6, <1>7, <1>8, EndsKnown, QuietStep
<1>10. ASSUME BrowserInv PROVE BrowserInv'
  <2>1. Grows
    BY <1>1, ServerStays
  <2>2. ASSUME NEW x \in Ops PROVE Holds(op[x])' /\ Carries(op[x])' /\ SameUser(op[x])'
    <3>1. \/ store'.user = None \/ ~Locked(op[x])
          \/ /\ store' = store /\ op'[x].fresh = op[x].fresh
             /\ tab'[op[x].tab] = tab[op[x].tab]
      <4>1. CASE op[x].tab = t
        BY <1>1, <1>10, <4>1 DEF BrowserInv, Holds
      <4>2. CASE op[x].tab # t /\ Locked(op[x])
        <5>1. op[x].tab \in Tabs
          BY <1>1, <4>2 DEF Locked, TypeOK, OpType
        <5> QED
          BY <1>1, <1>2, <4>2, <5>1 DEF TypeOK
      <4> QED
        BY <4>1, <4>2
    <3> QED
      BY <1>1, <1>2, <1>5, <1>10, <2>1, <3>1, OtherKept
  <2>3. CookieUser'
    BY <1>1, <1>2, <1>5, <1>10, <2>1, CookieUserKept DEF Agrees, Between
  <2> QED
    BY <2>2, <2>3 DEF BrowserInv
<1> QED
  BY <1>9, <1>10

\* What becomes of an operation when its tab is loaded again.
Left(v, t) ==
    CASE v.tab # t -> v
      [] v.tab = t /\ v.pc \in AtServer -> CutOff(v)
      [] OTHER -> Idle

\* A tab is loaded again: what it has sent goes on, what it was at is gone.
LEMMA ReloadStep ==
    ASSUME ServerInv, NEW t \in Tabs, Reload(t)
    PROVE  ServerInv' /\ (BrowserInv /\ ~Abandon => BrowserInv')
<1>1. /\ UNCHANGED <<tv, fam, cookie, store, pending, ended>>
      /\ TypeOK /\ Mutex /\ tab' = [tab EXCEPT ![t] = store] /\ t # None
      /\ faults' \in 0..MaxFaults
  <2>1. faults' = faults \/ Fault
    BY DEF Reload
  <2>2. faults \in 0..MaxFaults
    BY DEF ServerInv, TypeOK
  <2>3. faults' \in 0..MaxFaults
    BY <2>1, <2>2, Names DEF Fault
  <2> QED
    BY <2>3, Names DEF Reload, ServerInv
<1>2. PICK cut : cut = {o \in Ops : op[o].tab = t /\ op[o].pc \in AtServer}
  OBVIOUS
<1>3. lost' = lost \cup ({op[o].leaf.fam : o \in {o \in cut : op[o].kind = "refresh"}} \ {None})
  BY <1>2 DEF Reload
<1>4. \A o \in Ops : op[o].leaf.fam \in Families \cup {None}
  BY <1>1 DEF TypeOK, OpType, LeafType
<1>5. /\ lost \subseteq lost' /\ lost' \in SUBSET Families
      /\ \A o \in cut : op[o].kind = "refresh" => op[o].leaf.fam \in lost' \cup {None}
  BY <1>1, <1>2, <1>3, <1>4 DEF TypeOK
<1>6. ASSUME NEW x \in Ops PROVE op'[x] = Left(op[x], t)
  BY DEF Reload, Left, CutOff
<1>7. ASSUME NEW x \in Ops, op[x].tab = t
      PROVE  /\ op'[x] \in OpType /\ NewOp(x) /\ (Brings(op[x]) => op[x].leaf.fam \in lost')
             /\ ~Locked(op'[x]) /\ (op'[x].pc = op[x].pc \/ op'[x].pc = "idle")
             /\ Holds(op[x])' /\ Carries(op[x])' /\ SameUser(op[x])'
  <2>1. Shape(op[x]) /\ Sound(op[x]) /\ Fresh(op[x])
    BY DEF ServerInv
  <2>2. PICK v \in OpType : v = op[x]
    BY <1>1 DEF TypeOK
  <2>3. PICK u : u = op'[x]
    OBVIOUS
  <2>4. /\ u \in OpType /\ Shape(u) /\ Sound(u)' /\ Fresh(u)' /\ ~Locked(u)
        /\ u.pc = v.pc \/ u.pc = "idle"
        /\ Brings(v) => v.leaf.fam \in lost'
        /\ Holds(u)' /\ Carries(u)' /\ SameUser(u)'
    <3>1. CASE v.pc \in AtServer
      <4>1. PICK w : w = CutOff(v)
        OBVIOUS
      <4>2. u = w
        BY <1>6, <1>7, <2>2, <2>3, <3>1, <4>1 DEF Left
      <4>3. x \in cut
        BY <1>2, <1>7, <2>2, <3>1
      <4>4. /\ w \in OpType /\ Shape(w) /\ Sound(w)' /\ Fresh(w)' /\ ~Locked(w) /\ w.pc = v.pc
            /\ Brings(v) => v.leaf.fam \in lost'
            /\ Holds(w)' /\ Carries(w)' /\ SameUser(w)'
        BY <1>1, <1>5, <2>1, <2>2, <3>1, <4>1, <4>3, CutFits
           DEF Sound, Fresh, Holds, Carries, SameUser, Known, GoodLeaf, Live, Locked, Strict, Accepts
      <4> QED
        BY <4>2, <4>4
           DEF Sound, Fresh, Holds, Carries, SameUser, Known, GoodLeaf, Live, Locked, Strict, Accepts
    <3>2. CASE v.pc \notin AtServer
      <4>1. u = Idle /\ ~Brings(v)
        BY <1>6, <1>7, <2>2, <2>3, <3>2 DEF Left, Brings, AtServer
      <4> QED
        BY <4>1, IdleFits, Nothing
           DEF Sound, Fresh, Holds, Carries, SameUser, Known, GoodLeaf, Live, Locked, Strict, Accepts
    <3> QED
      BY <3>1, <3>2
  <2> QED
    BY <2>2, <2>3, <2>4
       DEF NewOp, Sound, Fresh, Holds, Carries, SameUser, Known, GoodLeaf, Live, Locked, Strict, Accepts
<1>8. \A x \in Ops : op[x].tab # t => op'[x] = op[x]
  BY <1>6 DEF Left
<1>9. op' \in [Ops -> OpType]
  <2>1. op' = [x \in Ops |-> op'[x]]
    BY DEF Reload
  <2>2. \A x \in Ops : op'[x] \in OpType
    BY <1>1, <1>7, <1>8 DEF TypeOK
  <2> QED
    BY <2>1, <2>2
<1>10. TypeOK'
  BY <1>1, <1>5, <1>9 DEF TypeOK
<1>11. Mutex'
  BY <1>1, <1>7, <1>8, MutexKept
<1>12. VersionRoom'
  BY <1>1, <1>7, <1>8, <1>10, RoomKept
<1>13. Known(store'.fam) /\ \A s \in Tabs : Known(tab'[s].fam)
  BY <1>1 DEF ServerInv, TypeOK
<1>14. ServerInv'
  <2>1. \A x \in Ops : Agrees(op'[x], op[x])
                       \/ (NewOp(x) /\ (Brings(op[x]) => op[x].leaf.fam \in lost'))
    BY <1>7, <1>8 DEF Agrees
  <2> QED
    BY <1>1, <1>5, <1>10, <1>11, <1>12, <1>13, <2>1, EndsKnown, QuietStep
<1>15. ASSUME BrowserInv, ~Abandon PROVE BrowserInv'
  <2>1. Grows
    BY <1>1, <1>5, ServerStays
  <2>2. ASSUME NEW x \in Ops PROVE Holds(op[x])' /\ Carries(op[x])' /\ SameUser(op[x])'
    <3>1. CASE op[x].tab = t
      BY <1>7, <3>1
    <3>2. CASE op[x].tab # t
      <4>1. Agrees(op'[x], op[x]) /\ op'[x].fresh = op[x].fresh
        BY <1>8, <3>2 DEF Agrees
      <4>2. Locked(op[x]) => tab'[op[x].tab] = tab[op[x].tab]
        BY <1>1, <3>2 DEF Locked, TypeOK, OpType
      <4> QED
        BY <1>1, <1>10, <1>15, <2>1, <4>1, <4>2, OtherKept
    <3> QED
      BY <3>1, <3>2
  <2>3. CookieUser'
    <3>1. \A x \in Ops : Between(op[x]) => op[x].tab # t
      BY <1>15 DEF Reload, Between
    <3> QED
      BY <1>1, <1>8, <1>10, <1>15, <2>1, <3>1, CookieUserKept
  <2> QED
    BY <2>2, <2>3 DEF BrowserInv
<1> QED
  BY <1>14, <1>15

----------------------------------------------------------------------------
\* The one session there is at the start.
LEMMA InitFits == Init => ServerInv /\ BrowserInv
<1> SUFFICES ASSUME Init PROVE ServerInv /\ BrowserInv
  OBVIOUS
<1>1. 0 \in 0..MaxGen /\ 0 \in 0..MaxVersion /\ 0 \in 0..MaxFaults
  BY Names
<1>2. PICK c : c = [NoLeaf EXCEPT !.fam = family0, !.user = user0]
  OBVIOUS
<1>3. /\ c \in LeafType /\ c.fam = family0 /\ c.user = user0 /\ c.gen = 0 /\ c.tv = 0 /\ c.by = 0
  BY <1>1, <1>2, Names DEF NoLeaf, LeafType
<1>4. PICK b : b = [user |-> user0, fam |-> family0]
  OBVIOUS
<1>5. b \in BoundaryType /\ b.fam = family0 /\ b.user = user0
  BY <1>4, Names DEF BoundaryType
<1>6. /\ cookie = c /\ store = b /\ tab = [t \in Tabs |-> b] /\ op = [o \in Ops |-> Idle]
      /\ pending = {} /\ ended = {} /\ lost = {} /\ faults = 0
      /\ tv = [u \in Users |-> 0]
  BY <1>2, <1>4 DEF Init
<1>7. \A f \in Families : /\ fam[f].status = IF f = family0 THEN "live" ELSE "unborn"
                          /\ fam[f].gen = 0
  BY DEF Init
<1>8. fam \in [Families -> FamType]
  BY <1>1 DEF Init, FamType
<1>9. TypeOK
  BY <1>1, <1>3, <1>5, <1>6, <1>8, Nothing DEF TypeOK
<1>10. GoodLeaf(cookie) /\ Dated(cookie) /\ CookieFresh
  BY <1>3, <1>6, <1>7, Names DEF GoodLeaf, CookieFresh, Live, Dated
<1>11. Known(store.fam) /\ \A t \in Tabs : Known(tab[t].fam)
  BY <1>5, <1>6, <1>7, Names DEF Known
<1>12. VersionRoom
  <2>1. Changers = {}
    BY <1>6, Nothing DEF Changers
  <2>2. Cardinality(Changers) = 0
    BY <2>1, FS_EmptySet
  <2> QED
    BY <1>6, <2>2, Names DEF VersionRoom
<1>13. \A o \in Ops : Shape(op[o]) /\ Sound(op[o]) /\ Fresh(op[o])
  <2>1. Shape(Idle)
    BY IdleFits
  <2>2. Sound(Idle) /\ Fresh(Idle)
    BY Nothing, Names DEF Sound, GoodLeaf, Known, Fresh, Presents
  <2> QED
    BY <1>6, <2>1, <2>2
<1>14. Mutex /\ ReuseOnlyAfterLoss /\ EndedOrPending
  BY <1>6, <1>7, Nothing DEF Mutex, Locked, ReuseOnlyAfterLoss, EndedOrPending
<1>15. ServerInv
  BY <1>6, <1>7, <1>9, <1>10, <1>11, <1>12, <1>13, <1>14 DEF ServerInv
<1>16. \A o \in Ops : Holds(op[o]) /\ Carries(op[o]) /\ SameUser(op[o])
  BY <1>6, Nothing DEF Holds, Carries, SameUser, Locked
<1>17. CookieUser
  BY <1>3, <1>5, <1>6 DEF CookieUser
<1> QED
  BY <1>15, <1>16, <1>17 DEF BrowserInv

\* No step: nothing changes.
LEMMA Stutter ==
    ASSUME ServerInv, UNCHANGED vars
    PROVE  ServerInv' /\ (BrowserInv => BrowserInv')
<1>1. ServerInv'
  BY DEF vars, ServerInv, TypeOK, Sound, Fresh, GoodLeaf, Known, Live, VersionRoom, Changers,
         Mutex, CookieFresh, ReuseOnlyAfterLoss, EndedOrPending
<1>2. BrowserInv => BrowserInv'
  BY DEF vars, BrowserInv, Holds, Carries, SameUser, CookieUser, Strict, Accepts, Live
<1> QED
  BY <1>1, <1>2

\* Every step keeps what the server has; a reload keeps what the browser has only where no
\* tab goes between a login's cookie and its account.
LEMMA StepKeeps ==
    ASSUME ServerInv, [Next]_vars
    PROVE  ServerInv' /\ (BrowserInv /\ ~Abandon => BrowserInv')
<1>1. ASSUME NEW o \in Ops, Server(o) PROVE ServerInv' /\ (BrowserInv => BrowserInv')
  BY <1>1, RouteSteps, CheckPasswordStep, RotateStep, ReuseStep, LoginStep, FastLogoutStep, VerifyTokenStep,
     IssueStep, ChangeStep DEF Server
<1>2. ASSUME NEW o \in Ops, Browser(o) PROVE ServerInv' /\ (BrowserInv => BrowserInv')
  BY <1>2, RouteSteps, DeliverStep, DropStep, CommitStep, SwitchStep, UndoStep, ForgetStep,
     WipeStep, LockedLogoutStep, HandleDeniedStep, RevokeOneStep DEF Browser
<1>3. ASSUME NEW o \in Ops, NEW t \in Tabs, Asks(t, o)
      PROVE  ServerInv' /\ (BrowserInv => BrowserInv')
  BY <1>3, StartsSteps, RestoreStep, StartLogoutStep DEF Asks
<1>4. ASSUME NEW t \in Tabs, Notice(t) PROVE ServerInv' /\ (BrowserInv => BrowserInv')
  BY <1>4, NoticeStep
<1>5. ASSUME NEW u \in Users, ResetPassword(u) PROVE ServerInv' /\ (BrowserInv => BrowserInv')
  BY <1>5, ResetStep
<1>6. CASE UNCHANGED vars
  BY <1>6, Stutter
<1>7. CASE \E t \in Tabs : Reload(t)
  BY <1>7, ReloadStep
<1> QED
  BY <1>1, <1>2, <1>3, <1>4, <1>5, <1>6, <1>7 DEF Next

\* What the server keeps holds in every state.
THEOREM ServerHolds == Spec => []ServerInv
<1>1. Init => ServerInv
  BY InitFits
<1>2. ServerInv /\ [Next]_vars => ServerInv'
  BY StepKeeps
<1> QED
  BY <1>1, <1>2, PTL DEF Spec

\* Every variable has its type, and every counter stays within its bound.
THEOREM AuthTyped == Spec => []TypeOK
<1>1. ServerInv => TypeOK
  BY DEF ServerInv
<1> QED
  BY <1>1, ServerHolds, PTL

\* No leaf that was got with an old password opens anything, but that of a change which was
\* overtaken: the version a leaf carries is the one that its password was checked at, a change
\* of the password raises it, and the check of a change and its transaction are two steps.
THEOREM OldPasswordsOut == Spec => []OldPasswordOut
<1>1. ServerInv => OldPasswordOut
  BY DEF ServerInv, Shape, OldPasswordOut, Strict, Accepts, Dated
<1> QED
  BY <1>1, ServerHolds, PTL

\* No family is revoked for the reuse of a leaf, but where a tab stopped waiting for a
\* refresh of it.
THEOREM ReuseAfterLoss == Spec => []ReuseOnlyAfterLoss
<1>1. ServerInv => ReuseOnlyAfterLoss
  BY DEF ServerInv
<1> QED
  BY <1>1, ServerHolds, PTL

\* A session the browser has decided to end is dead, or its end is still asked for.
THEOREM EndsAskedFor == Spec => []EndedOrPending
<1>1. ServerInv => EndedOrPending
  BY DEF ServerInv
<1> QED
  BY <1>1, ServerHolds, PTL

\* What the browser keeps holds in every state, where no tab goes between a login's cookie
\* and its account.
THEOREM BrowserHolds == ASSUME ~Abandon PROVE Spec => [](ServerInv /\ BrowserInv)
<1>1. Init => ServerInv /\ BrowserInv
  BY InitFits
<1>2. (ServerInv /\ BrowserInv) /\ [Next]_vars => (ServerInv /\ BrowserInv)'
  BY StepKeeps
<1> QED
  BY <1>1, <1>2, PTL DEF Spec

\* No request is carried out for another account than the one its tab showed when it was
\* sent, where no tab goes between a login's cookie and its account.
THEOREM NotAsAnother == ASSUME ~Abandon PROVE Spec => []NeverAsAnother
<1>1. ServerInv /\ BrowserInv => NeverAsAnother
  <2>1. SUFFICES ASSUME ServerInv, BrowserInv, NEW o \in Ops, op[o].pc = "send",
                        op[o].exp.user # None, Strict(op[o].leaf)
                 PROVE  op[o].leaf.user = op[o].exp.user
    BY DEF NeverAsAnother
  <2>2. op[o].tab # None /\ op[o].kind = "request"
    BY <2>1 DEF ServerInv, Shape, AtServer
  <2> QED
    BY <2>1, <2>2 DEF BrowserInv, SameUser
<1> QED
  BY <1>1, BrowserHolds, PTL

=============================================================================
