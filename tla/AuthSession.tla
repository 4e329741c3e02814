------------------------------ MODULE AuthSession ------------------------------
(***************************************************************************)
(* Sessions of LectureLive, from both sides.  On the server every login is   *)
(* a token family, whose one current leaf a refresh consumes                 *)
(* (src/lib/auth.ts and the routes of src/app/api/auth).  In the browser     *)
(* the leaf is an HttpOnly cookie that all tabs share, each tab shows the    *)
(* account of its store, and the protocol of                                 *)
(* src/lib/clientAuthCookieMutation.ts, src/stores/authStore.ts,             *)
(* src/hooks/useAuth.ts and src/components/AuthSessionMonitor.tsx keeps the   *)
(* two together: requests that may write the cookie hold the exclusive Web   *)
(* Lock, ordinary requests hold it shared until their headers have arrived.  *)
(*                                                                         *)
(* One browser, any number of tabs and operations.  A step is one statement  *)
(* of the server, or what a tab does between two awaits.  An expired family   *)
(* is one that is over.                                                      *)
(***************************************************************************)
EXTENDS Naturals, FiniteSets

CONSTANTS
    Users, Families, Tabs,
    user0, family0,  \* who is logged in at the start, in which family
    Ops,         \* operations in flight
    None,
    Changeable,  \* bound: the users whose passwords change
    MaxVersion,  \* bound: password changes of a user
    MaxGen,      \* bound: rotations of a family
    MaxFaults,   \* bound: requests cut off, answers, clean-ups and revocations that fail
    Abandon      \* whether a tab may go while it has a login's cookie and no account yet

ASSUME AuthAssumption ==
    /\ None \notin Users \cup Families \cup Tabs \cup Ops
    /\ None \notin {"refresh", "login", "change", "request", "logout",
                    "ok", "refused", "unauthorized", "flying", "failed"}
    /\ IsFiniteSet(Ops)
    /\ user0 \in Users /\ family0 \in Families /\ Changeable \subseteq Users
    /\ MaxVersion \in Nat /\ MaxGen \in Nat /\ MaxFaults \in Nat /\ Abandon \in BOOLEAN

VARIABLES
    tv,       \* User.tokenVersion
    fam,      \* the AuthTokenFamily rows
    cookie,   \* the leaf in the browser's cookie
    store,    \* the account boundary in localStorage
    tab,      \* the account boundary in each tab's memory
    pending,  \* revocations the server has not confirmed, in localStorage
    op,       \* what each operation is at
    ended,    \* ghost: families the browser has decided to end
    lost,     \* ghost: families a refresh of which the browser stopped waiting for
    faults

vars == <<tv, fam, cookie, store, tab, pending, op, ended, lost, faults>>

\* Of a leaf, two fields are ghosts: the version the password was checked at that it was got
\* with, and whether a change that got it was overtaken.
NoLeaf == [fam |-> None, user |-> None, gen |-> 0, tv |-> 0, by |-> 0, late |-> FALSE]
Nobody == [user |-> None, fam |-> None]
Idle == [pc |-> "idle", kind |-> None, tab |-> None, exp |-> Nobody, fresh |-> FALSE,
         leaf |-> NoLeaf, ans |-> None, left |-> {}]

Mutations == {"refresh", "login", "change"}
AtServer == {"verify", "user", "rotate", "reuse", "read", "issue", "check", "password", "change",
             "reply"}
Exclusive == AtServer \cup {"body", "switch", "undo", "revoke"}
Shared == {"send"}

Held(pcs) == \E o \in Ops : op[o].tab # None /\ op[o].pc \in pcs
Current(o) == op[o].fresh /\ store = op[o].exp
Step(o, pc) == op' = [op EXCEPT ![o].pc = pc]
Ends(o) == op' = [op EXCEPT ![o] = Idle]
Answers(o, a) ==
    op' = [op EXCEPT ![o].pc = "reply", ![o].ans = a, ![o].leaf = NoLeaf]
Fault == faults < MaxFaults /\ faults' = faults + 1

\* A new boundary in the memory of o's tab: its other operations are out of date.
Moves(o, boundary, new) ==
    /\ tab' = [tab EXCEPT ![op[o].tab] = boundary]
    /\ op' = [x \in Ops |->
                CASE x = o -> new
                  [] x # o /\ op[x].tab = op[o].tab -> [op[x] EXCEPT !.fresh = FALSE]
                  [] OTHER -> op[x]]

Live(f) == f # None /\ fam[f].status = "live"
Accepts(l) == Live(l.fam) /\ tv[l.user] = l.tv
Strict(l) == Accepts(l) /\ fam[l.fam].gen = l.gen
Revoked(f) ==
    IF Live(f) THEN [fam EXCEPT ![f] = [status |-> "over", gen |-> 0]] ELSE fam
Unborn == {f \in Families : fam[f].status = "unborn"}
Born(f, rows) == [rows EXCEPT ![f].status = "live"]

Making == {o \in Ops : op[o].kind \in {"login", "change"}}
Room == Cardinality(Making) < Cardinality(Unborn)
Changing == {o \in Ops : op[o].kind = "change"}
MayChange(u) == u \in Changeable /\ \A v \in Users : tv[v] + Cardinality(Changing) < MaxVersion

SendState == <<tv, fam, cookie, store, tab, pending, ended, lost>>

----------------------------------------------------------------------------
(* The tabs' operations and the lock.  One that has waited for the lock goes   *)
(* on only if the tab's boundary has not moved since it was asked for, else it     *)
(* does nothing: it is modelled from the moment it has the lock.                   *)

Starts(t, o, kind, pc, leaf) ==
    /\ op[o] = Idle /\ tab[t] = store
    /\ op' = [op EXCEPT ![o] = [Idle EXCEPT !.pc = pc, !.kind = kind, !.tab = t,
                                            !.exp = tab[t], !.fresh = TRUE, !.leaf = leaf]]
    /\ UNCHANGED <<SendState, faults>>

\* A mutation of the cookie has the lock for itself, and no unconfirmed revocation.
Alone == pending = {} /\ ~Held(Exclusive \cup Shared)

\* Slip: a tab waits for its own mutations only (inTabBarrier without Web Locks).
StartRefreshInTab(t, o) ==
    /\ pending = {} /\ ~\E x \in Ops : op[x].tab = t /\ op[x].pc \in Exclusive
    /\ cookie.gen < MaxGen /\ Starts(t, o, "refresh", "verify", cookie)

StartRefresh(t, o) ==
    Alone /\ cookie.gen < MaxGen /\ Starts(t, o, "refresh", "verify", cookie)

StartLogin(t, o, u) ==
    Alone /\ Room /\ Starts(t, o, "login", "read", [NoLeaf EXCEPT !.user = u])

StartChange(t, o) ==
    /\ Alone /\ Room /\ MayChange(tab[t].user) /\ tab[t].user # None
    /\ Starts(t, o, "change", "check", cookie)

\* Slip: an ordinary request does not wait for the mutations.
StartRequestAtOnce(t, o) == Starts(t, o, "request", "send", cookie)

StartRequest(t, o) ==
    ~Held(Exclusive) /\ Starts(t, o, "request", "send", cookie)

\* A restore with unconfirmed revocations makes the tab anonymous instead.
RestorePending(t, o) ==
    /\ pending # {} /\ op[o] = Idle
    /\ tab' = [tab EXCEPT ![t] = Nobody]
    /\ store' = Nobody
    /\ op' = [x \in Ops |->
                CASE x = o -> [Idle EXCEPT !.pc = "wipe", !.kind = "refresh", !.tab = t,
                                           !.fresh = TRUE]
                  [] x # o /\ op[x].tab = t -> [op[x] EXCEPT !.fresh = FALSE]
                  [] OTHER -> op[x]]
    /\ UNCHANGED <<tv, fam, cookie, pending, ended, lost, faults>>

\* The revocation of the account the user sees is sent before the lock is asked for.
\* A tab without an account offers it where an earlier logout is incomplete.
StartLogout(t, o) ==
    /\ op[o] = Idle /\ (tab[t].fam # None \/ pending # {})
    /\ op' = [op EXCEPT ![o] = [Idle EXCEPT !.pc = "wait", !.kind = "logout", !.tab = t,
                                            !.exp = tab[t], !.fresh = TRUE,
                                            !.ans = IF tab[t].fam = None THEN "ok" ELSE "flying"]]
    /\ pending' = pending \cup ({tab[t].fam} \ {None})
    /\ ended' = ended \cup ({tab[t].fam} \ {None})
    /\ UNCHANGED <<tv, fam, cookie, store, tab, lost, faults>>

----------------------------------------------------------------------------
(* The server: refresh, login, change of the password.                     *)

VerifyRefresh(o) ==
    /\ op[o].pc = "verify"
    /\ LET l == op[o].leaf IN
       CASE l.fam = None \/ l.fam # op[o].exp.fam -> Answers(o, "refused")
         [] l.fam # None /\ l.fam = op[o].exp.fam /\ Accepts(l) -> Step(o, "user")
         [] OTHER -> Answers(o, "unauthorized")
    /\ UNCHANGED <<SendState, faults>>

ReadUser(o) ==
    /\ op[o].pc = "user"
    /\ LET l == op[o].leaf IN
       IF tv[l.user] = l.tv
       THEN op' = [op EXCEPT ![o].pc = "rotate", ![o].leaf.tv = tv[l.user]]
       ELSE Answers(o, "unauthorized")
    /\ UNCHANGED <<SendState, faults>>

\* Slip: an update without the condition on the leaf.
RotateAnyLeaf(o) ==
    /\ op[o].pc = "rotate" /\ Live(op[o].leaf.fam)
    /\ fam' = [fam EXCEPT ![op[o].leaf.fam].gen = @ + 1]
    /\ op' = [op EXCEPT ![o].pc = "reply", ![o].ans = "ok", ![o].leaf.gen = @ + 1]
    /\ UNCHANGED <<tv, cookie, store, tab, pending, ended, lost, faults>>

\* The compare-and-swap of the current leaf.
RotateAuthToken(o) ==
    /\ op[o].pc = "rotate"
    /\ LET l == op[o].leaf IN
       IF Live(l.fam) /\ fam[l.fam].gen = l.gen
       THEN /\ fam' = [fam EXCEPT ![l.fam].gen = @ + 1]
            /\ op' = [op EXCEPT ![o].pc = "reply", ![o].ans = "ok", ![o].leaf.gen = @ + 1]
       ELSE Step(o, "reuse") /\ UNCHANGED fam
    /\ UNCHANGED <<tv, cookie, store, tab, pending, ended, lost, faults>>

RevokeReused(o) ==
    /\ op[o].pc = "reuse"
    /\ fam' = IF Live(op[o].leaf.fam) THEN [fam EXCEPT ![op[o].leaf.fam].status = "reused"]
              ELSE fam
    /\ Answers(o, "unauthorized")
    /\ UNCHANGED <<tv, cookie, store, tab, pending, ended, lost, faults>>

Login(o) ==
    /\ op[o].pc = "read"
    /\ op' = [op EXCEPT ![o].pc = "issue", ![o].leaf.tv = tv[op[o].leaf.user],
                        ![o].leaf.by = tv[op[o].leaf.user]]
    /\ UNCHANGED <<SendState, faults>>

\* Slip: the token carries the version of now, not the one the password was checked with.
IssueFreshVersion(o, f) ==
    /\ op[o].pc = "issue" /\ f \in Unborn
    /\ fam' = Born(f, fam)
    /\ op' = [op EXCEPT ![o].pc = "reply", ![o].ans = "ok", ![o].leaf.fam = f,
                        ![o].leaf.tv = tv[op[o].leaf.user]]
    /\ UNCHANGED <<tv, cookie, store, tab, pending, ended, lost, faults>>

IssueAuthToken(o, f) ==
    /\ op[o].pc = "issue" /\ f \in Unborn
    /\ fam' = Born(f, fam)
    /\ op' = [op EXCEPT ![o].pc = "reply", ![o].ans = "ok", ![o].leaf.fam = f]
    /\ UNCHANGED <<tv, cookie, store, tab, pending, ended, lost, faults>>

CheckChange(o) ==
    /\ op[o].pc = "check"
    /\ IF Strict(op[o].leaf) THEN Step(o, "password") ELSE Answers(o, "refused")
    /\ UNCHANGED <<SendState, faults>>

\* The password that was sent is compared with the hash of now, outside the transaction.
CheckPassword(o) ==
    /\ op[o].pc = "password"
    /\ \/ Answers(o, "refused")
       \/ op' = [op EXCEPT ![o].pc = "change", ![o].leaf.by = tv[op[o].leaf.user]]
    /\ UNCHANGED <<SendState, faults>>

\* New hash and version, whatever they are meanwhile, the old family ended, a new one for this
\* browser: got with the password it sets, or, if another change came between, with an old one.
ChangePassword(o, f) ==
    /\ op[o].pc = "change" /\ f \in Unborn
    /\ LET l == op[o].leaf
           overtaken == tv[l.user] # l.by
           n == [l EXCEPT !.fam = f, !.gen = 0, !.tv = tv[l.user] + 1, !.late = overtaken,
                          !.by = IF overtaken THEN @ ELSE tv[l.user] + 1]
       IN  /\ tv' = [tv EXCEPT ![l.user] = @ + 1]
           /\ fam' = Born(f, Revoked(l.fam))
           /\ op' = [op EXCEPT ![o].pc = "reply", ![o].ans = "ok", ![o].leaf = n]
    /\ UNCHANGED <<cookie, store, tab, pending, ended, lost, faults>>

\* A statement fails.  The answer is a 5xx, which keeps the cookie and the account.
Unavailable(o) ==
    /\ op[o].pc \in AtServer \ {"reply"} /\ Ends(o)
    /\ UNCHANGED <<SendState, faults>>

----------------------------------------------------------------------------
(* The answer in the browser.                                              *)

\* Set-Cookie is applied with the headers, before the tab sees the answer.
Deliver(o) ==
    /\ op[o].pc = "reply"
    /\ IF op[o].tab = None
       THEN Ends(o) /\ UNCHANGED cookie
       ELSE /\ cookie' = CASE op[o].ans = "ok" -> op[o].leaf
                           [] op[o].ans = "unauthorized" -> NoLeaf
                           [] OTHER -> cookie
            /\ Step(o, "body")
    /\ UNCHANGED <<tv, fam, store, tab, pending, ended, lost, faults>>

\* The connection breaks: the tab gives up, the server goes on.  A commit whose
\* acknowledgement the server has lost, answered with a 5xx, ends in the same way.
Drop(o) ==
    /\ op[o].tab # None /\ op[o].pc \in AtServer /\ Fault
    /\ op' = [op EXCEPT ![o].tab = None, ![o].fresh = FALSE,
                        ![o].exp = IF op[o].pc = "verify" THEN @ ELSE Nobody]
    /\ lost' = lost \cup (IF op[o].kind = "refresh" THEN {op[o].leaf.fam} \ {None} ELSE {})
    /\ UNCHANGED <<tv, fam, cookie, store, tab, pending, ended>>

\* revokeUncommittedAuthSession, up to its request.
BeginUndo(o) ==
    /\ pending' = pending \cup {op[o].leaf.fam}
    /\ ended' = ended \cup {op[o].leaf.fam}
    /\ op' = [op EXCEPT ![o].pc = "undo", ![o].exp = Nobody, ![o].ans = None,
                        ![o].leaf = [NoLeaf EXCEPT !.fam = op[o].leaf.fam]]
    /\ UNCHANGED <<store, tab>>

Commit(o) ==
    /\ op[o].pc = "body"
    /\ CASE op[o].ans = "ok" /\ ~Current(o) -> BeginUndo(o)
         [] op[o].ans = "ok" /\ Current(o) /\ op[o].kind = "refresh" ->
              Ends(o) /\ UNCHANGED <<store, tab, pending, ended>>
         [] op[o].ans = "ok" /\ Current(o) /\ op[o].kind = "login" ->
              /\ Moves(o, Nobody, [op[o] EXCEPT !.pc = "switch"])
              /\ store' = Nobody /\ UNCHANGED <<pending, ended>>
         [] op[o].ans = "ok" /\ Current(o) /\ op[o].kind = "change" ->
              /\ Moves(o, [op[o].exp EXCEPT !.fam = op[o].leaf.fam], Idle)
              /\ store' = [store EXCEPT !.fam = op[o].leaf.fam]
              /\ UNCHANGED <<pending, ended>>
         [] op[o].ans \in {"refused", "unauthorized"} /\ op[o].kind = "refresh" ->
              /\ Step(o, "forget") /\ UNCHANGED <<store, tab, pending, ended>>
         [] OTHER -> Ends(o) /\ UNCHANGED <<store, tab, pending, ended>>
    /\ UNCHANGED <<tv, fam, cookie, lost, faults>>

\* The body of a good answer cannot be read.
Truncated(o) ==
    /\ op[o].pc = "body" /\ op[o].ans = "ok" /\ Fault
    /\ BeginUndo(o)
    /\ UNCHANGED <<tv, fam, cookie, lost>>

\* setAuth after the clean-up of the old account's data.
Switch(o) ==
    /\ op[o].pc = "switch"
    /\ \/ /\ op[o].fresh
          /\ LET b == [user |-> op[o].leaf.user, fam |-> op[o].leaf.fam] IN
             Moves(o, b, Idle) /\ store' = b
          /\ UNCHANGED <<pending, ended, faults>>
       \/ /\ IF op[o].fresh THEN Fault ELSE UNCHANGED faults
          /\ BeginUndo(o)
    /\ UNCHANGED <<tv, fam, cookie, lost>>

\* The tab becomes anonymous, unless its boundary is no longer the operation's.
Anonymous(o, new) ==
    IF op[o].fresh THEN Moves(o, Nobody, new) /\ store' = Nobody
    ELSE op' = [op EXCEPT ![o] = Idle] /\ UNCHANGED <<tab, store>>

\* Slip: the revocation is forgotten whether or not it was confirmed.
UndoOnce(o) ==
    /\ op[o].pc = "undo" /\ pending' = pending \ {op[o].leaf.fam}
    /\ \/ fam' = Revoked(op[o].leaf.fam) /\ UNCHANGED faults
       \/ Fault /\ UNCHANGED fam
    /\ Anonymous(o, Idle)
    /\ UNCHANGED <<tv, cookie, ended, lost>>

\* The revocation of a session this tab has got and could not take over, then the tab's
\* own clean-up.  An answer that fails may come from a server that has done it.
Undo(o) ==
    /\ op[o].pc = "undo"
    /\ \/ /\ fam' = Revoked(op[o].leaf.fam)
          /\ pending' = pending \ {op[o].leaf.fam}
          /\ UNCHANGED faults
       \/ Fault /\ fam' \in {fam, Revoked(op[o].leaf.fam)} /\ UNCHANGED pending
    /\ Anonymous(o, Idle)
    /\ UNCHANGED <<tv, cookie, ended, lost>>

\* After a refused refresh, outside the lock: clearStore with the expected boundary,
\* whose last write comes after the clean-up.
Forget(o) ==
    /\ op[o].pc = "forget"
    /\ Anonymous(o, [op[o] EXCEPT !.pc = "wipe", !.exp = Nobody, !.ans = None])
    /\ UNCHANGED <<tv, fam, cookie, pending, ended, lost, faults>>

Wipe(o) ==
    /\ op[o].pc = "wipe"
    /\ store' = IF op[o].fresh THEN Nobody ELSE store
    /\ Ends(o)
    /\ UNCHANGED <<tv, fam, cookie, tab, pending, ended, lost, faults>>

----------------------------------------------------------------------------
(* Logout, ordinary requests.                                              *)

\* The request that logout sent before it had the lock.
FastLogout(o) ==
    /\ op[o].kind = "logout" /\ op[o].ans = "flying"
    /\ \/ /\ fam' = Revoked(op[o].exp.fam) /\ UNCHANGED faults
          /\ op' = [op EXCEPT ![o].ans = "ok"]
       \/ /\ Fault /\ fam' \in {fam, Revoked(op[o].exp.fam)}
          /\ op' = [op EXCEPT ![o].ans = "failed"]
    /\ UNCHANGED <<tv, cookie, store, tab, pending, ended, lost>>

LockedLogout(o) ==
    /\ op[o].pc = "wait" /\ op[o].kind = "logout" /\ ~Held(Exclusive \cup Shared)
    /\ LET targets == (pending \cup {op[o].exp.fam, tab[op[o].tab].fam, store.fam}) \ {None}
       IN  /\ pending' = targets
           /\ ended' = ended \cup targets
           /\ Moves(o, Nobody, IF targets = {} THEN Idle
                                 ELSE [op[o] EXCEPT !.pc = "revoke", !.left = targets])
    /\ store' = Nobody
    /\ UNCHANGED <<tv, fam, cookie, lost, faults>>

RevokeOne(o, f) ==
    /\ op[o].pc = "revoke" /\ f \in op[o].left
    /\ IF op[o].left = {f} THEN Ends(o) ELSE op' = [op EXCEPT ![o].left = @ \ {f}]
    /\ \/ /\ f = op[o].exp.fam /\ op[o].ans = "ok"
          /\ pending' = pending \ {f} /\ UNCHANGED <<fam, faults>>
       \/ f = op[o].exp.fam /\ op[o].ans = "failed" /\ UNCHANGED <<pending, fam, faults>>
       \/ /\ f # op[o].exp.fam /\ fam' = Revoked(f)
          /\ pending' = pending \ {f} /\ UNCHANGED faults
       \/ /\ f # op[o].exp.fam /\ Fault /\ fam' \in {fam, Revoked(f)}
          /\ UNCHANGED pending
    /\ UNCHANGED <<tv, cookie, store, tab, ended, lost>>

\* The headers of the answer arrive and the lock is free again.
VerifyToken(o) ==
    /\ op[o].pc = "send"
    /\ IF Strict(op[o].leaf) THEN Ends(o)
       ELSE op' = [op EXCEPT ![o].pc = "denied", ![o].leaf = NoLeaf]
    /\ UNCHANGED <<SendState, faults>>

\* A 401 of a public page, or for a boundary that is no more.
IgnoreDenied(o) ==
    /\ op[o].pc = "denied" /\ Ends(o)
    /\ UNCHANGED <<SendState, faults>>

HandleDenied(o) ==
    /\ op[o].pc = "denied" /\ Current(o)
    /\ ~Held(Exclusive \cup Shared)
    /\ IF op[o].exp.fam = None
       THEN Anonymous(o, Idle) /\ UNCHANGED <<pending, ended>>
       ELSE /\ pending' = pending \cup {op[o].exp.fam}
            /\ ended' = ended \cup {op[o].exp.fam}
            /\ Anonymous(o, [op[o] EXCEPT !.pc = "undo", !.exp = Nobody, !.ans = None,
                                          !.leaf.fam = op[o].exp.fam])
    /\ UNCHANGED <<tv, fam, cookie, lost, faults>>

----------------------------------------------------------------------------
(* Tabs that learn of each other, other devices, time.                     *)

\* The storage event of another tab's write.
Notice(t) ==
    /\ tab[t] # store
    /\ tab' = [tab EXCEPT ![t] = Nobody]
    /\ op' = [x \in Ops |-> IF op[x].tab = t THEN [op[x] EXCEPT !.fresh = FALSE] ELSE op[x]]
    /\ UNCHANGED <<tv, fam, cookie, store, pending, ended, lost, faults>>

\* The page is loaded again.  A login, refresh or change it has sent goes on at the
\* server; a revocation it has sent has arrived before or does not.
Reload(t) ==
    /\ tab[t] # store \/ \E o \in Ops : op[o].tab = t
    /\ Abandon \/ ~\E o \in Ops :
                     op[o].tab = t /\ op[o].kind = "login" /\ op[o].pc \in {"body", "undo"}
    /\ tab' = [tab EXCEPT ![t] = store]
    /\ op' = [x \in Ops |->
                CASE op[x].tab # t -> op[x]
                  [] op[x].tab = t /\ op[x].pc \in AtServer ->
                       [op[x] EXCEPT !.tab = None, !.fresh = FALSE,
                                     !.exp = IF op[x].pc = "verify" THEN @ ELSE Nobody]
                  [] OTHER -> Idle]
    /\ LET cut == {o \in Ops : op[o].tab = t /\ op[o].pc \in AtServer} IN
       /\ IF cut = {} THEN UNCHANGED faults ELSE Fault
       /\ lost' = lost \cup ({op[o].leaf.fam : o \in
                                {o \in cut : op[o].kind = "refresh"}} \ {None})
    /\ UNCHANGED <<tv, fam, cookie, store, pending, ended>>

\* The password is reset by a link in a mail, on any device: no family is ended.
ResetPassword(u) ==
    /\ MayChange(u)
    /\ tv' = [tv EXCEPT ![u] = @ + 1]
    /\ UNCHANGED <<fam, cookie, store, tab, pending, op, ended, lost, faults>>

----------------------------------------------------------------------------
\* All tabs show the account of the one session there is.
Init ==
    /\ tv = [u \in Users |-> 0]
    /\ fam = [f \in Families |->
                [status |-> IF f = family0 THEN "live" ELSE "unborn", gen |-> 0]]
    /\ cookie = [NoLeaf EXCEPT !.fam = family0, !.user = user0]
    /\ store = [user |-> user0, fam |-> family0]
    /\ tab = [t \in Tabs |-> store]
    /\ pending = {} /\ op = [o \in Ops |-> Idle]
    /\ ended = {} /\ lost = {} /\ faults = 0

Asks(t, o) ==
    \/ StartRefresh(t, o) \/ RestorePending(t, o) \/ StartChange(t, o)
    \/ StartRequest(t, o) \/ StartLogout(t, o)
    \/ \E u \in Users : StartLogin(t, o, u)

Server(o) ==
    \/ VerifyRefresh(o) \/ ReadUser(o) \/ RotateAuthToken(o) \/ RevokeReused(o)
    \/ Login(o) \/ CheckChange(o) \/ CheckPassword(o) \/ Unavailable(o) \/ FastLogout(o) \/ VerifyToken(o)
    \/ \E f \in Families : IssueAuthToken(o, f) \/ ChangePassword(o, f)

Browser(o) ==
    \/ Deliver(o) \/ Drop(o) \/ Commit(o) \/ Truncated(o) \/ Switch(o)
    \/ Undo(o) \/ Forget(o) \/ Wipe(o) \/ LockedLogout(o)
    \/ IgnoreDenied(o) \/ HandleDenied(o)
    \/ \E f \in Families : RevokeOne(o, f)

Next ==
    \/ \E o \in Ops : Server(o) \/ Browser(o) \/ \E t \in Tabs : Asks(t, o)
    \/ \E t \in Tabs : Notice(t) \/ Reload(t)
    \/ \E u \in Users : ResetPassword(u)

Spec == Init /\ [][Next]_vars

----------------------------------------------------------------------------
LeafType == [fam : Families \cup {None}, user : Users \cup {None}, gen : 0..MaxGen,
             tv : 0..MaxVersion, by : 0..MaxVersion, late : BOOLEAN]
BoundaryType == [user : Users \cup {None}, fam : Families \cup {None}]
OpType ==
    [pc : Exclusive \cup Shared \cup {"idle", "wait", "forget", "wipe", "denied"},
     kind : Mutations \cup {"request", "logout", None}, tab : Tabs \cup {None},
     exp : BoundaryType, fresh : BOOLEAN, leaf : LeafType,
     ans : {None, "ok", "refused", "unauthorized", "flying", "failed"},
     left : SUBSET Families]
FamType == [status : {"unborn", "live", "reused", "over"}, gen : 0..MaxGen]

TypeOK ==
    /\ tv \in [Users -> 0..MaxVersion]
    /\ fam \in [Families -> FamType]
    /\ cookie \in LeafType /\ store \in BoundaryType
    /\ tab \in [Tabs -> BoundaryType] /\ op \in [Ops -> OpType]
    /\ pending \in SUBSET Families /\ ended \in SUBSET Families /\ lost \in SUBSET Families
    /\ faults \in 0..MaxFaults

\* A request that a tab sends while it shows an account is never carried out for
\* another account, whichever tabs log in, log out or learn of it meanwhile.
NeverAsAnother ==
    \A o \in Ops :
      op[o].pc = "send" /\ op[o].exp.user # None /\ Strict(op[o].leaf) =>
        op[o].leaf.user = op[o].exp.user

\* The tabs of one browser never have their family revoked for the reuse of a leaf,
\* but where a tab stopped waiting for a refresh that the server went on with.
ReuseOnlyAfterLoss == \A f \in Families : fam[f].status = "reused" => f \in lost

\* A session the browser has decided to end is dead, or its end is still asked for.
EndedOrPending == \A f \in ended : Live(f) => f \in pending

\* No leaf that was got with an old password opens anything, whatever logins, refreshes and
\* changes a reset or another change meets, but the leaf of a change that was overtaken between
\* its check and its transaction, which sets the password of now (auth.ts 1273-1447).
OldPasswordOut ==
    \A l \in {cookie} \cup {op[o].leaf : o \in {x \in Ops : op[x].pc = "reply"
                                                          /\ op[x].ans = "ok"}} :
      Strict(l) => l.by = tv[l.user] \/ l.late
=============================================================================
