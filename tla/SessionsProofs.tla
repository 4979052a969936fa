-------------------------- MODULE SessionsProofs --------------------------
(***************************************************************************)
(* Proofs about Sessions: IInv is inductive, so a login never has two live *)
(* sessions and a refresh never revives one, for any number of sessions    *)
(* and of concurrent requests.                                             *)
(***************************************************************************)
EXTENDS Sessions, TLAPS

USE DEF RevokeAllReason, Reason, PC, rowVars, argVars

\* Initially no session exists and the invariant holds.
LEMMA InitIInv == Init => IInv
  BY NoneAssumption
  DEF Init, IInv, TypeOK, RootsMade, RefreshOK, RevokeAllOK, OneLivePerLogin, IsLive

---------------------------------------------------------------------------
(* What a step leaves alone *)

\* The slot of r and the session rows it holds stay as they are.
SlotKept(r) ==
  /\ pc'[r] = pc[r] /\ cause'[r] = cause[r] /\ target'[r] = target[r]
  /\ seen'[r] = seen[r] /\ got'[r] = got[r]
  /\ \A s \in Session : holder[s] = r => holder'[s] = r /\ reason'[s] = reason[s]

\* A request keeps its invariant through steps that leave its slot and the
\* rows it holds alone; sessions are never deleted.
LEMMA SlotKeptOK ==
  ASSUME IInv, NEW r \in Tx, SlotKept(r), made \subseteq made'
  PROVE  RefreshOK(r)' /\ RevokeAllOK(r)'
<1>1. TypeOK /\ RefreshOK(r) /\ RevokeAllOK(r)
  BY DEF IInv
<1>2. RefreshOK(r)'
  BY <1>1 DEF TypeOK, RefreshOK, SlotKept
<1>3. RevokeAllOK(r)'
  BY <1>1 DEF TypeOK, RevokeAllOK, SlotKept
<1>4. QED
  BY <1>2, <1>3

\* The end of a transaction frees its slot and its rows, and nobody else's.
LEMMA Ending ==
  ASSUME IInv, NEW t \in Tx, End(t)
  PROVE  /\ holder' \in [Session -> Tx \cup {None}]
         /\ pc' \in [Tx -> PC]
         /\ cause' \in [Tx -> RevokeAllReason \cup {None}]
         /\ target' \in [Tx -> Session \cup {None}]
         /\ seen' \in [Tx -> Reason \cup {None}]
         /\ shown' \in [Tx -> SUBSET Session]
         /\ todo' \in [Tx -> SUBSET Session]
         /\ got' \in [Tx -> SUBSET Session]
         /\ pc'[t] = "idle" /\ got'[t] = {}
         /\ \A r \in Tx \ {t} :
              /\ pc'[r] = pc[r] /\ cause'[r] = cause[r] /\ target'[r] = target[r]
              /\ seen'[r] = seen[r] /\ got'[r] = got[r]
              /\ \A s \in Session : holder[s] = r => holder'[s] = r
<1>1. TypeOK
  BY DEF IInv
<1>2. /\ pc' \in [Tx -> PC] /\ cause' \in [Tx -> RevokeAllReason \cup {None}]
      /\ target' \in [Tx -> Session \cup {None}] /\ seen' \in [Tx -> Reason \cup {None}]
      /\ shown' \in [Tx -> SUBSET Session]
      /\ todo' \in [Tx -> SUBSET Session]
      /\ got' \in [Tx -> SUBSET Session]
  BY <1>1 DEF TypeOK, End
<1>3. holder' \in [Session -> Tx \cup {None}]
  BY <1>1 DEF TypeOK, End
<1>4. pc'[t] = "idle" /\ got'[t] = {}
  BY <1>1 DEF TypeOK, End
<1>5. ASSUME NEW r \in Tx \ {t}
      PROVE  /\ pc'[r] = pc[r] /\ cause'[r] = cause[r] /\ target'[r] = target[r]
             /\ seen'[r] = seen[r] /\ got'[r] = got[r]
             /\ \A s \in Session : holder[s] = r => holder'[s] = r
  BY <1>1 DEF TypeOK, End
<1>6. QED
  BY <1>2, <1>3, <1>4, <1>5

\* When t ends, no other request minds if the rows whose reason changed were
\* not held by it.
LEMMA EndingSlots ==
  ASSUME IInv, NEW t \in Tx, End(t), made \subseteq made',
         \A r \in Tx \ {t} : \A s \in Session : holder[s] = r => reason'[s] = reason[s]
  PROVE  \A r \in Tx : RefreshOK(r)' /\ RevokeAllOK(r)'
<1>1. RefreshOK(t)' /\ RevokeAllOK(t)'
  BY Ending DEF RefreshOK, RevokeAllOK
<1>2. ASSUME NEW r \in Tx \ {t} PROVE RefreshOK(r)' /\ RevokeAllOK(r)'
  <2>1. SlotKept(r)
    BY Ending DEF SlotKept
  <2>2. QED
    BY <2>1, SlotKeptOK
<1>3. QED
  BY <1>1, <1>2

\* Revoking sessions never gives a login a second live one.
LEMMA RevokingKeepsOne ==
  ASSUME OneLivePerLogin, UNCHANGED <<made, root>>,
         \A s \in made : reason'[s] = None => reason[s] = None
  PROVE  OneLivePerLogin'
  BY DEF OneLivePerLogin, IsLive

---------------------------------------------------------------------------
(* Every step preserves the invariant *)

\* Steps that end a transaction and write no session.
LEMMA QuietEnd ==
  ASSUME IInv, NEW t \in Tx, End(t), UNCHANGED rowVars
  PROVE  IInv'
<1>1. TypeOK'
  BY Ending DEF TypeOK, IInv
<1>2. RootsMade' /\ OneLivePerLogin'
  BY DEF IInv, RootsMade, OneLivePerLogin, IsLive
<1>3. QED
  BY <1>1, <1>2, EndingSlots DEF IInv

\* A new request of any kind.
LEMMA RequestStep ==
  ASSUME IInv, NEW t \in Tx, Request(t)
  PROVE  IInv'
<1> USE DEF Start
<1>1. TypeOK
  BY DEF IInv
<1>2. /\ UNCHANGED <<rowVars, holder, seen, shown, todo, got>>
      /\ pc[t] = "idle"
  BY DEF Request, BeginLogin, BeginRefresh, BeginLogout, BeginRevokeAll
<1>3. /\ \A r \in Tx \ {t} : pc'[r] = pc[r] /\ cause'[r] = cause[r] /\ target'[r] = target[r]
      /\ pc'[t] \in {"login", "refresh", "logout", "revokeAll"}
      /\ pc'[t] \in {"refresh", "logout"} => target'[t] \in made
      /\ pc'[t] = "revokeAll" => cause'[t] \in RevokeAllReason
  BY <1>1 DEF Request, BeginLogin, BeginRefresh, BeginLogout, BeginRevokeAll, TypeOK
<1>4. TypeOK'
  <2>1. pc' \in [Tx -> PC] /\ cause' \in [Tx -> RevokeAllReason \cup {None}]
    BY <1>1 DEF Request, BeginLogin, BeginRefresh, BeginLogout, BeginRevokeAll, TypeOK
  <2>2. target' \in [Tx -> Session \cup {None}]
    BY <1>1 DEF Request, BeginLogin, BeginRefresh, BeginLogout, BeginRevokeAll, TypeOK
  <2>3. QED
    BY <1>1, <1>2, <2>1, <2>2 DEF TypeOK
<1>5. RefreshOK(t)' /\ RevokeAllOK(t)'
  <2>1. RevokeAllOK(t)
    BY DEF IInv
  <2>2. RefreshOK(t)'
    BY <1>2, <1>3 DEF RefreshOK
  <2>3. RevokeAllOK(t)'
    BY <1>2, <1>3, <2>1, NoneAssumption DEF RevokeAllOK
  <2>4. QED
    BY <2>2, <2>3
<1>6. ASSUME NEW r \in Tx \ {t} PROVE RefreshOK(r)' /\ RevokeAllOK(r)'
  BY <1>2, <1>3, SlotKeptOK DEF SlotKept
<1>7. RootsMade' /\ OneLivePerLogin'
  BY <1>2 DEF IInv, RootsMade, OneLivePerLogin, IsLive
<1>8. QED
  BY <1>4, <1>5, <1>6, <1>7 DEF IInv

\* A login creates a session that is its own root.
LEMMA CommitLoginStep ==
  ASSUME IInv, NEW t \in Tx, NEW n \in Session, CommitLogin(t, n)
  PROVE  IInv'
<1> USE DEF CommitLogin
<1>1. TypeOK
  BY DEF IInv
<1>2. TypeOK'
  <2>1. made' \subseteq Session /\ root' \in [Session -> Session \cup {None}]
    BY <1>1 DEF TypeOK
  <2>2. QED
    BY <1>1, <2>1, Ending DEF TypeOK
<1>3. RootsMade'
  BY <1>1 DEF IInv, RootsMade, TypeOK
<1>4. \A s \in made : root'[s] = root[s] /\ root[s] # n
  BY <1>1 DEF IInv, RootsMade, TypeOK
<1>5. OneLivePerLogin'
  BY <1>1, <1>4 DEF IInv, OneLivePerLogin, IsLive, TypeOK
<1>6. QED
  BY <1>2, <1>3, <1>5, EndingSlots DEF IInv

\* Locking and reading the session of a refresh.
LEMMA LockSessionStep ==
  ASSUME IInv, NEW t \in Tx, LockSession(t)
  PROVE  IInv'
<1> USE DEF LockSession
<1>1. TypeOK /\ RefreshOK(t)
  BY DEF IInv
<1>2. target[t] \in made /\ target[t] \in Session
  BY <1>1 DEF RefreshOK, TypeOK
<1>3. TypeOK'
  <2>1. pc' \in [Tx -> PC] /\ holder' \in [Session -> Tx \cup {None}]
    BY <1>1 DEF TypeOK
  <2>2. seen' \in [Tx -> Reason \cup {None}]
    BY <1>1, <1>2 DEF TypeOK
  <2>3. QED
    BY <1>1, <2>1, <2>2 DEF TypeOK
<1>4. RefreshOK(t)' /\ RevokeAllOK(t)'
  <2>1. /\ pc'[t] = "check" /\ seen'[t] = reason[target[t]]
        /\ holder'[target[t]] = t
    BY <1>1, <1>2 DEF TypeOK
  <2>2. RefreshOK(t)'
    BY <1>2, <2>1 DEF RefreshOK
  <2>3. \A s \in got[t] : holder[s] = t /\ s \in Session
    BY <1>1 DEF IInv, RevokeAllOK, TypeOK
  <2>4. \A s \in Session : holder[s] = t => holder'[s] = t
    BY <1>1 DEF TypeOK
  <2>5. RevokeAllOK(t)'
    BY <2>1, <2>3, <2>4 DEF RevokeAllOK
  <2>6. QED
    BY <2>2, <2>5
<1>5. ASSUME NEW r \in Tx \ {t} PROVE RefreshOK(r)' /\ RevokeAllOK(r)'
  <2>1. SlotKept(r)
    BY <1>1, <1>2, NoneAssumption DEF SlotKept, TypeOK
  <2>2. QED
    BY <2>1, SlotKeptOK
<1>6. RootsMade' /\ OneLivePerLogin'
  BY DEF IInv, RootsMade, OneLivePerLogin, IsLive
<1>7. QED
  BY <1>3, <1>4, <1>5, <1>6 DEF IInv

\* A refresh that found its session usable goes on.
LEMMA AcceptRefreshStep ==
  ASSUME IInv, NEW t \in Tx, AcceptRefresh(t)
  PROVE  IInv'
<1> USE DEF AcceptRefresh, Usable
<1>1. TypeOK
  BY DEF IInv
<1>2. TypeOK'
  BY <1>1 DEF TypeOK
<1>3. RefreshOK(t)' /\ RevokeAllOK(t)'
  BY <1>1 DEF IInv, RefreshOK, RevokeAllOK, TypeOK
<1>4. ASSUME NEW r \in Tx \ {t} PROVE RefreshOK(r)' /\ RevokeAllOK(r)'
  BY <1>1, SlotKeptOK DEF SlotKept, TypeOK
<1>5. RootsMade' /\ OneLivePerLogin'
  BY DEF IInv, RootsMade, OneLivePerLogin, IsLive
<1>6. QED
  BY <1>2, <1>3, <1>4, <1>5 DEF IInv

\* Rotation: the session that was live under the lock gives way to the new
\* one, which takes over its root.
LEMMA CommitRefreshStep ==
  ASSUME IInv, NEW t \in Tx, NEW n \in Session, CommitRefresh(t, n)
  PROVE  IInv'
<1> USE DEF CommitRefresh
<1> DEFINE s == target[t]
<1>1. TypeOK /\ RefreshOK(t)
  BY DEF IInv
<1>2. /\ s \in made /\ s \in Session /\ s # n
      /\ holder[s] = t /\ reason[s] = None
  BY <1>1 DEF RefreshOK, TypeOK
<1>3. root[s] \in made /\ root[s] \in Session
  BY <1>1, <1>2 DEF IInv, RootsMade, TypeOK
<1>4. TypeOK'
  <2>1. made' \subseteq Session /\ root' \in [Session -> Session \cup {None}]
    BY <1>1, <1>3 DEF TypeOK
  <2>2. reason' \in [Session -> Reason \cup {None}]
    BY <1>1 DEF TypeOK
  <2>3. replacedBy' \in [Session -> Session \cup {None}]
    BY <1>1 DEF TypeOK
  <2>4. QED
    BY <1>1, <2>1, <2>2, <2>3, Ending DEF TypeOK
<1>5. RootsMade'
  BY <1>1, <1>3 DEF IInv, RootsMade, TypeOK
<1>6. OneLivePerLogin'
  <2>1. /\ reason'[s] # None
        /\ \A x \in Session \ {s} : reason'[x] = reason[x]
    BY <1>1, <1>2, NoneAssumption DEF TypeOK
  <2>2. /\ root'[n] = root[s]
        /\ \A x \in made : root'[x] = root[x]
    BY <1>1 DEF TypeOK
  <2>3. \A x \in Session : IsLive(x)' => x = n \/ (x # s /\ IsLive(x))
    BY <2>1 DEF IsLive
  <2>4. \A x \in Session : IsLive(x) /\ x # s => root[x] # root[s]
    BY <1>2 DEF IInv, OneLivePerLogin, IsLive
  <2>5. ASSUME NEW x \in Session, NEW y \in Session,
               IsLive(x)', IsLive(y)', root'[x] = root'[y]
        PROVE  x = y
    <3>1. CASE x = n /\ y # n
      BY <2>2, <2>3, <2>4, <2>5, <3>1 DEF IsLive
    <3>2. CASE x # n /\ y = n
      BY <2>2, <2>3, <2>4, <2>5, <3>2 DEF IsLive
    <3>3. CASE x # n /\ y # n
      BY <2>2, <2>3, <2>5, <3>3 DEF IInv, OneLivePerLogin, IsLive
    <3>4. QED
      BY <3>1, <3>2, <3>3
  <2>6. QED
    BY <2>5 DEF OneLivePerLogin
<1>7. \A r \in Tx \ {t} : \A x \in Session : holder[x] = r => reason'[x] = reason[x]
  BY <1>1, <1>2 DEF TypeOK
<1>8. QED
  BY <1>4, <1>5, <1>6, <1>7, EndingSlots DEF IInv

\* Logout revokes a session nobody holds.
LEMMA CommitLogoutStep ==
  ASSUME IInv, NEW t \in Tx, CommitLogout(t)
  PROVE  IInv'
<1> USE DEF CommitLogout
<1>1. TypeOK /\ target[t] \in Session /\ holder[target[t]] = None
  BY DEF IInv, RefreshOK, TypeOK
<1>2. TypeOK'
  <2>1. reason' \in [Session -> Reason \cup {None}]
    BY <1>1 DEF TypeOK
  <2>2. QED
    BY <1>1, <2>1, Ending DEF TypeOK
<1>3. \A x \in Session : reason'[x] = None => reason[x] = None
  BY <1>1, NoneAssumption DEF TypeOK
<1>4. \A r \in Tx \ {t} : \A x \in Session : holder[x] = r => reason'[x] = reason[x]
  BY <1>1, NoneAssumption DEF TypeOK
<1>5. RootsMade' /\ OneLivePerLogin'
  BY <1>1, <1>3, RevokingKeepsOne DEF IInv, RootsMade, TypeOK
<1>6. QED
  BY <1>2, <1>4, <1>5, EndingSlots DEF IInv

\* A revoke-all takes its snapshot.
LEMMA SnapshotStep ==
  ASSUME IInv, NEW t \in Tx, Snapshot(t)
  PROVE  IInv'
<1> USE DEF Snapshot
<1>1. TypeOK
  BY DEF IInv
<1>2. TypeOK'
  BY <1>1 DEF TypeOK
<1>3. RefreshOK(t)' /\ RevokeAllOK(t)'
  BY <1>1 DEF IInv, RefreshOK, RevokeAllOK, TypeOK
<1>4. ASSUME NEW r \in Tx \ {t} PROVE RefreshOK(r)' /\ RevokeAllOK(r)'
  BY <1>1, SlotKeptOK DEF SlotKept, TypeOK
<1>5. RootsMade' /\ OneLivePerLogin'
  BY DEF IInv, RootsMade, OneLivePerLogin, IsLive
<1>6. QED
  BY <1>2, <1>3, <1>4, <1>5 DEF IInv

\* It visits one session, and locks it if it is still live.
LEMMA VisitStep ==
  ASSUME IInv, NEW t \in Tx, NEW s \in Session, Visit(t, s)
  PROVE  IInv'
<1> USE DEF Visit
<1>1. TypeOK
  BY DEF IInv
<1>2. TypeOK'
  <2>1. /\ holder' \in [Session -> Tx \cup {None}]
        /\ got' \in [Tx -> SUBSET Session]
        /\ todo' \in [Tx -> SUBSET Session]
    BY <1>1 DEF TypeOK
  <2>2. QED
    BY <1>1, <2>1 DEF TypeOK
<1>3. RefreshOK(t)' /\ RevokeAllOK(t)'
  <2>1. RevokeAllOK(t)'
    BY <1>1 DEF IInv, RevokeAllOK, TypeOK
  <2>2. RefreshOK(t)'
    BY DEF RefreshOK
  <2>3. QED
    BY <2>1, <2>2
<1>4. ASSUME NEW r \in Tx \ {t} PROVE RefreshOK(r)' /\ RevokeAllOK(r)'
  <2>1. got'[r] = got[r]
    BY <1>1 DEF TypeOK
  <2>2. \A x \in Session : holder[x] = r => holder'[x] = r
    BY <1>1, NoneAssumption DEF TypeOK
  <2>3. QED
    BY <2>1, <2>2, SlotKeptOK DEF SlotKept
<1>5. RootsMade' /\ OneLivePerLogin'
  BY DEF IInv, RootsMade, OneLivePerLogin, IsLive
<1>6. QED
  BY <1>2, <1>3, <1>4, <1>5 DEF IInv

\* It revokes the sessions it holds.
LEMMA CommitRevokeAllStep ==
  ASSUME IInv, NEW t \in Tx, CommitRevokeAll(t)
  PROVE  IInv'
<1> USE DEF CommitRevokeAll
<1>1. TypeOK
  BY DEF IInv
<1>2. cause[t] \in RevokeAllReason /\ \A s \in got[t] : holder[s] = t
  BY <1>1 DEF IInv, RevokeAllOK, TypeOK
<1>3. TypeOK'
  <2>1. reason' \in [Session -> Reason \cup {None}]
    BY <1>1, <1>2 DEF TypeOK
  <2>2. active' \in BOOLEAN /\ covered' \subseteq Session
    BY <1>1 DEF TypeOK
  <2>3. QED
    BY <1>1, <2>1, <2>2, Ending DEF TypeOK
<1>4. \A x \in Session : reason'[x] = None => reason[x] = None
  BY <1>1, <1>2, NoneAssumption DEF TypeOK
<1>5. \A r \in Tx \ {t} : \A x \in Session : holder[x] = r => reason'[x] = reason[x]
  BY <1>1, <1>2 DEF TypeOK
<1>6. RootsMade' /\ OneLivePerLogin'
  BY <1>1, <1>4, RevokingKeepsOne DEF IInv, RootsMade, TypeOK
<1>7. QED
  BY <1>3, <1>5, <1>6, EndingSlots DEF IInv

\* Reactivation and the passing of time touch no lock and no reason.
LEMMA EnvironmentStep ==
  ASSUME IInv, Reactivate \/ \E s \in Session : Lapse(s)
  PROVE  IInv'
<1> USE DEF Reactivate, Lapse, txVars
<1>1. TypeOK'
  BY DEF IInv, TypeOK
<1>2. \A r \in Tx : SlotKept(r)
  BY DEF SlotKept
<1>3. \A r \in Tx : RefreshOK(r)' /\ RevokeAllOK(r)'
  BY <1>2, SlotKeptOK
<1>4. RootsMade' /\ OneLivePerLogin'
  BY DEF IInv, RootsMade, OneLivePerLogin, IsLive
<1>5. QED
  BY <1>1, <1>3, <1>4 DEF IInv

\* So every step does.
LEMMA NextIInv == IInv /\ [Next]_vars => IInv'
<1> SUFFICES ASSUME IInv, [Next]_vars PROVE IInv'
  OBVIOUS
<1>1. ASSUME NEW t \in Tx, Request(t) PROVE IInv'
  BY <1>1, RequestStep
<1>2. ASSUME NEW t \in Tx, Step(t) PROVE IInv'
  <2>1. CASE RefuseRefresh(t)
    BY <2>1, QuietEnd DEF RefuseRefresh
  <2>2. QED
    BY <1>2, <2>1, CommitLoginStep, LockSessionStep, AcceptRefreshStep, CommitRefreshStep,
       CommitLogoutStep, SnapshotStep, VisitStep, CommitRevokeAllStep DEF Step
<1>3. ASSUME NEW t \in Tx, Fail(t) PROVE IInv'
  BY <1>3, QuietEnd DEF Fail
<1>4. CASE UNCHANGED vars
  <2>1. TypeOK'
    BY <1>4 DEF IInv, TypeOK, vars, txVars
  <2>2. \A r \in Tx : RefreshOK(r)' /\ RevokeAllOK(r)'
    BY <1>4, SlotKeptOK DEF SlotKept, vars, txVars
  <2>3. RootsMade' /\ OneLivePerLogin'
    BY <1>4 DEF IInv, RootsMade, OneLivePerLogin, IsLive, vars
  <2>4. QED
    BY <2>1, <2>2, <2>3 DEF IInv
<1>5. QED
  BY <1>1, <1>2, <1>3, <1>4, EnvironmentStep DEF Next

---------------------------------------------------------------------------
(* Theorems *)

\* The inductive invariant holds in every reachable state: a refresh decides
\* on what is still in the row it holds, a revoke-all writes to rows it holds.
THEOREM Invariance == Spec => []IInv
  BY InitIInv, NextIInv, PTL DEF Spec

\* The tokens of one login never work on two sessions at once, however many
\* requests present them.
THEOREM OneLive == Spec => []OneLivePerLogin
<1>1. IInv => OneLivePerLogin
  BY DEF IInv
<1>2. QED
  BY <1>1, Invariance, PTL

\* The session a refresh replaces is the one its token names, and it is live
\* at that moment.
LEMMA RotationFromLive ==
  ASSUME IInv, NEW t \in Tx, NEW n \in Session, CommitRefresh(t, n)
  PROVE  \A k \in made' \ made : \E s \in made : replacedBy'[s] = k /\ reason[s] = None
<1>1. TypeOK /\ RefreshOK(t)
  BY DEF IInv
<1>2. target[t] \in made /\ target[t] \in Session /\ reason[target[t]] = None
  BY <1>1 DEF CommitRefresh, RefreshOK, TypeOK
<1>3. made' \ made = {n} /\ replacedBy'[target[t]] = n
  BY <1>1, <1>2 DEF CommitRefresh, TypeOK
<1>4. QED
  BY <1>2, <1>3

\* A refresh never revives a session that a logout, a rotation or a
\* revoke-all ended first.
THEOREM RefreshFromLive == Spec => RefreshOnlyFromLive
<1> DEFINE Live == \A n \in made' \ made : root'[n] # n =>
                     \E s \in made : replacedBy'[s] = n /\ reason[s] = None
<1>1. IInv /\ [Next]_vars => [Live]_vars
  <2> SUFFICES ASSUME IInv, Next PROVE Live
    OBVIOUS
  <2>1. ASSUME NEW t \in Tx, NEW n \in Session, CommitLogin(t, n) PROVE Live
    <3>1. made' \ made = {n} /\ root'[n] = n
      BY <2>1 DEF IInv, TypeOK, CommitLogin
    <3>2. QED
      BY <3>1
  <2>2. ASSUME NEW t \in Tx, NEW n \in Session, CommitRefresh(t, n) PROVE Live
    BY <2>2, RotationFromLive
  <2>3. ASSUME NEW t \in Tx, Request(t) \/ Fail(t) PROVE Live
    BY <2>3 DEF Request, Fail, BeginLogin, BeginRefresh, BeginLogout, BeginRevokeAll
  <2>4. ASSUME NEW t \in Tx, Step(t) PROVE Live
    BY <2>1, <2>2, <2>4 DEF Step, LockSession, RefuseRefresh, AcceptRefresh, CommitLogout,
       Snapshot, Visit, CommitRevokeAll
  <2>5. CASE Reactivate \/ \E s \in Session : Lapse(s)
    BY <2>5 DEF Reactivate, Lapse
  <2>6. QED
    BY <2>3, <2>4, <2>5 DEF Next
<1>2. QED
  BY <1>1, Invariance, PTL DEF Spec, RefreshOnlyFromLive
===========================================================================
