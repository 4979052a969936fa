------------------------------ MODULE Sessions ------------------------------
(***************************************************************************)
(* The sessions of one user: login, refresh, logout and the statement that *)
(* revokes all of them, shared by logout_all and password_reset_confirm    *)
(* (app/modules/auth/api.py) and request_account_deletion                  *)
(* (app/modules/me/api.py).  Handlers touch only sessions of their user.   *)
(*                                                                         *)
(* Every request is a transaction under READ COMMITTED.  The statement     *)
(* UPDATE ... WHERE revoked_at IS NULL takes a snapshot of the rows that   *)
(* match and visits them one by one: it waits until a row is not locked    *)
(* and leaves it out if it no longer matches.  Rows committed after the    *)
(* snapshot are not visited.                                               *)
(***************************************************************************)
EXTENDS Integers, FiniteSets

CONSTANTS
  Session,  \* ids of auth_sessions rows: bounds how many are made
  Tx,       \* request slots
  None      \* SQL NULL; no lock, no session

VARIABLES
  made,       \* the rows of auth_sessions
  reason,     \* revoked_reason, None while revoked_at IS NULL
  replacedBy, \* replaced_by
  lapsed,     \* expires_at < now
  active,     \* users.status = 'active'
  root,       \* history: the session its login created
  covered,    \* history: sessions a committed revoke-all found live
  holder,     \* who holds the session row
  pc,         \* where each request stands
  cause,      \* the reason a revoke-all gives
  target,     \* the session of a refresh or logout token
  seen,       \* a refresh: the revoked_reason it read under the lock
  shown,      \* rows a revoke-all found live in its snapshot
  todo,       \* those it has still to visit
  got         \* those it has locked

rowVars == <<made, reason, replacedBy, lapsed, active, root, covered>>
argVars == <<cause, target>>
txVars  == <<holder, pc, argVars, seen, shown, todo, got>>
vars    == <<rowVars, txVars>>

RevokeAllReason == {"logout_all", "password_reset", "account_deletion_requested"}
Reason == RevokeAllReason \cup {"rotated", "logout"}

ASSUME NoneAssumption == None \notin Session \cup Tx \cup Reason

PC == {"idle",
       "login",                        \* login, its checks passed
       "refresh", "check", "rotate",   \* refresh: waiting, locked, all checks passed
       "logout",                       \* logout, waiting for the row
       "revokeAll", "visit"}           \* before and in the UPDATE of all sessions

IsLive(s) == s \in made /\ reason[s] = None

Init ==
  /\ made = {}
  /\ reason = [s \in Session |-> None]
  /\ replacedBy = [s \in Session |-> None]
  /\ lapsed = [s \in Session |-> FALSE]
  /\ active = TRUE
  /\ root = [s \in Session |-> None]
  /\ covered = {}
  /\ holder = [s \in Session |-> None]
  /\ pc = [t \in Tx |-> "idle"]
  /\ cause = [t \in Tx |-> None]
  /\ target = [t \in Tx |-> None]
  /\ seen = [t \in Tx |-> None]
  /\ shown = [t \in Tx |-> {}]
  /\ todo = [t \in Tx |-> {}]
  /\ got = [t \in Tx |-> {}]

Start(t, l) == pc[t] = "idle" /\ pc' = [pc EXCEPT ![t] = l]

\* The transaction of t ends, by commit or by rollback.
End(t) ==
  /\ pc' = [pc EXCEPT ![t] = "idle"]
  /\ cause' = [cause EXCEPT ![t] = None]
  /\ target' = [target EXCEPT ![t] = None]
  /\ seen' = [seen EXCEPT ![t] = None]
  /\ shown' = [shown EXCEPT ![t] = {}]
  /\ todo' = [todo EXCEPT ![t] = {}]
  /\ got' = [got EXCEPT ![t] = {}]
  /\ holder' = [s \in Session |-> IF holder[s] = t THEN None ELSE holder[s]]

\* Bound: a request that may insert a session begins while an id is left.
IdLeft ==
  Cardinality({t \in Tx : pc[t] \in {"login", "refresh", "check", "rotate"}})
    < Cardinality(Session \ made)

\* request_account_deletion holds the users row from its UPDATE of it on.
UsersRowFree ==
  \A t \in Tx : ~(pc[t] = "visit" /\ cause[t] = "account_deletion_requested")

---------------------------------------------------------------------------
(* login *)

\* Identity, password and status are right.
BeginLogin(t) ==
  /\ active /\ IdLeft
  /\ Start(t, "login")
  /\ UNCHANGED <<rowVars, holder, argVars, seen, shown, todo, got>>

\* UPDATE users (waits for its row), insert a session, commit.
CommitLogin(t, n) ==
  /\ pc[t] = "login"
  /\ UsersRowFree
  /\ n \notin made
  /\ made' = made \cup {n}
  /\ root' = [root EXCEPT ![n] = n]
  /\ End(t)
  /\ UNCHANGED <<reason, replacedBy, lapsed, active, covered>>

---------------------------------------------------------------------------
(* refresh *)

\* A client presents a token he was given, perhaps not for the first time;
\* decode_token refuses one that has expired.
BeginRefresh(t, s) ==
  /\ s \in made /\ ~lapsed[s] /\ IdLeft
  /\ Start(t, "refresh")
  /\ target' = [target EXCEPT ![t] = s]
  /\ UNCHANGED <<rowVars, holder, cause, seen, shown, todo, got>>

\* Mutant: the SELECT has no FOR UPDATE.
LockSessionPlainSelect(t) ==
  /\ pc[t] = "refresh"
  /\ pc' = [pc EXCEPT ![t] = "check"]
  /\ seen' = [seen EXCEPT ![t] = reason[target[t]]]
  /\ UNCHANGED <<rowVars, holder, argVars, shown, todo, got>>

\* SELECT ... FOR UPDATE of the session.
LockSession(t) ==
  LET s == target[t] IN
  /\ pc[t] = "refresh"
  /\ holder[s] = None
  /\ holder' = [holder EXCEPT ![s] = t]
  /\ pc' = [pc EXCEPT ![t] = "check"]
  /\ seen' = [seen EXCEPT ![t] = reason[s]]
  /\ UNCHANGED <<rowVars, argVars, shown, todo, got>>

\* Mutant: revoked_at is not looked at.
UsableRevoked(t) == ~lapsed[target[t]] /\ active

\* The session is neither revoked nor expired and the user is active.
Usable(t) == seen[t] = None /\ ~lapsed[target[t]] /\ active

\* 401 or 403.
RefuseRefresh(t) ==
  /\ pc[t] = "check" /\ ~Usable(t)
  /\ End(t)
  /\ UNCHANGED rowVars

AcceptRefresh(t) ==
  /\ pc[t] = "check" /\ Usable(t)
  /\ pc' = [pc EXCEPT ![t] = "rotate"]
  /\ UNCHANGED <<rowVars, holder, argVars, seen, shown, todo, got>>

\* Mutant: the reason is one no reader knows.
CommitRefreshMislabelled(t, n) ==
  LET s == target[t] IN
  /\ pc[t] = "rotate"
  /\ n \notin made
  /\ made' = made \cup {n}
  /\ root' = [root EXCEPT ![n] = root[s]]
  /\ reason' = [reason EXCEPT ![s] = "replaced"]
  /\ replacedBy' = [replacedBy EXCEPT ![s] = n]
  /\ End(t)
  /\ UNCHANGED <<lapsed, active, covered>>

\* Insert the new session, revoke the old one and point it to the new one.
CommitRefresh(t, n) ==
  LET s == target[t] IN
  /\ pc[t] = "rotate"
  /\ n \notin made
  /\ made' = made \cup {n}
  /\ root' = [root EXCEPT ![n] = root[s]]
  /\ reason' = [reason EXCEPT ![s] = "rotated"]
  /\ replacedBy' = [replacedBy EXCEPT ![s] = n]
  /\ End(t)
  /\ UNCHANGED <<lapsed, active, covered>>

---------------------------------------------------------------------------
(* logout *)

\* An expired token changes nothing.
BeginLogout(t, s) ==
  /\ s \in made /\ ~lapsed[s]
  /\ Start(t, "logout")
  /\ target' = [target EXCEPT ![t] = s]
  /\ UNCHANGED <<rowVars, holder, cause, seen, shown, todo, got>>

\* It waits for the row and revokes it, also when it already was.
CommitLogout(t) ==
  LET s == target[t] IN
  /\ pc[t] = "logout"
  /\ holder[s] = None
  /\ reason' = [reason EXCEPT ![s] = "logout"]
  /\ End(t)
  /\ UNCHANGED <<made, replacedBy, lapsed, active, root, covered>>

---------------------------------------------------------------------------
(* logout_all, password_reset_confirm, request_account_deletion *)

\* logout_all and the deletion request ask for an active user, the reset for
\* a valid code.
BeginRevokeAll(t, why) ==
  /\ why \in {"logout_all", "account_deletion_requested"} => active
  /\ Start(t, "revokeAll")
  /\ cause' = [cause EXCEPT ![t] = why]
  /\ UNCHANGED <<rowVars, holder, target, seen, shown, todo, got>>

\* The UPDATE of all sessions takes its snapshot.  The deletion request has
\* updated the users row before, and waited for it.
Snapshot(t) ==
  /\ pc[t] = "revokeAll"
  /\ cause[t] = "account_deletion_requested" => UsersRowFree
  /\ pc' = [pc EXCEPT ![t] = "visit"]
  /\ shown' = [shown EXCEPT ![t] = {s \in Session : IsLive(s)}]
  /\ todo' = [todo EXCEPT ![t] = {s \in Session : IsLive(s)}]
  /\ UNCHANGED <<rowVars, holder, argVars, seen, got>>

\* It visits a row once nobody holds it.
Visit(t, s) ==
  /\ pc[t] = "visit" /\ s \in todo[t]
  /\ holder[s] = None
  /\ todo' = [todo EXCEPT ![t] = @ \ {s}]
  /\ IF IsLive(s)
       THEN /\ holder' = [holder EXCEPT ![s] = t]
            /\ got' = [got EXCEPT ![t] = @ \cup {s}]
       ELSE UNCHANGED <<holder, got>>
  /\ UNCHANGED <<rowVars, pc, argVars, seen, shown>>

\* All rows are visited: commit.
CommitRevokeAll(t) ==
  /\ pc[t] = "visit" /\ todo[t] = {}
  /\ reason' = [s \in Session |-> IF s \in got[t] THEN cause[t] ELSE reason[s]]
  /\ active' = (active /\ cause[t] # "account_deletion_requested")
  /\ covered' = covered \cup shown[t]
  /\ End(t)
  /\ UNCHANGED <<made, replacedBy, lapsed, root>>

---------------------------------------------------------------------------
(* Environment *)

\* cancel_account_deletion, which updates the users row.
Reactivate ==
  /\ ~active /\ UsersRowFree
  /\ active' = TRUE
  /\ UNCHANGED <<made, reason, replacedBy, lapsed, root, covered, txVars>>

\* JWT_REFRESH_DAYS have passed.
Lapse(s) ==
  /\ s \in made /\ ~lapsed[s]
  /\ lapsed' = [lapsed EXCEPT ![s] = TRUE]
  /\ UNCHANGED <<made, reason, replacedBy, active, root, covered, txVars>>

\* The worker dies, a statement fails or a deadlock of two revoke-alls is
\* broken: rollback.
Fail(t) ==
  /\ pc[t] # "idle"
  /\ End(t)
  /\ UNCHANGED rowVars

Request(t) ==
  \/ BeginLogin(t)
  \/ \E s \in Session : BeginRefresh(t, s) \/ BeginLogout(t, s)
  \/ \E why \in RevokeAllReason : BeginRevokeAll(t, why)

Step(t) ==
  \/ \E n \in Session : CommitLogin(t, n)
  \/ LockSession(t)
  \/ RefuseRefresh(t)
  \/ AcceptRefresh(t)
  \/ \E n \in Session : CommitRefresh(t, n)
  \/ CommitLogout(t)
  \/ Snapshot(t)
  \/ \E s \in Session : Visit(t, s)
  \/ CommitRevokeAll(t)

Next ==
  \/ \E t \in Tx : Request(t) \/ Step(t) \/ Fail(t)
  \/ Reactivate
  \/ \E s \in Session : Lapse(s)

Spec == Init /\ [][Next]_vars

---------------------------------------------------------------------------
(* Properties *)

\* Every variable has its type.
TypeOK ==
  /\ made \subseteq Session
  /\ reason \in [Session -> Reason \cup {None}]
  /\ replacedBy \in [Session -> Session \cup {None}]
  /\ lapsed \in [Session -> BOOLEAN]
  /\ active \in BOOLEAN
  /\ root \in [Session -> Session \cup {None}]
  /\ covered \subseteq Session
  /\ holder \in [Session -> Tx \cup {None}]
  /\ pc \in [Tx -> PC]
  /\ cause \in [Tx -> RevokeAllReason \cup {None}]
  /\ target \in [Tx -> Session \cup {None}]
  /\ seen \in [Tx -> Reason \cup {None}]
  /\ shown \in [Tx -> SUBSET Session]
  /\ todo \in [Tx -> SUBSET Session]
  /\ got \in [Tx -> SUBSET Session]

\* However often and by however many requests its tokens are presented, a
\* login has at most one live session: rotation moves it, never doubles it.
OneLivePerLogin ==
  \A s1, s2 \in Session :
    IsLive(s1) /\ IsLive(s2) /\ root[s1] = root[s2] => s1 = s2

\* A refresh gives a new session only for one that is live at the moment of
\* its commit: a logout or revoke-all that came first is not undone.
RefreshOnlyFromLive ==
  [][\A n \in made' \ made : root'[n] # n =>
       \E s \in made : replacedBy'[s] = n /\ reason[s] = None]_vars

\* test_logout_all_revokes_refresh_sessions: after a revoke-all nothing that
\* a login had before can be refreshed.
RevokeAllEndsLogins ==
  \A s \in Session : IsLive(s) => \A r \in covered : root[s] # root[r]

---------------------------------------------------------------------------
(* The inductive invariant *)

\* Rotation keeps the login of a session: it was made before all its heirs.
RootsMade == \A s \in made : root[s] \in made

\* The token of a refresh or logout names a session; from its check on a
\* refresh holds that row and what it read there is still so, and it goes on
\* only if that was NULL.
RefreshOK(t) ==
  /\ pc[t] \in {"refresh", "check", "rotate", "logout"} => target[t] \in made
  /\ pc[t] \in {"check", "rotate"} =>
       holder[target[t]] = t /\ seen[t] = reason[target[t]]
  /\ pc[t] = "rotate" => seen[t] = None

\* A revoke-all has a reason to write and holds the rows it will write it to.
RevokeAllOK(t) ==
  /\ pc[t] \in {"revokeAll", "visit"} => cause[t] # None
  /\ \A s \in got[t] : holder[s] = t

IInv ==
  /\ TypeOK
  /\ RootsMade
  /\ \A t \in Tx : RefreshOK(t) /\ RevokeAllOK(t)
  /\ OneLivePerLogin

===========================================================================
