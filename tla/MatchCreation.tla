--------------------------- MODULE MatchCreation ---------------------------
(***************************************************************************)
(* Creation of matches (create_match in app/modules/matches/api.py): who   *)
(* may create one, under concurrent requests, and the row locks it takes.  *)
(*                                                                         *)
(* A request is a transaction of a slot t \in Tx under READ COMMITTED:     *)
(* each of its SELECTs sees what is committed at that moment, while now()  *)
(* stays the time at which the transaction began.  view[t] is what now()   *)
(* says about the age of every match.                                      *)
(***************************************************************************)
EXTENDS Integers, FiniteSets

CONSTANTS
  User,     \* users
  Match,    \* ids of the matches there can be: bounds how many are created
  Tx,       \* request slots
  Lineup,   \* the sets of four participants clients send
  None      \* no creator (the match does not exist), no lock, no request

ASSUME LineupAssumption == Lineup \subseteq SUBSET User
ASSUME NoneAssumption == None \notin User \cup Tx

VARIABLES
  creator,  \* matches.created_by; None while the match does not exist
  status,   \* matches.status
  age,      \* matches.confirmation_deadline and created_at against the clock
  rowLock,  \* holder of the users row FOR UPDATE
  keyShare, \* holders of the users row FOR KEY SHARE (foreign key checks)
  pc,       \* where each request stands
  req,      \* its creator and line-up
  view,     \* the ages according to its now()
  pending,  \* first count of _assert_block_rules
  expired   \* sum of the second and third count

tableVars == <<creator, status, age>>
lockVars  == <<rowLock, keyShare>>
txVars    == <<pc, req, view, pending, expired>>
vars      == <<tableVars, lockVars, txVars>>

\* "open": before the deadline; "past": after it, created within 30 days;
\* "old": created more than 30 days ago.
Age == {"open", "past", "old"}
MatchStatus == {"pending_confirm", "verified", "expired"}
PC == {"idle", "lock", "countPending", "countOverdue", "countExpired", "insert"}

Created(u) == {m \in Match : creator[m] = u}

Init ==
  /\ creator = [m \in Match |-> None]
  /\ status = [m \in Match |-> "pending_confirm"]
  /\ age = [m \in Match |-> "open"]
  /\ rowLock = [u \in User |-> None]
  /\ keyShare = [u \in User |-> {}]
  /\ pc = [t \in Tx |-> "idle"]
  /\ req = [t \in Tx |-> None]
  /\ view = [t \in Tx |-> [m \in Match |-> "open"]]
  /\ pending = [t \in Tx |-> 0]
  /\ expired = [t \in Tx |-> 0]

\* The transaction of t ends, by commit or by rollback: its locks go.
End(t) ==
  /\ pc' = [pc EXCEPT ![t] = "idle"]
  /\ req' = [req EXCEPT ![t] = None]
  /\ view' = [view EXCEPT ![t] = [m \in Match |-> "open"]]
  /\ pending' = [pending EXCEPT ![t] = 0]
  /\ expired' = [expired EXCEPT ![t] = 0]
  /\ rowLock' = [u \in User |-> IF rowLock[u] = t THEN None ELSE rowLock[u]]
  /\ keyShare' = [u \in User |-> keyShare[u] \ {t}]

---------------------------------------------------------------------------
(* create_match *)

\* The transaction begins with get_current_user, which fixes now().  Only a
\* line-up that contains its creator gets past the later checks.
Begin(t, u, L) ==
  /\ pc[t] = "idle"
  /\ u \in L
  /\ pc' = [pc EXCEPT ![t] = "lock"]
  /\ req' = [req EXCEPT ![t] = [user |-> u, lineup |-> L]]
  /\ view' = [view EXCEPT ![t] = age]
  /\ UNCHANGED <<tableVars, lockVars, pending, expired>>

\* Mutant: the SELECT has no FOR UPDATE.
LockCreatorPlainSelect(t) ==
  /\ pc[t] = "lock"
  /\ pc' = [pc EXCEPT ![t] = "countPending"]
  /\ UNCHANGED <<tableVars, lockVars, req, view, pending, expired>>

\* _lock_creator_for_match_creation: SELECT ... FROM users ... FOR UPDATE
\* waits for other requests of the creator and for foreign key checks on him.
LockCreator(t) ==
  LET u == req[t].user IN
  /\ pc[t] = "lock"
  /\ rowLock[u] = None
  /\ keyShare[u] \subseteq {t}
  /\ rowLock' = [rowLock EXCEPT ![u] = t]
  /\ pc' = [pc EXCEPT ![t] = "countPending"]
  /\ UNCHANGED <<tableVars, keyShare, req, view, pending, expired>>

\* _assert_block_rules, first SELECT: pending and deadline >= now().
CountPending(t) ==
  /\ pc[t] = "countPending"
  /\ pending' = [pending EXCEPT ![t] = Cardinality(
       {m \in Created(req[t].user) :
          status[m] = "pending_confirm" /\ view[t][m] = "open"})]
  /\ pc' = [pc EXCEPT ![t] = "countOverdue"]
  /\ UNCHANGED <<tableVars, lockVars, req, view, expired>>

\* Second SELECT: pending, deadline < now(), created within 30 days.
CountOverdue(t) ==
  /\ pc[t] = "countOverdue"
  /\ expired' = [expired EXCEPT ![t] = Cardinality(
       {m \in Created(req[t].user) :
          status[m] = "pending_confirm" /\ view[t][m] = "past"})]
  /\ pc' = [pc EXCEPT ![t] = "countExpired"]
  /\ UNCHANGED <<tableVars, lockVars, req, view, pending>>

\* Mutant: only matches already marked expired count.
ExpiredMarkedOnly(t) == Cardinality(
  {m \in Created(req[t].user) : status[m] = "expired" /\ view[t][m] # "old"})

\* Third SELECT: already marked expired, created within 30 days.
Expired(t) == expired[t] + Cardinality(
  {m \in Created(req[t].user) : status[m] = "expired" /\ view[t][m] # "old"})

\* Two live matches or one expired one: 403.
Block(t) ==
  /\ pc[t] = "countExpired"
  /\ pending[t] >= 2 \/ Expired(t) >= 1
  /\ End(t)
  /\ UNCHANGED tableVars

\* The creator is free to create a match.
Allow(t) ==
  /\ pc[t] = "countExpired"
  /\ pending[t] < 2 /\ Expired(t) < 1
  /\ pc' = [pc EXCEPT ![t] = "insert"]
  /\ expired' = [expired EXCEPT ![t] = Expired(t)]
  /\ UNCHANGED <<tableVars, lockVars, req, view, pending>>

Shares(t) == {u \in User : t \in keyShare[u]}

\* Mutant: the error path keeps the transaction and its locks open.
RefuseLeaking(t) ==
  /\ pc[t] = "insert"
  /\ Shares(t) = {} \/ Shares(t) = req[t].lineup
  /\ pc' = [pc EXCEPT ![t] = "idle"]
  /\ req' = [req EXCEPT ![t] = None]
  /\ UNCHANGED <<tableVars, lockVars, view, pending, expired>>

\* The line-up, club, profiles, channels or categories are refused before
\* anything is inserted, or the winner after the participants are.
Refuse(t) ==
  /\ pc[t] = "insert"
  /\ Shares(t) = {} \/ Shares(t) = req[t].lineup
  /\ End(t)
  /\ UNCHANGED tableVars

\* INSERT INTO match_participants: the foreign key check locks the users row
\* of the participant FOR KEY SHARE, in the order the client listed them.
InsertParticipant(t, u) ==
  /\ pc[t] = "insert"
  /\ u \in req[t].lineup \ Shares(t)
  /\ rowLock[u] \in {None, t}
  /\ keyShare' = [keyShare EXCEPT ![u] = @ \cup {t}]
  /\ UNCHANGED <<tableVars, rowLock, txVars>>

\* Mutant: the match is inserted with a status the other handlers do not know.
CommitDraft(t, m) ==
  /\ pc[t] = "insert"
  /\ Shares(t) = req[t].lineup
  /\ creator[m] = None
  /\ creator' = [creator EXCEPT ![m] = req[t].user]
  /\ status' = [status EXCEPT ![m] = "pending"]
  /\ age' = [age EXCEPT ![m] = "open"]
  /\ End(t)

\* Score and confirmations are inserted too; the commit shows the match.
Commit(t, m) ==
  /\ pc[t] = "insert"
  /\ Shares(t) = req[t].lineup
  /\ creator[m] = None
  /\ creator' = [creator EXCEPT ![m] = req[t].user]
  /\ status' = [status EXCEPT ![m] = "pending_confirm"]
  /\ age' = [age EXCEPT ![m] = "open"]
  /\ End(t)

---------------------------------------------------------------------------
(* Environment: other handlers, time and failures *)

\* confirm_match verifies a match.
Verified(m) ==
  /\ creator[m] # None
  /\ status[m] = "pending_confirm"
  /\ status' = [status EXCEPT ![m] = "verified"]
  /\ UNCHANGED <<creator, age, lockVars, txVars>>

\* confirm_match or match_detail marks an overdue match.
MarkedExpired(m) ==
  /\ creator[m] # None
  /\ status[m] = "pending_confirm" /\ age[m] # "open"
  /\ status' = [status EXCEPT ![m] = "expired"]
  /\ UNCHANGED <<creator, age, lockVars, txVars>>

\* Time reaches the deadline of a match, and later 30 days.
Ages(m) ==
  /\ creator[m] # None
  /\ age[m] # "old"
  /\ age' = [age EXCEPT ![m] = IF @ = "open" THEN "past" ELSE "old"]
  /\ UNCHANGED <<creator, status, lockVars, txVars>>

\* The worker dies or a statement fails: the transaction is rolled back.
Fail(t) ==
  /\ pc[t] # "idle"
  /\ End(t)
  /\ UNCHANGED tableVars

\* t needs a users row in a mode that conflicts with a lock of w.
WaitsFor(t, w) ==
  \/ /\ pc[t] = "lock"
     /\ rowLock[req[t].user] = w \/ w \in keyShare[req[t].user]
  \/ /\ pc[t] = "insert"
     /\ \E u \in req[t].lineup \ Shares(t) : rowLock[u] = w

\* PostgreSQL finds a cycle of waiting transactions and aborts one of them.
DeadlockVictim(t) ==
  /\ \E D \in SUBSET Tx :
       /\ t \in D
       /\ \A d \in D : \E w \in D \ {d} : WaitsFor(d, w)
  /\ End(t)
  /\ UNCHANGED tableVars

Step(t) ==
  \/ CountPending(t)
  \/ CountOverdue(t)
  \/ Block(t)
  \/ Allow(t)
  \/ Refuse(t)
  \/ \E m \in Match : Commit(t, m)
  \/ DeadlockVictim(t)

Acquire(t) ==
  \/ LockCreator(t)
  \/ \E u \in User : InsertParticipant(t, u)

Next ==
  \/ \E t \in Tx :
       \/ \E L \in Lineup : \E u \in L : Begin(t, u, L)
       \/ Step(t)
       \/ Acquire(t)
       \/ Fail(t)
  \/ \E m \in Match : Verified(m) \/ MarkedExpired(m) \/ Ages(m)

Spec == Init /\ [][Next]_vars

\* As in MatchConfirm: accepted requests keep running, lock queues are first
\* come first served and deadlocks are detected.
Fairness == \A t \in Tx : WF_vars(Step(t)) /\ SF_vars(Acquire(t))

FairSpec == Spec /\ Fairness

---------------------------------------------------------------------------
(* Properties *)

\* Every variable has its type.
TypeOK ==
  /\ creator \in [Match -> User \cup {None}]
  /\ status \in [Match -> MatchStatus]
  /\ age \in [Match -> Age]
  /\ rowLock \in [User -> Tx \cup {None}]
  /\ keyShare \in [User -> SUBSET Tx]
  /\ pc \in [Tx -> PC]
  /\ req \in [Tx -> [user : User, lineup : Lineup] \cup {None}]
  /\ view \in [Tx -> [Match -> Age]]
  /\ pending \in [Tx -> Nat]
  /\ expired \in [Tx -> Nat]

\* The pending matches of a creator whose deadline has not passed.
Live(u) == {m \in Created(u) : status[m] = "pending_confirm" /\ age[m] = "open"}

\* Nobody ever has more than two live pending matches of his own, however
\* many creation requests he sends at once.
PendingLimit == \A u \in User : Cardinality(Live(u)) <= 2

\* A creator whose match was overdue when his request began, and was not
\* verified since, gets past no block rule, even if another request marks
\* the match expired between the SELECTs that count.
NoCreationWhileBlocked ==
  \A t \in Tx : pc[t] = "insert" =>
    \A m \in Created(req[t].user) : view[t][m] = "past" => status[m] = "verified"

\* Every accepted request ends, also when two players create matches with
\* each other at the same time and each waits for the row the other holds.
RequestsEnd == \A t \in Tx : pc[t] # "idle" ~> pc[t] = "idle"
---------------------------------------------------------------------------
(* The inductive invariant *)

\* So far only finitely many matches were created; the others have no age.
MatchesOK ==
  /\ IsFiniteSet({m \in Match : creator[m] # None})
  /\ \A m \in Match : creator[m] = None => age[m] = "open"

\* A request under way has its arguments, no match is younger now than at its
\* now(), and from the first count on it holds the row of its creator.
RequestOK(t) ==
  /\ pc[t] # "idle" => req[t] \in [user : User, lineup : Lineup]
  /\ \A m \in Match : age[m] = "open" => view[t][m] = "open"
  /\ pc[t] \notin {"idle", "lock"} => rowLock[req[t].user] = t

\* The live matches of its creator get no more after they were counted.
PendingOK(t) ==
  /\ pc[t] \in {"countOverdue", "countExpired", "insert"} =>
       Cardinality(Live(req[t].user)) <= pending[t]
  /\ pc[t] = "insert" => pending[t] < 2

\* If the second SELECT found no overdue match, none can become so again: it
\* can only have been verified, or marked, which the third SELECT will see.
OverdueOK(t) ==
  pc[t] = "countExpired" /\ expired[t] = 0 =>
    \A m \in Created(req[t].user) : view[t][m] = "past" => status[m] # "pending_confirm"

IInv ==
  /\ TypeOK
  /\ MatchesOK
  /\ \A t \in Tx : RequestOK(t) /\ PendingOK(t) /\ OverdueOK(t)
  /\ PendingLimit
  /\ NoCreationWhileBlocked

===========================================================================
