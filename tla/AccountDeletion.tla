-------------------------- MODULE AccountDeletion --------------------------
(***************************************************************************)
(* Deletion of accounts: request_account_deletion and                      *)
(* cancel_account_deletion (app/modules/me/api.py), the status checks of   *)
(* app/api/deps.py and of login (app/modules/auth/api.py), and the job     *)
(* scripts/process_account_deletions.py that anonymizes users whose grace  *)
(* window is over.                                                         *)
(*                                                                         *)
(* Transactions run under READ COMMITTED.  An UPDATE of a users row is     *)
(* always the last thing a transaction waits for, so it is taken together  *)
(* with the commit.  SELECT ... FOR UPDATE takes a snapshot of the rows    *)
(* that match, then visits them one by one: it waits until a row is not    *)
(* locked by another transaction and drops it if it no longer matches.     *)
(* Rows are visited in any order: the code orders by the time at which the *)
(* inserting transaction began, which is not modelled.                     *)
(***************************************************************************)
EXTENDS Integers, FiniteSets

CONSTANTS
  User,   \* users
  Row,    \* ids of account_deletion_requests rows: bounds how many are made
  Tx,     \* slots for requests of users
  Job,    \* the scheduled job
  None    \* no owner (the row does not exist), no lock, no user

ASSUME JobAssumption == Job \notin Tx /\ None \notin User \cup Tx \cup {Job}

Slot == Tx \cup {Job}

VARIABLES
  ustatus,   \* users.status
  token,     \* the user holds an access token that has not expired
  session,   \* the user has a session that is not revoked
  owner,     \* account_deletion_requests.user_id
  cancelled, \* cancelled_at IS NOT NULL
  executed,  \* executed_at IS NOT NULL
  due,       \* scheduled_for <= now()
  holder,    \* who holds the request row FOR UPDATE
  pc,        \* where each slot stands
  who,       \* the user it runs for
  todo,      \* rows its SELECT ... FOR UPDATE has still to visit
  got,       \* rows it locked
  born,      \* rows that existed when it began
  doubled    \* history: a request was made while another one was open

userVars == <<ustatus, token, session>>
rowVars  == <<owner, cancelled, executed, due, doubled>>
txVars   == <<holder, pc, who, todo, got, born>>
vars     == <<userVars, rowVars, txVars>>

UserStatus == {"active", "pending_deletion", "deleted"}
PC == {"idle",
       "request", "requestFind",  \* request_account_deletion
       "cancel", "cancelFind",    \* cancel_account_deletion
       "jobFind",                 \* process_account_deletions
       "login"}                   \* login, its checks passed

IsOpen(r) == owner[r] # None /\ ~cancelled[r] /\ ~executed[r]
Open(u) == {r \in Row : IsOpen(r) /\ owner[r] = u}
Existing == {r \in Row : owner[r] # None}

Init ==
  /\ ustatus = [u \in User |-> "active"]
  /\ token = [u \in User |-> TRUE]
  /\ session = [u \in User |-> TRUE]
  /\ owner = [r \in Row |-> None]
  /\ cancelled = [r \in Row |-> FALSE]
  /\ executed = [r \in Row |-> FALSE]
  /\ due = [r \in Row |-> FALSE]
  /\ doubled = [u \in User |-> FALSE]
  /\ holder = [r \in Row |-> None]
  /\ pc = [t \in Slot |-> "idle"]
  /\ who = [t \in Slot |-> None]
  /\ todo = [t \in Slot |-> {}]
  /\ got = [t \in Slot |-> {}]
  /\ born = [t \in Slot |-> {}]

\* A transaction begins for user u.
Start(t, u, l) ==
  /\ pc[t] = "idle"
  /\ pc' = [pc EXCEPT ![t] = l]
  /\ who' = [who EXCEPT ![t] = u]
  /\ born' = [born EXCEPT ![t] = Existing]

\* The transaction of t ends, by commit or by rollback.
End(t) ==
  /\ pc' = [pc EXCEPT ![t] = "idle"]
  /\ who' = [who EXCEPT ![t] = None]
  /\ todo' = [todo EXCEPT ![t] = {}]
  /\ got' = [got EXCEPT ![t] = {}]
  /\ born' = [born EXCEPT ![t] = {}]
  /\ holder' = [r \in Row |-> IF holder[r] = t THEN None ELSE holder[r]]

\* SELECT ... FOR UPDATE takes its snapshot.
Select(t, from, to, S) ==
  /\ pc[t] = from
  /\ pc' = [pc EXCEPT ![t] = to]
  /\ todo' = [todo EXCEPT ![t] = S]
  /\ UNCHANGED <<userVars, rowVars, holder, who, got, born>>

\* It visits a row; with one = TRUE it stops at the first row it gets.
Visit(t, at, one) ==
  \E r \in todo[t] :
    /\ pc[t] = at
    /\ holder[r] \in {None, t}
    /\ IF IsOpen(r)
         THEN /\ holder' = [holder EXCEPT ![r] = t]
              /\ got' = [got EXCEPT ![t] = @ \cup {r}]
              /\ todo' = [todo EXCEPT ![t] = IF one THEN {} ELSE @ \ {r}]
         ELSE /\ todo' = [todo EXCEPT ![t] = @ \ {r}]
              /\ UNCHANGED <<holder, got>>
    /\ UNCHANGED <<userVars, rowVars, pc, who, born>>

\* The SELECT is done.
Found(t, at) == pc[t] = at /\ todo[t] = {}

---------------------------------------------------------------------------
(* request_account_deletion *)

\* Bound: a request begins only while a row is left for it to insert.
RowLeft ==
  Cardinality({t \in Tx : pc[t] \in {"request", "requestFind"}})
    < Cardinality(Row \ Existing)

\* get_current_user: a valid access token and status 'active'.
BeginRequest(t, u) ==
  /\ token[u] /\ ustatus[u] = "active"
  /\ RowLeft
  /\ Start(t, u, "request")
  /\ UNCHANGED <<userVars, rowVars, holder, todo, got>>

SelectOpen(t) == Select(t, "request", "requestFind", Open(who[t]))
VisitOpen(t) == Visit(t, "requestFind", TRUE)

\* There is an open request: 409.
RefuseSecond(t) ==
  /\ Found(t, "requestFind") /\ got[t] # {}
  /\ End(t)
  /\ UNCHANGED <<userVars, rowVars>>

\* Mutant: the user is not blocked.
CommitRequestUnblocked(t, r) ==
  LET u == who[t] IN
  /\ Found(t, "requestFind") /\ got[t] = {}
  /\ owner[r] = None
  /\ owner' = [owner EXCEPT ![r] = u]
  /\ doubled' = [doubled EXCEPT ![u] = @ \/ Open(u) # {}]
  /\ session' = [session EXCEPT ![u] = FALSE]
  /\ End(t)
  /\ UNCHANGED <<ustatus, token, cancelled, executed, due>>

\* Insert the request, block the user, revoke his sessions, commit.
CommitRequest(t, r) ==
  LET u == who[t] IN
  /\ Found(t, "requestFind") /\ got[t] = {}
  /\ owner[r] = None
  /\ owner' = [owner EXCEPT ![r] = u]
  /\ doubled' = [doubled EXCEPT ![u] = @ \/ Open(u) # {}]
  /\ ustatus' = [ustatus EXCEPT ![u] = "pending_deletion"]
  /\ session' = [session EXCEPT ![u] = FALSE]
  /\ End(t)
  /\ UNCHANGED <<token, cancelled, executed, due>>

---------------------------------------------------------------------------
(* cancel_account_deletion *)

\* get_authenticated_user also lets 'pending_deletion' in.
BeginCancel(t, u) ==
  /\ token[u] /\ ustatus[u] \in {"active", "pending_deletion"}
  /\ Start(t, u, "cancel")
  /\ UNCHANGED <<userVars, rowVars, holder, todo, got>>

SelectLatest(t) == Select(t, "cancel", "cancelFind", Open(who[t]))
VisitLatest(t) == Visit(t, "cancelFind", TRUE)

\* Nothing to cancel: 404.
NothingToCancel(t) ==
  /\ Found(t, "cancelFind") /\ got[t] = {}
  /\ End(t)
  /\ UNCHANGED <<userVars, rowVars>>

\* Mutant: the user gets the status of the request.
CommitCancelStatus(t) ==
  LET u == who[t] IN
  /\ Found(t, "cancelFind") /\ got[t] # {}
  /\ cancelled' = [r \in Row |-> cancelled[r] \/ r \in got[t]]
  /\ ustatus' = [ustatus EXCEPT ![u] = "cancelled"]
  /\ End(t)
  /\ UNCHANGED <<token, session, owner, executed, due, doubled>>

\* Cancel the request found, unblock the user, commit.
CommitCancel(t) ==
  LET u == who[t] IN
  /\ Found(t, "cancelFind") /\ got[t] # {}
  /\ cancelled' = [r \in Row |-> cancelled[r] \/ r \in got[t]]
  /\ ustatus' = [ustatus EXCEPT ![u] = "active"]
  /\ End(t)
  /\ UNCHANGED <<token, session, owner, executed, due, doubled>>

---------------------------------------------------------------------------
(* process_account_deletions *)

\* Mutant: the job leaves out users who are not blocked any more.
BeginJobBlockedOnly ==
  /\ pc[Job] = "idle"
  /\ pc' = [pc EXCEPT ![Job] = "jobFind"]
  /\ todo' = [todo EXCEPT ![Job] = {r \in Row :
       IsOpen(r) /\ due[r] /\ ustatus[owner[r]] = "pending_deletion"}]
  /\ born' = [born EXCEPT ![Job] = Existing]
  /\ UNCHANGED <<userVars, rowVars, holder, who, got>>

\* The job starts: it takes a snapshot of the open requests that are due.
BeginJob ==
  /\ pc[Job] = "idle"
  /\ pc' = [pc EXCEPT ![Job] = "jobFind"]
  /\ todo' = [todo EXCEPT ![Job] = {r \in Row : IsOpen(r) /\ due[r]}]
  /\ born' = [born EXCEPT ![Job] = Existing]
  /\ UNCHANGED <<userVars, rowVars, holder, who, got>>

\* Mutant: the SELECT has no FOR UPDATE and takes the rows of its snapshot.
VisitDuePlainSelect ==
  /\ pc[Job] = "jobFind" /\ todo[Job] # {}
  /\ got' = [got EXCEPT ![Job] = todo[Job]]
  /\ todo' = [todo EXCEPT ![Job] = {}]
  /\ UNCHANGED <<userVars, rowVars, pc, holder, who, born>>

VisitDue == Visit(Job, "jobFind", FALSE)

\* Anonymize the owners, whatever their status is by now; one commit.
CommitJob ==
  LET gone == {owner[r] : r \in got[Job]} IN
  /\ Found(Job, "jobFind")
  /\ executed' = [r \in Row |-> executed[r] \/ r \in got[Job]]
  /\ ustatus' = [u \in User |-> IF u \in gone THEN "deleted" ELSE ustatus[u]]
  /\ session' = [u \in User |-> session[u] /\ u \notin gone]
  /\ End(Job)
  /\ UNCHANGED <<token, owner, cancelled, due, doubled>>

---------------------------------------------------------------------------
(* login; refresh asks for the same status *)

BeginLogin(t, u) ==
  /\ ustatus[u] = "active"
  /\ Start(t, u, "login")
  /\ UNCHANGED <<userVars, rowVars, holder, todo, got>>

\* Mutant: a login makes the account active.
CommitLoginReactivating(t) ==
  LET u == who[t] IN
  /\ pc[t] = "login"
  /\ ustatus' = [ustatus EXCEPT ![u] = "active"]
  /\ token' = [token EXCEPT ![u] = TRUE]
  /\ session' = [session EXCEPT ![u] = TRUE]
  /\ End(t)
  /\ UNCHANGED rowVars

\* A new session, whatever became of the account since it was checked.
CommitLogin(t) ==
  LET u == who[t] IN
  /\ pc[t] = "login"
  /\ token' = [token EXCEPT ![u] = TRUE]
  /\ session' = [session EXCEPT ![u] = TRUE]
  /\ End(t)
  /\ UNCHANGED <<ustatus, rowVars>>

---------------------------------------------------------------------------
(* Environment *)

\* Access tokens expire long before the grace window ends.
TokenExpires(u) ==
  /\ token[u]
  /\ token' = [token EXCEPT ![u] = FALSE]
  /\ UNCHANGED <<ustatus, session, rowVars, txVars>>

\* The grace window of days is over.  No transaction lasts that long: all
\* those under way began after the request was made.
GraceEnds(r) ==
  /\ IsOpen(r) /\ ~due[r]
  /\ \A t \in Slot : pc[t] # "idle" => r \in born[t]
  /\ due' = [due EXCEPT ![r] = TRUE]
  /\ UNCHANGED <<userVars, owner, cancelled, executed, doubled, txVars>>

\* The worker dies or a statement fails: rollback.
Fail(t) ==
  /\ pc[t] # "idle"
  /\ End(t)
  /\ UNCHANGED <<userVars, rowVars>>

\* The same for the job, when it has rows to lose.
JobFails ==
  /\ todo[Job] \cup got[Job] # {}
  /\ Fail(Job)

Begin(t) ==
  \E u \in User : BeginRequest(t, u) \/ BeginCancel(t, u) \/ BeginLogin(t, u)

Step(t) ==
  \/ SelectOpen(t) \/ VisitOpen(t) \/ RefuseSecond(t)
  \/ \E r \in Row : CommitRequest(t, r)
  \/ SelectLatest(t) \/ VisitLatest(t) \/ NothingToCancel(t) \/ CommitCancel(t)
  \/ CommitLogin(t)

Next ==
  \/ \E t \in Tx : Begin(t) \/ Step(t)
  \/ BeginJob \/ VisitDue \/ CommitJob
  \/ \E t \in Tx : Fail(t)
  \/ JobFails
  \/ \E u \in User : TokenExpires(u)
  \/ \E r \in Row : GraceEnds(r)

Spec == Init /\ [][Next]_vars

\* Accepted requests keep running and row locks are first come first served;
\* the job is scheduled again and again and from some time on does not fail;
\* time goes on.
Fairness ==
  /\ \A t \in Tx : SF_vars(Step(t))
  /\ WF_vars(BeginJob) /\ SF_vars(VisitDue) /\ WF_vars(CommitJob)
  /\ \A r \in Row : WF_vars(GraceEnds(r))
  /\ <>[][~JobFails]_vars

FairSpec == Spec /\ Fairness

---------------------------------------------------------------------------
(* Properties *)

\* Every variable has its type.
TypeOK ==
  /\ ustatus \in [User -> UserStatus]
  /\ token \in [User -> BOOLEAN]
  /\ session \in [User -> BOOLEAN]
  /\ owner \in [Row -> User \cup {None}]
  /\ cancelled \in [Row -> BOOLEAN]
  /\ executed \in [Row -> BOOLEAN]
  /\ due \in [Row -> BOOLEAN]
  /\ doubled \in [User -> BOOLEAN]
  /\ holder \in [Row -> Slot \cup {None}]
  /\ pc \in [Slot -> PC]
  /\ who \in [Slot -> User \cup {None}]
  /\ todo \in [Slot -> SUBSET Row]
  /\ got \in [Slot -> SUBSET Row]
  /\ born \in [Slot -> SUBSET Row]

\* A deletion that its owner cancelled is never carried out, and one that
\* was carried out is never reported as cancelled, even when the job and the
\* cancellation meet on the row.
ExecutedNeverCancelled == \A r \in Row : ~(cancelled[r] /\ executed[r])

\* As long as no second request slipped in while one was open, users.status
\* tells exactly where the requests stand: scheduled, executed or neither.
StatusTellsRequests ==
  \A u \in User : ~doubled[u] =>
    /\ ustatus[u] = "pending_deletion" <=> Open(u) # {}
    /\ ustatus[u] = "deleted" <=> \E r \in Row : owner[r] = u /\ executed[r]

\* An anonymized account does not come back to life (under the same proviso).
DeletedIsFinal ==
  [][\A u \in User : ustatus[u] = "deleted" /\ ~doubled[u] => ustatus'[u] = "deleted"]_vars

\* The error message of request_account_deletion: a user who has a deletion
\* scheduled cannot schedule another one.
AtMostOneOpen == \A u \in User : Cardinality(Open(u)) <= 1

\* The documentation promises cancellation with a grace window: until the
\* request is due the user can reach the endpoint, with the token he holds
\* or with one that login would give him.
CancellableDuringGrace ==
  \A u \in User : (\E r \in Open(u) : ~due[r]) => token[u] \/ ustatus[u] = "active"

\* Every deletion request is eventually cancelled or carried out.
RequestsResolve == \A r \in Row : IsOpen(r) ~> ~IsOpen(r)
---------------------------------------------------------------------------
(* The inductive invariant *)

\* A slot looks at rows of its own user only.
SlotOK(t) ==
  /\ IF pc[t] = "idle" THEN todo[t] \cup got[t] = {} ELSE who[t] \in User
  /\ \A r \in todo[t] \cup got[t] : owner[r] = who[t]
  /\ born[t] \subseteq Existing

\* The rows a slot got are open, and stay so while it holds them.
HoldsOpen(t) == \A r \in got[t] : holder[r] = t /\ IsOpen(r)

\* A request for deletion began for an active user: all his earlier requests
\* had been cancelled.
RequestOK(t) ==
  pc[t] \in {"request", "requestFind"} /\ ~doubled[who[t]] =>
    \A r \in born[t] : owner[r] = who[t] => cancelled[r]

JobOK == \A r \in todo[Job] \cup got[Job] : due[r]

\* Only what is due is executed, and what is due is older than all the
\* transactions under way.
RowOK(r) ==
  /\ owner[r] = None => ~cancelled[r] /\ ~executed[r] /\ ~due[r]
  /\ executed[r] => due[r]
  /\ due[r] => \A t \in Tx : pc[t] # "idle" => r \in born[t]

OneOpen(u) == ~doubled[u] => \A r1, r2 \in Open(u) : r1 = r2

IInv ==
  /\ TypeOK
  /\ \A t \in Tx : SlotOK(t) /\ RequestOK(t)
  /\ \A t \in Slot : HoldsOpen(t)
  /\ JobOK
  /\ \A r \in Row : RowOK(r)
  /\ \A u \in User : OneOpen(u)
  /\ ExecutedNeverCancelled
  /\ StatusTellsRequests

===========================================================================
