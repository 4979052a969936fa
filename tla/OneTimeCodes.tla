----------------------------- MODULE OneTimeCodes -----------------------------
(***************************************************************************)
(* One-time codes and what they open: registration and password reset      *)
(* (app/modules/auth/api.py), change of contact (app/modules/me/api.py)    *)
(* and the script that deletes old codes (scripts/cleanup_auth_artifacts). *)
(* The two tables of codes, auth_otps and user_contact_changes, follow the *)
(* same rules and are one variable.  Contacts are of one kind: those of    *)
(* the other kind are other rows everywhere.                               *)
(*                                                                         *)
(* A request is a transaction of a slot under READ COMMITTED.  created_at  *)
(* is the start of the transaction that makes a code; codes are numbered   *)
(* in that order, whenever they become visible.                            *)
(***************************************************************************)
EXTENDS Integers, FiniteSets, FiniteSetsExt

CONSTANTS
  User,      \* users, those not registered yet included
  Contact,   \* addresses or telephone numbers
  InitOwner, \* [Contact -> User \cup {None}]: identities at the beginning
  Closed,    \* users with an identity and without a password (migration 0010)
  Tx,        \* request slots
  MaxCodes,  \* bound of the codes made
  MaxTime,   \* bound of the clock
  MaxWait,   \* longest time a request can take
  COOLDOWN, TTL, RETENTION,
  MAX_ATTEMPTS,
  None

ASSUME InitAssumption ==
  /\ InitOwner \in [Contact -> User \cup {None}]
  /\ \A c, d \in Contact : InitOwner[c] = InitOwner[d] => c = d \/ InitOwner[c] = None
  /\ \A u \in Closed : \E c \in Contact : InitOwner[c] = u

ASSUME BoundAssumption ==
  {MaxCodes, MaxTime, MaxWait, COOLDOWN, TTL, RETENTION, MAX_ATTEMPTS} \subseteq Nat

\* The clean-up keeps a code longer than any other can be used, and longer
\* than the next one has to wait: 30 days against minutes (config.py).
ASSUME TimeAssumption == RETENTION >= TTL + MaxWait /\ RETENTION >= COOLDOWN

Code == 1..MaxCodes

\* What a code is for: to register or to reset with a contact, or to change
\* the contact of a user.
Purpose == ({"register", "reset"} \X Contact) \cup ({"change"} \X User)

\* A row of auth_otps or user_contact_changes; a deleted one is remembered.
Row == [for : Purpose, to : Contact, created : 0..MaxTime, expires : Nat,
        tries : 0..MAX_ATTEMPTS, consumed : 0..MaxTime \cup {None}, deleted : BOOLEAN]

ASSUME NoneAssumption == None \notin User \cup Contact \cup Tx \cup Nat \cup Row

VARIABLES
  now,       \* the clock
  code,      \* rows of the two tables, None while the number is not used
  owner,     \* auth_identities: value to user_id
  contact,   \* users.phone_e164 (email), None without one
  account,   \* "absent", "closed" (no auth_credentials) or "open"
  uses,      \* history: committed effects of a code
  pc,        \* where each request stands
  since,     \* when it began
  number,    \* the number of the code it makes or has picked
  args,      \* what a new code is for, or whom the picked one acts on
  holder,    \* row locks of the codes
  passed     \* history: newer codes there had been when it picked one

dbVars == <<code, owner, contact, account, uses>>
txVars == <<pc, since, number, args, holder, passed>>
vars   == <<now, dbVars, txVars>>

PC == {"idle", "issue", "picked", "accepted"}

Init ==
  /\ now = 0
  /\ code = [n \in Code |-> None]
  /\ owner = InitOwner
  /\ contact = [u \in User |->
       IF \E c \in Contact : InitOwner[c] = u
         THEN CHOOSE c \in Contact : InitOwner[c] = u ELSE None]
  /\ account = [u \in User |->
       IF u \in Closed THEN "closed"
       ELSE IF \E c \in Contact : InitOwner[c] = u THEN "open" ELSE "absent"]
  /\ uses = [n \in Code |-> 0]
  /\ pc = [t \in Tx |-> "idle"]
  /\ since = [t \in Tx |-> 0]
  /\ number = [t \in Tx |-> None]
  /\ args = [t \in Tx |-> None]
  /\ holder = [n \in Code |-> None]
  /\ passed = [t \in Tx |-> {}]

Begin(t, l) ==
  /\ pc[t] = "idle"
  /\ pc' = [pc EXCEPT ![t] = l]
  /\ since' = [since EXCEPT ![t] = now]

\* The transaction of t ends, by commit or by rollback.
End(t) ==
  /\ pc' = [pc EXCEPT ![t] = "idle"]
  /\ since' = [since EXCEPT ![t] = 0]
  /\ number' = [number EXCEPT ![t] = None]
  /\ args' = [args EXCEPT ![t] = None]
  /\ holder' = [n \in Code |-> IF holder[n] = t THEN None ELSE holder[n]]
  /\ passed' = [passed EXCEPT ![t] = {}]

\* All codes for p there have been, and those that still have their row.
MadeFor(p) == {n \in Code : code[n] # None /\ code[n].for = p}
RowsFor(p) == {n \in MadeFor(p) : ~code[n].deleted}

---------------------------------------------------------------------------
(* Asking for a code *)

\* Somebody else has c: users, auth_identities.
InUseByOther(u, c) ==
  \/ \E v \in User \ {u} : contact[v] = c
  \/ owner[c] \notin {u, None}

\* A reset needs an identity, a change a contact nobody has; anything else is
\* answered without a code.
MayAsk(p, c) ==
  CASE p[1] = "register" -> c = p[2]
    [] p[1] = "reset"    -> c = p[2] /\ owner[c] # None
    [] p[1] = "change"   -> account[p[2]] = "open" /\ ~InUseByOther(p[2], c)
                              /\ contact[p[2]] # c

\* Mutant: a code that was used no longer counts.
CoolingUnused(p) ==
  LET R == {n \in RowsFor(p) : code[n].consumed = None} IN
  R # {} /\ now < code[Max(R)].created + COOLDOWN

\* The last code for p is younger than the cooldown.
Cooling(p) ==
  RowsFor(p) # {} /\ now < code[Max(RowsFor(p))].created + COOLDOWN

\* Bound: MaxCodes.
NextNumber ==
  1 + Max({0} \cup {n \in Code : code[n] # None} \cup
          {number[t] : t \in {w \in Tx : pc[w] = "issue"}})

\* _request_otp, request_contact_change: read the last code.  A refusal, 429,
\* writes nothing.
BeginIssue(t, p, c) ==
  /\ MayAsk(p, c) /\ ~Cooling(p)
  /\ NextNumber \in Code
  /\ Begin(t, "issue")
  /\ number' = [number EXCEPT ![t] = NextNumber]
  /\ args' = [args EXCEPT ![t] = <<p, c>>]
  /\ UNCHANGED <<now, dbVars, holder, passed>>

\* Insert the code, commit.
CommitIssue(t) ==
  LET n == number[t] IN
  /\ pc[t] = "issue"
  /\ code' = [code EXCEPT ![n] =
       [for |-> args[t][1], to |-> args[t][2], created |-> since[t],
        expires |-> now + TTL, tries |-> 0, consumed |-> None, deleted |-> FALSE]]
  /\ End(t)
  /\ UNCHANGED <<now, owner, contact, account, uses>>

---------------------------------------------------------------------------
(* Using a code *)

\* SELECT ... ORDER BY created_at DESC LIMIT 1 FOR UPDATE: the newest row
\* visible now, which it has to lock, or none.
BeginUse(t, p) ==
  LET n == IF RowsFor(p) = {} THEN None ELSE Max(RowsFor(p)) IN
  /\ Begin(t, "picked")
  /\ number' = [number EXCEPT ![t] = n]
  /\ passed' = [passed EXCEPT ![t] =
       {m \in MadeFor(p) : n # None /\ m > n}]
  /\ UNCHANGED <<now, dbVars, args, holder>>

\* The row is locked for t as soon as nobody else holds it.
Locks(t) == pc[t] = "picked" /\ number[t] # None /\ holder[number[t]] = None

\* Mutant: nothing counts the attempts.
UsableUncounted(r) ==
  ~r.deleted /\ r.consumed = None /\ now <= r.expires

\* The row is still there, not consumed, not expired and not tried too often.
Usable(r) ==
  /\ ~r.deleted /\ r.consumed = None
  /\ now <= r.expires
  /\ r.tries < MAX_ATTEMPTS

\* 400.  The lock is released with the transaction.
RefuseCode(t) ==
  /\ \/ pc[t] = "picked" /\ number[t] = None
     \/ Locks(t) /\ ~Usable(code[number[t]])
  /\ End(t)
  /\ UNCHANGED <<now, dbVars>>

\* The code is wrong: count the attempt, commit, 400.
WrongCode(t) ==
  LET n == number[t] IN
  /\ Locks(t)
  /\ Usable(code[n])
  /\ code' = [code EXCEPT ![n].tries = @ + 1]
  /\ End(t)
  /\ UNCHANGED <<now, owner, contact, account, uses>>

\* Whom the code acts on, as the handler reads it after _consume_otp; None is
\* a new user.
Subject(r) == IF r.for[1] = "change" THEN r.for[2] ELSE owner[r.to]

\* 409 or 400: the account is registered, the identity is gone or the contact
\* is taken.  The code is not consumed, for the transaction is rolled back.
Conflict(r) ==
  CASE r.for[1] = "register" -> owner[r.to] # None /\ account[owner[r.to]] = "open"
    [] r.for[1] = "reset"    -> owner[r.to] = None
    [] r.for[1] = "change"   -> InUseByOther(r.for[2], r.to)

\* Mutant: the SELECT has no FOR UPDATE.
AcceptCodePlainSelect(t) ==
  LET n == number[t] IN
  /\ pc[t] = "picked" /\ n # None
  /\ Usable(code[n]) /\ ~Conflict(code[n])
  /\ pc' = [pc EXCEPT ![t] = "accepted"]
  /\ args' = [args EXCEPT ![t] = Subject(code[n])]
  /\ UNCHANGED <<now, dbVars, since, number, holder, passed>>

\* The code is right: lock it, and read whom it acts on.
AcceptCode(t) ==
  LET n == number[t] IN
  /\ Locks(t)
  /\ Usable(code[n]) /\ ~Conflict(code[n])
  /\ holder' = [holder EXCEPT ![n] = t]
  /\ pc' = [pc EXCEPT ![t] = "accepted"]
  /\ args' = [args EXCEPT ![t] = Subject(code[n])]
  /\ UNCHANGED <<now, dbVars, since, number, passed>>

ConflictingCode(t) ==
  LET n == number[t] IN
  /\ Locks(t)
  /\ Usable(code[n]) /\ Conflict(code[n])
  /\ End(t)
  /\ UNCHANGED <<now, dbVars>>

Consume(n) ==
  /\ code' = [code EXCEPT ![n].consumed = now]
  /\ uses' = [uses EXCEPT ![n] = @ + 1]

\* register_complete of a new user: users and auth_identities get c; their
\* unique indexes let no other user have it.
RegisterNew(u, c) ==
  /\ account[u] = "absent"
  /\ ~InUseByOther(u, c)
  /\ owner' = [owner EXCEPT ![c] = u]
  /\ contact' = [contact EXCEPT ![u] = c]
  /\ account' = [account EXCEPT ![u] = "open"]

\* register_complete of a user without a password, password_reset_confirm.  Two
\* inserts of credentials conflict.
SetPassword(u, c, purpose) ==
  /\ purpose = "register" => account[u] = "closed"
  /\ account' = [account EXCEPT ![u] = "open"]
  /\ contact' = IF purpose = "register" /\ contact[u] = None
                  THEN [contact EXCEPT ![u] = c] ELSE contact
  /\ UNCHANGED owner

\* Mutant: the user gets a second identity instead of a new value in his.
ChangeContactKeepingOld(u, c) ==
  /\ ~InUseByOther(u, c)
  /\ contact' = [contact EXCEPT ![u] = c]
  /\ owner' = [owner EXCEPT ![c] = u]
  /\ UNCHANGED account

\* confirm_contact_change: users, then _upsert_verified_identity.
ChangeContact(u, c) ==
  /\ ~InUseByOther(u, c)
  /\ contact' = [contact EXCEPT ![u] = c]
  /\ owner' = [d \in Contact |-> IF d = c THEN u
                                 ELSE IF owner[d] = u THEN None ELSE owner[d]]
  /\ UNCHANGED account

\* The effect of the code and its consumption are one transaction.
CommitUse(t) ==
  LET n == number[t]
      r == code[n]
      u == args[t] IN
  /\ pc[t] = "accepted"
  /\ \/ u = None /\ \E v \in User : RegisterNew(v, r.to)
     \/ u # None /\ r.for[1] # "change" /\ SetPassword(u, r.to, r.for[1])
     \/ u # None /\ r.for[1] = "change" /\ ChangeContact(u, r.to)
  /\ Consume(n)
  /\ End(t)
  /\ UNCHANGED now

\* A unique index refuses what has become of another's in the meantime: 500.
Violates(t) ==
  LET r == code[number[t]]
      u == args[t] IN
  IF u = None THEN InUseByOther(None, r.to)
  ELSE CASE r.for[1] = "register" -> account[u] = "open"
         [] r.for[1] = "reset"    -> FALSE
         [] r.for[1] = "change"   -> InUseByOther(u, r.to)
UniqueViolation(t) ==
  /\ pc[t] = "accepted" /\ Violates(t)
  /\ End(t)
  /\ UNCHANGED <<now, dbVars>>

---------------------------------------------------------------------------
(* Clean-up, time and failures *)

\* Mutant: the cut-off is now.
OutdatedAtOnce(r) == (r.consumed # None /\ r.consumed < now) \/ r.expires < now

\* Consumed or expired longer ago than the retention.
Outdated(r) ==
  \/ r.consumed # None /\ r.consumed < now - RETENTION
  \/ r.expires < now - RETENTION

\* The DELETE of the script, row by row: it waits for a locked one.
CleanUp(n) ==
  /\ code[n] # None /\ ~code[n].deleted /\ holder[n] = None
  /\ Outdated(code[n])
  /\ code' = [code EXCEPT ![n].deleted = TRUE]
  /\ UNCHANGED <<now, owner, contact, account, uses, txVars>>

\* Bounds: MaxTime; no request takes longer than MaxWait.
Tick ==
  /\ now < MaxTime
  /\ \A t \in Tx : pc[t] # "idle" => now < since[t] + MaxWait
  /\ now' = now + 1
  /\ UNCHANGED <<dbVars, txVars>>

\* The worker dies or a statement fails: rollback.
Fail(t) ==
  /\ pc[t] # "idle"
  /\ End(t)
  /\ UNCHANGED <<now, dbVars>>

Next ==
  \/ \E t \in Tx, p \in Purpose, c \in Contact : BeginIssue(t, p, c)
  \/ \E t \in Tx, p \in Purpose : BeginUse(t, p)
  \/ \E t \in Tx :
       \/ CommitIssue(t)
       \/ RefuseCode(t) \/ WrongCode(t) \/ ConflictingCode(t) \/ AcceptCode(t)
       \/ CommitUse(t) \/ UniqueViolation(t)
       \/ Fail(t)
  \/ \E n \in Code : CleanUp(n)
  \/ Tick

Spec == Init /\ [][Next]_vars

---------------------------------------------------------------------------
(* Properties *)

\* Every variable has its type.
TypeOK ==
  /\ now \in 0..MaxTime
  /\ code \in [Code -> Row \cup {None}]
  /\ owner \in [Contact -> User \cup {None}]
  /\ contact \in [User -> Contact \cup {None}]
  /\ account \in [User -> {"absent", "closed", "open"}]
  /\ uses \in [Code -> Nat]
  /\ pc \in [Tx -> PC]
  /\ since \in [Tx -> 0..MaxTime]
  /\ number \in [Tx -> Code \cup {None}]
  /\ args \in [Tx -> (Purpose \X Contact) \cup User \cup {None}]
  /\ holder \in [Code -> Tx \cup {None}]
  /\ passed \in [Tx -> SUBSET Code]

\* However many requests present a code at the same time, it takes effect at
\* most once, and it is marked consumed exactly when it has.
UsedOnce ==
  \A n \in Code : code[n] # None =>
    uses[n] = IF code[n].consumed = None THEN 0 ELSE 1

\* A code that a newer one had replaced when a request came is not accepted
\* from it, not even when the clean-up has deleted the newer one.
ReplacedUnused == \A t \in Tx : pc[t] = "accepted" => passed[t] = {}

\* The identity a user logs in with and the contact shown in his account are
\* the same one, whatever registrations and changes race for it, and no two
\* users share it.
MirrorAgrees ==
  \A u \in User, c \in Contact : contact[u] = c <=> owner[c] = u

\* Two codes for the same thing are a cooldown apart, unless the second was
\* asked for before the first was stored.
CooldownKept ==
  \A m, n \in Code :
    (m < n /\ code[m] # None /\ code[n] # None /\ code[m].for = code[n].for) =>
      \/ code[n].created >= code[m].created + COOLDOWN
      \/ code[n].created <= code[m].expires - TTL
---------------------------------------------------------------------------
(* The inductive invariant *)

\* What the row of a code tells.
RowOK(n) ==
  IF code[n] = None THEN uses[n] = 0
  ELSE LET r == code[n] IN
       /\ r.created <= now
       /\ r.created + TTL <= r.expires /\ r.expires <= r.created + TTL + MaxWait
       /\ r.consumed # None => r.created <= r.consumed
       /\ r.deleted => Outdated(r)
       /\ r.for[1] = "change" => account[r.for[2]] = "open"

\* Code n was asked for at time s, whether its row is visible yet or not.
AskedAt(n, s) ==
  \/ code[n] # None /\ code[n].created = s
  \/ \E t \in Tx : pc[t] = "issue" /\ number[t] = n /\ since[t] = s

\* The numbers of the codes are in the order in which they were asked for.
NumbersOrdered ==
  \A m, n \in Code, r, s \in 0..MaxTime :
    m < n /\ AskedAt(m, r) /\ AskedAt(n, s) => r <= s

SinceOK(t) == pc[t] # "idle" => since[t] <= now /\ now <= since[t] + MaxWait

\* A code being made has a number of its own, and it keeps the cooldown to
\* the codes whose rows could be seen.
IssueOK(t) ==
  pc[t] = "issue" =>
    /\ number[t] \in Code /\ args[t] \in Purpose \X Contact
    /\ code[number[t]] = None
    /\ \A w \in Tx \ {t} : pc[w] = "issue" => number[w] # number[t]
    /\ args[t][1][1] = "change" => account[args[t][1][2]] = "open"
    /\ \A m \in MadeFor(args[t][1]) : m < number[t] =>
         \/ since[t] >= code[m].created + COOLDOWN
         \/ since[t] <= code[m].expires - TTL

\* Newer codes than the one a request picked were already deleted.
PickedOK(t) ==
  pc[t] \in {"picked", "accepted"} /\ number[t] # None =>
    /\ code[number[t]] # None
    /\ \A m \in passed[t] : number[t] < m /\ code[m] # None /\ code[m].deleted

\* An accepted code is locked and still unused; who completes his
\* registration with it has a contact, which he cannot lose.
AcceptedOK(t) ==
  pc[t] = "accepted" =>
    LET r == code[number[t]] IN
    /\ number[t] # None /\ holder[number[t]] = t
    /\ r.consumed = None /\ ~r.deleted
    /\ args[t] \in User \cup {None}
    /\ r.for[1] = "register" /\ args[t] # None => contact[args[t]] # None
    /\ r.for[1] = "change" => args[t] = r.for[2]

\* Who is not registered has no contact.
AbsentOK == \A u \in User : account[u] = "absent" => contact[u] = None

IInv ==
  /\ TypeOK
  /\ \A n \in Code : RowOK(n)
  /\ NumbersOrdered
  /\ \A t \in Tx : SinceOK(t) /\ IssueOK(t) /\ PickedOK(t) /\ AcceptedOK(t)
  /\ AbsentOK
  /\ UsedOnce /\ ReplacedUnused /\ MirrorAgrees /\ CooldownKept
==============================================================================
