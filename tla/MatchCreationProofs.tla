------------------------ MODULE MatchCreationProofs ------------------------
(***************************************************************************)
(* Proofs about MatchCreation: IInv is inductive, so a creator never has   *)
(* more than two live matches and never creates one while an overdue one   *)
(* blocks him, for any users, matches, line-ups and concurrent requests.   *)
(* And about MatchScore: which scores a match is created with.             *)
(***************************************************************************)
EXTENDS MatchCreation, MatchScore, FiniteSetTheorems, SequenceTheorems, TLAPS

USE DEF Age, MatchStatus, PC, tableVars, lockVars

Requests == [user : User, lineup : Lineup]

\* NoCreationWhileBlocked of one request.
NotBlocked(t) ==
  pc[t] = "insert" =>
    \A m \in Created(req[t].user) : view[t][m] = "past" => status[m] = "verified"

TxOK(t) == RequestOK(t) /\ PendingOK(t) /\ OverdueOK(t) /\ NotBlocked(t)

\* The conjuncts of the invariant, in a state and in its successor.
LEMMA IInvParts ==
  /\ TypeOK /\ MatchesOK /\ (\A t \in Tx : TxOK(t)) /\ PendingLimit => IInv
  /\ TypeOK' /\ MatchesOK' /\ (\A t \in Tx : TxOK(t)') /\ PendingLimit' => IInv'
  /\ IInv => TypeOK /\ MatchesOK /\ (\A t \in Tx : TxOK(t)) /\ PendingLimit
  BY DEF IInv, TxOK, NotBlocked, NoCreationWhileBlocked

\* The matches of a creator, and any of them, can be counted.
LEMMA Countable ==
  ASSUME MatchesOK, NEW u \in User, NEW S \in SUBSET Created(u)
  PROVE  IsFiniteSet(S) /\ Cardinality(S) \in Nat
<1>1. S \subseteq {m \in Match : creator[m] # None}
  BY NoneAssumption DEF Created
<1>2. QED
  BY <1>1, FS_Subset, FS_CardinalityType DEF MatchesOK

\* Initially no match exists and the invariant holds.
LEMMA InitIInv == Init => IInv
<1> SUFFICES ASSUME Init PROVE IInv
  OBVIOUS
<1> USE DEF Init
<1>1. TypeOK
  BY DEF TypeOK
<1>2. \A u \in User : Created(u) = {} /\ Live(u) = {}
  BY NoneAssumption DEF Created, Live
<1>3. {m \in Match : creator[m] # None} = {}
  OBVIOUS
<1>4. IsFiniteSet({}) /\ Cardinality({}) = 0
  BY FS_EmptySet
<1>5. MatchesOK
  BY <1>3, <1>4 DEF MatchesOK
<1>6. \A t \in Tx : TxOK(t)
  BY DEF TxOK, RequestOK, PendingOK, OverdueOK, NotBlocked
<1>7. PendingLimit
  BY <1>2, <1>4 DEF PendingLimit
<1>8. QED
  BY <1>1, <1>5, <1>6, <1>7, IInvParts

---------------------------------------------------------------------------
(* What a step leaves alone *)

\* A slot stays as it is and keeps its row.
SlotKept(s) ==
  /\ pc'[s] = pc[s] /\ req'[s] = req[s] /\ view'[s] = view[s]
  /\ pending'[s] = pending[s] /\ expired'[s] = expired[s]
  /\ \A u \in User : rowLock[u] = s => rowLock'[u] = s

\* Matches only age, keep their creator, and once decided stay so.
TablesFollow ==
  /\ \A m \in Match : age'[m] = "open" => age[m] = "open"
  /\ \A m \in Match : creator[m] # None =>
       /\ creator'[m] = creator[m]
       /\ status[m] # "pending_confirm" => status'[m] # "pending_confirm"
       /\ status[m] = "verified" => status'[m] = "verified"

\* A request keeps its invariant through steps of others that give its
\* creator no further live match once he is locked.
LEMMA SlotKeptOK ==
  ASSUME IInv, NEW s \in Tx, SlotKept(s), TablesFollow,
         \A u \in User : pc[s] \notin {"idle", "lock"} /\ req[s].user = u =>
                         Live(u)' \subseteq Live(u)
  PROVE  TxOK(s)'
<1>1. TypeOK /\ MatchesOK /\ RequestOK(s) /\ PendingOK(s) /\ OverdueOK(s) /\ NotBlocked(s)
  BY IInvParts DEF TxOK
<1>2. pc[s] # "idle" => req[s].user \in User
  BY <1>1 DEF RequestOK
<1>3. RequestOK(s)'
  BY <1>1, <1>2 DEF RequestOK, SlotKept, TablesFollow
<1>4. PendingOK(s)'
  <2>1. ASSUME NEW u \in User, u = req[s].user,
               pc[s] \in {"countOverdue", "countExpired", "insert"}
        PROVE  Cardinality(Live(u)') <= pending[s]
    <3>1. IsFiniteSet(Live(u)) /\ Cardinality(Live(u)) \in Nat
      <4>1. Live(u) \in SUBSET Created(u)
        BY DEF Live
      <4>2. QED
        BY <1>1, <4>1, Countable
    <3>2. Live(u)' \subseteq Live(u)
      BY <2>1
    <3>3. /\ Cardinality(Live(u)') <= Cardinality(Live(u))
          /\ Cardinality(Live(u)') \in Nat
      BY <3>1, <3>2, FS_Subset, FS_CardinalityType
    <3>4. Cardinality(Live(u)) <= pending[s] /\ pending[s] \in Nat
      BY <1>1, <2>1 DEF PendingOK, TypeOK
    <3>5. QED
      BY <3>1, <3>3, <3>4
  <2>2. pc'[s] = pc[s] /\ req'[s] = req[s] /\ pending'[s] = pending[s]
    BY DEF SlotKept
  <2>3. pc[s] = "insert" => pending[s] < 2
    BY <1>1 DEF PendingOK
  <2>4. PICK u : u = req[s].user
    OBVIOUS
  <2>5. pc[s] \in {"countOverdue", "countExpired", "insert"} =>
          Cardinality(Live(u)') <= pending[s]
    BY <1>2, <2>1, <2>4
  <2>6. req'[s].user = u
    BY <2>2, <2>4
  <2>7. QED
    BY <2>2, <2>3, <2>5, <2>6 DEF PendingOK, Live, Created
<1>5. ASSUME NEW m \in Match, pc[s] # "idle", creator'[m] = req[s].user, view[s][m] = "past"
      PROVE  creator[m] = req[s].user
  BY <1>1, <1>5 DEF MatchesOK, RequestOK, TablesFollow
<1>6. OverdueOK(s)'
  BY <1>1, <1>2, <1>5, NoneAssumption DEF OverdueOK, SlotKept, TablesFollow, Created
<1>7. NotBlocked(s)'
  BY <1>1, <1>2, <1>5, NoneAssumption DEF NotBlocked, SlotKept, TablesFollow, Created
<1>8. QED
  BY <1>3, <1>4, <1>6, <1>7 DEF TxOK

\* Where no match changes, the tables stay in order.
LEMMA TablesKeptOK ==
  ASSUME IInv, UNCHANGED tableVars
  PROVE  /\ MatchesOK' /\ PendingLimit' /\ TablesFollow
         /\ \A u : Live(u)' = Live(u)
<1>1. \A u : Live(u)' = Live(u)
  BY DEF Live, Created
<1>2. MatchesOK' /\ TablesFollow
  BY IInvParts DEF MatchesOK, TablesFollow
<1>3. PendingLimit'
  BY <1>1, IInvParts DEF PendingLimit
<1>4. QED
  BY <1>1, <1>2, <1>3

\* A slot that was not touched keeps its invariant if no match changes.
LEMMA QuietSlot ==
  ASSUME IInv, UNCHANGED tableVars, NEW s \in Tx, SlotKept(s)
  PROVE  TxOK(s)'
  BY TablesKeptOK, SlotKeptOK

\* The end of a transaction frees its slot and its locks, and nobody else's.
LEMMA Ending ==
  ASSUME IInv, NEW t \in Tx, End(t)
  PROVE  /\ rowLock' \in [User -> Tx \cup {None}]
         /\ keyShare' \in [User -> SUBSET Tx]
         /\ pc' \in [Tx -> PC]
         /\ req' \in [Tx -> Requests \cup {None}]
         /\ view' \in [Tx -> [Match -> Age]]
         /\ pending' \in [Tx -> Nat]
         /\ expired' \in [Tx -> Nat]
         /\ TxOK(t)'
         /\ \A s \in Tx \ {t} : SlotKept(s)
<1>1. TypeOK
  BY IInvParts
<1>2. /\ rowLock' \in [User -> Tx \cup {None}] /\ keyShare' \in [User -> SUBSET Tx]
  BY <1>1 DEF TypeOK, End
<1>3. /\ pc' \in [Tx -> PC] /\ pending' \in [Tx -> Nat] /\ expired' \in [Tx -> Nat]
      /\ view' \in [Tx -> [Match -> Age]]
  BY <1>1 DEF TypeOK, End
<1>4. req' \in [Tx -> Requests \cup {None}]
  BY <1>1 DEF TypeOK, End, Requests
<1>5. TxOK(t)'
  <2>1. pc'[t] = "idle" /\ \A m \in Match : view'[t][m] = "open"
    BY <1>1 DEF TypeOK, End
  <2>2. QED
    BY <2>1 DEF TxOK, RequestOK, PendingOK, OverdueOK, NotBlocked
<1>6. \A s \in Tx \ {t} : SlotKept(s)
  BY <1>1 DEF TypeOK, End, SlotKept
<1>7. QED
  BY <1>2, <1>3, <1>4, <1>5, <1>6

---------------------------------------------------------------------------
(* The steps of a request *)

\* A step of one request that changes no match keeps the invariant if it
\* does so for the request.
LEMMA QuietStep ==
  ASSUME IInv, NEW t \in Tx, UNCHANGED tableVars, TypeOK', TxOK(t)',
         \A s \in Tx \ {t} : SlotKept(s)
  PROVE  IInv'
<1>1. \A s \in Tx : TxOK(s)'
  BY QuietSlot
<1>2. MatchesOK' /\ PendingLimit'
  BY TablesKeptOK
<1>3. QED
  BY <1>1, <1>2, IInvParts

\* So does the end of one without a match.
LEMMA QuietEnd ==
  ASSUME IInv, NEW t \in Tx, End(t), UNCHANGED tableVars
  PROVE  IInv'
<1>1. TypeOK'
  BY Ending, IInvParts DEF TypeOK, Requests
<1>2. QED
  BY <1>1, Ending, QuietStep

LEMMA BeginStep ==
  ASSUME IInv, NEW t \in Tx, NEW L \in Lineup, NEW u \in L, Begin(t, u, L)
  PROVE  IInv'
<1>1. TypeOK /\ u \in User
  BY IInvParts, LineupAssumption
<1>2. [user |-> u, lineup |-> L] \in Requests
  BY <1>1 DEF Requests
<1>3. TypeOK'
  BY <1>1, <1>2 DEF TypeOK, Begin, Requests
<1>4. TxOK(t)'
  <2>1. pc'[t] = "lock" /\ req'[t] \in Requests /\ view'[t] = age /\ age' = age
    BY <1>1, <1>2 DEF TypeOK, Begin
  <2>2. QED
    BY <2>1 DEF TxOK, RequestOK, PendingOK, OverdueOK, NotBlocked, Requests
<1>5. \A s \in Tx \ {t} : SlotKept(s)
  BY <1>1 DEF TypeOK, Begin, SlotKept
<1>6. QED
  BY <1>3, <1>4, <1>5, QuietStep DEF Begin

LEMMA LockCreatorStep ==
  ASSUME IInv, NEW t \in Tx, LockCreator(t)
  PROVE  IInv'
<1>1. TypeOK /\ RequestOK(t)
  BY IInvParts DEF TxOK
<1>2. req[t].user \in User
  BY <1>1 DEF RequestOK, LockCreator
<1>3. TypeOK'
  BY <1>1 DEF TypeOK, LockCreator
<1>4. TxOK(t)'
  <2>1. pc'[t] = "countPending" /\ rowLock'[req[t].user] = t
    BY <1>1, <1>2 DEF TypeOK, LockCreator
  <2>2. QED
    BY <1>1, <2>1 DEF TxOK, RequestOK, PendingOK, OverdueOK, NotBlocked, LockCreator
<1>5. \A s \in Tx \ {t} : SlotKept(s)
  BY <1>1, NoneAssumption DEF TypeOK, LockCreator, SlotKept
<1>6. QED
  BY <1>3, <1>4, <1>5, QuietStep DEF LockCreator

LEMMA CountPendingStep ==
  ASSUME IInv, NEW t \in Tx, CountPending(t)
  PROVE  IInv'
<1> DEFINE C == {m \in Created(req[t].user) :
                   status[m] = "pending_confirm" /\ view[t][m] = "open"}
<1>1. TypeOK /\ MatchesOK /\ RequestOK(t)
  BY IInvParts DEF TxOK
<1>2. PICK u \in User : u = req[t].user
  BY <1>1 DEF RequestOK, CountPending
<1>3. IsFiniteSet(C) /\ Cardinality(C) \in Nat
  BY <1>1, <1>2, Countable
<1>4. Cardinality(Live(u)) <= Cardinality(C)
  <2>1. Live(u) \subseteq C
    BY <1>1, <1>2 DEF Live, RequestOK, Created
  <2>2. QED
    BY <1>3, <2>1, FS_Subset
<1>5. pending' = [pending EXCEPT ![t] = Cardinality(C)]
  BY DEF CountPending
<1> HIDE DEF C
<1>6. TypeOK'
  BY <1>1, <1>3, <1>5 DEF TypeOK, CountPending
<1>7. TxOK(t)'
  <2>1. pc'[t] = "countOverdue" /\ pending'[t] = Cardinality(C) /\ req'[t].user = u
    BY <1>1, <1>2, <1>5 DEF TypeOK, CountPending
  <2>2. Live(u)' = Live(u)
    BY TablesKeptOK DEF CountPending
  <2>3. PendingOK(t)'
    BY <1>4, <2>1, <2>2 DEF PendingOK, Live, Created
  <2>4. RequestOK(t)' /\ OverdueOK(t)' /\ NotBlocked(t)'
    BY <1>1, <2>1 DEF RequestOK, OverdueOK, NotBlocked, CountPending
  <2>5. QED
    BY <2>3, <2>4 DEF TxOK
<1>8. \A s \in Tx \ {t} : SlotKept(s)
  BY <1>1 DEF TypeOK, CountPending, SlotKept
<1>9. QED
  BY <1>6, <1>7, <1>8, QuietStep DEF CountPending

\* The live matches of a request's creator stay counted when it goes on.
LEMMA StillCounted ==
  ASSUME IInv, NEW t \in Tx, UNCHANGED tableVars, UNCHANGED <<req, pending>>,
         pc[t] \in {"countOverdue", "countExpired", "insert"}
  PROVE  Cardinality(Live(req[t].user)') <= pending'[t]
<1>1. PICK u : u = req[t].user
  OBVIOUS
<1>2. Cardinality(Live(u)) <= pending[t]
  BY <1>1, IInvParts DEF TxOK, PendingOK
<1>3. Live(u)' = Live(u)
  BY TablesKeptOK
<1>4. req'[t].user = u
  BY <1>1
<1>5. QED
  BY <1>2, <1>3, <1>4 DEF Live, Created

LEMMA CountOverdueStep ==
  ASSUME IInv, NEW t \in Tx, CountOverdue(t)
  PROVE  IInv'
<1> DEFINE D == {m \in Created(req[t].user) :
                   status[m] = "pending_confirm" /\ view[t][m] = "past"}
<1>1. TypeOK /\ MatchesOK /\ RequestOK(t) /\ req[t].user \in User
  BY IInvParts DEF TxOK, RequestOK, CountOverdue
<1>2. IsFiniteSet(D) /\ Cardinality(D) \in Nat
  BY <1>1, Countable
<1>3. Cardinality(D) = 0 => \A m \in Created(req[t].user) :
                              view[t][m] = "past" => status[m] # "pending_confirm"
  BY <1>2, FS_EmptySet
<1>4. expired' = [expired EXCEPT ![t] = Cardinality(D)]
  BY DEF CountOverdue
<1> HIDE DEF D
<1>5. TypeOK'
  BY <1>1, <1>2, <1>4 DEF TypeOK, CountOverdue
<1>6. TxOK(t)'
  <2>1. pc'[t] = "countExpired" /\ expired'[t] = Cardinality(D)
    BY <1>1, <1>4 DEF TypeOK, CountOverdue
  <2>2. OverdueOK(t)'
    BY <1>3, <2>1 DEF OverdueOK, CountOverdue, Created
  <2>3. PendingOK(t)'
    BY <2>1, StillCounted DEF PendingOK, CountOverdue, Live, Created
  <2>4. RequestOK(t)' /\ NotBlocked(t)'
    BY <1>1, <2>1 DEF RequestOK, NotBlocked, CountOverdue
  <2>5. QED
    BY <2>2, <2>3, <2>4 DEF TxOK
<1>7. \A s \in Tx \ {t} : SlotKept(s)
  BY <1>1 DEF TypeOK, CountOverdue, SlotKept
<1>8. QED
  BY <1>5, <1>6, <1>7, QuietStep DEF CountOverdue

\* The two counts together find every overdue match that was not verified,
\* though another request can mark one expired between them.
LEMMA AllowStep ==
  ASSUME IInv, NEW t \in Tx, Allow(t)
  PROVE  IInv'
<1> DEFINE E == {m \in Created(req[t].user) : status[m] = "expired" /\ view[t][m] # "old"}
<1>1. TypeOK /\ MatchesOK /\ TxOK(t) /\ req[t].user \in User
  BY IInvParts DEF TxOK, RequestOK, Allow
<1>2. IsFiniteSet(E) /\ Cardinality(E) \in Nat
  BY <1>1, Countable
<1>3. expired[t] \in Nat /\ Expired(t) = expired[t] + Cardinality(E)
  BY <1>1 DEF TypeOK, Expired
<1>4. expired[t] = 0 /\ Cardinality(E) = 0
  BY <1>2, <1>3 DEF Allow
<1>5. ASSUME NEW m \in Created(req[t].user), view[t][m] = "past"
      PROVE  status[m] = "verified"
  <2>1. status[m] # "pending_confirm"
    BY <1>1, <1>4, <1>5 DEF TxOK, OverdueOK, Allow
  <2>2. status[m] # "expired"
    BY <1>2, <1>4, <1>5, FS_EmptySet
  <2>3. QED
    BY <1>1, <2>1, <2>2 DEF TypeOK, Created
<1> HIDE DEF E
<1>6. TypeOK'
  BY <1>1, <1>2, <1>3 DEF TypeOK, Allow
<1>7. TxOK(t)'
  <2>1. pc'[t] = "insert" /\ pending'[t] < 2
    BY <1>1 DEF TypeOK, Allow
  <2>2. NotBlocked(t)'
    BY <1>5, <2>1 DEF NotBlocked, Allow, Created
  <2>3. PendingOK(t)'
    BY <2>1, StillCounted DEF PendingOK, Allow, Live, Created
  <2>4. RequestOK(t)' /\ OverdueOK(t)'
    BY <1>1, <2>1 DEF TxOK, RequestOK, OverdueOK, Allow
  <2>5. QED
    BY <2>2, <2>3, <2>4 DEF TxOK
<1>8. \A s \in Tx \ {t} : SlotKept(s)
  BY <1>1 DEF TypeOK, Allow, SlotKept
<1>9. QED
  BY <1>6, <1>7, <1>8, QuietStep DEF Allow

LEMMA InsertParticipantStep ==
  ASSUME IInv, NEW t \in Tx, NEW u \in User, InsertParticipant(t, u)
  PROVE  IInv'
<1>1. TypeOK /\ UNCHANGED tableVars
  BY IInvParts DEF InsertParticipant
<1>2. TypeOK'
  BY <1>1 DEF TypeOK, InsertParticipant, txVars
<1>3. \A s \in Tx : SlotKept(s)
  BY DEF InsertParticipant, SlotKept, txVars
<1>4. QED
  BY <1>1, <1>2, <1>3, QuietSlot, QuietStep

---------------------------------------------------------------------------
(* The steps that change matches *)

\* The commit adds one live match, and only to the creator whose row it has
\* locked: no other request that counts his matches is under way.
LEMMA CommitStep ==
  ASSUME IInv, NEW t \in Tx, NEW m \in Match, Commit(t, m)
  PROVE  IInv'
<1>1. TypeOK /\ MatchesOK /\ TxOK(t) /\ pc[t] = "insert"
  BY IInvParts DEF Commit
<1>2. PICK u \in User : u = req[t].user
  BY <1>1 DEF TxOK, RequestOK
<1>3. rowLock[u] = t
  BY <1>1, <1>2 DEF TxOK, RequestOK
<1>4. /\ creator' = [creator EXCEPT ![m] = u]
      /\ status' = [status EXCEPT ![m] = "pending_confirm"]
      /\ age' = [age EXCEPT ![m] = "open"]
      /\ creator[m] = None /\ age[m] = "open" /\ End(t)
  BY <1>1, <1>2 DEF Commit, MatchesOK
<1>5. TypeOK'
  BY <1>1, <1>4, Ending DEF TypeOK, Requests
<1>6. MatchesOK'
  <2> DEFINE M == {n \in Match : creator[n] # None}
  <2>1. {n \in Match : creator'[n] # None} = M \cup {m}
    BY <1>1, <1>4, NoneAssumption DEF TypeOK
  <2>2. IsFiniteSet(M \cup {m})
    BY <1>1, FS_AddElement DEF MatchesOK
  <2>3. \A n \in Match : creator'[n] = None => age'[n] = "open"
    BY <1>1, <1>4 DEF TypeOK, MatchesOK
  <2>4. QED
    BY <2>1, <2>2, <2>3 DEF MatchesOK
<1>7. TablesFollow
  BY <1>1, <1>4 DEF TypeOK, TablesFollow
<1>8. \A v \in User \ {u} : Live(v)' = Live(v)
  BY <1>1, <1>4, NoneAssumption DEF TypeOK, Live, Created
<1>9. Cardinality(Live(u)') <= 2
  <2>1. IsFiniteSet(Live(u)) /\ Cardinality(Live(u)) \in Nat
    BY <1>1, Countable DEF Live
  <2>2. Cardinality(Live(u)) <= pending[t] /\ pending[t] < 2 /\ pending[t] \in Nat
    BY <1>1, <1>2 DEF TxOK, PendingOK, TypeOK
  <2>3. Live(u)' = Live(u) \cup {m}
    BY <1>1, <1>4 DEF TypeOK, Live, Created
  <2>4. /\ Cardinality(Live(u) \cup {m}) <= Cardinality(Live(u)) + 1
        /\ Cardinality(Live(u) \cup {m}) \in Nat
    <3>1. IsFiniteSet(Live(u) \cup {m})
      BY <2>1, FS_AddElement
    <3>2. Cardinality(Live(u) \cup {m}) \in {Cardinality(Live(u)), Cardinality(Live(u)) + 1}
      BY <2>1, FS_AddElement
    <3>3. QED
      BY <2>1, <3>1, <3>2, FS_CardinalityType
  <2>5. QED
    BY <2>1, <2>2, <2>3, <2>4
<1>10. PendingLimit'
  BY <1>8, <1>9, IInvParts DEF PendingLimit
<1>11. ASSUME NEW s \in Tx \ {t}
       PROVE  TxOK(s)'
  <2>1. SlotKept(s)
    BY <1>4, Ending
  <2>2. RequestOK(s)
    BY IInvParts DEF TxOK
  <2>3. \A v \in User : pc[s] \notin {"idle", "lock"} /\ req[s].user = v => v # u
    BY <1>3, <2>2 DEF RequestOK
  <2>4. \A v \in User : pc[s] \notin {"idle", "lock"} /\ req[s].user = v =>
                          Live(v)' \subseteq Live(v)
    BY <1>8, <2>3
  <2>5. QED
    BY <1>7, <2>1, <2>4, SlotKeptOK
<1>12. TxOK(t)'
  BY <1>4, Ending
<1>13. QED
  BY <1>5, <1>6, <1>10, <1>11, <1>12, IInvParts

\* What other handlers and time do only takes live matches away.
LEMMA TablesStep ==
  ASSUME IInv, TypeOK', MatchesOK', TablesFollow, UNCHANGED <<lockVars, txVars>>,
         \A u : Live(u)' \subseteq Live(u)
  PROVE  IInv'
<1>1. \A s \in Tx : SlotKept(s)
  BY DEF SlotKept, txVars
<1>2. \A s \in Tx : TxOK(s)'
  BY <1>1, SlotKeptOK
<1>3. PendingLimit'
  <2>1. ASSUME NEW u \in User
        PROVE  Cardinality(Live(u)') <= 2
    <3>1. IsFiniteSet(Live(u)) /\ Cardinality(Live(u)) \in Nat
      BY IInvParts, Countable DEF Live
    <3>2. /\ Cardinality(Live(u)') <= Cardinality(Live(u))
          /\ Cardinality(Live(u)') \in Nat
      BY <3>1, FS_Subset, FS_CardinalityType
    <3>3. QED
      BY <3>1, <3>2, IInvParts DEF PendingLimit
  <2>2. QED
    BY <2>1 DEF PendingLimit
<1>4. QED
  BY <1>2, <1>3, IInvParts

LEMMA EnvironmentStep ==
  ASSUME IInv, NEW m \in Match, Verified(m) \/ MarkedExpired(m) \/ Ages(m)
  PROVE  IInv'
<1>1. TypeOK /\ MatchesOK
  BY IInvParts
<1>2. CASE Verified(m)
  <2>1. TypeOK' /\ MatchesOK' /\ TablesFollow
    BY <1>1, <1>2 DEF TypeOK, MatchesOK, TablesFollow, Verified, txVars
  <2>2. \A u : Live(u)' \subseteq Live(u)
    BY <1>1, <1>2 DEF TypeOK, Live, Created, Verified
  <2>3. QED
    BY <1>2, <2>1, <2>2, TablesStep DEF Verified
<1>3. CASE MarkedExpired(m)
  <2>1. TypeOK' /\ MatchesOK' /\ TablesFollow
    BY <1>1, <1>3 DEF TypeOK, MatchesOK, TablesFollow, MarkedExpired, txVars
  <2>2. \A u : Live(u)' \subseteq Live(u)
    BY <1>1, <1>3 DEF TypeOK, Live, Created, MarkedExpired
  <2>3. QED
    BY <1>3, <2>1, <2>2, TablesStep DEF MarkedExpired
<1>4. CASE Ages(m)
  <2>1. age'[m] \in {"past", "old"} /\ \A n \in Match \ {m} : age'[n] = age[n]
    BY <1>1, <1>4 DEF TypeOK, Ages
  <2>2. TypeOK' /\ MatchesOK' /\ TablesFollow
    BY <1>1, <1>4, <2>1 DEF TypeOK, MatchesOK, TablesFollow, Ages, txVars
  <2>3. \A u : Live(u)' \subseteq Live(u)
    BY <1>1, <1>4, <2>1 DEF TypeOK, Live, Created, Ages
  <2>4. QED
    BY <1>4, <2>2, <2>3, TablesStep DEF Ages
<1>5. QED
  BY <1>2, <1>3, <1>4

---------------------------------------------------------------------------
(* The theorems *)

LEMMA NextIInv == IInv /\ [Next]_vars => IInv'
<1> SUFFICES ASSUME IInv, [Next]_vars PROVE IInv'
  OBVIOUS
<1>1. ASSUME NEW t \in Tx, NEW L \in Lineup, NEW u \in L, Begin(t, u, L)
      PROVE  IInv'
  BY <1>1, BeginStep
<1>2. ASSUME NEW t \in Tx, Step(t)
      PROVE  IInv'
  <2>1. CASE Block(t) \/ Refuse(t) \/ DeadlockVictim(t)
    BY <2>1, QuietEnd DEF Block, Refuse, DeadlockVictim
  <2>2. QED
    BY <1>2, <2>1, CountPendingStep, CountOverdueStep, AllowStep, CommitStep DEF Step
<1>3. ASSUME NEW t \in Tx, Acquire(t)
      PROVE  IInv'
  BY <1>3, LockCreatorStep, InsertParticipantStep DEF Acquire
<1>4. ASSUME NEW t \in Tx, Fail(t)
      PROVE  IInv'
  BY <1>4, QuietEnd DEF Fail
<1>5. ASSUME NEW m \in Match, Verified(m) \/ MarkedExpired(m) \/ Ages(m)
      PROVE  IInv'
  BY <1>5, EnvironmentStep
<1>6. CASE UNCHANGED vars
  <2>1. TypeOK' /\ UNCHANGED tableVars
    BY <1>6, IInvParts DEF TypeOK, vars, txVars
  <2>2. \A s \in Tx : SlotKept(s)
    BY <1>6 DEF SlotKept, vars, txVars
  <2>3. QED
    BY <2>1, <2>2, QuietSlot, TablesKeptOK, IInvParts
<1>7. QED
  BY <1>1, <1>2, <1>3, <1>4, <1>5, <1>6 DEF Next

\* The inductive invariant holds whatever requests, other handlers, failures
\* and the clock do.
THEOREM Invariance == Spec => []IInv
  BY InitIInv, NextIInv, PTL DEF Spec

\* create_match never gives a creator a third live pending match, however
\* many requests he sends at once.
THEOREM Limit == Spec => []PendingLimit
<1>1. IInv => PendingLimit
  BY DEF IInv
<1>2. QED
  BY <1>1, Invariance, PTL

\* A request gets past the block rules only if every match that was overdue
\* when it began was verified, though each SELECT sees another state.
THEOREM Blocked == Spec => []NoCreationWhileBlocked
<1>1. IInv => NoCreationWhileBlocked
  BY DEF IInv
<1>2. QED
  BY <1>1, Invariance, PTL

---------------------------------------------------------------------------
(* MatchScoreIn accepts the results of best-of-three matches and no other
   score, and the winner it derives is the team that won.                  *)

\* The size of a set of positions, counted position by position.
LEMMA CountTwo ==
  ASSUME NEW S \in SUBSET (1..2)
  PROVE  Cardinality(S) = (IF 1 \in S THEN 1 ELSE 0) + (IF 2 \in S THEN 1 ELSE 0)
<1>. DEFINE S1 == S \cap {1}
<1>0. \A i \in S : i = 1 \/ i = 2
  OBVIOUS
<1>1. IsFiniteSet({}) /\ Cardinality({}) = 0
  BY FS_EmptySet
<1>2. IsFiniteSet(S1) /\ Cardinality(S1) = IF 1 \in S THEN 1 ELSE 0
  <2>1. CASE 1 \in S
    <3>1. S1 = {} \cup {1}
      BY <2>1
    <3>2. /\ IsFiniteSet({} \cup {1})
          /\ Cardinality({} \cup {1}) = 0 + 1
      BY <1>1, FS_AddElement
    <3> QED BY <2>1, <3>1, <3>2
  <2>2. CASE 1 \notin S
    <3>1. S1 = {}
      BY <2>2
    <3> QED BY <2>2, <3>1, <1>1
  <2> QED BY <2>1, <2>2
<1>3. CASE 2 \in S
  <2>1. S = S1 \cup {2}
    BY <1>0, <1>3
  <2>2. Cardinality(S1 \cup {2}) = Cardinality(S1) + 1
    BY <1>2, FS_AddElement
  <2>3. Cardinality(S) = Cardinality(S1) + 1
    BY <2>1, <2>2
  <2> QED BY <2>3, <1>2, <1>3
<1>4. CASE 2 \notin S
  <2>1. S = S1
    BY <1>0, <1>4
  <2>2. Cardinality(S) = Cardinality(S1)
    BY <2>1
  <2> QED BY <2>2, <1>2, <1>4
<1> QED BY <1>3, <1>4

LEMMA CountThree ==
  ASSUME NEW S \in SUBSET (1..3)
  PROVE  Cardinality(S) = Cardinality(S \cap (1..2)) + (IF 3 \in S THEN 1 ELSE 0)
<1>. DEFINE S2 == S \cap (1..2)
<1>0. \A i \in S : i \in 1..2 \/ i = 3
  OBVIOUS
<1>1. IsFiniteSet(S2) /\ 3 \notin S2
  <2>1. IsFiniteSet(1..2)
    BY FS_Interval, 1 \in Int, 2 \in Int
  <2> QED BY <2>1, FS_Intersection
<1>2. CASE 3 \in S
  <2>1. S = S2 \cup {3}
    BY <1>0, <1>2
  <2>2. Cardinality(S2 \cup {3}) = Cardinality(S2) + 1
    BY <1>1, FS_AddElement
  <2>3. Cardinality(S) = Cardinality(S2) + 1
    BY <2>1, <2>2
  <2> QED BY <2>3, <1>2
<1>3. CASE 3 \notin S
  <2>1. S = S2
    BY <1>0, <1>3
  <2>2. Cardinality(S2) \in Nat
    BY <1>1, FS_CardinalityType
  <2>3. Cardinality(S) = Cardinality(S2)
    BY <2>1
  <2> QED BY <2>2, <2>3, <1>3
<1> QED BY <1>2, <1>3

\* A set is valid when one of the teams takes it, and not both do.
LEMMA SetDecided ==
  ASSUME NEW x \in GameCounts
  PROVE  /\ ValidSet(x) <=> TakesSet(x.t1, x.t2) \/ TakesSet(x.t2, x.t1)
         /\ TakesSet(x.t1, x.t2) => x.t1 > x.t2
         /\ TakesSet(x.t2, x.t1) => ~(x.t1 > x.t2)
<1>1. x.t1 \in Int /\ x.t2 \in Int
  BY DEF GameCounts
<1> QED BY <1>1 DEF ValidSet, TakesSet

\* How many of the first two and of three sets team 1 wins.
LEMMA Counts ==
  ASSUME NEW s
  PROVE  /\ T1Wins(s, 2) = (IF s[1].t1 > s[1].t2 THEN 1 ELSE 0)
                             + (IF s[2].t1 > s[2].t2 THEN 1 ELSE 0)
         /\ T1Wins(s, 3) = T1Wins(s, 2) + (IF s[3].t1 > s[3].t2 THEN 1 ELSE 0)
<1>1. /\ WonBy1(s, 2) \in SUBSET (1..2)
      /\ 1 \in WonBy1(s, 2) <=> s[1].t1 > s[1].t2
      /\ 2 \in WonBy1(s, 2) <=> s[2].t1 > s[2].t2
  BY DEF WonBy1
<1>2. /\ WonBy1(s, 3) \in SUBSET (1..3)
      /\ WonBy1(s, 3) \cap (1..2) = WonBy1(s, 2)
      /\ 3 \in WonBy1(s, 3) <=> s[3].t1 > s[3].t2
  BY DEF WonBy1
<1> QED BY <1>1, <1>2, CountTwo, CountThree DEF T1Wins

\* MatchScoreIn accepts a score exactly when it is the result of a
\* best-of-three match (schemas/match.py:16).
THEOREM AcceptsResults ==
  ASSUME NEW s \in Seq(GameCounts)
  PROVE  Accepted(s) <=> \E team \in {1, 2} : BestOfThree(s, team)
<1>1. CASE Len(s) = 2
  <2>1. s[1] \in GameCounts /\ s[2] \in GameCounts
    BY <1>1, 1 \in 1..Len(s), 2 \in 1..Len(s), ElementOfSeq
  <2>2. /\ T1Wins(s, Len(s)) = (IF s[1].t1 > s[1].t2 THEN 1 ELSE 0)
                                 + (IF s[2].t1 > s[2].t2 THEN 1 ELSE 0)
    BY <1>1, Counts
  <2>3. Accepted(s) <=> ValidSet(s[1]) /\ ValidSet(s[2]) /\ T1Wins(s, Len(s)) # 1
    BY <1>1 DEF Accepted
  <2>4. (\E team \in {1, 2} : BestOfThree(s, team)) <=>
           \/ TakesSet(s[1].t1, s[1].t2) /\ TakesSet(s[2].t1, s[2].t2)
           \/ TakesSet(s[1].t2, s[1].t1) /\ TakesSet(s[2].t2, s[2].t1)
    BY <1>1 DEF BestOfThree, SetTo
  <2> QED BY <2>1, <2>2, <2>3, <2>4, SetDecided
<1>2. CASE Len(s) = 3
  <2>1. s[1] \in GameCounts /\ s[2] \in GameCounts /\ s[3] \in GameCounts
    BY <1>2, ElementOfSeq
  <2>2. Accepted(s) <=>
          /\ ValidSet(s[1]) /\ ValidSet(s[2]) /\ ValidSet(s[3])
          /\ T1Wins(s, 3) \in {1, 2} /\ T1Wins(s, 2) = 1
    BY <1>2 DEF Accepted
  <2>3. (\E team \in {1, 2} : BestOfThree(s, team)) <=>
           /\ TakesSet(s[3].t1, s[3].t2) \/ TakesSet(s[3].t2, s[3].t1)
           /\ \/ TakesSet(s[1].t1, s[1].t2) /\ TakesSet(s[2].t2, s[2].t1)
              \/ TakesSet(s[1].t2, s[1].t1) /\ TakesSet(s[2].t1, s[2].t2)
    BY <1>2 DEF BestOfThree, SetTo
  <2> QED BY <2>1, <2>2, <2>3, Counts, SetDecided
<1>3. CASE Len(s) \notin {2, 3}
  BY <1>3 DEF Accepted, BestOfThree
<1> QED BY <1>1, <1>2, <1>3

\* The winner stored with an accepted score (derived_winner) is the team that
\* won the match, and the only one: both teams agree on who won.
THEOREM WinnerWon ==
  ASSUME NEW s \in Seq(GameCounts), Accepted(s), NEW team \in {1, 2}
  PROVE  BestOfThree(s, team) <=> team = DerivedWinner(s)
<1>1. Len(s) = 2 \/ Len(s) = 3
  BY DEF Accepted
<1>2. CASE Len(s) = 2
  <2>1. s[1] \in GameCounts /\ s[2] \in GameCounts
    BY <1>2, 1 \in 1..Len(s), 2 \in 1..Len(s), ElementOfSeq
  <2>2. /\ ValidSet(s[1]) /\ ValidSet(s[2]) /\ T1Wins(s, 2) # 1
    BY <1>2 DEF Accepted
  <2>3. DerivedWinner(s) = IF T1Wins(s, 2) > 2 - T1Wins(s, 2) THEN 1 ELSE 2
    BY <1>2 DEF DerivedWinner
  <2>4. BestOfThree(s, team) <=> SetTo(s, 1, team) /\ SetTo(s, 2, team)
    BY <1>2 DEF BestOfThree
  <2> QED BY <2>1, <2>2, <2>3, <2>4, Counts, SetDecided DEF SetTo
<1>3. CASE Len(s) = 3
  <2>1. s[1] \in GameCounts /\ s[2] \in GameCounts /\ s[3] \in GameCounts
    BY <1>3, ElementOfSeq
  <2>2. /\ ValidSet(s[1]) /\ ValidSet(s[2]) /\ ValidSet(s[3])
        /\ T1Wins(s, 2) = 1
    BY <1>3 DEF Accepted
  <2>3. DerivedWinner(s) = IF s[3].t1 > s[3].t2 THEN 1 ELSE 2
    <3>1. DerivedWinner(s) = IF T1Wins(s, 3) > 3 - T1Wins(s, 3) THEN 1 ELSE 2
      BY <1>3 DEF DerivedWinner
    <3>2. T1Wins(s, 3) = 1 + (IF s[3].t1 > s[3].t2 THEN 1 ELSE 0)
      BY <2>2, Counts
    <3> QED BY <3>1, <3>2
  <2>4. BestOfThree(s, team) <=>
          /\ SetTo(s, 3, team)
          /\ \/ SetTo(s, 1, team) /\ SetTo(s, 2, 3 - team)
             \/ SetTo(s, 1, 3 - team) /\ SetTo(s, 2, team)
    BY <1>3 DEF BestOfThree
  <2>5. CASE team = 1
    <3>1. BestOfThree(s, team) <=>
            /\ TakesSet(s[3].t1, s[3].t2)
            /\ \/ TakesSet(s[1].t1, s[1].t2) /\ TakesSet(s[2].t2, s[2].t1)
               \/ TakesSet(s[1].t2, s[1].t1) /\ TakesSet(s[2].t1, s[2].t2)
      BY <2>4, <2>5 DEF SetTo
    <3> QED BY <2>1, <2>2, <2>3, <2>5, <3>1, Counts, SetDecided
  <2>6. CASE team = 2
    <3>1. BestOfThree(s, team) <=>
            /\ TakesSet(s[3].t2, s[3].t1)
            /\ \/ TakesSet(s[1].t2, s[1].t1) /\ TakesSet(s[2].t1, s[2].t2)
               \/ TakesSet(s[1].t1, s[1].t2) /\ TakesSet(s[2].t2, s[2].t1)
      BY <2>4, <2>6 DEF SetTo
    <3> QED BY <2>1, <2>2, <2>3, <2>6, <3>1, Counts, SetDecided
  <2> QED BY <2>5, <2>6
<1> QED BY <1>1, <1>2, <1>3
==============================================================================
