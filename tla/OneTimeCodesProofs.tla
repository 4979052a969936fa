------------------------- MODULE OneTimeCodesProofs -------------------------
(***************************************************************************)
(* Proofs about OneTimeCodes: IInv is inductive, so a code is used at most *)
(* once, a replaced one never, codes keep the cooldown, and identities and *)
(* contacts agree, for any users, contacts, codes, requests and times.     *)
(***************************************************************************)
EXTENDS OneTimeCodes, WellFoundedInduction, TLAPS

USE DEF Code, PC, dbVars, txVars

\* A set of numbers up to a bound has a largest one.
LEMMA MaxIn ==
  ASSUME NEW K \in Nat, NEW S, S \subseteq 0..K, S # {}
  PROVE  Max(S) \in S /\ \A x \in S : x <= Max(S)
<1> DEFINE T == {K - x : x \in S}
<1>1. T \subseteq Nat /\ T # {}
  <2>1. \A x \in S : K - x \in Nat
    OBVIOUS
  <2>2. QED
    BY <2>1
<1>2. \E y \in T : \A z \in T : ~(<<z, y>> \in OpToRel(<, Nat))
  BY <1>1, NatLessThanWellFounded, WFMin
<1>3. PICK y \in T : \A z \in T : ~(z < y)
  BY <1>1, <1>2 DEF OpToRel
<1>4. PICK x \in S : y = K - x
  OBVIOUS
<1>5. ASSUME NEW z \in S PROVE x >= z
  BY <1>3, <1>4, <1>5
<1>6. \E w \in S : \A z \in S : w >= z
  BY <1>5
<1>7. Max(S) \in S /\ \A z \in S : Max(S) >= z
  BY <1>6 DEF Max
<1>8. QED
  BY <1>7

---------------------------------------------------------------------------
(* Constants and parts *)

LEMMA Numbers ==
  /\ MaxCodes \in Nat /\ MaxTime \in Nat /\ MaxWait \in Nat /\ COOLDOWN \in Nat
  /\ TTL \in Nat /\ RETENTION \in Nat /\ MAX_ATTEMPTS \in Nat
  BY BoundAssumption

\* What a row holds, and what the updates of one give.
LEMMA Rows ==
  ASSUME NEW r \in Row
  PROVE  /\ r # None
         /\ r.for \in Purpose /\ r.to \in Contact /\ r.created \in 0..MaxTime
         /\ r.created \in Nat /\ r.expires \in Nat /\ r.tries \in 0..MAX_ATTEMPTS
         /\ r.consumed \in 0..MaxTime \cup {None} /\ r.deleted \in BOOLEAN
         /\ r.consumed # None => r.consumed \in Nat
<1>1. r # None
  BY NoneAssumption
<1>2. QED
  BY <1>1, Numbers DEF Row

LEMMA RowUpdates ==
  ASSUME NEW r \in Row
  PROVE  /\ \A i \in 0..MaxTime : [r EXCEPT !.consumed = i] \in Row
         /\ \A i \in 0..MAX_ATTEMPTS : [r EXCEPT !.tries = i] \in Row
         /\ [r EXCEPT !.deleted = TRUE] \in Row
  BY DEF Row

\* What is true of one slot.
SlotOK(t) ==
  /\ SinceOK(t) /\ IssueOK(t) /\ PickedOK(t) /\ AcceptedOK(t)
  /\ pc[t] = "accepted" => passed[t] = {}

LEMMA IInvParts ==
  /\ TypeOK /\ (\A n \in Code : RowOK(n)) /\ NumbersOrdered
       /\ (\A t \in Tx : SlotOK(t)) /\ AbsentOK
       /\ UsedOnce /\ MirrorAgrees /\ CooldownKept => IInv
  /\ TypeOK' /\ (\A n \in Code : RowOK(n)') /\ NumbersOrdered'
       /\ (\A t \in Tx : SlotOK(t)') /\ AbsentOK'
       /\ UsedOnce' /\ MirrorAgrees' /\ CooldownKept' => IInv'
  /\ IInv => /\ TypeOK /\ (\A n \in Code : RowOK(n)) /\ NumbersOrdered
             /\ (\A t \in Tx : SlotOK(t)) /\ AbsentOK
             /\ UsedOnce /\ MirrorAgrees /\ CooldownKept
  BY DEF IInv, SlotOK, ReplacedUnused

\* Initially there is no code and every contact mirrors an identity.
LEMMA InitIInv == Init => IInv
<1> SUFFICES ASSUME Init PROVE IInv
  OBVIOUS
<1> USE DEF Init
<1>1. TypeOK
  <2>1. \A u \in User : contact[u] \in Contact \cup {None}
    OBVIOUS
  <2>2. QED
    BY <2>1, Numbers, InitAssumption DEF TypeOK
<1>2. \A n \in Code : RowOK(n)
  BY DEF RowOK
<1>3. NumbersOrdered
  BY DEF NumbersOrdered, AskedAt
<1>4. \A t \in Tx : SlotOK(t)
  BY DEF SlotOK, SinceOK, IssueOK, PickedOK, AcceptedOK
<1>5. AbsentOK
  BY DEF AbsentOK
<1>6. UsedOnce /\ CooldownKept
  BY DEF UsedOnce, CooldownKept
<1>7. MirrorAgrees
  <2>1. SUFFICES ASSUME NEW u \in User, NEW c \in Contact
                 PROVE  contact[u] = c <=> InitOwner[c] = u
    BY DEF MirrorAgrees
  <2>2. u # None /\ c # None
    BY NoneAssumption
  <2>3. CASE \E d \in Contact : InitOwner[d] = u
    <3>1. PICK d \in Contact : d = (CHOOSE e \in Contact : InitOwner[e] = u) /\ InitOwner[d] = u
      BY <2>3
    <3>2. contact[u] = d
      BY <2>3, <3>1
    <3>3. QED
      BY <2>2, <3>1, <3>2, InitAssumption
  <2>4. CASE ~ \E d \in Contact : InitOwner[d] = u
    BY <2>2, <2>4
  <2>5. QED
    BY <2>3, <2>4
<1>8. QED
  BY <1>1, <1>2, <1>3, <1>4, <1>5, <1>6, <1>7, IInvParts

---------------------------------------------------------------------------
(* What a step leaves alone *)

\* A slot stays as it is and keeps its row locks.
SlotKept(s) ==
  /\ pc'[s] = pc[s] /\ since'[s] = since[s] /\ number'[s] = number[s]
  /\ args'[s] = args[s] /\ passed'[s] = passed[s]
  /\ \A n \in Code : holder[n] = s => holder'[n] = s

\* No row is made, and what a row is for and its times stay.
RowsFollow ==
  \A n \in Code :
    /\ code[n] = None <=> code'[n] = None
    /\ code[n] # None =>
         /\ code'[n].for = code[n].for
         /\ code'[n].created = code[n].created
         /\ code'[n].expires = code[n].expires
         /\ code[n].deleted => code'[n].deleted

\* Who has an account keeps it, who has a contact keeps one.
PeopleFollow ==
  \A u \in User : /\ account[u] = "open" => account'[u] = "open"
                  /\ contact[u] # None => contact'[u] # None

\* Nobody else makes a code.
NoNewIssue ==
  \A w \in Tx : pc'[w] = "issue" =>
    pc[w] = "issue" /\ number'[w] = number[w] /\ since'[w] = since[w]

\* A slot keeps its invariant through steps of others that do not touch the
\* row it has locked.
LEMMA SlotKeptOK ==
  ASSUME IInv, NEW s \in Tx, SlotKept(s), RowsFollow, PeopleFollow, NoNewIssue,
         now' = now, \A n \in Code : holder[n] = s => code'[n] = code[n]
  PROVE  SlotOK(s)'
<1>1. TypeOK /\ SlotOK(s)
  BY IInvParts
<1>2. SinceOK(s)'
  BY <1>1 DEF SlotOK, SinceOK, SlotKept
<1>3. IssueOK(s)'
  <2>1. SUFFICES ASSUME pc[s] = "issue" PROVE IssueOK(s)'
    BY DEF IssueOK, SlotKept
  <2>2. PICK n \in Code : n = number[s]
    BY <1>1, <2>1 DEF SlotOK, IssueOK
  <2>3. PICK p \in Purpose, c \in Contact : args[s] = <<p, c>>
    BY <1>1, <2>1 DEF SlotOK, IssueOK
  <2>4. number'[s] = n /\ args'[s] = <<p, c>> /\ since'[s] = since[s]
    BY <2>2, <2>3 DEF SlotKept
  <2>5. /\ code[n] = None
        /\ \A w \in Tx \ {s} : pc[w] = "issue" => number[w] # n
        /\ p[1] = "change" => account[p[2]] = "open"
        /\ \A m \in MadeFor(p) : m < n =>
             since[s] >= code[m].created + COOLDOWN \/ since[s] <= code[m].expires - TTL
    BY <1>1, <2>1, <2>2, <2>3 DEF SlotOK, IssueOK
  <2>6. p[1] = "change" => account'[p[2]] = "open"
    BY <2>3, <2>5 DEF PeopleFollow, Purpose
  <2>7. code'[n] = None /\ \A w \in Tx \ {s} : pc'[w] = "issue" => number'[w] # n
    BY <2>5 DEF RowsFollow, NoNewIssue
  <2>8. ASSUME NEW m \in Code, code'[m] # None, code'[m].for = p, m < n
        PROVE  since[s] >= code'[m].created + COOLDOWN \/ since[s] <= code'[m].expires - TTL
    BY <2>5, <2>8 DEF RowsFollow, MadeFor
  <2>9. QED
    BY <2>2, <2>3, <2>4, <2>6, <2>7, <2>8 DEF IssueOK, MadeFor
<1>4. PickedOK(s)'
  BY <1>1 DEF SlotOK, PickedOK, SlotKept, RowsFollow, TypeOK
<1>5. AcceptedOK(s)'
  <2>1. SUFFICES ASSUME pc[s] = "accepted" PROVE AcceptedOK(s)'
    BY DEF AcceptedOK, SlotKept
  <2>2. PICK n \in Code : n = number[s]
    BY <1>1, <2>1 DEF SlotOK, AcceptedOK, TypeOK
  <2>3. code'[n] = code[n] /\ number'[s] = n /\ holder'[n] = s /\ args'[s] = args[s]
    BY <1>1, <2>1, <2>2 DEF SlotOK, AcceptedOK, SlotKept
  <2>4. args[s] \in User /\ contact[args[s]] # None => contact'[args[s]] # None
    BY DEF PeopleFollow
  <2>5. QED
    BY <1>1, <2>1, <2>2, <2>3, <2>4 DEF SlotOK, AcceptedOK
<1>6. pc'[s] = "accepted" => passed'[s] = {}
  BY <1>1 DEF SlotOK, SlotKept
<1>7. QED
  BY <1>2, <1>3, <1>4, <1>5, <1>6 DEF SlotOK

\* Where no code is made or stored, numbers and cooldowns stay in order.
LEMMA OrderKept ==
  ASSUME IInv, RowsFollow, NoNewIssue
  PROVE  NumbersOrdered' /\ CooldownKept'
<1>1. ASSUME NEW n \in Code, NEW i \in 0..MaxTime, AskedAt(n, i)'
      PROVE  AskedAt(n, i)
  BY <1>1 DEF AskedAt, RowsFollow, NoNewIssue
<1>2. NumbersOrdered'
  BY <1>1, IInvParts DEF NumbersOrdered
<1>3. CooldownKept'
  BY IInvParts DEF CooldownKept, RowsFollow
<1>4. QED
  BY <1>2, <1>3

\* A step of one request that makes and stores no code keeps the invariant
\* if it does so for the request, the rows it changes and the people.
LEMMA StepOf ==
  ASSUME IInv, NEW t \in Tx, now' = now, TypeOK', RowsFollow, PeopleFollow, NoNewIssue,
         SlotOK(t)', \A s \in Tx \ {t} : SlotKept(s),
         \A n \in Code : holder[n] \notin {None, t} => code'[n] = code[n],
         \A n \in Code : RowOK(n)', AbsentOK', UsedOnce', MirrorAgrees'
  PROVE  IInv'
<1>1. ASSUME NEW s \in Tx PROVE SlotOK(s)'
  <2>1. CASE s = t
    BY <2>1
  <2>2. CASE s # t
    <3>1. SlotKept(s) /\ \A n \in Code : holder[n] = s => code'[n] = code[n]
      BY <2>2, NoneAssumption
    <3>2. QED
      BY <3>1, SlotKeptOK
  <2>3. QED
    BY <2>1, <2>2
<1>2. QED
  BY <1>1, OrderKept, IInvParts

\* Where the tables and the clock stand, so does what is said about them.
LEMMA TablesKeptOK ==
  ASSUME IInv, UNCHANGED <<now, dbVars>>
  PROVE  /\ RowsFollow /\ PeopleFollow /\ \A n \in Code : RowOK(n)'
         /\ AbsentOK' /\ UsedOnce' /\ MirrorAgrees'
<1>1. RowsFollow /\ PeopleFollow
  BY DEF RowsFollow, PeopleFollow
<1>2. \A n \in Code : RowOK(n)'
  BY IInvParts DEF RowOK, Outdated
<1>3. AbsentOK' /\ UsedOnce' /\ MirrorAgrees'
  BY IInvParts DEF AbsentOK, UsedOnce, MirrorAgrees
<1>4. QED
  BY <1>1, <1>2, <1>3

LEMMA QuietStep ==
  ASSUME IInv, NEW t \in Tx, UNCHANGED <<now, dbVars>>, TypeOK', NoNewIssue,
         SlotOK(t)', \A s \in Tx \ {t} : SlotKept(s)
  PROVE  IInv'
<1>1. \A n \in Code : holder[n] \notin {None, t} => code'[n] = code[n]
  OBVIOUS
<1>2. QED
  BY <1>1, TablesKeptOK, StepOf

\* The end of a transaction frees its slot and its locks, and nobody else's.
LEMMA Ending ==
  ASSUME IInv, NEW t \in Tx, End(t)
  PROVE  /\ pc' \in [Tx -> PC] /\ since' \in [Tx -> 0..MaxTime]
         /\ number' \in [Tx -> Code \cup {None}]
         /\ args' \in [Tx -> (Purpose \X Contact) \cup User \cup {None}]
         /\ holder' \in [Code -> Tx \cup {None}]
         /\ passed' \in [Tx -> SUBSET Code]
         /\ pc'[t] = "idle" /\ SlotOK(t)' /\ NoNewIssue
         /\ \A s \in Tx \ {t} : SlotKept(s)
<1>1. TypeOK
  BY IInvParts
<1>2. 0 \in 0..MaxTime
  BY Numbers
<1>3. /\ pc' \in [Tx -> PC] /\ since' \in [Tx -> 0..MaxTime]
      /\ number' \in [Tx -> Code \cup {None}]
      /\ args' \in [Tx -> (Purpose \X Contact) \cup User \cup {None}]
      /\ holder' \in [Code -> Tx \cup {None}]
      /\ passed' \in [Tx -> SUBSET Code]
  BY <1>1, <1>2 DEF TypeOK, End
<1>4. pc'[t] = "idle"
  BY <1>1 DEF TypeOK, End
<1>5. SlotOK(t)'
  BY <1>4 DEF SlotOK, SinceOK, IssueOK, PickedOK, AcceptedOK
<1>6. /\ \A s \in Tx \ {t} : pc'[s] = pc[s] /\ since'[s] = since[s]
            /\ number'[s] = number[s] /\ args'[s] = args[s] /\ passed'[s] = passed[s]
      /\ \A n \in Code : holder[n] # t => holder'[n] = holder[n]
  BY <1>1 DEF TypeOK, End
<1>7. \A s \in Tx \ {t} : SlotKept(s)
  BY <1>6 DEF SlotKept
<1>8. NoNewIssue
  BY <1>4, <1>6 DEF NoNewIssue
<1>9. QED
  BY <1>3, <1>4, <1>5, <1>7, <1>8

LEMMA QuietEnd ==
  ASSUME IInv, NEW t \in Tx, End(t), UNCHANGED <<now, dbVars>>
  PROVE  IInv'
<1>1. TypeOK'
  BY Ending, IInvParts DEF TypeOK
<1>2. QED
  BY <1>1, Ending, QuietStep

---------------------------------------------------------------------------
(* Using a code: the steps that change no row *)

\* The newest row that can be seen is picked; those made later for the same
\* thing were deleted.
LEMMA BeginUseStep ==
  ASSUME IInv, NEW t \in Tx, NEW p \in Purpose, BeginUse(t, p)
  PROVE  IInv'
<1> DEFINE n == IF RowsFor(p) = {} THEN None ELSE Max(RowsFor(p))
<1>1. TypeOK
  BY IInvParts
<1>2. /\ n \in Code \cup {None}
      /\ n # None => n \in RowsFor(p) /\ \A m \in RowsFor(p) : m <= n
  <2>1. RowsFor(p) \subseteq 0..MaxCodes /\ RowsFor(p) \subseteq Code
    BY Numbers DEF RowsFor, MadeFor
  <2>2. QED
    BY <2>1, Numbers, MaxIn
<1>3. /\ number' = [number EXCEPT ![t] = n]
      /\ passed' = [passed EXCEPT ![t] = {m \in MadeFor(p) : n # None /\ m > n}]
      /\ pc' = [pc EXCEPT ![t] = "picked"] /\ since' = [since EXCEPT ![t] = now]
      /\ UNCHANGED <<now, dbVars, args, holder>>
  BY DEF BeginUse, Begin
<1> HIDE DEF n
<1>4. TypeOK'
  BY <1>1, <1>2, <1>3 DEF TypeOK, MadeFor
<1>5. SlotOK(t)'
  <2>1. pc'[t] = "picked" /\ number'[t] = n /\ since'[t] = now
    BY <1>1, <1>3 DEF TypeOK
  <2>2. SinceOK(t)'
    BY <1>1, <1>3, <2>1, Numbers DEF SinceOK, TypeOK
  <2>3. n # None => code'[n] # None
    BY <1>2, <1>3 DEF RowsFor, MadeFor
  <2>4. ASSUME n # None, NEW m \in passed'[t]
        PROVE  n < m /\ code'[m] # None /\ code'[m].deleted
    <3>1. m \in MadeFor(p) /\ m > n
      BY <1>1, <1>3, <2>4 DEF TypeOK
    <3>2. m \notin RowsFor(p) /\ m \in Code /\ n \in Code
      BY <1>2, <2>4, <3>1 DEF MadeFor
    <3>3. QED
      BY <1>1, <1>3, <3>1, <3>2, Rows DEF RowsFor, MadeFor, TypeOK
  <2>5. QED
    BY <2>1, <2>2, <2>3, <2>4 DEF SlotOK, IssueOK, PickedOK, AcceptedOK
<1>6. NoNewIssue /\ \A s \in Tx \ {t} : SlotKept(s)
  BY <1>1, <1>3 DEF TypeOK, NoNewIssue, SlotKept
<1>7. QED
  BY <1>3, <1>4, <1>5, <1>6, QuietStep

\* By the time a replacing code can have been deleted, the one it replaced has
\* expired.
LEMMA ReplacedExpired ==
  ASSUME IInv, NEW n \in Code, NEW m \in Code, n < m,
         code[n] # None, code[m] # None, code[m].deleted
  PROVE  now > code[n].expires
<1>1. /\ now \in Nat /\ code[n] \in Row /\ code[m] \in Row
      /\ RowOK(n) /\ RowOK(m) /\ NumbersOrdered
  <2>1. TypeOK /\ RowOK(n) /\ RowOK(m) /\ NumbersOrdered
    BY IInvParts
  <2>2. QED
    BY <2>1, Numbers DEF TypeOK
<1>2. code[n].created <= code[m].created
  BY <1>1, Rows DEF NumbersOrdered, AskedAt
<1>3. /\ code[n].created \in Nat /\ code[n].expires \in Nat
      /\ code[m].created \in Nat /\ code[m].expires \in Nat
      /\ code[m].consumed # None => code[m].consumed \in Nat
  BY <1>1, Rows
<1>4. code[n].expires <= code[m].created + TTL + MaxWait
  BY <1>1, <1>2, <1>3, Numbers DEF RowOK
<1>5. code[m].created < now - RETENTION
  <2>1. Outdated(code[m])
    BY <1>1 DEF RowOK
  <2>2. CASE code[m].consumed # None /\ code[m].consumed < now - RETENTION
    BY <1>1, <1>3, <2>2, Numbers DEF RowOK
  <2>3. CASE code[m].expires < now - RETENTION
    BY <1>1, <1>3, <2>3, Numbers DEF RowOK
  <2>4. QED
    BY <2>1, <2>2, <2>3 DEF Outdated
<1>6. QED
  BY <1>1, <1>3, <1>4, <1>5, Numbers, TimeAssumption

LEMMA AcceptCodeStep ==
  ASSUME IInv, NEW t \in Tx, AcceptCode(t)
  PROVE  IInv'
<1>1. TypeOK /\ SlotOK(t) /\ MirrorAgrees
  BY IInvParts
<1>2. PICK n \in Code : n = number[t]
  BY <1>1 DEF TypeOK, AcceptCode, Locks
<1>3. PICK r \in Row : r = code[n]
  BY <1>1, <1>2 DEF TypeOK, SlotOK, PickedOK, AcceptCode, Locks
<1>4. /\ pc[t] = "picked" /\ n # None /\ holder[n] = None /\ Usable(r) /\ ~Conflict(r)
      /\ holder' = [holder EXCEPT ![n] = t]
      /\ pc' = [pc EXCEPT ![t] = "accepted"]
      /\ args' = [args EXCEPT ![t] = Subject(r)]
      /\ UNCHANGED <<now, dbVars, since, number, passed>>
  BY <1>2, <1>3 DEF AcceptCode, Locks
<1>5. /\ Subject(r) \in User \cup {None}
      /\ r.for[1] = "change" => Subject(r) = r.for[2]
      /\ r.for[1] = "register" /\ Subject(r) # None => contact[Subject(r)] # None
  <2>1. r.for \in Purpose /\ r.to \in Contact
    BY Rows
  <2>2. CASE r.for[1] = "change"
    BY <2>1, <2>2 DEF Subject, Purpose
  <2>3. CASE r.for[1] # "change"
    <3>1. Subject(r) = owner[r.to] /\ owner[r.to] \in User \cup {None}
      BY <1>1, <2>1, <2>3 DEF Subject, TypeOK
    <3>2. owner[r.to] # None => contact[owner[r.to]] = r.to
      BY <1>1, <2>1, <3>1 DEF MirrorAgrees
    <3>3. QED
      BY <2>1, <2>3, <3>1, <3>2, NoneAssumption
  <2>4. QED
    BY <2>2, <2>3
<1>6. passed[t] = {}
  <2>1. SUFFICES ASSUME NEW m \in passed[t] PROVE FALSE
    OBVIOUS
  <2>2. m \in Code /\ n < m /\ code[m] # None /\ code[m].deleted /\ code[n] # None
    BY <1>1, <1>2, <1>4 DEF TypeOK, SlotOK, PickedOK
  <2>3. now > r.expires
    BY <1>3, <2>2, ReplacedExpired
  <2>4. now <= r.expires /\ now \in Nat /\ r.expires \in Nat
    BY <1>1, <1>4, Rows, Numbers DEF Usable, TypeOK
  <2>5. QED
    BY <2>3, <2>4
<1>7. TypeOK'
  BY <1>1, <1>4, <1>5 DEF TypeOK
<1>8. SlotOK(t)'
  <2>1. /\ pc'[t] = "accepted" /\ number'[t] = n /\ holder'[n] = t /\ args'[t] = Subject(r)
        /\ passed'[t] = {} /\ code'[n] = r
    BY <1>1, <1>2, <1>3, <1>4, <1>6 DEF TypeOK
  <2>2. r.consumed = None /\ ~r.deleted
    BY <1>4 DEF Usable
  <2>3. AcceptedOK(t)'
    BY <1>4, <1>5, <2>1, <2>2 DEF AcceptedOK
  <2>4. SinceOK(t)' /\ IssueOK(t)' /\ PickedOK(t)'
    BY <1>1, <1>3, <1>4, <2>1, Rows DEF SlotOK, SinceOK, IssueOK, PickedOK
  <2>5. QED
    BY <2>1, <2>3, <2>4 DEF SlotOK
<1>9. NoNewIssue /\ \A s \in Tx \ {t} : SlotKept(s)
  BY <1>1, <1>4, NoneAssumption DEF TypeOK, NoNewIssue, SlotKept
<1>10. QED
  BY <1>4, <1>7, <1>8, <1>9, QuietStep

---------------------------------------------------------------------------
(* The steps that change a row *)

\* The update of one row, which keeps what it is for and its times.
LEMMA RowChange ==
  ASSUME IInv, NEW n \in Code, NEW r \in Row, r = code[n], NEW x \in Row,
         code' = [code EXCEPT ![n] = x], x.for = r.for, x.created = r.created,
         x.expires = r.expires, r.deleted => x.deleted
  PROVE  /\ code' \in [Code -> Row \cup {None}] /\ RowsFollow
         /\ code'[n] = x /\ \A m \in Code \ {n} : code'[m] = code[m]
<1>1. TypeOK
  BY IInvParts
<1>2. /\ code' \in [Code -> Row \cup {None}] /\ code'[n] = x
      /\ \A m \in Code \ {n} : code'[m] = code[m]
  BY <1>1 DEF TypeOK
<1>3. RowsFollow
  BY <1>2, Rows DEF RowsFollow
<1>4. QED
  BY <1>2, <1>3

\* What a row tells stays true while it is left alone.
LEMMA RowKeptOK ==
  ASSUME IInv, NEW n \in Code, code'[n] = code[n], uses'[n] = uses[n],
         now' \in {now, now + 1}, PeopleFollow
  PROVE  RowOK(n)'
<1>1. RowOK(n) /\ TypeOK
  BY IInvParts
<1>2. CASE code[n] = None
  BY <1>1, <1>2 DEF RowOK
<1>3. CASE code[n] # None
  <2>1. PICK r \in Row : r = code[n]
    BY <1>1, <1>3 DEF TypeOK
  <2>2. code'[n] = r /\ r # None /\ now \in Nat
    BY <1>1, <2>1, Rows, Numbers DEF TypeOK
  <2>3. r.created <= now'
    BY <1>1, <2>1, <2>2, Rows DEF RowOK
  <2>4. r.deleted => Outdated(r)'
    BY <1>1, <2>1, <2>2, Rows, Numbers DEF RowOK, Outdated
  <2>5. r.for[1] = "change" => account'[r.for[2]] = "open"
    BY <1>1, <2>1, <2>2, Rows DEF RowOK, PeopleFollow, Purpose
  <2>6. QED
    BY <1>1, <2>1, <2>2, <2>3, <2>4, <2>5 DEF RowOK, Outdated
<1>4. QED
  BY <1>2, <1>3

LEMMA WrongCodeStep ==
  ASSUME IInv, NEW t \in Tx, WrongCode(t)
  PROVE  IInv'
<1>1. TypeOK /\ SlotOK(t)
  BY IInvParts
<1>2. PICK n \in Code : n = number[t]
  BY <1>1 DEF TypeOK, WrongCode, Locks
<1>3. PICK r \in Row : r = code[n]
  BY <1>1, <1>2 DEF TypeOK, SlotOK, PickedOK, WrongCode, Locks
<1>4. PICK x \in Row : x = [r EXCEPT !.tries = r.tries + 1]
  <2>1. r.tries \in Nat /\ r.tries < MAX_ATTEMPTS
    BY <1>2, <1>3, Rows, Numbers DEF WrongCode, Usable
  <2>2. r.tries + 1 \in 0..MAX_ATTEMPTS
    BY <2>1, Numbers
  <2>3. QED
    BY <2>2, RowUpdates
<1>5. /\ code' = [code EXCEPT ![n] = x] /\ holder[n] = None
      /\ End(t) /\ UNCHANGED <<now, owner, contact, account, uses>>
  BY <1>2, <1>3, <1>4 DEF WrongCode, Locks
<1>6. /\ x.for = r.for /\ x.to = r.to /\ x.created = r.created /\ x.expires = r.expires
      /\ x.consumed = r.consumed /\ x.deleted = r.deleted
  BY <1>4 DEF Row
<1>7. /\ code' \in [Code -> Row \cup {None}] /\ RowsFollow
      /\ code'[n] = x /\ \A m \in Code \ {n} : code'[m] = code[m]
  BY <1>3, <1>5, <1>6, RowChange
<1>8. PeopleFollow
  BY <1>5 DEF PeopleFollow
<1>9. TypeOK'
  BY <1>1, <1>5, <1>7, Ending DEF TypeOK
<1>10. RowOK(n)'
  <2>1. RowOK(n) /\ r # None /\ x # None
    BY IInvParts, Rows
  <2>2. QED
    BY <1>3, <1>5, <1>6, <1>7, <2>1 DEF RowOK, Outdated
<1>11. \A m \in Code : RowOK(m)'
  BY <1>5, <1>7, <1>8, <1>10, RowKeptOK
<1>12. AbsentOK' /\ MirrorAgrees'
  BY <1>5, IInvParts DEF AbsentOK, MirrorAgrees
<1>13. UsedOnce'
  BY <1>3, <1>5, <1>6, <1>7, IInvParts, Rows DEF UsedOnce
<1>14. \A m \in Code : holder[m] \notin {None, t} => code'[m] = code[m]
  BY <1>5, <1>7
<1>15. QED
  BY <1>5, <1>7, <1>8, <1>9, <1>11, <1>12, <1>13, <1>14, Ending, StepOf

\* The clean-up takes only rows nobody holds.
LEMMA CleanUpStep ==
  ASSUME IInv, NEW n \in Code, CleanUp(n)
  PROVE  IInv'
<1>1. TypeOK
  BY IInvParts
<1>2. PICK r \in Row : r = code[n]
  BY <1>1 DEF TypeOK, CleanUp
<1>3. PICK x \in Row : x = [r EXCEPT !.deleted = TRUE]
  BY RowUpdates
<1>4. /\ code' = [code EXCEPT ![n] = x] /\ holder[n] = None /\ Outdated(r)
      /\ UNCHANGED <<now, owner, contact, account, uses, txVars>>
  BY <1>2, <1>3 DEF CleanUp
<1>5. /\ x.for = r.for /\ x.to = r.to /\ x.created = r.created /\ x.expires = r.expires
      /\ x.consumed = r.consumed /\ x.deleted
  BY <1>3 DEF Row
<1>6. /\ code' \in [Code -> Row \cup {None}] /\ RowsFollow
      /\ code'[n] = x /\ \A m \in Code \ {n} : code'[m] = code[m]
  BY <1>2, <1>4, <1>5, RowChange
<1>7. PeopleFollow /\ NoNewIssue /\ \A s \in Tx : SlotKept(s)
  BY <1>4 DEF PeopleFollow, NoNewIssue, SlotKept
<1>8. TypeOK'
  BY <1>1, <1>4, <1>6 DEF TypeOK
<1>9. RowOK(n)'
  <2>1. RowOK(n) /\ r # None /\ x # None
    BY IInvParts, Rows
  <2>2. QED
    BY <1>2, <1>4, <1>5, <1>6, <2>1 DEF RowOK, Outdated
<1>10. \A m \in Code : RowOK(m)'
  BY <1>4, <1>6, <1>7, <1>9, RowKeptOK
<1>11. AbsentOK' /\ MirrorAgrees'
  BY <1>4, IInvParts DEF AbsentOK, MirrorAgrees
<1>12. UsedOnce'
  BY <1>2, <1>4, <1>5, <1>6, IInvParts, Rows DEF UsedOnce
<1>13. \A s \in Tx : SlotOK(s)'
  <2>1. \A s \in Tx, m \in Code : holder[m] = s => code'[m] = code[m]
    BY <1>4, <1>6, NoneAssumption
  <2>2. QED
    BY <1>4, <1>6, <1>7, <2>1, SlotKeptOK
<1>14. QED
  BY <1>6, <1>7, <1>8, <1>10, <1>11, <1>12, <1>13, OrderKept, IInvParts

LEMMA TickStep ==
  ASSUME IInv, Tick
  PROVE  IInv'
<1>1. TypeOK /\ now \in Nat
  BY IInvParts, Numbers DEF TypeOK
<1>2. TypeOK'
  BY <1>1, Numbers DEF TypeOK, Tick
<1>3. RowsFollow /\ PeopleFollow /\ NoNewIssue
  BY DEF Tick, RowsFollow, PeopleFollow, NoNewIssue
<1>4. \A n \in Code : RowOK(n)'
  BY <1>3, RowKeptOK DEF Tick
<1>5. AbsentOK' /\ UsedOnce' /\ MirrorAgrees'
  BY IInvParts DEF AbsentOK, UsedOnce, MirrorAgrees, Tick
<1>6. ASSUME NEW s \in Tx PROVE SlotOK(s)'
  <2>1. SlotOK(s)
    BY IInvParts
  <2>2. SinceOK(s)'
    <3>1. since[s] \in Nat
      BY <1>1, Numbers DEF TypeOK
    <3>2. QED
      BY <1>1, <2>1, <3>1, Numbers DEF SlotOK, SinceOK, Tick
  <2>3. IssueOK(s)' /\ PickedOK(s)' /\ AcceptedOK(s)'
    BY <2>1 DEF SlotOK, IssueOK, PickedOK, AcceptedOK, MadeFor, Tick
  <2>4. QED
    BY <2>1, <2>2, <2>3 DEF SlotOK, Tick
<1>7. QED
  BY <1>2, <1>3, <1>4, <1>5, <1>6, OrderKept, IInvParts

---------------------------------------------------------------------------
(* The effects of a code *)

\* Users, identities and accounts are in order after a step.
PeopleOK ==
  /\ owner' \in [Contact -> User \cup {None}]
  /\ contact' \in [User -> Contact \cup {None}]
  /\ account' \in [User -> {"absent", "closed", "open"}]
  /\ PeopleFollow /\ AbsentOK' /\ MirrorAgrees'

LEMMA RegisterNewOK ==
  ASSUME IInv, NEW u \in User, NEW c \in Contact, RegisterNew(u, c)
  PROVE  PeopleOK
<1>1. TypeOK /\ AbsentOK /\ MirrorAgrees
  BY IInvParts
<1>2. /\ owner' = [owner EXCEPT ![c] = u] /\ contact' = [contact EXCEPT ![u] = c]
      /\ account' = [account EXCEPT ![u] = "open"] /\ contact[u] = None
      /\ owner[c] \in {u, None} /\ \A v \in User \ {u} : contact[v] # c
  BY <1>1 DEF RegisterNew, InUseByOther, AbsentOK
<1>3. c # None /\ \A v \in User : v # None
  BY NoneAssumption
<1>4. /\ owner' \in [Contact -> User \cup {None}]
      /\ contact' \in [User -> Contact \cup {None}]
      /\ account' \in [User -> {"absent", "closed", "open"}]
  BY <1>1, <1>2 DEF TypeOK
<1>5. MirrorAgrees'
  <2>1. SUFFICES ASSUME NEW v \in User, NEW d \in Contact
                 PROVE  contact'[v] = d <=> owner'[d] = v
    BY DEF MirrorAgrees
  <2>2. contact[v] = d <=> owner[d] = v
    BY <1>1 DEF MirrorAgrees
  <2>3. /\ contact'[v] = IF v = u THEN c ELSE contact[v]
        /\ owner'[d] = IF d = c THEN u ELSE owner[d]
    BY <1>1, <1>2 DEF TypeOK
  <2>4. d # None
    BY NoneAssumption
  <2>5. QED
    BY <1>2, <2>2, <2>3, <2>4
<1>6. AbsentOK' /\ PeopleFollow
  BY <1>1, <1>2, <1>3 DEF TypeOK, AbsentOK, PeopleFollow
<1>7. QED
  BY <1>4, <1>5, <1>6 DEF PeopleOK

LEMMA SetPasswordOK ==
  ASSUME IInv, NEW u \in User, NEW c \in Contact, NEW purpose,
         SetPassword(u, c, purpose), purpose = "register" => contact[u] # None
  PROVE  PeopleOK
<1>1. TypeOK /\ AbsentOK /\ MirrorAgrees
  BY IInvParts
<1>2. account' = [account EXCEPT ![u] = "open"] /\ contact' = contact /\ owner' = owner
  BY DEF SetPassword
<1>3. QED
  BY <1>1, <1>2 DEF TypeOK, AbsentOK, MirrorAgrees, PeopleFollow, PeopleOK

LEMMA ChangeContactOK ==
  ASSUME IInv, NEW u \in User, NEW c \in Contact, ChangeContact(u, c), account[u] = "open"
  PROVE  PeopleOK
<1>1. TypeOK /\ AbsentOK /\ MirrorAgrees
  BY IInvParts
<1>2. /\ contact' = [contact EXCEPT ![u] = c] /\ account' = account
      /\ owner' = [d \in Contact |-> IF d = c THEN u
                                     ELSE IF owner[d] = u THEN None ELSE owner[d]]
      /\ owner[c] \in {u, None} /\ \A v \in User \ {u} : contact[v] # c
  BY DEF ChangeContact, InUseByOther
<1>3. c # None /\ \A v \in User : v # None
  BY NoneAssumption
<1>4. /\ owner' \in [Contact -> User \cup {None}]
      /\ contact' \in [User -> Contact \cup {None}]
      /\ account' \in [User -> {"absent", "closed", "open"}]
  BY <1>1, <1>2 DEF TypeOK
<1>5. MirrorAgrees'
  <2>1. SUFFICES ASSUME NEW v \in User, NEW d \in Contact
                 PROVE  contact'[v] = d <=> owner'[d] = v
    BY DEF MirrorAgrees
  <2>2. contact[v] = d <=> owner[d] = v
    BY <1>1 DEF MirrorAgrees
  <2>3. /\ contact'[v] = IF v = u THEN c ELSE contact[v]
        /\ owner'[d] = IF d = c THEN u ELSE IF owner[d] = u THEN None ELSE owner[d]
    BY <1>1, <1>2 DEF TypeOK
  <2>4. QED
    BY <1>2, <1>3, <2>2, <2>3
<1>6. AbsentOK' /\ PeopleFollow
  BY <1>1, <1>2, <1>3 DEF TypeOK, AbsentOK, PeopleFollow
<1>7. QED
  BY <1>4, <1>5, <1>6 DEF PeopleOK

\* The row is still locked and unused, so its effect is the first.
LEMMA CommitUseStep ==
  ASSUME IInv, NEW t \in Tx, CommitUse(t)
  PROVE  IInv'
<1>1. TypeOK /\ SlotOK(t) /\ pc[t] = "accepted"
  BY IInvParts DEF CommitUse
<1>2. PICK n \in Code : n = number[t]
  BY <1>1 DEF TypeOK, SlotOK, AcceptedOK
<1>3. PICK r \in Row : r = code[n]
  BY <1>1, <1>2, NoneAssumption DEF TypeOK, SlotOK, PickedOK
<1>4. PICK u \in User \cup {None} : u = args[t]
  BY <1>1 DEF SlotOK, AcceptedOK
<1>5. /\ r.consumed = None /\ ~r.deleted /\ holder[n] = t
      /\ r.for[1] = "register" /\ u # None => contact[u] # None
      /\ r.for[1] = "change" => u = r.for[2]
  BY <1>1, <1>2, <1>3, <1>4 DEF SlotOK, AcceptedOK
<1>6. RowOK(n)
  BY IInvParts
<1>7. now \in 0..MaxTime /\ now \in Nat /\ now # None
  BY <1>1, Numbers, NoneAssumption DEF TypeOK
<1>8. PICK x \in Row : x = [r EXCEPT !.consumed = now]
  BY <1>7, RowUpdates
<1>9. /\ \/ u = None /\ \E v \in User : RegisterNew(v, r.to)
         \/ u # None /\ r.for[1] # "change" /\ SetPassword(u, r.to, r.for[1])
         \/ u # None /\ r.for[1] = "change" /\ ChangeContact(u, r.to)
      /\ code' = [code EXCEPT ![n] = x] /\ uses' = [uses EXCEPT ![n] = @ + 1]
      /\ End(t) /\ now' = now
  BY <1>2, <1>3, <1>4, <1>8 DEF CommitUse, Consume
<1>10. /\ x.for = r.for /\ x.to = r.to /\ x.created = r.created /\ x.expires = r.expires
       /\ x.consumed = now /\ x.deleted = r.deleted
  BY <1>8 DEF Row
<1>11. /\ code' \in [Code -> Row \cup {None}] /\ RowsFollow
       /\ code'[n] = x /\ \A m \in Code \ {n} : code'[m] = code[m]
  BY <1>3, <1>9, <1>10, RowChange
<1>12. /\ uses' \in [Code -> Nat] /\ uses'[n] = 1
       /\ \A m \in Code \ {n} : uses'[m] = uses[m]
  <2>1. uses[n] = 0
    BY <1>3, <1>5, IInvParts, Rows DEF UsedOnce
  <2>2. QED
    BY <1>1, <1>9, <2>1 DEF TypeOK
<1>13. PeopleOK
  <2>1. r.to \in Contact
    BY Rows
  <2>2. r.for[1] = "change" => account[r.for[2]] = "open"
    BY <1>3, <1>6, Rows DEF RowOK
  <2>3. QED
    BY <1>5, <1>9, <2>1, <2>2, RegisterNewOK, SetPasswordOK, ChangeContactOK
<1>14. TypeOK'
  BY <1>1, <1>9, <1>11, <1>12, <1>13, Ending DEF TypeOK, PeopleOK
<1>15. RowOK(n)'
  <2>1. r # None /\ x # None /\ r.for \in Purpose
    BY Rows
  <2>2. /\ r.created <= now /\ r.created + TTL <= r.expires
        /\ r.expires <= r.created + TTL + MaxWait
        /\ r.for[1] = "change" => account[r.for[2]] = "open"
    BY <1>3, <1>6, <2>1 DEF RowOK
  <2>3. r.for[1] = "change" => account'[r.for[2]] = "open"
    BY <1>13, <2>1, <2>2 DEF PeopleOK, PeopleFollow, Purpose
  <2>4. QED
    BY <1>5, <1>9, <1>10, <1>11, <2>1, <2>2, <2>3 DEF RowOK
<1>16. \A m \in Code : RowOK(m)'
  BY <1>9, <1>11, <1>12, <1>13, <1>15, RowKeptOK DEF PeopleOK
<1>17. UsedOnce'
  BY <1>7, <1>10, <1>11, <1>12, IInvParts DEF UsedOnce
<1>18. \A m \in Code : holder[m] \notin {None, t} => code'[m] = code[m]
  BY <1>5, <1>11
<1>19. QED
  BY <1>9, <1>11, <1>13, <1>14, <1>16, <1>17, <1>18, Ending, StepOf DEF PeopleOK

---------------------------------------------------------------------------
(* Making a code *)

\* The next number is above all that are taken.
LEMMA NextNumberOK ==
  ASSUME IInv
  PROVE  /\ \A n \in Code : code[n] # None => n < NextNumber
         /\ \A w \in Tx : pc[w] = "issue" => number[w] < NextNumber
<1> DEFINE S == {0} \cup {n \in Code : code[n] # None} \cup
                {number[t] : t \in {w \in Tx : pc[w] = "issue"}}
<1>1. \A w \in Tx : pc[w] = "issue" => number[w] \in Code
  BY IInvParts DEF SlotOK, IssueOK
<1>2. S \subseteq 0..MaxCodes
  BY <1>1, Numbers
<1>3. Max(S) \in S /\ \A x \in S : x <= Max(S)
  BY <1>2, Numbers, MaxIn
<1>4. \A x \in S : x < 1 + Max(S)
  BY <1>2, <1>3, Numbers
<1>5. NextNumber = 1 + Max(S)
  BY DEF NextNumber
<1>6. QED
  BY <1>4, <1>5

\* Past the cooldown of the newest row, past that of all of them.
LEMMA CooldownOver ==
  ASSUME IInv, NEW p \in Purpose, ~Cooling(p), NEW m \in MadeFor(p)
  PROVE  now >= code[m].created + COOLDOWN
<1>1. TypeOK /\ NumbersOrdered /\ RowOK(m) /\ m \in Code /\ code[m] # None
  BY IInvParts DEF MadeFor
<1>2. now \in Nat /\ code[m] \in Row /\ code[m].created \in Nat /\ code[m].expires \in Nat
  BY <1>1, Numbers, Rows DEF TypeOK
<1>3. CASE code[m].deleted
  <2>1. Outdated(code[m])
    BY <1>1, <1>3 DEF RowOK
  <2>2. CASE code[m].consumed # None /\ code[m].consumed < now - RETENTION
    BY <1>1, <1>2, <2>2, Numbers, TimeAssumption, Rows DEF RowOK
  <2>3. CASE code[m].expires < now - RETENTION
    BY <1>1, <1>2, <2>3, Numbers, TimeAssumption DEF RowOK
  <2>4. QED
    BY <2>1, <2>2, <2>3 DEF Outdated
<1>4. CASE ~code[m].deleted
  <2>1. m \in RowsFor(p) /\ RowsFor(p) \subseteq 0..MaxCodes /\ RowsFor(p) \subseteq Code
    BY <1>4, Numbers DEF RowsFor, MadeFor
  <2>2. PICK n \in RowsFor(p) : n = Max(RowsFor(p)) /\ m <= n
    BY <2>1, Numbers, MaxIn
  <2>3. n \in Code /\ code[n] # None /\ code[n] \in Row /\ code[n].created \in Nat
    BY <1>1, <2>1, <2>2, Rows DEF RowsFor, MadeFor, TypeOK
  <2>4. now >= code[n].created + COOLDOWN
    BY <1>2, <2>2, <2>3, Numbers DEF Cooling
  <2>5. code[m].created <= code[n].created
    <3>1. CASE m = n
      BY <1>2, <3>1
    <3>2. CASE m < n
      BY <1>1, <1>2, <2>3, <3>2, Rows DEF NumbersOrdered, AskedAt
    <3>3. QED
      BY <1>1, <2>2, <2>3, <3>1, <3>2
  <2>6. QED
    BY <1>2, <2>3, <2>4, <2>5, Numbers
<1>5. QED
  BY <1>3, <1>4

LEMMA BeginIssueStep ==
  ASSUME IInv, NEW t \in Tx, NEW p \in Purpose, NEW c \in Contact, BeginIssue(t, p, c)
  PROVE  IInv'
<1>1. TypeOK
  BY IInvParts
<1>2. PICK n \in Code : n = NextNumber
  BY DEF BeginIssue
<1>3. /\ MayAsk(p, c) /\ ~Cooling(p) /\ pc[t] = "idle"
      /\ pc' = [pc EXCEPT ![t] = "issue"] /\ since' = [since EXCEPT ![t] = now]
      /\ number' = [number EXCEPT ![t] = n] /\ args' = [args EXCEPT ![t] = <<p, c>>]
      /\ UNCHANGED <<now, dbVars, holder, passed>>
  BY <1>2 DEF BeginIssue, Begin
<1>4. /\ \A m \in Code : code[m] # None => m < n
      /\ \A w \in Tx : pc[w] = "issue" => number[w] < n
  BY <1>2, NextNumberOK
<1>5. /\ pc'[t] = "issue" /\ since'[t] = now /\ number'[t] = n /\ args'[t] = <<p, c>>
      /\ \A s \in Tx \ {t} : /\ pc'[s] = pc[s] /\ since'[s] = since[s]
                             /\ number'[s] = number[s] /\ args'[s] = args[s]
  BY <1>1, <1>3 DEF TypeOK
<1>6. TypeOK'
  BY <1>1, <1>3 DEF TypeOK
<1>7. SlotOK(t)'
  <2>1. SinceOK(t)'
    BY <1>1, <1>3, <1>5, Numbers DEF SinceOK, TypeOK
  <2>2. code'[n] = None /\ \A w \in Tx \ {t} : pc'[w] = "issue" => number'[w] # n
    BY <1>3, <1>4, <1>5
  <2>3. p[1] = "change" => account'[p[2]] = "open"
    BY <1>3 DEF MayAsk
  <2>4. \A m \in MadeFor(p)' : now >= code'[m].created + COOLDOWN
    BY <1>3, CooldownOver DEF MadeFor
  <2>5. IssueOK(t)'
    BY <1>3, <1>5, <2>2, <2>3, <2>4 DEF IssueOK, MadeFor
  <2>6. QED
    BY <1>5, <2>1, <2>5 DEF SlotOK, PickedOK, AcceptedOK
<1>8. ASSUME NEW s \in Tx \ {t} PROVE SlotOK(s)'
  <2>1. SlotOK(s)
    BY IInvParts
  <2>2. IssueOK(s)'
    <3>1. \A w \in Tx \ {s} : pc[s] = "issue" /\ pc'[w] = "issue" => number'[w] # number[s]
      BY <1>4, <1>5, <2>1 DEF SlotOK, IssueOK
    <3>2. QED
      BY <1>3, <1>5, <2>1, <3>1 DEF SlotOK, IssueOK, MadeFor
  <2>3. SinceOK(s)' /\ PickedOK(s)' /\ AcceptedOK(s)' /\ (pc'[s] = "accepted" => passed'[s] = {})
    BY <1>3, <1>5, <2>1 DEF SlotOK, SinceOK, PickedOK, AcceptedOK
  <2>4. QED
    BY <2>2, <2>3 DEF SlotOK
<1>9. NumbersOrdered'
  <2>1. SUFFICES ASSUME NEW k \in Code, NEW m \in Code, NEW i \in 0..MaxTime, NEW j \in 0..MaxTime,
                        k < m, AskedAt(k, i)', AskedAt(m, j)'
                 PROVE  i <= j
    BY DEF NumbersOrdered
  <2>2. ASSUME NEW q \in Code, NEW h \in 0..MaxTime, AskedAt(q, h)'
        PROVE  (AskedAt(q, h) /\ q < n) \/ (q = n /\ h = now)
    BY <1>3, <1>4, <1>5, <2>2 DEF AskedAt
  <2>3. AskedAt(k, i) => i <= now
    <3>1. \A s \in Tx : SlotOK(s)
      BY IInvParts
    <3>2. \A q \in Code : RowOK(q)
      BY IInvParts
    <3>3. QED
      BY <3>1, <3>2 DEF AskedAt, RowOK, SlotOK, SinceOK
  <2>4. CASE AskedAt(k, i) /\ AskedAt(m, j)
    BY <2>1, <2>4, IInvParts DEF NumbersOrdered
  <2>5. QED
    BY <2>1, <2>2, <2>3, <2>4
<1>10. (\A m \in Code : RowOK(m)') /\ AbsentOK' /\ UsedOnce' /\ MirrorAgrees'
  BY <1>3, TablesKeptOK
<1>11. CooldownKept'
  BY <1>3, IInvParts DEF CooldownKept
<1>12. QED
  BY <1>6, <1>7, <1>8, <1>9, <1>10, <1>11, IInvParts

\* The row that becomes visible keeps the cooldown to those that could be
\* seen when it was asked for; for the others it is in the second clause.
LEMMA CommitIssueStep ==
  ASSUME IInv, NEW t \in Tx, CommitIssue(t)
  PROVE  IInv'
<1>1. TypeOK /\ SlotOK(t) /\ pc[t] = "issue"
  BY IInvParts DEF CommitIssue
<1>2. PICK n \in Code : n = number[t]
  BY <1>1 DEF SlotOK, IssueOK
<1>3. PICK p \in Purpose, c \in Contact : args[t] = <<p, c>>
  BY <1>1 DEF SlotOK, IssueOK
<1>4. PICK i \in 0..MaxTime : i = since[t]
  BY <1>1 DEF TypeOK
<1> DEFINE x == [for |-> p, to |-> c, created |-> i, expires |-> now + TTL,
                 tries |-> 0, consumed |-> None, deleted |-> FALSE]
<1>5. now \in Nat /\ i \in Nat /\ i <= now /\ now <= i + MaxWait /\ now + TTL \in Nat
  BY <1>1, <1>4, Numbers DEF TypeOK, SlotOK, SinceOK
<1>6. x \in Row
  BY <1>5, Numbers DEF Row
<1>7. /\ x.for = p /\ x.created = i /\ x.expires = now + TTL /\ x.consumed = None
      /\ ~x.deleted /\ x # None
  BY <1>6, Rows
<1>8. /\ code' = [code EXCEPT ![n] = x] /\ End(t)
      /\ UNCHANGED <<now, owner, contact, account, uses>>
  BY <1>2, <1>3, <1>4 DEF CommitIssue
<1> HIDE DEF x
<1>9. /\ code[n] = None
      /\ \A w \in Tx \ {t} : pc[w] = "issue" => number[w] # n
      /\ p[1] = "change" => account[p[2]] = "open"
      /\ \A m \in MadeFor(p) : m < n =>
           i >= code[m].created + COOLDOWN \/ i <= code[m].expires - TTL
  BY <1>1, <1>2, <1>3, <1>4 DEF SlotOK, IssueOK
<1>10. code' \in [Code -> Row \cup {None}] /\ code'[n] = x
       /\ \A m \in Code \ {n} : code'[m] = code[m]
  BY <1>1, <1>6, <1>8 DEF TypeOK
<1>11. TypeOK'
  BY <1>1, <1>8, <1>10, Ending DEF TypeOK
<1>12. \A m \in Code : RowOK(m)'
  <2>1. RowOK(n)'
    BY <1>5, <1>7, <1>8, <1>9, <1>10, Numbers DEF RowOK
  <2>2. PeopleFollow
    BY <1>8 DEF PeopleFollow
  <2>3. QED
    BY <1>8, <1>10, <2>1, <2>2, RowKeptOK
<1>13. NumbersOrdered'
  <2>1. ASSUME NEW q \in Code, NEW h \in 0..MaxTime, AskedAt(q, h)'
        PROVE  AskedAt(q, h)
    <3>1. NoNewIssue
      BY <1>8, Ending
    <3>2. CASE q = n /\ h = i
      BY <1>1, <1>2, <1>4, <3>2 DEF AskedAt
    <3>3. CASE q = n /\ h # i
      <4>1. PICK w \in Tx : pc'[w] = "issue" /\ number'[w] = n
        BY <1>7, <1>10, <2>1, <3>3 DEF AskedAt
      <4>2. w # t
        BY <1>8, <4>1, Ending
      <4>3. QED
        BY <1>9, <3>1, <4>1, <4>2 DEF NoNewIssue
    <3>4. CASE q # n
      BY <1>10, <2>1, <3>1, <3>4 DEF AskedAt, NoNewIssue
    <3>5. QED
      BY <3>2, <3>3, <3>4
  <2>2. QED
    BY <2>1, IInvParts DEF NumbersOrdered
<1>14. CooldownKept'
  <2>1. SUFFICES ASSUME NEW k \in Code, NEW m \in Code, k < m, code'[k] # None, code'[m] # None,
                        code'[k].for = code'[m].for
                 PROVE  \/ code'[m].created >= code'[k].created + COOLDOWN
                        \/ code'[m].created <= code'[k].expires - TTL
    BY DEF CooldownKept
  <2>2. CASE k # n /\ m # n
    BY <1>10, <2>1, <2>2, IInvParts DEF CooldownKept
  <2>3. CASE m = n
    <3>1. k # n /\ k \in MadeFor(p) /\ code'[k] = code[k]
      BY <1>7, <1>10, <2>1, <2>3 DEF MadeFor
    <3>2. QED
      BY <1>7, <1>9, <1>10, <2>1, <2>3, <3>1
  <2>4. CASE k = n /\ m # n
    <3>1. code'[m] = code[m] /\ RowOK(m) /\ code[m] \in Row
      BY <1>1, <1>10, <2>1, <2>4, IInvParts DEF TypeOK
    <3>2. code[m].created <= now /\ code[m].created \in Nat
      BY <2>1, <3>1, Rows DEF RowOK
    <3>3. QED
      BY <1>5, <1>7, <1>10, <2>4, <3>1, <3>2, Numbers
  <2>5. QED
    BY <2>2, <2>3, <2>4
<1>15. UsedOnce'
  <2>1. uses[n] = 0
    BY <1>9, IInvParts DEF RowOK
  <2>2. QED
    BY <1>7, <1>8, <1>10, <2>1, IInvParts DEF UsedOnce
<1>16. AbsentOK' /\ MirrorAgrees'
  BY <1>8, IInvParts DEF AbsentOK, MirrorAgrees
<1>17. ASSUME NEW s \in Tx \ {t} PROVE SlotOK(s)'
  <2>1. SlotKept(s) /\ NoNewIssue
    BY <1>8, Ending
  <2>2. SlotOK(s)
    BY IInvParts
  <2>3. SinceOK(s)' /\ (pc'[s] = "accepted" => passed'[s] = {})
    BY <1>8, <2>1, <2>2 DEF SlotOK, SinceOK, SlotKept
  <2>4. IssueOK(s)'
    <3>1. SUFFICES ASSUME pc[s] = "issue" PROVE IssueOK(s)'
      BY <2>1 DEF IssueOK, SlotKept
    <3>2. PICK k \in Code : k = number[s]
      BY <2>2, <3>1 DEF SlotOK, IssueOK
    <3>3. PICK q \in Purpose, d \in Contact : args[s] = <<q, d>>
      BY <2>2, <3>1 DEF SlotOK, IssueOK
    <3>4. PICK j \in 0..MaxTime : j = since[s]
      BY <1>1 DEF TypeOK
    <3>5. number'[s] = k /\ args'[s] = <<q, d>> /\ since'[s] = j
      BY <2>1, <3>2, <3>3, <3>4 DEF SlotKept
    <3>6. /\ code[k] = None
          /\ \A w \in Tx \ {s} : pc[w] = "issue" => number[w] # k
          /\ q[1] = "change" => account[q[2]] = "open"
          /\ \A m \in MadeFor(q) : m < k =>
               j >= code[m].created + COOLDOWN \/ j <= code[m].expires - TTL
      BY <2>2, <3>1, <3>2, <3>3, <3>4 DEF SlotOK, IssueOK
    <3>7. k # n
      BY <1>9, <3>1, <3>2
    <3>8. j <= now /\ j \in Nat
      BY <2>2, <3>1, <3>4, Numbers DEF SlotOK, SinceOK
    <3>9. ASSUME NEW m \in Code, code'[m] # None, code'[m].for = q, m < k
          PROVE  j >= code'[m].created + COOLDOWN \/ j <= code'[m].expires - TTL
      <4>1. CASE m = n
        BY <1>5, <1>7, <1>10, <3>8, <4>1, Numbers
      <4>2. CASE m # n
        BY <1>10, <3>6, <3>9, <4>2 DEF MadeFor
      <4>3. QED
        BY <4>1, <4>2
    <3>10. code'[k] = None /\ \A w \in Tx \ {s} : pc'[w] = "issue" => number'[w] # k
      BY <1>10, <2>1, <3>6, <3>7 DEF NoNewIssue
    <3>11. q[1] = "change" => account'[q[2]] = "open"
      BY <1>8, <3>6
    <3>12. QED
      BY <3>5, <3>9, <3>10, <3>11 DEF IssueOK, MadeFor
  <2>5. PickedOK(s)'
    BY <1>1, <1>7, <1>9, <1>10, <2>1, <2>2 DEF TypeOK, SlotOK, PickedOK, SlotKept
  <2>6. AcceptedOK(s)'
    <3>1. SUFFICES ASSUME pc[s] = "accepted" PROVE AcceptedOK(s)'
      BY <2>1 DEF AcceptedOK, SlotKept
    <3>2. PICK k \in Code : k = number[s] /\ k # n
      BY <1>1, <1>9, <2>2, <3>1 DEF TypeOK, SlotOK, PickedOK, AcceptedOK
    <3>3. code'[k] = code[k] /\ number'[s] = k /\ holder'[k] = s /\ args'[s] = args[s]
      BY <1>10, <2>1, <2>2, <3>1, <3>2 DEF SlotOK, AcceptedOK, SlotKept
    <3>4. QED
      BY <1>8, <2>2, <3>1, <3>2, <3>3 DEF SlotOK, AcceptedOK
  <2>7. QED
    BY <2>3, <2>4, <2>5, <2>6 DEF SlotOK
<1>18. SlotOK(t)'
  BY <1>8, Ending
<1>19. QED
  BY <1>11, <1>12, <1>13, <1>14, <1>15, <1>16, <1>17, <1>18, IInvParts

---------------------------------------------------------------------------
(* The theorems *)

LEMMA NextIInv == IInv /\ [Next]_vars => IInv'
<1> SUFFICES ASSUME IInv, [Next]_vars PROVE IInv'
  OBVIOUS
<1>1. ASSUME NEW t \in Tx, NEW p \in Purpose, NEW c \in Contact, BeginIssue(t, p, c)
      PROVE  IInv'
  BY <1>1, BeginIssueStep
<1>2. ASSUME NEW t \in Tx, NEW p \in Purpose, BeginUse(t, p)
      PROVE  IInv'
  BY <1>2, BeginUseStep
<1>3. ASSUME NEW t \in Tx,
             RefuseCode(t) \/ ConflictingCode(t) \/ UniqueViolation(t) \/ Fail(t)
      PROVE  IInv'
  BY <1>3, QuietEnd DEF RefuseCode, ConflictingCode, UniqueViolation, Fail
<1>4. ASSUME NEW t \in Tx,
             CommitIssue(t) \/ WrongCode(t) \/ AcceptCode(t) \/ CommitUse(t)
      PROVE  IInv'
  BY <1>4, CommitIssueStep, WrongCodeStep, AcceptCodeStep, CommitUseStep
<1>5. ASSUME NEW n \in Code, CleanUp(n)
      PROVE  IInv'
  BY <1>5, CleanUpStep
<1>6. CASE Tick
  BY <1>6, TickStep
<1>7. CASE UNCHANGED vars
  <2>1. TypeOK' /\ UNCHANGED <<now, dbVars>>
    BY <1>7, IInvParts DEF TypeOK, vars
  <2>2. NumbersOrdered' /\ CooldownKept'
    BY <1>7, OrderKept, TablesKeptOK DEF NoNewIssue, vars
  <2>3. \A s \in Tx : SlotOK(s)'
    BY <1>7, IInvParts DEF SlotOK, SinceOK, IssueOK, PickedOK, AcceptedOK, MadeFor, vars
  <2>4. QED
    BY <2>1, <2>2, <2>3, TablesKeptOK, IInvParts
<1>8. QED
  BY <1>1, <1>2, <1>3, <1>4, <1>5, <1>6, <1>7 DEF Next

\* The inductive invariant holds whatever requests, the clean-up, the clock
\* and failures do.
THEOREM Invariance == Spec => []IInv
  BY InitIInv, NextIInv, PTL DEF Spec

\* A code takes effect at most once, however many requests present it at once,
\* and is marked consumed exactly when it has.
THEOREM Once == Spec => []UsedOnce
<1>1. IInv => UsedOnce
  BY DEF IInv
<1>2. QED
  BY <1>1, Invariance, PTL

\* A code that a newer one had replaced is not accepted, even if the clean-up
\* has deleted the newer one.
THEOREM Replaced == Spec => []ReplacedUnused
<1>1. IInv => ReplacedUnused
  BY DEF IInv
<1>2. QED
  BY <1>1, Invariance, PTL

\* auth_identities and the contact in users agree, and nobody shares one,
\* whatever registrations, resets and changes race.
THEOREM Mirror == Spec => []MirrorAgrees
<1>1. IInv => MirrorAgrees
  BY DEF IInv
<1>2. QED
  BY <1>1, Invariance, PTL

\* Codes for the same thing are a cooldown apart, unless the second was asked
\* for before the first could be seen.
THEOREM Cooldown == Spec => []CooldownKept
<1>1. IInv => CooldownKept
  BY DEF IInv
<1>2. QED
  BY <1>1, Invariance, PTL
=============================================================================
