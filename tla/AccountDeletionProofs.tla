----------------------- MODULE AccountDeletionProofs -----------------------
(***************************************************************************)
(* Proofs about AccountDeletion: IInv is inductive, so cancellation and    *)
(* execution exclude each other, the status of a user follows his requests *)
(* and an anonymized account stays so, for any number of users, requests   *)
(* and concurrent transactions.                                            *)
(***************************************************************************)
EXTENDS AccountDeletion, TLAPS

USE DEF UserStatus, PC, Slot, userVars, rowVars

\* What IInv says besides the types: of the slots, of the rows and users.
SlotsOK ==
  /\ \A t \in Tx : SlotOK(t) /\ RequestOK(t)
  /\ \A t \in Slot : HoldsOpen(t)
  /\ JobOK

DataOK ==
  /\ \A r \in Row : RowOK(r)
  /\ \A u \in User : OneOpen(u)
  /\ ExecutedNeverCancelled
  /\ StatusTellsRequests

\* Together they are the invariant, in a state and in its successor.
LEMMA IInvParts ==
  /\ TypeOK /\ SlotsOK /\ DataOK => IInv
  /\ TypeOK' /\ SlotsOK' /\ DataOK' => IInv'
  BY DEF IInv, SlotsOK, DataOK

\* Initially nobody has asked for deletion and the invariant holds.
LEMMA InitIInv == Init => IInv
<1> SUFFICES ASSUME Init PROVE IInv
  OBVIOUS
<1> USE DEF Init
<1>1. TypeOK
  BY DEF TypeOK
<1>2. SlotsOK
  BY DEF SlotsOK, SlotOK, RequestOK, HoldsOpen, JobOK
<1>3. DataOK
  BY DEF DataOK, RowOK, OneOpen, ExecutedNeverCancelled, StatusTellsRequests, Open, IsOpen
<1>4. QED
  BY <1>1, <1>2, <1>3, IInvParts

---------------------------------------------------------------------------
(* What a step leaves alone *)

\* A slot stays as it is, and what it relies on of the rows: those it got
\* are still its own and open, a row is never given to another user, never
\* un-cancelled and never un-due, and no request is forgotten.
SlotKept(t) ==
  /\ pc'[t] = pc[t] /\ who'[t] = who[t] /\ todo'[t] = todo[t]
  /\ got'[t] = got[t] /\ born'[t] = born[t]
  /\ \A r \in Row : holder[r] = t =>
       /\ holder'[r] = t
       /\ cancelled'[r] = cancelled[r] /\ executed'[r] = executed[r]

RowsGrow ==
  /\ \A r \in Row : owner[r] # None => owner'[r] = owner[r]
  /\ \A r \in Row : cancelled[r] => cancelled'[r]
  /\ \A r \in Row : due[r] => due'[r]
  /\ \A u \in User : doubled[u] => doubled'[u]

\* Such a slot keeps its invariant.
LEMMA SlotKeptOK ==
  ASSUME IInv, NEW t \in Tx, SlotKept(t), RowsGrow
  PROVE  SlotOK(t)' /\ RequestOK(t)' /\ HoldsOpen(t)'
<1>1. TypeOK /\ SlotOK(t) /\ RequestOK(t) /\ HoldsOpen(t)
  BY DEF IInv
<1>2. \A r \in todo[t] \cup got[t] : r \in Row /\ owner[r] \in User
  <2>1. pc[t] # "idle" \/ todo[t] \cup got[t] = {}
    BY <1>1 DEF SlotOK
  <2>2. QED
    BY <1>1, <2>1 DEF SlotOK, TypeOK
<1>3. SlotOK(t)'
  <2>1. \A r \in todo[t] \cup got[t] : owner'[r] = who[t]
    BY <1>1, <1>2, JobAssumption DEF SlotOK, RowsGrow
  <2>2. born[t] \subseteq Existing'
    BY <1>1 DEF SlotOK, RowsGrow, Existing
  <2>3. QED
    BY <1>1, <2>1, <2>2 DEF SlotOK, SlotKept
<1>4. RequestOK(t)'
  <2>1. SUFFICES ASSUME pc[t] \in {"request", "requestFind"}, ~doubled'[who[t]],
                        NEW r \in born[t], owner'[r] = who[t]
                 PROVE  cancelled'[r]
    BY DEF RequestOK, SlotKept
  <2>2. who[t] \in User /\ r \in Row /\ owner[r] # None
    BY <1>1, <2>1 DEF SlotOK, Existing
  <2>3. QED
    BY <1>1, <2>1, <2>2 DEF RequestOK, RowsGrow
<1>5. HoldsOpen(t)'
  <2>1. \A r \in got[t] : r \in Row /\ holder[r] = t /\ IsOpen(r)
    BY <1>1 DEF HoldsOpen, TypeOK
  <2>2. QED
    BY <2>1 DEF HoldsOpen, SlotKept, RowsGrow, IsOpen
<1>6. QED
  BY <1>3, <1>4, <1>5

\* So does the job.
LEMMA JobKeptOK ==
  ASSUME IInv, SlotKept(Job), RowsGrow
  PROVE  HoldsOpen(Job)' /\ JobOK'
<1>1. TypeOK /\ HoldsOpen(Job) /\ JobOK
  BY DEF IInv
<1>2. JobOK'
  BY <1>1 DEF JobOK, SlotKept, RowsGrow, TypeOK
<1>3. HoldsOpen(Job)'
  <2>1. \A r \in got[Job] : r \in Row /\ holder[r] = Job /\ IsOpen(r)
    BY <1>1 DEF HoldsOpen, TypeOK
  <2>2. QED
    BY <2>1 DEF HoldsOpen, SlotKept, RowsGrow, IsOpen
<1>4. QED
  BY <1>2, <1>3

\* The end of a transaction frees its slot and its rows, and nobody else's.
LEMMA Ending ==
  ASSUME IInv, NEW t \in Slot, End(t)
  PROVE  /\ holder' \in [Row -> Slot \cup {None}]
         /\ pc' \in [Slot -> PC]
         /\ who' \in [Slot -> User \cup {None}]
         /\ todo' \in [Slot -> SUBSET Row]
         /\ got' \in [Slot -> SUBSET Row]
         /\ born' \in [Slot -> SUBSET Row]
         /\ pc'[t] = "idle" /\ todo'[t] = {} /\ got'[t] = {} /\ born'[t] = {}
         /\ \A s \in Slot \ {t} :
              /\ pc'[s] = pc[s] /\ who'[s] = who[s] /\ todo'[s] = todo[s]
              /\ got'[s] = got[s] /\ born'[s] = born[s]
              /\ \A r \in Row : holder[r] = s => holder'[r] = s
<1>1. TypeOK
  BY DEF IInv
<1>2. /\ pc' \in [Slot -> PC] /\ who' \in [Slot -> User \cup {None}]
      /\ todo' \in [Slot -> SUBSET Row]
      /\ got' \in [Slot -> SUBSET Row]
      /\ born' \in [Slot -> SUBSET Row]
  BY <1>1 DEF TypeOK, End
<1>3. holder' \in [Row -> Slot \cup {None}]
  BY <1>1 DEF TypeOK, End
<1>4. pc'[t] = "idle" /\ todo'[t] = {} /\ got'[t] = {} /\ born'[t] = {}
  BY <1>1 DEF TypeOK, End
<1>5. ASSUME NEW s \in Slot \ {t}
      PROVE  /\ pc'[s] = pc[s] /\ who'[s] = who[s] /\ todo'[s] = todo[s]
             /\ got'[s] = got[s] /\ born'[s] = born[s]
             /\ \A r \in Row : holder[r] = s => holder'[r] = s
  BY <1>1 DEF TypeOK, End
<1>6. QED
  BY <1>2, <1>3, <1>4, <1>5

\* When t ends, the slots are in order if the rows it cancelled or executed
\* were not held by others.
LEMMA EndingSlots ==
  ASSUME IInv, NEW t \in Slot, End(t), RowsGrow,
         \A s \in Slot \ {t} : \A r \in Row : holder[r] = s =>
           cancelled'[r] = cancelled[r] /\ executed'[r] = executed[r]
  PROVE  SlotsOK'
<1>1. \A s \in Slot \ {t} : SlotKept(s)
  BY Ending DEF SlotKept
<1>2. HoldsOpen(t)'
  BY Ending DEF HoldsOpen
<1>3. ASSUME NEW s \in Tx PROVE SlotOK(s)' /\ RequestOK(s)' /\ HoldsOpen(s)'
  <2>1. CASE s = t
    BY <1>2, <2>1, Ending DEF SlotOK, RequestOK
  <2>2. CASE s # t
    BY <1>1, <2>2, SlotKeptOK
  <2>3. QED
    BY <2>1, <2>2
<1>4. HoldsOpen(Job)' /\ JobOK'
  <2>1. CASE t = Job
    BY <1>2, <2>1, Ending DEF JobOK
  <2>2. CASE t # Job
    BY <1>1, <2>2, JobKeptOK
  <2>3. QED
    BY <2>1, <2>2
<1>5. QED
  BY <1>3, <1>4 DEF SlotsOK

\* The requests and the status of a user stay as they are.
UserKept(u) ==
  /\ ustatus'[u] = ustatus[u]
  /\ doubled'[u] = doubled[u]
  /\ \A r \in Row : owner[r] = u \/ owner'[r] = u =>
       owner'[r] = owner[r] /\ cancelled'[r] = cancelled[r] /\ executed'[r] = executed[r]

\* What StatusTellsRequests says of one user.
StatusOK(u) ==
  ~doubled[u] =>
    /\ ustatus[u] = "pending_deletion" <=> Open(u) # {}
    /\ ustatus[u] = "deleted" <=> \E r \in Row : owner[r] = u /\ executed[r]

\* Such a user keeps his invariant.
LEMMA UserKeptOK ==
  ASSUME IInv, NEW u \in User, UserKept(u)
  PROVE  OneOpen(u)' /\ StatusOK(u)'
<1>1. OneOpen(u) /\ StatusOK(u)
  BY DEF IInv, StatusTellsRequests, StatusOK
<1>2. Open(u)' = Open(u)
  BY JobAssumption DEF UserKept, Open, IsOpen
<1>3. (\E r \in Row : owner'[r] = u /\ executed'[r]) <=> \E r \in Row : owner[r] = u /\ executed[r]
  BY DEF UserKept
<1>4. QED
  BY <1>1, <1>2, <1>3 DEF UserKept, OneOpen, StatusOK

\* Where no request row changes, the rows, and the users whose status is
\* kept, stay in order; a transaction that begins sees every due row.
LEMMA RowsKeptOK ==
  ASSUME IInv, UNCHANGED <<owner, cancelled, executed, due>>,
         \A t \in Tx : pc'[t] # "idle" =>
           born'[t] = Existing \/ (pc[t] # "idle" /\ born'[t] = born[t])
  PROVE  (\A r \in Row : RowOK(r)') /\ ExecutedNeverCancelled'
<1>1. ASSUME NEW r \in Row PROVE RowOK(r)'
  <2>1. RowOK(r)
    BY DEF IInv
  <2>2. due[r] => r \in Existing
    BY <2>1 DEF RowOK, Existing
  <2>3. QED
    BY <2>1, <2>2 DEF RowOK
<1>2. ExecutedNeverCancelled'
  BY DEF IInv, ExecutedNeverCancelled
<1>3. QED
  BY <1>1, <1>2

LEMMA DataKeptOK ==
  ASSUME IInv, UNCHANGED <<ustatus, owner, cancelled, executed, due, doubled>>,
         \A t \in Tx : pc'[t] # "idle" =>
           born'[t] = Existing \/ (pc[t] # "idle" /\ born'[t] = born[t])
  PROVE  DataOK'
<1>1. \A u \in User : UserKept(u)
  BY DEF UserKept
<1>2. QED
  BY <1>1, UserKeptOK, RowsKeptOK DEF DataOK, StatusTellsRequests, StatusOK

---------------------------------------------------------------------------
(* Every step preserves the invariant *)

\* Steps that end a transaction and leave requests and status alone.
LEMMA QuietEnd ==
  ASSUME IInv, NEW t \in Slot, End(t), UNCHANGED <<ustatus, rowVars>>,
         token' \in [User -> BOOLEAN], session' \in [User -> BOOLEAN]
  PROVE  IInv'
<1>1. TypeOK'
  BY Ending DEF IInv, TypeOK
<1>2. SlotsOK'
  BY EndingSlots DEF RowsGrow
<1>3. DataOK'
  <2>1. \A s \in Tx : pc'[s] # "idle" => pc[s] # "idle" /\ born'[s] = born[s]
    BY Ending
  <2>2. QED
    BY <2>1, DataKeptOK
<1>4. QED
  BY <1>1, <1>2, <1>3, IInvParts

\* A new transaction of a user; a deletion request is made by an active one.
LEMMA StartStep ==
  ASSUME IInv, NEW t \in Tx, NEW u \in User, NEW l \in {"request", "cancel", "login"},
         Start(t, u, l), l = "request" => ustatus[u] = "active",
         UNCHANGED <<userVars, rowVars, holder, todo, got>>
  PROVE  IInv'
<1> USE DEF Start
<1>1. TypeOK
  BY DEF IInv
<1>2. TypeOK'
  <2>1. /\ pc' \in [Slot -> PC] /\ who' \in [Slot -> User \cup {None}]
        /\ born' \in [Slot -> SUBSET Row]
    BY <1>1 DEF TypeOK, Existing
  <2>2. QED
    BY <1>1, <2>1 DEF TypeOK
<1>3. /\ pc[t] = "idle" /\ pc'[t] = l /\ who'[t] = u /\ born'[t] = Existing
      /\ \A s \in Slot \ {t} : pc'[s] = pc[s] /\ who'[s] = who[s] /\ born'[s] = born[s]
  BY <1>1 DEF TypeOK
<1>4. SlotOK(t)'
  <2>1. todo[t] = {} /\ got[t] = {}
    BY <1>3 DEF IInv, SlotOK
  <2>2. QED
    BY <1>3, <2>1 DEF SlotOK, Existing
<1>5. RequestOK(t)'
  <2>1. SUFFICES ASSUME l = "request", ~doubled[u], NEW r \in Existing, owner[r] = u
                 PROVE  cancelled[r]
    BY <1>3 DEF RequestOK
  <2>2. Open(u) = {} /\ ~executed[r] /\ r \in Row
    BY <2>1 DEF IInv, StatusTellsRequests, Existing
  <2>3. QED
    BY <2>1, <2>2 DEF Open, IsOpen, Existing
<1>6. SlotsOK'
  <2>1. RowsGrow
    BY DEF RowsGrow
  <2>2. HoldsOpen(t)'
    BY DEF IInv, HoldsOpen, IsOpen
  <2>3. \A s \in Slot \ {t} : SlotKept(s)
    BY <1>3 DEF SlotKept
  <2>4. Job # t
    BY JobAssumption
  <2>5. QED
    BY <1>4, <1>5, <2>1, <2>2, <2>3, <2>4, SlotKeptOK, JobKeptOK DEF SlotsOK
<1>7. DataOK'
  BY <1>3, DataKeptOK
<1>8. QED
  BY <1>2, <1>6, <1>7, IInvParts

\* Taking the snapshot of a SELECT ... FOR UPDATE.
LEMMA SelectStep ==
  ASSUME IInv, NEW t \in Tx, NEW to \in {"requestFind", "cancelFind"},
         Select(t, IF to = "requestFind" THEN "request" ELSE "cancel", to, Open(who[t]))
  PROVE  IInv'
<1> USE DEF Select
<1>1. TypeOK
  BY DEF IInv
<1>2. TypeOK'
  <2>1. pc' \in [Slot -> PC] /\ todo' \in [Slot -> SUBSET Row]
    BY <1>1 DEF TypeOK, Open
  <2>2. QED
    BY <1>1, <2>1 DEF TypeOK
<1>3. /\ pc[t] = IF to = "requestFind" THEN "request" ELSE "cancel"
      /\ pc'[t] = to /\ todo'[t] = Open(who[t])
      /\ \A s \in Slot \ {t} : pc'[s] = pc[s] /\ todo'[s] = todo[s]
  BY <1>1 DEF TypeOK
<1>4. SlotOK(t)'
  BY <1>3 DEF IInv, SlotOK, Open, Existing
<1>5. RequestOK(t)'
  BY <1>3 DEF IInv, RequestOK
<1>6. SlotsOK'
  <2>1. RowsGrow
    BY DEF RowsGrow
  <2>2. HoldsOpen(t)'
    BY DEF IInv, HoldsOpen, IsOpen
  <2>3. \A s \in Slot \ {t} : SlotKept(s)
    BY <1>3 DEF SlotKept
  <2>4. Job # t
    BY JobAssumption
  <2>5. QED
    BY <1>4, <1>5, <2>1, <2>2, <2>3, <2>4, SlotKeptOK, JobKeptOK DEF SlotsOK
<1>7. DataOK'
  BY <1>3, DataKeptOK
<1>8. QED
  BY <1>2, <1>6, <1>7, IInvParts

\* Visiting a row: it is locked if it is still open, and no other slot had it.
LEMMA VisitStep ==
  ASSUME IInv, NEW t \in Slot, NEW at, NEW one \in BOOLEAN, Visit(t, at, one)
  PROVE  IInv'
<1>1. TypeOK
  BY DEF IInv
<1>2. PICK r \in todo[t] :
        /\ holder[r] \in {None, t}
        /\ IF IsOpen(r)
             THEN /\ holder' = [holder EXCEPT ![r] = t]
                  /\ got' = [got EXCEPT ![t] = @ \cup {r}]
                  /\ todo' = [todo EXCEPT ![t] = IF one THEN {} ELSE @ \ {r}]
             ELSE /\ todo' = [todo EXCEPT ![t] = @ \ {r}]
                  /\ UNCHANGED <<holder, got>>
        /\ UNCHANGED <<userVars, rowVars, pc, who, born>>
  BY DEF Visit
<1>3. r \in Row
  BY <1>1 DEF TypeOK
<1>4. TypeOK'
  <2>1. /\ holder' \in [Row -> Slot \cup {None}]
        /\ got' \in [Slot -> SUBSET Row]
        /\ todo' \in [Slot -> SUBSET Row]
    BY <1>1, <1>2, <1>3 DEF TypeOK
  <2>2. QED
    BY <1>1, <1>2, <2>1 DEF TypeOK
<1>5. /\ todo'[t] \subseteq todo[t] /\ got'[t] \subseteq got[t] \cup {r}
      /\ got'[t] \cup todo'[t] \subseteq got[t] \cup todo[t]
      /\ todo[t] # {}
  BY <1>1, <1>2 DEF TypeOK
<1>6. HoldsOpen(t)'
  BY <1>1, <1>2, <1>3 DEF IInv, HoldsOpen, IsOpen, TypeOK
<1>7. \A s \in Slot \ {t} : SlotKept(s)
  <2>1. \A s \in Slot \ {t} : got'[s] = got[s] /\ todo'[s] = todo[s]
    BY <1>1, <1>2 DEF TypeOK
  <2>2. \A s \in Slot \ {t} : \A x \in Row : holder[x] = s => holder'[x] = s
    BY <1>1, <1>2, JobAssumption DEF TypeOK
  <2>3. QED
    BY <1>2, <2>1, <2>2 DEF SlotKept
<1>8. SlotsOK'
  <2>1. RowsGrow
    BY <1>2 DEF RowsGrow
  <2>2. ASSUME NEW s \in Tx PROVE SlotOK(s)' /\ RequestOK(s)' /\ HoldsOpen(s)'
    <3>1. CASE s = t
      <4>1. SlotOK(s)'
        BY <1>2, <1>5, <3>1 DEF IInv, SlotOK, Existing
      <4>2. RequestOK(s)'
        BY <1>2 DEF IInv, RequestOK
      <4>3. QED
        BY <1>6, <3>1, <4>1, <4>2
    <3>2. CASE s # t
      BY <1>7, <2>1, <3>2, SlotKeptOK
    <3>3. QED
      BY <3>1, <3>2
  <2>3. HoldsOpen(Job)' /\ JobOK'
    <3>1. CASE t = Job
      BY <1>2, <1>5, <1>6, <3>1 DEF IInv, JobOK
    <3>2. CASE t # Job
      BY <1>7, <2>1, <3>2, JobKeptOK
    <3>3. QED
      BY <3>1, <3>2
  <2>4. QED
    BY <2>2, <2>3 DEF SlotsOK
<1>9. DataOK'
  BY <1>2, DataKeptOK
<1>10. QED
  BY <1>4, <1>8, <1>9, IInvParts

\* While a request for deletion is under way, no earlier one of its user was
\* executed, unless he had two open at once.
LEMMA NoneExecuted ==
  ASSUME IInv, NEW t \in Tx, pc[t] = "requestFind", ~doubled[who[t]],
         NEW r \in Row, owner[r] = who[t]
  PROVE  ~executed[r]
  BY DEF IInv, RequestOK, RowOK, ExecutedNeverCancelled

\* A user with one request open that is not the second cannot have an
\* executed one.
LEMMA OpenNoneExecuted ==
  ASSUME IInv, NEW u \in User, ~doubled[u], Open(u) # {}
  PROVE  ustatus[u] = "pending_deletion" /\ \A r \in Row : owner[r] = u => ~executed[r]
  BY DEF IInv, StatusTellsRequests

\* A new deletion request.
LEMMA CommitRequestStep ==
  ASSUME IInv, NEW t \in Tx, NEW r \in Row, CommitRequest(t, r)
  PROVE  IInv'
<1> USE DEF CommitRequest, Found
<1>1. TypeOK
  BY DEF IInv
<1> PICK u \in User : u = who[t]
  BY DEF IInv, SlotOK
<1>2. who[t] = u /\ owner[r] = None /\ ~cancelled[r] /\ ~executed[r] /\ ~due[r]
  BY DEF IInv, SlotOK, RowOK
<1>3. /\ owner'[r] = u
      /\ \A x \in Row \ {r} : owner'[x] = owner[x]
      /\ doubled'[u] = (doubled[u] \/ Open(u) # {})
      /\ ustatus'[u] = "pending_deletion"
      /\ \A v \in User \ {u} : ustatus'[v] = ustatus[v] /\ doubled'[v] = doubled[v]
  BY <1>1, <1>2 DEF TypeOK
<1>4. TypeOK'
  <2>1. /\ owner' \in [Row -> User \cup {None}]
        /\ doubled' \in [User -> BOOLEAN]
        /\ ustatus' \in [User -> UserStatus]
        /\ session' \in [User -> BOOLEAN]
    BY <1>1, <1>2 DEF TypeOK
  <2>2. QED
    BY <1>1, <2>1, Ending DEF TypeOK
<1>5. SlotsOK'
  <2>1. RowsGrow
    BY <1>2, <1>3 DEF RowsGrow
  <2>2. QED
    BY <2>1, EndingSlots
<1>6. ASSUME NEW x \in Row PROVE RowOK(x)'
  <2>1. \A s \in Tx : pc'[s] # "idle" => pc[s] # "idle" /\ born'[s] = born[s]
    BY Ending
  <2>2. RowOK(x)
    BY DEF IInv
  <2>3. QED
    BY <1>2, <1>3, <2>1, <2>2 DEF RowOK
<1>7. ASSUME NEW v \in User PROVE OneOpen(v)' /\ StatusOK(v)'
  <2>1. CASE v # u
    BY <1>2, <1>3, <2>1, UserKeptOK, JobAssumption DEF UserKept
  <2>2. CASE v = u
    <3>1. SUFFICES ASSUME ~doubled'[u] PROVE OneOpen(u)' /\ StatusOK(u)'
      BY <2>2 DEF OneOpen, StatusOK
    <3>2. ~doubled[u] /\ Open(u) = {}
      BY <1>3, <3>1
    <3>3. Open(u)' = {r}
      BY <1>2, <1>3, <3>2, JobAssumption DEF Open, IsOpen
    <3>4. \A x \in Row : owner'[x] = u => ~executed'[x]
      BY <1>2, <1>3, <3>2, NoneExecuted
    <3>5. QED
      BY <1>3, <3>3, <3>4 DEF OneOpen, StatusOK
  <2>3. QED
    BY <2>1, <2>2
<1>8. ExecutedNeverCancelled'
  BY DEF IInv, ExecutedNeverCancelled
<1>9. QED
  BY <1>4, <1>5, <1>6, <1>7, <1>8, IInvParts DEF DataOK, StatusTellsRequests, StatusOK

\* Cancelling: the request found is the user's only open one, unless he had
\* two at once.
LEMMA CommitCancelStep ==
  ASSUME IInv, NEW t \in Tx, CommitCancel(t)
  PROVE  IInv'
<1> USE DEF CommitCancel, Found
<1>1. TypeOK
  BY DEF IInv
<1> PICK u \in User : u = who[t]
  BY DEF IInv, SlotOK
<1>2. \A r \in got[t] : r \in Row /\ r \in Open(u) /\ holder[r] = t
  BY <1>1 DEF IInv, SlotOK, HoldsOpen, Open, TypeOK
<1>3. /\ \A r \in Row : cancelled'[r] = IF r \in got[t] THEN TRUE ELSE cancelled[r]
      /\ ustatus'[u] = "active"
      /\ \A v \in User \ {u} : ustatus'[v] = ustatus[v]
  BY <1>1 DEF TypeOK
<1>4. TypeOK'
  <2>1. cancelled' \in [Row -> BOOLEAN] /\ ustatus' \in [User -> UserStatus]
    BY <1>1 DEF TypeOK
  <2>2. QED
    BY <1>1, <2>1, Ending DEF TypeOK
<1>5. SlotsOK'
  <2>1. RowsGrow
    BY <1>3 DEF RowsGrow
  <2>2. \A s \in Slot \ {t} : \A r \in Row : holder[r] = s => cancelled'[r] = cancelled[r]
    BY <1>2, <1>3
  <2>3. QED
    BY <2>1, <2>2, EndingSlots
<1>6. ASSUME NEW r \in Row PROVE RowOK(r)'
  <2>1. \A s \in Tx : pc'[s] # "idle" => pc[s] # "idle" /\ born'[s] = born[s]
    BY Ending
  <2>2. RowOK(r)
    BY DEF IInv
  <2>3. QED
    BY <1>2, <1>3, <2>1, <2>2 DEF RowOK, Open, IsOpen
<1>7. ASSUME NEW v \in User PROVE OneOpen(v)' /\ StatusOK(v)'
  <2>1. CASE v # u
    BY <1>2, <1>3, <2>1, UserKeptOK DEF UserKept, Open
  <2>2. CASE v = u
    <3>1. SUFFICES ASSUME ~doubled[u] PROVE OneOpen(u)' /\ StatusOK(u)'
      BY <2>2 DEF OneOpen, StatusOK
    <3>2. Open(u) \subseteq got[t] /\ Open(u) # {}
      BY <1>2, <3>1 DEF IInv, OneOpen
    <3>3. Open(u)' = {}
      BY <1>3, <3>2 DEF Open, IsOpen
    <3>4. \A r \in Row : owner'[r] = u => ~executed'[r]
      BY <3>1, <3>2, OpenNoneExecuted
    <3>5. QED
      BY <1>3, <3>3, <3>4 DEF OneOpen, StatusOK
  <2>3. QED
    BY <2>1, <2>2
<1>8. ExecutedNeverCancelled'
  BY <1>2, <1>3 DEF IInv, ExecutedNeverCancelled, Open, IsOpen
<1>9. QED
  BY <1>4, <1>5, <1>6, <1>7, <1>8, IInvParts DEF DataOK, StatusTellsRequests, StatusOK

\* The job executes the due requests it holds; each was its owner's only
\* open one, unless he had two at once.
LEMMA CommitJobStep ==
  ASSUME IInv, CommitJob
  PROVE  IInv'
<1> USE DEF CommitJob, Found
<1>1. TypeOK
  BY DEF IInv
<1>2. \A r \in got[Job] : r \in Row /\ IsOpen(r) /\ holder[r] = Job /\ due[r]
  BY <1>1 DEF IInv, HoldsOpen, JobOK, TypeOK
<1>3. /\ \A r \in Row : executed'[r] = IF r \in got[Job] THEN TRUE ELSE executed[r]
      /\ \A u \in User : ustatus'[u] = IF \E r \in got[Job] : owner[r] = u THEN "deleted"
                                         ELSE ustatus[u]
  BY <1>1 DEF TypeOK
<1>4. TypeOK'
  <2>1. /\ executed' \in [Row -> BOOLEAN] /\ ustatus' \in [User -> UserStatus]
        /\ session' \in [User -> BOOLEAN]
    BY <1>1 DEF TypeOK
  <2>2. QED
    BY <1>1, <2>1, Ending DEF TypeOK
<1>5. SlotsOK'
  <2>1. RowsGrow
    BY DEF RowsGrow
  <2>2. \A s \in Slot \ {Job} : \A r \in Row : holder[r] = s => executed'[r] = executed[r]
    BY <1>2, <1>3
  <2>3. QED
    BY <2>1, <2>2, EndingSlots
<1>6. ASSUME NEW r \in Row PROVE RowOK(r)'
  <2>1. \A s \in Tx : pc'[s] # "idle" => pc[s] # "idle" /\ born'[s] = born[s]
    BY Ending
  <2>2. RowOK(r)
    BY DEF IInv
  <2>3. QED
    BY <1>2, <1>3, <2>1, <2>2 DEF RowOK, IsOpen
<1>7. ASSUME NEW u \in User PROVE OneOpen(u)' /\ StatusOK(u)'
  <2>1. CASE ~\E r \in got[Job] : owner[r] = u
    BY <1>2, <1>3, <2>1, UserKeptOK DEF UserKept
  <2>2. CASE \E r \in got[Job] : owner[r] = u
    <3>1. SUFFICES ASSUME ~doubled[u] PROVE OneOpen(u)' /\ StatusOK(u)'
      BY DEF OneOpen, StatusOK
    <3>2. PICK r \in got[Job] : r \in Row /\ owner[r] = u /\ r \in Open(u)
      BY <1>2, <2>2 DEF Open
    <3>3. Open(u) = {r}
      BY <3>1, <3>2 DEF IInv, OneOpen
    <3>4. executed'[r]
      BY <1>3, <3>2
    <3>5. Open(u)' = {}
      BY <1>3, <3>3, <3>4 DEF Open, IsOpen
    <3>6. ustatus'[u] = "deleted"
      BY <1>3, <2>2
    <3>7. QED
      BY <3>2, <3>4, <3>5, <3>6 DEF OneOpen, StatusOK
  <2>3. QED
    BY <2>1, <2>2
<1>8. ExecutedNeverCancelled'
  BY <1>2, <1>3 DEF IInv, ExecutedNeverCancelled, IsOpen
<1>9. QED
  BY <1>4, <1>5, <1>6, <1>7, <1>8, IInvParts DEF DataOK, StatusTellsRequests, StatusOK

\* The job takes its snapshot of the due requests.
LEMMA BeginJobStep ==
  ASSUME IInv, BeginJob
  PROVE  IInv'
<1> USE DEF BeginJob
<1>1. TypeOK
  BY DEF IInv
<1>2. TypeOK'
  <2>1. /\ pc' \in [Slot -> PC] /\ todo' \in [Slot -> SUBSET Row]
        /\ born' \in [Slot -> SUBSET Row]
    BY <1>1 DEF TypeOK, Existing
  <2>2. QED
    BY <1>1, <2>1 DEF TypeOK
<1>3. RowsGrow /\ \A t \in Tx : SlotKept(t)
  BY <1>1, JobAssumption DEF RowsGrow, SlotKept, TypeOK
<1>4. HoldsOpen(Job)' /\ JobOK'
  BY <1>1 DEF IInv, HoldsOpen, JobOK, IsOpen, TypeOK
<1>5. SlotsOK'
  BY <1>3, <1>4, SlotKeptOK DEF SlotsOK
<1>6. DataOK'
  BY <1>3, DataKeptOK DEF SlotKept
<1>7. QED
  BY <1>2, <1>5, <1>6, IInvParts

\* A request becomes due when all transactions under way began after it.
LEMMA GraceEndsStep ==
  ASSUME IInv, NEW r \in Row, GraceEnds(r)
  PROVE  IInv'
<1> USE DEF GraceEnds, txVars
<1>1. TypeOK
  BY DEF IInv
<1>2. TypeOK'
  BY <1>1 DEF TypeOK
<1>3. RowsGrow /\ \A t \in Slot : SlotKept(t)
  BY <1>1 DEF RowsGrow, SlotKept, TypeOK
<1>4. SlotsOK'
  BY <1>3, SlotKeptOK, JobKeptOK DEF SlotsOK
<1>5. \A x \in Row : RowOK(x)'
  BY <1>1 DEF IInv, RowOK, IsOpen, TypeOK
<1>6. \A u \in User : UserKept(u)
  BY DEF UserKept
<1>7. ExecutedNeverCancelled'
  BY DEF IInv, ExecutedNeverCancelled
<1>8. QED
  BY <1>2, <1>4, <1>5, <1>6, <1>7, UserKeptOK, IInvParts
  DEF DataOK, StatusTellsRequests, StatusOK

\* Steps that touch only tokens and sessions, or nothing.
LEMMA TokenStep ==
  ASSUME IInv, (\E u \in User : TokenExpires(u)) \/ UNCHANGED vars
  PROVE  IInv'
<1> USE DEF TokenExpires, vars, txVars
<1>1. TypeOK'
  BY DEF IInv, TypeOK
<1>2. RowsGrow /\ \A t \in Slot : SlotKept(t)
  BY DEF RowsGrow, SlotKept
<1>3. SlotsOK'
  BY <1>2, SlotKeptOK, JobKeptOK DEF SlotsOK
<1>4. DataOK'
  BY DataKeptOK
<1>5. QED
  BY <1>1, <1>3, <1>4, IInvParts

\* So every step preserves the invariant.
LEMMA NextIInv == IInv /\ [Next]_vars => IInv'
<1> SUFFICES ASSUME IInv, [Next]_vars PROVE IInv'
  OBVIOUS
<1>1. TypeOK
  BY DEF IInv
<1>2. ASSUME NEW t \in Tx, Begin(t) PROVE IInv'
  BY <1>2, StartStep DEF Begin, BeginRequest, BeginCancel, BeginLogin
<1>3. ASSUME NEW t \in Tx, Step(t) PROVE IInv'
  <2>1. CASE SelectOpen(t) \/ SelectLatest(t)
    BY <2>1, SelectStep DEF SelectOpen, SelectLatest
  <2>2. CASE VisitOpen(t) \/ VisitLatest(t)
    BY <2>2, VisitStep DEF VisitOpen, VisitLatest
  <2>3. CASE RefuseSecond(t) \/ NothingToCancel(t)
    BY <1>1, <2>3, QuietEnd DEF RefuseSecond, NothingToCancel, TypeOK
  <2>4. CASE CommitLogin(t)
    <3>1. token' \in [User -> BOOLEAN] /\ session' \in [User -> BOOLEAN]
      BY <1>1, <2>4 DEF CommitLogin, TypeOK
    <3>2. QED
      BY <2>4, <3>1, QuietEnd DEF CommitLogin
  <2>5. QED
    BY <1>3, <2>1, <2>2, <2>3, <2>4, CommitRequestStep, CommitCancelStep DEF Step
<1>4. CASE BeginJob \/ VisitDue \/ CommitJob
  BY <1>4, BeginJobStep, VisitStep, CommitJobStep DEF VisitDue
<1>5. ASSUME NEW t \in Slot, Fail(t) PROVE IInv'
  BY <1>1, <1>5, QuietEnd DEF Fail, TypeOK
<1>6. QED
  BY <1>2, <1>3, <1>4, <1>5, GraceEndsStep, TokenStep DEF Next, JobFails

---------------------------------------------------------------------------
(* Theorems *)

\* The inductive invariant holds in every reachable state.
THEOREM Invariance == Spec => []IInv
  BY InitIInv, NextIInv, PTL DEF Spec

\* A cancelled deletion is never carried out, nor one carried out reported
\* as cancelled, wherever the job and the cancellation meet.
THEOREM Exclusive == Spec => []ExecutedNeverCancelled
<1>1. IInv => ExecutedNeverCancelled
  BY DEF IInv
<1>2. QED
  BY <1>1, Invariance, PTL

\* users.status tells where the requests of a user stand, as long as no
\* second one slipped in.
THEOREM StatusFollows == Spec => []StatusTellsRequests
<1>1. IInv => StatusTellsRequests
  BY DEF IInv
<1>2. QED
  BY <1>1, Invariance, PTL

\* What the steps of one transaction do to the status of a deleted user.
LEMMA DeletedStays ==
  ASSUME IInv, Next, NEW u \in User, ustatus[u] = "deleted", ~doubled[u]
  PROVE  ustatus'[u] = "deleted"
<1>1. TypeOK
  BY DEF IInv
<1>2. Open(u) = {} /\ \E r \in Row : owner[r] = u /\ executed[r]
  BY DEF IInv, StatusTellsRequests
<1>3. ASSUME NEW t \in Tx, NEW r \in Row, CommitRequest(t, r) PROVE ustatus'[u] = "deleted"
  <2>1. who[t] # u
    BY <1>2, <1>3, NoneExecuted DEF CommitRequest, Found
  <2>2. QED
    BY <1>1, <1>3, <2>1 DEF CommitRequest, TypeOK
<1>4. ASSUME NEW t \in Tx, CommitCancel(t) PROVE ustatus'[u] = "deleted"
  <2>1. who[t] # u
    BY <1>1, <1>2, <1>4 DEF CommitCancel, IInv, SlotOK, HoldsOpen, Open, TypeOK
  <2>2. QED
    BY <1>1, <1>4, <2>1 DEF CommitCancel, TypeOK
<1>5. CASE CommitJob
  BY <1>5 DEF CommitJob
<1>6. ASSUME NEW t \in Tx, Begin(t) PROVE ustatus'[u] = "deleted"
  BY <1>6 DEF Begin, BeginRequest, BeginCancel, BeginLogin
<1>7. ASSUME NEW t \in Tx, Step(t) PROVE ustatus'[u] = "deleted"
  BY <1>3, <1>4, <1>7 DEF Step, SelectOpen, SelectLatest, Select, VisitOpen, VisitLatest, Visit,
     RefuseSecond, NothingToCancel, CommitLogin
<1>8. QED
  BY <1>5, <1>6, <1>7 DEF Next, BeginJob, VisitDue, Visit, Fail, JobFails, TokenExpires, GraceEnds

\* An anonymized account is never active again under the same proviso: the
\* requests and cancellations under way began before it was deleted and find
\* nothing they could act on.
THEOREM DeletedFinal == Spec => DeletedIsFinal
<1> DEFINE Final == \A u \in User : ustatus[u] = "deleted" /\ ~doubled[u] => ustatus'[u] = "deleted"
<1>1. IInv /\ [Next]_vars => [Final]_vars
  BY DeletedStays
<1>2. QED
  BY <1>1, Invariance, PTL DEF Spec, DeletedIsFinal
===========================================================================
