---------------------------- MODULE BillingProofs ----------------------------
(***************************************************************************)
(* Proofs about Billing: IInv is inductive, so an event is applied once    *)
(* and a user's plan is what the subscription that last spoke for him      *)
(* says, for any users, subscriptions, events, notices and answers.        *)
(***************************************************************************)
EXTENDS Billing, WellFoundedInduction, TLAPS

USE DEF PC, Outcome, tables, world, args

\* A set of numbers up to a bound has a largest one.
LEMMA MaxIn ==
  ASSUME NEW K \in Nat, NEW S, S \subseteq 0..K, S # {}
  PROVE  Max(S) \in S /\ \A x \in S : x <= Max(S)
<1> DEFINE T == {K - x : x \in S}
<1>1. T \subseteq Nat /\ T # {}
  <2>1. \A x \in S : K - x \in Nat
    OBVIOUS
  <2>2. QED
    BY <2>1
<1>2. \E y \in T : \A z \in T : ~(<<z, y>> \in OpToRel(<, Nat))
  BY <1>1, NatLessThanWellFounded, WFMin
<1>3. PICK y \in T : \A z \in T : ~(z < y)
  BY <1>1, <1>2 DEF OpToRel
<1>4. PICK x \in S : y = K - x
  OBVIOUS
<1>5. ASSUME NEW z \in S PROVE x >= z
  BY <1>3, <1>4, <1>5
<1>6. \E w \in S : \A z \in S : w >= z
  BY <1>5
<1>7. Max(S) \in S /\ \A z \in S : Max(S) >= z
  BY <1>6 DEF Max
<1>8. QED
  BY <1>7

---------------------------------------------------------------------------
(* Data *)

LEMMA States ==
  ASSUME NEW w \in State
  PROVE  /\ w.user \in User /\ w.customer \in Customer \cup {None} /\ w.sub \in Sub
         /\ w.plan \in Plan /\ w.status \in SubscriptionStatus /\ w.until \in Until
         /\ w.receipt \in BOOLEAN
  BY DEF State

\* What a store reports is a state that can be applied.
LEMMA ReportedState ==
  ASSUME NEW u \in User, NEW a \in Answer
  PROVE  Reported(u, a) \in State
<1>1. AnswerStatus(a, now) \in SubscriptionStatus
  BY DEF AnswerStatus, ReceiptStatus, GoogleStateStatus, SubscriptionStatus
<1>2. QED
  BY <1>1, AnswerAssumption DEF Reported, State

LEMMA EntitlementType ==
  /\ FreeRow \in Entitlement
  /\ \A r \in SubRow \cup State : EntitlementOf(r) \in Entitlement
  BY DEF FreeRow, Entitlement, EntitlementOf, Plan, Until, SubRow, State

---------------------------------------------------------------------------
(* Parts of the invariant *)

SlotOK(t) == WorkOK(t) /\ DeliveryOK(t)

\* What an entitlement row shows.
LEMMA Shown ==
  ASSUME NEW u \in User, now \in Int
  PROVE  /\ ent[u] \in {None, FreeRow} =>
              EffectivePlan(u) = "FREE" /\ StoredPlan(u) = "FREE" /\ ContractAds(u) = TRUE
         /\ \A r \in SubRow : ent[u] = EntitlementOf(r) =>
              IF ~Entitles(r.plan, r.status)
                THEN EffectivePlan(u) = "FREE" /\ StoredPlan(u) = "FREE" /\ ContractAds(u) = TRUE
              ELSE IF r.until = None \/ now <= r.until
                THEN /\ EffectivePlan(u) = "RIVIO_PLUS" /\ StoredPlan(u) = "RIVIO_PLUS"
                     /\ ContractAds(u) = FALSE
              ELSE EffectivePlan(u) = "FREE"
<1>1. FreeRow # None /\ \A r \in SubRow : EntitlementOf(r) # None
  BY EntitlementType, NoneAssumption
<1>2. ASSUME ent[u] \in {None, FreeRow}
      PROVE  EffectivePlan(u) = "FREE" /\ StoredPlan(u) = "FREE" /\ ContractAds(u) = TRUE
  <2>1. EffectivePlan(u) = "FREE" /\ StoredPlan(u) = "FREE"
    BY <1>1, <1>2 DEF EffectivePlan, StoredPlan, FreeRow
  <2>2. QED
    BY <1>2, <2>1 DEF ContractAds, FreeRow
<1>3. ASSUME NEW r \in SubRow, ent[u] = EntitlementOf(r), ~Entitles(r.plan, r.status)
      PROVE  EffectivePlan(u) = "FREE" /\ StoredPlan(u) = "FREE" /\ ContractAds(u) = TRUE
  BY <1>2, <1>3 DEF EntitlementOf, FreeRow
<1>4. ASSUME NEW r \in SubRow, ent[u] = EntitlementOf(r), Entitles(r.plan, r.status)
      PROVE  IF r.until = None \/ now <= r.until
               THEN /\ EffectivePlan(u) = "RIVIO_PLUS" /\ StoredPlan(u) = "RIVIO_PLUS"
                    /\ ContractAds(u) = FALSE
               ELSE EffectivePlan(u) = "FREE"
  <2>1. /\ ent[u] # None /\ ent[u].plan = "RIVIO_PLUS" /\ ent[u].until = r.until
    BY <1>1, <1>4 DEF EntitlementOf
  <2>2. CASE r.until = None \/ now <= r.until
    <3>1. EffectivePlan(u) = "RIVIO_PLUS" /\ StoredPlan(u) = "RIVIO_PLUS"
      BY <2>1, <2>2 DEF EffectivePlan, StoredPlan
    <3>2. QED
      BY <2>2, <3>1 DEF ContractAds
  <2>3. CASE ~(r.until = None \/ now <= r.until)
    BY <2>1, <2>3 DEF EffectivePlan
  <2>4. QED
    BY <2>2, <2>3
<1>5. QED
  BY <1>2, <1>3, <1>4

\* Both readers read the entitlement row.
LEMMA PlanFromEntitlement ==
  TypeOK /\ EntitlementFollows => PlanFollowsSubscription
<1> SUFFICES ASSUME TypeOK, EntitlementFollows PROVE PlanFollowsSubscription
  OBVIOUS
<1>1. now \in Int
  BY BoundAssumption DEF TypeOK
<1>2. ASSUME NEW u \in User, source[u] = None
      PROVE  EffectivePlan(u) = "FREE" /\ StoredPlan(u) = "FREE" /\ ContractAds(u) = TRUE
  <2>1. ent[u] \in {None, FreeRow}
    BY <1>2 DEF EntitlementFollows
  <2>2. QED
    BY <1>1, <2>1, Shown
<1>3. ASSUME NEW u \in User, source[u] # None, row[source[u]].user = u
      PROVE  LET r == row[source[u]] IN
             IF ~Entitles(r.plan, r.status)
               THEN EffectivePlan(u) = "FREE" /\ StoredPlan(u) = "FREE" /\ ContractAds(u) = TRUE
             ELSE IF r.until = None \/ now <= r.until
               THEN /\ EffectivePlan(u) = "RIVIO_PLUS" /\ StoredPlan(u) = "RIVIO_PLUS"
                    /\ ContractAds(u) = FALSE
             ELSE EffectivePlan(u) = "FREE"
  <2>1. row[source[u]] \in SubRow
    BY <1>3 DEF TypeOK, EntitlementFollows
  <2>2. ent[u] = EntitlementOf(row[source[u]])
    BY <1>3 DEF EntitlementFollows
  <2>3. QED
    BY <1>1, <2>1, <2>2, Shown
<1>4. QED
  BY <1>2, <1>3, Zenon DEF PlanFollowsSubscription

LEMMA IInvParts ==
  /\ TypeOK /\ (\A t \in Tx : SlotOK(t)) /\ LocksOK /\ EntitlementFollows
       /\ WebhookIdempotent => IInv
  /\ TypeOK' /\ (\A t \in Tx : SlotOK(t)') /\ LocksOK' /\ EntitlementFollows'
       /\ WebhookIdempotent' => IInv'
  /\ IInv => /\ TypeOK /\ (\A t \in Tx : SlotOK(t)) /\ LocksOK /\ EntitlementFollows
             /\ WebhookIdempotent
<1>1. TypeOK' /\ EntitlementFollows' => PlanFollowsSubscription'
  BY PlanFromEntitlement, PTL
<1>2. QED
  BY <1>1, PlanFromEntitlement DEF IInv, SlotOK

\* Initially there is nothing and every user is on the free plan.
LEMMA InitIInv == Init => IInv
<1> SUFFICES ASSUME Init PROVE IInv
  OBVIOUS
<1> USE DEF Init
<1>1. TypeOK
  BY BoundAssumption DEF TypeOK
<1>2. \A t \in Tx : SlotOK(t)
  BY DEF SlotOK, WorkOK, DeliveryOK
<1>3. LocksOK
  BY DEF LocksOK
<1>4. EntitlementFollows
  BY DEF EntitlementFollows
<1>5. WebhookIdempotent
  <2>1. None # "processed"
    BY NoneAssumption
  <2>2. QED
    BY <2>1 DEF WebhookIdempotent
<1>6. QED
  BY <1>1, <1>2, <1>3, <1>4, <1>5, IInvParts

---------------------------------------------------------------------------
(* What a step leaves alone *)

\* A slot stays as it is.
Kept(s) ==
  /\ pc'[s] = pc[s] /\ ev'[s] = ev[s] /\ outcome'[s] = outcome[s]
  /\ work'[s] = work[s] /\ wrote'[s] = wrote[s] /\ todo'[s] = todo[s]
  /\ locks'[s] = locks[s]

\* It keeps its invariant if nobody gives a status to an event it has locked.
LEMMA KeptOK ==
  ASSUME IInv, NEW s \in Tx, Kept(s),
         \A e \in Event : e \in locks[s] => event'[e] = event[e]
  PROVE  SlotOK(s)'
<1>1. SlotOK(s) /\ TypeOK
  BY IInvParts
<1>2. WorkOK(s)'
  BY <1>1 DEF SlotOK, WorkOK, IsDraft, Kept
<1>3. ev[s] \in Event \cup {None}
  BY <1>1 DEF TypeOK
<1>4. DeliveryOK(s)'
  BY <1>1, <1>3 DEF SlotOK, DeliveryOK, Kept
<1>5. QED
  BY <1>2, <1>4 DEF SlotOK

\* Only what is free gets locked.
LEMMA LocksKeptOK ==
  ASSUME IInv, NEW t \in Tx, \A s \in Tx \ {t} : locks'[s] = locks[s],
         \A r \in locks'[t] \ locks[t] : Free(t, r)
  PROVE  LocksOK'
  BY IInvParts DEF LocksOK, Free

\* A step of one transaction that changes no table keeps the invariant if it
\* does so for the transaction and locks only what is free.
LEMMA QuietStep ==
  ASSUME IInv, NEW t \in Tx, UNCHANGED tables, TypeOK', SlotOK(t)',
         \A s \in Tx \ {t} : Kept(s),
         \A r \in locks'[t] \ locks[t] : Free(t, r),
         \A e \in acked' \ acked : event[e] # None
  PROVE  IInv'
<1>1. \A s \in Tx : SlotOK(s)'
  BY KeptOK
<1>2. LocksOK'
  BY LocksKeptOK DEF Kept
<1>3. EntitlementFollows' /\ WebhookIdempotent'
  BY IInvParts DEF EntitlementFollows, WebhookIdempotent
<1>4. QED
  BY <1>1, <1>2, <1>3, IInvParts

\* The end of a transaction frees its slot and its locks.
LEMMA Ending ==
  ASSUME IInv, NEW t \in Tx, End(t)
  PROVE  /\ pc' \in [Tx -> PC] /\ ev' \in [Tx -> Event \cup {None}]
         /\ outcome' \in [Tx -> Outcome \cup {None}]
         /\ work' = [s \in Tx |-> work'[s]] /\ wrote' \in [Tx -> Seq(State)]
         /\ todo' \in [Tx -> SUBSET [sub : Sub, user : User, receipt : BOOLEAN]]
         /\ locks' = [s \in Tx |-> locks'[s]] /\ locks'[t] = {}
         /\ SlotOK(t)' /\ \A s \in Tx \ {t} : Kept(s)
<1>1. TypeOK
  BY IInvParts
<1>2. /\ pc' \in [Tx -> PC] /\ ev' \in [Tx -> Event \cup {None}]
      /\ outcome' \in [Tx -> Outcome \cup {None}]
      /\ todo' \in [Tx -> SUBSET [sub : Sub, user : User, receipt : BOOLEAN]]
  BY <1>1 DEF TypeOK, End
<1>3. wrote' \in [Tx -> Seq(State)]
  BY <1>1 DEF TypeOK, End
<1>4. work' = [s \in Tx |-> work'[s]] /\ locks' = [s \in Tx |-> locks'[s]]
  BY <1>1 DEF TypeOK, End
<1>5. /\ pc'[t] = "idle" /\ ev'[t] = None /\ wrote'[t] = <<>> /\ todo'[t] = {}
      /\ locks'[t] = {}
  BY <1>1 DEF TypeOK, End
<1>6. SlotOK(t)'
  BY <1>5 DEF SlotOK, WorkOK, DeliveryOK
<1>7. \A s \in Tx \ {t} : Kept(s)
  BY <1>1 DEF TypeOK, End, Kept
<1>8. QED
  BY <1>2, <1>3, <1>4, <1>5, <1>6, <1>7

LEMMA QuietEnd ==
  ASSUME IInv, NEW t \in Tx, End(t), UNCHANGED <<tables, now, sent>>,
         acked' \in SUBSET Event, \A e \in acked' \ acked : event[e] # None
  PROVE  IInv'
<1>1. TypeOK'
  BY Ending, IInvParts DEF TypeOK
<1>2. QED
  BY <1>1, Ending, QuietStep

---------------------------------------------------------------------------
(* Requests that begin *)

LEMMA BeginContractStep ==
  ASSUME IInv, NEW t \in Tx, NEW u \in User, BeginContract(t, u)
  PROVE  IInv'
<1>1. TypeOK /\ SlotOK(t)
  BY IInvParts
<1>2. TypeOK' /\ \A s \in Tx \ {t} : Kept(s)
  BY <1>1 DEF TypeOK, BeginContract, Kept
<1>3. pc'[t] = "lazy" /\ work'[t].user = u /\ locks'[t] = locks[t] /\ ev'[t] = None /\ todo'[t] = {}
  BY <1>1 DEF TypeOK, BeginContract, SlotOK, DeliveryOK
<1>4. SlotOK(t)'
  BY <1>3 DEF SlotOK, WorkOK, DeliveryOK
<1>5. QED
  BY <1>2, <1>3, <1>4, QuietStep DEF BeginContract

LEMMA BeginValidateStep ==
  ASSUME IInv, NEW t \in Tx, NEW u \in User, NEW a \in Answer, BeginValidate(t, u, a)
  PROVE  IInv'
<1>1. TypeOK /\ SlotOK(t)
  BY IInvParts
<1>2. TypeOK' /\ \A s \in Tx \ {t} : Kept(s)
  BY <1>1 DEF TypeOK, BeginValidate, Kept
<1>3. /\ pc'[t] = "customer" /\ work'[t] \in State /\ locks'[t] = locks[t]
      /\ ev'[t] = None /\ todo'[t] = {}
  BY <1>1, ReportedState DEF TypeOK, BeginValidate, SlotOK, DeliveryOK
<1>4. SlotOK(t)'
  BY <1>3 DEF SlotOK, WorkOK, DeliveryOK
<1>5. QED
  BY <1>2, <1>3, <1>4, QuietStep DEF BeginValidate

LEMMA BeginReconcileStep ==
  ASSUME IInv, NEW t \in Tx, BeginReconcile(t)
  PROVE  IInv'
<1> DEFINE S == {s \in Sub : row[s] # None
                   /\ row[s].status \in {"trialing", "active", "past_due"}}
           T == {[sub |-> s, user |-> row[s].user, receipt |-> row[s].receipt] : s \in S}
<1>1. TypeOK /\ SlotOK(t)
  BY IInvParts
<1>2. T \in SUBSET [sub : Sub, user : User, receipt : BOOLEAN]
  <2>1. \A s \in S : row[s] \in SubRow
    BY <1>1 DEF TypeOK
  <2>2. QED
    BY <2>1 DEF SubRow
<1>3. /\ pc[t] = "idle" /\ pc' = [pc EXCEPT ![t] = "next"]
      /\ todo' = [todo EXCEPT ![t] = T]
      /\ UNCHANGED <<tables, world, ev, outcome, work, wrote, locks>>
  BY DEF BeginReconcile
<1> HIDE DEF T
<1>4. TypeOK' /\ \A s \in Tx \ {t} : Kept(s)
  BY <1>1, <1>2, <1>3 DEF TypeOK, Kept
<1>5. pc'[t] = "next" /\ ev'[t] = None
  BY <1>1, <1>3 DEF TypeOK, SlotOK, DeliveryOK
<1>6. SlotOK(t)'
  BY <1>5 DEF SlotOK, WorkOK, DeliveryOK
<1>7. QED
  BY <1>3, <1>4, <1>6, QuietStep

LEMMA DeliverStep ==
  ASSUME IInv, NEW t \in Tx, NEW e \in Event, Deliver(t, e)
  PROVE  IInv'
<1>1. TypeOK /\ SlotOK(t)
  BY IInvParts
<1>2. PICK n \in Notice : n = sent[e]
  BY <1>1 DEF TypeOK, Deliver
<1>3. CASE Unreadable(n)
  <2>1. /\ pc[t] = "idle" /\ pc' = [pc EXCEPT ![t] = "poisoned"]
        /\ ev' = [ev EXCEPT ![t] = e]
        /\ UNCHANGED <<tables, world, work, outcome, todo, wrote, locks>>
    BY <1>2, <1>3 DEF Deliver
  <2>2. TypeOK' /\ \A s \in Tx \ {t} : Kept(s)
    BY <1>1, <2>1 DEF TypeOK, Kept
  <2>3. pc'[t] = "poisoned" /\ todo'[t] = {}
    BY <1>1, <2>1 DEF TypeOK, SlotOK, DeliveryOK
  <2>4. SlotOK(t)'
    BY <2>3 DEF SlotOK, WorkOK, DeliveryOK
  <2>5. QED
    BY <2>1, <2>2, <2>4, QuietStep
<1>4. CASE ~Unreadable(n)
  <2>1. PICK w : w = Draft(Normalized(n))
    OBVIOUS
  <2>2. IsDraft(w)
    BY <1>4, <2>1, NoticeAssumption DEF IsDraft, Draft
  <2>3. /\ pc[t] = "idle" /\ pc' = [pc EXCEPT ![t] = "insert"]
        /\ ev' = [ev EXCEPT ![t] = e] /\ work' = [work EXCEPT ![t] = w]
        /\ UNCHANGED <<tables, world, outcome, todo, wrote, locks>>
    BY <1>2, <1>4, <2>1 DEF Deliver
  <2>4. TypeOK' /\ \A s \in Tx \ {t} : Kept(s)
    BY <1>1, <2>3 DEF TypeOK, Kept
  <2>5. /\ pc'[t] = "insert" /\ ev'[t] = e /\ work'[t] = w /\ wrote'[t] = <<>> /\ todo'[t] = {}
        /\ e # None
    BY <1>1, <2>3, NoneAssumption DEF TypeOK, SlotOK, DeliveryOK
  <2>6. SlotOK(t)'
    BY <2>2, <2>5 DEF SlotOK, WorkOK, DeliveryOK, IsDraft
  <2>7. QED
    BY <2>3, <2>4, <2>6, QuietStep
<1>5. QED
  BY <1>3, <1>4

---------------------------------------------------------------------------
(* The webhook *)

\* An event to be processed has a state that can be applied.
LEMMA OutcomeSound ==
  ASSUME NEW d, NEW w, IsDraft(w), w.user \in User \cup {None}
  PROVE  /\ OutcomeOf(d, w) \in Outcome
         /\ OutcomeOf(d, w) = "processed" => w \in State
<1>1. OutcomeOf(d, w) \in Outcome
  BY DEF OutcomeOf
<1>2. ASSUME OutcomeOf(d, w) = "processed"
      PROVE  w \in State
  <2>1. /\ w.user # None /\ w.sub # None /\ w.plan \in Plan
        /\ w.status \in SubscriptionStatus
    BY <1>2 DEF OutcomeOf, Plan
  <2>2. /\ w.user \in User /\ w.sub \in Sub /\ w.customer \in Customer \cup {None}
        /\ w.until \in Until /\ w.receipt \in BOOLEAN
        /\ w = [user |-> w.user, customer |-> w.customer, sub |-> w.sub, plan |-> w.plan,
                status |-> w.status, until |-> w.until, receipt |-> w.receipt]
    BY <2>1 DEF IsDraft
  <2>3. QED
    BY <2>1, <2>2 DEF State
<1>3. QED
  BY <1>1, <1>2

\* The first delivery takes the event's key while no row has it.
LEMMA InsertEventStep ==
  ASSUME IInv, NEW t \in Tx, InsertEvent(t)
  PROVE  IInv'
<1>1. TypeOK /\ SlotOK(t)
  BY IInvParts
<1>2. PICK e \in Event : e = ev[t]
  BY <1>1 DEF TypeOK, SlotOK, DeliveryOK, InsertEvent
<1>3. PICK w : w = work[t] /\ IsDraft(w) /\ w.user \in User \cup {None}
  BY <1>1 DEF SlotOK, WorkOK, InsertEvent
<1>4. PICK o \in Outcome : /\ o = OutcomeOf(Normalized(sent[e]), w)
                           /\ o = "processed" => w \in State
  BY <1>3, OutcomeSound
<1>5. /\ pc[t] = "insert" /\ Free(t, e) /\ event[e] = None
      /\ locks' = [locks EXCEPT ![t] = @ \cup {e}]
      /\ outcome' = [outcome EXCEPT ![t] = o]
      /\ pc' = [pc EXCEPT ![t] = IF o = "processed" THEN "customer" ELSE "next"]
      /\ UNCHANGED <<tables, world, ev, todo, work, wrote>>
  BY <1>2, <1>3, <1>4 DEF InsertEvent
<1>6. TypeOK'
  BY <1>1, <1>5 DEF TypeOK
<1>7. \A s \in Tx \ {t} : Kept(s)
  BY <1>1, <1>5 DEF TypeOK, Kept
<1>8. /\ pc'[t] = (IF o = "processed" THEN "customer" ELSE "next")
      /\ outcome'[t] = o /\ locks'[t] = locks[t] \cup {e} /\ ev'[t] = e
      /\ work'[t] = w /\ wrote'[t] = <<>> /\ todo'[t] = {}
  BY <1>1, <1>2, <1>3, <1>5 DEF TypeOK, SlotOK, DeliveryOK
<1>9. o # None /\ Len(<<>>) = 0
  BY NoneAssumption
<1>10. WorkOK(t)'
  BY <1>4, <1>8 DEF WorkOK
<1>11. DeliveryOK(t)'
  BY <1>5, <1>8, <1>9 DEF DeliveryOK
<1>12. QED
  BY <1>5, <1>6, <1>7, <1>8, <1>10, <1>11, QuietStep DEF SlotOK

LEMMA InsertOfUnknownStep ==
  ASSUME IInv, NEW t \in Tx, InsertOfUnknown(t)
  PROVE  IInv'
<1>1. TypeOK /\ SlotOK(t)
  BY IInvParts
<1>2. TypeOK' /\ \A s \in Tx \ {t} : Kept(s)
  BY <1>1 DEF TypeOK, InsertOfUnknown, Kept
<1>3. /\ pc'[t] = "poisoned" /\ todo'[t] = {}
      /\ locks'[t] = locks[t] \cup {ev[t]} /\ Free(t, ev[t])
  BY <1>1 DEF TypeOK, InsertOfUnknown, SlotOK, DeliveryOK
<1>4. SlotOK(t)'
  BY <1>3 DEF SlotOK, WorkOK, DeliveryOK
<1>5. QED
  BY <1>2, <1>3, <1>4, QuietStep DEF InsertOfUnknown

LEMMA DuplicateStep ==
  ASSUME IInv, NEW t \in Tx, Duplicate(t)
  PROVE  IInv'
<1>1. TypeOK /\ SlotOK(t)
  BY IInvParts
<1>2. ev[t] \in Event
  BY <1>1 DEF TypeOK, SlotOK, DeliveryOK, Duplicate
<1>3. acked' \in SUBSET Event /\ \A e \in acked' \ acked : event[e] # None
  BY <1>1, <1>2 DEF TypeOK, Duplicate
<1>4. QED
  BY <1>3, QuietEnd DEF Duplicate

---------------------------------------------------------------------------
(* apply_subscription_state and reconciliation *)

LEMMA UpsertCustomerStep ==
  ASSUME IInv, NEW t \in Tx, UpsertCustomer(t)
  PROVE  IInv'
<1>1. TypeOK /\ SlotOK(t) /\ pc[t] = "customer"
  BY IInvParts DEF UpsertCustomer
<1>2. PICK L : /\ locks' = [locks EXCEPT ![t] = @ \cup L] /\ \A r \in L : Free(t, r)
               /\ \/ pc' = [pc EXCEPT ![t] = "poisoned"]
                  \/ pc' = [pc EXCEPT ![t] = "sub"]
               /\ UNCHANGED <<tables, world, args, work, wrote>>
  <2>1. CASE Taken(CustomerSeen(t), work[t])
    <3> DEFINE M == {}
    <3>1. locks' = [locks EXCEPT ![t] = @ \cup M]
      BY <1>1, <2>1 DEF UpsertCustomer, TypeOK
    <3>2. pc' = [pc EXCEPT ![t] = "poisoned"] /\ \A r \in M : Free(t, r)
      BY <2>1 DEF UpsertCustomer
    <3>3. UNCHANGED <<tables, world, args, work, wrote>>
      BY DEF UpsertCustomer
    <3> HIDE DEF M
    <3>4. QED
      BY <3>1, <3>2, <3>3
  <2>2. CASE ~Taken(CustomerSeen(t), work[t])
    <3>1. locks' = [locks EXCEPT ![t] = @ \cup CustomerKeys(t)]
      BY <2>2 DEF UpsertCustomer
    <3>2. pc' = [pc EXCEPT ![t] = "sub"] /\ \A r \in CustomerKeys(t) : Free(t, r)
      BY <2>2 DEF UpsertCustomer
    <3>3. UNCHANGED <<tables, world, args, work, wrote>>
      BY DEF UpsertCustomer
    <3>4. QED
      BY <3>1, <3>2, <3>3
  <2>3. QED
    BY <2>1, <2>2
<1>3. TypeOK' /\ \A s \in Tx \ {t} : Kept(s)
  BY <1>1, <1>2 DEF TypeOK, Kept
<1>4. /\ pc'[t] \in {"poisoned", "sub"} /\ locks'[t] = locks[t] \cup L
      /\ ev'[t] = ev[t] /\ work'[t] = work[t] /\ wrote'[t] = wrote[t]
      /\ todo'[t] = todo[t] /\ outcome'[t] = outcome[t] /\ event' = event
  BY <1>1, <1>2 DEF TypeOK
<1>5. SlotOK(t)'
  BY <1>1, <1>4 DEF SlotOK, WorkOK, DeliveryOK
<1>6. QED
  BY <1>2, <1>3, <1>4, <1>5, QuietStep

LEMMA UpsertSubscriptionStep ==
  ASSUME IInv, NEW t \in Tx, UpsertSubscription(t)
  PROVE  IInv'
<1>1. TypeOK /\ SlotOK(t) /\ pc[t] = "sub"
  BY IInvParts DEF UpsertSubscription
<1>2. TypeOK' /\ \A s \in Tx \ {t} : Kept(s)
  BY <1>1 DEF TypeOK, UpsertSubscription, Kept
<1>3. /\ pc'[t] = "entitlement" /\ locks'[t] = locks[t] \cup {work[t].sub}
      /\ ev'[t] = ev[t] /\ work'[t] = work[t] /\ wrote'[t] = wrote[t]
      /\ todo'[t] = todo[t] /\ outcome'[t] = outcome[t] /\ event' = event
      /\ Free(t, work[t].sub)
  BY <1>1 DEF TypeOK, UpsertSubscription
<1>4. SlotOK(t)'
  BY <1>1, <1>3 DEF SlotOK, WorkOK, DeliveryOK
<1>5. QED
  BY <1>2, <1>3, <1>4, QuietStep DEF UpsertSubscription

LEMMA SyncEntitlementStep ==
  ASSUME IInv, NEW t \in Tx, SyncEntitlement(t)
  PROVE  IInv'
<1>1. TypeOK /\ SlotOK(t) /\ pc[t] = "entitlement"
  BY IInvParts DEF SyncEntitlement
<1>2. PICK w \in State : w = work[t]
  BY <1>1 DEF SlotOK, WorkOK
<1>3. PICK r : r = <<"entitlement", w.user>>
  OBVIOUS
<1>4. /\ Free(t, r) /\ locks' = [locks EXCEPT ![t] = @ \cup {r}]
      /\ wrote' = [wrote EXCEPT ![t] = Append(@, w)]
      /\ work' = [work EXCEPT ![t] = None] /\ pc' = [pc EXCEPT ![t] = "next"]
      /\ UNCHANGED <<tables, world, args>>
  BY <1>2, <1>3 DEF SyncEntitlement
<1>5. /\ wrote[t] \in Seq(State) /\ Append(wrote[t], w) \in Seq(State)
      /\ Len(Append(wrote[t], w)) = Len(wrote[t]) + 1
  BY <1>1 DEF TypeOK
<1>6. TypeOK'
  BY <1>1, <1>4, <1>5 DEF TypeOK
<1>7. \A s \in Tx \ {t} : Kept(s)
  BY <1>1, <1>4 DEF TypeOK, Kept
<1>8. /\ pc'[t] = "next" /\ locks'[t] = locks[t] \cup {r} /\ wrote'[t] = Append(wrote[t], w)
      /\ ev'[t] = ev[t] /\ todo'[t] = todo[t] /\ outcome'[t] = outcome[t] /\ event' = event
  BY <1>1, <1>4 DEF TypeOK
<1>9. WorkOK(t)'
  BY <1>8 DEF WorkOK
<1>10. DeliveryOK(t)'
  BY <1>1, <1>5, <1>8 DEF SlotOK, DeliveryOK
<1>11. QED
  BY <1>4, <1>6, <1>7, <1>8, <1>9, <1>10, QuietStep DEF SlotOK

LEMMA SkipRowStep ==
  ASSUME IInv, NEW t \in Tx, NEW r, SkipRow(t, r)
  PROVE  IInv'
<1>1. TypeOK /\ SlotOK(t)
  BY IInvParts
<1>2. TypeOK' /\ \A s \in Tx \ {t} : Kept(s)
  BY <1>1 DEF TypeOK, SkipRow, Kept
<1>3. SlotOK(t)'
  <2>1. ev[t] = None
    BY <1>1 DEF SlotOK, DeliveryOK, SkipRow
  <2>2. QED
    BY <1>1, <2>1 DEF SlotOK, WorkOK, DeliveryOK, SkipRow, TypeOK
<1>4. QED
  BY <1>2, <1>3, QuietStep DEF SkipRow

LEMMA ReconcileRowStep ==
  ASSUME IInv, NEW t \in Tx, NEW r, NEW a \in Answer, ReconcileRow(t, r, a)
  PROVE  IInv'
<1>1. TypeOK /\ SlotOK(t)
  BY IInvParts
<1>2. r.user \in User /\ ev[t] = None
  BY <1>1 DEF TypeOK, SlotOK, DeliveryOK, ReconcileRow
<1>3. Reported(r.user, a) \in State
  BY <1>2, ReportedState
<1>4. TypeOK' /\ \A s \in Tx \ {t} : Kept(s)
  BY <1>1 DEF TypeOK, ReconcileRow, Kept
<1>5. pc'[t] = "customer" /\ work'[t] \in State /\ ev'[t] = None
  BY <1>1, <1>2, <1>3 DEF TypeOK, ReconcileRow
<1>6. SlotOK(t)'
  BY <1>5 DEF SlotOK, WorkOK, DeliveryOK
<1>7. QED
  BY <1>4, <1>6, QuietStep DEF ReconcileRow

LEMMA DeadlockVictimStep ==
  ASSUME IInv, NEW t \in Tx, DeadlockVictim(t)
  PROVE  IInv'
<1>1. TypeOK /\ SlotOK(t)
  BY IInvParts
<1>2. TypeOK' /\ \A s \in Tx \ {t} : Kept(s)
  BY <1>1 DEF TypeOK, DeadlockVictim, Kept
<1>3. pc'[t] = "poisoned"
  BY <1>1 DEF TypeOK, DeadlockVictim
<1>4. SlotOK(t)'
  BY <1>1, <1>3 DEF SlotOK, WorkOK, DeliveryOK, DeadlockVictim
<1>5. QED
  BY <1>2, <1>4, QuietStep DEF DeadlockVictim

---------------------------------------------------------------------------
(* The steps that change tables *)

\* ensure_entitlement_row gives a user without a row the free plan, and only
\* such a user.
LEMMA CommitContractStep ==
  ASSUME IInv, NEW t \in Tx, CommitContract(t)
  PROVE  IInv'
<1>1. TypeOK /\ SlotOK(t) /\ EntitlementFollows
  BY IInvParts
<1>2. PICK u \in User : u = work[t].user
  BY <1>1 DEF SlotOK, WorkOK, CommitContract
<1>3. /\ ent' = [ent EXCEPT ![u] = IF @ = None THEN FreeRow ELSE @]
      /\ End(t) /\ UNCHANGED <<customer, row, event, applied, source, world>>
  BY <1>2 DEF CommitContract
<1>4. TypeOK'
  BY <1>1, <1>3, Ending, EntitlementType DEF TypeOK
<1>5. EntitlementFollows'
  <2>1. SUFFICES ASSUME NEW v \in User
                 PROVE  IF source[v] = None THEN ent'[v] \in {None, FreeRow}
                        ELSE /\ row[source[v]] # None
                             /\ row[source[v]].user = v => ent'[v] = EntitlementOf(row[source[v]])
    BY <1>3 DEF EntitlementFollows
  <2>2. IF source[v] = None THEN ent[v] \in {None, FreeRow}
        ELSE /\ row[source[v]] # None
             /\ row[source[v]].user = v => ent[v] = EntitlementOf(row[source[v]])
    BY <1>1 DEF EntitlementFollows
  <2>3. ent'[v] = IF v = u /\ ent[v] = None THEN FreeRow ELSE ent[v]
    BY <1>1, <1>3 DEF TypeOK
  <2>4. source[v] # None /\ row[source[v]] # None => EntitlementOf(row[source[v]]) # None
    BY <1>1, EntitlementType, NoneAssumption DEF TypeOK
  <2>5. QED
    BY <2>2, <2>3, <2>4
<1>6. WebhookIdempotent'
  BY <1>3, IInvParts DEF WebhookIdempotent
<1>7. \A s \in Tx : SlotOK(s)'
  BY <1>3, Ending, KeptOK
<1>8. LocksOK'
  BY <1>3, Ending, LocksKeptOK DEF Kept
<1>9. QED
  BY <1>4, <1>5, <1>6, <1>7, <1>8, IInvParts

\* The last write for a user or of a subscription is one of the transaction.
LEMMA LastWrite ==
  ASSUME IInv, NEW t \in Tx
  PROVE  /\ \A u \in User : ForUser(t, u) # {} =>
              /\ LastFor(t, u) \in State /\ LastFor(t, u).user = u
              /\ ForSub(t, LastFor(t, u).sub) # {}
         /\ \A s \in Sub : ForSub(t, s) # {} =>
              /\ LastOf(t, s) \in State /\ LastOf(t, s).sub = s
         /\ \A u \in User : ForUser(t, u) # {} /\ LastOf(t, LastFor(t, u).sub).user = u =>
              LastOf(t, LastFor(t, u).sub) = LastFor(t, u)
         /\ \A u \in User, s \in Sub : ForSub(t, s) # {} /\ LastOf(t, s).user = u =>
              ForUser(t, u) # {}
<1> DEFINE K == Len(wrote[t])
<1>1. wrote[t] \in Seq(State) /\ K \in Nat /\ \A i \in 1..K : wrote[t][i] \in State
  BY IInvParts DEF TypeOK
<1>2. ASSUME NEW u \in User, ForUser(t, u) # {}
      PROVE  /\ Max(ForUser(t, u)) \in 1..K /\ wrote[t][Max(ForUser(t, u))].user = u
             /\ \A i \in ForUser(t, u) : i <= Max(ForUser(t, u))
  <2>1. ForUser(t, u) \subseteq 0..K
    BY <1>1 DEF ForUser
  <2>2. Max(ForUser(t, u)) \in ForUser(t, u) /\ \A i \in ForUser(t, u) : i <= Max(ForUser(t, u))
    BY <1>1, <1>2, <2>1, MaxIn
  <2>3. QED
    BY <2>2 DEF ForUser
<1>3. ASSUME NEW s \in Sub, ForSub(t, s) # {}
      PROVE  /\ Max(ForSub(t, s)) \in 1..K /\ wrote[t][Max(ForSub(t, s))].sub = s
             /\ \A i \in ForSub(t, s) : i <= Max(ForSub(t, s))
  <2>1. ForSub(t, s) \subseteq 0..K
    BY <1>1 DEF ForSub
  <2>2. Max(ForSub(t, s)) \in ForSub(t, s) /\ \A i \in ForSub(t, s) : i <= Max(ForSub(t, s))
    BY <1>1, <1>3, <2>1, MaxIn
  <2>3. QED
    BY <2>2 DEF ForSub
<1>4. ASSUME NEW u \in User, ForUser(t, u) # {}
      PROVE  /\ LastFor(t, u) \in State /\ LastFor(t, u).user = u /\ LastFor(t, u).sub \in Sub
             /\ Max(ForUser(t, u)) \in ForSub(t, LastFor(t, u).sub)
  <2>1. LastFor(t, u) \in State /\ LastFor(t, u).user = u
    BY <1>1, <1>2, <1>4 DEF LastFor
  <2>2. QED
    BY <1>1, <1>2, <1>4, <2>1, States DEF LastFor, ForSub
<1>5. ASSUME NEW s \in Sub, ForSub(t, s) # {}
      PROVE  /\ LastOf(t, s) \in State /\ LastOf(t, s).sub = s
             /\ \A u \in User : LastOf(t, s).user = u => Max(ForSub(t, s)) \in ForUser(t, u)
  BY <1>1, <1>3, <1>5 DEF LastOf, ForUser
<1>6. ASSUME NEW u \in User, ForUser(t, u) # {}, LastOf(t, LastFor(t, u).sub).user = u
      PROVE  LastOf(t, LastFor(t, u).sub) = LastFor(t, u)
  <2>1. PICK s \in Sub : s = LastFor(t, u).sub /\ Max(ForUser(t, u)) \in ForSub(t, s)
    BY <1>4, <1>6
  <2>2. Max(ForUser(t, u)) <= Max(ForSub(t, s)) /\ Max(ForSub(t, s)) \in 1..K
    BY <1>3, <2>1
  <2>3. Max(ForSub(t, s)) \in ForUser(t, u)
    BY <1>5, <1>6, <2>1
  <2>4. Max(ForSub(t, s)) <= Max(ForUser(t, u)) /\ Max(ForUser(t, u)) \in 1..K
    BY <1>2, <1>6, <2>3
  <2>5. Max(ForSub(t, s)) = Max(ForUser(t, u))
    BY <1>1, <2>2, <2>4
  <2>6. QED
    BY <2>1, <2>5 DEF LastOf, LastFor
<1>7. QED
  BY <1>4, <1>5, <1>6

\* The row a transaction leaves of a subscription is the last it wrote of it.
LEMMA RowAfterType ==
  ASSUME IInv, NEW t \in Tx, NEW s \in Sub, ForSub(t, s) # {}
  PROVE  LET r == RowAfter(t, s)  w == LastOf(t, s) IN
         /\ r \in SubRow /\ r # None
         /\ r.user = w.user /\ r.plan = w.plan /\ r.status = w.status /\ r.until = w.until
<1>1. PICK w \in State : w = LastOf(t, s)
  BY LastWrite
<1>2. PICK c \in BOOLEAN :
        c = (\/ row[s] # None /\ row[s].canceled
             \/ \E i \in ForSub(t, s) : wrote[t][i].status = "canceled")
  OBVIOUS
<1>3. RowAfter(t, s) = [user |-> w.user, plan |-> w.plan, status |-> w.status,
                        until |-> w.until, canceled |-> c, receipt |-> w.receipt]
  BY <1>1, <1>2 DEF RowAfter
<1>4. RowAfter(t, s) \in SubRow
  BY <1>3, States DEF SubRow
<1>5. QED
  BY <1>1, <1>3, <1>4, NoneAssumption

\* What a commit shows leaves every entitlement with the state that was last
\* written for its user, unless a later one took the subscription from him.
LEMMA PublishOK ==
  ASSUME IInv, NEW t \in Tx, Publish(t)
  PROVE  /\ customer' \in [User -> Customer \cup {None}]
         /\ row' \in [Sub -> SubRow \cup {None}]
         /\ ent' \in [User -> Entitlement \cup {None}]
         /\ source' \in [User -> Sub \cup {None}]
         /\ EntitlementFollows'
<1>1. TypeOK /\ EntitlementFollows
  BY IInvParts
<1>2. \A u \in User : ForUser(t, u) # {} =>
        LastFor(t, u) \in State /\ LastFor(t, u).user = u /\ ForSub(t, LastFor(t, u).sub) # {}
  BY LastWrite
<1>3. ASSUME NEW s \in Sub, ForSub(t, s) # {}
      PROVE  /\ LastOf(t, s) \in State /\ RowAfter(t, s) \in SubRow
             /\ RowAfter(t, s) # None /\ RowAfter(t, s).user = LastOf(t, s).user
  BY <1>3, LastWrite, RowAfterType
<1>4. /\ customer' \in [User -> Customer \cup {None}]
      /\ source' \in [User -> Sub \cup {None}]
  BY <1>1, <1>2, States DEF TypeOK, Publish, CustomerSeen
<1>5. row' \in [Sub -> SubRow \cup {None}]
  BY <1>1, <1>3 DEF TypeOK, Publish
<1>6. ent' \in [User -> Entitlement \cup {None}]
  BY <1>1, <1>2, EntitlementType DEF TypeOK, Publish
<1>7. \A u \in User :
        /\ ent'[u] = IF ForUser(t, u) = {} THEN ent[u] ELSE EntitlementOf(LastFor(t, u))
        /\ source'[u] = IF ForUser(t, u) = {} THEN source[u] ELSE LastFor(t, u).sub
  BY DEF Publish
<1>8. \A s \in Sub :
        row'[s] = IF ForSub(t, s) = {} THEN row[s] ELSE RowAfter(t, s)
  BY DEF Publish
<1>9. ASSUME NEW u \in User
      PROVE  IF source'[u] = None THEN ent'[u] \in {None, FreeRow}
             ELSE /\ row'[source'[u]] # None
                  /\ row'[source'[u]].user = u => ent'[u] = EntitlementOf(row'[source'[u]])
  <2>1. CASE ForUser(t, u) # {}
    <3>1. PICK w \in State : w = LastFor(t, u) /\ w.user = u /\ ForSub(t, w.sub) # {}
      BY <1>2, <2>1
    <3>2. w.sub \in Sub /\ source'[u] = w.sub /\ w.sub # None /\ ent'[u] = EntitlementOf(w)
      BY <1>7, <2>1, <3>1, States, NoneAssumption
    <3>3. PICK x \in State : x = LastOf(t, w.sub)
      BY <1>3, <3>1, <3>2
    <3>4. row'[w.sub] = RowAfter(t, w.sub) /\ row'[w.sub] # None
      BY <1>3, <1>8, <3>1, <3>2, <3>3
    <3>5. /\ RowAfter(t, w.sub).user = x.user /\ RowAfter(t, w.sub).plan = x.plan
          /\ RowAfter(t, w.sub).status = x.status /\ RowAfter(t, w.sub).until = x.until
      BY <3>1, <3>2, <3>3, RowAfterType
    <3>6. x.user = u => x = w
      BY <2>1, <3>1, <3>3, LastWrite
    <3>7. row'[w.sub].user = u => EntitlementOf(row'[w.sub]) = EntitlementOf(w)
      BY <3>4, <3>5, <3>6 DEF EntitlementOf
    <3>8. QED
      BY <3>2, <3>4, <3>7
  <2>2. CASE ForUser(t, u) = {} /\ source[u] = None
    BY <1>1, <1>7, <2>2 DEF EntitlementFollows
  <2>3. CASE ForUser(t, u) = {} /\ source[u] # None
    <3>1. PICK s \in Sub : s = source[u]
      BY <1>1, <2>3 DEF TypeOK
    <3>2. source'[u] = s /\ ent'[u] = ent[u]
      BY <1>7, <2>3, <3>1
    <3>3. row[s] # None /\ (row[s].user = u => ent[u] = EntitlementOf(row[s]))
      BY <1>1, <2>3, <3>1 DEF EntitlementFollows
    <3>4. CASE ForSub(t, s) = {}
      BY <1>8, <2>3, <3>1, <3>2, <3>3, <3>4
    <3>5. CASE ForSub(t, s) # {}
      <4>1. row'[s] = RowAfter(t, s) /\ row'[s] # None
        BY <1>3, <1>8, <3>5
      <4>2. row'[s].user = LastOf(t, s).user
        BY <1>3, <3>5, <4>1
      <4>3. LastOf(t, s).user # u
        BY <2>3, <3>5, LastWrite
      <4>4. QED
        BY <2>3, <3>1, <3>2, <4>1, <4>2, <4>3
    <3>6. QED
      BY <3>4, <3>5
  <2>4. QED
    BY <2>1, <2>2, <2>3
<1>10. EntitlementFollows'
  BY <1>9 DEF EntitlementFollows
<1>11. QED
  BY <1>4, <1>5, <1>6, <1>10

\* The event was locked without a status, so nobody else has applied it.
LEMMA CommitStep ==
  ASSUME IInv, NEW t \in Tx, Commit(t)
  PROVE  IInv'
<1>1. TypeOK /\ SlotOK(t) /\ WebhookIdempotent /\ pc[t] = "next"
  BY IInvParts DEF Commit
<1>2. Publish(t) /\ End(t) /\ UNCHANGED <<now, sent>>
  BY DEF Commit
<1>3. Len(wrote[t]) \in Nat
  BY <1>1 DEF TypeOK
<1>4. /\ event' \in [Event -> Outcome \cup {None}] /\ applied' \in [Event -> Nat]
      /\ acked' \in SUBSET Event /\ WebhookIdempotent'
      /\ \A e \in Event, s \in Tx \ {t} : e \in locks[s] => event'[e] = event[e]
  <2>1. CASE ev[t] = None
    <3>1. UNCHANGED <<event, applied, acked>>
      BY <2>1 DEF Commit
    <3>2. QED
      BY <1>1, <3>1 DEF TypeOK, WebhookIdempotent
  <2>2. CASE ev[t] # None
    <3>1. PICK e \in Event : e = ev[t]
      BY <1>1, <2>2 DEF TypeOK
    <3>2. PICK o \in Outcome : o = outcome[t]
      BY <1>1, <2>2 DEF TypeOK, SlotOK, DeliveryOK
    <3>3. /\ e \in locks[t] /\ event[e] = None
          /\ Len(wrote[t]) = IF o = "processed" THEN 1 ELSE 0
      BY <1>1, <2>2, <3>1, <3>2 DEF SlotOK, DeliveryOK
    <3>4. /\ event' = [event EXCEPT ![e] = o]
          /\ applied' = [applied EXCEPT ![e] = @ + Len(wrote[t])]
          /\ acked' = acked \cup {e}
      BY <2>2, <3>1, <3>2 DEF Commit
    <3>5. applied[e] = 0 /\ o # None
      BY <1>1, <3>3, NoneAssumption DEF WebhookIdempotent
    <3>6. /\ event' \in [Event -> Outcome \cup {None}] /\ applied' \in [Event -> Nat]
          /\ acked' \in SUBSET Event
      BY <1>1, <1>3, <3>4 DEF TypeOK
    <3>7. /\ event'[e] = o /\ applied'[e] = IF o = "processed" THEN 1 ELSE 0
          /\ \A d \in Event \ {e} : event'[d] = event[d] /\ applied'[d] = applied[d]
      BY <1>1, <3>3, <3>4, <3>5 DEF TypeOK
    <3>8. WebhookIdempotent'
      <4>1. ASSUME NEW d \in Event
            PROVE  applied'[d] = IF event'[d] = "processed" THEN 1 ELSE 0
        BY <1>1, <3>7 DEF WebhookIdempotent
      <4>2. \A d \in acked' : event'[d] # None
        BY <1>1, <3>4, <3>5, <3>7 DEF WebhookIdempotent, TypeOK
      <4>3. QED
        BY <4>1, <4>2 DEF WebhookIdempotent
    <3>9. \A s \in Tx \ {t} : e \notin locks[s]
      BY <3>3, IInvParts DEF LocksOK
    <3>10. QED
      BY <3>6, <3>7, <3>8, <3>9
  <2>3. QED
    BY <2>1, <2>2
<1>5. TypeOK'
  BY <1>1, <1>2, <1>4, Ending, PublishOK DEF TypeOK
<1>6. \A s \in Tx : SlotOK(s)'
  BY <1>2, <1>4, Ending, KeptOK
<1>7. LocksOK'
  BY <1>2, Ending, LocksKeptOK DEF Kept
<1>8. QED
  BY <1>2, <1>4, <1>5, <1>6, <1>7, PublishOK, IInvParts

---------------------------------------------------------------------------
(* The theorems *)

LEMMA NextIInv == IInv /\ [Next]_vars => IInv'
<1> SUFFICES ASSUME IInv, [Next]_vars PROVE IInv'
  OBVIOUS
<1>0. TypeOK
  BY IInvParts
<1>1. ASSUME NEW t \in Tx, Begin(t)
      PROVE  IInv'
  BY <1>1, BeginContractStep, BeginValidateStep, BeginReconcileStep DEF Begin
<1>2. ASSUME NEW t \in Tx, Acquire(t)
      PROVE  IInv'
  BY <1>2, CommitContractStep, InsertEventStep, InsertOfUnknownStep, DuplicateStep,
     UpsertCustomerStep, UpsertSubscriptionStep, SyncEntitlementStep DEF Acquire
<1>3. ASSUME NEW t \in Tx, Step(t)
      PROVE  IInv'
  <2>1. CASE Rollback(t)
    BY <1>0, <2>1, QuietEnd DEF Rollback, TypeOK
  <2>2. QED
    BY <1>3, <2>1, CommitStep, DeadlockVictimStep, SkipRowStep, ReconcileRowStep DEF Step
<1>4. ASSUME NEW t \in Tx, Fail(t)
      PROVE  IInv'
  BY <1>0, <1>4, QuietEnd DEF Fail, TypeOK
<1>5. ASSUME NEW t \in Tx, NEW e \in Event, Deliver(t, e)
      PROVE  IInv'
  BY <1>5, DeliverStep
<1>6. ASSUME UNCHANGED <<tables, acked, pc, args, work, wrote, locks>>, TypeOK'
      PROVE  IInv'
  <2>1. \A s \in Tx : SlotOK(s)'
    BY <1>6, KeptOK DEF Kept
  <2>2. LocksOK' /\ EntitlementFollows' /\ WebhookIdempotent'
    BY <1>6, IInvParts DEF LocksOK, EntitlementFollows, WebhookIdempotent
  <2>3. QED
    BY <1>6, <2>1, <2>2, IInvParts
<1>7. ASSUME NEW e \in Event, NEW n \in Notice, Send(e, n)
      PROVE  IInv'
  <2>1. TypeOK'
    BY <1>0, <1>7 DEF TypeOK, Send
  <2>2. QED
    BY <1>6, <1>7, <2>1 DEF Send
<1>8. CASE Tick
  <2>1. TypeOK'
    BY <1>0, <1>8, BoundAssumption DEF TypeOK, Tick
  <2>2. QED
    BY <1>6, <1>8, <2>1 DEF Tick
<1>9. CASE UNCHANGED vars
  <2>1. TypeOK'
    BY <1>0, <1>9 DEF TypeOK, vars
  <2>2. QED
    BY <1>6, <1>9, <2>1 DEF vars
<1>10. QED
  BY <1>1, <1>2, <1>3, <1>4, <1>5, <1>7, <1>8, <1>9 DEF Next

\* The inductive invariant holds whatever the providers, the stores, requests,
\* failures and deadlocks do.
THEOREM Invariance == Spec => []IInv
  BY InitIInv, NextIInv, PTL DEF Spec

\* An event changes a subscription once if its row says processed and never
\* otherwise, and none is acknowledged without a row.
THEOREM Idempotence == Spec => []WebhookIdempotent
<1>1. IInv => WebhookIdempotent
  BY DEF IInv
<1>2. QED
  BY <1>1, Invariance, PTL

\* The contract and billing_me both show what the subscription that last set a
\* user's entitlement says, as long as it is still his; after its period the
\* contract's plan is free.
THEOREM PlanFollows == Spec => []PlanFollowsSubscription
<1>1. IInv => PlanFollowsSubscription
  BY DEF IInv
<1>2. QED
  BY <1>1, Invariance, PTL
=============================================================================
