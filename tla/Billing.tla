------------------------------- MODULE Billing -------------------------------
(***************************************************************************)
(* Subscriptions and entitlements: the webhook, the validation of store    *)
(* purchases, reconciliation and the readers of a plan                     *)
(* (app/services/billing.py, app/services/entitlements.py and their        *)
(* routers; scripts/reconcile_billing.py).                                 *)
(*                                                                         *)
(* A request is a transaction of a slot t \in Tx under READ COMMITTED.     *)
(* Every upsert waits for the row (or the unique key) it writes and keeps  *)
(* it locked, so what a transaction wrote is shown when it commits: until  *)
(* then it is the sequence wrote[t].                                       *)
(***************************************************************************)
EXTENDS Integers, FiniteSets, Sequences, FiniteSetsExt, BillingProvider

CONSTANTS
  User,      \* users
  Sub,       \* (provider, provider_subscription_id)
  Customer,  \* (provider, provider_customer_id)
  Event,     \* (provider, event_id)
  Tx,        \* request slots
  Notice,    \* what a webhook may say
  Answer,    \* what a store may answer about a subscription
  MaxTime    \* bound of the clock

ASSUME BoundAssumption == MaxTime \in Nat

Plan == {"FREE", "RIVIO_PLUS"}
Until == Int \cup {None}
Outcome == {"processed", "ignored", "error"}

\* A subscription state that can be applied, a row of billing_subscriptions
\* and one of user_entitlements.
State == [user : User, customer : Customer \cup {None}, sub : Sub, plan : Plan,
          status : SubscriptionStatus, until : Until, receipt : BOOLEAN]
SubRow == [user : User, plan : Plan, status : SubscriptionStatus, until : Until,
           canceled : BOOLEAN, receipt : BOOLEAN]
Entitlement == [plan : Plan, ads : BOOLEAN, until : Until]

ASSUME NoneAssumption ==
  None \notin User \cup Sub \cup Customer \cup Event \cup Tx \cup
             Outcome \cup SubRow \cup Entitlement

\* A notice may be unreadable and may name a user who does not exist.
ASSUME NoticeAssumption ==
  \A n \in Notice : LET d == Normalized(n) IN
    ~Unreadable(n) => /\ d.customer \in Customer \cup {None}
                      /\ d.sub \in Sub \cup {None} /\ d.until \in Until

ASSUME AnswerAssumption ==
  \A a \in Answer :
    /\ a.customer \in Customer \cup {None} /\ a.sub \in Sub
    /\ a.product \in Plan /\ a.until \in Until

VARIABLES
  now,       \* the clock
  customer,  \* billing_customers.provider_customer_id, None without a row
  row,       \* billing_subscriptions, None without a row
  ent,       \* user_entitlements, None without a row
  event,     \* billing_webhook_events.status, None without a row
  sent,      \* what the provider says in an event, None while it is not sent
  acked,     \* events the provider had a 2xx answer for
  applied,   \* history: how often an event has changed a subscription
  source,    \* history: the subscription that set a user's entitlement
  pc,        \* where each request stands
  ev,        \* the event a webhook brings
  outcome,   \* the status it will give it
  work,      \* the subscription state being applied
  wrote,     \* those applied, not committed
  todo,      \* rows of a reconciliation still to visit
  locks      \* rows and unique keys each transaction holds

tables == <<customer, row, ent, event, applied, source>>
world  == <<now, sent, acked>>
args   == <<ev, outcome, todo>>
vars   == <<tables, world, pc, args, work, wrote, locks>>

PC == {"idle", "insert", "customer", "sub", "entitlement", "next", "poisoned", "lazy"}
UpdateType == {"subscription.created", "subscription.updated",
               "subscription.renewed", "invoice.paid"}
CancelType == {"subscription.deleted", "subscription.canceled",
               "invoice.payment_failed"}

Init ==
  /\ now = 0
  /\ customer = [u \in User |-> None]
  /\ row = [s \in Sub |-> None]
  /\ ent = [u \in User |-> None]
  /\ event = [e \in Event |-> None]
  /\ sent = [e \in Event |-> None]
  /\ acked = {}
  /\ applied = [e \in Event |-> 0]
  /\ source = [u \in User |-> None]
  /\ pc = [t \in Tx |-> "idle"]
  /\ ev = [t \in Tx |-> None]
  /\ outcome = [t \in Tx |-> None]
  /\ work = [t \in Tx |-> None]
  /\ wrote = [t \in Tx |-> <<>>]
  /\ todo = [t \in Tx |-> {}]
  /\ locks = [t \in Tx |-> {}]

\* Nobody else holds r.
Free(t, r) == \A w \in Tx \ {t} : r \notin locks[w]

\* The transaction of t ends, by commit or by rollback.
End(t) ==
  /\ pc' = [pc EXCEPT ![t] = "idle"]
  /\ ev' = [ev EXCEPT ![t] = None]
  /\ outcome' = [outcome EXCEPT ![t] = None]
  /\ work' = [work EXCEPT ![t] = None]
  /\ wrote' = [wrote EXCEPT ![t] = <<>>]
  /\ todo' = [todo EXCEPT ![t] = {}]
  /\ locks' = [locks EXCEPT ![t] = {}]

---------------------------------------------------------------------------
(* Entitlements *)

\* _entitlement_from_subscription
Entitles(plan, status) ==
  plan = "RIVIO_PLUS" /\ status \in {"trialing", "active", "past_due"}
EntitlementOf(r) ==
  IF Entitles(r.plan, r.status)
    THEN [plan |-> "RIVIO_PLUS", ads |-> FALSE, until |-> r.until]
    ELSE [plan |-> "FREE", ads |-> TRUE, until |-> None]
FreeRow == [plan |-> "FREE", ads |-> TRUE, until |-> None]

\* resolve_effective_plan; without a row ensure_entitlement_row gives FREE.
EffectivePlan(u) ==
  IF ent[u] # None /\ ent[u].plan = "RIVIO_PLUS"
       /\ (ent[u].until = None \/ now <= ent[u].until)
    THEN "RIVIO_PLUS" ELSE "FREE"

\* ads_enabled of get_user_contract: entitlement_out shows what is stored, also
\* beside a plan that has expired.
ContractAds(u) == EffectivePlan(u) = "FREE" /\ (ent[u] = None \/ ent[u].ads)

\* billing_me shows the plan that is stored.
StoredPlan(u) == IF ent[u] = None THEN "FREE" ELSE ent[u].plan

\* ensure_entitlement_row: a reader finds no row ...
BeginContract(t, u) ==
  /\ pc[t] = "idle"
  /\ ent[u] = None
  /\ pc' = [pc EXCEPT ![t] = "lazy"]
  /\ work' = [work EXCEPT ![t] = [user |-> u]]
  /\ UNCHANGED <<tables, world, args, wrote, locks>>

\* Mutant: the insert overwrites a row that has come in between.
CommitContractOverwriting(t) ==
  LET u == work[t].user IN
  /\ pc[t] = "lazy"
  /\ Free(t, <<"entitlement", u>>)
  /\ ent' = [ent EXCEPT ![u] = FreeRow]
  /\ End(t)
  /\ UNCHANGED <<customer, row, event, applied, source, world>>

\* ... and inserts the free plan, ON CONFLICT DO NOTHING, and commits.
CommitContract(t) ==
  LET u == work[t].user IN
  /\ pc[t] = "lazy"
  /\ Free(t, <<"entitlement", u>>)
  /\ ent' = [ent EXCEPT ![u] = IF @ = None THEN FreeRow ELSE @]
  /\ End(t)
  /\ UNCHANGED <<customer, row, event, applied, source, world>>

---------------------------------------------------------------------------
(* The webhook *)

\* _resolve_user_id_for_event, before the event is inserted.  d.sub stands for
\* the subscription, whether the notice gives its id or its purchase token.
Resolve(d) ==
  IF d.user # None THEN d.user
  ELSE IF d.sub # None /\ row[d.sub] # None
            /\ (d.form # "google_play" \/ row[d.sub].receipt)
    THEN row[d.sub].user ELSE None

\* The subscription state an event speaks of: _extract_user_subscription_data
\* and the arguments of apply_subscription_state.
Draft(d) ==
  [user |-> Resolve(d), customer |-> d.customer, sub |-> d.sub,
   plan |-> IF d.product # None THEN d.product
            ELSE IF d.plan # None THEN d.plan ELSE "FREE",
   status |-> IF d.type \in CancelType THEN "canceled"
              ELSE IF d.status # None THEN d.status ELSE "incomplete",
   until |-> d.until, receipt |-> FALSE]

\* The provider sends an event until it is answered, and may repeat it later.
\* One that cannot be read raises before the insert: rollback and 400.
Deliver(t, e) ==
  /\ pc[t] = "idle" /\ sent[e] # None
  /\ ev' = [ev EXCEPT ![t] = e]
  /\ IF Unreadable(sent[e])
       THEN pc' = [pc EXCEPT ![t] = "poisoned"] /\ UNCHANGED work
       ELSE /\ pc' = [pc EXCEPT ![t] = "insert"]
            /\ work' = [work EXCEPT ![t] = Draft(Normalized(sent[e]))]
  /\ UNCHANGED <<tables, world, outcome, todo, wrote, locks>>

\* Mutant: whatever product is sold is applied.
OutcomeOfAny(d, w) ==
  IF \/ w.user = None \/ w.sub = None
     \/ d.type \notin UpdateType \cup CancelType
    THEN "ignored" ELSE "processed"

\* What becomes of a new event: not for us, a ValueError (a product without a
\* plan, an unknown status), or a subscription state to apply.
OutcomeOf(d, w) ==
  CASE \/ w.user = None \/ w.sub = None
       \/ d.type \notin UpdateType \cup CancelType -> "ignored"
    [] /\ w.user # None /\ w.sub # None
       /\ d.type \in UpdateType \cup CancelType
       /\ \/ w.plan \notin {"FREE", "RIVIO_PLUS"}
          \/ w.status \notin SubscriptionStatus     -> "error"
    [] OTHER                                        -> "processed"

\* Mutant: the duplicate is looked for with a SELECT, and nothing keeps a
\* second delivery from going on meanwhile.
InsertEventUnlocked(t) ==
  LET o == OutcomeOf(Normalized(sent[ev[t]]), work[t]) IN
  /\ pc[t] = "insert" /\ work[t].user \in User \cup {None}
  /\ event[ev[t]] = None
  /\ outcome' = [outcome EXCEPT ![t] = o]
  /\ pc' = [pc EXCEPT ![t] = IF o = "processed" THEN "customer" ELSE "next"]
  /\ UNCHANGED <<tables, world, ev, todo, work, wrote, locks>>

\* Mutant: the handler lets the ValueError through, which rolls back and
\* answers 400.
InsertEventRaising(t) ==
  LET o == OutcomeOf(Normalized(sent[ev[t]]), work[t]) IN
  /\ pc[t] = "insert" /\ work[t].user \in User \cup {None}
  /\ Free(t, ev[t]) /\ event[ev[t]] = None
  /\ locks' = [locks EXCEPT ![t] = @ \cup {ev[t]}]
  /\ outcome' = [outcome EXCEPT ![t] = o]
  /\ pc' = [pc EXCEPT ![t] = CASE o = "processed" -> "customer"
                               [] o = "error"     -> "poisoned"
                               [] OTHER           -> "next"]
  /\ UNCHANGED <<tables, world, ev, todo, work, wrote>>

\* INSERT ... ON CONFLICT (provider, event_id) DO NOTHING waits for another
\* delivery of the same event; it is the first.
InsertEvent(t) ==
  LET o == OutcomeOf(Normalized(sent[ev[t]]), work[t]) IN
  /\ pc[t] = "insert" /\ work[t].user \in User \cup {None}
  /\ Free(t, ev[t]) /\ event[ev[t]] = None
  /\ locks' = [locks EXCEPT ![t] = @ \cup {ev[t]}]
  /\ outcome' = [outcome EXCEPT ![t] = o]
  /\ pc' = [pc EXCEPT ![t] = IF o = "processed" THEN "customer" ELSE "next"]
  /\ UNCHANGED <<tables, world, ev, todo, work, wrote>>

\* The event names a user who does not exist: its foreign key fails the insert.
InsertOfUnknown(t) ==
  /\ pc[t] = "insert" /\ work[t].user \notin User \cup {None}
  /\ Free(t, ev[t]) /\ event[ev[t]] = None
  /\ locks' = [locks EXCEPT ![t] = @ \cup {ev[t]}]
  /\ pc' = [pc EXCEPT ![t] = "poisoned"]
  /\ UNCHANGED <<tables, world, args, work, wrote>>

\* It is a duplicate: 200 with what became of the first.
Duplicate(t) ==
  /\ pc[t] = "insert"
  /\ Free(t, ev[t]) /\ event[ev[t]] # None
  /\ acked' = acked \cup {ev[t]}
  /\ End(t)
  /\ UNCHANGED <<tables, now, sent>>

---------------------------------------------------------------------------
(* apply_subscription_state *)

\* The last that t wrote for a user and of a subscription.
ForUser(t, u) == {i \in 1..Len(wrote[t]) : wrote[t][i].user = u}
ForSub(t, s)  == {i \in 1..Len(wrote[t]) : wrote[t][i].sub = s}
LastFor(t, u) == wrote[t][Max(ForUser(t, u))]
LastOf(t, s)  == wrote[t][Max(ForSub(t, s))]

\* billing_customers as t sees it, with what it has written itself.
CustomerSeen(t) ==
  [u \in User |-> IF ForUser(t, u) = {} THEN customer[u] ELSE LastFor(t, u).customer]

\* Another user has the provider's customer id of w.
Taken(c, w) == w.customer # None /\ \E u \in User \ {w.user} : c[u] = w.customer

\* The row of the user, the customer id it gets and the one it had: others who
\* want one of these wait until t ends.
CustomerKeys(t) ==
  {<<"customer", work[t].user>>, work[t].customer, CustomerSeen(t)[work[t].user]} \ {None}

\* _upsert_customer waits for them; if the customer id is another user's, the
\* unique index fails the transaction.
UpsertCustomer(t) ==
  /\ pc[t] = "customer"
  /\ \A k \in CustomerKeys(t) : Free(t, k)
  /\ IF Taken(CustomerSeen(t), work[t])
       THEN /\ pc' = [pc EXCEPT ![t] = "poisoned"]
            /\ UNCHANGED locks
       ELSE /\ pc' = [pc EXCEPT ![t] = "sub"]
            /\ locks' = [locks EXCEPT ![t] = @ \cup CustomerKeys(t)]
  /\ UNCHANGED <<tables, world, args, work, wrote>>

\* _upsert_subscription
UpsertSubscription(t) ==
  /\ pc[t] = "sub"
  /\ Free(t, work[t].sub)
  /\ locks' = [locks EXCEPT ![t] = @ \cup {work[t].sub}]
  /\ pc' = [pc EXCEPT ![t] = "entitlement"]
  /\ UNCHANGED <<tables, world, args, work, wrote>>

\* _sync_entitlement_from_subscription
SyncEntitlement(t) ==
  LET r == <<"entitlement", work[t].user>> IN
  /\ pc[t] = "entitlement"
  /\ Free(t, r)
  /\ locks' = [locks EXCEPT ![t] = @ \cup {r}]
  /\ wrote' = [wrote EXCEPT ![t] = Append(@, work[t])]
  /\ work' = [work EXCEPT ![t] = None]
  /\ pc' = [pc EXCEPT ![t] = "next"]
  /\ UNCHANGED <<tables, world, args>>

\* The row of s after the ON CONFLICT DO UPDATEs of t: canceled_at stays once it
\* is set, and raw_payload is replaced, so a webhook takes the receipt from it.
RowAfter(t, s) ==
  LET w == LastOf(t, s) IN
  [user |-> w.user, plan |-> w.plan, status |-> w.status, until |-> w.until,
   canceled |-> \/ row[s] # None /\ row[s].canceled
                \/ \E i \in ForSub(t, s) : wrote[t][i].status = "canceled",
   receipt |-> w.receipt]

\* Everything the transaction wrote: one state if it is a webhook or a
\* validation, one for each row the stores answered for if it is a
\* reconciliation, where two answers may be about one subscription or user.
Publish(t) ==
  /\ customer' = CustomerSeen(t)
  /\ row' = [s \in Sub |-> IF ForSub(t, s) = {} THEN row[s] ELSE RowAfter(t, s)]
  /\ ent' = [u \in User |->
       IF ForUser(t, u) = {} THEN ent[u] ELSE EntitlementOf(LastFor(t, u))]
  /\ source' = [u \in User |->
       IF ForUser(t, u) = {} THEN source[u] ELSE LastFor(t, u).sub]

\* The event gets its final status; commit, 200.
Commit(t) ==
  /\ pc[t] = "next" /\ todo[t] = {}
  /\ Publish(t)
  /\ IF ev[t] = None THEN UNCHANGED <<event, applied, acked>>
       ELSE /\ event' = [event EXCEPT ![ev[t]] = outcome[t]]
            /\ applied' = [applied EXCEPT ![ev[t]] = @ + Len(wrote[t])]
            /\ acked' = acked \cup {ev[t]}
  /\ End(t)
  /\ UNCHANGED <<now, sent>>

\* After a failed statement nothing more can be written.  The webhook and the
\* validation answer 400 or 500; the reconciliation goes on without effect, and
\* its COMMIT is a rollback.
Rollback(t) ==
  /\ pc[t] = "poisoned"
  /\ End(t)
  /\ UNCHANGED <<tables, world>>

---------------------------------------------------------------------------
(* Store validation and reconciliation *)

\* The state the store reports, for the user who asks or whose row it is.
Reported(u, a) ==
  [user |-> u, customer |-> a.customer, sub |-> a.sub, plan |-> a.product,
   status |-> AnswerStatus(a, now), until |-> a.until, receipt |-> TRUE]

\* validate_and_sync_*: the store has accepted the purchase; otherwise, or if
\* its product has no plan, nothing is written.
BeginValidate(t, u, a) ==
  /\ pc[t] = "idle" /\ Accepted(a)
  /\ pc' = [pc EXCEPT ![t] = "customer"]
  /\ work' = [work EXCEPT ![t] = Reported(u, a)]
  /\ UNCHANGED <<tables, world, args, wrote, locks>>

\* reconcile_subscriptions reads the rows that entitle.
BeginReconcile(t) ==
  LET S == {s \in Sub : row[s] # None
              /\ row[s].status \in {"trialing", "active", "past_due"}} IN
  /\ pc[t] = "idle" /\ S # {}
  /\ pc' = [pc EXCEPT ![t] = "next"]
  /\ todo' = [todo EXCEPT ![t] =
       {[sub |-> s, user |-> row[s].user, receipt |-> row[s].receipt] : s \in S}]
  /\ UNCHANGED <<tables, world, ev, outcome, work, wrote, locks>>

\* No receipt: skipped.  The store does not answer or not as expected: an
\* error is counted.
SkipRow(t, r) ==
  /\ pc[t] = "next" /\ r \in todo[t]
  /\ todo' = [todo EXCEPT ![t] = @ \ {r}]
  /\ UNCHANGED <<tables, world, pc, ev, outcome, work, wrote, locks>>

\* The store answers about the row's purchase: apply what it says for the user
\* of the row.  The answer may name another subscription than the row: Google
\* Play gives its latest order, App Store the latest transaction.
ReconcileRow(t, r, a) ==
  /\ pc[t] = "next" /\ r \in todo[t] /\ r.receipt /\ Accepted(a)
  /\ todo' = [todo EXCEPT ![t] = @ \ {r}]
  /\ work' = [work EXCEPT ![t] = Reported(r.user, a)]
  /\ pc' = [pc EXCEPT ![t] = "customer"]
  /\ UNCHANGED <<tables, world, ev, outcome, wrote, locks>>

---------------------------------------------------------------------------
(* Environment *)

\* Something happens at the provider.
Send(e, n) ==
  /\ sent[e] = None
  /\ sent' = [sent EXCEPT ![e] = n]
  /\ UNCHANGED <<tables, now, acked, pc, args, work, wrote, locks>>

\* Bound: MaxTime.
Tick ==
  /\ now < MaxTime
  /\ now' = now + 1
  /\ UNCHANGED <<tables, sent, acked, pc, args, work, wrote, locks>>

\* The worker dies or a statement fails: rollback, no answer.
Fail(t) ==
  /\ pc[t] \notin {"idle", "poisoned"}
  /\ End(t)
  /\ UNCHANGED <<tables, world>>

\* What t needs next and who holds it.
Needs(t) ==
  CASE pc[t] = "customer"    -> CustomerKeys(t)
    [] pc[t] = "sub"         -> {work[t].sub}
    [] pc[t] = "entitlement" -> {<<"entitlement", work[t].user>>}
    [] OTHER                 -> {}
WaitsFor(t, w) == Needs(t) \cap locks[w] # {}

\* PostgreSQL finds a cycle of waiting transactions and fails a statement of
\* one of them.
DeadlockVictim(t) ==
  /\ \E D \in SUBSET Tx :
       t \in D /\ \A d \in D : \E w \in D \ {d} : WaitsFor(d, w)
  /\ pc' = [pc EXCEPT ![t] = "poisoned"]
  /\ UNCHANGED <<tables, world, args, work, wrote, locks>>

Begin(t) ==
  \/ \E u \in User : BeginContract(t, u)
  \/ \E u \in User, a \in Answer : BeginValidate(t, u, a)
  \/ BeginReconcile(t)

\* Steps that wait for a row another transaction may hold.
Acquire(t) ==
  \/ CommitContract(t)
  \/ InsertEvent(t) \/ InsertOfUnknown(t) \/ Duplicate(t)
  \/ UpsertCustomer(t) \/ UpsertSubscription(t) \/ SyncEntitlement(t)

Step(t) ==
  \/ Commit(t) \/ Rollback(t) \/ DeadlockVictim(t)
  \/ \E r \in todo[t] : SkipRow(t, r) \/ \E a \in Answer : ReconcileRow(t, r, a)

Next ==
  \/ \E t \in Tx : Begin(t) \/ Acquire(t) \/ Step(t) \/ Fail(t)
  \/ \E t \in Tx, e \in Event : Deliver(t, e)
  \/ \E e \in Event, n \in Notice : Send(e, n)
  \/ Tick

Spec == Init /\ [][Next]_vars

\* Accepted requests keep running, lock queues are first come first served,
\* deadlocks are detected, the provider repeats an event until it has a 2xx
\* answer, and failures stop at some time.  So do deadlocks that a delivery
\* loses: it is repeated with growing pauses, and the reconciliation it meets
\* is a script that an operator starts.
Fairness ==
  /\ \A t \in Tx : WF_vars(Step(t)) /\ SF_vars(Acquire(t))
  /\ \A e \in Event : SF_vars(e \notin acked /\ \E t \in Tx : Deliver(t, e))
  /\ <>[][~\E t \in Tx : Fail(t) \/ (DeadlockVictim(t) /\ ev[t] # None)]_vars

FairSpec == Spec /\ Fairness

---------------------------------------------------------------------------
(* Properties *)

\* Every variable has its type.
TypeOK ==
  /\ now \in 0..MaxTime
  /\ customer \in [User -> Customer \cup {None}]
  /\ row \in [Sub -> SubRow \cup {None}]
  /\ ent \in [User -> Entitlement \cup {None}]
  /\ event \in [Event -> Outcome \cup {None}]
  /\ sent \in [Event -> Notice \cup {None}]
  /\ acked \subseteq Event
  /\ applied \in [Event -> Nat]
  /\ source \in [User -> Sub \cup {None}]
  /\ pc \in [Tx -> PC]
  /\ ev \in [Tx -> Event \cup {None}]
  /\ outcome \in [Tx -> Outcome \cup {None}]
  /\ work = [t \in Tx |-> work[t]]
  /\ wrote \in [Tx -> Seq(State)]
  /\ todo \in [Tx -> SUBSET [sub : Sub, user : User, receipt : BOOLEAN]]
  /\ locks = [t \in Tx |-> locks[t]]

\* The webhook is idempotent (README.md:24) and its record is true: however
\* often, late or concurrently an event is delivered, and wherever a delivery
\* dies, it changes a subscription once if its row says processed, and never
\* if it says something else or there is none.  No event is acknowledged
\* without a row.
WebhookIdempotent ==
  /\ \A e \in Event : applied[e] = IF event[e] = "processed" THEN 1 ELSE 0
  /\ \A e \in acked : event[e] # None

\* A user's plan is what the subscription that last spoke for him says now,
\* whatever webhooks, validations, reconciliations and first reads ran beside
\* each other.  While it entitles and its period lasts, the contract and
\* billing_me both show the paid plan, without ads; while it does not entitle,
\* both show the free one, with ads.  Once the period has ended the contract's
\* plan is free; nothing is asked of billing_me then, which goes on showing the
\* paid plan, nor of the contract's ads (FreeHasAds).
PlanFollowsSubscription ==
  \A u \in User :
    LET shown == <<EffectivePlan(u), StoredPlan(u), ContractAds(u)>> IN
    IF source[u] = None THEN shown = <<"FREE", "FREE", TRUE>>
    ELSE LET r == row[source[u]] IN
         r.user = u =>
           IF ~Entitles(r.plan, r.status) THEN shown = <<"FREE", "FREE", TRUE>>
           ELSE IF r.until = None \/ now <= r.until
                  THEN shown = <<"RIVIO_PLUS", "RIVIO_PLUS", FALSE>>
                  ELSE EffectivePlan(u) = "FREE"

\* The free plan has ads: _FREE_FEATURES (entitlements.py:36) and the catalogue
\* (entitlements.py:175) say so.  entitlement_out does not turn them on when a
\* paid plan expires.
FreeHasAds == \A u \in User : EffectivePlan(u) = "FREE" => ContractAds(u)

\* An event that no delivery can settle now: it cannot be read, it names a user
\* who does not exist, or a customer id that another user has than the one it
\* is for.
Hopeless(e) ==
  LET d == Normalized(sent[e]) IN
  \/ Unreadable(sent[e])
  \/ Draft(d).user \notin User \cup {None}
  \/ OutcomeOf(d, Draft(d)) = "processed" /\ Taken(customer, Draft(d))

\* An event the provider keeps sending gets a final status, though deliveries
\* fail, lose deadlocks and overlap, unless it is hopeless again and again.
EventsSettle ==
  \A e \in Event :
    sent[e] # None ~> event[e] # None \/ (sent[e] # None /\ Hopeless(e))
---------------------------------------------------------------------------
(* The inductive invariant *)

\* A subscription state as a webhook gives it, before it is checked.
IsDraft(w) ==
  /\ w = [user |-> w.user, customer |-> w.customer, sub |-> w.sub, plan |-> w.plan,
          status |-> w.status, until |-> w.until, receipt |-> w.receipt]
  /\ w.customer \in Customer \cup {None}
  /\ w.sub \in Sub \cup {None} /\ w.until \in Until /\ w.receipt \in BOOLEAN

\* What a transaction works on.
WorkOK(t) ==
  /\ pc[t] = "lazy" => work[t].user \in User
  /\ pc[t] = "insert" => IsDraft(work[t])
  /\ pc[t] \in {"customer", "sub", "entitlement"} => work[t] \in State

\* A delivery has written nothing before its last step, then one state if the
\* event is to be processed; from its insert on it holds the event's key, and
\* nobody else has given the event a status.
DeliveryOK(t) ==
  /\ pc[t] \in {"idle", "insert"} => wrote[t] = <<>> /\ todo[t] = {}
  /\ pc[t] = "idle" => ev[t] = None
  /\ pc[t] = "insert" => ev[t] # None
  /\ ev[t] # None => todo[t] = {}
  /\ ev[t] # None /\ pc[t] \in {"customer", "sub", "entitlement", "next"} =>
       /\ ev[t] \in locks[t] /\ event[ev[t]] = None
       /\ outcome[t] # None
       /\ pc[t] # "next" => outcome[t] = "processed"
       /\ Len(wrote[t]) = IF pc[t] = "next" /\ outcome[t] = "processed" THEN 1 ELSE 0

\* Nothing is locked twice.
LocksOK == \A t, w \in Tx : t # w => locks[t] \cap locks[w] = {}

\* The entitlement row of a user is what the subscription that set it gives
\* him, as long as that one is still his.
EntitlementFollows ==
  \A u \in User :
    IF source[u] = None THEN ent[u] \in {None, FreeRow}
    ELSE /\ row[source[u]] # None
         /\ row[source[u]].user = u => ent[u] = EntitlementOf(row[source[u]])

IInv ==
  /\ TypeOK
  /\ \A t \in Tx : WorkOK(t) /\ DeliveryOK(t)
  /\ LocksOK
  /\ EntitlementFollows
  /\ WebhookIdempotent
  /\ PlanFollowsSubscription
==============================================================================
