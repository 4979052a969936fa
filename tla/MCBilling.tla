------------------------------ MODULE MCBilling ------------------------------
(* A small instance of Billing for TLC: three scenarios in one run. *)
EXTENDS Billing

CONSTANTS u1, u2, nobody, s1, s2, c1, e1, e2, t1, t2

Says(form, type, user, product, status, until) ==
  [form |-> form, type |-> type, user |-> user, customer |-> c1, sub |-> s1,
   product |-> product, plan |-> None, status |-> status, until |-> until]

\* An activation that names its user, a renewal that does not, a cancellation,
\* an activation for another user with the same customer id, a product without
\* a plan, neither product nor status, a notice in the App Store's own form, an
\* activation for a user who does not exist and one whose date is no date.
MCNotice ==
  {Says("normal", "subscription.created", u1, "RIVIO_PLUS", "active", 0),
   Says("normal", "subscription.renewed", None, "RIVIO_PLUS", "past_due", None),
   Says("normal", "subscription.deleted", u1, "RIVIO_PLUS", "active", 0),
   Says("normal", "invoice.paid", u2, "RIVIO_PLUS", "active", 0),
   Says("normal", "invoice.paid", u1, "unmapped", "active", 0),
   Says("normal", "subscription.updated", u1, None, None, 0),
   Says("app_store", "DID_RENEW", u1, "RIVIO_PLUS", None, 0),
   Says("normal", "subscription.created", nobody, "RIVIO_PLUS", "active", 0),
   Says("normal", "subscription.created", u1, "RIVIO_PLUS", "active", Malformed)}

\* Google Play confirms the subscription without a customer id, has ended it, or
\* has another order; App Store accepts a receipt.
Answers(store, code, state, until, sub, cust) ==
  [store |-> store, code |-> code, state |-> state, until |-> until, sub |-> sub,
   customer |-> cust, product |-> "RIVIO_PLUS"]
MCAnswer ==
  {Answers("google_play", None, "ACTIVE", 1, s1, None),
   Answers("google_play", None, "EXPIRED", 0, s1, c1),
   Answers("google_play", None, "ACTIVE", 0, s2, None),
   Answers("app_store", 0, "", 1, s1, None)}

VARIABLE scenario

\* In "stores" one event is sent: slot t1 brings it; t2 does too, validates
\* purchases of u2, reconciles and is u1's first look at his plan.  In "order"
\* two events about one subscription arrive in any order.  In "overlap" an event
\* moves a subscription of u1, whose purchase t2 has validated, to u2 while t2
\* reconciles both users' rows: they can deadlock.
Asks(t) ==
  \/ pc[t] # "idle" \/ pc'[t] = "idle"
  \/ pc'[t] \in {"insert", "poisoned"} /\ (scenario = "overlap" => t = t1)
  \/ pc'[t] = "next" /\ t = t2
  \/ /\ pc'[t] \in {"lazy", "customer"} /\ t = t2
     /\ \/ scenario = "stores" /\ work'[t].user = IF pc'[t] = "lazy" THEN u1 ELSE u2
        \/ scenario = "overlap" /\ pc'[t] = "customer"
Scenario ==
  /\ scenario' = scenario
  /\ \A t \in Tx : Asks(t)
  /\ CASE scenario = "stores"  -> sent'[e2] = None
       [] scenario = "order"   ->
            /\ sent'[e2] # None => sent'[e1] # None
            /\ \A e \in Event : sent'[e] # None =>
                 sent'[e].form = "normal" /\ ~Unreadable(sent'[e]) /\ sent'[e].user # nobody
       [] scenario = "overlap" ->
            /\ now' = 0 /\ sent'[e2] = None
            /\ sent'[e1] # None => sent'[e1].user = u2
            /\ \A t \in Tx : pc[t] = "idle" /\ pc'[t] = "customer" =>
                 work'[t].user = (IF work'[t].sub = s1 THEN u1 ELSE u2)
MCInit == Init /\ scenario \in {"stores", "order", "overlap"}
MCFairSpec ==
  /\ MCInit
  /\ [][Next /\ Scenario]_<<vars, scenario>>
  /\ Fairness
==============================================================================
