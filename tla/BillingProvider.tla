--------------------------- MODULE BillingProvider ---------------------------
(***************************************************************************)
(* What the payment providers say and how app/services/billing_provider.py *)
(* translates it: webhook notices into one normal form, and the answers of *)
(* the stores about a purchase into a subscription state.                  *)
(***************************************************************************)
EXTENDS Integers

CONSTANTS
  None,      \* an absent field
  Malformed  \* a text that is no date

SubscriptionStatus ==
  {"trialing", "active", "past_due", "canceled", "incomplete",
   "incomplete_expired", "unpaid"}

\* RTDN mapping of Google Play: notificationType to status.
GoogleNoticeStatus(n) ==
  CASE n \in {1, 2, 4, 6, 9}       -> "active"
    [] n \in {3, 7, 8, 12, 13}     -> "canceled"
    [] n \in {5, 10, 11}           -> "past_due"
    [] OTHER                       -> "incomplete"

\* App Store Server Notifications: notificationType to status.
AppStoreNoticeStatus(n) ==
  CASE n \in {"SUBSCRIBED", "DID_RENEW", "DID_RECOVER"} -> "active"
    [] n = "DID_FAIL_TO_RENEW"                          -> "past_due"
    [] n \in {"EXPIRED", "REFUND", "REVOKE", "GRACE_PERIOD_EXPIRED"} -> "canceled"
    [] OTHER                                            -> "incomplete"

\* What raises a ValueError before anything is written: a body in no form that
\* is known (without id or type, a type that is no number), or a period whose
\* date _parse_datetime cannot read.  The stores' own dates are numbers; one
\* that is wrong is left out.
Unreadable(n) ==
  \/ n.form \notin {"normal", "app_store", "google_play"}
  \/ n.form = "normal" /\ n.until = Malformed

\* normalize_provider_webhook_payload.  A body with id and type is taken as it
\* is; the two stores' own bodies get a type of their own.
Normalized(n) ==
  CASE n.form = "normal" -> n
    [] n.form = "app_store" ->
         [n EXCEPT !.type = "app_store", !.plan = None,
                   !.status = AppStoreNoticeStatus(n.type)]
    [] n.form = "google_play" ->
         [n EXCEPT !.type = "google_play.subscription_notification",
                   !.user = None, !.customer = None, !.plan = None, !.until = None,
                   !.status = GoogleNoticeStatus(n.type)]

\* int(response.get("status") or -1): the 0 with which Apple accepts a receipt
\* counts as absent and becomes -1.
ReceiptCode(code) == IF code \in {None, 0} THEN -1 ELSE code

\* validate_app_store_receipt goes on with a status of 0 only.  Google Play's
\* answer has no such code: what it does not accept it does not answer.
Accepted(a) == a.store = "google_play" \/ ReceiptCode(a.code) = 0

\* validate_app_store_receipt: the latest transaction is active while its
\* period has not ended, unless it was cancelled.
ReceiptStatus(cancelled, until, now) ==
  IF ~cancelled /\ until # None /\ until > now THEN "active" ELSE "canceled"

\* _google_state_to_status, for validate_google_play_purchase.
GoogleStateStatus(s) ==
  CASE s = "ACTIVE"                                     -> "active"
    [] s \in {"IN_GRACE_PERIOD", "ON_HOLD", "PAUSED"}   -> "past_due"
    [] s \in {"CANCELED", "EXPIRED"}                    -> "canceled"
    [] OTHER                                            -> "incomplete"

\* What a store's answer about a purchase says of the subscription.
AnswerStatus(a, now) ==
  IF a.store = "app_store" THEN ReceiptStatus(a.state = "CANCELED", a.until, now)
                           ELSE GoogleStateStatus(a.state)
==============================================================================
