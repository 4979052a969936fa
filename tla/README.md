# Rivio backend: formal verification

TLA+ models of the padel ranking backend under `src/backend` (FastAPI handlers
with raw SQL on PostgreSQL), the TLC runs that check them and the TLAPS proofs
about them. `PROJECT.json` holds the same information in machine-readable form:
components, runs, mutants, the map from definitions to source lines, hazards,
findings and theorems.

## 1. The system

The program keeps all its state in PostgreSQL. Every HTTP handler is one
transaction under READ COMMITTED: `get_db` (`app/db/session.py:16`) opens a
session, the handler commits at most once at its end, and closing the session
rolls back whatever was not committed. Two workers with a thread pool each run
handlers concurrently; scheduled scripts run beside them. Nothing else is
shared, so all interaction goes through rows, row locks and unique indexes.
SQL's `now()` is the start of the transaction, `now_utc()` the wall clock; the
code uses both.

| Component | State | Operations | What is hard | What makes it correct |
|---|---|---|---|---|
| Match confirmation (`modules/matches/api.py`) | `matches`, `match_scores`, `match_confirmations` | `confirm_match` (confirm, counter-propose), `match_detail` (expires on read) | concurrent confirmations and proposals, expiry meeting a late confirmation | verified only on a score both teams agreed to; decided matches are frozen; counters agree with rows |
| Ranking (`_apply_ranking_for_match`, `services/elo.py`) | `user_ladder_state`, `rating_events` | called in the verifying transaction | two matches of the same players at once, row locks taken in no fixed order | no lost update, one rating per match and player, provisional cap |
| Match creation (`create_match`) | `matches` and its children | create | block rules counted over rows other requests write; foreign-key locks | at most two live pending matches per creator, none while one is overdue |
| Account deletion (`modules/me/api.py`, `scripts/process_account_deletions.py`) | `account_deletion_requests`, `users.status`, `auth_sessions` | request, cancel, scheduled job, status checks at login | job against cancellation, double requests, tokens that expire during the grace window | cancelled or executed, never both; status follows the requests; every request is settled |
| Authentication (`modules/auth/api.py`, `api/deps.py`) | `auth_otps`, `auth_identities`, `auth_sessions` | OTP request and use, register, login, refresh, logout, logout-all, password reset | refresh rotation against revocation, attempt limits | a token is rotated at most once, revoked stays revoked, five attempts per code |
| Analytics (`services/analytics.py`) | `user_analytics_*` aggregates | `apply_verified_match_analytics`, `rebuild_analytics` | incremental update against rebuild, order of verification against order of play | no verified match missing; the row kept up step by step is what its definition says of the matches counted |
| Billing and entitlements (`services/billing*.py`, `services/entitlements.py`) | customers, subscriptions, webhook events, entitlements | webhook, checkout, store validation, reconcile | duplicated, late and reordered webhooks, failing handlers | the entitlement follows the subscription; an event is applied once; every event settles |
| Profile, eligibility, contact, avatar (`modules/me/api.py`) | profiles, ladder state, identities | update, contact change with OTP, avatar upload | profile changes beside `create_match`; read-then-write without locks | every match has the ladder, the rows and the category of its players |
| Support (`modules/support/api.py`) | tickets | create | count-then-insert without a lock | daily limit and spacing |
| History, rankings, analytics reads | none | listings with cursors | pages while rows are inserted | no row skipped or shown twice |
| Users, clubs, config, audit; shell, migrations, scripts | lookups, append-only log | – | – | – |

`confirm_match` calls `_apply_ranking_for_match`, which calls
`apply_verified_match_analytics`; all three write in one transaction. Account
deletion and authentication meet in `users.status` and `auth_sessions`. Match
creation supplies the initial state of confirmation, and confirmation decides
whether its creator is blocked. The full list of hazards, each at its line and
with the properties that watch it, is `hazards` in `PROJECT.json`; those without
a property say why.

## 2. Plan

In order of importance, each with its state:

1. **MatchConfirm** with **MatchAgreement** (abstract specification) and
   **MatchConfirmProofs** – done.
2. **MatchCreation**, **AccountDeletion**, **Sessions** – done.
3. **OneTimeCodes**: issue with cooldown and consumption with at most five
   attempts, shared by registration, reset and contact change – done.
4. **Analytics**: incremental aggregates against their definition over the
   sequence of matches counted, rebuild beside confirmations – done.
5. **Billing** with **BillingProvider** (what each provider's payload says):
   webhooks, store validation, reconciliation, entitlements – done.
6. **Profile**: gender and category changes beside creation – done.
7. **MatchScore**: which scores are accepted and who won, against the rules of the
   game – done.
8. A proofs module for each state machine, with the inductive invariant its run
   checks – done: every safety invariant and every action property of the passing
   runs is a theorem (section 5), and so is the refinement of MatchAgreement.
9. Left: limits on logins and support tickets, which have no protocol. Liveness
   stays with TLC.

## 3. The modules and the code

### MatchConfirm

A request is a transaction in a slot of `Tx`. The slots are what bounds the
concurrency; a slot is reused when its request has ended.

| Code (`matches/api.py`) | Action |
|---|---|
| participant check before the lock (605–608) | `Begin` |
| `SELECT ... FOR UPDATE` of the match (610–624) | `LockMatch` |
| overdue: mark expired, commit, 409 (626–633) | `ExpireOnConfirm` |
| not pending: 409 (635–639) | `RejectNotPending` |
| proposal over the limit or malformed (653–660) | `RejectProposal` |
| counter-proposal: reset confirmations, commit (652–702) | `Propose` |
| own row confirmed, one team so far, commit (704–727) | `Confirm` |
| both teams: enter `_apply_ranking_for_match` (729–758) | `EnterRanking` |
| lock one ladder row (381–392) | `LockLadder` |
| score, status, ratings, events, analytics, commit (343–470) | `Verify` |
| `match_detail` reads the row, then updates it (520–554) | `BeginDetail`, `DetailExpire` |
| rollback on error or death (`db/session.py:16`) | `Fail`, `End` |

The model keeps the moments at which transactions can wait or see each other's
commits. Writes made under a row lock and committed at the end are one action
with the commit, since nobody can read them before. `seen` is what the handler
read under the match lock, `stake` each ladder row as read when its lock was
granted; decisions are taken on these copies, so that a missing `FOR UPDATE`
shows as stale data (two of the mutants are exactly that). PostgreSQL's lock
table is `matchLock` and `ladderLock`; `DeadlockVictim` is its deadlock
detector. `agreed` is a history variable: the score a player last said yes to.

Abstracted: the size of an Elo change is any member of `Delta`, its sign and
the provisional cap are the code's. A score is any value with a winner; a
malformed payload is one outside `Score`. The runs take real scores, `Score` and
`Winner` from MatchScore. All matches are of one ladder, because
ladder rows of different ladders are different rows. Creation is the initial
state: each match starts as `create_match` leaves it. The four early returns of
`_apply_ranking_for_match` cannot apply to a match that was pending when its row
was locked.

### MatchScore

`MatchScoreIn` as operators: `Accepted` is `validate_score_json` (each set, then
the counts of sets won), `DerivedWinner` is `derived_winner`. A score is the
sequence of its sets; JSON of another shape, which is refused before the counts,
is left out. `BestOfThree` is the reference: the rules by which a match is played.

### MatchAgreement

The promise without transactions: an offer, its backers, a limited number of
counter-offers, one step that settles the match when both teams back the offer
and moves the ratings of its players up or down with the result, and one that
lets it lapse. `ImplementsAgreement` maps the offer to the active score
(`COALESCE(proposed, recorded)`), the backers to the confirmed rows and
`played` to `verified_matches`. Each commit is one abstract step, everything
else a stutter.

### MatchCreation

`create_match` from `get_current_user` (which fixes `now()`) over the lock on
the creator's `users` row, the three counting SELECTs of `_assert_block_rules`
(each sees what is committed when it runs) to the inserts. Inserting a
participant takes the foreign-key lock `FOR KEY SHARE` on that user's row, which
conflicts with another creator's `FOR UPDATE`: that is the deadlock the module
is about. `view` is what a transaction's `now()` says about the age of each
match, which can be older than the clock. Refusals for reasons of line-up, club,
profile, category or score are one nondeterministic `Refuse`. Verification and
expiry by the other handlers are environment actions, both modelled in full in
MatchConfirm.

### AccountDeletion

`request_account_deletion`, `cancel_account_deletion`, the job and the status
check of login, with `SELECT ... FOR UPDATE` in two parts: a snapshot of the
matching rows, then a visit of each, which waits for its lock and drops it when
it no longer matches – PostgreSQL's rule under READ COMMITTED. The job visits
all rows that are due, the handlers stop at the first. Refresh asks for the same
status as login and gives the same thing, so it is not a separate action.
`doubled` is a history variable that records that a second request was accepted
while one was open (see Findings): without it `StatusTellsRequests` and
`DeletedIsFinal` could not be stated for the users it does not happen to.

### Sessions

The sessions of one user; no handler touches those of another. `login`,
`refresh` (lock the session row, check it, rotate it), `logout` and the statement
`UPDATE auth_sessions ... WHERE revoked_at IS NULL`, which `logout_all`,
`password_reset_confirm` and `request_account_deletion` share. That statement is
a snapshot, a visit of each row shown and a commit, by PostgreSQL's rule above.
The deletion request holds the `users` row meanwhile, so that a login, which
updates it, has to wait (`UsersRowFree`). Two history variables: `root` is the
session a login created, `covered` the sessions a committed revoke-all found
live. Passwords and codes are checked or not; their contents are not modelled.

### OneTimeCodes

Codes sent to a contact for registration and password reset (`auth_otps`) and for
a contact change (`user_contact_changes`): request, use, and
`scripts/cleanup_auth_artifacts.py`. `since` is a transaction's `now()`: a code's
`created_at` is that of its transaction, its expiry the wall clock, and the last
code of a purpose is the one of the latest `created_at`, so a transaction that
began early can store a code that is never the last. Use is in three steps: pick the
last row, wait for its lock and check it (`WrongCode` commits the attempt), then
write and commit. `UniqueViolation` is the losing side of a race for a contact,
which fails on the unique index and gives the code back. Two histories: `uses`
counts the effects a code had, `passed` the newer codes that existed when a request
came. A code is right or wrong; contacts are normalised.

### Analytics

The aggregates of one user: a row per match applied, the state row, a row per
partner and per rival. `apply_verified_match_analytics` runs inside the verifying
transaction (`BeginVerify` to `CommitVerify`) and takes the rows in a fixed order;
`rebuild_analytics` deletes the tables one after another (`DeleteOrder`), selects
the verified matches and replays them. Both are sequences of single-row writes,
each visible to the other only after commit (`Sees`), each waiting for the other's
uncommitted row (`Write`). Verifications of the same user exclude each other
already by the ladder row (`Rating`), so one confirming process is enough. `log` is the
history a row is compared with: the matches it has counted, in order; a partner's or
rival's row is that sequence itself. Matches are numbered in the order of play, so
that the rebuild's `queue` is a set whose least member is next (`Replay`).
`EveryMatchCounted` says once, except for the matches in `raced`, which were verified
while the last rebuild was deleting (see Observations). `StateFollowsLog` compares
each column with its definition over the whole log: a streak is the run of equal
results at its end, the records are the longest runs, the form bits are the last
results. The activity windows count applied rows, not the log, so they are
compared when no match is in the log twice.

### Billing and BillingProvider

BillingProvider is the translation: what an App Store notification, a Google Play
message, a store's receipt answer or a normal webhook says about a subscription.
It also says what is not accepted: a notice that cannot be read (`Unreadable`: an
unknown form, a date `_parse_datetime` refuses) and a receipt whose status is not 0
after `int(... or -1)` (`ReceiptCode`, `Accepted`).
Billing is the transactions: webhook (`Deliver`, `InsertEvent`, `Duplicate`), the
three upserts every path shares (`UpsertCustomer`, `UpsertSubscription`,
`SyncEntitlement`), store validation, reconciliation over the rows its SELECT
returned, and the lazily inserted FREE entitlement of a first read. An upsert holds
its row until the transaction ends; what it wrote is in `wrote` and shows at
`Commit`. `Draft` is the state an event speaks of, with the user `Resolve` finds
for an event that names none; `OutcomeOf` decides what `ingest_webhook_event`
stores: processed, ignored, or error when a product has no plan or a status is
unknown. A store may answer about another subscription than the row a
reconciliation asked for; the state it reports is applied to the one it names.

A unique violation, a deadlock or an event for a user who does not exist
(`InsertOfUnknown`: the foreign key of the event row) poisons the transaction
(`poisoned`): the later statements fail, the request ends with a rollback and without
a 2xx answer, and the provider sends the event again (`Deliver` is fair until
`acked`). So does an unreadable notice, which raises before anything is inserted.
Neither of these two ever settles, nor does an event with a customer id that another
user than the resolved one has: `Hopeless` names the three cases, and `EventsSettle`
excuses an event only if one of them comes back again and again.

A plan has two readers. `get_user_contract` shows `EffectivePlan`, which looks at the
expiry, with the ads of the stored row (`ContractAds`); `billing_me` shows
`StoredPlan`, which does not look. `PlanFollowsSubscription` compares both with the
subscription, and while the period lasts they must agree with it and with each
other; what they show after it is under Findings and Observations.

### Profile

`update_profile` as the statements it runs: read the profile, check, update it,
then for the primary and the MX ladder read the row, count the player's matches,
write. `create_match` beside it: read the genders, read the rows, read the
categories, insert. `draft` holds what an update has written and not committed,
`locks` the rows it holds. Only gender and category are modelled. Two histories: `crossed` are
players who had two updates under way at once, for whom the code guarantees
little (see Observations), and `beside` the creations that an update of one of
the players overlapped.

## 4. Runs

| Run | Bounds | Shows |
|---|---|---|
| `confirm` | 4 players, 2 concurrent requests, 2 valid scores and a malformed one, 2 proposals, Elo changes 0 and 40 (below and above the cap), provisional for one match; scenarios: 3 players negotiate 1 match, one player per team confirms 2 matches of the same 4 players in mixed pairs | the inductive invariant, agreement, no missed verification, rated with the final score, frozen decisions, refinement of MatchAgreement; no lost rating, rated once, cap, ratings move with verification, every request ends, deadlocked ones too |
| `creation` | 3 match ids, 2 concurrent requests, in three scenarios: one creator against his limit, one with an overdue match, two creators in each other's line-up | the inductive invariant, limit of two pending, no creation past an overdue match, every request ends |
| `deletion_lifecycle` | 1 user, 2 request rows, 2 slots and the job | the inductive invariant, cancelled or executed, never both, status follows requests, deleted is final, every request settled |
| `deletion_double` | 1 user, 3 rows, 2 slots | violation: two open requests |
| `deletion_grace` | the same | violation: locked out while cancellation is promised |
| `sessions_rotation` | 3 sessions of one user, 2 concurrent requests | the inductive invariant, one live session per login, nothing revoked is rotated |
| `sessions_logout_all` | the same | violation: a login outlives a revoke-all |
| `billing` | 2 users, 2 subscriptions, 1 customer id, 9 kinds of notice (one unreadable, one for an unknown user), 4 store answers, 2 concurrent requests, time 0..1; scenarios: one event beside the stores and a first read, two events in any order, an event and a reconciliation that want each other's rows | the inductive invariant, events applied once, both readers of a plan follow the subscription, events settle |
| `billing_expired` | the same | violation: the free plan without ads |
| `analytics` | 3 matches of one user (won, lost, won) with 3 other players, one confirmation and one rebuild at a time | the inductive invariant, no match missing, the row equals its definition, every request ends |
| `one_time_codes` | 3 users, 3 contacts, 2 codes, 2 concurrent requests, time 0..4 with cooldown 2, life 2, retention 3, 1 attempt | the inductive invariant, a code takes effect once, a replaced one never, contact and identity agree, cooldown |
| `profile` | 1 player who changes his profile, 5 who are complete, line-ups of his in two ladders, 3 categories, 2 matches, 2 concurrent requests | the inductive invariant; ladder, rows and category of a match fit its players; gender, ladder rows and MX category fit each other |

Why the bounds are enough. Every hazard listed is a race of two transactions (or
of one and the job), hence two slots. Two players of one team and one of the other have every
case of "own team, other team, same player again" (the fourth would play the part of
the third); two valid scores give a proposal, a counter-proposal and a return to the
first, with the limit at its real value of 2. Two matches that share all four players in different pairs give
the ladder locks in opposite orders; a player of each team is enough to verify both. Three match ids let a creator reach the
limit and try to pass it. Two rows of deletion requests let one be cancelled and
another be made, or two be open. Rows and ids are not reused: they bound the
number of creations (`Match` in MatchCreation, `RowLeft` in AccountDeletion,
`IdLeft` in Sessions). Three sessions are one login whose token is presented
twice at the same time, or a rotated login beside another. Two codes are a code and
its replacement, and the clean-up can delete the newer of them; the time bounds let
a code expire, a cooldown end and a retention pass while a request waits
(`MaxWait` bounds how old a transaction's `now()` gets, `MaxCodes` and `MaxTime`
the rest). Three matches make a streak, break it and begin another, with windows
and forms shorter than the history. Two events about one subscription are an
activation and what follows it, in either order of arrival; a third adds only
another last event. Two matches in one ladder and in MX let a category be
pinned by either.
Symmetry is used over slots, over rows and ids, and over players with the same
part, never in the runs with liveness properties. MC modules restrict who sends
requests (`AskedBy`, `Asks`) where the question is about those users
only; the other actions are unrestricted. `confirm`, `creation` and `billing` choose a
scenario in the initial state instead of a run for each. That the safety properties do not depend on
who asks, nor on any of these bounds, is proved (section 5).

Deadlock checking is on in every run: time and failures aside, some request can
always begin or continue.

Every property has a mutant, a plausible bug in one definition (`FOR UPDATE`
left out, a count taken before the own row is written, a reset forgotten, an
off-by-one in a limit, an unguarded late expiry, an error path that keeps its
locks) under which TLC finds it violated with the same configuration. Mutants
stand right before the definition they change.

### Fairness

- Handler steps that wait for nothing are weakly fair: an accepted request keeps
  running. Beginning a request, a failure and (outside AccountDeletion) the
  passing of time are not fair.
- Steps that take a row lock are strongly fair: PostgreSQL grants row locks in
  order of arrival, so a waiting transaction gets a lock that is released again
  and again.
- `DeadlockVictim` is fair: PostgreSQL runs its deadlock check on every wait
  (`deadlock_timeout`). Without it `RequestsEnd` fails, since the code orders
  neither the ladder locks nor the foreign-key locks.
- In Billing the provider sends an event until it has a 2xx answer, and from some
  time on requests do not fail and a delivery does not lose a deadlock
  (`<>[][~\E t : Fail(t) \/ ...]_vars`): store providers repeat their webhooks with
  growing pauses, and the reconciliation they can collide with is a script started
  now and then. If the two met every time, an event would never be applied. In Analytics nothing is assumed of failures: a failed request has ended.
- OneTimeCodes and Profile have safety properties only and state no fairness.
- The deletion job is scheduled again and again, and from some time on does not
  fail (`<>[][~JobFails]_vars`); grace windows end.

## 5. Proofs

Every safety invariant and every action property of the passing runs is proved for
all values of the constants: any number of users, matches, rows, slots and events,
any limits. Each proofs module has one shape. The inductive invariant `IInv` stands
at the end of the module it is about, and the module's run checks it, so that what the
proofs rest on is what TLC sees hold. One lemma per action shows that a step keeps
`IInv`; `Invariance` collects them, and the properties follow.

| Module | Theorem | Says |
|---|---|---|
| `MatchConfirmProofs` | `Invariance`, `TypeCorrect` | `Spec => []IInv`; every variable has its type |
| | `VerifiedByBoth` | a verified match has a score a player of each team agreed to |
| | `Negotiation` | confirmations stand for the active score, the count is exact, no missed verification, proposals bounded |
| | `DecidedFrozen` | verified and expired matches no longer change |
| | `NoLostRating` | the rating events of a player are an unbroken chain from the initial to the current rating |
| | `RatingsMove`, `RankedOnce` | ratings change only in the commit that verifies a match, once and for exactly its players |
| | `FinalScoreRated`, `CapHolds` | no winner loses points and no loser gains by the agreed score; a provisional player moves at most by the cap |
| | `Implementation` | MatchConfirm implements MatchAgreement |
| `MatchCreationProofs` | `Invariance`, `Limit`, `Blocked` | at most two live pending matches; none created past an overdue one |
| | `AcceptsResults`, `WinnerWon` | what MatchScore accepts is a result, and its winner the team that won |
| `AccountDeletionProofs` | `Invariance`, `Exclusive`, `StatusFollows`, `DeletedFinal` | cancelled or executed; the status tells the requests; deleted stays deleted |
| `SessionsProofs` | `Invariance`, `OneLive`, `RefreshFromLive` | one live session per login; nothing revoked is rotated |
| `OneTimeCodesProofs` | `Invariance`, `Once`, `Replaced`, `Mirror`, `Cooldown` | a code takes effect once, a replaced one never; contacts and identities agree; codes are a cooldown apart |
| `BillingProofs` | `Invariance`, `Idempotence`, `PlanFollows` | an event is applied once; both readers' plan is the subscription's |
| `ProfileProofs` | `Invariance`, `Fits`, `Consistent`, `CategoryStays` | ladder, rows and category of a match fit its players; a player's rows fit his gender |
| `AnalyticsProofs` | `Invariance`, `Counted`, `Incremental` | no match is missing from a row; the row is what its definition says of the matches counted |

### What the invariants add

None of the properties is inductive by itself. What the invariants add is, each time,
what a transaction may rely on between reading and writing: the row lock it holds, a
lock somebody else must hold to change what was read, or that a change goes in one
direction only.

- **MatchConfirm.** `HoldsMatch`: from the first lock on a request holds the row of its
  match, and what it read is still there, which lets the later steps argue about
  the database from the handler's own copy. `RankingAgreed`: a request that ranks
  completes both teams. `StakeCurrent`: a locked ladder row stands as it was read,
  which is why no rating is lost. `MatchOK`: the confirmed rows are players who
  agreed to the active score, both teams are among them exactly when the match is
  verified. `LedgerChain` and the ranking properties are proved beside `IInv`, from
  one lemma on what `Verify` appends.
- **MatchCreation.** `PendingOK`: while a request holds the row of its creator, his
  live matches get no more after they were counted, since a creation needs that
  row. `OverdueOK`: a match that was overdue can only be verified, or marked expired,
  which the next SELECT sees; so three SELECTs on three snapshots miss nothing.
  `MatchesOK` says that finitely many matches exist, or they could not be counted.
- **AccountDeletion.** `HoldsOpen`: the rows a slot got stay open while it holds them.
  `RequestOK`: a request began for a user all of whose earlier requests had been
  cancelled. `RowOK`: what is due is older than every transaction under way, so the
  job executes nothing a cancellation has not had the chance to see.
- **Sessions.** `RefreshOK`: from its check on a refresh holds the row and what it
  read there is so. `RevokeAllOK`: the rows of a revoke-all are locked by it until
  it commits. `RootsMade` keeps new ids apart from the logins there are.
- **OneTimeCodes.** `NumbersOrdered`: numbers follow the times of the requests, though
  rows become visible in another order. `PickedOK`: newer codes than the one picked
  were already deleted, and `RowOK` that a deleted code is outdated; together with
  `TimeAssumption` a replaced code has expired before the clean-up forgets its
  replacement. `IssueOK`: a code under way keeps the cooldown to those its SELECT
  could see. `AcceptedOK`: an accepted code is locked and unused.
- **Billing.** `DeliveryOK`: from its insert on a delivery holds the event's key, and
  has written one state exactly if the event is to be processed. `LocksOK`: nothing is
  locked twice. `EntitlementFollows`: a user's row is what the subscription that set
  it gives, as long as that is still his.
- **Profile.** `UpdateOK`: the draft of an update has the rows it has come to, with
  the category asked for. `AloneOK`: where updates never crossed, the gender read is
  still the player's. `CreateOK`: the ladder a creation computed is that of its
  players, and the category their median unless an update came between. `SettledOK`:
  no update under way will change a row a match was made with.
- **Analytics.** `ConfirmOK`: a confirmation has written exactly the rows it has come
  to, each with its match on top of what is committed (`Written`). `DeleteOK`: a row
  the DELETEs have come to is deleted, or counts only matches verified since they
  began. `ReplayOK`: what the rebuild leaves behind counts every verified match it has
  not still to count (`Pending`). `AppliedOK`: a verified match has its applied row.
  `EventOK`: events belong to the verified matches, numbered in their order.
  `DraftOK`: `StateFollowsLog` for the row being written. That the row keeps
  following its log when one match is appended is a lemma per column (streak, records,
  forms, totals, peak, windows), about any sequence; no induction over it is needed.

`Implementation` maps every step of MatchConfirm to a step of MatchAgreement or a
stutter: `Propose`, `Confirm`, `Verify` and the two expiries are abstract steps, the
locks and failures stutter.

`AcceptsResults` and `WinnerWon` are about every sequence of sets, of any length and
with any integers as games; they count the sets won through two lemmas on the
cardinality of sets of positions and compare case by case. `WinnerWon` is why the
second part of `ScoreAssumption` below holds of the code.

### Assumptions

TLC evaluates all of them in the runs.

- `None` is not a value of what it stands beside (`NoneAssumption`), and the job is no
  request slot (`JobAssumption`).
- MatchConfirm: the teams of a match are disjoint, its players finitely many and its
  creator one of them (`TeamAssumption`); accepted scores are payloads and have a
  winner (`ScoreAssumption`); limits and Elo magnitudes are naturals
  (`NumberAssumption`).
- MatchCreation: line-ups are sets of users (`LineupAssumption`).
- OneTimeCodes: bounds are naturals (`BoundAssumption`); initially a contact
  identifies at most one user and who has an account without a password has a
  contact (`InitAssumption`); `RETENTION >= TTL + MaxWait` and `RETENTION >= COOLDOWN`
  (`TimeAssumption`): 30 days against minutes and two minutes in `config.py`. Without
  it the clean-up could delete the newer of two codes while the older is valid.
- Billing: a notice that can be read has a customer id, a subscription and a period of
  their types or `None`; of its user, product and status nothing is assumed
  (`NoticeAssumption`). What a store answers has a customer id or `None`, a
  subscription, a product with a plan and a period (`AnswerAssumption`).
- Profile: a line-up has four players (`LineupAssumption`); the sort orders of the
  categories have no gaps (`CodeAssumption`), so that the rounded mean of two of them is
  one; the MX category is a function of gender and category (`MxAssumption`); who has
  no gender has no rows (`InitAssumption`).
- Analytics: matches are numbered in the order of play (`PlayOrder`); results, partner
  and rivals of each are given (`ResultAssumption`); the windows of the form bits are
  positive and the 10 of `recent_10_*` fits into them (`NumberAssumption`).

### Restated to be reasoned about

Recursive operators and folds hide a definition from the prover, so some definitions
are given by what they compute: the publication of a Billing commit is the last
write per user and subscription; Profile's median is the rounded mean of the two middle
players; Analytics' streaks and forms are stated over positions of the log. TLC
checks the same runs on them, and that the median is what sorting gives, for all
lists of four categories up to five (`MedianChecked` in MCProfile).

### Only model-checked

Liveness: `RequestsEnd` (MatchConfirm, MatchCreation, Analytics), `RequestsResolve`
(AccountDeletion) and `EventsSettle` (Billing) depend on fairness and `ENABLED`, which
are out of the prover's reach. The four violations need no proof: their
counterexamples are behaviours of the code.

## 6. Findings

- **Two open deletion requests** (`deletion_double`). `request_account_deletion`
  looks for an open request with `FOR UPDATE` and inserts one when there is none;
  no row, no lock, and the table has no unique index on open requests. Two
  concurrent requests are both accepted, though the handler answers 409 "Ya tienes
  una eliminacion de cuenta programada" to a second one. Cancelling closes one;
  the account is active again and the job still anonymizes it when the other is
  due.
- **Cancellation out of reach** (`deletion_grace`). A request revokes all
  sessions, and login and refresh refuse a user in `pending_deletion`. Once the
  access token (60 minutes) has expired nothing lets the user reach
  `deletion-cancel` in the rest of the days `README.md:21` promises for it.

- **A login outlives logout-all** (`sessions_logout_all`). The statement that
  revokes all sessions does not see the replacement that a refresh under way
  commits while the statement waits for the old row, and the old row no longer
  matches. `test_logout_all_revokes_refresh_sessions` states the promise for calls
  one after the other; the run shows the interleaving in which it fails. The
  password reset and the deletion request share the statement.

- **The free plan without ads** (`billing_expired`). When a paid period ends
  `resolve_effective_plan` shows the free plan, but `entitlement_out`
  (`services/entitlements.py:145`) keeps the stored `ads_enabled=False`: it turns ads
  off for the paid plan and never on. The free plan has `ads_enabled=True`
  (`entitlements.py:36`) and "anuncios" in the catalogue (`entitlements.py:175`); the
  same answer says `effective.ads_enabled` true and `current.ads_enabled` false.

### Observations

Behaviour the models show and the properties make room for, without a run of its
own.

- **Double counting beside a rebuild.** A match verified after a rebuild has deleted
  a table, and before its SELECT of the verified matches, is counted by its own
  transaction and then again by the rebuild, which does not look at the applied
  rows (`enforce_idempotency=False`). `docs/releases/v0.1.4.md:61` says
  "Idempotencia garantizada por `(user_id, match_id)` para evitar doble conteo";
  `EveryMatchCounted` holds with the exception of matches verified while a rebuild
  was deleting.
- **Cooldown of codes.** Two requests at the same time both find no recent code and
  both get one (`auth/api.py:71`); `CooldownKept` says that nothing else breaks the
  cooldown.
- **Category beside creation.** An update counts the player's matches, a match
  commits, the update writes (`me/api.py:264`): the category changes although the
  player takes part in a match. `CategoryFits` says that only an update that was
  under way can.
- **Two first updates at once** of a player without a gender can leave him the
  gender of one and the rows of the other (`me/api.py:784`).
- **Native store notices.** `normalize_provider_webhook_payload` gives App Store and
  Google Play notices types of their own (`app_store.did_renew`,
  `google_play.subscription_notification`), which are in neither list of types
  `ingest_webhook_event` acts on: they are stored as ignored, and the stores' state
  arrives by validation and reconciliation alone.
- **Two readers of an expired plan.** `billing_me` (`billing/api.py:69`) shows the
  stored plan: after its period it says RIVIO_PLUS where the contract says FREE.
  `PlanFollowsSubscription` asks nothing of it then.
- **Apple's success status.** `int(response.get("status") or -1)`
  (`billing_provider.py:210`) turns the 0 with which Apple accepts a receipt into -1:
  every accepted receipt is refused, and App Store validation and reconciliation
  never apply anything. `ReceiptCode` has it so; in `billing` the answer with code 0
  begins no transaction.
- **Events that never settle.** A date that is none is refused before the insert
  (`billing.py:412`, answer 400), a user who does not exist fails the event's foreign
  key (`billing.py:494`), and a customer id of another user the unique index: no row
  is kept, and every repetition fails alike.
- **A reconciliation after a database error.** The loop counts the error and goes on,
  but the transaction is aborted: the commit of
  `scripts/reconcile_billing.py:9` then keeps nothing.
- **Unique violations of a profile update** are raised where the statement runs, not
  by the commit the handler guards (`me/api.py:876`): the request fails, and nothing is
  kept.

## 7. Not modelled, and why

- The login rate limit and the support limits: counts over tables nothing else
  reads, the pattern of the OTP cooldown.
- Checkout (inserts a row of `billing_checkout_sessions` with status `created`, which
  nothing reads), the dev-only endpoints that simulate an event or set a plan, signatures of webhooks.
- Profile columns other than gender and category, avatar files.
- The floating-point Elo formula and `score_features.py`: real arithmetic whose
  only use by the other parts is its sign and its cap.
- Read-only endpoints (history, rankings, analytics, eligibility, clubs, config): projections of stored
  columns.
- The audit log (append-only), migrations, PowerShell helpers, application
  wiring: no protocol.
- Foreign-key locks of `confirm_match` and `refresh` on `users` rows: they wait
  only for a creation under way, which never waits for them once it holds its
  row, so they add no cycle.
- Lock modes other than those the handlers wait for, lock queues and the page
  level of PostgreSQL: replaced by fairness.
