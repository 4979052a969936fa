--------------------------- MODULE MatchConfirm ---------------------------
(***************************************************************************)
(* Confirmation of an existing match (app/modules/matches/api.py): the     *)
(* handlers confirm_match and match_detail, run by concurrent requests on  *)
(* one PostgreSQL database under READ COMMITTED.                           *)
(*                                                                         *)
(* A request is a transaction of a slot t \in Tx.  Between two of its      *)
(* steps other requests run.  Its writes become visible when it commits,   *)
(* which also releases its row locks; a transaction that fails before that *)
(* leaves no trace.  The reads a transaction makes while it holds the row  *)
(* lock of its match are taken with the lock (variable seen).              *)
(*                                                                         *)
(* All matches are of one ladder: rows of user_ladder_state are keyed by   *)
(* (user, ladder), so matches of different ladders touch different rows.   *)
(***************************************************************************)
EXTENDS Integers, FiniteSets, Sequences

CONSTANTS
  Match, Player, Tx,    \* matches, users, request slots
  Payload,              \* score_json values a client may send
  Score,                \* those of them MatchScoreIn accepts
  Team1, Team2,         \* participants of each match by team_no
  Creator,              \* created_by of each match
  InitScore,            \* score sent when the match was created
  Winner,               \* derived_winner of each score: 1 or 2
  Delta,                \* magnitudes of the rounded Elo change of a match
  MAX_SCORE_PROPOSALS, PROVISIONAL_MATCHES, PROVISIONAL_CAP,
  INIT_RATING,          \* server default of user_ladder_state.rating
  None                  \* SQL NULL; nobody holds the lock; no request

Players(m) == Team1[m] \cup Team2[m]

ASSUME TeamAssumption ==
  /\ Team1 \in [Match -> SUBSET Player]
  /\ Team2 \in [Match -> SUBSET Player]
  /\ \A m \in Match : Team1[m] \cap Team2[m] = {}
  /\ \A m \in Match : IsFiniteSet(Players(m))
  /\ Creator \in [Match -> Player]
  /\ \A m \in Match : Creator[m] \in Players(m)

ASSUME ScoreAssumption ==
  /\ Score \subseteq Payload
  /\ InitScore \in [Match -> Score]
  /\ Winner \in [Score -> {1, 2}]

ASSUME NumberAssumption ==
  /\ MAX_SCORE_PROPOSALS \in Nat
  /\ PROVISIONAL_MATCHES \in Nat
  /\ PROVISIONAL_CAP \in Nat
  /\ INIT_RATING \in Int
  /\ Delta \subseteq Nat

ASSUME NoneAssumption == None \notin Tx \cup Payload

VARIABLES
  status,      \* matches.status
  past,        \* confirmation_deadline < now
  score,       \* match_scores.score_json
  proposed,    \* matches.proposed_score_json, or None
  proposals,   \* matches.proposal_count
  conf,        \* players whose match_confirmations.status = 'confirmed'
  count,       \* matches.confirmed_count
  processed,   \* matches.rank_processed_at IS NOT NULL
  applied,     \* players with a user_analytics_match_applied row
  rating,      \* user_ladder_state.rating
  vm,          \* user_ladder_state.verified_matches
  ledger,      \* rating_events of each user, in commit order
  matchLock,   \* holder of the matches row lock
  ladderLock,  \* holder of the user_ladder_state row lock
  pc,          \* where each request stands
  req,         \* its arguments
  seen,        \* what it read under the match row lock
  stake,       \* the ladder rows it locked, as read
  agreed       \* history: the score each player last said yes to

matchVars  == <<status, past, score, proposed, proposals, conf, count,
                processed, applied, agreed>>
ladderVars == <<rating, vm, ledger>>
lockVars   == <<matchLock, ladderLock>>
txVars     == <<pc, req, seen, stake>>
vars       == <<matchVars, ladderVars, lockVars, txVars>>

MatchStatus == {"pending_confirm", "verified", "expired"}
PC == {"idle",      \* no request in this slot
       "confirm",   \* confirm_match, before its SELECT ... FOR UPDATE
       "decide",    \* confirm_match, holding the match row
       "rank",      \* confirm_match, locking the ladder rows
       "expire"}    \* match_detail, before its conditional UPDATE

NoStake == [u \in Player |-> None]

---------------------------------------------------------------------------
(* Helpers *)

\* COALESCE(proposed_score_json, score_json)
Active(m) == IF proposed[m] = None THEN score[m] ELSE proposed[m]

\* Mutant: counts players where the code counts teams.
BothTeamsByCount(m, S) == Cardinality(S) >= 2

\* count(distinct team_no) >= 2 over a set of confirmed players
BothTeams(m, S) == S \cap Team1[m] # {} /\ S \cap Team2[m] # {}

\* The row of a match as a transaction reads it.
RowNow(m) == [status |-> status[m], proposals |-> proposals[m],
              active |-> Active(m), conf |-> conf[m]]

\* Mutant: the cap ends one match early.
CapDeltaEarly(games, d) ==
  IF games + 1 >= PROVISIONAL_MATCHES THEN d
  ELSE IF d > PROVISIONAL_CAP THEN PROVISIONAL_CAP
  ELSE IF d < -PROVISIONAL_CAP THEN -PROVISIONAL_CAP
  ELSE d

\* cap_delta
CapDelta(games, d) ==
  IF games >= PROVISIONAL_MATCHES THEN d
  ELSE IF d > PROVISIONAL_CAP THEN PROVISIONAL_CAP
  ELSE IF d < -PROVISIONAL_CAP THEN -PROVISIONAL_CAP
  ELSE d

\* Mutant: the winner is read from match_scores before the agreed score is there.
TeamDeltaRecorded(m, u, s, d) ==
  IF u \in Team1[m] THEN (IF Winner[score[m]] = 1 THEN d ELSE -d)
                    ELSE (IF Winner[score[m]] = 1 THEN -d ELSE d)

\* compute_elo: the winner's team gains what the other loses
TeamDelta(m, u, s, d) ==
  IF u \in Team1[m] THEN (IF Winner[s] = 1 THEN d ELSE -d)
                    ELSE (IF Winner[s] = 1 THEN -d ELSE d)

\* The transaction of t ends, by commit or by rollback: its locks go.
End(t) ==
  /\ pc' = [pc EXCEPT ![t] = "idle"]
  /\ req' = [req EXCEPT ![t] = None]
  /\ seen' = [seen EXCEPT ![t] = None]
  /\ stake' = [stake EXCEPT ![t] = NoStake]
  /\ matchLock' = [m \in Match |-> IF matchLock[m] = t THEN None ELSE matchLock[m]]
  /\ ladderLock' = [u \in Player |-> IF ladderLock[u] = t THEN None ELSE ladderLock[u]]

---------------------------------------------------------------------------
(* Every match was just created by create_match: pending, the creator has  *)
(* confirmed the score he sent, nobody else has.                           *)
Init ==
  /\ status = [m \in Match |-> "pending_confirm"]
  /\ past = [m \in Match |-> FALSE]
  /\ score = InitScore
  /\ proposed = [m \in Match |-> None]
  /\ proposals = [m \in Match |-> 0]
  /\ conf = [m \in Match |-> {Creator[m]}]
  /\ count = [m \in Match |-> 1]
  /\ processed = [m \in Match |-> FALSE]
  /\ applied = [m \in Match |-> {}]
  /\ agreed = [m \in Match |-> [u \in Player |->
                 IF u = Creator[m] THEN InitScore[m] ELSE None]]
  /\ rating = [u \in Player |-> INIT_RATING]
  /\ vm = [u \in Player |-> 0]
  /\ ledger = [u \in Player |-> <<>>]
  /\ matchLock = [m \in Match |-> None]
  /\ ladderLock = [u \in Player |-> None]
  /\ pc = [t \in Tx |-> "idle"]
  /\ req = [t \in Tx |-> None]
  /\ seen = [t \in Tx |-> None]
  /\ stake = [t \in Tx |-> NoStake]

---------------------------------------------------------------------------
(* confirm_match *)

\* A participant asks to confirm, naming a score or none.  Anyone else gets
\* 403 from _assert_is_participant.
Begin(t, u, m, o) ==
  /\ pc[t] = "idle"
  /\ u \in Players(m)
  /\ pc' = [pc EXCEPT ![t] = "confirm"]
  /\ req' = [req EXCEPT ![t] = [user |-> u, match |-> m, offer |-> o]]
  /\ UNCHANGED <<matchVars, ladderVars, lockVars, seen, stake>>

\* Mutant: the SELECT has no FOR UPDATE.
LockMatchPlainSelect(t) ==
  /\ pc[t] = "confirm"
  /\ pc' = [pc EXCEPT ![t] = "decide"]
  /\ seen' = [seen EXCEPT ![t] = RowNow(req[t].match)]
  /\ UNCHANGED <<matchVars, ladderVars, lockVars, req, stake>>

\* SELECT ... FROM matches ... FOR UPDATE waits for the row lock, then reads
\* the row as last committed.
LockMatch(t) ==
  LET m == req[t].match IN
  /\ pc[t] = "confirm"
  /\ matchLock[m] = None
  /\ matchLock' = [matchLock EXCEPT ![m] = t]
  /\ pc' = [pc EXCEPT ![t] = "decide"]
  /\ seen' = [seen EXCEPT ![t] = RowNow(m)]
  /\ UNCHANGED <<matchVars, ladderVars, ladderLock, req, stake>>

\* Pending, but the deadline has passed: expire the match, commit, 409.
ExpireOnConfirm(t) ==
  LET m == req[t].match IN
  /\ pc[t] = "decide"
  /\ seen[t].status = "pending_confirm" /\ past[m]
  /\ status' = [status EXCEPT ![m] = IF @ = "pending_confirm" THEN "expired" ELSE @]
  /\ End(t)
  /\ UNCHANGED <<past, score, proposed, proposals, conf, count, processed,
                 applied, agreed, ladderVars>>

\* Mutant: the error path keeps the transaction and its row lock open.
RejectNotPendingLeaking(t) ==
  /\ pc[t] = "decide"
  /\ seen[t].status # "pending_confirm"
  /\ pc' = [pc EXCEPT ![t] = "idle"]
  /\ req' = [req EXCEPT ![t] = None]
  /\ seen' = [seen EXCEPT ![t] = None]
  /\ UNCHANGED <<matchVars, ladderVars, lockVars, stake>>

\* Not pending: 409, nothing written.
RejectNotPending(t) ==
  /\ pc[t] = "decide"
  /\ seen[t].status # "pending_confirm"
  /\ End(t)
  /\ UNCHANGED <<matchVars, ladderVars>>

\* The request goes past both status checks.
Open(t) ==
  /\ pc[t] = "decide"
  /\ seen[t].status = "pending_confirm"
  /\ ~past[req[t].match]

\* payload.score_json names a score other than the active one.
Counters(t) == req[t].offer # None /\ req[t].offer # seen[t].active

\* The proposal limit is not reached and MatchScoreIn accepts the score.
Acceptable(t) ==
  seen[t].proposals < MAX_SCORE_PROPOSALS /\ req[t].offer \in Score

\* 409 at the limit; an invalid score fails the request.
RejectProposal(t) ==
  /\ Open(t) /\ Counters(t) /\ ~Acceptable(t)
  /\ End(t)
  /\ UNCHANGED <<matchVars, ladderVars>>

\* Mutant: the earlier confirmations stay.
AfterProposalAll(t) == seen[t].conf \cup {req[t].user}

\* Who is confirmed after a proposal: all rows are reset, then its author's set.
AfterProposal(t) == {req[t].user}

\* A new score goes on the table; every confirmation but the proposer's is
\* taken back.
Propose(t) ==
  LET m == req[t].match  u == req[t].user IN
  /\ Open(t) /\ Counters(t) /\ Acceptable(t)
  /\ proposed' = [proposed EXCEPT ![m] = req[t].offer]
  /\ proposals' = [proposals EXCEPT ![m] = @ + 1]
  /\ conf' = [conf EXCEPT ![m] = AfterProposal(t)]
  /\ count' = [count EXCEPT ![m] = 1]
  /\ agreed' = [agreed EXCEPT ![m][u] = req[t].offer]
  /\ End(t)
  /\ UNCHANGED <<status, past, score, processed, applied, ladderVars>>

\* Mutant: the teams are counted before the request's own row is written.
BackingBeforeUpdate(t) == seen[t].conf

\* The players confirmed once this request's own row is written.
Backing(t) == seen[t].conf \cup {req[t].user}

\* SELECT count(*) of the confirmed rows, this request's own included.
Recount(t) == Cardinality(Backing(t))

\* The player confirms the active score; only one team has so far.
Confirm(t) ==
  LET m == req[t].match  u == req[t].user IN
  /\ Open(t) /\ ~Counters(t)
  /\ ~BothTeams(m, Backing(t))
  /\ conf' = [conf EXCEPT ![m] = @ \cup {u}]
  /\ count' = [count EXCEPT ![m] = Recount(t)]
  /\ agreed' = [agreed EXCEPT ![m][u] = seen[t].active]
  /\ End(t)
  /\ UNCHANGED <<status, past, score, proposed, proposals, processed,
                 applied, ladderVars>>

\* Both teams agree: _apply_ranking_for_match starts to lock ladder rows.
\* What the request has written so far is not visible yet.
EnterRanking(t) ==
  /\ Open(t) /\ ~Counters(t)
  /\ BothTeams(req[t].match, Backing(t))
  /\ pc' = [pc EXCEPT ![t] = "rank"]
  /\ UNCHANGED <<matchVars, ladderVars, lockVars, req, seen, stake>>

\* Mutant: the SELECT has no FOR UPDATE; each row is read once.
LockLadderPlainSelect(t, u) ==
  /\ pc[t] = "rank"
  /\ u \in Players(req[t].match)
  /\ ladderLock' = [ladderLock EXCEPT ![u] = t]
  /\ stake' = [stake EXCEPT ![t][u] =
                 IF @ = None THEN [rating |-> rating[u], vm |-> vm[u]] ELSE @]
  /\ UNCHANGED <<matchVars, ladderVars, matchLock, pc, req, seen>>

\* SELECT ... FROM user_ladder_state ... FOR UPDATE has no ORDER BY: the
\* rows are locked one by one in an order the planner chooses, each read
\* when its lock is granted.
LockLadder(t, u) ==
  /\ pc[t] = "rank"
  /\ u \in Players(req[t].match)
  /\ ladderLock[u] = None
  /\ ladderLock' = [ladderLock EXCEPT ![u] = t]
  /\ stake' = [stake EXCEPT ![t][u] = [rating |-> rating[u], vm |-> vm[u]]]
  /\ UNCHANGED <<matchVars, ladderVars, matchLock, pc, req, seen>>

\* With the four rows locked: the agreed score replaces the recorded one,
\* the match is verified, the players are rated and their analytics
\* updated, all in one commit.  The early returns of
\* _apply_ranking_for_match do not apply: the match was pending when its row
\* was locked, so it is not yet processed, and it has a score, four
\* participants and their ladder rows since create_match.
Verify(t) ==
  LET m == req[t].match  u == req[t].user IN
  /\ pc[t] = "rank"
  /\ \A v \in Players(m) : ladderLock[v] = t
  /\ conf' = [conf EXCEPT ![m] = @ \cup {u}]
  /\ count' = [count EXCEPT ![m] = Recount(t)]
  /\ agreed' = [agreed EXCEPT ![m][u] = seen[t].active]
  /\ score' = [score EXCEPT ![m] = Active(m)]
  /\ proposed' = [proposed EXCEPT ![m] = None]
  /\ status' = [status EXCEPT ![m] = "verified"]
  /\ processed' = [processed EXCEPT ![m] = TRUE]
  /\ applied' = [applied EXCEPT ![m] = Players(m)]
  /\ \E d \in Delta :
       LET old(v) == stake[t][v].rating
           new(v) == old(v) + CapDelta(stake[t][v].vm, TeamDelta(m, v, Active(m), d))
       IN /\ rating' = [v \in Player |-> IF v \in Players(m) THEN new(v) ELSE rating[v]]
          /\ ledger' = [v \in Player |->
               IF v \in Players(m)
                 THEN Append(ledger[v], [match |-> m, old |-> old(v), new |-> new(v)])
                 ELSE ledger[v]]
  /\ vm' = [v \in Player |-> IF v \in Players(m) THEN vm[v] + 1 ELSE vm[v]]
  /\ End(t)
  /\ UNCHANGED <<past, proposals>>

---------------------------------------------------------------------------
(* match_detail: a read that expires an overdue match.  When there is      *)
(* nothing to expire it changes no state.                                  *)

BeginDetail(t, u, m) ==
  /\ pc[t] = "idle"
  /\ u \in Players(m)
  /\ status[m] = "pending_confirm" /\ past[m]
  /\ pc' = [pc EXCEPT ![t] = "expire"]
  /\ req' = [req EXCEPT ![t] = [user |-> u, match |-> m, offer |-> None]]
  /\ UNCHANGED <<matchVars, ladderVars, lockVars, seen, stake>>

\* Mutant: the UPDATE does not ask for the status again.
DetailExpireUnchecked(t) ==
  LET m == req[t].match IN
  /\ pc[t] = "expire"
  /\ matchLock[m] = None
  /\ status' = [status EXCEPT ![m] = "expired"]
  /\ End(t)
  /\ UNCHANGED <<past, score, proposed, proposals, conf, count, processed,
                 applied, agreed, ladderVars>>

\* UPDATE ... WHERE status='pending_confirm' waits for the row lock and
\* evaluates its condition on the row as it finds it then.
DetailExpire(t) ==
  LET m == req[t].match IN
  /\ pc[t] = "expire"
  /\ matchLock[m] = None
  /\ status' = [status EXCEPT ![m] = IF @ = "pending_confirm" THEN "expired" ELSE @]
  /\ End(t)
  /\ UNCHANGED <<past, score, proposed, proposals, conf, count, processed,
                 applied, agreed, ladderVars>>

---------------------------------------------------------------------------
(* Environment *)

\* Time reaches the deadline of a match.
DeadlinePasses(m) ==
  /\ ~past[m]
  /\ past' = [past EXCEPT ![m] = TRUE]
  /\ UNCHANGED <<status, score, proposed, proposals, conf, count, processed,
                 applied, agreed, ladderVars, lockVars, txVars>>

\* The worker dies, the connection drops or a statement fails: get_db closes
\* the session and the transaction is rolled back.
Fail(t) ==
  /\ pc[t] # "idle"
  /\ End(t)
  /\ UNCHANGED <<matchVars, ladderVars>>

\* t needs a ladder row that w holds.
WaitsFor(t, w) ==
  /\ pc[t] = "rank"
  /\ \E u \in Players(req[t].match) : ladderLock[u] = w

\* PostgreSQL finds a cycle of waiting transactions and aborts one of them.
DeadlockVictim(t) ==
  /\ \E D \in SUBSET Tx :
       /\ t \in D
       /\ \A d \in D : \E w \in D \ {d} : WaitsFor(d, w)
  /\ End(t)
  /\ UNCHANGED <<matchVars, ladderVars>>

Request(t) ==
  \E m \in Match : \E u \in Players(m) :
    \/ \E o \in Payload \cup {None} : Begin(t, u, m, o)
    \/ BeginDetail(t, u, m)

Step(t) ==
  \/ LockMatch(t)
  \/ ExpireOnConfirm(t)
  \/ RejectNotPending(t)
  \/ RejectProposal(t)
  \/ Propose(t)
  \/ Confirm(t)
  \/ EnterRanking(t)
  \/ \E u \in Player : LockLadder(t, u)
  \/ Verify(t)
  \/ DetailExpire(t)
  \/ DeadlockVictim(t)

Next ==
  \/ \E t \in Tx : Request(t) \/ Step(t) \/ Fail(t)
  \/ \E m \in Match : DeadlinePasses(m)

Spec == Init /\ [][Next]_vars

\* The server keeps running the requests it has accepted.  Lock queues are
\* first come first served, so a waiting request gets a row that is released
\* again and again; deadlocks are detected.
Fairness ==
  \A t \in Tx :
    /\ WF_vars(ExpireOnConfirm(t) \/ RejectNotPending(t) \/ RejectProposal(t)
               \/ Propose(t) \/ Confirm(t) \/ EnterRanking(t) \/ Verify(t)
               \/ DeadlockVictim(t))
    /\ SF_vars(LockMatch(t) \/ DetailExpire(t) \/ \E u \in Player : LockLadder(t, u))

FairSpec == Spec /\ Fairness

---------------------------------------------------------------------------
(* Properties *)

Requests == [user : Player, match : Match, offer : Payload \cup {None}]
SeenRows == [status : MatchStatus, proposals : Nat, active : Score,
             conf : SUBSET Player]
LadderRows == [rating : Int, vm : Nat]
RatingEvents == [match : Match, old : Int, new : Int]

\* Every variable has its type; a stored score is one MatchScoreIn accepts.
TypeOK ==
  /\ status \in [Match -> MatchStatus]
  /\ past \in [Match -> BOOLEAN]
  /\ score \in [Match -> Score]
  /\ proposed \in [Match -> Score \cup {None}]
  /\ proposals \in [Match -> Nat]
  /\ conf \in [Match -> SUBSET Player]
  /\ count \in [Match -> Nat]
  /\ processed \in [Match -> BOOLEAN]
  /\ applied \in [Match -> SUBSET Player]
  /\ rating \in [Player -> Int]
  /\ vm \in [Player -> Nat]
  /\ ledger \in [Player -> Seq(RatingEvents)]
  /\ matchLock \in [Match -> Tx \cup {None}]
  /\ ladderLock \in [Player -> Tx \cup {None}]
  /\ pc \in [Tx -> PC]
  /\ req \in [Tx -> Requests \cup {None}]
  /\ seen \in [Tx -> SeenRows \cup {None}]
  /\ stake \in [Tx -> [Player -> LadderRows \cup {None}]]
  /\ agreed \in [Match -> [Player -> Score \cup {None}]]

\* A verified match carries a score that a player of each team said yes to:
\* no interleaving of proposals and confirmations verifies a score that one
\* team agreed to only in an earlier version.
VerifiedByBothTeams ==
  \A m \in Match : status[m] = "verified" =>
    \E u \in Team1[m], v \in Team2[m] :
      agreed[m][u] = score[m] /\ agreed[m][v] = score[m]

\* A row 'confirmed' in match_confirmations always stands for the active
\* score, also right after a proposal replaced it.
ConfirmationsAreForActiveScore ==
  \A m \in Match : \A u \in conf[m] : agreed[m][u] = Active(m)

\* matches.confirmed_count never drifts from the rows it summarises.
ConfirmedCountExact == \A m \in Match : count[m] = Cardinality(conf[m])

\* The second team's confirmation verifies the match: none is left pending
\* with both teams confirmed, which no later request would repair.
NoMissedVerification ==
  \A m \in Match : BothTeams(m, conf[m]) <=> status[m] = "verified"

\* At most MAX_SCORE_PROPOSALS scores are ever proposed for a match.
ProposalsBounded == \A m \in Match : proposals[m] <= MAX_SCORE_PROPOSALS

\* rating_events is the whole history of the rating: each row starts where
\* the one before ended, the last one ends at the current rating and there
\* is one per verified match.  A lost update would break the chain.
LedgerChain ==
  \A u \in Player :
    /\ Len(ledger[u]) = vm[u]
    /\ \A i \in 1..Len(ledger[u]) :
         ledger[u][i].old = IF i = 1 THEN INIT_RATING ELSE ledger[u][i-1].new
    /\ rating[u] = IF ledger[u] = <<>> THEN INIT_RATING
                   ELSE ledger[u][Len(ledger[u])].new

\* Ranking and analytics are applied to a match when it is verified, to all
\* its players and to nobody else, once.
RankedExactlyOnce ==
  \A m \in Match :
    /\ processed[m] <=> status[m] = "verified"
    /\ applied[m] = IF processed[m] THEN Players(m) ELSE {}
    /\ \A u \in Player :
         Cardinality({i \in 1..Len(ledger[u]) : ledger[u][i].match = m})
           = IF processed[m] /\ u \in Players(m) THEN 1 ELSE 0

\* A player is rated with the result of the final score: nobody loses points
\* on a match his team won, or gains on one it lost.
RatedWithFinalScore ==
  \A u \in Player : \A i \in 1..Len(ledger[u]) :
    LET e == ledger[u][i]
        won == u \in IF Winner[score[e.match]] = 1 THEN Team1[e.match] ELSE Team2[e.match]
    IN IF won THEN e.new >= e.old ELSE e.new <= e.old

\* While a player is provisional (his first PROVISIONAL_MATCHES verified
\* matches) one match moves his rating by at most PROVISIONAL_CAP.
ProvisionalCap ==
  \A u \in Player : \A i \in 1..Len(ledger[u]) :
    i <= PROVISIONAL_MATCHES =>
      /\ ledger[u][i].new - ledger[u][i].old <= PROVISIONAL_CAP
      /\ ledger[u][i].old - ledger[u][i].new <= PROVISIONAL_CAP

\* A match that was decided stays as it is: a verified match is never
\* expired by a late reader, an expired one never verified, and neither its
\* score nor its confirmations change any more.
DecidedMatchFrozen ==
  [][\A m \in Match : status[m] # "pending_confirm" =>
       UNCHANGED <<status[m], score[m], proposed[m], proposals[m], conf[m],
                   count[m], processed[m], applied[m]>>]_vars

\* Ratings move only in the commit that verifies a match, and then exactly
\* its players get one more verified match and one more ledger row: no
\* reader sees a verified match whose ranking is still to come.
RatingsMoveWithVerification ==
  [][\A u \in Player : <<rating[u], vm[u], ledger[u]>>' # <<rating[u], vm[u], ledger[u]>> =>
       \E m \in Match :
         /\ u \in Players(m)
         /\ status[m] = "pending_confirm" /\ status'[m] = "verified"
         /\ \A v \in Players(m) : vm'[v] = vm[v] + 1
         /\ \A v \in Player \ Players(m) : vm'[v] = vm[v]]_vars

\* Every accepted request ends: none waits for ever on a row lock.
RequestsEnd == \A t \in Tx : pc[t] # "idle" ~> pc[t] = "idle"

---------------------------------------------------------------------------
(* The inductive invariant *)

\* A request under way has a participant's arguments; from the first lock on
\* it holds the row of its match, and what it read is still what is there.
RequestOK(t) ==
  pc[t] # "idle" => req[t] \in Requests /\ req[t].user \in Players(req[t].match)

HoldsMatch(t) ==
  pc[t] \in {"decide", "rank"} =>
    /\ matchLock[req[t].match] = t
    /\ seen[t] = RowNow(req[t].match)

\* A request that ranks found the match pending and completes both teams.
RankingAgreed(t) ==
  pc[t] = "rank" =>
    /\ seen[t].status = "pending_confirm"
    /\ ~Counters(t)
    /\ BothTeams(req[t].match, Backing(t))

\* A ladder row is locked by a request that ranks, and stands as it read it.
StakeCurrent(t) ==
  \A u \in Player : ladderLock[u] = t =>
    /\ pc[t] = "rank"
    /\ stake[t][u] = [rating |-> rating[u], vm |-> vm[u]]

TxOK(t) == RequestOK(t) /\ HoldsMatch(t) /\ RankingAgreed(t) /\ StakeCurrent(t)

\* The confirmed players of a match have agreed to its active score, and both
\* teams are among them exactly when it is verified.
MatchOK(m) ==
  /\ conf[m] \subseteq Players(m)
  /\ \A u \in conf[m] : agreed[m][u] = Active(m)
  /\ BothTeams(m, conf[m]) <=> status[m] = "verified"
  /\ status[m] = "verified" => proposed[m] = None
  /\ count[m] = Cardinality(conf[m])
  /\ proposals[m] <= MAX_SCORE_PROPOSALS

IInv == TypeOK /\ (\A t \in Tx : TxOK(t)) /\ (\A m \in Match : MatchOK(m))

---------------------------------------------------------------------------
(* Refinement *)

Outcome(m) == CASE status[m] = "pending_confirm" -> "open"
                [] status[m] = "verified"        -> "settled"
                [] OTHER                         -> "lapsed"

Agreement == INSTANCE MatchAgreement WITH
  offer   <- [m \in Match |-> Active(m)],
  backers <- conf,
  rounds  <- proposals,
  outcome <- [m \in Match |-> Outcome(m)],
  played  <- vm

\* Whatever the requests' steps interleave to, each commit is one step of
\* MatchAgreement, taken at that moment: lock steps, rejections, failures
\* and the passing of time change nothing it can see.
ImplementsAgreement == Agreement!Spec
===========================================================================
