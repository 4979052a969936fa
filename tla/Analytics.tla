------------------------------ MODULE Analytics ------------------------------
(***************************************************************************)
(* The analytics rows of one user in one ladder                            *)
(* (app/services/analytics.py): the update each verified match makes, in   *)
(* the transaction that verifies it, beside scripts/rebuild_analytics.py,  *)
(* which deletes all rows and applies every verified match again.          *)
(*                                                                         *)
(* Two transactions of the same player never verify at the same time (they *)
(* hold his ladder row, see MatchConfirm), so there are two processes.     *)
(* Under READ COMMITTED a statement sees what is committed when it runs    *)
(* and its own transaction's writes, and waits for a row that another      *)
(* transaction has written.                                                *)
(***************************************************************************)
EXTENDS Integers, FiniteSets, Sequences

CONSTANTS
  Match,              \* ids, in the order of played_at: 1..Cardinality(Match)
  Player,             \* the other players
  Win, Close,         \* [Match -> BOOLEAN]: what the results are
  Day,                \* [Match -> Nat]: played_at
  Mate, Rivals,       \* [Match -> Player], [Match -> SUBSET Player]
  OppAvg,             \* [Match -> Int]: average rating of the rivals
  Delta,              \* sizes a rating change can have
  InitRating,
  RIVAL_BUCKET_DELTA,
  MAX_RECENT_FORM, MAX_ROLLING_FORM,
  RECENT,             \* the 10 of recent_10_*, at most MAX_RECENT_FORM
  WINDOWS,            \* days of matches_7d, _30d and _90d
  None                \* no row, no lock, NULL

Bucket == {"stronger", "similar", "weaker"}

\* A row of rating_events, numbered, and one of user_analytics_state.
Event == [old : Int, new : Int, no : Nat]
State == [total : Nat, wins : Nat, close : Nat,
          streak : [win : BOOLEAN, len : Nat], bestWin : Nat, bestLoss : Nat,
          recent : Seq(BOOLEAN), rolling : Seq(BOOLEAN), recentWins : Nat,
          vs : [Bucket -> [matches : Nat, wins : Nat]], windows : [WINDOWS -> Nat],
          current : Int \cup {None}, peak : Int \cup {None}, last : Match \cup {None},
          log : Seq(Match)]       \* history: the matches counted

ASSUME PlayOrder ==
  /\ IsFiniteSet(Match) /\ Match = 1..Cardinality(Match)
  /\ Day \in [Match -> Nat]
  /\ \A m, n \in Match : m < n => Day[m] <= Day[n]
ASSUME ResultAssumption ==
  /\ Win \in [Match -> BOOLEAN] /\ Close \in [Match -> BOOLEAN]
  /\ Mate \in [Match -> Player] /\ Rivals \in [Match -> SUBSET Player]
  /\ OppAvg \in [Match -> Int]
ASSUME NumberAssumption ==
  /\ Delta \subseteq Nat /\ InitRating \in Int /\ RIVAL_BUCKET_DELTA \in Nat
  /\ {MAX_RECENT_FORM, MAX_ROLLING_FORM, RECENT} \subseteq Nat \ {0}
  /\ RECENT <= MAX_RECENT_FORM /\ WINDOWS \subseteq Nat
ASSUME NoneAssumption ==
  /\ None \notin Match /\ None \notin {"confirm", "rebuild"}
  /\ None \notin BOOLEAN /\ None \notin Int
  /\ None \notin Event /\ None \notin State /\ None \notin Seq(Match)

VARIABLES
  verified,  \* matches with status 'verified'
  event,     \* rating_events of the user: old and new rating of a match
  table,     \* the analytics rows, by key; None where there is none
  holder,    \* the transaction that has written a row
  draft,     \* what it has written: None is a DELETE
  pc,        \* where each transaction stands
  cur,       \* the match it applies
  rest,      \* rivals it has still to count
  phase,     \* rebuild: which DELETE it is at
  todo,      \* rebuild: rows that DELETE has still to visit
  queue,     \* rebuild: the matches still to apply
  beside,    \* history: matches verified while a rebuild deletes
  raced      \* history: those of the last rebuild that committed

dbVars  == <<verified, event, table>>
rowVars == <<holder, draft>>
rbVars  == <<phase, todo, queue>>
hist    == <<beside, raced>>
vars    == <<dbVars, rowVars, pc, cur, rest, rbVars, hist>>

Proc == {"confirm", "rebuild"}
Other(p) == IF p = "confirm" THEN "rebuild" ELSE "confirm"
PC == {"idle", "delete", "applied", "state", "partner", "rivals"}

Applied(m) == <<"applied", m>>
AppliedKey == {Applied(m) : m \in Match}
StateKey   == <<"state", 0>>
PairKey    == {"partner", "rival"} \X Player
Key == AppliedKey \cup {StateKey} \cup PairKey

\* rebuild_analytics deletes in this order.
DeleteOrder == <<"rival", "partner", "applied", "state">>

Init ==
  /\ verified = {}
  /\ event = [m \in Match |-> None]
  /\ table = [k \in Key |-> None]
  /\ holder = [k \in Key |-> None]
  /\ draft = [k \in Key |-> None]
  /\ pc = [p \in Proc |-> "idle"]
  /\ cur = [p \in Proc |-> None]
  /\ rest = [p \in Proc |-> {}]
  /\ phase = 0
  /\ todo = {}
  /\ queue = {}
  /\ beside = {}
  /\ raced = {}

\* The row as p sees it, whether p may write it, and p writing it.
Sees(p, k) == IF holder[k] = p THEN draft[k] ELSE table[k]
MayWrite(p, k) == holder[k] \in {None, p}
Write(p, k, v) ==
  /\ MayWrite(p, k)
  /\ holder' = [holder EXCEPT ![k] = p]
  /\ draft' = [draft EXCEPT ![k] = v]

---------------------------------------------------------------------------
(* _apply_participant_result *)

\* _quality_bucket
Quality(old, avg) ==
  CASE avg - old >= RIVAL_BUCKET_DELTA  -> "stronger"
    [] avg - old <= -RIVAL_BUCKET_DELTA -> "weaker"
    [] OTHER                            -> "similar"
EmptyState ==
  [total |-> 0, wins |-> 0, close |-> 0,
   streak |-> [win |-> FALSE, len |-> 0], bestWin |-> 0, bestLoss |-> 0,
   recent |-> <<>>, rolling |-> <<>>, recentWins |-> 0,
   vs |-> [b \in Bucket |-> [matches |-> 0, wins |-> 0]],
   windows |-> [w \in WINDOWS |-> 0],
   current |-> None, peak |-> None, last |-> None, log |-> <<>>]

One(b) == IF b THEN 1 ELSE 0
Smaller(x, y) == IF x < y THEN x ELSE y
AtMost(n, s) == SubSeq(s, 1, Smaller(Len(s), n))
Push(n, win, s) == AtMost(n, <<win>> \o s)
Wins(s) == Cardinality({i \in DOMAIN s : s[i]})
Larger(x, y) == IF x = None \/ x < y THEN y ELSE x

\* Mutant: a streak goes on whatever its type is.
StreakAnyType(st, win) == [win |-> win, len |-> st.len + 1]

\* current_streak_type and _len.
Streak(st, win) ==
  [win |-> win, len |-> IF st.win = win /\ st.len > 0 THEN st.len + 1 ELSE 1]

\* _load_activity_windows: applied rows of the days before match m is played.
Windows(p, m) ==
  [w \in WINDOWS |-> Cardinality(
    {n \in Match : /\ Sees(p, Applied(n)) # None
                   /\ Day[m] - w <= Day[n] /\ Day[n] <= Day[m]})]

\* The row after match m, whose rating event is e.  The form bits are
\* sequences of results, the newest first.
After(p, st, m, e) ==
  LET s == Streak(st.streak, Win[m])
      r == Push(MAX_RECENT_FORM, Win[m], st.recent) IN
  [total      |-> st.total + 1,
   wins       |-> st.wins + One(Win[m]),
   close      |-> st.close + One(Close[m]),
   streak     |-> s,
   bestWin    |-> IF Win[m] /\ s.len > st.bestWin THEN s.len ELSE st.bestWin,
   bestLoss   |-> IF ~Win[m] /\ s.len > st.bestLoss THEN s.len ELSE st.bestLoss,
   recent     |-> r,
   rolling    |-> Push(MAX_ROLLING_FORM, Win[m], st.rolling),
   recentWins |-> Wins(AtMost(RECENT, r)),
   vs         |-> [st.vs EXCEPT ![Quality(e.old, OppAvg[m])] =
                     [matches |-> @.matches + 1, wins |-> @.wins + One(Win[m])]],
   windows    |-> Windows(p, m),
   current    |-> e.new,
   peak       |-> Larger(st.peak, e.new),
   last       |-> m,
   log        |-> Append(st.log, m)]

\* INSERT INTO user_analytics_match_applied ... ON CONFLICT DO NOTHING.  The
\* confirmation stops there when the row exists; the rebuild does not look.
InsertApplied(p) ==
  LET k == Applied(cur[p]) IN
  /\ pc[p] = "applied"
  /\ IF Sees(p, k) = None THEN Write(p, k, TRUE)
                          ELSE MayWrite(p, k) /\ UNCHANGED rowVars
  /\ LET stop == p = "confirm" /\ Sees(p, k) # None IN
       pc' = [pc EXCEPT ![p] = IF stop THEN "rivals" ELSE "state"]
  /\ UNCHANGED <<dbVars, cur, rest, rbVars, hist>>

\* The rating event of the match p applies; a confirmation has just written it.
EventOf(p) == event[cur[p]]

\* Mutant: the row is read without FOR UPDATE, before the transaction that has
\* written it commits.
UpdateStatePlainSelect(p) ==
  LET st == IF table[StateKey] = None THEN EmptyState ELSE table[StateKey] IN
  /\ pc[p] = "state"
  /\ holder' = [holder EXCEPT ![StateKey] = p]
  /\ draft' = [draft EXCEPT ![StateKey] = After(p, st, cur[p], EventOf(p))]
  /\ pc' = [pc EXCEPT ![p] = "partner"]
  /\ UNCHANGED <<dbVars, cur, rest, rbVars, hist>>

\* Insert the state row if there is none, lock it, update it and the applied
\* row's copies of its rates.
UpdateState(p) ==
  LET st == IF Sees(p, StateKey) = None THEN EmptyState ELSE Sees(p, StateKey) IN
  /\ pc[p] = "state"
  /\ Write(p, StateKey, After(p, st, cur[p], EventOf(p)))
  /\ pc' = [pc EXCEPT ![p] = "partner"]
  /\ UNCHANGED <<dbVars, cur, rest, rbVars, hist>>

\* The pair's row counts one match more: a pair's row is the sequence of the
\* matches counted in it (matches, wins and last_played_at follow from it).
CountIn(p, k) ==
  Write(p, k, Append(IF Sees(p, k) = None THEN <<>> ELSE Sees(p, k), cur[p]))

\* _upsert_partner_stats
UpsertPartner(p) ==
  /\ pc[p] = "partner"
  /\ CountIn(p, <<"partner", Mate[cur[p]]>>)
  /\ pc' = [pc EXCEPT ![p] = "rivals"]
  /\ rest' = [rest EXCEPT ![p] = Rivals[cur[p]]]
  /\ UNCHANGED <<dbVars, cur, rbVars, hist>>

\* _upsert_rival_stats
UpsertRival(p, r) ==
  /\ pc[p] = "rivals" /\ r \in rest[p]
  /\ CountIn(p, <<"rival", r>>)
  /\ rest' = [rest EXCEPT ![p] = @ \ {r}]
  /\ UNCHANGED <<dbVars, pc, cur, rbVars, hist>>

---------------------------------------------------------------------------
(* Transactions *)

\* The transaction of p ends; c says whether it commits.
End(p, c) ==
  /\ table' = [k \in Key |-> IF c /\ holder[k] = p THEN draft[k] ELSE table[k]]
  /\ draft' = [k \in Key |-> IF holder[k] = p THEN None ELSE draft[k]]
  /\ holder' = [k \in Key |-> IF holder[k] = p THEN None ELSE holder[k]]
  /\ pc' = [pc EXCEPT ![p] = "idle"]
  /\ cur' = [cur EXCEPT ![p] = None]
  /\ rest' = [rest EXCEPT ![p] = {}]

\* The user's ladder rating: the new one of the event written last.
Rating ==
  IF verified = {} THEN InitRating
  ELSE event[CHOOSE m \in verified : \A n \in verified : event[n].no <= event[m].no].new

\* confirm_match verifies m: the rating events are written, and
\* apply_verified_match_analytics begins.
BeginVerify(m, d) ==
  /\ pc["confirm"] = "idle" /\ m \notin verified
  /\ pc' = [pc EXCEPT !["confirm"] = "applied"]
  /\ cur' = [cur EXCEPT !["confirm"] = m]
  /\ event' = [event EXCEPT ![m] =
       [old |-> Rating, new |-> Rating + (IF Win[m] THEN d ELSE -d),
        no |-> Cardinality(verified)]]
  /\ UNCHANGED <<verified, table, rowVars, rest, rbVars, hist>>

\* Commit: the match is verified, its event and rows are visible.
CommitVerify ==
  LET m == cur["confirm"] IN
  /\ pc["confirm"] = "rivals" /\ rest["confirm"] = {}
  /\ verified' = verified \cup {m}
  /\ beside' = IF pc["rebuild"] = "delete" THEN beside \cup {m} ELSE beside
  /\ End("confirm", TRUE)
  /\ UNCHANGED <<event, rbVars, raced>>

\* rebuild_analytics: the snapshot of the first DELETE.
Rows(i) == {k \in Key : k[1] = DeleteOrder[i] /\ table[k] # None}

BeginRebuild ==
  /\ pc["rebuild"] = "idle"
  /\ pc' = [pc EXCEPT !["rebuild"] = "delete"]
  /\ phase' = 1
  /\ todo' = Rows(1)
  /\ UNCHANGED <<dbVars, rowVars, cur, rest, queue, hist>>

\* A DELETE waits for a row that is being written and deletes what it has
\* become.
DeleteRow(k) ==
  /\ pc["rebuild"] = "delete" /\ k \in todo
  /\ Write("rebuild", k, None)
  /\ todo' = todo \ {k}
  /\ UNCHANGED <<dbVars, pc, cur, rest, phase, queue, hist>>

NextDelete ==
  /\ pc["rebuild"] = "delete" /\ todo = {} /\ phase < Len(DeleteOrder)
  /\ phase' = phase + 1
  /\ todo' = Rows(phase + 1)
  /\ UNCHANGED <<dbVars, rowVars, pc, cur, rest, queue, hist>>

\* The rebuild applies the matches of S one after the other, in the order in
\* which they were played (ORDER BY m.played_at, ...).
Replay(S) ==
  IF S = {} THEN pc' = [pc EXCEPT !["rebuild"] = "rivals"] /\ UNCHANGED <<cur, queue>>
  ELSE \E m \in S :
         /\ \A n \in S : m <= n
         /\ pc' = [pc EXCEPT !["rebuild"] = "applied"]
         /\ cur' = [cur EXCEPT !["rebuild"] = m]
         /\ queue' = S \ {m}

\* The SELECT of all verified matches.
SelectVerified ==
  /\ pc["rebuild"] = "delete" /\ todo = {} /\ phase = Len(DeleteOrder)
  /\ Replay(verified)
  /\ UNCHANGED <<dbVars, rowVars, rest, phase, todo, hist>>

ReplayNext ==
  /\ pc["rebuild"] = "rivals" /\ rest["rebuild"] = {} /\ queue # {}
  /\ Replay(queue)
  /\ UNCHANGED <<dbVars, rowVars, rest, phase, todo, hist>>

CommitRebuild ==
  /\ pc["rebuild"] = "rivals" /\ rest["rebuild"] = {} /\ queue = {}
  /\ End("rebuild", TRUE)
  /\ phase' = 0
  /\ raced' = beside
  /\ beside' = {}
  /\ UNCHANGED <<verified, event, todo, queue>>

\* Mutant: the connection goes back to the pool without a ROLLBACK, and keeps
\* its row locks.
RollbackLeaking(p) ==
  /\ draft' = [k \in Key |-> IF holder[k] = p THEN table[k] ELSE draft[k]]
  /\ pc' = [pc EXCEPT ![p] = "idle"]
  /\ cur' = [cur EXCEPT ![p] = None]
  /\ rest' = [rest EXCEPT ![p] = {}]
  /\ phase' = 0 /\ todo' = {} /\ queue' = {} /\ beside' = {}
  /\ event' = IF p = "confirm" THEN [event EXCEPT ![cur[p]] = None] ELSE event
  /\ UNCHANGED <<verified, table, holder, raced>>

\* Mutant: a rebuild that fails takes the rating event of its match with it.
RollbackOfEvents(p) ==
  /\ End(p, FALSE)
  /\ phase' = 0 /\ todo' = {} /\ queue' = {} /\ beside' = {}
  /\ event' = IF cur[p] = None THEN event ELSE [event EXCEPT ![cur[p]] = None]
  /\ UNCHANGED <<verified, raced>>

\* Rollback of p.
Rollback(p) ==
  /\ End(p, FALSE)
  /\ IF p = "rebuild"
       THEN phase' = 0 /\ todo' = {} /\ queue' = {} /\ beside' = {}
       ELSE UNCHANGED <<rbVars, beside>>
  /\ event' = IF p = "confirm" THEN [event EXCEPT ![cur[p]] = None] ELSE event
  /\ UNCHANGED <<verified, raced>>

\* The worker or the script dies, or a statement fails.
Fail(p) == pc[p] # "idle" /\ Rollback(p)

\* The rows p may need next.
Needs(p) ==
  CASE pc[p] = "applied" -> {Applied(cur[p])}
    [] pc[p] = "state"   -> {StateKey}
    [] pc[p] = "partner" -> {<<"partner", Mate[cur[p]]>>}
    [] pc[p] = "rivals"  -> {<<"rival", r>> : r \in rest[p]}
    [] pc[p] = "delete"  -> todo
    [] OTHER             -> {}
Waits(p) == \E k \in Needs(p) : holder[k] = Other(p)

\* Both wait for each other: PostgreSQL aborts one.
DeadlockVictim(p) == Waits("confirm") /\ Waits("rebuild") /\ Rollback(p)

Step(p) ==
  \/ InsertApplied(p) \/ UpdateState(p) \/ UpsertPartner(p)
  \/ \E r \in Player : UpsertRival(p, r)
  \/ DeadlockVictim(p)

Rebuild ==
  \/ \E k \in Key : DeleteRow(k)
  \/ NextDelete \/ SelectVerified \/ ReplayNext \/ CommitRebuild

Next ==
  \/ \E p \in Proc : Step(p) \/ Fail(p)
  \/ \E m \in Match, d \in Delta : BeginVerify(m, d)
  \/ CommitVerify
  \/ BeginRebuild \/ Rebuild

Spec == Init /\ [][Next]_vars

\* Transactions keep running, lock queues are first come first served, and
\* deadlocks are detected.
Fairness ==
  /\ \A p \in Proc : SF_vars(Step(p))
  /\ WF_vars(CommitVerify) /\ SF_vars(Rebuild)

FairSpec == Spec /\ Fairness

---------------------------------------------------------------------------
(* Properties *)

\* What a row of key k can be.
Row(k) == IF k \in AppliedKey THEN {TRUE} ELSE IF k = StateKey THEN State ELSE Seq(Match)

\* Every variable has its type.
TypeOK ==
  /\ verified \subseteq Match
  /\ event \in [Match -> Event \cup {None}]
  /\ table = [k \in Key |-> table[k]] /\ draft = [k \in Key |-> draft[k]]
  /\ \A k \in Key : table[k] \in Row(k) \cup {None} /\ draft[k] \in Row(k) \cup {None}
  /\ holder \in [Key -> Proc \cup {None}]
  /\ pc \in [Proc -> PC]
  /\ cur \in [Proc -> Match \cup {None}]
  /\ rest \in [Proc -> SUBSET Player]
  /\ phase \in 0..Len(DeleteOrder)
  /\ todo \subseteq Key
  /\ queue \subseteq Match
  /\ beside \subseteq Match /\ raced \subseteq Match

\* The matches counted in a row of key k that is v, and how often m is.
CountedIn(k, v) == IF v = None THEN <<>> ELSE IF k = StateKey THEN v.log ELSE v
Times(l, m) == Cardinality({i \in DOMAIN l : l[i] = m})

\* The rows that count m.
RowsOf(m) == {StateKey, <<"partner", Mate[m]>>} \cup ({"rival"} \X Rivals[m])

\* Whatever confirmations and rebuilds run beside each other, die or are
\* aborted, the state, partner and rival rows count each verified match of the
\* user at least once and no other; and exactly once if it was not verified
\* while the last rebuild was deleting.
EveryMatchCounted ==
  \A m \in Match : \A k \in RowsOf(m) :
    LET n == Times(CountedIn(k, table[k]), m) IN
    /\ n >= 1 <=> m \in verified
    /\ m \notin raced => n <= 1

\* x is the largest member of S.
IsLargest(x, S) == x \in S /\ \A y \in S : y <= x

\* The lengths of the runs of result b in the sequence of matches l.
Runs(l, b) ==
  {n \in 0..Len(l) : \E i \in 0..Len(l) - n : \A x \in i + 1 .. i + n : Win[l[x]] = b}

\* The number of entries of l among the matches of S.
In(l, S) == Cardinality({i \in DOMAIN l : l[i] \in S})

Totals(st) ==
  LET l == st.log IN
  /\ st.total = Len(l)
  /\ st.wins = In(l, {m \in Match : Win[m]})
  /\ st.close = In(l, {m \in Match : Close[m]})
  /\ \A b \in Bucket :
       LET S == {m \in Match : event[m] # None /\ Quality(event[m].old, OppAvg[m]) = b} IN
       /\ st.vs[b].matches = In(l, S)
       /\ st.vs[b].wins = In(l, {m \in S : Win[m]})

Streaks(st) ==
  LET l == st.log
      n == Len(l) IN
  /\ st.streak.win = Win[l[n]] /\ st.streak.len \in 1..n
  /\ \A i \in n - st.streak.len + 1 .. n : Win[l[i]] = Win[l[n]]
  /\ st.streak.len < n => Win[l[n - st.streak.len]] # Win[l[n]]
  /\ IsLargest(st.bestWin, Runs(l, TRUE)) /\ IsLargest(st.bestLoss, Runs(l, FALSE))

\* The form bits say how the last matches ended, the last one first.
Forms(st) ==
  LET l == st.log
      n == Len(l) IN
  /\ Len(st.recent) = Smaller(n, MAX_RECENT_FORM)
  /\ Len(st.rolling) = Smaller(n, MAX_ROLLING_FORM)
  /\ \A i \in 1..n :
       /\ n - i < MAX_RECENT_FORM => st.recent[n - i + 1] = Win[l[i]]
       /\ n - i < MAX_ROLLING_FORM => st.rolling[n - i + 1] = Win[l[i]]
  /\ st.recentWins = Cardinality({i \in 1..n : n - i < RECENT /\ Win[l[i]]})

Levels(st) ==
  LET l == st.log IN
  /\ st.last = l[Len(l)] /\ st.current = event[st.last].new
  /\ IsLargest(st.peak, {event[l[i]].new : i \in DOMAIN l})

\* The matches counted that were played at most w days before the last one.
Activity(st) ==
  \A w \in WINDOWS :
    st.windows[w] = In(st.log, {m \in Match : Day[st.last] - w <= Day[m] /\ Day[m] <= Day[st.last]})

Follows(st) == Totals(st) /\ Streaks(st) /\ Forms(st) /\ Levels(st)
NoRepeats(l) == \A i, j \in DOMAIN l : l[i] = l[j] => i = j

\* Computed one match at a time, the row is what its definition says of the
\* whole sequence of matches counted: totals and matches by strength of the
\* rivals, the streak and the longest ones, the last results, the current and
\* the highest rating, and, if no match was counted twice, the matches of the
\* days before the last one.
StateFollowsLog ==
  table[StateKey] # None =>
    LET st == table[StateKey] IN
    Follows(st) /\ (NoRepeats(st.log) => Activity(st))

\* Every confirmation and every rebuild ends, also when each waits for a row
\* the other has written.
RequestsEnd == \A p \in Proc : pc[p] # "idle" ~> pc[p] = "idle"

---------------------------------------------------------------------------
(* The inductive invariant *)

\* The rows of its match that p has written, but the applied row.
Written(p) ==
  IF pc[p] = "partner" THEN {StateKey}
  ELSE IF pc[p] = "rivals" /\ cur[p] # None THEN RowsOf(cur[p]) \ ({"rival"} \X rest[p])
  ELSE {}

\* A transaction has a match when it applies one, and rivals of it are left to
\* count at the end only; when it has ended it has written nothing.
ProcOK(p) ==
  /\ pc[p] \in {"applied", "state", "partner"} => cur[p] # None
  /\ pc[p] \in {"idle", "delete"} => cur[p] = None
  /\ rest[p] # {} => pc[p] = "rivals" /\ cur[p] # None /\ rest[p] \subseteq Rivals[cur[p]]
  /\ pc[p] = "idle" => \A k \in Key : holder[k] # p

\* The rating events are those of the verified matches and of the one being
\* verified, numbered in the order of verification.
EventOK ==
  /\ \A m \in Match : event[m] # None <=> m \in verified \cup {cur["confirm"]}
  /\ \A m \in verified : event[m].no < Cardinality(verified)
  /\ verified # {} => \E m \in verified : event[m].no = Cardinality(verified) - 1

\* A confirmation has a match that is not verified; it has written the rows of
\* that match it has come to and no others, each with the match counted on top
\* of what is committed.
ConfirmOK ==
  LET m == cur["confirm"] IN
  /\ pc["confirm"] # "delete"
  /\ pc["confirm"] # "idle" => m \in Match \ verified /\ event[m].no = Cardinality(verified)
  /\ \A k \in Key \ AppliedKey :
       /\ holder[k] = "confirm" <=> k \in Written("confirm")
       /\ holder[k] = "confirm" =>
            draft[k] # None /\ CountedIn(k, draft[k]) = Append(CountedIn(k, table[k]), m)
  /\ \A n \in Match :
       LET k == Applied(n) IN
       /\ holder[k] = "confirm" <=> n = m /\ pc["confirm"] \in {"state", "partner", "rivals"}
       /\ holder[k] = "confirm" => draft[k] # None

\* A verified match has its applied row, also when it was deleted and will be
\* inserted again.
AppliedOK ==
  \A m \in Match :
    LET k == Applied(m) IN
    /\ table[k] # None <=> m \in verified
    /\ holder[k] = "rebuild" => m \in verified
    /\ pc["rebuild"] \notin {"idle", "delete"} /\ m \in verified /\ Sees("rebuild", k) = None =>
         m \in queue \/ (m = cur["rebuild"] /\ pc["rebuild"] = "applied")

\* A rebuild applies verified matches, each once; the rows it has still to
\* delete exist.
RebuildOK ==
  /\ pc["rebuild"] \in {"idle", "delete"} => queue = {}
  /\ pc["rebuild"] = "idle" => beside = {}
  /\ IF pc["rebuild"] = "delete" THEN phase # 0 ELSE todo = {}
  /\ \A k \in todo : table[k] # None
  /\ queue \subseteq verified
  /\ cur["rebuild"] # None => cur["rebuild"] \in verified \ queue
  /\ cur["rebuild"] = None => queue = {}

\* The DELETEs have come to row k.
Visited(k) == k \notin todo /\ \E i \in 1..phase : k[1] = DeleteOrder[i]

\* A row that the DELETEs have come to is deleted, or counts matches only that
\* were verified since they began.
DeleteOK ==
  pc["rebuild"] = "delete" =>
    /\ \A k \in Key : holder[k] = "rebuild" => draft[k] = None
    /\ \A m \in Match, k \in Key :
         /\ k \in RowsOf(m) /\ Visited(k) /\ holder[k] # "rebuild"
         /\ Times(CountedIn(k, table[k]), m) >= 1
         => m \in beside

\* The rebuild has still to count m in row k.
Pending(m, k) == m \in queue \/ (m = cur["rebuild"] /\ k \notin Written("rebuild"))

\* What the rebuild leaves in the rows counts every verified match that it has
\* not still to count, and one that was not verified beside the DELETEs once.
ReplayOK ==
  pc["rebuild"] \notin {"idle", "delete"} =>
    \A m \in Match : \A k \in RowsOf(m) :
      LET n == Times(CountedIn(k, Sees("rebuild", k)), m) IN
      /\ m \notin verified => n = 0
      /\ m \in verified /\ ~Pending(m, k) => n >= 1
      /\ m \notin beside => n <= IF Pending(m, k) THEN 0 ELSE 1

\* A state row that is written follows its log, and when all its matches are
\* counted its windows do too.
DraftOK ==
  holder[StateKey] # None /\ draft[StateKey] # None =>
    LET st == draft[StateKey] IN
    /\ Follows(st)
    /\ NoRepeats(st.log) /\ (holder[StateKey] = "rebuild" =>
         queue = {} /\ pc["rebuild"] \in {"partner", "rivals"}) => Activity(st)

IInv ==
  /\ TypeOK
  /\ \A p \in Proc : ProcOK(p)
  /\ EventOK /\ ConfirmOK /\ AppliedOK
  /\ RebuildOK /\ DeleteOK /\ ReplayOK
  /\ EveryMatchCounted
  /\ DraftOK /\ StateFollowsLog
==============================================================================
