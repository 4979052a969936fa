-------------------------------- MODULE Profile --------------------------------
(***************************************************************************)
(* Gender and category of the players (update_profile in                   *)
(* app/modules/me/api.py) beside the eligibility checks of create_match    *)
(* (app/modules/matches/api.py), which read them without locks.            *)
(*                                                                         *)
(* A request is a transaction of a slot under READ COMMITTED.  Its writes  *)
(* lock what they write and are in draft[t] until it commits.  Who may     *)
(* create how many matches is MatchCreation.                               *)
(***************************************************************************)
EXTENDS Integers, FiniteSets

CONSTANTS
  User,
  Mover,       \* the users who change their profile
  InitGender,  \* [User -> Gender]
  InitCode,    \* [User -> Code \cup {None}]: primary category at the beginning
  Code,        \* categories of a ladder: their sort_order, without gaps
  MxOf,        \* mx_category_map: [{"M", "F"} -> [Code -> Code]]
  Lineup,      \* sets of four users
  Match,       \* ids: bound of the matches made
  Tx, None

Gender == {"M", "F", "U"}
Ladder == {"HM", "WM", "MX"}

\* What is asked of update_profile and of create_match, what an update does to
\* a ladder row and to all it writes, and a row of matches.
UpdateReq == [form : {"update"}, user : Mover, gender : {"M", "F", None},
              code : Code \cup {None}]
CreateReq == [form : {"create"}, user : {None}, players : Lineup]
Change == [code : Code, new : BOOLEAN]
Draft == [gender : {"M", "F", None}, row : [Ladder -> Change \cup {None}]]
MatchRow == [ladder : Ladder, category : Code, players : Lineup, raced : BOOLEAN]

ASSUME NoneAssumption ==
  /\ None \notin Tx \cup User \cup Gender \cup Ladder
  /\ None \notin Code /\ None \notin Change /\ None \notin MatchRow
ASSUME MoverAssumption == Mover \subseteq User
ASSUME LineupAssumption ==
  \A L \in Lineup : L \subseteq User /\ IsFiniteSet(L) /\ Cardinality(L) = 4
ASSUME CodeAssumption == Code \subseteq Int /\ \A c, d \in Code : c..d \subseteq Code
ASSUME MxAssumption == MxOf \in [{"M", "F"} -> [Code -> Code]]
ASSUME InitAssumption ==
  /\ InitGender \in [User -> Gender] /\ InitCode \in [User -> Code \cup {None}]
  /\ \A u \in User : InitGender[u] = "U" => InitCode[u] = None

VARIABLES
  gender,    \* user_profiles.gender
  row,       \* user_ladder_state: category by user and ladder, None without a row
  match,     \* matches: ladder, category, players, and (history) whether a profile
             \* update of a player was under way while the match was being made
  pc,        \* where each request stands
  req,       \* what it asks for
  read,      \* what it has read
  draft,     \* what it has written
  locks,     \* what it has locked
  crossed,   \* history: users who had two profile updates under way at once
  beside     \* history: creations beside an update of a player since the category
             \* was derived

tables == <<gender, row, match>>
txVars == <<pc, req, read, draft, locks>>
history == <<crossed, beside>>
vars   == <<tables, txVars, history>>

UpdatePC == {"profile", "primary", "writePrimary", "mx", "writeMx", "commit"}
CreatePC == {"rows", "derive", "insert"}
PC == {"idle"} \cup UpdatePC \cup CreatePC
Nothing == [gender |-> None, row |-> [l \in Ladder |-> None]]

\* update_profile: the ladder of a gender.
Primary(g) == IF g = "M" THEN "HM" ELSE "WM"

Init ==
  /\ gender = InitGender
  /\ row = [u \in User |-> [l \in Ladder |->
       IF InitCode[u] = None \/ l \notin {Primary(InitGender[u]), "MX"} THEN None
       ELSE IF l = "MX" THEN MxOf[InitGender[u]][InitCode[u]] ELSE InitCode[u]]]
  /\ match = [m \in Match |-> None]
  /\ pc = [t \in Tx |-> "idle"]
  /\ req = [t \in Tx |-> None]
  /\ read = [t \in Tx |-> None]
  /\ draft = [t \in Tx |-> Nothing]
  /\ locks = [t \in Tx |-> {}]
  /\ crossed = {}
  /\ beside = {}

Free(t, k) == \A w \in Tx \ {t} : k \notin locks[w]

\* The transaction of t ends, by commit or by rollback.
End(t) ==
  /\ pc' = [pc EXCEPT ![t] = "idle"]
  /\ req' = [req EXCEPT ![t] = None]
  /\ read' = [read EXCEPT ![t] = None]
  /\ draft' = [draft EXCEPT ![t] = Nothing]
  /\ locks' = [locks EXCEPT ![t] = {}]
  /\ beside' = beside \ {t}

\* Mutant: matches count only in the ladder of the gender.
PlaysPrimary(u, L) == \E m \in Match :
  match[m] # None /\ u \in match[m].players /\ match[m].ladder \in L \ {"MX"}

\* _count_user_matches: rows of match_participants.
Plays(u, L) == \E m \in Match :
  match[m] # None /\ u \in match[m].players /\ match[m].ladder \in L

---------------------------------------------------------------------------
(* update_profile *)

Updating(u) == {t \in Tx : pc[t] # "idle" /\ req[t].user = u /\ req[t].form = "update"}

\* The user asks for a gender, a category or both; the profile is read.
BeginUpdate(t, u, g, c) ==
  /\ pc[t] = "idle"
  /\ pc' = [pc EXCEPT ![t] = "profile"]
  /\ req' = [req EXCEPT ![t] = [form |-> "update", user |-> u, gender |-> g, code |-> c]]
  /\ read' = [read EXCEPT ![t] = gender[u]]
  /\ crossed' = IF Updating(u) = {} THEN crossed ELSE crossed \cup {u}
  /\ beside' = beside \cup {w \in Tx : pc[w] = "insert" /\ u \in req[w].players}
  /\ UNCHANGED <<tables, draft, locks>>

EffectiveGender(t) == IF req[t].gender = None THEN read[t] ELSE req[t].gender

\* Mutant: only the matches are counted.
AllowedRedefined(t) ==
  /\ req[t].gender \notin {None, read[t]} => ~Plays(req[t].user, Ladder)
  /\ req[t].code # None => EffectiveGender(t) # "U"

\* Another gender is allowed before the first match and while none is set; a
\* category needs a gender.
Allowed(t) ==
  /\ req[t].gender \notin {None, read[t]} =>
       ~Plays(req[t].user, Ladder) /\ read[t] = "U"
  /\ req[t].code # None => EffectiveGender(t) # "U"

RefuseUpdate(t) ==
  /\ pc[t] = "profile" /\ ~Allowed(t)
  /\ End(t)
  /\ UNCHANGED <<tables, crossed>>

\* UPDATE user_profiles.
WriteProfile(t) ==
  LET r == req[t]
      k == <<r.user, "profile">> IN
  /\ pc[t] = "profile" /\ Allowed(t)
  /\ r.gender # None => Free(t, k)
  /\ draft' = [draft EXCEPT ![t].gender = r.gender]
  /\ locks' = [locks EXCEPT ![t] = IF r.gender = None THEN @ ELSE @ \cup {k}]
  /\ pc' = [pc EXCEPT ![t] = IF r.code = None THEN "commit" ELSE "primary"]
  /\ UNCHANGED <<tables, req, read, history>>

\* The two calls of _upsert_ladder_state: ladder, category and what comes next.
Upsert(t) ==
  LET g == EffectiveGender(t) IN
  IF pc[t] \in {"primary", "writePrimary"}
    THEN [ladder |-> Primary(g), code |-> req[t].code,
          at |-> "primary", write |-> "writePrimary", next |-> "mx"]
    ELSE [ladder |-> "MX", code |-> MxOf[g][req[t].code],
          at |-> "mx", write |-> "writeMx", next |-> "commit"]

\* _upsert_ladder_state reads the row and counts the matches in the ladder
\* (verified ones are among them).  The same category changes nothing.
ReadRow(t) ==
  LET x == Upsert(t)
      old == row[req[t].user][x.ladder] IN
  /\ pc[t] = x.at
  /\ old # x.code => old = None \/ ~Plays(req[t].user, {x.ladder})
  /\ draft' = [draft EXCEPT ![t].row[x.ladder] = IF old = x.code THEN None
                 ELSE [code |-> x.code, new |-> old = None]]
  /\ pc' = [pc EXCEPT ![t] = IF old = x.code THEN x.next ELSE x.write]
  /\ UNCHANGED <<tables, req, read, locks, history>>

\* Mutant: a category that cannot change is left alone and the rest kept.
RefuseCategorySkipping(t) ==
  LET x == Upsert(t)
      old == row[req[t].user][x.ladder] IN
  /\ pc[t] = x.at
  /\ old \notin {x.code, None} /\ Plays(req[t].user, {x.ladder})
  /\ pc' = [pc EXCEPT ![t] = x.next]
  /\ UNCHANGED <<tables, req, read, draft, locks, history>>

\* He has a match in that ladder: 400, and nothing of the update remains.
RefuseCategory(t) ==
  LET x == Upsert(t)
      old == row[req[t].user][x.ladder] IN
  /\ pc[t] = x.at
  /\ old \notin {x.code, None} /\ Plays(req[t].user, {x.ladder})
  /\ End(t)
  /\ UNCHANGED <<tables, crossed>>

\* UPDATE or INSERT waits for whoever writes the row.
WriteRow(t) ==
  LET x == Upsert(t)
      k == <<req[t].user, x.ladder>> IN
  /\ pc[t] = x.write
  /\ Free(t, k)
  /\ draft[t].row[x.ladder].new => row[req[t].user][x.ladder] = None
  /\ locks' = [locks EXCEPT ![t] = @ \cup {k}]
  /\ pc' = [pc EXCEPT ![t] = x.next]
  /\ UNCHANGED <<tables, req, read, draft, history>>

\* The row was inserted meanwhile: the unique key fails the transaction.
Collision(t) ==
  LET x == Upsert(t) IN
  /\ pc[t] = x.write
  /\ Free(t, <<req[t].user, x.ladder>>)
  /\ draft[t].row[x.ladder].new /\ row[req[t].user][x.ladder] # None
  /\ End(t)
  /\ UNCHANGED <<tables, crossed>>

CommitUpdate(t) ==
  LET u == req[t].user
      d == draft[t] IN
  /\ pc[t] = "commit"
  /\ gender' = IF d.gender = None THEN gender ELSE [gender EXCEPT ![u] = d.gender]
  /\ row' = [row EXCEPT ![u] =
       [l \in Ladder |-> IF d.row[l] = None THEN @[l] ELSE d.row[l].code]]
  /\ End(t)
  /\ UNCHANGED <<match, crossed>>

---------------------------------------------------------------------------
(* create_match *)

\* _determine_ladder_from_genders; None is a refusal, also of a 'U'.
LadderOf(G) ==
  LET m == Cardinality({u \in DOMAIN G : G[u] = "M"})
      f == Cardinality({u \in DOMAIN G : G[u] = "F"}) IN
  CASE m = 4          -> "HM"
    [] f = 4          -> "WM"
    [] m = 2 /\ f = 2 -> "MX"
    [] OTHER          -> None
GendersOf(L) == [u \in L |-> gender[u]]

\* _fetch_profiles: the ladder is settled, or 400 or 403.
BeginCreate(t, L) ==
  /\ pc[t] = "idle"
  /\ LadderOf(GendersOf(L)) # None
  /\ \E m \in Match : match[m] = None
  /\ pc' = [pc EXCEPT ![t] = "rows"]
  /\ req' = [req EXCEPT ![t] = [form |-> "create", user |-> None, players |-> L]]
  /\ read' = [read EXCEPT ![t] = [ladder |-> LadderOf(GendersOf(L)), category |-> None]]
  /\ UNCHANGED <<tables, draft, locks, history>>

\* All participants have a row in the ladder.
HaveRows(L, l) == \A u \in L : row[u][l] # None

CheckRows(t) ==
  /\ pc[t] = "rows"
  /\ IF HaveRows(req[t].players, read[t].ladder)
       THEN /\ pc' = [pc EXCEPT ![t] = "derive"]
            /\ UNCHANGED <<req, read, draft, locks, beside>>
       ELSE End(t)
  /\ UNCHANGED <<tables, crossed>>

\* The second and the third of four players, lowest category first.
Middle(code) == CHOOSE p \in (DOMAIN code) \X (DOMAIN code) :
  /\ p[1] # p[2] /\ code[p[1]] <= code[p[2]]
  /\ \E lo, hi \in (DOMAIN code) \ {p[1], p[2]} :
       lo # hi /\ code[lo] <= code[p[1]] /\ code[p[2]] <= code[hi]

\* _derive_match_category_id: the median of the four categories, rounded up.
Median(code) == (code[Middle(code)[1]] + code[Middle(code)[2]] + 1) \div 2

CodesOf(L, l) == [u \in L |-> row[u][l]]

Derive(t) ==
  /\ pc[t] = "derive"
  /\ read' = [read EXCEPT ![t].category = Median(CodesOf(req[t].players, read[t].ladder))]
  /\ pc' = [pc EXCEPT ![t] = "insert"]
  /\ beside' = IF \E u \in req[t].players : Updating(u) # {}
                 THEN beside \cup {t} ELSE beside
  /\ UNCHANGED <<tables, req, draft, locks, crossed>>

\* The match, its participants, score and confirmations, in one commit.
InsertMatch(t, m) ==
  /\ pc[t] = "insert" /\ match[m] = None
  /\ match' = [match EXCEPT ![m] =
       [ladder |-> read[t].ladder, category |-> read[t].category,
        players |-> req[t].players, raced |-> t \in beside]]
  /\ End(t)
  /\ UNCHANGED <<gender, row, crossed>>

---------------------------------------------------------------------------

\* The worker dies or a statement fails: rollback.
Fail(t) ==
  /\ pc[t] # "idle"
  /\ End(t)
  /\ UNCHANGED <<tables, crossed>>

Update(t) ==
  \/ RefuseUpdate(t) \/ WriteProfile(t)
  \/ /\ pc[t] \in {"primary", "writePrimary", "mx", "writeMx"}
     /\ ReadRow(t) \/ RefuseCategory(t) \/ WriteRow(t) \/ Collision(t)
  \/ CommitUpdate(t)

Next ==
  \E t \in Tx :
    \/ \E u \in Mover, g \in {"M", "F", None}, c \in Code \cup {None} : BeginUpdate(t, u, g, c)
    \/ Update(t)
    \/ \E L \in Lineup : BeginCreate(t, L)
    \/ CheckRows(t) \/ Derive(t)
    \/ \E m \in Match : InsertMatch(t, m)
    \/ Fail(t)

Spec == Init /\ [][Next]_vars

---------------------------------------------------------------------------
(* Properties *)

\* The tables and the requests have the shapes the code gives them.
TypeOK ==
  /\ gender \in [User -> Gender]
  /\ row \in [User -> [Ladder -> Code \cup {None}]]
  /\ match \in [Match -> MatchRow \cup {None}]
  /\ pc \in [Tx -> PC]
  /\ req \in [Tx -> UpdateReq \cup CreateReq \cup {None}]
  /\ read = [t \in Tx |-> read[t]]
  /\ draft \in [Tx -> Draft]
  /\ locks \in [Tx -> SUBSET (Mover \X (Ladder \cup {"profile"}))]
  /\ crossed \subseteq Mover /\ beside \subseteq Tx

\* Whoever plays a match has a row in its ladder, and the ladder is the one of
\* the players' genders still: rating a match finds all four rows
\* (_apply_ranking_for_match returns without them).  Two updates of one player
\* under way at once may redefine his gender.
LineupFits ==
  \A m \in Match : match[m] # None =>
    /\ HaveRows(match[m].players, match[m].ladder)
    /\ match[m].players \cap crossed = {} =>
         match[m].ladder = LadderOf(GendersOf(match[m].players))

\* A player of no crossed updates has both of the rows of his gender or none
\* of them, his MX category is the mapped one, and he has no row of the other
\* gender, whatever updates failed half way or were refused after a match.
ProfileConsistent ==
  \A u \in User \ crossed :
    LET g == gender[u]
        p == Primary(g) IN
    IF g = "U" THEN \A l \in Ladder : row[u][l] = None
    ELSE /\ \A l \in Ladder \ {p, "MX"} : row[u][l] = None
         /\ row[u]["MX"] = IF row[u][p] = None THEN None ELSE MxOf[g][row[u][p]]

\* The category of a match stays the median of its players' categories in its
\* ladder: whoever played there cannot change his.  Updates that were under
\* way while the match was being made are the exception.
CategoryFits ==
  \A m \in Match : match[m] # None =>
    match[m].raced \/ match[m].category = Median(CodesOf(match[m].players, match[m].ladder))
---------------------------------------------------------------------------
(* The inductive invariant *)

\* A new request starts with an empty draft.
IdleOK(t) == pc[t] = "idle" => draft[t] = Nothing

\* The ladders whose row t has read, and will write if that is needed.
Reached(t, l) ==
  /\ req[t].code # None
  /\ \/ l = Primary(EffectiveGender(t)) /\ pc[t] \in {"writePrimary", "mx", "writeMx", "commit"}
     \/ l = "MX" /\ pc[t] \in {"writeMx", "commit"}

\* An update has passed the checks once it writes the profile; its draft has
\* the gender asked for, and of the ladder rows those it has come to, with the
\* category asked for or as they are.
UpdateOK(t) ==
  pc[t] \in UpdatePC =>
    LET r == req[t]
        d == draft[t]
        g == EffectiveGender(t) IN
    /\ r \in UpdateReq /\ read[t] \in Gender
    /\ pc[t] # "profile" =>
         /\ r.gender \notin {None, read[t]} => read[t] = "U"
         /\ r.code # None => g # "U"
    /\ pc[t] \notin {"profile", "commit"} => r.code # None
    /\ d.gender = IF pc[t] = "profile" THEN None ELSE r.gender
    /\ \A l \in Ladder :
         LET c == IF l = "MX" THEN MxOf[g][r.code] ELSE r.code IN
         IF Reached(t, l)
           THEN \/ d.row[l] # None /\ d.row[l].code = c
                \/ d.row[l] = None /\ (r.user \in crossed \/ row[r.user][l] = c)
           ELSE d.row[l] = None

\* Of a player whose updates never crossed, one update is under way at most,
\* and the gender it has read is still his.
AloneOK(u) ==
  /\ \A t, w \in Updating(u) : t = w
  /\ \A t \in Updating(u) : read[t] = gender[u]

\* A creation's ladder is that of its players' genders and they have its rows;
\* unless an update came between, its category is their median and no update
\* of them is under way.
CreateOK(t) ==
  pc[t] \in CreatePC =>
    LET L == req[t].players
        l == read[t].ladder IN
    /\ req[t] \in CreateReq
    /\ read[t] \in [ladder : Ladder, category : Code \cup {None}]
    /\ L \cap crossed = {} => l = LadderOf(GendersOf(L))
    /\ pc[t] # "rows" => HaveRows(L, l)
    /\ pc[t] = "insert" =>
         /\ read[t].category \in Code
         /\ t \notin beside => /\ read[t].category = Median(CodesOf(L, l))
                              /\ \A u \in L : Updating(u) = {}

\* No update under way will change a row that a match was made with.
SettledOK(m) ==
  match[m] # None /\ ~match[m].raced =>
    \A u \in match[m].players : \A t \in Updating(u) : draft[t].row[match[m].ladder] = None

IInv ==
  /\ TypeOK
  /\ \A t \in Tx : IdleOK(t) /\ UpdateOK(t) /\ CreateOK(t)
  /\ \A u \in User \ crossed : AloneOK(u)
  /\ \A m \in Match : SettledOK(m)
  /\ LineupFits /\ ProfileConsistent /\ CategoryFits
==============================================================================
