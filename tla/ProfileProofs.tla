---------------------------- MODULE ProfileProofs ----------------------------
(***************************************************************************)
(* Proofs about Profile: the players of a match keep its ladder, their     *)
(* rows in it and its category, whatever profile updates run beside        *)
(* creations.                                                              *)
(***************************************************************************)
EXTENDS Profile, FiniteSetTheorems, TLAPS

USE NoneAssumption, MoverAssumption

---------------------------------------------------------------------------
(* The ladder and the category of a line-up *)

\* A ladder is found only if all four genders are set.
LEMMA LadderFound ==
  ASSUME NEW L \in Lineup, NEW G \in [L -> Gender], LadderOf(G) # None
  PROVE  LadderOf(G) \in Ladder /\ \A u \in L : G[u] # "U"
<1> DEFINE M == {u \in DOMAIN G : G[u] = "M"}
           F == {u \in DOMAIN G : G[u] = "F"}
<1>1. IsFiniteSet(L) /\ Cardinality(L) = 4 /\ M \subseteq L /\ F \subseteq L
  BY LineupAssumption
<1>2. /\ IsFiniteSet(M) /\ Cardinality(M) \in Nat /\ (Cardinality(M) = 4 => M = L)
      /\ IsFiniteSet(F) /\ Cardinality(F) \in Nat /\ (Cardinality(F) = 4 => F = L)
  <2>1. /\ IsFiniteSet(M) /\ (Cardinality(L) = Cardinality(M) => L = M)
        /\ IsFiniteSet(F) /\ (Cardinality(L) = Cardinality(F) => L = F)
    BY <1>1, FS_Subset
  <2> QED BY <2>1, <1>1, FS_CardinalityType
<1>3. Cardinality(M) = 2 /\ Cardinality(F) = 2 => M \cup F = L
  <2> SUFFICES ASSUME Cardinality(M) = 2, Cardinality(F) = 2
               PROVE  M \cup F = L
    OBVIOUS
  <2>1. M \cap F = {}
    OBVIOUS
  <2>2. Cardinality(M \cap F) = 0
    BY <2>1, FS_EmptySet
  <2>3. Cardinality(M \cup F) = 4
    BY <1>2, <2>2, FS_Union
  <2> QED BY <2>3, <1>1, FS_Subset
<1>4. LadderOf(G) = CASE Cardinality(M) = 4 -> "HM"
                      [] Cardinality(F) = 4 -> "WM"
                      [] Cardinality(M) = 2 /\ Cardinality(F) = 2 -> "MX"
                      [] OTHER -> None
  BY DEF LadderOf
<1>5. Cardinality(M) = 4 \/ Cardinality(F) = 4 \/ (Cardinality(M) = 2 /\ Cardinality(F) = 2)
  BY <1>4
<1>6. LadderOf(G) \in Ladder
  BY <1>4, <1>5 DEF Ladder
<1>7. M \cup F = L
  BY <1>2, <1>3, <1>5
<1> QED BY <1>6, <1>7

\* Four players can be told apart.
LEMMA FourPlayers ==
  ASSUME NEW L \in Lineup
  PROVE  \E a, b, c, d \in L :
           a # b /\ a # c /\ a # d /\ b # c /\ b # d /\ c # d
<1>1. PICK f \in Bijection(1..4, L) : TRUE
  BY LineupAssumption, FS_CardinalityType DEF ExistsBijection
<1>2. f \in [1..4 -> L] /\ \A i, j \in 1..4 : i # j => f[i] # f[j]
  BY DEF Bijection, Injection, IsInjective
<1> QED BY <1>2

\* The median of four categories is one of the categories.
LEMMA MedianInCode ==
  ASSUME NEW L \in Lineup, NEW code \in [L -> Code]
  PROVE  Median(code) \in Code
<1> DEFINE Distinct(a, b, c, d) == a # b /\ a # c /\ a # d /\ b # c /\ b # d /\ c # d
<1>0. \A u \in L : code[u] \in Int
  BY CodeAssumption
<1>1. \E a, b, c, d \in L : Distinct(a, b, c, d)
  BY FourPlayers
<1>2. \E a, b, c, d \in L : Distinct(a, b, c, d) /\ code[a] <= code[b] /\ code[c] <= code[d]
  <2>1. PICK a, b, c, d \in L : Distinct(a, b, c, d)
    BY <1>1
  <2>2. code[a] <= code[b] \/ code[b] <= code[a]
    BY <1>0
  <2>3. code[c] <= code[d] \/ code[d] <= code[c]
    BY <1>0
  <2> QED BY <2>1, <2>2, <2>3
<1>3. \E a, b, c, d \in L : /\ Distinct(a, b, c, d) /\ code[a] <= code[b] /\ code[c] <= code[d]
                            /\ code[a] <= code[c]
  <2>1. PICK a, b, c, d \in L : Distinct(a, b, c, d) /\ code[a] <= code[b] /\ code[c] <= code[d]
    BY <1>2
  <2>2. code[a] <= code[c] \/ code[c] <= code[a]
    BY <1>0
  <2> QED BY <2>1, <2>2
<1>4. \E a, b, c, d \in L : /\ Distinct(a, b, c, d)
                            /\ code[a] <= code[b] /\ code[b] <= code[c] /\ code[c] <= code[d]
  <2>1. PICK a, b, c, d \in L : /\ Distinct(a, b, c, d) /\ code[a] <= code[b]
                                /\ code[c] <= code[d] /\ code[a] <= code[c]
    BY <1>3
  <2>2. code[a] \in Int /\ code[b] \in Int /\ code[c] \in Int /\ code[d] \in Int
    BY <1>0
  <2>3. CASE code[b] <= code[c]
    BY <2>1, <2>3
  <2>4. CASE code[c] <= code[b] /\ code[b] <= code[d]
    BY <2>1, <2>4
  <2>5. CASE code[d] <= code[b]
    BY <2>1, <2>5
  <2> QED BY <2>2, <2>3, <2>4, <2>5
<1> DEFINE Mid(p) == /\ p[1] # p[2] /\ code[p[1]] <= code[p[2]]
                     /\ \E lo, hi \in (DOMAIN code) \ {p[1], p[2]} :
                          lo # hi /\ code[lo] <= code[p[1]] /\ code[p[2]] <= code[hi]
<1>5. \E p \in (DOMAIN code) \X (DOMAIN code) : Mid(p)
  <2>1. PICK a, b, c, d \in L : /\ Distinct(a, b, c, d)
                                /\ code[a] <= code[b] /\ code[b] <= code[c] /\ code[c] <= code[d]
    BY <1>4
  <2>2. Mid(<<b, c>>)
    BY <2>1
  <2> QED BY <2>2
<1>6. Middle(code) \in L \X L /\ code[Middle(code)[1]] <= code[Middle(code)[2]]
  <2>1. Middle(code) \in (DOMAIN code) \X (DOMAIN code) /\ Mid(Middle(code))
    BY <1>5 DEF Middle
  <2> QED BY <2>1
<1> DEFINE x == code[Middle(code)[1]]
           y == code[Middle(code)[2]]
<1>7. x \in Code /\ y \in Code /\ x \in Int /\ y \in Int /\ x <= y /\ x..y \subseteq Code
  BY <1>6, <1>0, CodeAssumption
<1>8. (x + y + 1) \div 2 \in x..y
  <2> HIDE DEF x, y
  <2>1. CASE x = y
    BY <1>7, <2>1
  <2>2. CASE x < y
    BY <1>7, <2>2
  <2> QED BY <1>7, <2>1, <2>2
<1> QED BY <1>7, <1>8 DEF Median

---------------------------------------------------------------------------
(* Requests *)

\* The slots with an update of u are those at one of its steps.
LEMMA UpdatingSlots ==
  ASSUME IInv, NEW u \in User
  PROVE  Updating(u) = {t \in Tx : pc[t] \in UpdatePC /\ req[t].user = u}
<1>1. ASSUME NEW t \in Tx
      PROVE  (pc[t] # "idle" /\ req[t].form = "update") <=> pc[t] \in UpdatePC
  <2>1. pc[t] \in UpdatePC => req[t] \in UpdateReq
    BY DEF IInv, UpdateOK
  <2>2. pc[t] \in CreatePC => req[t] \in CreateReq
    BY DEF IInv, CreateOK
  <2>3. pc[t] \in UpdatePC \/ pc[t] \in CreatePC \/ pc[t] = "idle"
    BY DEF IInv, TypeOK, PC
  <2>4. pc[t] \in UpdatePC => pc[t] # "idle" /\ pc[t] \notin CreatePC
    BY DEF UpdatePC, CreatePC
  <2> QED BY <2>1, <2>2, <2>3, <2>4 DEF UpdateReq, CreateReq
<1> QED BY <1>1 DEF Updating

\* A slot that stays out of the tables and starts no update.
Quiet(t) ==
  /\ UNCHANGED <<tables, crossed>>
  /\ \A w \in Tx \ {t} : /\ pc'[w] = pc[w] /\ req'[w] = req[w] /\ read'[w] = read[w]
                         /\ draft'[w] = draft[w] /\ (w \in beside' <=> w \in beside)
  /\ pc'[t] = "idle" \/ req'[t].form = "create"
       \/ (pc[t] # "idle" /\ req'[t] = req[t] /\ read'[t] = read[t])

\* Such a step can only break what is said of the slot itself.
LEMMA QuietStep ==
  ASSUME IInv, TypeOK', NEW t \in Tx, Quiet(t), IdleOK(t)', UpdateOK(t)', CreateOK(t)',
         \A m \in Match, u \in User :
           (match[m] # None /\ ~match[m].raced /\ u \in match[m].players /\ t \in Updating(u)') =>
             draft'[t].row[match[m].ladder] = None
  PROVE  IInv'
<1>1. ASSUME NEW u \in User PROVE Updating(u)' \subseteq Updating(u)
  BY DEF Updating, Quiet
<1>2. ASSUME NEW w \in Tx PROVE UpdateOK(w)'
  <2>1. CASE w # t
    <3>1. UpdateOK(w)
      BY DEF IInv
    <3>2. /\ pc'[w] = pc[w] /\ req'[w] = req[w] /\ read'[w] = read[w]
          /\ draft'[w] = draft[w] /\ row' = row /\ crossed' = crossed
      BY <2>1 DEF Quiet, tables
    <3>3. EffectiveGender(w)' = EffectiveGender(w)
      BY <3>2 DEF EffectiveGender
    <3>4. ASSUME NEW l \in Ladder PROVE Reached(w, l)' <=> Reached(w, l)
      BY <3>2, <3>3 DEF Reached
    <3> QED BY <3>1, <3>2, <3>3, <3>4 DEF UpdateOK
  <2> QED BY <2>1
<1>3. ASSUME NEW w \in Tx PROVE CreateOK(w)'
  <2>1. CASE w # t
    <3>1. CreateOK(w)
      BY DEF IInv
    <3>2. /\ pc'[w] = pc[w] /\ req'[w] = req[w] /\ read'[w] = read[w]
          /\ row' = row /\ gender' = gender /\ crossed' = crossed
          /\ (w \in beside' <=> w \in beside)
      BY <2>1 DEF Quiet, tables
    <3>3. /\ GendersOf(req[w].players)' = GendersOf(req[w].players)
          /\ HaveRows(req[w].players, read[w].ladder)' = HaveRows(req[w].players, read[w].ladder)
          /\ CodesOf(req[w].players, read[w].ladder)' = CodesOf(req[w].players, read[w].ladder)
      BY <3>2 DEF GendersOf, HaveRows, CodesOf
    <3>4. pc[w] \in CreatePC => req[w].players \subseteq User
      BY <3>1, LineupAssumption DEF CreateOK, CreateReq
    <3> HIDE DEF Quiet
    <3> QED BY <3>1, <3>2, <3>3, <3>4, <1>1 DEF CreateOK
  <2> QED BY <2>1
<1>4. ASSUME NEW u \in User \ crossed' PROVE AloneOK(u)'
  <2>1. AloneOK(u) /\ gender' = gender
    BY DEF IInv, Quiet, tables
  <2>2. ASSUME NEW w \in Updating(u)' PROVE read'[w] = read[w] /\ w \in Updating(u)
    BY <1>1 DEF Quiet, Updating
  <2> QED BY <2>1, <2>2 DEF AloneOK
<1>5. ASSUME NEW m \in Match PROVE SettledOK(m)'
  <2>1. SettledOK(m) /\ match' = match
    BY DEF IInv, Quiet, tables
  <2>2. match[m] # None => match[m].players \subseteq User
    BY LineupAssumption DEF IInv, TypeOK, MatchRow
  <2>3. ASSUME match[m] # None, ~match[m].raced, NEW u \in match[m].players, NEW w \in Updating(u)'
        PROVE  draft'[w].row[match[m].ladder] = None
    <3>1. w \in Tx /\ w \in Updating(u) /\ u \in User
      BY <2>2, <2>3, <1>1 DEF Updating
    <3>2. CASE w = t
      BY <3>1, <3>2, <2>3
    <3>3. CASE w # t
      <4>1. draft'[w] = draft[w]
        BY <3>1, <3>3 DEF Quiet
      <4> QED BY <4>1, <3>1, <2>1, <2>3 DEF SettledOK
    <3> QED BY <3>2, <3>3
  <2> QED BY <2>1, <2>3 DEF SettledOK
<1>6. (LineupFits /\ ProfileConsistent /\ CategoryFits)'
  <2>1. gender' = gender /\ row' = row /\ match' = match /\ crossed' = crossed
    BY DEF Quiet, tables
  <2>2. LineupFits /\ ProfileConsistent /\ CategoryFits
    BY DEF IInv
  <2>3. LineupFits'
    BY <2>1, <2>2 DEF LineupFits, HaveRows, GendersOf
  <2>4. ProfileConsistent'
    BY <2>1, <2>2 DEF ProfileConsistent
  <2>5. CategoryFits'
    BY <2>1, <2>2 DEF CategoryFits, CodesOf
  <2> QED BY <2>3, <2>4, <2>5
<1>7. ASSUME NEW w \in Tx PROVE IdleOK(w)'
  BY DEF IInv, IdleOK, Quiet
<1> QED BY <1>2, <1>3, <1>4, <1>5, <1>6, <1>7 DEF IInv

---------------------------------------------------------------------------
(* The initial state and the steps that write no table *)

LEMMA NothingDraft == Nothing \in Draft /\ Nothing.gender = None
                      /\ \A l \in Ladder : Nothing.row[l] = None
  BY DEF Nothing, Draft

LEMMA InitIInv == Init => IInv
<1> SUFFICES ASSUME Init PROVE IInv
  OBVIOUS
<1> USE DEF Init
<1>1. \A t \in Tx : pc[t] = "idle"
  OBVIOUS
<1>2. \A t \in Tx : pc[t] \notin UpdatePC /\ pc[t] \notin CreatePC
  BY <1>1 DEF UpdatePC, CreatePC
<1>3. row \in [User -> [Ladder -> Code \cup {None}]]
  <2> SUFFICES ASSUME NEW u \in User, NEW l \in Ladder
               PROVE  (IF InitCode[u] = None \/ l \notin {Primary(InitGender[u]), "MX"} THEN None
                       ELSE IF l = "MX" THEN MxOf[InitGender[u]][InitCode[u]] ELSE InitCode[u])
                      \in Code \cup {None}
    OBVIOUS
  <2>1. InitCode[u] # None => InitCode[u] \in Code /\ InitGender[u] \in {"M", "F"}
    BY InitAssumption DEF Gender
  <2> QED BY <2>1, MxAssumption
<1>4. TypeOK
  BY <1>1, <1>3, NothingDraft, InitAssumption DEF TypeOK, PC
<1>5. \A t \in Tx : IdleOK(t) /\ UpdateOK(t) /\ CreateOK(t)
  BY <1>2 DEF IdleOK, UpdateOK, CreateOK
<1>6. \A u \in User : Updating(u) = {}
  BY <1>1 DEF Updating
<1>7. \A u \in User \ crossed : AloneOK(u)
  BY <1>6 DEF AloneOK
<1>8. \A m \in Match : match[m] = None
  OBVIOUS
<1>9. \A m \in Match : SettledOK(m)
  BY <1>8 DEF SettledOK
<1>10. LineupFits /\ CategoryFits
  BY <1>8 DEF LineupFits, CategoryFits
<1>11. ProfileConsistent
  <2> SUFFICES ASSUME NEW u \in User
               PROVE  IF gender[u] = "U" THEN \A l \in Ladder : row[u][l] = None
                      ELSE /\ \A l \in Ladder \ {Primary(gender[u]), "MX"} : row[u][l] = None
                           /\ row[u]["MX"] = IF row[u][Primary(gender[u])] = None THEN None
                                             ELSE MxOf[gender[u]][row[u][Primary(gender[u])]]
    BY DEF ProfileConsistent
  <2>1. Primary(gender[u]) \in Ladder /\ Primary(gender[u]) # "MX" /\ "MX" \in Ladder
    BY DEF Primary, Ladder
  <2>2. CASE InitCode[u] = None
    BY <2>1, <2>2
  <2>3. CASE InitCode[u] # None
    <3>1. gender[u] # "U"
      BY <2>3, InitAssumption
    <3> QED BY <2>1, <2>3, <3>1
  <2> QED BY <2>2, <2>3
<1> QED BY <1>4, <1>5, <1>7, <1>9, <1>10, <1>11 DEF IInv

\* A transaction that ends without a write changes nothing for the others.
LEMMA EndStep ==
  ASSUME IInv, NEW t \in Tx, End(t), UNCHANGED <<tables, crossed>>
  PROVE  IInv'
<1>1. pc'[t] = "idle"
  BY DEF IInv, TypeOK, End
<1>2. Quiet(t)
  BY <1>1 DEF IInv, TypeOK, End, Quiet
<1>3. TypeOK'
  BY NothingDraft DEF IInv, TypeOK, End, tables, PC
<1>4. IdleOK(t)' /\ UpdateOK(t)' /\ CreateOK(t)'
  BY <1>1 DEF IInv, TypeOK, End, IdleOK, UpdateOK, CreateOK, UpdatePC, CreatePC
<1>5. ASSUME NEW u \in User PROVE t \notin Updating(u)'
  BY <1>1 DEF Updating
<1> QED BY <1>2, <1>3, <1>4, <1>5, QuietStep

---------------------------------------------------------------------------
(* update_profile *)

\* What an update under way has.
LEMMA UpdateUnderWay ==
  ASSUME IInv, NEW t \in Tx, pc[t] \in UpdatePC
  PROVE  /\ req[t] \in UpdateReq /\ read[t] \in Gender
         /\ req[t].user \in Mover /\ req[t].user \in User
         /\ EffectiveGender(t) \in Gender /\ Primary(EffectiveGender(t)) \in Ladder \ {"MX"}
         /\ t \in Updating(req[t].user)
<1>1. req[t] \in UpdateReq /\ read[t] \in Gender
  BY DEF IInv, UpdateOK
<1>2. req[t].user \in Mover /\ req[t].user \in User
  BY <1>1 DEF UpdateReq
<1>3. EffectiveGender(t) \in Gender
  BY <1>1 DEF EffectiveGender, UpdateReq, Gender
<1> QED BY <1>1, <1>2, <1>3, UpdatingSlots DEF Primary, Ladder

\* The categories an update is about are categories.
LEMMA UpsertCode ==
  ASSUME IInv, NEW t \in Tx, pc[t] \in {"primary", "writePrimary", "mx", "writeMx"}
  PROVE  /\ req[t].code \in Code /\ EffectiveGender(t) \in {"M", "F"}
         /\ MxOf[EffectiveGender(t)][req[t].code] \in Code
<1>1. pc[t] \in UpdatePC
  BY DEF UpdatePC
<1>2. req[t].code # None /\ EffectiveGender(t) # "U"
  BY <1>1 DEF IInv, UpdateOK
<1>3. req[t].code \in Code /\ EffectiveGender(t) \in {"M", "F"}
  BY <1>1, <1>2, UpdateUnderWay DEF UpdateReq, Gender
<1> QED BY <1>3, MxAssumption

LEMMA WriteProfileStep ==
  ASSUME IInv, NEW t \in Tx, WriteProfile(t)
  PROVE  IInv'
<1>1. /\ pc[t] = "profile" /\ Allowed(t) /\ pc' = [pc EXCEPT ![t] = IF req[t].code = None THEN "commit" ELSE "primary"]
      /\ draft' = [draft EXCEPT ![t].gender = req[t].gender]
      /\ UNCHANGED <<tables, req, read, history>>
  BY DEF WriteProfile
<1>2. pc[t] \in UpdatePC /\ pc[t] # "idle"
  BY <1>1 DEF UpdatePC
<1>3. /\ req[t] \in UpdateReq /\ read[t] \in Gender /\ req[t].user \in Mover
      /\ UpdateOK(t) /\ TypeOK
  BY <1>2, UpdateUnderWay DEF IInv
<1>4. Quiet(t)
  BY <1>1, <1>2, <1>3 DEF Quiet, TypeOK, history
<1>5. TypeOK'
  <2>1. draft'[t] = [draft[t] EXCEPT !.gender = req[t].gender] /\ draft[t] \in Draft
    BY <1>1, <1>3 DEF TypeOK
  <2>2. draft' \in [Tx -> Draft]
    BY <1>1, <1>3, <2>1 DEF TypeOK, Draft, UpdateReq
  <2>3. locks' \in [Tx -> SUBSET (Mover \X (Ladder \cup {"profile"}))]
    BY <1>3 DEF TypeOK, WriteProfile
  <2>4. pc' \in [Tx -> PC]
    BY <1>1, <1>3 DEF TypeOK, PC, UpdatePC
  <2> QED BY <1>1, <1>3, <2>2, <2>3, <2>4 DEF TypeOK, tables, history
<1>6. /\ pc'[t] = (IF req[t].code = None THEN "commit" ELSE "primary")
      /\ req'[t] = req[t] /\ read'[t] = read[t]
      /\ draft'[t].gender = req[t].gender /\ draft'[t].row = draft[t].row
  BY <1>1, <1>3 DEF TypeOK, Draft
<1>7. EffectiveGender(t)' = EffectiveGender(t)
  BY <1>6 DEF EffectiveGender
<1>8. \A l \in Ladder : draft[t].row[l] = None
  BY <1>1, <1>2, <1>3 DEF UpdateOK, Reached
<1>9. UpdateOK(t)'
  <2>1. \A l \in Ladder : ~Reached(t, l)'
    BY <1>6, <1>7 DEF Reached
  <2>2. pc'[t] \in UpdatePC
    BY <1>6 DEF UpdatePC
  <2>3. /\ req[t].gender \notin {None, read[t]} => read[t] = "U"
        /\ req[t].code # None => EffectiveGender(t) # "U"
    BY <1>1 DEF Allowed
  <2> QED BY <1>3, <1>6, <1>7, <1>8, <2>1, <2>2, <2>3 DEF UpdateOK
<1>10. IdleOK(t)' /\ CreateOK(t)'
  BY <1>6 DEF IdleOK, CreateOK, CreatePC
<1>11. ASSUME NEW m \in Match, match[m] # None
       PROVE  draft'[t].row[match[m].ladder] = None
  BY <1>3, <1>6, <1>8, <1>11 DEF TypeOK, MatchRow
<1> QED BY <1>4, <1>5, <1>9, <1>10, <1>11, QuietStep

LEMMA ReadRowStep ==
  ASSUME IInv, NEW t \in Tx, ReadRow(t), pc[t] \in {"primary", "writePrimary", "mx", "writeMx"}
  PROVE  IInv'
<1> DEFINE g == EffectiveGender(t)
           x == Upsert(t)
           u == req[t].user
           old == row[u][x.ladder]
           change == [code |-> x.code, new |-> old = None]
           new == IF old = x.code THEN None ELSE change
<1>1. /\ pc[t] = x.at
      /\ old # x.code => old = None \/ ~Plays(u, {x.ladder})
      /\ draft' = [draft EXCEPT ![t].row[x.ladder] = new]
      /\ pc' = [pc EXCEPT ![t] = IF old = x.code THEN x.next ELSE x.write]
      /\ UNCHANGED <<tables, req, read, locks, history>>
  BY DEF ReadRow
<1>2. pc[t] \in UpdatePC /\ pc[t] # "idle"
  BY DEF UpdatePC
<1>3. /\ req[t] \in UpdateReq /\ read[t] \in Gender /\ u \in Mover /\ u \in User
      /\ Primary(g) \in Ladder \ {"MX"} /\ t \in Updating(u)
      /\ UpdateOK(t) /\ TypeOK
  BY <1>2, UpdateUnderWay DEF IInv
<1>4. req[t].code \in Code /\ g \in {"M", "F"} /\ MxOf[g][req[t].code] \in Code
  BY UpsertCode
<1>5. \/ pc[t] = "primary" /\ x = [ladder |-> Primary(g), code |-> req[t].code,
                                   at |-> "primary", write |-> "writePrimary", next |-> "mx"]
      \/ pc[t] = "mx" /\ x = [ladder |-> "MX", code |-> MxOf[g][req[t].code],
                              at |-> "mx", write |-> "writeMx", next |-> "commit"]
  BY <1>1 DEF Upsert
<1>6. x.ladder \in Ladder /\ x.code \in Code
  BY <1>3, <1>4, <1>5 DEF Ladder
<1> HIDE DEF x
<1>7. change \in Change /\ change # None /\ change.code = x.code /\ new \in Change \cup {None}
  <2>1. change \in Change
    BY <1>6 DEF Change
  <2> QED BY <2>1
<1>8. /\ draft'[t].gender = draft[t].gender
      /\ draft'[t].row = [draft[t].row EXCEPT ![x.ladder] = new]
      /\ draft[t].row \in [Ladder -> Change \cup {None}]
      /\ draft' \in [Tx -> Draft]
  <2> HIDE DEF new
  <2>1. draft[t] \in Draft /\ DOMAIN draft = Tx
    BY <1>3 DEF TypeOK
  <2>2. draft[t].row \in [Ladder -> Change \cup {None}]
    BY <2>1 DEF Draft
  <2>3. draft'[t] = [draft[t] EXCEPT !.row = [draft[t].row EXCEPT ![x.ladder] = new]]
    BY <1>1, <2>1
  <2>4. [draft[t].row EXCEPT ![x.ladder] = new] \in [Ladder -> Change \cup {None}]
    BY <2>2, <1>7
  <2>5. draft'[t] \in Draft
    BY <2>1, <2>3, <2>4 DEF Draft
  <2>6. draft' \in [Tx -> Draft]
    BY <1>1, <1>3, <2>5 DEF TypeOK
  <2> QED BY <2>1, <2>2, <2>3, <2>6 DEF Draft
<1>9. pc'[t] \in {x.next, x.write} /\ pc'[t] \in UpdatePC
      /\ req'[t] = req[t] /\ read'[t] = read[t]
  BY <1>1, <1>3, <1>5 DEF TypeOK, UpdatePC
<1>10. Quiet(t)
  BY <1>1, <1>2, <1>3 DEF Quiet, TypeOK, history
<1>11. TypeOK'
  <2>1. pc' \in [Tx -> PC]
    BY <1>1, <1>3, <1>5 DEF TypeOK, PC, UpdatePC
  <2> QED BY <1>1, <1>3, <1>8, <2>1 DEF TypeOK, tables, history
<1>12. EffectiveGender(t)' = g
  BY <1>9 DEF EffectiveGender
<1>13. \A l \in Ladder : Reached(t, l)' <=> Reached(t, l) \/ l = x.ladder
  BY <1>1, <1>3, <1>4, <1>5, <1>9, <1>12 DEF Reached
<1>14. UpdateOK(t)'
  <2>1. /\ req[t].gender \notin {None, read[t]} => read[t] = "U"
        /\ req[t].code # None => g # "U"
        /\ draft[t].gender = req[t].gender
    BY <1>2, <1>3, <1>5 DEF UpdateOK
  <2> DEFINE c(l) == IF l = "MX" THEN MxOf[g][req[t].code] ELSE req[t].code
  <2>2. ASSUME NEW l \in Ladder
        PROVE  IF Reached(t, l)'
                 THEN \/ draft'[t].row[l] # None /\ draft'[t].row[l].code = c(l)
                      \/ draft'[t].row[l] = None /\ (u \in crossed' \/ row'[u][l] = c(l))
                 ELSE draft'[t].row[l] = None
    <3>1. IF Reached(t, l)
            THEN \/ draft[t].row[l] # None /\ draft[t].row[l].code = c(l)
                 \/ draft[t].row[l] = None /\ (u \in crossed \/ row[u][l] = c(l))
            ELSE draft[t].row[l] = None
      BY <1>2, <1>3 DEF UpdateOK
    <3>2. row' = row /\ crossed' = crossed
      BY <1>1 DEF tables, history
    <3>3. CASE l # x.ladder
      <4>1. draft'[t].row[l] = draft[t].row[l]
        BY <1>8, <3>3
      <4> QED BY <3>1, <3>2, <3>3, <4>1, <1>13
    <3>4. CASE l = x.ladder
      <4>1. draft'[t].row[l] = new /\ Reached(t, l)'
        BY <1>8, <1>13, <3>4
      <4>2. c(l) = x.code
        BY <1>3, <1>5, <3>4
      <4>3. old = row[u][l]
        BY <3>4
      <4>4. new # None => new.code = x.code
        BY <1>7
      <4>5. new = None => old = x.code
        BY <1>7
      <4> QED BY <3>2, <4>1, <4>2, <4>3, <4>4, <4>5
    <3> QED BY <3>3, <3>4
  <2>3. pc'[t] # "profile" /\ draft'[t].gender = req[t].gender /\ req[t].code # None
    BY <1>4, <1>5, <1>8, <1>9, <2>1
  <2> HIDE DEF g
  <2> QED BY <1>3, <1>9, <1>12, <2>1, <2>2, <2>3 DEF UpdateOK
<1>15. IdleOK(t)' /\ CreateOK(t)'
  BY <1>9 DEF IdleOK, CreateOK, CreatePC, UpdatePC
<1>16. ASSUME NEW m \in Match, NEW v \in User, match[m] # None, ~match[m].raced,
              v \in match[m].players, t \in Updating(v)'
       PROVE  draft'[t].row[match[m].ladder] = None
  <2>1. v = u
    BY <1>9, <1>16 DEF Updating
  <2>2. match[m].ladder \in Ladder /\ draft[t].row[match[m].ladder] = None
    BY <1>3, <1>16, <2>1 DEF IInv, SettledOK, TypeOK, MatchRow
  <2>3. CASE match[m].ladder # x.ladder
    BY <1>8, <2>2, <2>3
  <2>4. CASE match[m].ladder = x.ladder
    <3>1. old # None
      BY <1>16, <2>1, <2>4 DEF IInv, LineupFits, HaveRows
    <3>2. Plays(u, {x.ladder})
      BY <1>16, <2>1, <2>4 DEF Plays
    <3>3. old = x.code
      BY <1>1, <3>1, <3>2
    <3> QED BY <1>8, <2>4, <3>3, <1>6
  <2> QED BY <2>3, <2>4
<1> QED BY <1>10, <1>11, <1>14, <1>15, <1>16, QuietStep

LEMMA WriteRowStep ==
  ASSUME IInv, NEW t \in Tx, WriteRow(t), pc[t] \in {"primary", "writePrimary", "mx", "writeMx"}
  PROVE  IInv'
<1> DEFINE g == EffectiveGender(t)
           x == Upsert(t)
<1>1. /\ pc[t] = x.write /\ pc' = [pc EXCEPT ![t] = x.next]
      /\ locks' = [locks EXCEPT ![t] = @ \cup {<<req[t].user, x.ladder>>}]
      /\ UNCHANGED <<tables, req, read, draft, history>>
  BY DEF WriteRow
<1>2. pc[t] \in UpdatePC /\ pc[t] # "idle"
  BY DEF UpdatePC
<1>3. /\ req[t] \in UpdateReq /\ read[t] \in Gender /\ req[t].user \in Mover /\ req[t].user \in User
      /\ Primary(g) \in Ladder \ {"MX"} /\ t \in Updating(req[t].user)
      /\ UpdateOK(t) /\ TypeOK
  BY <1>2, UpdateUnderWay DEF IInv
<1>5. \/ pc[t] = "writePrimary" /\ x.next = "mx" /\ x.ladder = Primary(g)
      \/ pc[t] = "writeMx" /\ x.next = "commit" /\ x.ladder = "MX"
  BY <1>1 DEF Upsert
<1>6. x.ladder \in Ladder
  BY <1>3, <1>5 DEF Ladder
<1> HIDE DEF x
<1>9. /\ pc'[t] = x.next /\ pc'[t] \in UpdatePC
      /\ req'[t] = req[t] /\ read'[t] = read[t] /\ draft'[t] = draft[t]
  BY <1>1, <1>3, <1>5 DEF TypeOK, UpdatePC
<1>10. Quiet(t)
  BY <1>1, <1>2, <1>3 DEF Quiet, TypeOK, history
<1>11. TypeOK'
  <2>1. pc' \in [Tx -> PC]
    BY <1>1, <1>3, <1>5 DEF TypeOK, PC, UpdatePC
  <2>2. locks' \in [Tx -> SUBSET (Mover \X (Ladder \cup {"profile"}))]
    BY <1>1, <1>3, <1>6 DEF TypeOK
  <2> QED BY <1>1, <1>3, <2>1, <2>2 DEF TypeOK, tables, history
<1>12. EffectiveGender(t)' = g
  BY <1>9 DEF EffectiveGender
<1>13. \A l \in Ladder : Reached(t, l)' <=> Reached(t, l)
  BY <1>1, <1>5, <1>9, <1>12 DEF Reached
<1>14. UpdateOK(t)'
  <2>1. row' = row /\ crossed' = crossed
    BY <1>1 DEF tables, history
  <2>2. req[t].code # None
    BY UpsertCode
  <2> HIDE DEF g
  <2>3. g = EffectiveGender(t)
    BY DEF g
  <2> QED BY <1>2, <1>3, <1>5, <1>9, <1>12, <1>13, <2>1, <2>2, <2>3 DEF UpdateOK
<1>15. IdleOK(t)' /\ CreateOK(t)'
  BY <1>9 DEF IdleOK, CreateOK, CreatePC, UpdatePC
<1>16. ASSUME NEW m \in Match, NEW v \in User, match[m] # None, ~match[m].raced,
              v \in match[m].players, t \in Updating(v)'
       PROVE  draft'[t].row[match[m].ladder] = None
  BY <1>3, <1>9, <1>16 DEF IInv, SettledOK, Updating
<1> QED BY <1>10, <1>11, <1>14, <1>15, <1>16, QuietStep

\* The steps at which an update asks or ends touch the others through crossed
\* and beside, or through the tables, and are proved conjunct by conjunct.
LEMMA BeginUpdateStep ==
  ASSUME IInv, NEW t \in Tx, NEW u \in Mover, NEW g \in {"M", "F", None},
         NEW c \in Code \cup {None}, BeginUpdate(t, u, g, c)
  PROVE  IInv'
<1>1. /\ pc[t] = "idle" /\ pc' = [pc EXCEPT ![t] = "profile"]
      /\ req' = [req EXCEPT ![t] = [form |-> "update", user |-> u, gender |-> g, code |-> c]]
      /\ read' = [read EXCEPT ![t] = gender[u]]
      /\ crossed' = IF Updating(u) = {} THEN crossed ELSE crossed \cup {u}
      /\ beside' = beside \cup {w \in Tx : pc[w] = "insert" /\ u \in req[w].players}
      /\ gender' = gender /\ row' = row /\ match' = match /\ draft' = draft /\ locks' = locks
  BY DEF BeginUpdate, tables
<1>2. TypeOK /\ u \in User
  BY DEF IInv
<1>3. /\ pc'[t] = "profile" /\ req'[t] \in UpdateReq /\ req'[t].user = u /\ read'[t] = gender[u]
      /\ req'[t].form = "update"
  BY <1>1, <1>2 DEF TypeOK, UpdateReq
<1>4. \A w \in Tx \ {t} : pc'[w] = pc[w] /\ req'[w] = req[w] /\ read'[w] = read[w]
  BY <1>1, <1>2 DEF TypeOK
<1>5. ASSUME NEW v \in User
      PROVE  Updating(v)' = IF v = u THEN Updating(v) \cup {t} ELSE Updating(v)
  BY <1>1, <1>3, <1>4 DEF Updating
<1>6. draft[t].gender = None /\ \A l \in Ladder : draft[t].row[l] = None
  BY <1>1, NothingDraft DEF IInv, IdleOK
<1>7. TypeOK'
  <2>1. pc' \in [Tx -> PC] /\ req' \in [Tx -> UpdateReq \cup CreateReq \cup {None}]
    BY <1>1, <1>2, <1>3 DEF TypeOK, PC, UpdatePC
  <2> QED BY <1>1, <1>2, <2>1 DEF TypeOK
<1>8. \A w \in Tx : IdleOK(w)'
  BY <1>1, <1>3, <1>4 DEF IInv, IdleOK
<1>9. UpdateOK(t)'
  <2>1. read'[t] \in Gender
    BY <1>2, <1>3 DEF TypeOK
  <2>2. \A l \in Ladder : ~Reached(t, l)'
    BY <1>3 DEF Reached
  <2> QED BY <1>1, <1>3, <1>6, <2>1, <2>2 DEF UpdateOK
<1>10. ASSUME NEW w \in Tx \ {t} PROVE UpdateOK(w)'
  <2>1. UpdateOK(w)
    BY DEF IInv
  <2>2. /\ pc'[w] = pc[w] /\ req'[w] = req[w] /\ read'[w] = read[w]
        /\ draft'[w] = draft[w] /\ row' = row /\ crossed \subseteq crossed'
    BY <1>1, <1>4
  <2>3. EffectiveGender(w)' = EffectiveGender(w)
    BY <2>2 DEF EffectiveGender
  <2>4. ASSUME NEW l \in Ladder PROVE Reached(w, l)' <=> Reached(w, l)
    BY <2>2, <2>3 DEF Reached
  <2> QED BY <2>1, <2>2, <2>3, <2>4 DEF UpdateOK
<1>11. ASSUME NEW w \in Tx PROVE CreateOK(w)'
  <2>1. CASE w = t
    BY <1>3, <2>1 DEF CreateOK, CreatePC
  <2>2. CASE w # t
    <3>1. CreateOK(w)
      BY DEF IInv
    <3>2. /\ pc'[w] = pc[w] /\ req'[w] = req[w] /\ read'[w] = read[w]
          /\ row' = row /\ gender' = gender /\ crossed \subseteq crossed'
          /\ beside \subseteq beside'
      BY <1>1, <1>4, <2>2
    <3>3. /\ GendersOf(req[w].players)' = GendersOf(req[w].players)
          /\ HaveRows(req[w].players, read[w].ladder)' = HaveRows(req[w].players, read[w].ladder)
          /\ CodesOf(req[w].players, read[w].ladder)' = CodesOf(req[w].players, read[w].ladder)
      BY <3>2 DEF GendersOf, HaveRows, CodesOf
    <3>4. pc[w] \in CreatePC => req[w].players \subseteq User
      BY <3>1, LineupAssumption DEF CreateOK, CreateReq
    <3>5. pc[w] = "insert" /\ w \notin beside' => u \notin req[w].players
      BY <1>1
    <3>6. pc[w] = "insert" /\ w \notin beside' => \A v \in req[w].players : Updating(v)' = Updating(v)
      BY <1>5, <3>4, <3>5 DEF CreatePC
    <3> QED BY <3>1, <3>2, <3>3, <3>6 DEF CreateOK
  <2> QED BY <2>1, <2>2
<1>12. ASSUME NEW v \in User \ crossed' PROVE AloneOK(v)'
  <2>1. v \notin crossed /\ AloneOK(v)
    BY <1>1, <1>12 DEF IInv
  <2>2. CASE v = u
    <3>1. Updating(v) = {}
      BY <1>1, <1>12, <2>2
    <3>2. Updating(v)' = {t}
      BY <1>5, <2>2, <3>1
    <3> QED BY <1>1, <1>3, <2>2, <3>2 DEF AloneOK
  <2>3. CASE v # u
    <3>1. Updating(v)' = Updating(v)
      BY <1>5, <2>3
    <3>2. ASSUME NEW w \in Updating(v)' PROVE read'[w] = gender'[v]
      <4>1. w \in Updating(v) /\ w \in Tx
        BY <3>1 DEF Updating
      <4>2. w # t
        BY <1>1, <4>1 DEF Updating
      <4> QED BY <1>1, <1>4, <2>1, <4>1, <4>2 DEF AloneOK
    <3> QED BY <2>1, <3>1, <3>2 DEF AloneOK
  <2> QED BY <2>2, <2>3
<1>13. ASSUME NEW m \in Match PROVE SettledOK(m)'
  <2>1. SettledOK(m)
    BY DEF IInv
  <2>2. match[m] # None => match[m].players \subseteq User /\ match[m].ladder \in Ladder
    BY <1>2, LineupAssumption DEF TypeOK, MatchRow
  <2> QED BY <1>1, <1>5, <1>6, <2>1, <2>2 DEF SettledOK
<1>14. LineupFits' /\ ProfileConsistent' /\ CategoryFits'
  <2>1. LineupFits /\ ProfileConsistent /\ CategoryFits /\ crossed \subseteq crossed'
    BY <1>1 DEF IInv
  <2>2. LineupFits'
    BY <1>1, <2>1 DEF LineupFits, HaveRows, GendersOf
  <2>3. ProfileConsistent'
    BY <1>1, <2>1 DEF ProfileConsistent
  <2>4. CategoryFits'
    BY <1>1, <2>1 DEF CategoryFits, CodesOf
  <2> QED BY <2>2, <2>3, <2>4
<1> QED BY <1>7, <1>8, <1>9, <1>10, <1>11, <1>12, <1>13, <1>14 DEF IInv

LEMMA CommitUpdateStep ==
  ASSUME IInv, NEW t \in Tx, CommitUpdate(t)
  PROVE  IInv'
<1> DEFINE u == req[t].user
           d == draft[t]
           g == EffectiveGender(t)
           c == req[t].code
<1>1. /\ pc[t] = "commit" /\ End(t) /\ match' = match /\ crossed' = crossed
      /\ gender' = IF d.gender = None THEN gender ELSE [gender EXCEPT ![u] = d.gender]
      /\ row' = [row EXCEPT ![u] =
           [l \in Ladder |-> IF d.row[l] = None THEN @[l] ELSE d.row[l].code]]
  BY DEF CommitUpdate
<1>2. pc[t] \in UpdatePC
  BY <1>1 DEF UpdatePC
<1>3. /\ TypeOK /\ UpdateOK(t) /\ req[t] \in UpdateReq /\ read[t] \in Gender
      /\ u \in Mover /\ u \in User /\ t \in Updating(u)
      /\ g \in Gender /\ Primary(g) \in Ladder \ {"MX"}
  BY <1>2, UpdateUnderWay DEF IInv
<1>4. pc'[t] = "idle" /\ draft'[t] = Nothing
  BY <1>1, <1>3 DEF End, TypeOK
<1>5. \A w \in Tx \ {t} : /\ pc'[w] = pc[w] /\ req'[w] = req[w] /\ read'[w] = read[w]
                          /\ draft'[w] = draft[w] /\ (w \in beside' <=> w \in beside)
  BY <1>1, <1>3 DEF End, TypeOK
<1>6. \A v \in User : Updating(v)' = Updating(v) \ {t}
  BY <1>4, <1>5 DEF Updating
\* What was asked for and what was written.
<1>7. /\ d.gender = req[t].gender
      /\ req[t].gender \notin {None, read[t]} => read[t] = "U"
      /\ c # None => g # "U"
      /\ \A l \in Ladder : d.row[l] = None \/ (Reached(t, l) /\ d.row[l].code \in Code)
  <2>1. /\ d.gender = req[t].gender
        /\ req[t].gender \notin {None, read[t]} => read[t] = "U"
        /\ c # None => g # "U"
        /\ \A l \in Ladder : d.row[l] = None \/ Reached(t, l)
    BY <1>1, <1>2, <1>3 DEF UpdateOK
  <2>2. \A l \in Ladder : d.row[l] = None \/ d.row[l].code \in Code
    BY <1>3 DEF TypeOK, Draft, Change
  <2> QED BY <2>1, <2>2
<1>8. \A l \in Ladder :
        row'[u][l] = IF d.row[l] = None THEN row[u][l] ELSE d.row[l].code
  BY <1>1, <1>3 DEF TypeOK
<1>9. \A v \in User \ {u} : row'[v] = row[v] /\ gender'[v] = gender[v]
  BY <1>1, <1>3 DEF TypeOK
<1>10. \A v \in User, l \in Ladder : row[v][l] # None => row'[v][l] # None
  BY <1>7, <1>8, <1>9
<1>11. u \notin crossed => read[t] = gender[u] /\ Updating(u) = {t}
  BY <1>3 DEF IInv, AloneOK
<1>12. TypeOK'
  <2>1. gender' \in [User -> Gender]
    BY <1>1, <1>3, <1>7 DEF TypeOK, UpdateReq, Gender
  <2>2. row' \in [User -> [Ladder -> Code \cup {None}]]
    BY <1>1, <1>3, <1>7 DEF TypeOK
  <2>3. /\ pc' \in [Tx -> PC] /\ req' \in [Tx -> UpdateReq \cup CreateReq \cup {None}]
        /\ read' = [w \in Tx |-> read'[w]] /\ draft' \in [Tx -> Draft]
        /\ locks' \in [Tx -> SUBSET (Mover \X (Ladder \cup {"profile"}))] /\ beside' \subseteq Tx
    BY <1>1, <1>3, NothingDraft DEF TypeOK, End, PC
  <2> QED BY <1>1, <1>3, <2>1, <2>2, <2>3 DEF TypeOK
<1>13. ASSUME NEW w \in Tx PROVE IdleOK(w)'
  BY <1>4, <1>5 DEF IInv, IdleOK
<1>14. ASSUME NEW w \in Tx PROVE UpdateOK(w)'
  <2>1. CASE w = t
    BY <1>4, <2>1 DEF UpdateOK, UpdatePC
  <2>2. CASE w # t
    <3>1. UpdateOK(w)
      BY DEF IInv
    <3>2. /\ pc'[w] = pc[w] /\ req'[w] = req[w] /\ read'[w] = read[w]
          /\ draft'[w] = draft[w] /\ crossed' = crossed
      BY <1>1, <1>5, <2>2
    <3>3. EffectiveGender(w)' = EffectiveGender(w)
      BY <3>2 DEF EffectiveGender
    <3>4. ASSUME NEW l \in Ladder PROVE Reached(w, l)' <=> Reached(w, l)
      BY <3>2, <3>3 DEF Reached
    <3>5. pc[w] \in UpdatePC => req[w].user \in crossed \/ row'[req[w].user] = row[req[w].user]
      <4> SUFFICES ASSUME pc[w] \in UpdatePC, req[w].user \notin crossed
                   PROVE  row'[req[w].user] = row[req[w].user]
        OBVIOUS
      <4>1. w \in Updating(req[w].user) /\ req[w].user \in User
        BY UpdateUnderWay
      <4>2. req[w].user # u
        BY <1>11, <2>2, <4>1
      <4> QED BY <1>9, <4>1, <4>2
    <3> QED BY <3>1, <3>2, <3>3, <3>4, <3>5 DEF UpdateOK
  <2> QED BY <2>1, <2>2
\* A gender that a ladder was found with stays.
<1>15. ASSUME NEW L \in Lineup, L \cap crossed = {}, LadderOf(GendersOf(L)) # None
       PROVE  [v \in L |-> gender'[v]] = GendersOf(L)
  <2>1. L \subseteq User
    BY LineupAssumption
  <2>2. GendersOf(L) \in [L -> Gender] /\ \A v \in L : GendersOf(L)[v] = gender[v]
    BY <1>3, <2>1 DEF GendersOf, TypeOK
  <2>3. \A v \in L : gender[v] # "U"
    BY <1>15, <2>2, LadderFound
  <2>4. ASSUME NEW v \in L PROVE gender'[v] = gender[v]
    <3>1. CASE v = u
      <4>1. read[t] = gender[u] /\ gender[u] # "U"
        BY <1>11, <1>15, <2>3, <3>1
      <4>2. d.gender = None \/ d.gender = gender[u]
        BY <1>7, <4>1
      <4> QED BY <1>1, <1>3, <3>1, <4>2 DEF TypeOK
    <3>2. CASE v # u
      BY <1>9, <2>1, <3>2
    <3> QED BY <3>1, <3>2
  <2> QED BY <2>4 DEF GendersOf
<1>16. ASSUME NEW w \in Tx PROVE CreateOK(w)'
  <2>1. CASE w = t
    BY <1>4, <2>1 DEF CreateOK, CreatePC
  <2>2. CASE w # t
    <3> SUFFICES ASSUME pc[w] \in CreatePC PROVE CreateOK(w)'
      BY <1>5, <2>2 DEF CreateOK
    <3> DEFINE L == req[w].players
               l == read[w].ladder
    <3>1. /\ req[w] \in CreateReq
          /\ read[w] \in [ladder : Ladder, category : Code \cup {None}]
          /\ L \cap crossed = {} => l = LadderOf(GendersOf(L))
          /\ pc[w] # "rows" => HaveRows(L, l)
          /\ pc[w] = "insert" =>
               /\ read[w].category \in Code
               /\ w \notin beside => /\ read[w].category = Median(CodesOf(L, l))
                                    /\ \A v \in L : Updating(v) = {}
      BY DEF IInv, CreateOK
    <3>2. /\ pc'[w] = pc[w] /\ req'[w] = req[w] /\ read'[w] = read[w] /\ crossed' = crossed
          /\ (w \in beside' <=> w \in beside)
      BY <1>1, <1>5, <2>2
    <3>3. L \in Lineup /\ L \subseteq User /\ l \in Ladder
      BY <3>1, LineupAssumption DEF CreateReq
    <3>4. L \cap crossed = {} => l = LadderOf([v \in L |-> gender'[v]])
      <4>1. l # None
        BY <3>3
      <4> QED BY <1>15, <3>1, <3>3, <4>1
    <3>5. HaveRows(L, l) => \A v \in L : row'[v][l] # None
      BY <1>10, <3>3 DEF HaveRows
    <3>6. ASSUME pc[w] = "insert", w \notin beside
          PROVE  CodesOf(L, l) = [v \in L |-> row'[v][l]] /\ \A v \in L : Updating(v)' = {}
      <4>1. \A v \in L : Updating(v) = {}
        BY <3>1, <3>6
      <4>2. u \notin L
        BY <1>3, <4>1
      <4> QED BY <1>6, <1>9, <3>3, <4>1, <4>2 DEF CodesOf
    <3>7. /\ GendersOf(req[w].players)' = [v \in L |-> gender'[v]]
          /\ HaveRows(req[w].players, read[w].ladder)' <=> \A v \in L : row'[v][l] # None
          /\ CodesOf(req[w].players, read[w].ladder)' = [v \in L |-> row'[v][l]]
      BY <3>2 DEF GendersOf, HaveRows, CodesOf
    <3> QED BY <3>1, <3>2, <3>4, <3>5, <3>6, <3>7 DEF CreateOK
  <2> QED BY <2>1, <2>2
<1>17. ASSUME NEW v \in User \ crossed' PROVE AloneOK(v)'
  <2>1. AloneOK(v)
    BY <1>1 DEF IInv
  <2>2. ASSUME NEW w \in Updating(v)' PROVE w \in Updating(v) /\ read'[w] = read[w] /\ v # u
    <3>1. w \in Updating(v) /\ w \in Tx /\ w # t
      BY <1>6 DEF Updating
    <3>2. v # u
      BY <1>1, <1>11, <3>1
    <3> QED BY <1>5, <3>1, <3>2
  <2> QED BY <1>9, <2>1, <2>2 DEF AloneOK
<1>18. ASSUME NEW m \in Match, match[m] # None
       PROVE  /\ match[m].players \in Lineup /\ match[m].players \subseteq User
              /\ match[m].ladder \in Ladder
  BY <1>3, <1>18, LineupAssumption DEF TypeOK, MatchRow
<1>19. ASSUME NEW m \in Match PROVE SettledOK(m)'
  <2>1. SettledOK(m)
    BY DEF IInv
  <2>2. ASSUME match[m] # None, ~match[m].raced, NEW v \in match[m].players, NEW w \in Updating(v)'
        PROVE  draft'[w].row[match[m].ladder] = None
    <3>1. w \in Updating(v) /\ w \in Tx /\ w # t
      BY <1>6, <1>18, <2>2 DEF Updating
    <3> QED BY <1>5, <2>1, <2>2, <3>1 DEF SettledOK
  <2> QED BY <1>1, <2>2 DEF SettledOK
<1>20. LineupFits'
  <2>1. ASSUME NEW m \in Match, match[m] # None
        PROVE  /\ \A v \in match[m].players : row'[v][match[m].ladder] # None
               /\ match[m].players \cap crossed = {} =>
                    match[m].ladder = LadderOf([v \in match[m].players |-> gender'[v]])
    <3>1. /\ HaveRows(match[m].players, match[m].ladder)
          /\ match[m].players \cap crossed = {} =>
               match[m].ladder = LadderOf(GendersOf(match[m].players))
      BY <2>1 DEF IInv, LineupFits
    <3>2. \A v \in match[m].players : row'[v][match[m].ladder] # None
      BY <1>10, <1>18, <2>1, <3>1 DEF HaveRows
    <3>3. match[m].ladder # None
      BY <1>18, <2>1
    <3> QED BY <1>15, <1>18, <2>1, <3>1, <3>2, <3>3
  <2>2. \A m \in Match : GendersOf(match[m].players)' = [v \in match[m].players |-> gender'[v]]
    BY <1>1 DEF GendersOf
  <2> QED BY <1>1, <2>1, <2>2 DEF LineupFits, HaveRows, GendersOf
<1>21. CategoryFits'
  <2>1. ASSUME NEW m \in Match, match[m] # None, ~match[m].raced
        PROVE  \A v \in match[m].players : row'[v][match[m].ladder] = row[v][match[m].ladder]
    <3>1. u \in match[m].players => d.row[match[m].ladder] = None
      BY <1>3, <2>1 DEF IInv, SettledOK
    <3> QED BY <1>8, <1>9, <1>18, <2>1, <3>1
  <2>2. ASSUME NEW m \in Match, match[m] # None, ~match[m].raced
        PROVE  CodesOf(match[m].players, match[m].ladder)' = CodesOf(match[m].players, match[m].ladder)
    BY <1>1, <2>1, <2>2 DEF CodesOf
  <2> QED BY <1>1, <2>2 DEF IInv, CategoryFits
<1>22. ProfileConsistent'
  <2> SUFFICES ASSUME NEW v \in User \ crossed
               PROVE  IF gender'[v] = "U" THEN \A l \in Ladder : row'[v][l] = None
                      ELSE /\ \A l \in Ladder \ {Primary(gender'[v]), "MX"} : row'[v][l] = None
                           /\ row'[v]["MX"] = IF row'[v][Primary(gender'[v])] = None THEN None
                                              ELSE MxOf[gender'[v]][row'[v][Primary(gender'[v])]]
    BY <1>1 DEF ProfileConsistent, Primary
  <2>1. IF gender[v] = "U" THEN \A l \in Ladder : row[v][l] = None
        ELSE /\ \A l \in Ladder \ {Primary(gender[v]), "MX"} : row[v][l] = None
             /\ row[v]["MX"] = IF row[v][Primary(gender[v])] = None THEN None
                               ELSE MxOf[gender[v]][row[v][Primary(gender[v])]]
    BY DEF IInv, ProfileConsistent
  <2>2. CASE v # u
    BY <1>9, <2>1, <2>2
  <2>3. CASE v = u
    <3>1. read[t] = gender[u] /\ u \notin crossed
      BY <1>11, <2>3
    <3>2. gender'[u] = g
      <4>1. g = IF req[t].gender = None THEN gender[u] ELSE req[t].gender
        BY <3>1 DEF EffectiveGender
      <4> QED BY <1>1, <1>3, <1>7, <4>1 DEF TypeOK
    <3>3. g = gender[u] \/ gender[u] = "U"
      BY <1>7, <3>1 DEF EffectiveGender
    <3>4. CASE c = None
      <4>1. \A l \in Ladder : row'[u][l] = row[u][l]
        BY <1>7, <1>8, <3>4 DEF Reached
      <4>2. Primary(g) \in Ladder /\ "MX" \in Ladder
        BY <1>3 DEF Ladder
      <4>3. CASE g = gender[u]
        BY <2>1, <2>3, <3>2, <4>1, <4>2, <4>3
      <4>4. CASE gender[u] = "U"
        BY <2>1, <2>3, <3>2, <4>1, <4>2, <4>4
      <4> QED BY <3>3, <4>3, <4>4
    <3>5. CASE c # None
      <4>1. \A l \in Ladder : Reached(t, l) <=> l \in {Primary(g), "MX"}
        BY <1>1, <3>5 DEF Reached
      <4>2. g # "U" /\ g \in {"M", "F"} /\ c \in Code
        BY <1>3, <1>7, <3>5 DEF Gender, UpdateReq
      <4>3. \A l \in Ladder \ {Primary(g), "MX"} : row'[u][l] = row[u][l]
        BY <1>7, <1>8, <4>1
      <4>4. ASSUME NEW l \in {Primary(g), "MX"}
            PROVE  row'[u][l] = IF l = "MX" THEN MxOf[g][c] ELSE c
        <5>1. l \in Ladder
          BY <1>3 DEF Ladder
        <5>2. \/ d.row[l] # None /\ d.row[l].code = IF l = "MX" THEN MxOf[g][c] ELSE c
              \/ d.row[l] = None /\ row[u][l] = IF l = "MX" THEN MxOf[g][c] ELSE c
          BY <1>2, <1>3, <3>1, <4>1, <5>1 DEF UpdateOK
        <5> QED BY <1>8, <5>1, <5>2
      <4>5. \A l \in Ladder \ {Primary(g), "MX"} : row[u][l] = None
        BY <2>1, <2>3, <3>3
      <4>6. c # None /\ Primary(g) # "MX"
        BY <1>3, <3>5
      <4> HIDE DEF g
      <4> QED BY <2>3, <3>2, <4>2, <4>3, <4>4, <4>5, <4>6
    <3> QED BY <3>4, <3>5
  <2> QED BY <2>2, <2>3
<1> QED BY <1>12, <1>13, <1>14, <1>16, <1>17, <1>19, <1>20, <1>21, <1>22, <1>1 DEF IInv

---------------------------------------------------------------------------
(* create_match *)

LEMMA BeginCreateStep ==
  ASSUME IInv, NEW t \in Tx, NEW L \in Lineup, BeginCreate(t, L)
  PROVE  IInv'
<1>1. /\ pc[t] = "idle" /\ LadderOf(GendersOf(L)) # None
      /\ pc' = [pc EXCEPT ![t] = "rows"]
      /\ req' = [req EXCEPT ![t] = [form |-> "create", user |-> None, players |-> L]]
      /\ read' = [read EXCEPT ![t] = [ladder |-> LadderOf(GendersOf(L)), category |-> None]]
      /\ UNCHANGED <<tables, draft, locks, history>>
  BY DEF BeginCreate
<1>2. TypeOK
  BY DEF IInv
<1>3. /\ pc'[t] = "rows" /\ req'[t] \in CreateReq /\ req'[t].players = L /\ req'[t].form = "create"
      /\ read'[t] = [ladder |-> LadderOf(GendersOf(L)), category |-> None]
  BY <1>1, <1>2 DEF TypeOK, CreateReq
<1>4. Quiet(t)
  BY <1>1, <1>2, <1>3 DEF Quiet, TypeOK, history
<1>5. TypeOK'
  <2>1. pc' \in [Tx -> PC] /\ req' \in [Tx -> UpdateReq \cup CreateReq \cup {None}]
    BY <1>1, <1>2, <1>3 DEF TypeOK, PC, CreatePC
  <2> QED BY <1>1, <1>2, <2>1 DEF TypeOK, tables, history
<1>6. LadderOf(GendersOf(L)) \in Ladder
  <2>1. GendersOf(L) \in [L -> Gender]
    BY <1>2, LineupAssumption DEF GendersOf, TypeOK
  <2> QED BY <1>1, <2>1, LadderFound
<1>7. IdleOK(t)' /\ UpdateOK(t)'
  BY <1>3 DEF IdleOK, UpdateOK, UpdatePC
<1>8. CreateOK(t)'
  <2>1. GendersOf(req[t].players)' = GendersOf(L)
    BY <1>1, <1>3 DEF GendersOf, tables
  <2> QED BY <1>3, <1>6, <2>1 DEF CreateOK
<1>9. \A v \in User : t \notin Updating(v)'
  BY <1>3 DEF Updating
<1> QED BY <1>4, <1>5, <1>7, <1>8, <1>9, QuietStep

\* What a creation under way has.
LEMMA CreateUnderWay ==
  ASSUME IInv, NEW t \in Tx, pc[t] \in CreatePC
  PROVE  /\ req[t] \in CreateReq /\ req[t].form = "create"
         /\ req[t].players \in Lineup /\ req[t].players \subseteq User
         /\ read[t] \in [ladder : Ladder, category : Code \cup {None}] /\ read[t].ladder \in Ladder
  BY LineupAssumption DEF IInv, CreateOK, CreateReq

LEMMA CheckRowsStep ==
  ASSUME IInv, NEW t \in Tx, CheckRows(t)
  PROVE  IInv'
<1>1. CASE ~HaveRows(req[t].players, read[t].ladder)
  BY <1>1, EndStep DEF CheckRows
<1>2. CASE HaveRows(req[t].players, read[t].ladder)
  <2>1. /\ pc[t] = "rows" /\ pc' = [pc EXCEPT ![t] = "derive"]
        /\ UNCHANGED <<tables, crossed, req, read, draft, locks, beside>>
    BY <1>2 DEF CheckRows
  <2>2. TypeOK /\ CreateOK(t) /\ pc[t] \in CreatePC /\ pc'[t] = "derive"
    BY <2>1 DEF IInv, TypeOK, CreatePC
  <2>3. req[t] \in CreateReq /\ req[t].form = "create"
    BY <2>2, CreateUnderWay
  <2>4. Quiet(t)
    BY <2>1, <2>2, <2>3 DEF Quiet, TypeOK
  <2>5. TypeOK'
    BY <2>1, <2>2 DEF TypeOK, tables, PC, CreatePC
  <2>6. IdleOK(t)' /\ UpdateOK(t)'
    BY <2>2 DEF IdleOK, UpdateOK, UpdatePC
  <2>7. CreateOK(t)'
    <3>1. /\ GendersOf(req[t].players)' = GendersOf(req[t].players)
          /\ HaveRows(req[t].players, read[t].ladder)' = HaveRows(req[t].players, read[t].ladder)
      BY <2>1 DEF GendersOf, HaveRows, tables
    <3> QED BY <1>2, <2>1, <2>2, <3>1 DEF CreateOK
  <2>8. \A v \in User : t \notin Updating(v)'
    BY <2>1, <2>3 DEF Updating
  <2> QED BY <2>4, <2>5, <2>6, <2>7, <2>8, QuietStep
<1> QED BY <1>1, <1>2

LEMMA DeriveStep ==
  ASSUME IInv, NEW t \in Tx, Derive(t)
  PROVE  IInv'
<1> DEFINE L == req[t].players
           l == read[t].ladder
           med == Median(CodesOf(L, l))
<1>1. /\ pc[t] = "derive" /\ pc' = [pc EXCEPT ![t] = "insert"]
      /\ read' = [read EXCEPT ![t].category = med]
      /\ beside' = IF \E u \in L : Updating(u) # {} THEN beside \cup {t} ELSE beside
      /\ UNCHANGED <<tables, req, draft, locks, crossed>>
  BY DEF Derive
<1>2. TypeOK /\ CreateOK(t) /\ pc[t] \in CreatePC /\ pc'[t] = "insert"
  BY <1>1 DEF IInv, TypeOK, CreatePC
<1>3. /\ req[t] \in CreateReq /\ req[t].form = "create" /\ L \in Lineup /\ L \subseteq User
      /\ read[t] \in [ladder : Ladder, category : Code \cup {None}] /\ l \in Ladder
  BY <1>2, CreateUnderWay
<1>4. Quiet(t)
  BY <1>1, <1>2, <1>3 DEF Quiet, TypeOK
<1>5. TypeOK'
  <2>1. read' = [w \in Tx |-> read'[w]] /\ beside' \subseteq Tx /\ pc' \in [Tx -> PC]
    BY <1>1, <1>2 DEF TypeOK, PC, CreatePC
  <2> QED BY <1>1, <1>2, <2>1 DEF TypeOK, tables
<1>6. HaveRows(L, l)
  BY <1>1, <1>2 DEF CreateOK
<1>7. med \in Code
  <2>1. \A v \in L : row[v][l] \in Code
    BY <1>2, <1>3, <1>6 DEF HaveRows, TypeOK
  <2>2. CodesOf(L, l) \in [L -> Code]
    BY <2>1 DEF CodesOf
  <2> QED BY <1>3, <2>2, MedianInCode
<1>8. /\ read'[t] = [read[t] EXCEPT !.category = med]
      /\ read'[t].ladder = l /\ read'[t].category = med
      /\ read'[t] \in [ladder : Ladder, category : Code \cup {None}]
  <2> HIDE DEF med
  <2> QED BY <1>1, <1>2, <1>3, <1>7 DEF TypeOK
<1>9. IdleOK(t)' /\ UpdateOK(t)'
  BY <1>2 DEF IdleOK, UpdateOK, UpdatePC
<1>10. req'[t] = req[t]
  BY <1>1
<1>11. t \notin beside' => \A v \in L : Updating(v) = {}
  BY <1>1
<1>12. \A v \in User : Updating(v)' \subseteq Updating(v)
  BY <1>3, <1>4, <1>10 DEF Quiet, Updating
<1>13. CreateOK(t)'
  <2>1. /\ GendersOf(req[t].players)' = GendersOf(L)
        /\ HaveRows(req[t].players, read[t].ladder)' = HaveRows(L, l)
        /\ CodesOf(req[t].players, read[t].ladder)' = CodesOf(L, l)
    BY <1>1, <1>8, <1>10 DEF GendersOf, HaveRows, CodesOf, tables
  <2>2. L \cap crossed = {} => l = LadderOf(GendersOf(L))
    BY <1>2 DEF CreateOK
  <2>3. t \notin beside' => \A v \in L : Updating(v)' = {}
    BY <1>3, <1>11, <1>12
  <2> HIDE DEF med
  <2>4. med = Median(CodesOf(L, l))
    BY DEF med
  <2> QED BY <1>1, <1>2, <1>3, <1>6, <1>7, <1>8, <1>10, <2>1, <2>2, <2>3, <2>4 DEF CreateOK
<1>14. \A v \in User : t \notin Updating(v)'
  BY <1>3, <1>10 DEF Updating
<1> QED BY <1>4, <1>5, <1>9, <1>13, <1>14, QuietStep

LEMMA InsertMatchStep ==
  ASSUME IInv, NEW t \in Tx, NEW m \in Match, InsertMatch(t, m)
  PROVE  IInv'
<1> DEFINE L == req[t].players
           l == read[t].ladder
           made == [ladder |-> l, category |-> read[t].category, players |-> L, raced |-> t \in beside]
<1>1. /\ pc[t] = "insert" /\ match[m] = None /\ match' = [match EXCEPT ![m] = made]
      /\ End(t) /\ gender' = gender /\ row' = row /\ crossed' = crossed
  BY DEF InsertMatch
<1>2. TypeOK /\ CreateOK(t) /\ pc[t] \in CreatePC
  BY <1>1 DEF IInv, CreatePC
<1>3. L \in Lineup /\ L \subseteq User /\ l \in Ladder /\ read[t].category \in Code
  BY <1>1, <1>2, CreateUnderWay DEF CreateOK
<1>4. pc'[t] = "idle" /\ draft'[t] = Nothing
  BY <1>1, <1>2 DEF End, TypeOK
<1>5. \A w \in Tx \ {t} : /\ pc'[w] = pc[w] /\ req'[w] = req[w] /\ read'[w] = read[w]
                          /\ draft'[w] = draft[w] /\ (w \in beside' <=> w \in beside)
  BY <1>1, <1>2 DEF End, TypeOK
<1>6. \A v \in User : Updating(v)' \subseteq Updating(v)
  BY <1>4, <1>5 DEF Updating
<1>7. made \in MatchRow
  BY <1>3 DEF MatchRow
<1>8. match'[m] = made /\ \A n \in Match \ {m} : match'[n] = match[n]
  <2> HIDE DEF made
  <2> QED BY <1>1, <1>2 DEF TypeOK
<1>9. /\ match'[m].players = L /\ match'[m].ladder = l
      /\ match'[m].category = read[t].category /\ (match'[m].raced <=> t \in beside)
  <2>1. /\ made.players = L /\ made.ladder = l /\ made.category = read[t].category
        /\ made.raced = (t \in beside)
    OBVIOUS
  <2> HIDE DEF made
  <2> QED BY <1>8, <2>1
<1> HIDE DEF made
<1>10. TypeOK'
  <2>1. match' \in [Match -> MatchRow \cup {None}]
    BY <1>1, <1>2, <1>7 DEF TypeOK
  <2>2. /\ pc' \in [Tx -> PC] /\ req' \in [Tx -> UpdateReq \cup CreateReq \cup {None}]
        /\ read' = [w \in Tx |-> read'[w]] /\ draft' \in [Tx -> Draft]
        /\ locks' \in [Tx -> SUBSET (Mover \X (Ladder \cup {"profile"}))] /\ beside' \subseteq Tx
    BY <1>1, <1>2, NothingDraft DEF TypeOK, End, PC
  <2> QED BY <1>1, <1>2, <2>1, <2>2 DEF TypeOK
<1>11. ASSUME NEW w \in Tx PROVE IdleOK(w)'
  BY <1>4, <1>5 DEF IInv, IdleOK
<1>12. ASSUME NEW w \in Tx PROVE UpdateOK(w)'
  <2>1. CASE w = t
    BY <1>4, <2>1 DEF UpdateOK, UpdatePC
  <2>2. CASE w # t
    <3>1. UpdateOK(w)
      BY DEF IInv
    <3>2. /\ pc'[w] = pc[w] /\ req'[w] = req[w] /\ read'[w] = read[w]
          /\ draft'[w] = draft[w] /\ crossed' = crossed /\ row' = row
      BY <1>1, <1>5, <2>2
    <3>3. EffectiveGender(w)' = EffectiveGender(w)
      BY <3>2 DEF EffectiveGender
    <3>4. ASSUME NEW k \in Ladder PROVE Reached(w, k)' <=> Reached(w, k)
      BY <3>2, <3>3 DEF Reached
    <3> QED BY <3>1, <3>2, <3>3, <3>4 DEF UpdateOK
  <2> QED BY <2>1, <2>2
<1>13. ASSUME NEW w \in Tx PROVE CreateOK(w)'
  <2>1. CASE w = t
    BY <1>4, <2>1 DEF CreateOK, CreatePC
  <2>2. CASE w # t
    <3>1. CreateOK(w)
      BY DEF IInv
    <3>2. /\ pc'[w] = pc[w] /\ req'[w] = req[w] /\ read'[w] = read[w]
          /\ row' = row /\ gender' = gender /\ crossed' = crossed
          /\ (w \in beside' <=> w \in beside)
      BY <1>1, <1>5, <2>2
    <3>3. /\ GendersOf(req[w].players)' = GendersOf(req[w].players)
          /\ HaveRows(req[w].players, read[w].ladder)' = HaveRows(req[w].players, read[w].ladder)
          /\ CodesOf(req[w].players, read[w].ladder)' = CodesOf(req[w].players, read[w].ladder)
      BY <3>2 DEF GendersOf, HaveRows, CodesOf
    <3>4. pc[w] \in CreatePC => req[w].players \subseteq User
      BY CreateUnderWay
    <3> QED BY <3>1, <3>2, <3>3, <3>4, <1>6 DEF CreateOK
  <2> QED BY <2>1, <2>2
<1>14. ASSUME NEW v \in User \ crossed' PROVE AloneOK(v)'
  <2>1. AloneOK(v)
    BY <1>1 DEF IInv
  <2>2. ASSUME NEW w \in Updating(v)' PROVE w \in Updating(v) /\ read'[w] = read[w]
    <3>1. w \in Updating(v) /\ w \in Tx /\ w # t
      BY <1>4, <1>6, <2>2 DEF Updating
    <3> QED BY <1>5, <3>1
  <2> QED BY <1>1, <2>1, <2>2 DEF AloneOK
<1>15. ASSUME NEW n \in Match PROVE SettledOK(n)'
  <2>1. CASE n = m
    <3>1. t \notin beside => \A v \in L : Updating(v) = {}
      BY <1>1, <1>2 DEF CreateOK
    <3>2. t \notin beside => \A v \in L : Updating(v)' = {}
      BY <1>3, <1>6, <3>1
    <3> QED BY <1>9, <2>1, <3>2 DEF SettledOK
  <2>2. CASE n # m
    <3>1. SettledOK(n) /\ match'[n] = match[n]
      BY <1>8, <2>2 DEF IInv
    <3>2. match[n] # None => match[n].players \subseteq User
      BY <1>2, LineupAssumption DEF TypeOK, MatchRow
    <3>3. ASSUME match[n] # None, ~match[n].raced, NEW v \in match[n].players, NEW w \in Updating(v)'
          PROVE  draft'[w].row[match[n].ladder] = None
      <4>1. w \in Updating(v) /\ w \in Tx /\ w # t
        BY <1>4, <1>6, <3>2, <3>3 DEF Updating
      <4> QED BY <1>5, <3>1, <3>3, <4>1 DEF SettledOK
    <3> QED BY <3>1, <3>3 DEF SettledOK
  <2> QED BY <2>1, <2>2
<1>16. LineupFits'
  <2>1. HaveRows(L, l) /\ (L \cap crossed = {} => l = LadderOf(GendersOf(L)))
    BY <1>1, <1>2 DEF CreateOK
  <2>2. ASSUME NEW n \in Match, match'[n] # None
        PROVE  /\ \A v \in match'[n].players : row[v][match'[n].ladder] # None
               /\ match'[n].players \cap crossed = {} =>
                    match'[n].ladder = LadderOf([v \in match'[n].players |-> gender[v]])
    <3>1. CASE n = m
      BY <1>9, <2>1, <3>1 DEF HaveRows, GendersOf
    <3>2. CASE n # m
      BY <1>8, <2>2, <3>2 DEF IInv, LineupFits, HaveRows, GendersOf
    <3> QED BY <3>1, <3>2
  <2> QED BY <1>1, <2>2 DEF LineupFits, HaveRows, GendersOf
<1>17. CategoryFits'
  <2>1. t \in beside \/ read[t].category = Median(CodesOf(L, l))
    BY <1>1, <1>2 DEF CreateOK
  <2>2. ASSUME NEW n \in Match, match'[n] # None
        PROVE  \/ match'[n].raced
               \/ match'[n].category = Median([v \in match'[n].players |-> row[v][match'[n].ladder]])
    <3>1. CASE n = m
      BY <1>9, <2>1, <3>1 DEF CodesOf
    <3>2. CASE n # m
      BY <1>8, <2>2, <3>2 DEF IInv, CategoryFits, CodesOf
    <3> QED BY <3>1, <3>2
  <2> QED BY <1>1, <2>2 DEF CategoryFits, CodesOf
<1>18. ProfileConsistent'
  BY <1>1 DEF IInv, ProfileConsistent
<1> QED BY <1>10, <1>11, <1>12, <1>13, <1>14, <1>15, <1>16, <1>17, <1>18 DEF IInv

---------------------------------------------------------------------------
(* Theorems *)

LEMMA NextIInv == IInv /\ [Next]_vars => IInv'
<1> SUFFICES ASSUME IInv, [Next]_vars PROVE IInv'
  OBVIOUS
<1>1. ASSUME NEW t \in Tx, NEW u \in Mover, NEW g \in {"M", "F", None},
             NEW c \in Code \cup {None}, BeginUpdate(t, u, g, c)
      PROVE  IInv'
  BY <1>1, BeginUpdateStep
<1>2. ASSUME NEW t \in Tx, Update(t) PROVE IInv'
  <2>1. CASE RefuseUpdate(t)
    BY <2>1, EndStep DEF RefuseUpdate
  <2>2. CASE WriteProfile(t)
    BY <2>2, WriteProfileStep
  <2>3. CASE pc[t] \in {"primary", "writePrimary", "mx", "writeMx"} /\ ReadRow(t)
    BY <2>3, ReadRowStep
  <2>4. CASE RefuseCategory(t)
    BY <2>4, EndStep DEF RefuseCategory
  <2>5. CASE pc[t] \in {"primary", "writePrimary", "mx", "writeMx"} /\ WriteRow(t)
    BY <2>5, WriteRowStep
  <2>6. CASE Collision(t)
    BY <2>6, EndStep DEF Collision
  <2>7. CASE CommitUpdate(t)
    BY <2>7, CommitUpdateStep
  <2> QED BY <1>2, <2>1, <2>2, <2>3, <2>4, <2>5, <2>6, <2>7 DEF Update
<1>3. ASSUME NEW t \in Tx, NEW L \in Lineup, BeginCreate(t, L) PROVE IInv'
  BY <1>3, BeginCreateStep
<1>4. ASSUME NEW t \in Tx, CheckRows(t) \/ Derive(t) PROVE IInv'
  BY <1>4, CheckRowsStep, DeriveStep
<1>5. ASSUME NEW t \in Tx, NEW m \in Match, InsertMatch(t, m) PROVE IInv'
  BY <1>5, InsertMatchStep
<1>6. ASSUME NEW t \in Tx, Fail(t) PROVE IInv'
  BY <1>6, EndStep DEF Fail
<1>7. CASE UNCHANGED vars
  <2>1. TypeOK' /\ (LineupFits /\ ProfileConsistent /\ CategoryFits)'
    BY <1>7 DEF IInv, TypeOK, LineupFits, HaveRows, GendersOf, ProfileConsistent,
                CategoryFits, CodesOf, vars, tables, txVars, history
  <2>2. \A t \in Tx : (IdleOK(t) /\ UpdateOK(t) /\ CreateOK(t))'
    BY <1>7 DEF IInv, IdleOK, UpdateOK, EffectiveGender, Reached, CreateOK, HaveRows, GendersOf,
                CodesOf, Updating, vars, tables, txVars, history
  <2>3. \A u \in User \ crossed' : AloneOK(u)'
    BY <1>7 DEF IInv, AloneOK, Updating, vars, tables, txVars, history
  <2>4. \A m \in Match : SettledOK(m)'
    BY <1>7 DEF IInv, SettledOK, Updating, vars, tables, txVars, history
  <2> QED BY <2>1, <2>2, <2>3, <2>4 DEF IInv
<1> QED BY <1>1, <1>2, <1>3, <1>4, <1>5, <1>6, <1>7 DEF Next

\* The inductive invariant holds whatever updates, creations and failures
\* run beside each other.
THEOREM Invariance == Spec => []IInv
  BY InitIInv, NextIInv, PTL DEF Spec

\* Whoever plays a match has a row in its ladder, and the ladder stays the one
\* of the players' genders, though create_match reads both without a lock.
THEOREM Fits == Spec => []LineupFits
<1>1. IInv => LineupFits
  BY DEF IInv
<1> QED
  BY <1>1, Invariance, PTL

\* A player has both ladder rows of his gender or none, with matching
\* categories, unless two of his updates crossed.
THEOREM Consistent == Spec => []ProfileConsistent
<1>1. IInv => ProfileConsistent
  BY DEF IInv
<1> QED
  BY <1>1, Invariance, PTL

\* The category of a match stays the median of its players' categories,
\* unless an update of one of them was under way while it was made.
THEOREM CategoryStays == Spec => []CategoryFits
<1>1. IInv => CategoryFits
  BY DEF IInv
<1> QED
  BY <1>1, Invariance, PTL
=============================================================================
