------------------------ MODULE MatchConfirmProofs ------------------------
(***************************************************************************)
(* Proofs about MatchConfirm: IInv is inductive; the safety properties     *)
(* that follow from it, what the ranking of a verified match writes, and   *)
(* that the requests implement MatchAgreement, for any matches, players,   *)
(* scores, request slots and limits.                                       *)
(***************************************************************************)
EXTENDS MatchConfirm, FiniteSetTheorems, TLAPS

USE DEF MatchStatus, PC

\* The number of confirmed players of a match is a natural number.
LEMMA ConfirmedFinite ==
  ASSUME NEW m \in Match, NEW S \in SUBSET Players(m)
  PROVE  IsFiniteSet(S) /\ Cardinality(S) \in Nat
  BY TeamAssumption, FS_Subset, FS_CardinalityType

\* The creator alone is not both teams.
LEMMA OneIsNotBoth ==
  ASSUME NEW m \in Match, NEW u
  PROVE  ~BothTeams(m, {u})
  BY TeamAssumption DEF BothTeams

\* Initially the invariant holds.
LEMMA InitIInv == Init => IInv
<1> SUFFICES ASSUME Init PROVE IInv
  OBVIOUS
<1> USE DEF Init
<1>1. TypeOK
  <2>1. \A m \in Match : InitScore[m] \in Score /\ Creator[m] \in Player
    BY TeamAssumption, ScoreAssumption
  <2>2. score \in [Match -> Score]
    BY ScoreAssumption
  <2>3. agreed \in [Match -> [Player -> Score \cup {None}]]
    BY <2>1
  <2>4. conf \in [Match -> SUBSET Player] /\ rating \in [Player -> Int]
    BY <2>1, NumberAssumption
  <2>5. ledger \in [Player -> Seq(RatingEvents)]
    OBVIOUS
  <2>6. stake \in [Tx -> [Player -> LadderRows \cup {None}]]
    BY DEF NoStake
  <2>7. QED
    BY <2>2, <2>3, <2>4, <2>5, <2>6 DEF TypeOK
<1>2. ASSUME NEW t \in Tx PROVE TxOK(t)
  BY NoneAssumption DEF TxOK, RequestOK, HoldsMatch, RankingAgreed, StakeCurrent
<1>3. ASSUME NEW m \in Match PROVE MatchOK(m)
  <2>1. Creator[m] \in Players(m) /\ Creator[m] \in Player
    BY TeamAssumption
  <2>2. Active(m) = InitScore[m]
    BY DEF Active
  <2>3. conf[m] = {Creator[m]} /\ Cardinality(conf[m]) = 1
    BY FS_Singleton
  <2>4. ~BothTeams(m, conf[m])
    BY <2>3, OneIsNotBoth
  <2>5. agreed[m][Creator[m]] = InitScore[m]
    BY <2>1
  <2>6. QED
    BY <2>1, <2>2, <2>3, <2>4, <2>5, NumberAssumption DEF MatchOK
<1>4. QED
  BY <1>1, <1>2, <1>3 DEF IInv

---------------------------------------------------------------------------
(* What a step needs to know and what it leaves alone *)

\* The slot of s and every row it has locked stay as they are.
SlotKept(s) ==
  /\ pc'[s] = pc[s] /\ req'[s] = req[s]
  /\ seen'[s] = seen[s] /\ stake'[s] = stake[s]
  /\ \A m \in Match : matchLock[m] = s => matchLock'[m] = s /\ RowNow(m)' = RowNow(m)
  /\ \A u \in Player : ladderLock'[u] = s =>
       ladderLock[u] = s /\ rating'[u] = rating[u] /\ vm'[u] = vm[u]

\* The stored data of a match stay as they are.
MatchKept(m) ==
  /\ status'[m] = status[m] /\ score'[m] = score[m] /\ proposed'[m] = proposed[m]
  /\ proposals'[m] = proposals[m] /\ conf'[m] = conf[m] /\ count'[m] = count[m]
  /\ agreed'[m] = agreed[m]

\* A request keeps its invariant through steps that leave its slot and the
\* rows it locked alone.
LEMMA SlotKeptOK ==
  ASSUME NEW s \in Tx, TypeOK, TxOK(s), SlotKept(s)
  PROVE  TxOK(s)'
<1>1. RequestOK(s)'
  BY DEF TxOK, RequestOK, SlotKept
<1>2. HoldsMatch(s)'
  <2>1. SUFFICES ASSUME pc[s] \in {"decide", "rank"}
                 PROVE  matchLock'[req[s].match] = s /\ seen[s] = RowNow(req[s].match)'
    BY DEF HoldsMatch, SlotKept
  <2>2. req[s].match \in Match
    BY <2>1 DEF TxOK, RequestOK, Requests
  <2>3. QED
    BY <2>1, <2>2 DEF TxOK, HoldsMatch, SlotKept
<1>3. RankingAgreed(s)'
  BY DEF TxOK, RankingAgreed, SlotKept, Counters, Backing
<1>4. StakeCurrent(s)'
  BY DEF TxOK, StakeCurrent, SlotKept
<1>5. QED
  BY <1>1, <1>2, <1>3, <1>4 DEF TxOK

\* So does a match whose data stay as they are.
LEMMA MatchKeptOK ==
  ASSUME NEW m \in Match, MatchOK(m), MatchKept(m)
  PROVE  MatchOK(m)'
  BY DEF MatchOK, MatchKept, Active, BothTeams

\* The arguments of a request under way.
LEMMA Acting ==
  ASSUME IInv, NEW t \in Tx, pc[t] # "idle"
  PROVE  /\ req[t].match \in Match /\ req[t].user \in Player
         /\ req[t].offer \in Payload \cup {None}
         /\ req[t].user \in Players(req[t].match)
  BY DEF IInv, TxOK, RequestOK, Requests

\* The active score of a match is a valid one.
LEMMA ActiveScore ==
  ASSUME TypeOK, NEW m \in Match
  PROVE  Active(m) \in Score
  BY DEF TypeOK, Active

\* What a request read under the lock of its match is what is stored, and no
\* other request holds that lock.
LEMMA Reading ==
  ASSUME IInv, NEW t \in Tx, pc[t] \in {"decide", "rank"}
  PROVE  /\ matchLock[req[t].match] = t
         /\ seen[t].status = status[req[t].match]
         /\ seen[t].proposals = proposals[req[t].match]
         /\ seen[t].active = Active(req[t].match)
         /\ seen[t].conf = conf[req[t].match]
<1>1. HoldsMatch(t)
  BY DEF IInv, TxOK
<1>2. QED
  BY <1>1 DEF HoldsMatch, RowNow

\* The end of a transaction frees its slot and its locks, and nobody else's.
LEMMA Ending ==
  ASSUME IInv, NEW t \in Tx, End(t)
  PROVE  /\ matchLock' \in [Match -> Tx \cup {None}]
         /\ ladderLock' \in [Player -> Tx \cup {None}]
         /\ pc' \in [Tx -> PC]
         /\ req' \in [Tx -> Requests \cup {None}]
         /\ seen' \in [Tx -> SeenRows \cup {None}]
         /\ stake' \in [Tx -> [Player -> LadderRows \cup {None}]]
         /\ TxOK(t)'
         /\ \A s \in Tx \ {t} :
              /\ pc'[s] = pc[s] /\ req'[s] = req[s]
              /\ seen'[s] = seen[s] /\ stake'[s] = stake[s]
              /\ \A m \in Match : matchLock[m] = s => matchLock'[m] = s
              /\ \A u \in Player : ladderLock'[u] = s => ladderLock[u] = s
<1>1. TypeOK
  BY DEF IInv
<1>2. /\ matchLock' \in [Match -> Tx \cup {None}]
      /\ ladderLock' \in [Player -> Tx \cup {None}]
  BY <1>1 DEF TypeOK, End
<1>3. /\ pc' \in [Tx -> PC]
      /\ req' \in [Tx -> Requests \cup {None}]
      /\ seen' \in [Tx -> SeenRows \cup {None}]
  BY <1>1 DEF TypeOK, End
<1>4. stake' \in [Tx -> [Player -> LadderRows \cup {None}]]
  BY <1>1 DEF TypeOK, End, NoStake
<1>5. TxOK(t)'
  <2>1. pc'[t] = "idle"
    BY <1>1 DEF TypeOK, End
  <2>2. \A u \in Player : ladderLock'[u] # t
    BY <1>1, NoneAssumption DEF TypeOK, End
  <2>3. QED
    BY <2>1, <2>2 DEF TxOK, RequestOK, HoldsMatch, RankingAgreed, StakeCurrent
<1>6. ASSUME NEW s \in Tx \ {t}
      PROVE  /\ pc'[s] = pc[s] /\ req'[s] = req[s]
             /\ seen'[s] = seen[s] /\ stake'[s] = stake[s]
             /\ \A m \in Match : matchLock[m] = s => matchLock'[m] = s
             /\ \A u \in Player : ladderLock'[u] = s => ladderLock[u] = s
  BY <1>1, NoneAssumption DEF TypeOK, End
<1>7. QED
  BY <1>2, <1>3, <1>4, <1>5, <1>6

---------------------------------------------------------------------------
(* Every step preserves the invariant *)

\* A step that ends t and writes no row that another request has locked,
\* keeps the types and leaves every match in order.
LEMMA EndingStep ==
  ASSUME IInv, NEW t \in Tx, End(t), TypeOK',
         \A s \in Tx \ {t} :
           /\ \A m \in Match : matchLock[m] = s => RowNow(m)' = RowNow(m)
           /\ \A u \in Player : ladderLock[u] = s => rating'[u] = rating[u] /\ vm'[u] = vm[u],
         \A m \in Match : MatchOK(m)'
  PROVE  IInv'
<1>1. TxOK(t)'
  BY Ending
<1>2. ASSUME NEW s \in Tx \ {t} PROVE TxOK(s)'
  <2>1. SlotKept(s)
    BY Ending DEF SlotKept
  <2>2. QED
    BY <2>1, SlotKeptOK DEF IInv
<1>3. QED
  BY <1>1, <1>2 DEF IInv

\* Ending a request that writes nothing preserves the invariant.
LEMMA QuietEnd ==
  ASSUME IInv, NEW t \in Tx, End(t), UNCHANGED <<matchVars, ladderVars>>
  PROVE  IInv'
<1> USE DEF matchVars, ladderVars
<1>1. TypeOK'
  BY Ending DEF TypeOK, IInv
<1>2. \A m \in Match : RowNow(m)' = RowNow(m)
  BY DEF RowNow, Active
<1>3. \A m \in Match : MatchOK(m)'
  BY MatchKeptOK DEF MatchKept, IInv
<1>4. QED
  BY <1>1, <1>2, <1>3, EndingStep

\* A new request (confirm_match or match_detail) preserves the invariant.
LEMMA RequestStep ==
  ASSUME IInv, NEW t \in Tx, Request(t)
  PROVE  IInv'
<1> USE DEF matchVars, ladderVars, lockVars
<1>1. PICK m \in Match, u \in Player, o \in Payload \cup {None}, p \in {"confirm", "expire"} :
        /\ pc[t] = "idle" /\ u \in Players(m)
        /\ pc' = [pc EXCEPT ![t] = p]
        /\ req' = [req EXCEPT ![t] = [user |-> u, match |-> m, offer |-> o]]
        /\ UNCHANGED <<matchVars, ladderVars, lockVars, seen, stake>>
  BY TeamAssumption DEF Request, Begin, BeginDetail, Players
<1>2. TypeOK
  BY DEF IInv
<1>3. req'[t] = [user |-> u, match |-> m, offer |-> o] /\ req'[t] \in Requests /\ pc'[t] = p
  BY <1>1, <1>2 DEF TypeOK, Requests
<1>4. TypeOK'
  <2>1. pc' \in [Tx -> PC]
    BY <1>1, <1>2 DEF TypeOK
  <2>2. req' \in [Tx -> Requests \cup {None}]
    BY <1>1, <1>2, <1>3 DEF TypeOK
  <2>3. QED
    BY <1>1, <1>2, <2>1, <2>2 DEF TypeOK
<1>5. TxOK(t)'
  <2>1. RequestOK(t)'
    BY <1>1, <1>3 DEF RequestOK
  <2>2. StakeCurrent(t)'
    BY <1>1 DEF IInv, TxOK, StakeCurrent
  <2>3. QED
    BY <1>3, <2>1, <2>2 DEF TxOK, HoldsMatch, RankingAgreed
<1>6. ASSUME NEW s \in Tx \ {t} PROVE TxOK(s)'
  <2>1. SlotKept(s)
    BY <1>1, <1>2 DEF SlotKept, TypeOK, RowNow, Active
  <2>2. QED
    BY <2>1, SlotKeptOK DEF IInv
<1>7. \A n \in Match : MatchOK(n)'
  BY <1>1, MatchKeptOK DEF MatchKept, IInv
<1>8. QED
  BY <1>4, <1>5, <1>6, <1>7 DEF IInv

\* Locking and reading the row of a match preserves the invariant.
LEMMA LockMatchStep ==
  ASSUME IInv, NEW t \in Tx, LockMatch(t)
  PROVE  IInv'
<1> USE DEF LockMatch, matchVars, ladderVars
<1> DEFINE m == req[t].match
<1>1. TypeOK
  BY DEF IInv
<1>2. m \in Match
  BY Acting
<1>3. RowNow(m) \in SeenRows
  BY <1>1, <1>2, ActiveScore DEF TypeOK, RowNow, SeenRows
<1>4. TypeOK'
  <2>1. pc' \in [Tx -> PC] /\ matchLock' \in [Match -> Tx \cup {None}]
    BY <1>1 DEF TypeOK
  <2>2. seen' \in [Tx -> SeenRows \cup {None}]
    BY <1>1, <1>3 DEF TypeOK
  <2>3. QED
    BY <1>1, <2>1, <2>2 DEF TypeOK
<1>5. \A n \in Match : RowNow(n)' = RowNow(n)
  BY DEF RowNow, Active
<1>6. TxOK(t)'
  <2>1. pc'[t] = "decide" /\ seen'[t] = RowNow(m) /\ matchLock'[m] = t /\ req'[t] = req[t]
    BY <1>1, <1>2 DEF TypeOK
  <2>2. RequestOK(t)'
    BY <2>1 DEF IInv, TxOK, RequestOK
  <2>3. HoldsMatch(t)'
    BY <2>1, <1>2, <1>5 DEF HoldsMatch
  <2>4. StakeCurrent(t)'
    BY DEF IInv, TxOK, StakeCurrent
  <2>5. QED
    BY <2>1, <2>2, <2>3, <2>4 DEF TxOK, RankingAgreed
<1>7. ASSUME NEW s \in Tx \ {t} PROVE TxOK(s)'
  <2>1. SlotKept(s)
    <3>1. pc'[s] = pc[s] /\ req'[s] = req[s] /\ seen'[s] = seen[s] /\ stake'[s] = stake[s]
      BY <1>1 DEF TypeOK
    <3>2. \A n \in Match : matchLock[n] = s => matchLock'[n] = s
      BY <1>1, NoneAssumption DEF TypeOK
    <3>3. QED
      BY <3>1, <3>2, <1>5 DEF SlotKept
  <2>2. QED
    BY <2>1, SlotKeptOK DEF IInv
<1>8. \A n \in Match : MatchOK(n)'
  BY MatchKeptOK DEF MatchKept, IInv
<1>9. QED
  BY <1>4, <1>6, <1>7, <1>8 DEF IInv

\* Expiring a pending match whose row no other request has locked preserves
\* the invariant.
LEMMA ExpireStep ==
  ASSUME IInv, NEW t \in Tx, End(t), NEW m \in Match,
         matchLock[m] \in {t, None},
         status' = [status EXCEPT ![m] = IF @ = "pending_confirm" THEN "expired" ELSE @],
         UNCHANGED <<past, score, proposed, proposals, conf, count, processed,
                     applied, agreed, ladderVars>>
  PROVE  IInv'
<1> USE DEF ladderVars
<1>1. TypeOK
  BY DEF IInv
<1>2. TypeOK'
  <2>1. status' \in [Match -> MatchStatus]
    BY <1>1 DEF TypeOK
  <2>2. QED
    BY <1>1, <2>1, Ending DEF TypeOK
<1>3. ASSUME NEW s \in Tx \ {t}, NEW n \in Match, matchLock[n] = s
      PROVE  RowNow(n)' = RowNow(n)
  <2>1. n # m
    BY <1>3, NoneAssumption
  <2>2. QED
    BY <1>1, <2>1 DEF TypeOK, RowNow, Active
<1>4. ASSUME NEW n \in Match PROVE MatchOK(n)'
  <2>1. status'[n] = "verified" <=> status[n] = "verified"
    BY <1>1 DEF TypeOK
  <2>2. MatchOK(n)
    BY DEF IInv
  <2>3. QED
    BY <2>1, <2>2 DEF MatchOK, Active, BothTeams
<1>5. QED
  BY <1>2, <1>3, <1>4, EndingStep

\* Expiring a match on confirmation preserves the invariant.
LEMMA ExpireOnConfirmStep ==
  ASSUME IInv, NEW t \in Tx, ExpireOnConfirm(t)
  PROVE  IInv'
  BY Acting, Reading, ExpireStep DEF ExpireOnConfirm

\* Expiring a match on reading it preserves the invariant.
LEMMA DetailExpireStep ==
  ASSUME IInv, NEW t \in Tx, DetailExpire(t)
  PROVE  IInv'
  BY Acting, ExpireStep DEF DetailExpire

\* What a proposal or a confirmation of t does to the slots and rows of the
\* other requests: nothing, for t holds the row of its match.
LEMMA OtherRows ==
  ASSUME IInv, NEW t \in Tx, pc[t] \in {"decide", "rank"},
         \A n \in Match \ {req[t].match} : MatchKept(n)
  PROVE  \A s \in Tx \ {t} : \A n \in Match :
           matchLock[n] = s => RowNow(n)' = RowNow(n)
  BY Reading DEF MatchKept, RowNow, Active

\* A new proposal preserves the invariant: its author is left as the only
\* confirmed player, and he agreed to it.
LEMMA ProposeStep ==
  ASSUME IInv, NEW t \in Tx, Propose(t)
  PROVE  IInv'
<1> USE DEF Propose, Open, Acceptable, AfterProposal, ladderVars
<1>1. TypeOK /\ pc[t] = "decide"
  BY DEF IInv
<1>2. PICK m \in Match, u \in Player, o \in Score :
        /\ m = req[t].match /\ u = req[t].user /\ o = req[t].offer
        /\ u \in Players(m)
  BY <1>1, Acting
<1>3. status[m] = "pending_confirm" /\ proposals[m] < MAX_SCORE_PROPOSALS
  BY <1>1, <1>2, Reading
<1>4. TypeOK'
  <2>1. proposed' \in [Match -> Score \cup {None}] /\ proposals' \in [Match -> Nat]
    BY <1>1, <1>2 DEF TypeOK
  <2>2. conf' \in [Match -> SUBSET Player] /\ count' \in [Match -> Nat]
    BY <1>1, <1>2 DEF TypeOK
  <2>3. agreed' \in [Match -> [Player -> Score \cup {None}]]
    BY <1>1, <1>2 DEF TypeOK
  <2>4. QED
    BY <1>1, <2>1, <2>2, <2>3, Ending DEF TypeOK
<1>5. ASSUME NEW n \in Match \ {m} PROVE MatchKept(n)
  BY <1>1, <1>2 DEF TypeOK, MatchKept
<1>6. MatchOK(m)'
  <2>1. conf'[m] = {u} /\ count'[m] = 1 /\ proposed'[m] = o /\ agreed'[m][u] = o
    BY <1>1, <1>2 DEF TypeOK
  <2>2. proposals'[m] = proposals[m] + 1 /\ status'[m] = status[m]
    BY <1>1, <1>2 DEF TypeOK
  <2>3. proposals'[m] <= MAX_SCORE_PROPOSALS
    BY <1>1, <1>2, <1>3, <2>2, NumberAssumption DEF TypeOK
  <2>4. Active(m)' = o
    BY <1>2, <2>1, NoneAssumption, ScoreAssumption DEF Active
  <2>5. Cardinality({u}) = 1 /\ ~BothTeams(m, {u})
    BY OneIsNotBoth, FS_Singleton
  <2>6. ~BothTeams(m, conf[m])'
    BY <2>1, <2>5 DEF BothTeams
  <2>7. QED
    BY <1>2, <1>3, <2>1, <2>2, <2>3, <2>4, <2>5, <2>6 DEF MatchOK
<1>7. \A n \in Match : MatchOK(n)'
  BY <1>5, <1>6, MatchKeptOK DEF IInv
<1>8. QED
  BY <1>1, <1>2, <1>4, <1>5, <1>7, OtherRows, EndingStep

\* What both kinds of confirmation write to the rows of match m: the players
\* t adds itself to, their number and its agreement.
Confirms(t, m, u) ==
  /\ conf' = [conf EXCEPT ![m] = @ \cup {u}]
  /\ count' = [count EXCEPT ![m] = Cardinality(Backing(t))]
  /\ agreed' = [agreed EXCEPT ![m][u] = seen[t].active]

\* The confirmed players, their number and what they agreed to, in step.
Confirmed(t, m) ==
  /\ conf' \in [Match -> SUBSET Player]
  /\ count' \in [Match -> Nat]
  /\ agreed' \in [Match -> [Player -> Score \cup {None}]]
  /\ conf'[m] = Backing(t)
  /\ count'[m] = Cardinality(Backing(t))
  /\ Backing(t) \subseteq Players(m)
  /\ \A v \in Backing(t) : agreed'[m][v] = Active(m)
  /\ \A n \in Match \ {m} :
       conf'[n] = conf[n] /\ count'[n] = count[n] /\ agreed'[n] = agreed[n]

\* A confirmation keeps them in step.
LEMMA ConfirmedRows ==
  ASSUME IInv, NEW t \in Tx, pc[t] \in {"decide", "rank"}, NEW m, NEW u,
         m = req[t].match, u = req[t].user, Confirms(t, m, u)
  PROVE  Confirmed(t, m)
<1> USE DEF Confirms
<1>1. TypeOK /\ m \in Match /\ u \in Player /\ u \in Players(m)
  BY Acting DEF IInv
<1>2. /\ seen[t].active = Active(m) /\ seen[t].conf = conf[m]
      /\ Active(m) \in Score /\ MatchOK(m)
  BY <1>1, Reading, ActiveScore DEF IInv
<1>3. Backing(t) = conf[m] \cup {u} /\ Backing(t) \subseteq Players(m)
  BY <1>1, <1>2 DEF Backing, MatchOK
<1>4. Cardinality(Backing(t)) \in Nat
  BY <1>1, <1>3, ConfirmedFinite
<1>5. conf' \in [Match -> SUBSET Player] /\ count' \in [Match -> Nat]
  BY <1>1, <1>4 DEF TypeOK
<1>6. agreed' \in [Match -> [Player -> Score \cup {None}]]
  BY <1>1, <1>2 DEF TypeOK
<1>7. conf'[m] = Backing(t) /\ count'[m] = Cardinality(Backing(t))
  BY <1>1, <1>3 DEF TypeOK
<1>8. \A v \in Backing(t) : agreed'[m][v] = Active(m)
  BY <1>1, <1>2, <1>3 DEF TypeOK, MatchOK
<1>9. \A n \in Match \ {m} : conf'[n] = conf[n] /\ count'[n] = count[n] /\ agreed'[n] = agreed[n]
  BY <1>1 DEF TypeOK
<1>10. QED
  BY <1>3, <1>5, <1>6, <1>7, <1>8, <1>9 DEF Confirmed

\* A confirmation that leaves one team silent preserves the invariant.
LEMMA ConfirmStep ==
  ASSUME IInv, NEW t \in Tx, Confirm(t)
  PROVE  IInv'
<1> USE DEF Confirm, Open, ladderVars
<1>1. TypeOK /\ pc[t] = "decide"
  BY DEF IInv
<1>2. PICK m \in Match, u \in Player : m = req[t].match /\ u = req[t].user
  BY <1>1, Acting
<1>3. status[m] = "pending_confirm"
  BY <1>1, <1>2, Reading
<1>4. Confirmed(t, m)
  BY <1>1, <1>2, ConfirmedRows DEF Confirms, Recount
<1>5. TypeOK'
  BY <1>1, <1>4, Ending DEF TypeOK, Confirmed
<1>6. ASSUME NEW n \in Match \ {m} PROVE MatchKept(n)
  BY <1>4 DEF MatchKept, Confirmed
<1>7. MatchOK(m)'
  <2>1. Active(m)' = Active(m)
    BY DEF Active
  <2>2. ~BothTeams(m, conf[m])'
    BY <1>2, <1>4 DEF BothTeams, Confirmed
  <2>3. MatchOK(m)
    BY DEF IInv
  <2>4. QED
    BY <1>3, <1>4, <2>1, <2>2, <2>3 DEF MatchOK, Confirmed
<1>8. \A n \in Match : MatchOK(n)'
  BY <1>6, <1>7, MatchKeptOK DEF IInv
<1>9. QED
  BY <1>1, <1>2, <1>5, <1>6, <1>8, OtherRows, EndingStep

\* Starting to rank preserves the invariant.
LEMMA EnterRankingStep ==
  ASSUME IInv, NEW t \in Tx, EnterRanking(t)
  PROVE  IInv'
<1> USE DEF EnterRanking, Open, matchVars, ladderVars, lockVars
<1>1. TypeOK /\ TxOK(t) /\ pc'[t] = "rank"
  BY DEF IInv, TypeOK
<1>2. TypeOK'
  <2>1. pc' \in [Tx -> PC]
    BY <1>1 DEF TypeOK
  <2>2. QED
    BY <1>1, <2>1 DEF TypeOK
<1>3. \A n \in Match : RowNow(n)' = RowNow(n)
  BY DEF RowNow, Active
<1>4. TxOK(t)'
  <2>1. RequestOK(t)'
    BY <1>1 DEF TxOK, RequestOK
  <2>2. HoldsMatch(t)'
    <3>1. matchLock[req[t].match] = t /\ seen[t] = RowNow(req[t].match)
      BY <1>1 DEF TxOK, HoldsMatch
    <3>2. QED
      BY <3>1, <1>1 DEF HoldsMatch, RowNow, Active
  <2>3. RankingAgreed(t)'
    BY <1>1 DEF RankingAgreed, Counters, BothTeams, Backing
  <2>4. StakeCurrent(t)'
    BY <1>1 DEF TxOK, StakeCurrent
  <2>5. QED
    BY <2>1, <2>2, <2>3, <2>4 DEF TxOK
<1>5. ASSUME NEW s \in Tx \ {t} PROVE TxOK(s)'
  <2>1. SlotKept(s)
    BY <1>1, <1>3 DEF SlotKept, TypeOK
  <2>2. QED
    BY <2>1, SlotKeptOK DEF IInv
<1>6. \A n \in Match : MatchOK(n)'
  BY MatchKeptOK DEF MatchKept, IInv
<1>7. QED
  BY <1>2, <1>4, <1>5, <1>6 DEF IInv

\* Locking a ladder row and reading it preserves the invariant.
LEMMA LockLadderStep ==
  ASSUME IInv, NEW t \in Tx, NEW u \in Player, LockLadder(t, u)
  PROVE  IInv'
<1> USE DEF LockLadder, matchVars, ladderVars
<1>1. TypeOK /\ TxOK(t) /\ pc[t] = "rank"
  BY DEF IInv
<1>2. [rating |-> rating[u], vm |-> vm[u]] \in LadderRows
  BY <1>1 DEF TypeOK, LadderRows
<1>3. /\ \A v \in Player : ladderLock'[v] = IF v = u THEN t ELSE ladderLock[v]
      /\ \A v \in Player : stake'[t][v] = IF v = u THEN [rating |-> rating[u], vm |-> vm[u]]
                                                  ELSE stake[t][v]
      /\ \A s \in Tx \ {t} : stake'[s] = stake[s]
  BY <1>1 DEF TypeOK
<1>4. TypeOK'
  <2>1. ladderLock' \in [Player -> Tx \cup {None}]
    BY <1>1 DEF TypeOK
  <2>2. stake' \in [Tx -> [Player -> LadderRows \cup {None}]]
    BY <1>1, <1>2 DEF TypeOK
  <2>3. QED
    BY <1>1, <2>1, <2>2 DEF TypeOK
<1>5. \A n \in Match : RowNow(n)' = RowNow(n)
  BY DEF RowNow, Active
<1>6. TxOK(t)'
  <2>1. RequestOK(t)'
    BY <1>1 DEF TxOK, RequestOK
  <2>2. HoldsMatch(t)'
    <3>1. matchLock[req[t].match] = t /\ seen[t] = RowNow(req[t].match)
      BY <1>1 DEF TxOK, HoldsMatch
    <3>2. QED
      BY <3>1 DEF HoldsMatch, RowNow, Active
  <2>3. RankingAgreed(t)'
    BY <1>1 DEF TxOK, RankingAgreed, Counters, BothTeams, Backing
  <2>4. StakeCurrent(t)'
    BY <1>1, <1>3 DEF TxOK, StakeCurrent
  <2>5. QED
    BY <2>1, <2>2, <2>3, <2>4 DEF TxOK
<1>7. ASSUME NEW s \in Tx \ {t} PROVE TxOK(s)'
  <2>1. SlotKept(s)
    BY <1>1, <1>3, <1>5 DEF SlotKept
  <2>2. QED
    BY <2>1, SlotKeptOK DEF IInv
<1>8. \A n \in Match : MatchOK(n)'
  BY MatchKeptOK DEF MatchKept, IInv
<1>9. QED
  BY <1>4, <1>6, <1>7, <1>8 DEF IInv

\* Time reaching a deadline preserves the invariant.
LEMMA DeadlineStep ==
  ASSUME IInv, NEW m \in Match, DeadlinePasses(m)
  PROVE  IInv'
<1> USE DEF DeadlinePasses, ladderVars, lockVars, txVars
<1>1. TypeOK'
  BY DEF IInv, TypeOK
<1>2. ASSUME NEW s \in Tx PROVE TxOK(s)'
  <2>1. SlotKept(s)
    BY DEF SlotKept, RowNow, Active
  <2>2. QED
    BY <2>1, SlotKeptOK DEF IInv
<1>3. \A n \in Match : MatchOK(n)'
  BY MatchKeptOK DEF MatchKept, IInv
<1>4. QED
  BY <1>1, <1>2, <1>3 DEF IInv

\* The rating a player of m gets in a step that verifies it with Elo change d.
NewRating(m, d, v) ==
  rating[v] + CapDelta(vm[v], TeamDelta(m, v, Active(m), d))

\* Each player of m moves from the rating he has, not from one read before
\* somebody else changed it, to his new rating in f.
Rates(m, f) ==
  /\ rating' = [v \in Player |-> IF v \in Players(m) THEN f[v] ELSE rating[v]]
  /\ ledger' = [v \in Player |->
       IF v \in Players(m)
         THEN Append(ledger[v], [match |-> m, old |-> rating[v], new |-> f[v]])
         ELSE ledger[v]]
  /\ vm' = [v \in Player |-> IF v \in Players(m) THEN vm[v] + 1 ELSE vm[v]]

\* A capped Elo change is an integer.
LEMMA DeltaInt ==
  ASSUME NEW m, NEW v, NEW s \in Score, NEW d \in Delta, NEW games \in Nat
  PROVE  CapDelta(games, TeamDelta(m, v, s, d)) \in Int
<1>1. TeamDelta(m, v, s, d) \in Int
  BY NumberAssumption DEF TeamDelta
<1>2. QED
  BY <1>1, NumberAssumption DEF CapDelta

\* The step that verifies a match is taken by a request that holds the match
\* and the ladder rows of its players, and rates them from current values.
LEMMA VerifyRates ==
  ASSUME IInv, NEW t \in Tx, Verify(t), NEW m, m = req[t].match
  PROVE  \E d \in Delta, f \in [Player -> Int] :
           Rates(m, f) /\ \A v \in Player : f[v] = NewRating(m, d, v)
<1>1. TypeOK /\ pc[t] = "rank" /\ m \in Match
  BY Acting DEF IInv, Verify
<1>2. Active(m) \in Score /\ Players(m) \subseteq Player
  BY <1>1, ActiveScore, TeamAssumption DEF Players
<1>3. ASSUME NEW v \in Players(m)
      PROVE  stake[t][v].rating = rating[v] /\ stake[t][v].vm = vm[v]
  <2>1. ladderLock[v] = t /\ StakeCurrent(t)
    BY <1>3 DEF IInv, TxOK, Verify
  <2>2. v \in Player
    BY <1>2, <1>3
  <2>3. stake[t][v] = [rating |-> rating[v], vm |-> vm[v]]
    BY <2>1, <2>2 DEF StakeCurrent
  <2>4. QED
    BY <2>3
<1>4. PICK d \in Delta :
        /\ rating' = [v \in Player |-> IF v \in Players(m)
             THEN stake[t][v].rating
                    + CapDelta(stake[t][v].vm, TeamDelta(m, v, Active(m), d))
             ELSE rating[v]]
        /\ ledger' = [v \in Player |-> IF v \in Players(m)
             THEN Append(ledger[v], [match |-> m, old |-> stake[t][v].rating,
                    new |-> stake[t][v].rating
                    + CapDelta(stake[t][v].vm, TeamDelta(m, v, Active(m), d))])
             ELSE ledger[v]]
  BY DEF Verify
<1> DEFINE f == [v \in Player |-> NewRating(m, d, v)]
<1>5. \A v \in Player : NewRating(m, d, v) \in Int
  BY <1>1, <1>2, DeltaInt DEF TypeOK, NewRating
<1>6. f \in [Player -> Int] /\ \A v \in Player : f[v] = NewRating(m, d, v)
  BY <1>5
<1>7. \A v \in Players(m) :
        stake[t][v].rating + CapDelta(stake[t][v].vm, TeamDelta(m, v, Active(m), d)) = f[v]
  BY <1>2, <1>3, <1>6 DEF NewRating
<1> HIDE DEF f
<1>8. rating' = [v \in Player |-> IF v \in Players(m) THEN f[v] ELSE rating[v]]
  BY <1>4, <1>7
<1>9. ledger' = [v \in Player |->
        IF v \in Players(m)
          THEN Append(ledger[v], [match |-> m, old |-> rating[v], new |-> f[v]])
          ELSE ledger[v]]
  BY <1>3, <1>4, <1>7
<1>10. QED
  BY <1>6, <1>8, <1>9 DEF Rates, Verify

\* Verifying a match preserves the invariant.
LEMMA VerifyStep ==
  ASSUME IInv, NEW t \in Tx, Verify(t)
  PROVE  IInv'
<1>1. TypeOK /\ pc[t] = "rank" /\ End(t) /\ (\A n \in Match : MatchOK(n))
  BY DEF IInv, Verify
<1>2. PICK m \in Match, u \in Player : m = req[t].match /\ u = req[t].user
  BY <1>1, Acting
<1>3. Active(m) \in Score /\ Players(m) \subseteq Player
  BY <1>1, ActiveScore, TeamAssumption DEF Players
<1>4. Confirmed(t, m)
  BY <1>1, <1>2, ConfirmedRows DEF Confirms, Recount, Verify
<1>5. PICK f \in [Player -> Int] : Rates(m, f)
  BY <1>2, VerifyRates
<1>6. /\ score' = [score EXCEPT ![m] = Active(m)]
      /\ proposed' = [proposed EXCEPT ![m] = None]
      /\ status' = [status EXCEPT ![m] = "verified"]
      /\ processed' = [processed EXCEPT ![m] = TRUE]
      /\ applied' = [applied EXCEPT ![m] = Players(m)]
      /\ past' = past /\ proposals' = proposals
      /\ \A v \in Players(m) : ladderLock[v] = t
  BY <1>2 DEF Verify
<1>7. TypeOK'
  <2>1. /\ score' \in [Match -> Score] /\ proposed' \in [Match -> Score \cup {None}]
        /\ status' \in [Match -> MatchStatus] /\ processed' \in [Match -> BOOLEAN]
        /\ applied' \in [Match -> SUBSET Player]
        /\ past' \in [Match -> BOOLEAN] /\ proposals' \in [Match -> Nat]
    <3>1. score' \in [Match -> Score]
      BY <1>1, <1>3, <1>6 DEF TypeOK
    <3>2. proposed' \in [Match -> Score \cup {None}]
      BY <1>1, <1>6 DEF TypeOK
    <3>3. status' \in [Match -> MatchStatus] /\ processed' \in [Match -> BOOLEAN]
      BY <1>1, <1>6 DEF TypeOK
    <3>4. applied' \in [Match -> SUBSET Player]
      BY <1>1, <1>3, <1>6 DEF TypeOK
    <3>5. QED
      BY <1>1, <1>6, <3>1, <3>2, <3>3, <3>4 DEF TypeOK
  <2>2. rating' \in [Player -> Int] /\ vm' \in [Player -> Nat]
    BY <1>1, <1>5 DEF TypeOK, Rates
  <2>3. ledger' \in [Player -> Seq(RatingEvents)]
    <3>1. \A v \in Player : [match |-> m, old |-> rating[v], new |-> f[v]] \in RatingEvents
      BY <1>1 DEF TypeOK, RatingEvents
    <3>2. \A v \in Player : Append(ledger[v], [match |-> m, old |-> rating[v], new |-> f[v]])
                              \in Seq(RatingEvents)
      BY <1>1, <3>1 DEF TypeOK
    <3>3. QED
      BY <1>1, <1>5, <3>2 DEF TypeOK, Rates
  <2>4. /\ conf' \in [Match -> SUBSET Player] /\ count' \in [Match -> Nat]
        /\ agreed' \in [Match -> [Player -> Score \cup {None}]]
    BY <1>4 DEF Confirmed
  <2>5. /\ matchLock' \in [Match -> Tx \cup {None}]
        /\ ladderLock' \in [Player -> Tx \cup {None}]
        /\ pc' \in [Tx -> PC]
        /\ req' \in [Tx -> Requests \cup {None}]
        /\ seen' \in [Tx -> SeenRows \cup {None}]
        /\ stake' \in [Tx -> [Player -> LadderRows \cup {None}]]
    BY <1>1, Ending
  <2>6. QED
    BY <2>1, <2>2, <2>3, <2>4, <2>5 DEF TypeOK
<1>8. ASSUME NEW n \in Match \ {m} PROVE MatchKept(n)
  BY <1>1, <1>4, <1>6 DEF MatchKept, Confirmed, TypeOK
<1>9. MatchOK(m)'
  <2>1. /\ score'[m] = Active(m) /\ proposed'[m] = None /\ status'[m] = "verified"
        /\ proposals'[m] = proposals[m]
    BY <1>1, <1>6 DEF TypeOK
  <2>2. Active(m)' = Active(m)
    BY <2>1 DEF Active
  <2>3. BothTeams(m, Backing(t))
    BY <1>1, <1>2 DEF IInv, TxOK, RankingAgreed
  <2>4. BothTeams(m, conf[m])'
    BY <1>4, <2>3 DEF BothTeams, Confirmed
  <2>5. conf'[m] \subseteq Players(m) /\ count'[m] = Cardinality(conf'[m])
    BY <1>4 DEF Confirmed
  <2>6. \A v \in conf'[m] : agreed'[m][v] = Active(m)
    BY <1>4 DEF Confirmed
  <2>7. proposals'[m] <= MAX_SCORE_PROPOSALS
    BY <1>1, <2>1 DEF MatchOK
  <2>8. QED
    BY <2>1, <2>2, <2>4, <2>5, <2>6, <2>7 DEF MatchOK
<1>10. \A n \in Match : MatchOK(n)'
  BY <1>1, <1>8, <1>9, MatchKeptOK
<1>11. ASSUME NEW s \in Tx \ {t}, NEW v \in Player, ladderLock[v] = s
       PROVE  rating'[v] = rating[v] /\ vm'[v] = vm[v]
  <2>1. v \notin Players(m)
    BY <1>6, <1>11
  <2>2. QED
    BY <1>1, <1>5, <2>1 DEF Rates, TypeOK
<1>12. QED
  BY <1>1, <1>2, <1>7, <1>8, <1>10, <1>11, OtherRows, EndingStep

\* Every step of the specification preserves the invariant.
LEMMA NextIInv == IInv /\ [Next]_vars => IInv'
<1> SUFFICES ASSUME IInv, [Next]_vars PROVE IInv'
  OBVIOUS
<1>1. ASSUME NEW t \in Tx, Request(t) PROVE IInv'
  BY <1>1, RequestStep
<1>2. ASSUME NEW t \in Tx, Step(t) PROVE IInv'
  <2>1. CASE LockMatch(t)
    BY <2>1, LockMatchStep
  <2>2. CASE ExpireOnConfirm(t)
    BY <2>2, ExpireOnConfirmStep
  <2>3. CASE RejectNotPending(t)
    BY <2>3, QuietEnd DEF RejectNotPending
  <2>4. CASE RejectProposal(t)
    BY <2>4, QuietEnd DEF RejectProposal
  <2>5. CASE Propose(t)
    BY <2>5, ProposeStep
  <2>6. CASE Confirm(t)
    BY <2>6, ConfirmStep
  <2>7. CASE EnterRanking(t)
    BY <2>7, EnterRankingStep
  <2>8. CASE \E u \in Player : LockLadder(t, u)
    BY <2>8, LockLadderStep
  <2>9. CASE Verify(t)
    BY <2>9, VerifyStep
  <2>10. CASE DetailExpire(t)
    BY <2>10, DetailExpireStep
  <2>11. CASE DeadlockVictim(t)
    BY <2>11, QuietEnd DEF DeadlockVictim
  <2>12. QED
    BY <1>2, <2>1, <2>2, <2>3, <2>4, <2>5, <2>6, <2>7, <2>8, <2>9, <2>10, <2>11 DEF Step
<1>3. ASSUME NEW t \in Tx, Fail(t) PROVE IInv'
  BY <1>3, QuietEnd DEF Fail
<1>4. ASSUME NEW m \in Match, DeadlinePasses(m) PROVE IInv'
  BY <1>4, DeadlineStep
<1>5. CASE UNCHANGED vars
  <2> USE DEF vars, matchVars, ladderVars, lockVars, txVars
  <2>1. TypeOK'
    BY <1>5 DEF IInv, TypeOK
  <2>2. ASSUME NEW s \in Tx PROVE TxOK(s)'
    <3>1. SlotKept(s)
      BY <1>5 DEF SlotKept, RowNow, Active
    <3>2. QED
      BY <3>1, SlotKeptOK DEF IInv
  <2>3. \A n \in Match : MatchOK(n)'
    BY <1>5, MatchKeptOK DEF MatchKept, IInv
  <2>4. QED
    BY <2>1, <2>2, <2>3 DEF IInv
<1>6. QED
  BY <1>1, <1>2, <1>3, <1>4, <1>5 DEF Next

---------------------------------------------------------------------------
(* The theorems *)

\* The inductive invariant holds in every reachable state.
THEOREM Invariance == Spec => []IInv
  BY InitIInv, NextIInv, PTL DEF Spec

\* Every variable keeps its type, whatever requests run concurrently.
THEOREM TypeCorrect == Spec => []TypeOK
<1>1. IInv => TypeOK
  BY DEF IInv
<1>2. QED
  BY <1>1, Invariance, PTL

\* A verified match carries a score that a player of each team said yes to
\* (confirm_match), for any teams, scores and number of concurrent requests.
THEOREM VerifiedByBoth == Spec => []VerifiedByBothTeams
<1>1. IInv => VerifiedByBothTeams
  <2>1. SUFFICES ASSUME IInv, NEW m \in Match, status[m] = "verified"
                 PROVE  \E u \in Team1[m], v \in Team2[m] :
                          agreed[m][u] = score[m] /\ agreed[m][v] = score[m]
    BY DEF VerifiedByBothTeams
  <2>2. MatchOK(m) /\ Active(m) = score[m]
    BY <2>1 DEF IInv, MatchOK, Active
  <2>3. QED
    BY <2>1, <2>2 DEF MatchOK, BothTeams
<1>2. QED
  BY <1>1, Invariance, PTL

\* Confirmation rows stand for the active score, their count is exact, no
\* match with both teams confirmed is left pending and the proposal limit is
\* respected (confirm_match).
THEOREM Negotiation ==
  Spec => [](/\ ConfirmationsAreForActiveScore
             /\ ConfirmedCountExact
             /\ NoMissedVerification
             /\ ProposalsBounded)
<1>1. IInv => /\ ConfirmationsAreForActiveScore
              /\ ConfirmedCountExact
              /\ NoMissedVerification
              /\ ProposalsBounded
  BY DEF IInv, MatchOK, ConfirmationsAreForActiveScore, ConfirmedCountExact,
         NoMissedVerification, ProposalsBounded
<1>2. QED
  BY <1>1, Invariance, PTL

\* A step that is not taken on a pending match leaves its data alone.
LEMMA FrozenStep ==
  ASSUME IInv, [Next]_vars, NEW m \in Match, status[m] # "pending_confirm"
  PROVE  MatchKept(m) /\ processed'[m] = processed[m] /\ applied'[m] = applied[m]
<1> DEFINE Kept == MatchKept(m) /\ processed'[m] = processed[m] /\ applied'[m] = applied[m]
<1>1. TypeOK
  BY DEF IInv
<1>2. ASSUME UNCHANGED matchVars PROVE Kept
  BY <1>2 DEF matchVars, MatchKept
<1>3. ASSUME NEW t \in Tx, pc[t] \in {"decide", "rank"}, seen[t].status = "pending_confirm"
      PROVE  m # req[t].match
  BY <1>3, Reading
<1>4. ASSUME NEW t \in Tx, ExpireOnConfirm(t) \/ DetailExpire(t) PROVE Kept
  BY <1>1, <1>4 DEF ExpireOnConfirm, DetailExpire, MatchKept, TypeOK
<1>5. ASSUME NEW t \in Tx, Propose(t) PROVE Kept
  <2>1. m # req[t].match
    BY <1>3, <1>5 DEF Propose, Open
  <2>2. QED
    BY <1>1, <1>5, <2>1 DEF Propose, MatchKept, TypeOK
<1>6. ASSUME NEW t \in Tx, Confirm(t) PROVE Kept
  <2>1. m # req[t].match
    BY <1>3, <1>6 DEF Confirm, Open
  <2>2. QED
    BY <1>1, <1>6, <2>1 DEF Confirm, MatchKept, TypeOK
<1>7. ASSUME NEW t \in Tx, Verify(t) PROVE Kept
  <2>1. m # req[t].match
    BY <1>3, <1>7 DEF Verify, IInv, TxOK, RankingAgreed
  <2>2. QED
    BY <1>1, <1>7, <2>1 DEF Verify, MatchKept, TypeOK
<1>8. ASSUME NEW t \in Tx, Step(t) PROVE Kept
  BY <1>2, <1>4, <1>5, <1>6, <1>7, <1>8
     DEF Step, LockMatch, RejectNotPending, RejectProposal, EnterRanking,
         LockLadder, DeadlockVictim
<1>9. ASSUME NEW t \in Tx, Request(t) \/ Fail(t) PROVE Kept
  BY <1>2, <1>9 DEF Request, Begin, BeginDetail, Fail
<1>10. ASSUME NEW n \in Match, DeadlinePasses(n) PROVE Kept
  BY <1>10 DEF DeadlinePasses, MatchKept
<1>11. ASSUME UNCHANGED vars PROVE Kept
  BY <1>2, <1>11 DEF vars
<1>12. QED
  BY <1>8, <1>9, <1>10, <1>11 DEF Next

\* A decided match never changes again: no late request expires a verified
\* match, verifies an expired one or touches its score and confirmations.
THEOREM DecidedFrozen == Spec => DecidedMatchFrozen
<1>1. IInv /\ [Next]_vars =>
        [\A m \in Match : status[m] # "pending_confirm" =>
           UNCHANGED <<status[m], score[m], proposed[m], proposals[m], conf[m],
                       count[m], processed[m], applied[m]>>]_vars
  BY FrozenStep DEF MatchKept
<1>2. QED
  BY <1>1, Invariance, PTL DEF Spec, DecidedMatchFrozen

\* Ladder rows change only when a pending match is verified, and then each of
\* its players is rated from the rating he has at that moment.
LEMMA LadderStep ==
  ASSUME IInv, [Next]_vars
  PROVE  \/ UNCHANGED ladderVars
         \/ \E m \in Match : \E f \in [Player -> Int] :
              Rates(m, f) /\ status[m] = "pending_confirm" /\ status'[m] = "verified"
<1>1. ASSUME NEW t \in Tx, Verify(t)
      PROVE  \E m \in Match : \E f \in [Player -> Int] :
               Rates(m, f) /\ status[m] = "pending_confirm" /\ status'[m] = "verified"
  <2>1. TypeOK /\ pc[t] = "rank" /\ seen[t].status = "pending_confirm"
    BY <1>1 DEF Verify, IInv, TxOK, RankingAgreed
  <2>2. PICK m \in Match : m = req[t].match
    BY <2>1, Acting
  <2>3. status[m] = "pending_confirm"
    BY <2>1, <2>2, Reading
  <2>4. status'[m] = "verified"
    BY <1>1, <2>1, <2>2 DEF Verify, TypeOK
  <2>5. QED
    BY <1>1, <2>2, <2>3, <2>4, VerifyRates
<1>2. ASSUME NEW t \in Tx, Step(t), ~Verify(t) PROVE UNCHANGED ladderVars
  BY <1>2 DEF Step, LockMatch, ExpireOnConfirm, RejectNotPending, RejectProposal, Propose,
              Confirm, EnterRanking, LockLadder, DetailExpire, DeadlockVictim
<1>3. ASSUME NEW t \in Tx, Request(t) \/ Fail(t) PROVE UNCHANGED ladderVars
  BY <1>3 DEF Request, Begin, BeginDetail, Fail
<1>4. ASSUME NEW m \in Match, DeadlinePasses(m) PROVE UNCHANGED ladderVars
  BY <1>4 DEF DeadlinePasses
<1>5. ASSUME UNCHANGED vars PROVE UNCHANGED ladderVars
  BY <1>5 DEF vars
<1>6. QED
  BY <1>1, <1>2, <1>3, <1>4, <1>5 DEF Next

\* Initially the ledger is empty and the ratings are the initial ones.
LEMMA InitChain == Init => LedgerChain
  BY DEF Init, LedgerChain

\* Rating the players of a match extends the ledger of each by one row that
\* starts at his rating and ends at his new one.
LEMMA RatesChain ==
  ASSUME TypeOK, LedgerChain, NEW m \in Match, NEW f \in [Player -> Int], Rates(m, f)
  PROVE  LedgerChain'
<1> SUFFICES ASSUME NEW u \in Player
             PROVE  /\ Len(ledger'[u]) = vm'[u]
                    /\ \A i \in 1..Len(ledger'[u]) :
                         ledger'[u][i].old = IF i = 1 THEN INIT_RATING
                                             ELSE ledger'[u][i-1].new
                    /\ rating'[u] = IF ledger'[u] = <<>> THEN INIT_RATING
                                    ELSE ledger'[u][Len(ledger'[u])].new
  BY DEF LedgerChain
<1>1. CASE u \notin Players(m)
  <2>1. ledger'[u] = ledger[u] /\ rating'[u] = rating[u] /\ vm'[u] = vm[u]
    BY <1>1 DEF Rates
  <2>2. QED
    BY <2>1 DEF LedgerChain
<1>2. CASE u \in Players(m)
  <2> DEFINE e == [match |-> m, old |-> rating[u], new |-> f[u]]
             l == ledger[u]
             n == Len(ledger[u])
  <2>1. /\ ledger'[u] = Append(l, e) /\ rating'[u] = f[u] /\ vm'[u] = vm[u] + 1
        /\ l \in Seq(RatingEvents) /\ e \in RatingEvents /\ n \in Nat /\ vm[u] \in Nat
    <3>1. l \in Seq(RatingEvents) /\ rating[u] \in Int /\ vm[u] \in Nat
      BY DEF TypeOK
    <3>2. n \in Nat /\ e \in RatingEvents
      BY <3>1 DEF RatingEvents
    <3>3. ledger'[u] = Append(l, e)
      BY <1>2 DEF Rates
    <3>4. rating'[u] = f[u] /\ vm'[u] = vm[u] + 1
      BY <1>2 DEF Rates
    <3>5. QED
      BY <3>1, <3>2, <3>3, <3>4
  <2>2. /\ n = vm[u]
        /\ \A i \in 1..n : l[i].old = IF i = 1 THEN INIT_RATING ELSE l[i-1].new
        /\ rating[u] = IF l = <<>> THEN INIT_RATING ELSE l[n].new
    BY DEF LedgerChain
  <2>3. e.old = rating[u] /\ e.new = f[u]
    OBVIOUS
  <2> HIDE DEF e, l, n
  <2>4. /\ Len(ledger'[u]) = n + 1 /\ ledger'[u][n + 1] = e
        /\ \A i \in 1..n : ledger'[u][i] = l[i]
    BY <2>1 DEF l, n
  <2>5. ledger'[u] # <<>>
    BY <2>1, <2>4
  <2>6. ASSUME NEW i \in 1..(n + 1)
        PROVE  ledger'[u][i].old = IF i = 1 THEN INIT_RATING ELSE ledger'[u][i-1].new
    <3>1. CASE i \in 1..n
      BY <2>1, <2>2, <2>4, <3>1
    <3>2. CASE i = n + 1 /\ n = 0
      <4>1. l = <<>>
        BY <2>1, <3>2 DEF l, n
      <4>2. QED
        BY <2>2, <2>3, <2>4, <3>2, <4>1
    <3>3. CASE i = n + 1 /\ n # 0
      <4>1. l # <<>> /\ i # 1 /\ i - 1 = n /\ n \in 1..n
        BY <2>1, <3>3 DEF l, n
      <4>2. QED
        BY <2>2, <2>3, <2>4, <3>3, <4>1
    <3>4. n \in Nat /\ i \in 1..(n + 1)
      BY <2>1, <2>6
    <3>5. i \in 1..n \/ (i = n + 1 /\ n = 0) \/ (i = n + 1 /\ n # 0)
      BY <3>4
    <3>6. QED
      BY <3>1, <3>2, <3>3, <3>5
  <2>7. QED
    BY <2>1, <2>2, <2>3, <2>4, <2>5, <2>6
<1>3. QED
  BY <1>1, <1>2

\* rating_events is the unbroken history of every rating: however many
\* matches of the same players are verified concurrently, no rating update is
\* lost (_apply_ranking_for_match).
THEOREM NoLostRating == Spec => []LedgerChain
<1>1. IInv /\ LedgerChain /\ [Next]_vars => LedgerChain'
  <2>1. SUFFICES ASSUME IInv, LedgerChain, [Next]_vars PROVE LedgerChain'
    OBVIOUS
  <2>2. CASE UNCHANGED ladderVars
    BY <2>1, <2>2 DEF ladderVars, LedgerChain
  <2>3. CASE \E m \in Match : \E f \in [Player -> Int] : Rates(m, f)
    BY <2>1, <2>3, RatesChain DEF IInv
  <2>4. QED
    BY <2>1, <2>2, <2>3, LadderStep
<1>2. QED
  BY <1>1, InitChain, Invariance, PTL DEF Spec

\* Ratings, counters and ledger move only in the commit that verifies a
\* match, for exactly its players.
THEOREM RatingsMove == Spec => RatingsMoveWithVerification
<1>1. ASSUME TypeOK, NEW m \in Match, NEW f \in [Player -> Int], Rates(m, f)
      PROVE  /\ \A v \in Players(m) : vm'[v] = vm[v] + 1
             /\ \A v \in Player \ Players(m) :
                  rating'[v] = rating[v] /\ vm'[v] = vm[v] /\ ledger'[v] = ledger[v]
  <2>1. Players(m) \subseteq Player
    BY TeamAssumption DEF Players
  <2>2. QED
    BY <1>1, <2>1 DEF Rates
<1>2. IInv /\ [Next]_vars =>
        [\A u \in Player : <<rating[u], vm[u], ledger[u]>>' # <<rating[u], vm[u], ledger[u]>> =>
           \E m \in Match :
             /\ u \in Players(m)
             /\ status[m] = "pending_confirm" /\ status'[m] = "verified"
             /\ \A v \in Players(m) : vm'[v] = vm[v] + 1
             /\ \A v \in Player \ Players(m) : vm'[v] = vm[v]]_vars
  <2>1. SUFFICES ASSUME IInv, [Next]_vars, NEW u \in Player,
                        ~(rating'[u] = rating[u] /\ vm'[u] = vm[u] /\ ledger'[u] = ledger[u])
                 PROVE  \E m \in Match :
                          /\ u \in Players(m)
                          /\ status[m] = "pending_confirm" /\ status'[m] = "verified"
                          /\ \A v \in Players(m) : vm'[v] = vm[v] + 1
                          /\ \A v \in Player \ Players(m) : vm'[v] = vm[v]
    OBVIOUS
  <2>2. PICK m \in Match, f \in [Player -> Int] :
          Rates(m, f) /\ status[m] = "pending_confirm" /\ status'[m] = "verified"
    BY <2>1, LadderStep DEF ladderVars
  <2>3. QED
    BY <1>1, <2>1, <2>2 DEF IInv
<1>3. QED
  BY <1>2, Invariance, PTL DEF Spec, RatingsMoveWithVerification

---------------------------------------------------------------------------
(* Ranking, and the refinement of MatchAgreement *)

\* The commit that verifies m with Elo change d and new ratings f: the active
\* score is final, and nothing but m and the ladder rows of its players
\* changes.
Verifies(m, d, f) ==
  /\ Rates(m, f)
  /\ \A v \in Player : f[v] = NewRating(m, d, v)
  /\ status[m] = "pending_confirm"
  /\ status' = [status EXCEPT ![m] = "verified"]
  /\ processed' = [processed EXCEPT ![m] = TRUE]
  /\ applied' = [applied EXCEPT ![m] = Players(m)]
  /\ score' = [score EXCEPT ![m] = Active(m)]

\* A step that verifies no match.
NoneVerified ==
  /\ UNCHANGED <<ladderVars, processed, applied, score>>
  /\ \A m \in Match : status'[m] = "verified" <=> status[m] = "verified"

\* Ranking is written by the commit that verifies the match and by no other.
LEMMA RankingStep ==
  ASSUME IInv, [Next]_vars
  PROVE  \/ NoneVerified
         \/ \E m \in Match, d \in Delta, f \in [Player -> Int] : Verifies(m, d, f)
<1>1. TypeOK
  BY DEF IInv
<1>2. ASSUME NEW t \in Tx, Verify(t)
      PROVE  \E m \in Match, d \in Delta, f \in [Player -> Int] : Verifies(m, d, f)
  <2>1. pc[t] = "rank" /\ seen[t].status = "pending_confirm"
    BY <1>2 DEF Verify, IInv, TxOK, RankingAgreed
  <2>2. PICK m \in Match : m = req[t].match
    BY <2>1, Acting
  <2>3. status[m] = "pending_confirm"
    BY <2>1, <2>2, Reading
  <2>4. PICK d \in Delta, f \in [Player -> Int] :
          Rates(m, f) /\ \A v \in Player : f[v] = NewRating(m, d, v)
    BY <1>2, <2>2, VerifyRates
  <2>5. Verifies(m, d, f)
    BY <1>2, <2>2, <2>3, <2>4 DEF Verify, Verifies
  <2>6. QED
    BY <2>5
<1>3. ASSUME NEW t \in Tx, ExpireOnConfirm(t) \/ DetailExpire(t) PROVE NoneVerified
  <2>1. PICK m : status' = [status EXCEPT ![m] = IF @ = "pending_confirm" THEN "expired" ELSE @]
    BY <1>3 DEF ExpireOnConfirm, DetailExpire
  <2>2. \A n \in Match : status'[n] = "verified" <=> status[n] = "verified"
    BY <1>1, <2>1 DEF TypeOK
  <2>3. QED
    BY <1>3, <2>2 DEF NoneVerified, ExpireOnConfirm, DetailExpire
<1>4. ASSUME NEW t \in Tx, Step(t), ~Verify(t) PROVE NoneVerified
  BY <1>3, <1>4 DEF Step, LockMatch, RejectNotPending, RejectProposal, Propose, Confirm,
     EnterRanking, LockLadder, DeadlockVictim, matchVars, ladderVars, NoneVerified
<1>5. ASSUME NEW t \in Tx, Request(t) \/ Fail(t) PROVE NoneVerified
  BY <1>5 DEF Request, Begin, BeginDetail, Fail, matchVars, NoneVerified
<1>6. ASSUME NEW m \in Match, DeadlinePasses(m) PROVE NoneVerified
  BY <1>6 DEF DeadlinePasses, NoneVerified
<1>7. ASSUME UNCHANGED vars PROVE NoneVerified
  BY <1>7 DEF vars, matchVars, NoneVerified
<1>8. QED
  BY <1>2, <1>4, <1>5, <1>6, <1>7 DEF Next

---------------------------------------------------------------------------
(* The rows of rating_events *)

\* The rows of u's ledger that are about match m.
RowsOf(u, m) == {i \in 1..Len(ledger[u]) : ledger[u][i].match = m}

\* They are finitely many.
LEMMA RowsFinite ==
  ASSUME TypeOK, NEW u \in Player, NEW m
  PROVE  IsFiniteSet(RowsOf(u, m)) /\ (Cardinality(RowsOf(u, m)) = 0 <=> RowsOf(u, m) = {})
<1>1. Len(ledger[u]) \in Nat
  BY DEF TypeOK
<1>2. IsFiniteSet(1..Len(ledger[u]))
  BY <1>1, FS_Interval
<1>3. RowsOf(u, m) \subseteq 1..Len(ledger[u])
  BY DEF RowsOf
<1>4. IsFiniteSet(RowsOf(u, m))
  BY <1>2, <1>3, FS_Subset
<1>5. QED
  BY <1>4, FS_EmptySet

\* A rated match is verified.
LEMMA RatedVerified ==
  ASSUME TypeOK, RankedExactlyOnce, NEW u \in Player, NEW i \in 1..Len(ledger[u])
  PROVE  /\ ledger[u][i] \in RatingEvents
         /\ status[ledger[u][i].match] = "verified"
<1>1. ledger[u] \in Seq(RatingEvents)
  BY DEF TypeOK
<1>2. ledger[u][i] \in RatingEvents
  BY <1>1
<1>3. ledger[u][i].match \in Match
  BY <1>2 DEF RatingEvents
<1>4. RowsOf(u, ledger[u][i].match) # {}
  BY DEF RowsOf
<1>5. Cardinality(RowsOf(u, ledger[u][i].match)) # 0
  BY <1>4, RowsFinite
<1>6. QED
  BY <1>2, <1>3, <1>5 DEF RankedExactlyOnce, RowsOf

\* What rating m does to a ledger: its players get one row more, at the end.
LEMMA RatesRow ==
  ASSUME TypeOK, NEW m \in Match, NEW f \in [Player -> Int], Rates(m, f), NEW u \in Player
  PROVE  /\ u \notin Players(m) => ledger'[u] = ledger[u]
         /\ u \in Players(m) =>
              /\ Len(ledger[u]) \in Nat
              /\ Len(ledger'[u]) = Len(ledger[u]) + 1
              /\ \A i \in 1..Len(ledger[u]) : ledger'[u][i] = ledger[u][i]
              /\ ledger'[u][Len(ledger[u]) + 1] = [match |-> m, old |-> rating[u], new |-> f[u]]
<1>1. u \notin Players(m) => ledger'[u] = ledger[u]
  BY DEF Rates
<1>2. ASSUME u \in Players(m)
      PROVE  /\ Len(ledger[u]) \in Nat
             /\ Len(ledger'[u]) = Len(ledger[u]) + 1
             /\ \A i \in 1..Len(ledger[u]) : ledger'[u][i] = ledger[u][i]
             /\ ledger'[u][Len(ledger[u]) + 1] = [match |-> m, old |-> rating[u], new |-> f[u]]
  <2> DEFINE e == [match |-> m, old |-> rating[u], new |-> f[u]]
  <2>1. ledger[u] \in Seq(RatingEvents) /\ e \in RatingEvents
    BY DEF TypeOK, RatingEvents
  <2>2. ledger'[u] = Append(ledger[u], e)
    BY <1>2 DEF Rates
  <2> HIDE DEF e
  <2>3. /\ Len(ledger[u]) \in Nat
        /\ Len(ledger'[u]) = Len(ledger[u]) + 1
        /\ \A i \in 1..Len(ledger[u]) : ledger'[u][i] = ledger[u][i]
        /\ ledger'[u][Len(ledger[u]) + 1] = e
    BY <2>1, <2>2
  <2>4. QED
    BY <2>3 DEF e
<1>3. QED
  BY <1>1, <1>2

\* Initially nothing is ranked.
LEMMA InitRanked == Init => RankedExactlyOnce
<1> SUFFICES ASSUME Init PROVE RankedExactlyOnce
  OBVIOUS
<1>1. \A u \in Player : Len(ledger[u]) = 0
  BY DEF Init
<1>2. ASSUME NEW u \in Player, NEW m \in Match
      PROVE  Cardinality({i \in 1..Len(ledger[u]) : ledger[u][i].match = m}) = 0
  <2>1. {i \in 1..Len(ledger[u]) : ledger[u][i].match = m} = {}
    BY <1>1
  <2>2. QED
    BY <2>1, FS_EmptySet
<1>3. QED
  BY <1>2 DEF Init, RankedExactlyOnce

\* Verifying a match ranks it for the first time: it was pending, so nobody
\* had a row for it.
LEMMA VerifiesRanked ==
  ASSUME IInv, RankedExactlyOnce,
         NEW m \in Match, NEW d \in Delta, NEW f \in [Player -> Int], Verifies(m, d, f)
  PROVE  RankedExactlyOnce'
<1>1. TypeOK
  BY DEF IInv
<1>2. ~processed[m]
  BY DEF RankedExactlyOnce, Verifies
<1>3. ASSUME NEW n \in Match
      PROVE  /\ processed'[n] <=> status'[n] = "verified"
             /\ applied'[n] = IF processed'[n] THEN Players(n) ELSE {}
             /\ processed'[n] <=> (n = m \/ processed[n])
  BY <1>1, <1>3 DEF RankedExactlyOnce, Verifies, TypeOK
<1>4. ASSUME NEW n \in Match, NEW u \in Player
      PROVE  Cardinality(RowsOf(u, n)') = IF processed'[n] /\ u \in Players(n) THEN 1 ELSE 0
  <2>1. Cardinality(RowsOf(u, n)) = IF processed[n] /\ u \in Players(n) THEN 1 ELSE 0
    BY DEF RankedExactlyOnce, RowsOf
  <2>2. Rates(m, f)
    BY DEF Verifies
  <2>3. CASE u \notin Players(m)
    <3>1. RowsOf(u, n)' = RowsOf(u, n)
      BY <1>1, <2>2, <2>3, RatesRow DEF RowsOf
    <3>2. QED
      BY <1>3, <2>1, <2>3, <3>1
  <2>4. CASE u \in Players(m)
    <3> DEFINE k == Len(ledger[u])
    <3>1. /\ k \in Nat /\ Len(ledger'[u]) = k + 1
          /\ \A i \in 1..k : ledger'[u][i] = ledger[u][i]
          /\ ledger'[u][k + 1].match = m
      <4>1. /\ k \in Nat /\ Len(ledger'[u]) = k + 1
            /\ \A i \in 1..k : ledger'[u][i] = ledger[u][i]
            /\ ledger'[u][k + 1] = [match |-> m, old |-> rating[u], new |-> f[u]]
        BY <1>1, <2>2, <2>4, RatesRow
      <4>2. ledger'[u][k + 1].match = m
        BY <4>1
      <4>3. QED
        BY <4>1, <4>2
    <3>2. 1..(k + 1) = 1..k \cup {k + 1}
      BY <3>1
    <3>3. RowsOf(u, n)' = IF n = m THEN RowsOf(u, n) \cup {k + 1} ELSE RowsOf(u, n)
      <4>1. RowsOf(u, n)' = {i \in 1..(k + 1) : ledger'[u][i].match = n}
        BY <3>1 DEF RowsOf
      <4>2. RowsOf(u, n) = {i \in 1..k : ledger'[u][i].match = n}
        BY <3>1 DEF RowsOf
      <4> HIDE DEF k
      <4>3. QED
        BY <3>1, <3>2, <4>1, <4>2
    <3>4. CASE n = m
      <4>1. RowsOf(u, n) = {}
        BY <1>1, <1>2, <2>1, <3>4, RowsFinite
      <4>2. RowsOf(u, n)' = {k + 1}
        BY <3>3, <3>4, <4>1
      <4>3. Cardinality(RowsOf(u, n)') = 1
        BY <4>2, FS_Singleton
      <4>4. QED
        BY <1>3, <2>4, <3>4, <4>3
    <3>5. CASE n # m
      <4>1. RowsOf(u, n)' = RowsOf(u, n)
        BY <3>3, <3>5
      <4>2. processed'[n] <=> processed[n]
        BY <1>3, <3>5
      <4>3. QED
        BY <2>1, <4>1, <4>2
    <3>6. QED
      BY <3>4, <3>5
  <2>5. QED
    BY <2>3, <2>4
<1>5. QED
  BY <1>3, <1>4 DEF RankedExactlyOnce, RowsOf

\* Ranking and analytics are applied to a match when it is verified and only
\* then, to all its players and to nobody else, once.
THEOREM RankedOnce == Spec => []RankedExactlyOnce
<1>1. IInv /\ RankedExactlyOnce /\ [Next]_vars => RankedExactlyOnce'
  <2>1. SUFFICES ASSUME IInv, RankedExactlyOnce, [Next]_vars PROVE RankedExactlyOnce'
    OBVIOUS
  <2>2. CASE NoneVerified
    BY <2>1, <2>2 DEF NoneVerified, ladderVars, RankedExactlyOnce
  <2>3. QED
    BY <2>1, <2>2, RankingStep, VerifiesRanked
<1>2. QED
  BY <1>1, InitRanked, Invariance, PTL DEF Spec

---------------------------------------------------------------------------
(* The size and the sign of a rating change *)

\* The Elo change moves the winners up, the losers down, and while a player
\* is provisional by at most the cap.
LEMMA ChangeBounds ==
  ASSUME NEW m \in Match, NEW v \in Players(m), NEW s \in Score, NEW d \in Delta,
         NEW games \in Nat, NEW c, c = CapDelta(games, TeamDelta(m, v, s, d))
  PROVE  /\ c \in Int
         /\ v \in (IF Winner[s] = 1 THEN Team1[m] ELSE Team2[m]) => c >= 0
         /\ v \notin (IF Winner[s] = 1 THEN Team1[m] ELSE Team2[m]) => c <= 0
         /\ games < PROVISIONAL_MATCHES => c <= PROVISIONAL_CAP /\ -c <= PROVISIONAL_CAP
<1>1. d \in Nat /\ PROVISIONAL_CAP \in Nat /\ PROVISIONAL_MATCHES \in Nat
  BY NumberAssumption
<1>2. Winner[s] \in {1, 2}
  BY ScoreAssumption
<1>3. v \in Team1[m] \/ v \in Team2[m]
  BY DEF Players
<1>4. ~(v \in Team1[m] /\ v \in Team2[m])
  BY TeamAssumption
<1> DEFINE e == TeamDelta(m, v, s, d)
<1>5. /\ e \in {d, -d}
      /\ v \in (IF Winner[s] = 1 THEN Team1[m] ELSE Team2[m]) => e = d
      /\ v \notin (IF Winner[s] = 1 THEN Team1[m] ELSE Team2[m]) => e = -d
  BY <1>2, <1>3, <1>4 DEF TeamDelta
<1>6. c = CapDelta(games, e)
  OBVIOUS
<1> HIDE DEF e
<1>7. /\ c \in Int
      /\ e >= 0 => c >= 0
      /\ e <= 0 => c <= 0
      /\ games < PROVISIONAL_MATCHES => c <= PROVISIONAL_CAP /\ -c <= PROVISIONAL_CAP
  BY <1>1, <1>5, <1>6 DEF CapDelta
<1>8. QED
  BY <1>1, <1>5, <1>7

\* The rating change of a player of a match that is verified.
LEMMA VerifiesChange ==
  ASSUME TypeOK, NEW m \in Match, NEW d \in Delta, NEW f \in [Player -> Int],
         Verifies(m, d, f), NEW v \in Players(m)
  PROVE  /\ v \in Player /\ rating[v] \in Int /\ f[v] \in Int
         /\ v \in (IF Winner[score'[m]] = 1 THEN Team1[m] ELSE Team2[m]) => f[v] >= rating[v]
         /\ v \notin (IF Winner[score'[m]] = 1 THEN Team1[m] ELSE Team2[m]) => f[v] <= rating[v]
         /\ vm[v] < PROVISIONAL_MATCHES =>
              f[v] - rating[v] <= PROVISIONAL_CAP /\ rating[v] - f[v] <= PROVISIONAL_CAP
<1>1. v \in Player
  BY TeamAssumption DEF Players
<1>2. rating[v] \in Int /\ vm[v] \in Nat /\ f[v] \in Int /\ PROVISIONAL_CAP \in Nat
  BY <1>1, NumberAssumption DEF TypeOK
<1>3. score'[m] = Active(m) /\ Active(m) \in Score
  BY ActiveScore DEF Verifies, TypeOK
<1>4. f[v] = rating[v] + CapDelta(vm[v], TeamDelta(m, v, Active(m), d))
  BY <1>1 DEF Verifies, NewRating
<1> DEFINE c == CapDelta(vm[v], TeamDelta(m, v, Active(m), d))
<1>5. /\ c \in Int
      /\ v \in (IF Winner[score'[m]] = 1 THEN Team1[m] ELSE Team2[m]) => c >= 0
      /\ v \notin (IF Winner[score'[m]] = 1 THEN Team1[m] ELSE Team2[m]) => c <= 0
      /\ vm[v] < PROVISIONAL_MATCHES => c <= PROVISIONAL_CAP /\ -c <= PROVISIONAL_CAP
  BY <1>2, <1>3, ChangeBounds
<1>6. f[v] = rating[v] + c
  BY <1>4
<1> HIDE DEF c
<1>7. /\ c >= 0 => f[v] >= rating[v]
      /\ c <= 0 => f[v] <= rating[v]
      /\ c <= PROVISIONAL_CAP => f[v] - rating[v] <= PROVISIONAL_CAP
      /\ -c <= PROVISIONAL_CAP => rating[v] - f[v] <= PROVISIONAL_CAP
  BY <1>2, <1>5, <1>6
<1>8. QED
  BY <1>1, <1>2, <1>5, <1>7

\* Nobody loses points on a match his team won, or gains on one it lost, by
\* the score that both teams agreed to in the end.
THEOREM FinalScoreRated == Spec => []RatedWithFinalScore
<1>1. Init => RatedWithFinalScore
  BY DEF Init, RatedWithFinalScore
<1>2. IInv /\ RankedExactlyOnce /\ RatedWithFinalScore /\ [Next]_vars => RatedWithFinalScore'
  <2>1. SUFFICES ASSUME IInv, RankedExactlyOnce, RatedWithFinalScore, [Next]_vars
                 PROVE  RatedWithFinalScore'
    OBVIOUS
  <2>2. TypeOK
    BY <2>1 DEF IInv
  <2>3. CASE NoneVerified
    BY <2>1, <2>3 DEF NoneVerified, ladderVars, RatedWithFinalScore
  <2>4. ASSUME NEW m \in Match, NEW d \in Delta, NEW f \in [Player -> Int], Verifies(m, d, f)
        PROVE  RatedWithFinalScore'
    <3> DEFINE Fair(u, e) ==
          IF u \in IF Winner[score'[e.match]] = 1 THEN Team1[e.match] ELSE Team2[e.match]
            THEN e.new >= e.old ELSE e.new <= e.old
    <3>1. SUFFICES ASSUME NEW u \in Player, NEW i \in 1..Len(ledger'[u])
                   PROVE  Fair(u, ledger'[u][i])
      BY DEF RatedWithFinalScore
    <3>2. ASSUME NEW j \in 1..Len(ledger[u]) PROVE Fair(u, ledger[u][j])
      <4>1. ledger[u][j].match \in Match /\ status[ledger[u][j].match] = "verified"
        BY <2>1, <2>2, RatedVerified DEF RatingEvents
      <4>2. score'[ledger[u][j].match] = score[ledger[u][j].match]
        BY <2>2, <2>4, <4>1 DEF Verifies, TypeOK
      <4>3. QED
        BY <2>1, <4>2 DEF RatedWithFinalScore
    <3>3. Rates(m, f)
      BY <2>4 DEF Verifies
    <3>4. CASE u \notin Players(m)
      <4>1. ledger'[u] = ledger[u]
        BY <2>2, <3>3, <3>4, RatesRow
      <4>2. i \in 1..Len(ledger[u])
        BY <4>1
      <4>3. QED
        BY <3>2, <4>1, <4>2
    <3>5. CASE u \in Players(m)
      <4> DEFINE k == Len(ledger[u])
                 new == [match |-> m, old |-> rating[u], new |-> f[u]]
      <4>1. /\ k \in Nat /\ Len(ledger'[u]) = k + 1
            /\ \A j \in 1..k : ledger'[u][j] = ledger[u][j]
            /\ ledger'[u][k + 1] = new
        BY <2>2, <3>3, <3>5, RatesRow
      <4>2. Fair(u, new)
        <5>1. new.match = m /\ new.old = rating[u] /\ new.new = f[u]
          OBVIOUS
        <5> HIDE DEF new
        <5>2. QED
          BY <2>2, <2>4, <3>5, <5>1, VerifiesChange
      <4> HIDE DEF k, new, Fair
      <4>3. i \in 1..(k + 1)
        BY <4>1
      <4>4. i \in 1..k \/ i = k + 1
        BY <4>1, <4>3
      <4>5. CASE i \in 1..k
        BY <3>2, <4>1, <4>5 DEF k
      <4>6. CASE i = k + 1
        BY <4>1, <4>2, <4>6
      <4>7. QED
        BY <4>4, <4>5, <4>6
    <3>6. QED
      BY <3>4, <3>5
  <2>5. QED
    BY <2>1, <2>3, <2>4, RankingStep
<1>3. QED
  BY <1>1, <1>2, Invariance, RankedOnce, PTL DEF Spec

\* No match moves a provisional player by more than the cap: the count of
\* matches that decides it is the one at the commit, not an older one.
THEOREM CapHolds == Spec => []ProvisionalCap
<1>1. Init => ProvisionalCap
  BY DEF Init, ProvisionalCap
<1>2. IInv /\ LedgerChain /\ ProvisionalCap /\ [Next]_vars => ProvisionalCap'
  <2>1. SUFFICES ASSUME IInv, LedgerChain, ProvisionalCap, [Next]_vars PROVE ProvisionalCap'
    OBVIOUS
  <2>2. TypeOK
    BY <2>1 DEF IInv
  <2>3. CASE NoneVerified
    BY <2>1, <2>3 DEF NoneVerified, ladderVars, ProvisionalCap
  <2>4. ASSUME NEW m \in Match, NEW d \in Delta, NEW f \in [Player -> Int], Verifies(m, d, f)
        PROVE  ProvisionalCap'
    <3>1. SUFFICES ASSUME NEW u \in Player, NEW i \in 1..Len(ledger'[u]),
                          i <= PROVISIONAL_MATCHES
                   PROVE  /\ ledger'[u][i].new - ledger'[u][i].old <= PROVISIONAL_CAP
                          /\ ledger'[u][i].old - ledger'[u][i].new <= PROVISIONAL_CAP
      BY DEF ProvisionalCap
    <3>2. Rates(m, f)
      BY <2>4 DEF Verifies
    <3>3. CASE u \notin Players(m)
      <4>1. ledger'[u] = ledger[u]
        BY <2>2, <3>2, <3>3, RatesRow
      <4>2. QED
        BY <2>1, <3>1, <4>1 DEF ProvisionalCap
    <3>4. CASE u \in Players(m)
      <4> DEFINE k == Len(ledger[u])
      <4>1. /\ k \in Nat /\ Len(ledger'[u]) = k + 1
            /\ \A j \in 1..k : ledger'[u][j] = ledger[u][j]
            /\ ledger'[u][k + 1].old = rating[u] /\ ledger'[u][k + 1].new = f[u]
        <5>1. /\ k \in Nat /\ Len(ledger'[u]) = k + 1
              /\ \A j \in 1..k : ledger'[u][j] = ledger[u][j]
              /\ ledger'[u][k + 1] = [match |-> m, old |-> rating[u], new |-> f[u]]
          BY <2>2, <3>2, <3>4, RatesRow
        <5>2. ledger'[u][k + 1].old = rating[u] /\ ledger'[u][k + 1].new = f[u]
          BY <5>1
        <5>3. QED
          BY <5>1, <5>2
      <4>2. k = vm[u]
        BY <2>1 DEF LedgerChain
      <4>3. ASSUME NEW j \in 1..k, j <= PROVISIONAL_MATCHES
            PROVE  /\ ledger[u][j].new - ledger[u][j].old <= PROVISIONAL_CAP
                   /\ ledger[u][j].old - ledger[u][j].new <= PROVISIONAL_CAP
        BY <2>1, <4>3 DEF ProvisionalCap
      <4> HIDE DEF k
      <4>4. i \in 1..k \/ i = k + 1
        BY <4>1
      <4>5. CASE i \in 1..k
        BY <3>1, <4>1, <4>3, <4>5
      <4>6. CASE i = k + 1
        <5>1. k < PROVISIONAL_MATCHES
          BY <3>1, <4>1, <4>6, NumberAssumption
        <5>2. f[u] - rating[u] <= PROVISIONAL_CAP /\ rating[u] - f[u] <= PROVISIONAL_CAP
          <6>1. vm[u] < PROVISIONAL_MATCHES
            BY <4>2, <5>1
          <6>2. QED
            BY <2>2, <2>4, <3>4, <6>1, VerifiesChange
        <5>3. QED
          BY <4>1, <4>6, <5>2
      <4>7. QED
        BY <4>4, <4>5, <4>6
    <3>5. QED
      BY <3>3, <3>4
  <2>5. QED
    BY <2>1, <2>3, <2>4, RankingStep
<1>3. QED
  BY <1>1, <1>2, Invariance, NoLostRating, PTL DEF Spec

---------------------------------------------------------------------------
(* The requests implement MatchAgreement *)

\* What MatchAgreement sees as the offer and the outcome of each match.
Offer == [m \in Match |-> Active(m)]
Outcomes == [m \in Match |-> Outcome(m)]

\* Initially the score the creator sent lies on the table and only he backs it.
LEMMA InitAgreement == Init => Agreement!Init
<1> SUFFICES ASSUME Init PROVE Agreement!Init
  OBVIOUS
<1>1. \A m \in Match : Active(m) = InitScore[m] /\ Outcome(m) = "open"
  BY DEF Init, Active, Outcome
<1>2. [m \in Match |-> Active(m)] = InitScore
  BY <1>1, ScoreAssumption
<1>3. [m \in Match |-> Outcome(m)] = [m \in Match |-> "open"]
  BY <1>1
<1>4. QED
  BY <1>2, <1>3 DEF Init, Agreement!Init

\* A step that writes no match and no ladder row is a stutter.
LEMMA QuietStep ==
  ASSUME UNCHANGED <<status, score, proposed, proposals, conf, ladderVars>>
  PROVE  UNCHANGED Agreement!vars
  BY DEF ladderVars, Agreement!vars, Active, Outcome

\* A match is expired: it lapses, or it had been decided and nothing happens.
LEMMA ExpiryLapses ==
  ASSUME TypeOK, NEW m \in Match,
         status' = [status EXCEPT ![m] = IF @ = "pending_confirm" THEN "expired" ELSE @],
         UNCHANGED <<score, proposed, proposals, conf, ladderVars>>
  PROVE  [Agreement!Next]_Agreement!vars
<1> USE DEF ladderVars
<1>1. CASE status[m] # "pending_confirm"
  <2>1. status' = status
    BY <1>1 DEF TypeOK
  <2>2. QED
    BY <2>1, QuietStep
<1>2. CASE status[m] = "pending_confirm"
  <2>1. \A n \in Match : status'[n] = IF n = m THEN "expired" ELSE status[n]
    BY <1>2 DEF TypeOK
  <2>2. Outcome(m) = "open" /\ Outcomes' = [Outcomes EXCEPT ![m] = "lapsed"]
    <3>1. Outcome(m) = "open"
      BY <1>2 DEF Outcome
    <3>2. Outcome(m)' = "lapsed"
      <4>1. status'[m] = "expired"
        BY <2>1
      <4>2. QED
        BY <4>1 DEF Outcome
    <3>3. \A n \in Match \ {m} : Outcome(n)' = Outcome(n)
      BY <2>1 DEF Outcome
    <3>4. QED
      BY <3>1, <3>2, <3>3 DEF Outcomes
  <2>3. Offer' = Offer
    BY DEF Offer, Active
  <2>4. Agreement!Lapse(m)
    BY <2>2, <2>3 DEF Agreement!Lapse, Offer, Outcomes
  <2>5. QED
    BY <2>4 DEF Agreement!Next
<1>3. QED
  BY <1>1, <1>2

\* A proposal is a counter-offer.
LEMMA ProposalCounters ==
  ASSUME IInv, NEW t \in Tx, Propose(t)
  PROVE  Agreement!Next
<1> USE DEF Propose, Open, Counters, Acceptable, AfterProposal, ladderVars
<1>1. TypeOK /\ pc[t] = "decide"
  BY DEF IInv
<1>2. PICK m \in Match, u \in Player, o \in Score :
        /\ m = req[t].match /\ u = req[t].user /\ o = req[t].offer
        /\ u \in Players(m)
  BY <1>1, Acting
<1>3. /\ status[m] = "pending_confirm" /\ proposals[m] < MAX_SCORE_PROPOSALS
      /\ o # Active(m)
  BY <1>1, <1>2, Reading
<1>4. Outcomes' = Outcomes /\ Outcome(m) = "open"
  BY <1>3 DEF Outcomes, Outcome
<1>5. Offer' = [Offer EXCEPT ![m] = o]
  <2>1. \A n \in Match : proposed'[n] = IF n = m THEN o ELSE proposed[n]
    BY <1>1, <1>2 DEF TypeOK
  <2>2. \A n \in Match : Active(n)' = IF n = m THEN o ELSE Active(n)
    BY <1>2, <2>1, NoneAssumption, ScoreAssumption DEF Active
  <2>3. QED
    BY <2>2 DEF Offer
<1>6. Agreement!Counter(m, u, o)
  BY <1>2, <1>3, <1>4, <1>5 DEF Agreement!Counter, Offer, Outcomes
<1>7. u \in Agreement!Plays(m)
  BY <1>2 DEF Agreement!Plays, Players
<1>8. QED
  BY <1>6, <1>7 DEF Agreement!Next

\* A confirmation that leaves one team silent backs the offer.
LEMMA ConfirmationBacks ==
  ASSUME IInv, NEW t \in Tx, Confirm(t)
  PROVE  Agreement!Next
<1> USE DEF Confirm, Open, Counters, ladderVars
<1>1. TypeOK /\ pc[t] = "decide"
  BY DEF IInv
<1>2. PICK m \in Match, u \in Player :
        m = req[t].match /\ u = req[t].user /\ u \in Players(m)
  BY <1>1, Acting
<1>3. status[m] = "pending_confirm" /\ Backing(t) = conf[m] \cup {u}
  BY <1>1, <1>2, Reading DEF Backing
<1>4. Outcomes' = Outcomes /\ Outcome(m) = "open" /\ Offer' = Offer
  BY <1>3 DEF Outcomes, Outcome, Offer, Active
<1>5. Agreement!OneSided(m, conf[m] \cup {u})
  BY <1>2, <1>3 DEF Agreement!OneSided, BothTeams
<1>6. Agreement!Back(m, u)
  BY <1>2, <1>4, <1>5 DEF Agreement!Back, Offer, Outcomes
<1>7. u \in Agreement!Plays(m)
  BY <1>2 DEF Agreement!Plays, Players
<1>8. QED
  BY <1>6, <1>7 DEF Agreement!Next

\* The confirmation that completes both teams settles the match and moves
\* the ratings as its offer says.
LEMMA VerificationSettles ==
  ASSUME IInv, NEW t \in Tx, Verify(t)
  PROVE  Agreement!Next
<1>1. TypeOK /\ pc[t] = "rank"
  BY DEF IInv, Verify
<1>2. PICK m \in Match, u \in Player :
        m = req[t].match /\ u = req[t].user /\ u \in Players(m)
  BY <1>1, Acting
<1>3. seen[t].status = "pending_confirm" /\ BothTeams(m, Backing(t))
  BY <1>1, <1>2 DEF IInv, TxOK, RankingAgreed
<1>4. status[m] = "pending_confirm" /\ Backing(t) = conf[m] \cup {u}
  BY <1>1, <1>2, <1>3, Reading DEF Backing
<1>5. PICK d \in Delta, f \in [Player -> Int] :
        Rates(m, f) /\ \A v \in Player : f[v] = NewRating(m, d, v)
  BY <1>2, VerifyRates
<1>6. /\ conf' = [conf EXCEPT ![m] = @ \cup {u}]
      /\ score' = [score EXCEPT ![m] = Active(m)]
      /\ proposed' = [proposed EXCEPT ![m] = None]
      /\ status' = [status EXCEPT ![m] = "verified"]
      /\ proposals' = proposals
      /\ Verifies(m, d, f)
  BY <1>2, <1>4, <1>5 DEF Verify, Verifies
<1>7. Outcome(m) = "open" /\ Outcomes' = [Outcomes EXCEPT ![m] = "settled"]
  <2>1. \A n \in Match : status'[n] = IF n = m THEN "verified" ELSE status[n]
    BY <1>1, <1>6 DEF TypeOK
  <2>2. QED
    BY <1>4, <2>1 DEF Outcomes, Outcome
<1>8. Offer' = Offer
  <2>1. ASSUME NEW n \in Match PROVE Active(n)' = Active(n)
    <3>1. CASE n = m
      BY <1>1, <1>6, <3>1 DEF Active, TypeOK
    <3>2. CASE n # m
      BY <1>1, <1>6, <3>2 DEF Active, TypeOK
    <3>3. QED
      BY <3>1, <3>2
  <2>2. QED
    BY <2>1 DEF Offer
<1>9. ~Agreement!OneSided(m, conf[m] \cup {u})
  BY <1>3, <1>4 DEF Agreement!OneSided, BothTeams
<1>10. rating' \in [Player -> Int]
  BY <1>1, <1>5 DEF Rates, TypeOK
<1>11. ASSUME NEW v \in Player
       PROVE  IF v \notin Agreement!Plays(m) THEN rating'[v] = rating[v]
              ELSE IF Agreement!Side(m, v) = Winner[Offer[m]] THEN rating'[v] >= rating[v]
              ELSE rating'[v] <= rating[v]
  <2>1. rating'[v] = IF v \in Players(m) THEN f[v] ELSE rating[v]
    BY <1>5 DEF Rates
  <2>2. CASE v \notin Players(m)
    BY <2>1, <2>2 DEF Agreement!Plays, Players
  <2>3. CASE v \in Players(m)
    <3>1. score'[m] = Active(m) /\ Offer[m] = Active(m) /\ Winner[Active(m)] \in {1, 2}
      BY <1>1, <1>6, ActiveScore, ScoreAssumption DEF TypeOK, Offer
    <3>2. /\ v \in (IF Winner[Active(m)] = 1 THEN Team1[m] ELSE Team2[m]) => f[v] >= rating[v]
          /\ v \notin (IF Winner[Active(m)] = 1 THEN Team1[m] ELSE Team2[m]) => f[v] <= rating[v]
      BY <1>1, <1>6, <2>3, <3>1, VerifiesChange
    <3>3. Agreement!Side(m, v) = Winner[Active(m)]
            <=> v \in (IF Winner[Active(m)] = 1 THEN Team1[m] ELSE Team2[m])
      BY <2>3, <3>1, TeamAssumption DEF Agreement!Side, Players
    <3>4. v \in Agreement!Plays(m)
      BY <2>3 DEF Agreement!Plays, Players
    <3>5. QED
      BY <2>1, <2>3, <3>1, <3>2, <3>3, <3>4
  <2>4. QED
    BY <2>2, <2>3
<1>12. vm' = [v \in Player |-> IF v \in Agreement!Plays(m) THEN vm[v] + 1 ELSE vm[v]]
  BY <1>5 DEF Rates, Agreement!Plays, Players
<1>13. Agreement!Settle(m, u)
  <2>1. Offer' = Offer /\ Outcomes[m] = "open"
    BY <1>7, <1>8 DEF Outcomes
  <2>2. QED
    BY <1>6, <1>7, <1>9, <1>10, <1>11, <1>12, <2>1 DEF Agreement!Settle, Offer, Outcomes
<1>14. u \in Agreement!Plays(m)
  BY <1>2 DEF Agreement!Plays, Players
<1>15. QED
  BY <1>13, <1>14 DEF Agreement!Next

\* Each commit of a request is one step of MatchAgreement, taken at that
\* moment, and every other step is invisible to it: no interleaving of
\* requests, locks, rejections, failures and deadlines adds a behaviour.
THEOREM Implementation == Spec => ImplementsAgreement
<1>1. IInv /\ [Next]_vars => [Agreement!Next]_Agreement!vars
  <2>1. SUFFICES ASSUME IInv, [Next]_vars PROVE [Agreement!Next]_Agreement!vars
    OBVIOUS
  <2>2. TypeOK
    BY <2>1 DEF IInv
  <2>3. ASSUME NEW t \in Tx, Step(t) PROVE [Agreement!Next]_Agreement!vars
    <3>1. CASE ExpireOnConfirm(t)
      BY <2>1, <2>2, <3>1, Acting, ExpiryLapses DEF ExpireOnConfirm
    <3>2. CASE DetailExpire(t)
      BY <2>1, <2>2, <3>2, Acting, ExpiryLapses DEF DetailExpire
    <3>3. CASE Propose(t) \/ Confirm(t) \/ Verify(t)
      BY <2>1, <3>3, ProposalCounters, ConfirmationBacks, VerificationSettles
    <3>4. CASE LockMatch(t) \/ RejectNotPending(t) \/ RejectProposal(t) \/ EnterRanking(t)
               \/ DeadlockVictim(t) \/ \E u \in Player : LockLadder(t, u)
      BY <3>4, QuietStep DEF LockMatch, RejectNotPending, RejectProposal, EnterRanking,
         DeadlockVictim, LockLadder, matchVars
    <3>5. QED
      BY <2>3, <3>1, <3>2, <3>3, <3>4 DEF Step
  <2>4. ASSUME NEW t \in Tx, Request(t) \/ Fail(t) PROVE [Agreement!Next]_Agreement!vars
    BY <2>4, QuietStep DEF Request, Begin, BeginDetail, Fail, matchVars
  <2>5. ASSUME NEW m \in Match, DeadlinePasses(m) PROVE [Agreement!Next]_Agreement!vars
    BY <2>5, QuietStep DEF DeadlinePasses
  <2>6. CASE UNCHANGED vars
    BY <2>6, QuietStep DEF vars, matchVars
  <2>7. QED
    BY <2>1, <2>3, <2>4, <2>5, <2>6 DEF Next
<1>2. QED
  BY <1>1, InitAgreement, Invariance, PTL DEF Spec, ImplementsAgreement, Agreement!Spec
===========================================================================
