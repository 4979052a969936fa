-------------------------- MODULE MatchAgreement --------------------------
(***************************************************************************)
(* What the confirmation of matches promises, with no transactions, locks  *)
(* or deadlines: an offer lies on the table, players back it, a player may *)
(* put another offer in its place, and the match is settled in one step    *)
(* when both teams back the same offer.  Settling moves the ratings of its *)
(* players, the winners up and the losers down.                            *)
(***************************************************************************)
EXTENDS Integers

CONSTANTS Match, Player, Score, Team1, Team2, Creator, InitScore, Winner,
          MAX_SCORE_PROPOSALS, INIT_RATING

VARIABLES
  offer,    \* the score on the table; the result, once settled
  backers,  \* the players who back it
  rounds,   \* how often it was replaced
  outcome,  \* open, settled or lapsed
  rating,   \* points of each player
  played    \* settled matches of each player

vars == <<offer, backers, rounds, outcome, rating, played>>

Side(m, u) == IF u \in Team1[m] THEN 1 ELSE 2
Plays(m) == Team1[m] \cup Team2[m]

Init ==
  /\ offer = InitScore
  /\ backers = [m \in Match |-> {Creator[m]}]
  /\ rounds = [m \in Match |-> 0]
  /\ outcome = [m \in Match |-> "open"]
  /\ rating = [u \in Player |-> INIT_RATING]
  /\ played = [u \in Player |-> 0]

\* Every backer is on the same side.
OneSided(m, S) == S \cap Team1[m] = {} \/ S \cap Team2[m] = {}

\* u backs the offer, and the other side has yet to.
Back(m, u) ==
  /\ outcome[m] = "open"
  /\ OneSided(m, backers[m] \cup {u})
  /\ backers' = [backers EXCEPT ![m] = @ \cup {u}]
  /\ UNCHANGED <<offer, rounds, outcome, rating, played>>

\* u replaces the offer and is the only one to back the new one.
Counter(m, u, s) ==
  /\ outcome[m] = "open"
  /\ s # offer[m]
  /\ rounds[m] < MAX_SCORE_PROPOSALS
  /\ offer' = [offer EXCEPT ![m] = s]
  /\ backers' = [backers EXCEPT ![m] = {u}]
  /\ rounds' = [rounds EXCEPT ![m] = @ + 1]
  /\ UNCHANGED <<outcome, rating, played>>

\* u backs the offer as the first of the second side.
Settle(m, u) ==
  /\ outcome[m] = "open"
  /\ ~OneSided(m, backers[m] \cup {u})
  /\ backers' = [backers EXCEPT ![m] = @ \cup {u}]
  /\ outcome' = [outcome EXCEPT ![m] = "settled"]
  /\ rating' \in [Player -> Int]
  /\ \A v \in Player :
       IF v \notin Plays(m) THEN rating'[v] = rating[v]
       ELSE IF Side(m, v) = Winner[offer[m]] THEN rating'[v] >= rating[v]
       ELSE rating'[v] <= rating[v]
  /\ played' = [v \in Player |-> IF v \in Plays(m) THEN played[v] + 1 ELSE played[v]]
  /\ UNCHANGED <<offer, rounds>>

\* The match is given up.
Lapse(m) ==
  /\ outcome[m] = "open"
  /\ outcome' = [outcome EXCEPT ![m] = "lapsed"]
  /\ UNCHANGED <<offer, backers, rounds, rating, played>>

Next ==
  \E m \in Match :
    \/ Lapse(m)
    \/ \E u \in Plays(m) :
         \/ Back(m, u)
         \/ Settle(m, u)
         \/ \E s \in Score : Counter(m, u, s)

Spec == Init /\ [][Next]_vars
===========================================================================
