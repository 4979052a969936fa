------------------------------ MODULE MatchScore ------------------------------
(***************************************************************************)
(* What MatchScoreIn (app/schemas/match.py) accepts as the result of a     *)
(* padel match.  A score is the sequence of its sets, each the games of    *)
(* the two teams; JSON of another shape is refused before.                 *)
(***************************************************************************)
EXTENDS Integers, FiniteSets, Sequences

GameCounts == [t1 : Int, t2 : Int]

\* One set: 6-0 to 6-4, 7-5 or 7-6, for either team.
ValidSet(x) ==
  LET mx == IF x.t1 > x.t2 THEN x.t1 ELSE x.t2
      mn == IF x.t1 > x.t2 THEN x.t2 ELSE x.t1 IN
  /\ x.t1 \in 0..7 /\ x.t2 \in 0..7
  /\ x.t1 # x.t2
  /\ mx \in {6, 7}
  /\ mx = 6 => mn <= 4
  /\ mx = 7 => mn \in {5, 6}

\* Of the first n sets of s, those team 1 won, and how many they are.
WonBy1(s, n) == {i \in 1..n : s[i].t1 > s[i].t2}
T1Wins(s, n) == Cardinality(WonBy1(s, n))

\* validate_score_json: two sets won by one team, or three with one each
\* before the last.
Accepted(s) ==
  LET won == T1Wins(s, Len(s)) IN
  /\ Len(s) \in {2, 3}
  /\ \A i \in 1..Len(s) : ValidSet(s[i])
  /\ Len(s) = 2 => won # 1
  /\ Len(s) = 3 => won \in {1, 2} /\ T1Wins(s, 2) = 1

\* derived_winner
DerivedWinner(s) ==
  LET won == T1Wins(s, Len(s)) IN
  IF won > Len(s) - won THEN 1 ELSE 2

---------------------------------------------------------------------------
(* Reference: the rules of the game *)

\* A set goes to six games with two ahead, to 7-5, or to a tie-break at 6-6.
TakesSet(won, lost) ==
  \/ won = 6 /\ lost \in 0..4
  \/ won = 7 /\ lost \in {5, 6}
SetTo(s, i, team) ==
  IF team = 1 THEN TakesSet(s[i].t1, s[i].t2) ELSE TakesSet(s[i].t2, s[i].t1)

\* team wins s, best of three: two sets, the last of them the last played, and
\* at most one set to the other team.
BestOfThree(s, team) ==
  \/ Len(s) = 2 /\ SetTo(s, 1, team) /\ SetTo(s, 2, team)
  \/ /\ Len(s) = 3 /\ SetTo(s, 3, team)
     /\ \/ SetTo(s, 1, team) /\ SetTo(s, 2, 3 - team)
        \/ SetTo(s, 1, 3 - team) /\ SetTo(s, 2, team)
==============================================================================
