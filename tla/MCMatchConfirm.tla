-------------------------- MODULE MCMatchConfirm --------------------------
(* A small instance of MatchConfirm for TLC: two scenarios in one run. *)
EXTENDS MatchConfirm, MatchScore

CONSTANTS a1, a2, b1, b2,  \* four players
          m1, m2           \* two matches

\* 6-4 7-5 for team 1, 6-4 3-6 6-7 for team 2, and a third set after 2-0.
Games(a, b) == [t1 |-> a, t2 |-> b]
s1 == <<Games(6, 4), Games(7, 5)>>
s2 == <<Games(6, 4), Games(3, 6), Games(6, 7)>>
bad == <<Games(6, 4), Games(6, 3), Games(2, 6)>>
MCPayload == {s1, s2, bad}
MCScore == {s \in Payload : Accepted(s)}

\* In m1 a1 and a2 play b1 and b2; in m2 the pairs are mixed.
MCTeam1 == [m \in Match |-> IF m = m1 THEN {a1, a2} ELSE {a1, b1}]
MCTeam2 == [m \in Match |-> IF m = m1 THEN {b1, b2} ELSE {a2, b2}]
MCCreator == [m \in Match |-> IF m = m1 THEN a1 ELSE b2]
MCInitScore == [m \in Match |-> s1]
MCWinner == [s \in Score |-> DerivedWinner(s)]

VARIABLE scenario

\* In "negotiation" a1, a2 and b1 ask about m1, with counter-proposals: both
\* players of a team and one of the other.  In "ranking" a player of each team
\* asks about both matches, without proposals: enough to verify them at the same
\* time and to deadlock on the ladder rows.
Asks(r) ==
  CASE scenario = "negotiation" -> r.match = m1 /\ r.user \in {a1, a2, b1}
    [] scenario = "ranking"     -> r.offer = None /\ r.user \in {a1, b2}
Scenario ==
  /\ scenario' = scenario
  /\ \A t \in Tx : req'[t] = None \/ Asks(req'[t])
  /\ scenario = "negotiation" => ~past'[m2]
MCInit == Init /\ scenario \in {"negotiation", "ranking"}
MCFairSpec == MCInit /\ [][Next /\ Scenario]_<<vars, scenario>> /\ Fairness
===========================================================================
