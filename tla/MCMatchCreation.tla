-------------------------- MODULE MCMatchCreation --------------------------
(* A small instance of MatchCreation for TLC: three scenarios in one run. *)
EXTENDS MatchCreation

CONSTANTS a, b, c, m1, m2, m3   \* users, match ids

VARIABLE scenario

AskedBy(Askers) == \A t \in Tx : req'[t] = None \/ req'[t].user \in Askers

\* Ids are used in order, and a line-up is inserted in order.
InOrder ==
  /\ creator'[m3] # None => creator'[m2] # None
  /\ creator'[m2] # None => creator'[m1] # None
  /\ \A t \in Tx : /\ t \in keyShare'[c] => t \in keyShare'[b]
                   /\ t \in keyShare'[b] => t \in keyShare'[a]

\* One creator sends all requests and competes for his limits: "limit" has
\* three matches, of which only the first grows old, "overdue" two.  In "locks" two
\* creators, each in the other's line-up, lock themselves and then need each
\* other; one match is made.
Scenario ==
  /\ scenario' = scenario
  /\ CASE scenario = "limit"   -> /\ AskedBy({a}) /\ InOrder
                                 /\ \A m \in Match \ {m1} : age'[m] # "old"
       [] scenario = "overdue" -> /\ AskedBy({a}) /\ InOrder
                                  /\ creator'[m3] = None
       [] scenario = "locks"   -> /\ AskedBy({a, b})
                                  /\ creator'[m2] = None /\ creator'[m3] = None

MCInit == Init /\ scenario \in {"limit", "overdue", "locks"}
MCSpec ==
  /\ MCInit
  /\ [][Next /\ Scenario]_<<vars, scenario>>
  /\ Fairness
===========================================================================
