----------------------------- MODULE MCAnalytics -----------------------------
(* A small instance of Analytics for TLC. *)
EXTENDS Analytics

CONSTANTS p1, p2, p3

\* Won, lost, won; the first and the last with p1.
MCWin == <<TRUE, FALSE, TRUE>>
MCClose == <<FALSE, TRUE, TRUE>>
MCDay == <<0, 5, 9>>
MCMate == <<p1, p2, p1>>
MCRivals == <<{p2, p3}, {p3}, {p2}>>
MCOppAvg == <<1000, 1075, 930>>
==============================================================================
