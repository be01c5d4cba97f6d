-------------------------- MODULE MCAlertPipeline --------------------------
(* Instances of AlertPipeline for TLC: the routes of the alerts.           *)
EXTENDS AlertPipeline

CONSTANTS d1, d2, loop, http

\* Every alert goes to both destinations.
BothDests == [a \in 1..NumAlerts |-> <<d1, d2>>]

\* The first alert goes to one destination, the others to both.
OneThenBoth == [a \in 1..NumAlerts |-> IF a = 1 THEN <<d1>> ELSE <<d1, d2>>]

OneDest == [a \in 1..NumAlerts |-> <<d1>>]
=============================================================================
