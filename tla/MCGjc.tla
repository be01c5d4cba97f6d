------------------------------- MODULE MCGjc -------------------------------
(* What must hold of a GJC lane at every step: of its pending alerts, which  *)
(* passes replay, and of the record that stages them.  An alert is accepted  *)
(* in one step on the lane and in many in the pipeline; the two are explored *)
(* one at a time.                                                            *)
EXTENDS AlertPipeline, GjcLane, TLC

CONSTANTS d1, d2, loop, http

VARIABLE part   \* what is explored

\* Every alert goes to one destination; to both; the first to one, the others to both.
OneDest == [a \in 1..NumAlerts |-> <<d1>>]
OneThenBoth == [a \in 1..NumAlerts |-> IF a = 1 THEN <<d1>> ELSE <<d1, d2>>]

MCInit == part \in {"alert", "lane"} /\ Init /\ LaneInit
MCNext ==
  \/ part = "alert" /\ Next     /\ UNCHANGED <<part, laneVars>>
  \/ part = "lane"  /\ LaneNext /\ UNCHANGED <<part, vars>>

MCSpec == MCInit /\ [][MCNext]_<<part, vars, laneVars>>

\* The fairness of either part, while it is explored.
MCFairSpec ==
  /\ MCSpec
  /\ \A w \in Passes : WF_vars(part = "alert" /\ Pass(w))
  /\ WF_vars(part = "alert" /\ Dispatch) /\ SF_vars(part = "alert" /\ SinkAccepts)
  /\ \A p \in Pollers : /\ WF_laneVars(part = "lane" /\ Onward(p))
                        /\ SF_laneVars(part = "lane" /\ Examine(p))

\* The passes are alike, in the pipeline and on the lane.
PassSymmetry == Permutations(Passes)
=============================================================================
