---------------------------- MODULE AlertOutbox ----------------------------
(***************************************************************************)
(* What clawhip promises about a native GJC alert, without saying how.     *)
(*                                                                         *)
(* A lane record stages an alert and owes it to every destination of its   *)
(* route.  Each destination is an item of its own: it is claimed before    *)
(* the sink is called, the message goes out at most once, an explicit      *)
(* failure gives the item back for a retry, and a crash between the claim  *)
(* and the outcome leaves the item in doubt: it is never sent again        *)
(* (dispatch.rs 39-44).  The alert is retired only when no destination is  *)
(* still owed, or withdrawn when the failure it reports is superseded.     *)
(***************************************************************************)
EXTENDS Naturals

CONSTANTS Alerts,   \* alert identities, in staging order
          Dests,    \* destinations
          Owed      \* Owed[a]: the destinations alert a is routed to

VARIABLES life,     \* life[a]: "unseen", "pending", "retired" or "suppressed"
          slot,     \* slot[a][d]: where the delivery of a to d stands
          sent      \* sent[a][d]: how many times d has received a

vars == <<life, slot, sent>>

Init ==
  /\ life = [a \in Alerts |-> "unseen"]
  /\ slot = [a \in Alerts |-> [d \in Dests |-> "none"]]
  /\ sent = [a \in Alerts |-> [d \in Dests |-> 0]]

Stage(a) ==
  /\ life[a] = "unseen"
  /\ life' = [life EXCEPT ![a] = "pending"]
  /\ UNCHANGED <<slot, sent>>

Claim(a, d) ==
  /\ life[a] = "pending"
  /\ d \in Owed[a]
  /\ slot[a][d] \in {"none", "failed"}
  /\ slot' = [slot EXCEPT ![a][d] = "claimed"]
  /\ UNCHANGED <<life, sent>>

\* The one moment a message leaves: only under a claim, and only once.
Send(a, d) ==
  /\ slot[a][d] = "claimed"
  /\ sent[a][d] = 0
  /\ sent' = [sent EXCEPT ![a][d] = 1]
  /\ UNCHANGED <<life, slot>>

Settle(a, d) ==
  /\ slot[a][d] = "claimed"
  /\ slot' = [slot EXCEPT ![a][d] = IF sent[a][d] = 1 THEN "delivered" ELSE "failed"]
  /\ UNCHANGED <<life, sent>>

\* A crash forgets which claimed deliveries reached the sink.
Crash ==
  /\ slot' = [a \in Alerts |-> [d \in Dests |->
                IF slot[a][d] = "claimed" THEN "doubt" ELSE slot[a][d]]]
  /\ UNCHANGED <<life, sent>>

Retire(a) ==
  /\ life[a] = "pending"
  /\ \A d \in Owed[a] : slot[a][d] \in {"delivered", "doubt"}
  /\ life' = [life EXCEPT ![a] = "retired"]
  /\ UNCHANGED <<slot, sent>>

Suppress(a) ==
  /\ life[a] = "pending"
  /\ life' = [life EXCEPT ![a] = "suppressed"]
  /\ UNCHANGED <<slot, sent>>

Next ==
  \/ Crash
  \/ \E a \in Alerts :
       \/ Stage(a) \/ Retire(a) \/ Suppress(a)
       \/ \E d \in Dests : Claim(a, d) \/ Send(a, d) \/ Settle(a, d)

Spec == Init /\ [][Next]_vars
=============================================================================
