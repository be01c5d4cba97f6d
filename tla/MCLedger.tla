------------------------------ MODULE MCLedger ------------------------------
(* Where the daemon decides that something is news: the ledger, which knows   *)
(* the events it has accepted, and the event bridge, which compares each      *)
(* snapshot of a session with the last and tells the ledger of the changes.   *)
(* The bridge takes from the ledger only that it accepts an identity once,    *)
(* which the ledger's own part checks; they are explored one at a time.       *)
EXTENDS EventLedger, EventBridge, TLC

CONSTANTS k1, k2, k3

\* Nothing depends on which event is which.
Events == Permutations({k1, k2, k3})

VARIABLE part   \* what is explored

ASSUME BridgeAssumption == BridgeConstants

MCInit ==
  /\ part \in {"ledger", "turns", "prompts"}
  /\ Init
  /\ BridgeInit
  /\ sess.model = CHOOSE m \in Models : TRUE
  /\ part = "ledger" => sess.turn = 0

\* Turns and gates over a crash; retries, prompts, endpoints and a change of model early on
\* over a refusal.
TurnsAndGates ==
  /\ sess'.rev <= 3 /\ sess'.model = sess.model /\ sess'.phase # "waiting" /\ sess'.health = "ok"
  /\ sess'.attempt = 0 /\ sess'.prompt = 0 /\ (sess'.turn # 0 => sess'.accepted)
  /\ refusals' = 0
RetriesAndPrompts ==
  /\ sess'.begun <= 1 /\ sess'.gate = 0 /\ (sess'.model # sess.model => sess.rev = 1)
  /\ Cardinality(snaps') <= 1 /\ crashes' = 0

MCNext ==
  \/ part = "ledger" /\ Next /\ UNCHANGED <<part, bridgeVars>>
  \/ part # "ledger" /\ BridgeNext /\ UNCHANGED <<part, vars>>
                     /\ IF part = "turns" THEN TurnsAndGates ELSE RetriesAndPrompts

MCSpec == MCInit /\ [][MCNext]_<<part, vars, bridgeVars>>
=============================================================================
