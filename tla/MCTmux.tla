------------------------------- MODULE MCTmux --------------------------------
(* What the daemon keeps of tmux: the registry of watched sessions, and what   *)
(* is read from the panes of one of them.  The two are explored one at a time, *)
(* the second three times: a pane that the daemon and a wrapper hand over, two *)
(* panes that share a window while their lines scroll, and one pane that       *)
(* stands still for long.                                                      *)
EXTENDS TmuxRegistry, TmuxPanes

VARIABLE part   \* what is explored

Two == INSTANCE TmuxPanes WITH Wrappers <- FALSE, Panes <- {1, 2}, Plain <- {"plain"}

Still == INSTANCE TmuxPanes WITH Wrappers <- FALSE, MaxTime <- 5, MaxPrints <- 2, MaxTroubles <- 2

ASSUME PanesAssumption == PanesConstants /\ Two!PanesConstants /\ Still!PanesConstants

MCInit ==
  /\ part \in {"registry", "shared", "two", "still"}
  /\ RegistryInit /\ (part # "registry" => alive)
  /\ IF part = "two" THEN Two!PanesInit ELSE PanesInit

MCNext ==
  \/ part = "registry" /\ RegistryNext     /\ UNCHANGED <<part, panesVars>>
  \/ part = "shared"   /\ PanesNext        /\ UNCHANGED <<part, registryVars>>
  \/ part = "two"      /\ Two!PanesNext    /\ UNCHANGED <<part, registryVars>>
  \/ part = "still"    /\ Still!PanesNext  /\ UNCHANGED <<part, registryVars>>

MCSpec == MCInit /\ [][MCNext]_<<part, registryVars, panesVars>> /\ (part = "registry" => RegistryFairness)
=============================================================================
