----------------------------- MODULE MCRequests ------------------------------
(* What clients of the daemon's HTTP API ask for again, in parallel, or while *)
(* it is still being done: commands for a session's peer, the start and stop  *)
(* of a subscription, the messages of watched channels.  Each has its own     *)
(* lock and files, and is explored by itself.                                 *)
EXTENDS CommandReceipts, Subscription, DiscordWatch

VARIABLE part   \* what is explored

\* The daemon's own worktree, and a second one with a command of its own.
Main      == "main"
Elsewhere == "elsewhere"
LastElsewhere == [k \in Keys |-> IF k = 4 THEN Elsewhere ELSE Main]

\* Of four messages all but the first mention the bot, the last two call for a nudge,
\* and the last is a direct one.
LastDirect == [m \in Messages |-> IF m = 4 THEN Direct ELSE CHOOSE c \in Channels : TRUE]

ASSUME RequestsAssumption == ReceiptConstants /\ SubscriptionConstants

MCInit ==
  /\ part \in {"worktree", "worktrees", "subscription", "watch"}
  /\ ReceiptsInit
  /\ SubscriptionInit /\ (part # "subscription" => endpoint)
  /\ WatchInit

\* Over one worktree three keys; over two worktrees three keys, one of them
\* elsewhere, with fewer requests and faults.
InBounds ==
  \A r \in Requests :
    req'[r].pc # "idle" =>
      \/ part = "worktree"  /\ Home[req'[r].key] = Main
      \/ part = "worktrees" /\ req'[r].key # 3 /\ asked' <= 3 /\ faults' <= 1

MCNext ==
  \/ part \in {"worktree", "worktrees"} /\ ReceiptsNext /\ InBounds /\ UNCHANGED <<part, subVars, watchVars>>
  \/ part = "subscription" /\ SubscriptionNext /\ UNCHANGED <<part, receiptVars, watchVars>>
  \/ part = "watch"        /\ WatchNext        /\ UNCHANGED <<part, receiptVars, subVars>>

MCSpec == MCInit /\ [][MCNext]_<<part, receiptVars, subVars, watchVars>>
=============================================================================
