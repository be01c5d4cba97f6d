\* Commands: four keys, one of them another worktree's, and two requests at a time over a registry of two receipts.
SPECIFICATION MCSpec
CONSTANTS
  Keys = {1, 2, 3, 4}
  Worktrees = {"main", "elsewhere"}
  Home <- LastElsewhere
  Cwd = "main"
  Requests = {1, 2}
  Capacity = 2
  MaxRequests = 4
  MaxFaults = 2
  MaxWorkers = 2
  MaxAttempts = 2
  Stops = {1, 2}
  Channels = {"general"}
  Messages = {1, 2, 3, 4}
  Channel <- LastDirect
  Mentions = {2, 3, 4}
  Urgent = {3, 4}
  MentionsMin = 2
  MessagesMin = 3
  Patience = 1
  GlobalCooldown = 1
  ChannelCooldown = 2
  MaxRecent = 2
  MaxTime = 3
  MaxReceived = 4
  MaxLost = 1
INVARIANTS CommandsInv SubscriptionInv WatchInv
CHECK_DEADLOCK FALSE
