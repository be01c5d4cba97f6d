\* Threads: three over two pages of a list that changes while it is read and shows
\* an update late.  The rest of the instances is in MCFeeds.
SPECIFICATION MCSpec
CONSTANTS
  Threads = {1, 2, 3}
  MaxPages = 2
  PerPage = 1
  Reconcile = 2
  Delay = 1
  Changing = TRUE
  MaxTime = 4
  MaxUpdates = 2
  MaxFailures = 0
INVARIANTS ThreadsInv FeedInv
PROPERTIES EveryThreadReported EveryCommentSent
CHECK_DEADLOCK FALSE
