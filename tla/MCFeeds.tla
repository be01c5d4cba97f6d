------------------------------ MODULE MCFeeds -------------------------------
(* The sources that read a list page by page while it grows: the threads of   *)
(* the notifications, and the comments of a repository.  They have nothing in *)
(* common but the server's clock, and are explored one at a time.             *)
EXTENDS NotificationPages

VARIABLES part,   \* what is explored
          time, made, changed, feed, round, sent, baseline, after, twice, edits, backoffs, aborts

feedVars == <<time, made, changed, feed, round, sent, baseline, after, twice, edits, backoffs, aborts>>

\* Five threads over three pages of a list that holds still while it is read, and
\* polls that fail.
Still == INSTANCE NotificationPages WITH
  Threads <- 1..5, MaxPages <- 3, Reconcile <- 1, Delay <- 0, Changing <- FALSE,
  MaxTime <- 3, MaxUpdates <- 1, MaxFailures <- 1

\* Four comments on two pull requests, and three of which one is on an issue.
Feed == INSTANCE ActivityFeed WITH
  Comments <- 1..4, OnIssue <- {}, NumPulls <- 2, MaxLookups <- 1, MaxAttempts <- 2, MaxPending <- 1,
  MaxIds <- 2, Changing <- FALSE, MaxTime <- 3, MaxEdits <- 1, MaxBackoffs <- 1, MaxAborts <- 0,
  clock <- time, poll <- round
Mixed == INSTANCE ActivityFeed WITH
  Comments <- 1..3, OnIssue <- {3}, NumPulls <- 2, MaxLookups <- 1, MaxAttempts <- 2, MaxPending <- 1,
  MaxIds <- 2, Changing <- FALSE, MaxTime <- 4, MaxEdits <- 1, MaxBackoffs <- 0, MaxAborts <- 0,
  clock <- time, poll <- round

ASSUME FeedsAssumption == Still!PagesConstants /\ Feed!FeedConstants /\ Mixed!FeedConstants

MCInit ==
  /\ part \in {"threads", "still", "comments", "mixed"}
  /\ IF part = "mixed" THEN Mixed!FeedInit ELSE Feed!FeedInit
  /\ IF part = "still" THEN Still!PagesInit ELSE PagesInit
  /\ part \in {"comments", "mixed"} => updated = [t \in Threads |-> 0] /\ cutoff = 0

MCNext ==
  \/ part = "threads"  /\ PagesNext       /\ UNCHANGED <<part, feedVars>>
  \/ part = "still"    /\ Still!PagesNext /\ UNCHANGED <<part, feedVars>>
  \/ part = "comments" /\ Feed!FeedNext   /\ UNCHANGED <<part, pageVars>>
  \/ part = "mixed"    /\ Mixed!FeedNext  /\ UNCHANGED <<part, pageVars>>

\* The sources poll for ever, and what was updated shows in the list in the end.
Poll == poll' # poll \/ round' # round
MCSpec ==
  /\ MCInit /\ [][MCNext]_<<part, pageVars, feedVars>>
  /\ []<><<Poll>>_<<part, pageVars, feedVars>>
  /\ SF_pageVars(part = "threads" /\ Shows) /\ SF_pageVars(part = "still" /\ Still!Shows)

\* The threads of the list.
ThreadsInv == IF part = "still" THEN Still!PagesInv ELSE PagesInv
EveryThreadReported == <>[](IF part = "still" THEN Still!AllReported ELSE AllReported)

\* The comments.
FeedInv == IF part = "mixed" THEN Mixed!FeedInv ELSE Feed!FeedInv
EveryCommentSent == <>[](IF part = "mixed" THEN Mixed!AllSent ELSE Feed!AllSent)
=============================================================================
