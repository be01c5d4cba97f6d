---------------------------- MODULE ActivityFeed ----------------------------
(* The comment feed of a repository (source/github.rs, poll_pr_activity): each *)
(* poll reads, oldest change first, the comments changed since a cursor, up to *)
(* a number of pages, and sends those made after the baseline.  A comment of a *)
(* pull request that is not known yet waits in a queue for its metadata, for a *)
(* number of lookups per poll and of attempts per comment; a comment of an     *)
(* issue is sent at once, one per issue and poll.  What was sent is            *)
(* remembered, up to a number of ids.                                          *)
(*                                                                             *)
(* Times are seconds from 1 on; 0 is None.  One of the two comment feeds is    *)
(* modelled (the inline one has the same steps, without issues), with its own  *)
(* queue; texts and the cap of the metadata cache are left out, and metadata   *)
(* comes from lookups only.                                                    *)
EXTENDS Integers, SequencesExt, FiniteSetsExt

CONSTANTS
  Comments,      \* ids of the comments: 1 .. n, made in this order
  OnIssue,       \* those on the issue
  NumPulls,      \* pull requests the others are on
  PerPage,       \* comments of a page
  MaxPages,      \* MAX_COMMENT_PAGES
  MaxLookups,    \* MAX_PR_METADATA_LOOKUPS
  MaxAttempts,   \* MAX_METADATA_ATTEMPTS
  MaxPending,    \* MAX_PENDING_PR_COMMENTS
  MaxIds,        \* MAX_EMITTED_COMMENT_IDS
  Changing,      \* comments may change between two pages of a poll
  MaxTime,       \* bound of the clock
  MaxEdits,      \* bound on the edits
  MaxBackoffs,   \* bound on polls that meet the rate limit, or a page that fails
  MaxAborts      \* bound on lookups of the issue that fail

\* What a user of the module assumes of the constants.
FeedConstants ==
  /\ {NumPulls, PerPage, MaxPages, MaxLookups, MaxAttempts, MaxPending, MaxIds} \subseteq Nat \ {0}
  /\ {MaxTime, MaxEdits, MaxBackoffs, MaxAborts} \subseteq Nat
  /\ OnIssue \subseteq Comments /\ Changing \in BOOLEAN

VARIABLES
  clock,     \* the server's clock
  made, changed,   \* per comment, when it was made and last changed, 0 before
  feed,      \* the part of PRActivityState that a poll works on and then keeps
  poll,      \* the poll under way, or NoPoll
  sent,      \* history: how often a comment was sent
  baseline,  \* history: the lower bound the first poll set
  after,     \* history: per comment sent, those remembered in its list since it was
  twice,     \* history: those taken for new while they waited or were to be remembered
  edits, backoffs, aborts

feedVars == <<clock, made, changed, feed, poll, sent, baseline, after, twice, edits, backoffs, aborts>>

Pulls == 1..NumPulls
PullOf(c) == ((c - 1) % NumPulls) + 1
Outcomes == {"resolved", "failed", "backoff"}
Later(a, b) == IF a > b THEN a ELSE b

NoPoll == [at |-> "none"]
FirstFeed == [cursor |-> 0, lower |-> 0, pullIds |-> <<>>, issueIds |-> <<>>, pending |-> <<>>, known |-> {}]

FeedInit ==
  /\ clock = 1 /\ made = [c \in Comments |-> 0] /\ changed = made
  /\ feed = FirstFeed /\ poll = NoPoll
  /\ sent = [c \in Comments |-> 0] /\ baseline = 0
  /\ after = [c \in Comments |-> {}] /\ twice = {}
  /\ edits = 0 /\ backoffs = 0 /\ aborts = 0

-----------------------------------------------------------------------------
(* The server.                                                                 *)

Quiet == Changing \/ poll = NoPoll

Tick ==
  /\ clock < MaxTime /\ clock' = clock + 1
  /\ UNCHANGED <<made, changed, feed, poll, sent, baseline, after, twice, edits, backoffs, aborts>>

Comment(c) ==
  /\ Quiet /\ made[c] = 0 /\ \A d \in Comments : d < c => made[d] # 0
  /\ made' = [made EXCEPT ![c] = clock] /\ changed' = [changed EXCEPT ![c] = clock]
  /\ UNCHANGED <<clock, feed, poll, sent, baseline, after, twice, edits, backoffs, aborts>>

Edit(c) ==
  /\ Quiet /\ made[c] # 0 /\ changed[c] < clock /\ edits < MaxEdits
  /\ changed' = [changed EXCEPT ![c] = clock] /\ edits' = edits + 1
  /\ UNCHANGED <<clock, made, feed, poll, sent, baseline, after, twice, backoffs, aborts>>

(* What changed after `since`, oldest first; the first poll asks for the newest first. *)
Before(c, d) == changed[c] < changed[d] \/ (changed[c] = changed[d] /\ c < d)
Listed(since) ==
  LET S == {c \in Comments : changed[c] > since}
      Rank(c) == Cardinality({d \in S : IF feed.cursor = 0 THEN Before(c, d) ELSE Before(d, c)})
  IN [i \in 1..Cardinality(S) |-> CHOOSE c \in S : Rank(c) = i - 1]

-----------------------------------------------------------------------------
(* The queue of comments without metadata.                                     *)

(* remember_activity_id, refresh_delivered_comment_id *)
RememberId(ids, c) ==
  IF Contains(ids, c) THEN ids
  ELSE IF Len(ids) = MaxIds THEN Append(Tail(ids), c) ELSE Append(ids, c)
RefreshInPlace(ids, c) == RememberId(ids, c)
Refresh(ids, c) == RememberId(SelectSeq(ids, LAMBDA d : d # c), c)

(* What a step of a poll does to the state, and to the history kept beside it: *)
(* a comment is sent; it is taken for a new one; it is remembered in its list. *)
Once(s, c) == [s EXCEPT !.sent[c] = @ + 1]
Waits(s, c) == \E i \in DOMAIN s.feed.pending : s.feed.pending[i].id = c
TakenForNew(s, c) ==
  IF Waits(s, c) \/ (s.sent[c] > 0 /\ Cardinality(s.after[c]) < MaxIds)
  THEN [s EXCEPT !.again = @ \cup {c}] ELSE s
Remembered(s, list, ids, c) ==
  LET Follows(d) == s.sent[d] > 0 /\ (d \in OnIssue) = (c \in OnIssue)
  IN [s EXCEPT !.feed[list] = ids,
               !.after = [d \in Comments |-> IF d = c THEN {} ELSE IF Follows(d) THEN @[d] \cup {c} ELSE @[d]]]
Delivered(s, c) == Remembered(Once(s, c), "pullIds", Refresh(s.feed.pullIds, c), c)

(* drain_pending_comments, of one comment: look its pull request up if the     *)
(* budget allows, send what is known or has used up its attempts, keep the     *)
(* rest.  A poll counts an attempt of a comment once.                          *)
Drained(s, p) ==
  LET pull == PullOf(p.id)
      looks == pull \notin s.feed.known /\ pull \notin s.tried /\ Cardinality(s.tried) < MaxLookups
      tried == s.tried \cup (IF looks THEN {pull} ELSE {})
      known == s.feed.known \cup (IF looks /\ s.outcome[pull] = "resolved" THEN {pull} ELSE {})
      fails == pull \in tried /\ s.outcome[pull] = "failed" /\ p.id \notin s.counted
      attempts == p.attempts + (IF fails THEN 1 ELSE 0)
      t == [s EXCEPT !.tried = tried, !.feed.known = known,
                     !.counted = IF pull \notin known /\ fails THEN @ \cup {p.id} ELSE @]
  IN IF pull \in known \/ attempts >= MaxAttempts THEN Delivered(t, p.id)
     ELSE [t EXCEPT !.feed.pending = Append(@, [id |-> p.id, attempts |-> attempts])]

Drain(s) ==
  LET queue == s.feed.pending
      upTo[n \in 0..Len(queue)] ==
        IF n = 0 THEN [s EXCEPT !.feed.pending = <<>>] ELSE Drained(upTo[n - 1], queue[n])
  IN upTo[Len(queue)]

(* accept_activity_comment: a full queue gives its oldest comment away.        *)
Overflowed(s) ==
  IF Len(s.feed.pending) < MaxPending THEN s
  ELSE Delivered([s EXCEPT !.feed.pending = Tail(@)], Head(s.feed.pending).id)
Accepted(s, c) ==
  IF PullOf(c) \in s.feed.known THEN Once(s, c)
  ELSE [Overflowed(s) EXCEPT !.feed.pending = Append(@, [id |-> c, attempts |-> 0])]

(* One comment of the feed. *)
FreshAfter(c) == feed.lower # 0 /\ made[c] > feed.lower
Fresh(c) == feed.lower # 0 /\ made[c] >= feed.lower

TakenPull(s, c) ==
  IF Contains(s.feed.pullIds, c) \/ Waits(s, c) \/ (feed.lower # 0 /\ ~Fresh(c)) THEN s
  ELSE LET t == IF Fresh(c) THEN Accepted(TakenForNew(s, c), c) ELSE s
       IN Remembered(t, "pullIds", RememberId(t.feed.pullIds, c), c)

(* emit_issue_feed_comment: the title may need a lookup, whose failure ends the poll. *)
TakenIssue(s, c) ==
  IF Contains(s.feed.issueIds, c) THEN s
  ELSE LET speaks == Fresh(c) /\ ~s.spoken
           t == IF speaks THEN [Once(TakenForNew(s, c), c) EXCEPT !.spoken = TRUE] ELSE s
       IN IF speaks /\ s.deaf THEN [s EXCEPT !.aborted = TRUE]
          ELSE Remembered(t, "issueIds", RememberId(t.feed.issueIds, c), c)

Taken(s, c) == IF s.aborted THEN s ELSE IF c \in OnIssue THEN TakenIssue(s, c) ELSE TakenPull(s, c)

-----------------------------------------------------------------------------
(* A poll: the queue, the pages, the comments, the queue again.                *)

Told(s) == sent' = s.sent /\ after' = s.after /\ twice' = s.again

Start ==
  /\ poll = NoPoll
  /\ \E outcome \in [Pulls -> Outcomes], deaf \in BOOLEAN :
       LET s == Drain([feed |-> feed, sent |-> sent, after |-> after, again |-> twice,
                       outcome |-> outcome, deaf |-> deaf, tried |-> {}, counted |-> {},
                       spoken |-> FALSE, aborted |-> FALSE])
           limited == \E p \in Pulls : outcome[p] = "backoff"
       IN /\ limited => backoffs < MaxBackoffs
          /\ deaf => aborts < MaxAborts /\ OnIssue # {}
          /\ backoffs' = backoffs + (IF limited THEN 1 ELSE 0)
          /\ poll' = [at |-> "page", page |-> 1, got |-> <<>>, date |-> clock, work |-> s]
          /\ Told(s)
  /\ UNCHANGED <<clock, made, changed, feed, baseline, edits, aborts>>

(* A page that fails: the feed stays as it was, the queue is drained again.    *)
Ends(s) == poll' = NoPoll /\ feed' = s.feed /\ Told(s)

PageFails ==
  /\ poll.at = "page" /\ backoffs < MaxBackoffs /\ backoffs' = backoffs + 1
  /\ Ends(Drain(poll.work))
  /\ UNCHANGED <<clock, made, changed, baseline, edits, aborts>>

Highest(got) == Max({0} \cup {got[i][2] : i \in DOMAIN got})
LowerAnyway(complete, highest) == IF feed.cursor = 0 THEN poll.date ELSE Later(feed.lower, highest)
NextLower(complete, highest) ==
  IF feed.cursor = 0 THEN poll.date ELSE IF complete THEN Later(feed.lower, highest) ELSE feed.lower

Read(got, complete) ==
  LET upTo[n \in 0..Len(got)] == IF n = 0 THEN poll.work ELSE Taken(upTo[n - 1], got[n][1])
      s == upTo[Len(got)]
      highest == IF got = <<>> /\ feed.cursor = 0 THEN poll.date ELSE Later(feed.cursor, Highest(got))
  IN IF s.aborted
     THEN poll' = NoPoll /\ Told(s) /\ aborts' = aborts + 1 /\ UNCHANGED <<feed, baseline>>
     ELSE /\ Ends(Drain([s EXCEPT !.feed.cursor = highest, !.feed.lower = NextLower(complete, highest)]))
          /\ baseline' = IF feed.cursor = 0 THEN poll.date ELSE baseline
          /\ UNCHANGED aborts

(* fetch_pr_activity_pages: GitHub's since is exclusive, hence the second less. *)
ReadPage ==
  /\ poll.at = "page"
  /\ LET list == Listed(IF feed.cursor = 0 THEN 0 ELSE feed.cursor - 1)
         from == (poll.page - 1) * PerPage
         items == SubSeq(list, from + 1, IF from + PerPage < Len(list) THEN from + PerPage ELSE Len(list))
         got == poll.got \o [i \in DOMAIN items |-> <<items[i], changed[items[i]]>>]
         more == from + PerPage < Len(list)
     IN IF feed.cursor = 0 \/ ~more THEN Read(got, TRUE)
        ELSE IF poll.page = MaxPages THEN Read(got, FALSE)
        ELSE /\ poll' = [poll EXCEPT !.page = @ + 1, !.got = got]
             /\ UNCHANGED <<feed, sent, after, twice, baseline, aborts>>
  /\ UNCHANGED <<clock, made, changed, edits, backoffs>>

FeedNext ==
  \/ Tick \/ \E c \in Comments : Comment(c) \/ Edit(c)
  \/ Start \/ PageFails \/ ReadPage

(* The source polls for ever: some step of a poll is always enabled. *)
FeedFairness == []<><<poll' # poll>>_feedVars
FeedSpec == FeedInit /\ [][FeedNext]_feedVars /\ FeedFairness

-----------------------------------------------------------------------------
(* Properties.                                                                 *)

FeedTypeOK ==
  /\ clock \in 1..MaxTime /\ {edits, backoffs, aborts} \subseteq Nat
  /\ Len(feed.pending) <= MaxPending /\ Len(feed.pullIds) <= MaxIds /\ Len(feed.issueIds) <= MaxIds
  /\ feed.known \subseteq Pulls /\ after \in [Comments -> SUBSET Comments]

(* A comment is taken for new only once: not after an edit, not on its way     *)
(* through the queue, and not when its id was forgotten while it waited, which *)
(* refresh_delivered_comment_id is for.  One that was sent is sent again only  *)
(* when as many others as ids are remembered came after it.  And none made     *)
(* before the baseline is sent at all, however late it is edited (README.md:   *)
(* edits to old comments are not emitted).                                     *)
SentOnce ==
  /\ twice = {}
  /\ \A c \in Comments : sent[c] > 0 => made[c] >= baseline

(* What is behind the cursor has been sent, or waits for its metadata, unless  *)
(* it is older than the baseline.                                              *)
BehindIsSent ==
  poll = NoPoll /\ baseline # 0 =>
    \A c \in Comments \ OnIssue :
      made[c] > baseline /\ changed[c] < feed.cursor => sent[c] > 0 \/ Waits([feed |-> feed], c)

FeedInv == FeedTypeOK /\ SentOnce /\ BehindIsSent

(* Every comment on a pull request is sent in the end, though its lookups      *)
(* fail, the feed is longer than a poll reads, and it is edited on the way.  A *)
(* second with more comments than a poll reads holds the cursor for ever.      *)
Crowded == \E u \in 1..MaxTime : Cardinality({c \in Comments : changed[c] = u}) >= MaxPages * PerPage
AllSent == \A c \in Comments \ OnIssue : baseline # 0 /\ made[c] > baseline => sent[c] > 0 \/ Crowded
EveryCommentSent == <>[]AllSent

=============================================================================
