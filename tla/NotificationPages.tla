-------------------------- MODULE NotificationPages --------------------------
(* The GitHub notifications source (source/github_notifications.rs): a poll    *)
(* reads the list of threads page by page, newest first, from a watermark on.  *)
(* When the pages of a poll do not suffice, a cursor remembers how far down    *)
(* the polls have come, and the next one goes on below it, after a look at the *)
(* head of the list.  A second that alone fills a poll is enumerated by page   *)
(* numbers, with some pages kept for what is newer.                            *)
(*                                                                             *)
(* Times are seconds from 1 on; 0 is None.  What a thread is about, the        *)
(* filters of the configuration, the token and the wait between polls are left *)
(* out, and so is the cap of remembered threads.  A poll that fails, at any    *)
(* page, leaves the state as it was.                                           *)
EXTENDS Integers, SequencesExt

CONSTANTS
  Threads,     \* ids of the threads: 1 .. n
  MaxPages,    \* MAX_PAGES
  PerPage,     \* threads of a page
  Reconcile,   \* RECONCILE
  Delay,       \* bound on the seconds until an update shows in the list
  Changing,    \* the list may change between two pages of a poll
  MaxTime,     \* bound of the clock
  MaxUpdates,  \* bound on the updates after the start
  MaxFailures  \* bound on polls that fail

ASSUME PagesConstants ==
  /\ {MaxPages, PerPage, Reconcile} \subseteq Nat \ {0}
  /\ {Delay, MaxTime, MaxUpdates, MaxFailures} \subseteq Nat
  /\ MaxPages > 1 /\ Delay < Reconcile

VARIABLES
  clock,      \* the server's clock
  updated,    \* per thread, when it was last updated
  shown,      \* per thread, the update the list shows
  cutoff, watermark, catchUp, lastModified,   \* MonitorState
  threads,    \* MonitorState.threads: per thread the update remembered
  poll,       \* the poll under way, or NoPoll
  reported,   \* history: the updates sent
  again,      \* history: one of them was sent twice
  updates, failures

monitor == <<cutoff, watermark, catchUp, lastModified, threads>>
pageVars == <<clock, updated, shown, monitor, poll, reported, again, updates, failures>>

Times == 0..MaxTime
First(a, b) == IF a # 0 THEN a ELSE b
Later(a, b) == IF a > b THEN a ELSE b
Lowest(a, b) == IF a = 0 \/ b < a THEN b ELSE a

NoCursor == [since |-> 0, before |-> 0, max |-> 0, tied |-> FALSE, page |-> 0, newer |-> 0]
NoPoll == [index |-> -1]

(* Before the first poll, or after one of an empty list. *)
PagesInit ==
  /\ clock = 2
  /\ updated \in [Threads -> 0..2] /\ shown = updated
  /\ cutoff \in {0, 1} /\ watermark = 0 /\ catchUp = NoCursor /\ lastModified = 0
  /\ threads = [t \in Threads |-> 0]
  /\ poll = NoPoll /\ reported = {} /\ again = FALSE
  /\ updates = 0 /\ failures = 0

-----------------------------------------------------------------------------
(* The server: an update shows in the list within Delay seconds.               *)

Tick ==
  /\ clock < MaxTime
  /\ \A t \in Threads : shown[t] # updated[t] => clock - updated[t] < Delay
  /\ clock' = clock + 1
  /\ UNCHANGED <<updated, shown, monitor, poll, reported, again, updates, failures>>

Update(t) ==
  /\ updates < MaxUpdates /\ updates' = updates + 1
  /\ updated[t] = shown[t] /\ updated[t] < clock
  /\ updated' = [updated EXCEPT ![t] = clock]
  /\ UNCHANGED <<clock, shown, monitor, poll, reported, again, failures>>

Show(t) ==
  /\ shown[t] # updated[t]
  /\ Changing \/ poll = NoPoll
  /\ shown' = [shown EXCEPT ![t] = updated[t]]
  /\ UNCHANGED <<clock, updated, monitor, poll, reported, again, updates, failures>>

(* The list of what changed after `lower` and, unless it is 0, before `before`, both *)
(* exclusive, newest first.                                                          *)
Newest(s, t) == shown[s] > shown[t] \/ (shown[s] = shown[t] /\ s < t)
Listed(lower, before) ==
  LET S == {t \in Threads : shown[t] # 0 /\ shown[t] > lower /\ (before = 0 \/ shown[t] < before)}
      Rank(t) == Cardinality({s \in S : Newest(s, t)})
  IN [i \in 1..Cardinality(S) |-> CHOOSE t \in S : Rank(t) = i - 1]

Page(list, n) == SubSeq(list, (n - 1) * PerPage + 1, IF n * PerPage < Len(list) THEN n * PerPage ELSE Len(list))
HasNext(list, n) == n * PerPage < Len(list)

-----------------------------------------------------------------------------
(* fetch_threads.  In a poll, index counts the requests.                       *)

Start ==
  /\ poll = NoPoll
  /\ poll' = [index |-> 0, page |-> IF catchUp = NoCursor THEN 1 ELSE catchUp.page,
              oldest |-> 0, newest |-> catchUp.max, newerPage |-> 1, newerOldest |-> 0,
              newerDone |-> FALSE, cursor |-> catchUp, got |-> <<>>, date |-> 0]
  /\ UNCHANGED <<clock, updated, shown, monitor, reported, again, updates, failures>>

Catching == catchUp # NoCursor
AtHead == Catching /\ poll.index = 0

(* A pinned second leaves the first pages, the head among them, to what is newer. *)
InNewer ==
  /\ catchUp.tied
  /\ IF AtHead THEN catchUp.newer = 0 ELSE poll.index < MaxPages - 1 /\ ~poll.newerDone

RequestPage == IF AtHead THEN 1 ELSE IF InNewer THEN poll.newerPage ELSE poll.page

(* since and before are exclusive: a pinned second lies between before - 2 and before. *)
Since == IF Catching THEN catchUp.since ELSE watermark
LowerUnreconciled ==
  IF catchUp.tied THEN IF AtHead \/ InNewer THEN catchUp.before - 1 ELSE catchUp.before - 2 ELSE Since
Lower ==
  IF catchUp.tied THEN IF AtHead \/ InNewer THEN catchUp.before - 1 ELSE catchUp.before - 2
  ELSE IF Since = 0 THEN 0 ELSE Since - Reconcile
Before == IF InNewer THEN catchUp.newer ELSE IF AtHead \/ ~Catching THEN 0 ELSE catchUp.before

(* If-Modified-Since, of a poll that neither catches up nor is the first. *)
ModifiedLast == lastModified
ModifiedSince == IF lastModified < First(watermark, cutoff) - Reconcile
                 THEN lastModified ELSE First(watermark, cutoff) - Reconcile
NotModified ==
  /\ poll # NoPoll /\ poll.index = 0 /\ ~Catching /\ lastModified # 0 /\ First(watermark, cutoff) # 0
  /\ \A t \in Threads : shown[t] <= ModifiedSince

Unmodified ==
  /\ NotModified /\ poll' = NoPoll
  /\ UNCHANGED <<clock, updated, shown, monitor, reported, again, updates, failures>>

(* The cursor of newer pages, when the scan ends: none if it reached the end   *)
(* or did not move.                                                            *)
NewerLeft(oldest) ==
  IF catchUp.newer = 0 \/ oldest + 1 < catchUp.newer THEN oldest + 1 ELSE 0

TimesOf(list) == {shown[list[i]] : i \in DOMAIN list}
OldestOf(from, list) == IF list = <<>> THEN from ELSE Lowest(from, Min(TimesOf(list)))
NewestOf(from, list) == IF list = <<>> THEN from ELSE Later(from, Max(TimesOf(list)))

(* The poll after one more page of `list`. *)
Read(list) ==
  LET items == Page(list, RequestPage)
      next == HasNext(list, RequestPage)
      newerOldest == OldestOf(poll.newerOldest, items)
      base == [poll EXCEPT !.index = @ + 1, !.date = IF poll.index = 0 THEN clock ELSE @,
                           !.got = @ \o [i \in DOMAIN items |-> <<items[i], shown[items[i]]>>]]
  IN IF InNewer
     THEN [base EXCEPT !.newerOldest = newerOldest, !.newerDone = ~next,
                       !.newerPage = IF next THEN RequestPage + 1 ELSE @,
                       !.cursor.newer = IF ~next THEN 0
                                        ELSE IF poll.index = MaxPages - 2 THEN NewerLeft(newerOldest) ELSE @]
     ELSE IF AtHead THEN base
     ELSE [base EXCEPT !.oldest = OldestOf(poll.oldest, items), !.newest = NewestOf(poll.newest, items),
                       !.page = IF next THEN RequestPage + 1 ELSE @]

(* The end of the list: a pinned second that fitted in this poll is left, a    *)
(* range is covered.                                                           *)
AtEnd(list) == ~InNewer /\ ~AtHead /\ ~HasNext(list, RequestPage)
CursorAtEnd(p) ==
  IF ~p.cursor.tied THEN NoCursor
  ELSE IF p.cursor.page = 1 THEN [p.cursor EXCEPT !.before = @ - 1, !.tied = FALSE, !.newer = 0, !.page = 1]
  ELSE [p.cursor EXCEPT !.page = 1]

(* The pages are used up: below the oldest thread read, or on in its second.   *)
CursorAtCap(p) ==
  IF ~Catching
  THEN [since |-> First(watermark, First(cutoff, p.date)), before |-> p.oldest + 1,
        max |-> p.newest, tied |-> FALSE, page |-> 1, newer |-> 0]
  ELSE IF p.cursor.tied THEN [p.cursor EXCEPT !.page = p.page]
  ELSE IF p.oldest + 1 < p.cursor.before THEN [p.cursor EXCEPT !.before = p.oldest + 1, !.page = 1]
  ELSE [p.cursor EXCEPT !.tied = TRUE, !.page = p.page]

-----------------------------------------------------------------------------
(* poll_once: what was read is sent if it is news, and the state moves on.     *)

Remembered(m, item) == Later(m.threads[item[1]], item[2])
News(m, item) == cutoff # 0 /\ item[2] > m.threads[item[1]] /\ item[2] >= cutoff
Taken(m, item) ==
  [threads |-> [m.threads EXCEPT ![item[1]] = Remembered(m, item)],
   sent |-> m.sent \cup (IF News(m, item) THEN {item} ELSE {}),
   again |-> m.again \/ (News(m, item) /\ item \in m.sent)]

Finish(p, cursor, mark, modified) ==
  LET upTo[n \in 0..Len(p.got)] ==
        IF n = 0 THEN [threads |-> threads, sent |-> reported, again |-> again] ELSE Taken(upTo[n - 1], p.got[n])
      m == upTo[Len(p.got)]
  IN /\ threads' = m.threads /\ reported' = m.sent /\ again' = m.again
     /\ cutoff' = First(cutoff, p.date)
     /\ watermark' = mark /\ catchUp' = cursor
     /\ lastModified' = IF cursor # NoCursor THEN 0 ELSE modified
     /\ poll' = NoPoll

Fetch ==
  /\ poll # NoPoll /\ ~NotModified
  /\ LET list == Listed(Lower, Before)
         p == Read(list)
         modified == IF Catching THEN 0 ELSE NewestOf(0, Listed(0, 0))
     IN IF AtEnd(list)
        THEN Finish(p, CursorAtEnd(p), IF p.cursor.tied THEN watermark ELSE Later(watermark, p.newest), modified)
        ELSE IF p.index = MaxPages THEN Finish(p, CursorAtCap(p), watermark, 0)
        ELSE poll' = p /\ UNCHANGED <<monitor, reported, again>>
  /\ UNCHANGED <<clock, updated, shown, updates, failures>>

Fail ==
  /\ poll # NoPoll /\ failures < MaxFailures
  /\ failures' = failures + 1 /\ poll' = NoPoll
  /\ UNCHANGED <<clock, updated, shown, monitor, reported, again, updates>>

PagesNext ==
  \/ Tick \/ \E t \in Threads : Update(t) \/ Show(t)
  \/ Start \/ Fetch \/ Unmodified \/ Fail

(* The source polls for ever (some step of a poll is always enabled, so this   *)
(* is weak fairness of them), and what is updated shows.                       *)
Polls == poll' # poll
Shows == \E t \in Threads : Show(t)
PagesFairness == []<><<Polls>>_pageVars /\ SF_pageVars(Shows)

PagesSpec == PagesInit /\ [][PagesNext]_pageVars /\ PagesFairness

-----------------------------------------------------------------------------
(* Properties.                                                                 *)

PagesTypeOK ==
  /\ clock \in Times /\ {cutoff, watermark, lastModified} \subseteq Times
  /\ {updated, shown, threads} \subseteq [Threads -> Times]
  /\ {updates, failures} \subseteq Nat
  /\ catchUp = NoCursor \/ (catchUp.before \in 1..MaxTime + 1 /\ catchUp.page \in Nat \ {0})

(* What lies so far behind the watermark that no request will ask for it again *)
(* has been seen; what has not been is in front of it or held by the cursor.   *)
WatermarkCovers ==
  ~Catching => \A t \in Threads : /\ cutoff # 0 /\ cutoff <= shown[t]
                                  /\ shown[t] <= watermark - Reconcile
                                  => threads[t] >= shown[t]

(* No update is reported twice, whichever pages and polls it shows up in.      *)
ReportedOnce == ~again

PagesInv == PagesTypeOK /\ WatermarkCovers /\ ReportedOnce

(* Every update after the start is seen, and then sent, once the list comes to *)
(* rest.  While a second that alone filled a poll is pinned, what is older     *)
(* waits, and so does what is not newer than a crowded second above it.        *)
Owed(t) == cutoff # 0 /\ cutoff <= updated[t] /\ threads[t] < updated[t]
Crowded(u) == Cardinality({t \in Threads : shown[t] = u}) > (MaxPages - 1) * PerPage
Starved(t) ==
  /\ catchUp.tied
  /\ \/ updated[t] < catchUp.before - 1
     \/ \E u \in Times : u >= catchUp.before /\ u >= updated[t] /\ Crowded(u)
AllReported == \A t \in Threads : Owed(t) => Starved(t)
EveryUpdateReported == <>[]AllReported

=============================================================================
