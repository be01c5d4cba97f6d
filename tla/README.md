# clawhip: a verification development

clawhip is a daemon that turns what happens around coding sessions (git, GitHub,
tmux, agent sessions, schedules) into events, and delivers them to Discord, Slack,
HTTP endpoints and files.  Most of its code is about the parts this development is
about: outboxes, journals, ledgers, batches, timers and retries.  The modules here
state what those parts promise and check it; all paths below are relative to the
repository (`src/` is its Rust crate).

## 1. The system

    sources ── events ──> bounded channel (256) ──> dispatcher ──> router ──> sinks
      git, github (CI, PRs,                          one task        routes     discord (breaker,
      issues, notifications,                         ledger          render       bucket, dlq)
      status), tmux, cron,                           CI batcher                 slack, http,
      workspace, subscription,                       routine batcher            localfile
      GJC lane reconciler                            timer wheel
      HTTP API (events, reconcile, lanes)

The runtime is tokio's multi-thread one: every source, every HTTP handler and the
dispatcher are tasks that interleave at each `await`.  They share the event channel,
the lane store behind one mutex, and two process-wide maps of the dispatcher
(acceptance senders and delivery journals).  Files are the only state that survives
the daemon: the lane store, the event ledger, the GitHub baseline, the cron state, the
tmux registry, the command receipts, the state and the intents of the Discord watch.

### Inventory

| component | state | operations | hard behaviour | what makes it correct |
|---|---|---|---|---|
| Pending-alert pipeline (`gjc_lane.rs`, `dispatch.rs`) | lane records in memory and on disk, journals, acceptance map, channel | stage, replay pass (reserve, authority, send, await, acknowledge), claim and record per destination | two passes, timeouts, crashes, failed writes, ledger suppression | an alert is retired only when every destination has it; none has it twice |
| Timer wheel (`core/timer_wheel.rs`) | four rings of slots | schedule, tick | wraps, a clock that jumps | a tick returns what is due and nothing else |
| Routine batcher (`dispatch.rs`) | batches per key, versions, wheel | observe, flush due, stop | entries of old versions, jumps | windows honoured, nothing lost or reordered |
| CI batcher (`dispatch.rs`) | one batch per run | observe, flush | reruns, early completion, stale entries | no job forgotten, the verdict right |
| Routine chunks (`dispatch.rs`) | none | split | limits at the boundary | everything carried, nothing too long |
| Event ledger (`ledger.rs`) | segments, shards, records and keys in memory | append, compact, prune, load | torn lines, caps, crashes in a compaction | an accepted event is not accepted again; summarised before it is removed |
| GitHub CI outbox (`source/github.rs`) | baseline file, pending, acked, dead letters, epochs | poll, commit/merge, drain, send, acknowledge | crashes, failed writes, the writer fence | no finished run lost, sends bounded |
| Discord delivery (`discord.rs`, `core/`) | breaker and bucket per target | send with up to three attempts | retries against the breaker, sleeps | an open circuit spares the target; the rate is bounded |
| Cron (`cron.rs`) | last minute, fingerprints, leases, on disk | pass over the minutes due | crash before the write, torn file, clock set back | no minute skipped, repeats bounded, only repeats withheld |
| GJC lane records and reconciler (`gjc_lane.rs`, `daemon.rs`) | one durable record per session, with a revision | register, claim, retire, reconciliation pass, reads that stage failures, tombstones and reclaim | compare and swap between two passes and the handlers, generations, a queue that fills, a session that goes and comes back | what the record notes it has alerted; evidence is not older than what it is about; what is over stays over; ghosts go |
| GJC event bridge (`gjc_sdk_events.rs`, `daemon.rs`) | a track per session in memory, the watermark in the lane record | reduce a snapshot, stage a failure, tell the ledger, commit | snapshots late, twice and out of order; full reads against pushes and the reconciler; a crash forgets the tracks | what a track has noted has been told; the start, the end of each turn, and each gate, prompt and retry is told once, and once more at most per crash or refusal |
| GitHub notifications (`source/github_notifications.rs`) | watermark, cursor, ids seen | poll page by page, catch up over polls | a list that changes under the pages, updates shown late, crowded seconds, failed polls | nothing behind the watermark is unseen; nothing is reported twice; everything is in the end |
| GitHub comment feeds (`source/github.rs`) | cursor, queue of comments without metadata, ids emitted | poll, look up, queue, emit | backlogs, edits, caps, ids that are forgotten, the rate limit | none taken for new twice while its id ought to be remembered, none behind the cursor lost, all sent in the end |
| tmux registry (`source/tmux.rs`, `daemon.rs`) | registrations and lanes in memory and on disk, generations | register, advance a lane, synchronise with the configuration, prune, restart | readers without the lock, three pruners, callers that hang up between the save and the publication, a session that goes and comes back between two looks | what was answered survives a crash and the requests that are dropped, a lane in flight gives way to nobody, only what was absent is pruned, absent watches go |
| GJC control receipts (`gjc/control.rs`) | receipts in memory, one file per worktree | reserve, exchange, acknowledge, finish, evict, load | requests that end at any await, crashes, failed writes, several worktrees | a command does not go out twice, outcomes stay |
| Subscription (`source/subscription.rs`, `daemon.rs`) | registry entry, worker, status | start, stop, reconnect, give up | a stop that waits without the lock, callers that hang up | one worker; the status is true; silence after a stop |
| Discord watch (`discord_watch.rs`) | counts and cooldowns in a file, a file of intents | receive a message, answer | messages again and out of order, a crash between two writes | a message counts once, nudges keep their distance |
| terminal-run window, issues and pull requests (`source/github.rs`) | snapshots per repository | poll | incomplete windows, caps | not modelled; what it hands to the outbox is any event |
| tmux panes and keyword windows (`source/tmux.rs`, `keyword_window.rs`, `tmux_wrapper.rs`) | per watcher, the last screen of each pane and a window of hits, in memory | look, compare, collect, tell, take over | the daemon and a wrapper over the same panes, calls that fail, panes that die, sessions that start again | a line is told once, nothing new is passed over, stale reports keep their distance |
| git, workspace, status sources | the last thing seen, in memory | poll and compare | one owner each, nothing persisted | not modelled |
| router, lane sender, prompt hook, native hooks, HTTP plumbing | mostly none | choose, send once, acknowledge | - | not modelled |
| configuration, rendering, telemetry, wrappers of external programs | none | conversions | - | not modelled |

`PROJECT.json` lists all of them with their files, and under `hazards` what is hard
to test in each at its line.

## 2. The modules

Every module's header says what it abstracts.  Definitions keep the code's names
where the language allows; `PROJECT.json` maps each to its lines.

- **AlertOutbox** is what the pipeline promises: an alert with destinations, each
  claimed before and settled after its delivery.  **AlertPipeline** is the code: the
  store with its failing writes, `replay_pending_alerts` step by step for any number
  of passes, the channel, the registries and `Dispatcher::run` down to the sink's
  answer.  `ImplementsOutbox` is the refinement.  **AlertPipelineProofs** proves about it,
  the refinement included.
- **GjcLane** is the lane record around that pipeline, for one session: the pass of
  `poll_once` from enrolment to the pull request binding, the handlers that write to the
  record meanwhile, and the session with its turns, its gate and its endpoint.  What the
  pipeline does with an alert is one step here (`Acknowledged`); the passes of AlertPipeline
  and these are the same passes at two levels of detail.  **GjcLaneProofs** proves about it.
- **DelayQueue** is a set of entries that fire when due; **TimerWheel** is the wheel,
  parameterised by the levels' units and slots, with `ImplementsDelayQueue` as
  refinement.
- **RoutineBatcher** and **CiBatcher** use the wheel through what it promises: a set of
  entries, of which a flush gets the due ones.  **RoutineChunks** is the splitting of a batch
  into messages, item by item.  **BatchesProofs** proves about the wheel and the three.
- **EventLedger** is append, compaction step by step, pruning and load over segments,
  shards and memory.  **LedgerProofs** proves about it, and about the bridge.
- **CiOutbox** is the poll of one repository with the baseline on disk and in memory:
  `commit_ci_baseline` with its merge, epochs and fence, and the drain with its attempts.
  **CiOutboxProofs** proves about it.
- **DiscordDelivery** is `DiscordClient::send` with breaker and bucket, in relative time.
  **CronScheduler** is the cron source with its state file.  **SendsProofs** proves about the
  two.
- **EventBridge** takes one snapshot of a session at a time: reduced on a copy, a failure
  staged, events queued for the ledger, the watermark raised, the copy committed.  The
  session moves by itself, and the reconciler raises the watermark behind the bridge.
- **NotificationPages** and **ActivityFeed** are polls that read a list page by page while
  it grows: what the poll asks for, what it remembers, and where the next one goes on.
- **TmuxRegistry** is the registry from the point of view of one session: every change
  copies, saves and publishes under one lock, and readers and pruners look without it.  The
  handlers await a change within the request they answer (daemon.rs 2551-2966), so that a
  caller that hangs up drops it at any await: after the save the lock is free again, the file has the
  change and memory has not (`HangUp`), and the next save, of this session or another (`NoSave`),
  writes memory's entry over it.  `holder` tells such changes from those of the poll, which is
  a task and is not dropped.  The poll probes what the registry has and, by its name, a configured
  session the registry does not have (`Monitored`).
- **TmuxPanes** is what is read from a session's panes and by whom: the daemon's poll and the
  monitor in a wrapper's process take the same steps (is the session there, are hits due, what
  do the panes show), each against its own last screens; a session may end between any two.
  **TmuxRegistryProofs** proves about both.
- **CommandReceipts** follows a mutation from its key to its outcome.  **Subscription** is the
  worker with the requests that start and stop it.  **DiscordWatch** is the counting of
  messages and the two files it writes.  **RequestsProofs** proves about the three.

The `MC*` modules give constants to TLC and put components side by side that share a
question and nothing else; a variable `part` says which one a behaviour explores.
**MCGjc** has the pending alerts and the lane record (an alert is accepted in many steps in
one and in one step in the other), **MCBatches** the dispatcher's use of time (these, MCSends,
MCRequests, MCLedger and MCTmux EXTEND what is proved about, so that a run and a theorem speak of one
definition), **MCLedger**
the ledger and the bridge (which uses of the ledger that an identity is accepted once),
**MCSends** what is sent again, **MCFeeds** the paged lists, **MCTmux** the registry and
the panes, **MCRequests** what clients ask for again or in parallel.

How the modules compose: GjcLane takes of AlertPipeline that an alert that is handed over
is settled or stays; AlertPipeline is shown to implement AlertOutbox, which is that promise
(proved for one pass at a time that meets neither time-outs nor failed writes).
The batchers take of the wheel what DelayQueue says, which TimerWheel is proved to implement.
EventBridge takes of EventLedger that an identity is accepted once (`LedgerInv`).  TmuxPanes takes of
TmuxRegistry whom a session is registered for, and stands for a session that is configured.

### What is abstracted

Text, wording, JSON and logging are not in the models; an alert, a run, a destination
or a fingerprint is a model value.  Times are ticks, scaled so that every limit is met
within a few of them.  A file is written by a temporary file and a rename (one step
that may fail before or after it), except the ledger's append and the cron state,
which are written in place and may tear.  A crash keeps the disk and clears memory,
channel and registries.

## 3. The runs

A run that passes is exhaustive for its constants.  The bounds are chosen so that each
limit of the code (queue, attempts, window, ring, ids remembered) is reached and passed, with
at least two of whatever interferes; the exceptions are named below.  Each property's mutant
in `PROJECT.json` shows that the bounds are enough for a plausible bug in the code to be seen.

| run | what it asks | bounds and why they are enough |
|---|---|---|
| gjc | who owns an acceptance, at most once under a journal, final outcomes; of the lane: what the record notes, tombstones, evidence | two passes on one alert with one destination, room for two in the channel, all seven faults without limit: every interleaving of two registrations, time-outs, crashes and failed writes. Two passes over one record (alike: symmetry), two turns and a gate over three revisions, an endpoint that is replaced once, one incident, a request of any kind or a fault of any of five kinds, at any step |
| gjc_settles | at most once by any path, retired only when served, order, the outbox refinement, settlement; ended lanes go | one pass, three alerts of which two may be pending, a route of one destination and routes of two (one may fail while the other is served), crashes and refusals at any step. One pass, one turn, a session that may go, come back, or fall silent for good; two incidents |
| batches | the wheel's placement and the delay queue; windows and conservation of routine batches; the messages a batch is cut into; jobs and windows of CI batches | three levels of two slots, so that every ring wraps; two keys, four deliveries, jumps past a window; all batches of up to four items whose lengths reach from nothing to two over a limit of four; one run, two jobs, four events, a clock set back |
| ledger | once within the retention; summarised before removed; what the bridge tells and how often | three events (alike: symmetry), two of them in one compaction and one shard, five days, one fault at any step. Two turns and a gate over three revisions with two snapshots under way and a crash; prompts, retries, outages and a change of model over four revisions with a refused intake |
| sends | bounded sends and final acknowledgements; nothing lost, everything sent; breaker, bucket and recovery; the scheduler's record, its repeats and its catching up | the outbox while one run moves, with four faults of six kinds, and while two do, with one fault; two targets in turn with two attempts and a threshold of two; three minutes, two jobs, a receipt that changes, one fault of four kinds |
| feeds | threads: watermark, no repeats, everything reported; comments: no repeats, nothing lost, everything sent | three threads over two pages of a list that changes while it is read and shows an update late; five threads over three pages of a list at rest, with a failed poll, so that a catch-up takes several polls; four comments on two pull requests, one of them edited, one back-off; and three of which one is on an issue; pages of one comment, two pages a poll, queue of one, two attempts, and two ids remembered: as many as a poll reads, as the code's 1000 are ten pages of a hundred |
| tmux | memory against file, why entries go, absent watches; what is told of the panes | one session, one lane id, one client and all three pruners, a configured and a registered watch, two generations, one crash at any step, and one save or probe that fails or one caller that hangs up after its save (hanging up before it is free). Captures of two lines of which up to three are printed, one trouble: a pane that the daemon and a wrapper share, and two panes of the daemon's; a pane over five minutes of which two make it stale, two troubles |
| requests | commands, subscription, watch | three keys and two requests at a time over a registry of two, four requests and two faults; the same over two worktrees with three requests and one fault; two workers, two attempts and two stops at a time; four messages over a memory of two, one fault |

Some settings narrow what a run shows, because beyond them the properties do not hold of
the code (see the disagreements below).  The alerts of *gjc_settles* meet neither time-outs
nor failed writes, the outbox in *sends*, while two runs move, no write that leaves the old file.
With them a run may be lost, which the clause `unsaved` of `ReportsKept` excepts (11).
The ledger reaches its start-up cap on records nowhere, so that the clause `capped` of its
properties excepts nothing.  The list of comments holds still
while a poll reads it (`Changing <- FALSE`), and no title lookup aborts a poll (`MaxAborts <- 0`).
`CommandsInv` asks for
outcomes that stay while one worktree only has receipts in its file, and of a subscription
`overlap` sets aside what follows a start that overtakes a stop.
In *gjc* a session may end with a disposition (`Ends = {"complete"}`), which the record and the
pass provide for and the control plane of this version never reports.

What `SentOnce` asks of the ids a comment feed remembers: with two ids and four comments the
list forgets, so that a comment may be edited when its id is gone and while it still waits for its
metadata.  A comment that waits is never taken for new again (that is what
`refresh_delivered_comment_id` keeps its id for), and one that was sent only when as many others
as the list has room for were remembered after it (16).  `after` keeps the account.

How GjcLane stands for the compare and swap: `fresh` says that the record a pass holds is
the stored one.  Everybody's write clears it for the others, and a write without it
fails.  A query and the write of its answer are one step, because a change in between
makes the write fail just as a change before it does.  A read of the session is two
steps, since it compares nothing but the watermark when it ends.

Deadlock is checked except where the environment may stop for good (a bound of
events, days or minutes is reached): the cfg then says `CHECK_DEADLOCK FALSE`.

### Fairness

- *gjc_settles*, alerts: weak fairness of each pass and of the dispatcher (tokio tasks that
  are ready run), strong fairness of the sink that accepts (a destination that is tried
  again and again accepts at some time).  Crashes and refusals may strike any number of
  times; `EveryAlertSettles` says what follows once they end (`Calm`).
- *gjc_settles*, lane: weak fairness of each step of a pass (the loop starts one every interval
  and awaits with a timeout), strong fairness of the question to the session, which the
  waits after a failure put off but, being bounded, not for ever.  The session is free to
  do nothing; refusals are incidents, and bounded.
- *sends*: of the outbox, weak fairness of the source's steps and of the hour, with bounded
  faults; of Discord, the clock alone, for whether POSTs are answered is not assumed; of the
  scheduler, weak fairness of the task, of the restart and of the clock, and strong fairness of
  the beginning of a pass, as the interval's first tick fires at once after every start.
- *feeds*: the sources poll for ever (some step of a poll is always enabled, the loops sleep and
  go round), and what was updated shows in the list in the end (strong, as GitHub's delay is
  an unknown but bounded time).  Nothing is assumed of lookups: a comment is sent after its
  last attempt with or without metadata.
- *tmux*: the poll runs at its interval and goes on after each await, a change that holds the
  lock is published or dropped with its request, the daemon is started again after a crash.
  Nothing is assumed of clients, of the session, of a probe that fails, or of the other two
  pruners.  A save that fails in the poll ends its source until the daemon is started again, and
  the property excepts that case.

### Disagreements between the code and what the repository says of it

Four are runs that TLC ends with a counterexample; `findings` quotes the lines.

1. *alert_timeout*: the acceptance timeout clears the journal of an event still in the
   channel; it is then delivered without claims and delivered again.
2. *outbox_fence*: dropping an expired acknowledgement fences the source's own next write.

3. *pages_shift*: a catch-up reads by page numbers; a thread updated between two pages moves
   those behind it across a boundary, and the watermark passes one nobody has read.
4. *tmux_inventory*: the HTTP listing asks tmux first and reads the registry afterwards; a
   session registered in between is pruned though it never was away.

The next can be seen by changing a configuration or a setting of an MC module as told.

5. `AtMostOnce` with `Passes = {loop, http}`: the reconciler and an HTTP reconcile share
   a journal entry, and the one that cancels takes it from the other (gjc_lane.rs 3477).
6. `RetiredMeansDelivered`, without its clause for a claim in doubt, with
   `Faults = {"persist"}`: a claim whose write failed stays in memory, the next attempt
   takes it for another's, and the alert is retired undelivered (gjc_lane.rs 2210).
7. `RetiredMeansDelivered` with two passes and failing sinks: between the cancel and the
   clean-up of a refused pass another pass enters and loses its journal; the ledger's
   `Duplicate` then counts as acceptance (dispatch.rs 203-214).
8. `EarlyMeansComplete` of CiBatcher: entries left by an early summary cut the next
   batch's window short (dispatch.rs 1064).
9. `AcceptedOnce` of EventLedger with `Torn = TRUE`: a torn line makes the load after a
   compaction fail with memory already cleared; duplicates are accepted (ledger.rs 401).
10. `SummarisedFirst` without its clause `~capped`, with `MaxRecords = 1` and two faults: a segment is rewritten from a
   memory that the start-up cap has thinned (ledger.rs 497).
11. `NothingLost` of CiOutbox with `"unsaved"` among the faults: a failed first write
   makes the next poll take news for history (source/github.rs 2411).
12. `RetriedUntilSent` with three crashes: three deaths between count and send strand an
    event (source/github.rs 1664).
13. `OncePerMinute` of CronScheduler: a clock set back makes jobs fire again (cron.rs 251).
14. `GhostsGo` without `Undecided`: the alert of a failed turn can only be decided by the
    session; when that is gone, or has completed a later turn, the alert waits for ever and
    keeps its lane's watch ("definitive session-not-found removes immediately",
    gjc_lane.rs 2741; the pass gives up at 3418 and 3457).
15. `TombstonesDrained` without `late`: a read under way while the watch is removed stages
    its failure on the tombstone ("never tombstone a watch while an alert is still waiting",
    gjc_lane.rs 3131; daemon.rs 1358).  Of three passes at once (the loop and two HTTP
    reconciles) one can do the same without a read: each has handed over the same alert of an
    ended session, the first removes the watch, the session comes back under a new endpoint,
    the second notes that, and the third, which reads the record again after its own
    acknowledgement (3482) and does not ask whether the watch is still there, stages an
    endpoint alert on the tombstone.  Two passes cannot, and `late` sets both cases aside.
16. `SentOnce` of ActivityFeed with `MaxAborts = 1`: a lookup of an issue's title that fails
    ends the poll with an error after comments were sent and before they are remembered;
    they are sent again (source/github.rs 9121 is the test of the abort).  With `Changing`
    an edit between two pages shifts the rest and a comment is passed for good.  `SentOnce`
    without the ids that came after (`twice` taken of every comment sent again): an edited
    comment of a backlog larger than the remembered ids is sent again, and so, without any edit
    and though every poll reads to the end, is one of a latest second that nearly fills the list,
    when an older comment that leaves the queue takes its place there (`since` is the
    cursor less a second, so that the latest second is always listed again).
17. `OnlyForward` of CommandReceipts without `OnlyWritten`: with two worktrees, after a restart the stale copy of a
    receipt in another worktree's file may be loaded first, and an outcome a client was told
    goes back ("forward-only status progression", gjc/control.rs 885).  Each worktree's file
    holds the whole registry, so two worktrees also lock each other out ("receipt journal
    conflicts with live state") without any fault.
18. `StatusTrue` and `QuietAfterStop` of Subscription without `~overlap`: a start that comes
    while a stop waits leaves the worker running under "stopped" and not desired (daemon.rs
    1131); a second stop is answered "already stopped" while the first one's worker may still
    send.
19. `Spaced` of DiscordWatch, asked of all intents and not only of those the state has noted: an
    intent is kept once per message and reasons, so "replaying after a state-save failure must
    not duplicate the persisted intent" (discord_watch.rs 1005) is true only while the reasons
    are the same.  A message that comes again starts the cooldown anew without a new intent.

More were met in reading, and are part of the models as they are.

*Lane.*  A read raises the
record's watermark (gjc_lane.rs 1332), so that the pass skips the revision it has seen and
a stall of that revision is never recorded.  An answer that brings no newer revision does
not reset the count of misses or `endpoint_alerted` (2972), so failures that suspend a lane
need not be consecutive.  A reclaimed lane counts its endpoint episodes from nothing again
(2330), so the ledger may take a new failure for an old one.  A lane whose queue is full
makes the whole pass return (3190), and the lanes behind it wait.

*Bridge.*  A session that changes to the same model twice within a turn tells it once: the
identity of the event lacks the revision (gjc_sdk_events.rs 986), and the ledger takes the
second for the first (docs/gjc-sdk-event-bridge.md 65 and 110 promise each change).  After a
crash the finish of a turn whose gate has changed gets another identity and is told twice.
When the reconciler has raised the watermark first, a full read skips its reduction, or the
commit fails after the events were told.  A staged failure raises the mark before the other
events of its snapshot are queued, so that they are lost if a later step fails.

*Notifications.*  A second with more threads than a poll has pages starves what is older
(`Starved` names it).  *Comments.*  A first fetch that fails leaves an empty list of known
pull requests, and the next poll takes history for news.

*tmux.*  After a restart that loads generation 1 the next registration gets 1 again, so a pruner
that looked at the first may remove the second (source/tmux.rs 31-42).  A lane registration that is retried always conflicts, because its
generation is minted before the two are compared (1463).  The evidence of a delivery may set a
workflow to retired without the retirement request (1899).  A request that is dropped after its
save (1271, 1519) leaves in the file what it was never answered: the next save of any entry
takes that back, and a restart before it brings it in.  What was answered is not touched
(`RegistryInv`, `KeepsLane`): a lane in the file is at most one revision on from memory's.
What the configuration takes over is not saved, so the file keeps the command line's entry.  A poll whose save fails returns the
error through `TmuxSource::run`, and `spawn_source` starts no source again (daemon.rs 748): no pane is
read and no watch pruned by it until the daemon restarts.

*Panes.*  A look whose call of tmux fails forgets the session's panes (source/tmux.rs 2304), so
what is printed until the next one is history.  One dead pane that tmux keeps empties the window
of the whole session at every look.  Hits that wait when a wrapper takes the session over, or
when it ends, are dropped and not flushed.  A wrapper that is stopped leaves its registration
behind, and the daemon does not watch the session until it is gone once.  After a session has
ended and begun between two looks of its wrapper, both may watch it and tell a line twice
(`both` sets that aside).

*Receipts.*  At capacity an evicted receipt of another worktree, still in this one's file, makes
every load exceed the capacity; a final write that fails after its rename locks the worktree
out until a restart; an accepted command whose outcome is unknown is never evicted, so the
capacity may be used up for good.  *Subscription.*  A caller that hangs up early leaves the
subscription desired; attempts are reset only by an event, so that a healthy connection
without matching frames gives up in the end.

## 4. The proofs

TLAPS proves the theorems for every value of the constants that satisfies the modules'
named assumptions.

- **AlertPipelineProofs**: `TypeCorrectness`; `AcceptanceAlwaysOwned` (`PipelineInv` is
  inductive together with the types: an id of the acceptance map is never given twice, and
  who removes an entry is its owner or answers it); and `AtMostOnceUnderJournal`.  A destination
  is served only by the dispatcher, in a step whose guard is the durable claim it made
  just before.  The inductive invariant (`ServiceInv`) says that a destination served
  under a journal is on record as claimed or delivered in memory and on disk, so that
  neither a later pass nor a restart finds it free, and that the dispatcher calls a sink
  under a journal only while its claim is in both and nothing has been served.
  `DeliveredForGood`: what the disk says was delivered stays so, by any action and any fault.
  Those hold for any number of passes and with every fault.

  The rest is proved for one pass at a time and without late verdicts (`Alone`), because with two passes
  or a time-out the code breaks it (disagreements 1, 5 and 7): `AtMostOnceAlone`,
  `RetiredInOrderAlone`, and `PipelineIsOutbox`, the refinement, which also asks that no
  write of the store fails (6).  One inductive invariant (`AloneInv`) carries the three: the alert at
  work is the head of the queue (`AtHead`), one event at most is in the channel or with the dispatcher, and
  it is that alert's (`OneEvent`), it has a journal as long as it is there (`Journaled`),
  what memory and disk say of a delivery is true of the sinks (`StoresSound`), the
  dispatcher has settled each destination it has gone past (`Passed`), and a pass is told
  that an alert was accepted only when no destination is left (`Told`).  The refinement then maps each
  step, by cases over `Next`, to a step of AlertOutbox or a stutter.
- **GjcLaneProofs**: `NotedIsStaged` (`LaneInv`), `EvidenceAlwaysSound` and `OverStaysOver`, for any number of
  passes, bounds and faults.  The invariant is stated of a record (`Good`: what it notes is staged
  or settled, its gate is not ahead of the session's, its evidence is what was taken), so that one
  lemma per writer of the record (an observation, a staged failure, an acknowledgement, a
  registration) serves every step that uses it, and a pass whose compare and swap fails writes nothing.
- **BatchesProofs**: of the wheel, `EntriesPlaced` (an entry's slot is its due time's) and from it
  `WheelIsDelayQueue`: a tick empties exactly the slots of the times it passes.  Of routine batches, batches, versions and timers agree
  (`BatcherInvAlways`), no batch is sent before its window (`WindowAlwaysHonoured`), and what was
  deferred is what was sent, dropped and is waiting, in order (`DeliveriesConserved`).  Of
  the messages a batch is cut into, `ChunksAlwaysSound`: every item is carried whole and in order, none
  is too long, none empty.  What a message carries is told from running totals of the lengths
  (`totals`), so that the invariant (`Sound`, of the closed messages and the open one) needs
  no sum over a sequence.  Of CI batches, `CiAlwaysSound`: no job forgotten and none held back past
  its window, by `Scheduled`: for an open batch the wheel has an entry no later than its
  deadline.
- **SendsProofs**.  Of Discord, `CircuitSparesTarget`: the inductive
  invariant ties the breaker's count to the failures in a row while the circuit is closed,
  says a cooldown runs only while it is open, and that a call that meets a cooldown of its
  own target has begun it, so that fewer POSTs follow than it has attempts.
  `PostsBounded`: over any span of time the POSTs to a target are bounded by the bucket.  The
  strengthening (`Paced`) says that every POST of a span has been paid for, by what the bucket held
  or gained, by the ticks a caller has slept, or before the span began.
  Of the scheduler, `CronAlwaysTrue` (`CronInv`), over crashes, lost and torn writes and a clock that
  goes back.  What the file says of the last minute is true because what memory says is, and
  what a pass has behind it (`RecordTrue`); a minute is repeated once per fault at most
  because one that may come again without another fault, whether the clock has yet to reach it, the
  pass has it ahead, or nothing on record has it behind, was emitted no oftener than there
  were faults (`RefiresCounted`); a lease is of something that was emitted (`LeasesSaid`).
- **RequestsProofs**.  Of commands, `CommandsSound`, for any number of worktrees.  `ReceiptsInv` is
  not inductive: a request reserves a key that memory does not have, and a restart empties
  memory.  The strengthening (`Seen`) says that from the time it has copied its worktree's
  file a request knows every command of that worktree that went out, from memory or from
  the copy, and that what is about to be sent has not been (`Owned`).  That memory is the file
  (`MemoryKept`) rests on the copies requests have yet to merge: one that was overtaken knows no
  more than memory, or something evicted, and then memory is full and refuses it.  That an
  outcome stays (`Kept`) says where a request finds it: in memory, or in its copy.
  Of subscriptions, `SubscriptionSound`.  A status is true as long as one worker writes it;
  the strengthening (`NoOverlap`) says that until a start has overtaken a stop there is one
  live worker at most, the registry's or the one a stop waits for, and none after a stop was
  answered; `CancelSound` that a worker that was told to stop is not the registry's.
  Of the watch, `WatchAlwaysSound` (`WatchInv`): a message counts once towards the backlog of
  a channel, because what counts is still among the remembered ids (`Books`), and intents
  keep the cooldowns apart, because the state file knows of a nudge no earlier than the
  intent it was noted with (`Barred`).
- **TmuxRegistryProofs**: `AnswersAlwaysSaved` (`RegistryInv`: what a request was answered is in the
  file) and `EntriesGoForCause` (`GoneForCause`: nothing removes, replaces or sets back a lane in flight
  that was answered), for any clients and bounds, over crashes, failed saves and callers that
  hang up at any await.  A file that equals memory is not invariant, because a dropped
  request leaves it ahead.  What is invariant is that it is ahead by one revision of the lane at
  most (`Continues`): whoever changes a lane starts from memory's, so neither the next save,
  which takes the unanswered revision back, nor a restart, which brings it in, moves what was
  answered.  And a generation above the first is minted once, so that what a pruner's probe said
  of a session is said of the entry it removes.
  Of the panes, `PanesAlwaysSound` (`PanesInv`), for any number of panes, texts and captured lines, and
  however the panes, the session and the two watchers come and go.  That what is found is new rests
  on a lemma about the comparison of screens: the end of the old screen that is still shown is an
  overlap, so the longest one leaves no line of before (`HitsAreNew`), and a line that is not in the
  old screen is below every overlap (`CameIsHit`).  The screen a watcher remembers is what the pane
  showed at the mark, unless the session has started anew (`Marked`).  That a line is told once is
  not inductive: who may still tell it matters.  The invariant (`Paid`) adds to what was told of a
  text what may still be told of it, once for a window that has it and once for panes that show it
  anew, and says that all was printed.  Only one watcher has such shares: the wrapper from the time it is registered,
  and of the daemon then only the window of a look that had begun before (`Early`); while no
  wrapper is registered none runs (`Unwrapped`), until `both` says so.  A report of a stale pane is
  no later than the time its watcher remembers of the pane (`Timed`).

- **LedgerProofs**, while appends do not tear (9), for any events, limits and retentions, and crashes
  and failed writes at any step: `LedgerAlwaysSound` (`LedgerInv`) and `SummarisedBefore`
  (`SummarisedFirst`).  That what is owed is on disk is not inductive, because a segment is rewritten
  from memory and memory is rebuilt from the disk.  The invariant (`OwedIsKept`) says where an
  owed key is: in a shard written since it was accepted, which is therefore not pruned, or in its
  segment, and then in the running daemon's memory as well; and of a pass, that before it
  rewrites a segment its whole selection is in shards of today (`JobSound`).  Once a start has cut
  memory at the cap (`capped`) neither holds of the code (10).
  Of the bridge, `BridgeAlwaysSound` (`BridgeInv`), for any number of turns, crashes and refused
  intakes, and snapshots that come late, twice, in any order or not at all.  It assumes of the session what
  the reducer does: a revision for every change, and turns, prompts and gates that are not reused.
  That what the reducer holds for told was told, and each episode once but for the faults, is
  not inductive: an old snapshot could bring back an earlier turn, whose end the reducer no longer
  remembers, and an intake could tell what it has told already.  The invariant says that
  snapshots at or above a track's revision are of no earlier turn or prompt (`Follows`); what
  an intake under way will leave, event by event, if it is committed (`IntakeSound`); and who
  pays for the copies of an episode (`Paid`): a crash or a refusal for each but one, and for
  that one the track, which notes it, or the intake that is telling it.  The lemma it rests
  on is about the reducer alone (`EventsAreNew`, `NotedStays`, `ReportedStays`): an event is of an
  episode the track had not noted and now has, what is noted stays noted, and what the new
  track holds for told was told before or is among the events.
- **CiOutboxProofs**, for any runs, attempts, backoff and faults.  The lemmas say what each operation on
  the baseline (merge, compaction, normalisation, count, burial, acknowledgement) does to the
  two things that matter of an event: how often it was tried and whether it is settled.
  `AckedForGood` (`AckedIsFinal`): between the count of an attempt and its send the event stays in
  the file's outbox (`Announced`), and nothing there is acknowledged (`Clean`).
  `OutboxAlwaysSound` (`OutboxInv`) assumes `MaxAge < Retention`, so that no acknowledgement is
  dropped: with the fence (2) a writer's counts are ignored, and an event whose acknowledgement is
  forgotten may be reported anew.  `OutboxInv` speaks of the file alone and is not inductive: the
  invariant (`Counting`) says that memory's copy and the file's both count the sends that were made,
  that a copy that knows nothing of an event is right that there were none, and that what is
  queued has an attempt left in both.
  `NothingIsLost` (`ReportsKept`) assumes the same, and speaks of the time until a write fails and
  leaves the old file; after that a run may be lost (11).  What leaves the outbox without being
  sent is what is settled, so the invariant (`Keeping`) says that whatever is settled, in the file or
  in memory, was sent or is a dead letter in the file, and that what is acknowledged was sent
  before.

Only model-checked: liveness (no prover here reasons about fairness), and the paging and feed
modules.  NotificationPages and ActivityFeed number a changing list by ranks and go through what a
poll has read with a recursive function; what those compute for every list needs induction over
data, which the provers cannot do.

## 5. Not modelled, and why

The modules stand for about a tenth of the crate's lines.  About half of it are tests, and
most of the rest converts data: the configuration (parsing, validation, editing), rendering,
the router's patterns, the command line, the encoding of frames and of GitHub's answers, the
wrappers around tmux, git, cargo, the service manager and GAJAE.  They keep no protocol
between steps, and a model of them would repeat their text.

Left out though it has state:

- the window of terminal runs, issues and pull requests of `source/github.rs`, a large function
  of the API's answer with caps per workflow; CiOutbox takes any event from it;
- the git, status and workspace sources: one task each, in memory, comparing texts with the last
  they saw; of tmux, programs that redraw their screen, the rules by which a match of a keyword is
  discounted, and the launch of sessions by the wrapper;
- the lane sender and the prompt hook, which are processes of their own and whose other side (a
  caller, a screen) is outside the repository;
- the migrations of the lane store, the audit trail, the second comment feed (a copy of the
  first with other names), the cap of remembered threads, torn lines of the intents;
- what is left of a file operation when the request that awaits it is dropped: tokio runs it to
  its end on a thread of its own, after the lock is free, and all saves of the tmux registry use
  one temporary name (`.json.tmp`, source/tmux.rs 1017).  The model takes it to end before the
  next save begins; where it does not, the file may get either save's content or a mixture.

Hazards outside any property: a server that accepts a POST and never answers stops the
dispatcher, as the delivery client has no timeout (discord.rs 184); a `retry_after` that is
negative or too large panics its task (discord.rs 1048); two daemons that share a baseline file
may both send the same entry, and each merges the other's count (source/github.rs 1502); the
dead letters in memory only grow.
