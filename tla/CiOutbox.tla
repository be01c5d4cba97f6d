------------------------------ MODULE CiOutbox ------------------------------
(***************************************************************************)
(* The durable outbox of the GitHub CI source (src/source/github.rs).      *)
(*                                                                         *)
(* A poll turns what changed since the last one into events.  In one write *)
(* of the baseline file it records the finished runs it has seen, so that  *)
(* no restart reports them again, and puts the events in an outbox; only   *)
(* then are they sent.  Every send is counted on disk before it is made,   *)
(* and acknowledged on disk after it; what is not acknowledged is sent     *)
(* again after a backoff, at most MaxTries times.                          *)
(*                                                                         *)
(* A write merges the file with the writer's copy.  When it drops expired  *)
(* acknowledgements it raises a floor, and ignores the outbox of a writer  *)
(* whose epoch is not above the floor.                                     *)
(***************************************************************************)
EXTENDS Integers, FiniteSets

CONSTANTS Runs,       \* workflow runs of the repository, each with one attempt
          MaxTries,   \* MAX_PENDING_SEND_ATTEMPTS
          RetryAfter,    \* PENDING_RETRY_BACKOFF_SECS
          Retention,  \* ACK_RETENTION_SECS
          MaxAge,     \* bound of every age: with MaxAge < Retention no
                      \* acknowledgement gets old enough to be dropped
          Faults,     \* the kinds of faults that happen
          MaxFaults   \* bound of the faults of a behaviour

FaultKinds == {"crash",   \* the daemon dies between two steps, and starts again
               "unsaved", \* a write of the file fails and leaves the old one
               "unsynced",\* a write fails after the new file is in place
               "partial", \* the fetched window is incomplete
               "fetch",   \* the fetch fails
               "closed"}  \* the dispatcher is gone

\* What a user of the module assumes of the constants.
OutboxConstants ==
  /\ MaxFaults \in Nat
  /\ {MaxTries, RetryAfter, Retention, MaxAge} \subseteq Nat \ {0}
  /\ RetryAfter <= MaxAge
  /\ Faults \subseteq FaultKinds

\* Times are ages, in hours: of what never happened there is none.
Ages  == 0..MaxAge
Never == -1
Aged(a) == IF a = Never \/ a = MaxAge THEN a ELSE a + 1

Kinds == {"started", "done"}
ReportKeys == Runs \X Kinds
RunStates == {"none", "running", "done"}

VARIABLES hub,      \* hub[r]: what GitHub says of a run
          disk,     \* the baseline file
          base,     \* the source's copy of it
          known,    \* the last poll's snapshot: [seen, ci, established]
          pc,       \* the source: "rest", "drain", "poll", "deliver"
          step,     \* of an event being delivered: "next", "send", "ack"
          todo,     \* the events of this pass still to be delivered
          cur,      \* the event being delivered, a set of at most one
          since,    \* the age of the time the pass works with
          open,     \* the dispatcher takes events
          faults,
          unsaved,  \* history: a write failed and left the old file
          owed,     \* history: finished runs a poll wanted to report
          sent      \* history: how often an event was sent

source  == <<base, known>>
control == <<pc, step, todo, cur, since>>
world   == <<hub, open>>
outboxFaults == <<faults, unsaved>>
outboxHistory == <<owed, sent>>
outboxVars    == <<disk, source, control, world, outboxFaults, outboxHistory>>

NotPending == [tries |-> -1, last |-> Never]
EmptyBase ==
  [terminal |-> {}, pending |-> [k \in ReportKeys |-> NotPending], acked |-> [k \in ReportKeys |-> Never],
   dead |-> {}, epoch |-> 0, floor |-> 0, established |-> FALSE]
NothingKnown == [seen |-> FALSE, ci |-> [r \in Runs |-> "none"], established |-> FALSE]

OutboxInit ==
  /\ hub = [r \in Runs |-> "none"]
  /\ disk = EmptyBase
  /\ base = EmptyBase
  /\ known = NothingKnown
  /\ pc = "rest"
  /\ step = "next"
  /\ todo = {}
  /\ cur = {}
  /\ since = 0
  /\ open = TRUE
  /\ faults = 0
  /\ unsaved = FALSE
  /\ owed = {}
  /\ sent = [k \in ReportKeys |-> 0]

Fault(kind) ==
  /\ kind \in Faults /\ faults < MaxFaults
  /\ faults' = faults + 1
  /\ unsaved' = (unsaved \/ kind = "unsaved")

----------------------------------------------------------------------------
(***************************************************************************)
(* The baseline file: merge, compaction, normalisation.                    *)
(***************************************************************************)
Larger(a, b) == IF a < b THEN b ELSE a
InOutbox(b, k) == b.pending[k] # NotPending
Settled(b, k)  == b.acked[k] # Never \/ k \in b.dead

\* What is acknowledged or dead leaves the outbox.
Normal(b) == [b EXCEPT !.pending = [k \in ReportKeys |-> IF Settled(b, k) THEN NotPending ELSE @[k]]]

Stale(dest, src) == dest.floor > 0 /\ src.epoch <= dest.floor

Later(a, b) == IF a = Never THEN b ELSE IF b = Never \/ a < b THEN a ELSE b
MergedEntry(d, s) == [tries |-> Larger(d.tries, s.tries), last |-> Later(d.last, s.last)]

Merge(dest, src) ==
  Normal(
    [terminal    |-> dest.terminal \cup src.terminal,
     pending     |-> [k \in ReportKeys |-> IF Stale(dest, src) THEN dest.pending[k]
                                     ELSE MergedEntry(dest.pending[k], src.pending[k])],
     acked       |-> [k \in ReportKeys |-> IF dest.acked[k] # Never THEN dest.acked[k]
                                     ELSE src.acked[k]],
     dead        |-> dest.dead \cup src.dead,
     epoch       |-> Larger(dest.epoch, src.epoch),
     floor       |-> Larger(dest.floor, src.floor),
     established |-> dest.established \/ src.established])

\* Expired acknowledgements go, and with them every writer that may not know.
Expired(b, k) == b.acked[k] # Never /\ b.acked[k] >= Retention
Compacted(b) ==
  [b EXCEPT !.acked = [k \in ReportKeys |-> IF Expired(b, k) THEN Never ELSE @[k]],
            !.floor = IF \E k \in ReportKeys : Expired(b, k) THEN Larger(@, b.epoch) ELSE @]

Committed(local) ==
  LET merged == Merge(disk, local)
  IN Normal(Compacted([merged EXCEPT !.epoch = @ + 1]))

\* A write of the file that is meant to leave `new` there: it succeeds, or it fails
\* before or after the new file is in place.
\* Only the order of epoch and floor counts: where file and copy become one, both
\* are numbered anew, which keeps the model finite.
Renumbered(b) ==
  IF b.floor = 0 THEN [b EXCEPT !.epoch = 1]
  ELSE [b EXCEPT !.floor = 1, !.epoch = IF b.epoch > b.floor THEN 2 ELSE 1]
Saved(new) ==
  /\ disk' = Renumbered(new)
  /\ base' = Renumbered(new)
WriteFails(new) ==
  /\ \/ Fault("unsaved") /\ UNCHANGED disk
     \/ Fault("unsynced") /\ disk' = new
  /\ UNCHANGED base

----------------------------------------------------------------------------
(***************************************************************************)
(* Delivering one event: count the attempt, send, acknowledge.             *)
(***************************************************************************)
\* Mutant: what was tried once is not tried again.
DueOnce(b, k) == InOutbox(b, k) /\ b.pending[k].last = Never

Due(b, k) ==
  /\ InOutbox(b, k)
  /\ b.pending[k].tries < MaxTries
  /\ b.pending[k].last = Never \/ b.pending[k].last >= RetryAfter

\* Mutant: the count is not kept, only the time.
CountedTimeOnly(b, k) ==
  [b EXCEPT !.pending[k] = IF InOutbox(b, k) THEN [tries |-> @.tries, last |-> since] ELSE @]

Counted(b, k) ==
  [b EXCEPT !.pending[k] = IF InOutbox(b, k) THEN [tries |-> @.tries + 1, last |-> since] ELSE @]

AfterPass == IF pc = "drain" THEN "poll" ELSE "rest"
Delivering == pc \in {"drain", "deliver"}

StopPass == pc' = AfterPass /\ step' = "next" /\ todo' = {} /\ cur' = {}
NextEvent == step' = "next" /\ cur' = {} /\ UNCHANGED <<pc, todo>>

\* The queue of the pass is empty.
PassOver ==
  /\ Delivering /\ step = "next" /\ todo = {}
  /\ StopPass
  /\ UNCHANGED <<disk, source, since, world, outboxFaults, outboxHistory>>

\* Mutant: what the write found acknowledged in the file is sent all the same.
CountAnyway(k) ==
  /\ Delivering /\ step = "next" /\ k \in todo
  /\ todo' = todo \ {k}
  /\ Saved(Committed(Counted(base, k)))
  /\ step' = "send" /\ cur' = {k}
  /\ UNCHANGED <<known, pc, since, world, outboxFaults, outboxHistory>>

\* Before its send an attempt is on disk.  An event that is not in the outbox any
\* more, before the write or after it, is left out.
Count(k) ==
  /\ Delivering /\ step = "next" /\ k \in todo
  /\ todo' = todo \ {k}
  /\ LET new == Committed(Counted(base, k))
     IN /\ Saved(new)
        /\ IF InOutbox(new, k) THEN step' = "send" /\ cur' = {k}
           ELSE step' = "next" /\ cur' = {}
  /\ UNCHANGED <<known, pc, since, world, outboxFaults, outboxHistory>>

\* An attempt that cannot be counted ends the pass.
CountFails(k) ==
  /\ Delivering /\ step = "next" /\ k \in todo
  /\ WriteFails(Committed(Counted(base, k)))
  /\ StopPass
  /\ UNCHANGED <<known, since, world, outboxHistory>>

Send(k) ==
  /\ step = "send" /\ cur = {k}
  /\ open
  /\ step' = "ack"
  /\ sent' = [sent EXCEPT ![k] = @ + 1]
  /\ UNCHANGED <<disk, source, pc, todo, cur, since, world, outboxFaults, owed>>

\* With no dispatcher the last attempt makes the event a dead letter.
Buried(b, k) ==
  IF InOutbox(b, k) /\ b.pending[k].tries >= MaxTries
  THEN [b EXCEPT !.pending[k] = NotPending,
                 !.acked[k] = IF @ # Never THEN @ ELSE 0,
                 !.dead = @ \cup {k}]
  ELSE b

SendFails(k) ==
  /\ step = "send" /\ cur = {k}
  /\ ~open
  /\ base' = Buried(base, k)
  /\ \/ disk' = Committed(Buried(base, k)) /\ UNCHANGED outboxFaults
     \/ Fault("unsaved") /\ UNCHANGED disk
  /\ StopPass
  /\ UNCHANGED <<known, since, world, outboxHistory>>

Acknowledged(k) ==
  LET merged == Merge(disk, base)
      \* The acknowledgement is recorded for an event still in one of the outboxes.
      Still == InOutbox(merged, k) \/ InOutbox(base, k)
  IN Normal(IF Still /\ merged.acked[k] = Never THEN [merged EXCEPT !.acked[k] = 0] ELSE merged)

Acknowledge(k) ==
  /\ step = "ack" /\ cur = {k}
  /\ Saved(Acknowledged(k))
  /\ NextEvent
  /\ UNCHANGED <<known, since, world, outboxFaults, outboxHistory>>

AcknowledgeFails(k) ==
  /\ step = "ack" /\ cur = {k}
  /\ WriteFails(Acknowledged(k))
  /\ NextEvent
  /\ UNCHANGED <<known, since, world, outboxHistory>>

----------------------------------------------------------------------------
(***************************************************************************)
(* A poll: first what is due in the outbox, then GitHub.                   *)
(***************************************************************************)
StartPoll ==
  /\ pc = "rest"
  /\ since' = 0
  /\ todo' = {k \in ReportKeys : Due(base, k)}
  /\ pc' = "drain" /\ step' = "next" /\ cur' = {}
  /\ UNCHANGED <<disk, source, world, outboxFaults, outboxHistory>>

\* What the fetch saw: every run, some of them over what was known, or nothing new.
Fetched(S) == [r \in Runs |-> IF r \in S THEN hub[r] ELSE known.ci[r]]

\* The flag that lets a finished run nobody saw running be reported: the last
\* poll's, or the file's when there was none since the start.
Established == IF known.seen THEN known.established ELSE base.established

RunSuppressed(r) == r \in base.terminal

Changed(ci) ==
  {k \in ReportKeys :
     \/ k[2] = "started" /\ ci[k[1]] = "running" /\ known.ci[k[1]] = "none"
     \/ k[2] = "done" /\ ci[k[1]] = "done" /\ known.ci[k[1]] = "running"
     \/ /\ k[2] = "done" /\ ci[k[1]] = "done" /\ known.ci[k[1]] = "none"
        /\ Established /\ ~RunSuppressed(k[1])}
Events(ci) == IF known.seen \/ base.established THEN Changed(ci) ELSE {}

\* The finished runs recorded: of an incomplete window only those known before or
\* reported now.
Recorded(ci, complete) ==
  {r \in Runs : ci[r] = "done" /\ (\/ ~known.seen \/ complete
                                   \/ known.ci[r] = "done" \/ <<r, "done">> \in Events(ci))}

\* Mutant: nothing is queued.
EnqueuedNone(b, ks) == b

Enqueued(b, ks) ==
  [b EXCEPT !.pending = [k \in ReportKeys |->
     IF k \in ks /\ b.acked[k] = Never /\ ~InOutbox(b, k) THEN [tries |-> 0, last |-> Never]
     ELSE @[k]]]

Updated(ci, complete, established) ==
  LET recorded == [base EXCEPT !.terminal = @ \cup Recorded(ci, complete)]
      queued   == Enqueued(recorded, Events(ci))
  IN [queued EXCEPT !.established = @ \/ established]

Wanted(ci) == {k[1] : k \in {e \in Events(ci) : e[2] = "done"}}

\* The write succeeded: the snapshot is the next poll's, and the events go out.
Poll(ci, complete, established) ==
  LET new == Committed(Updated(ci, complete, established))
  IN /\ Saved(new)
     /\ known' = [seen |-> TRUE, ci |-> ci, established |-> established]
     /\ owed' = owed \cup Wanted(ci)
     /\ pc' = "deliver" /\ step' = "next" /\ cur' = {} /\ since' = 0
     /\ todo' = {k \in Events(ci) : Due(new, k)}
     /\ UNCHANGED <<world, sent>>

\* The write failed: the old snapshot is kept, so that the next poll sees the same
\* changes.
PollUnsaved(ci, complete, established) ==
  /\ WriteFails(Committed(Updated(ci, complete, established)))
  /\ known' = [known EXCEPT !.seen = TRUE]
  /\ owed' = owed \cup Wanted(ci)
  /\ pc' = "rest"
  /\ UNCHANGED <<step, todo, cur, since, world, sent>>

PollAll     == pc = "poll" /\ Poll(Fetched(Runs), TRUE, TRUE) /\ UNCHANGED outboxFaults
PollUnsavedAll == pc = "poll" /\ PollUnsaved(Fetched(Runs), TRUE, TRUE)
PollPartial == pc = "poll" /\ Fault("partial")
                 /\ \E S \in SUBSET Runs : Poll(Fetched(S), FALSE, TRUE)
PollFailed  == pc = "poll" /\ Fault("fetch") /\ Poll(known.ci, FALSE, FALSE)

----------------------------------------------------------------------------
DaemonDies ==
  /\ Fault("crash")
  /\ base' = Normal(disk)
  /\ known' = NothingKnown
  /\ pc' = "rest" /\ step' = "next" /\ todo' = {} /\ cur' = {}
  /\ open' = TRUE
  /\ UNCHANGED <<disk, since, hub, outboxHistory>>

Close ==
  /\ open /\ Fault("closed")
  /\ open' = FALSE
  /\ UNCHANGED <<disk, source, control, hub, outboxHistory>>

RunMoves(r) ==
  /\ hub[r] # "done"
  /\ hub' = [hub EXCEPT ![r] = IF @ = "none" THEN "running" ELSE "done"]
  /\ UNCHANGED <<disk, source, control, open, outboxFaults, outboxHistory>>

AgedBase(b) ==
  [b EXCEPT !.acked = [k \in ReportKeys |-> Aged(b.acked[k])],
            !.pending = [k \in ReportKeys |-> [b.pending[k] EXCEPT !.last = Aged(@)]]]
Hour ==
  /\ disk' = AgedBase(disk)
  /\ base' = AgedBase(base)
  /\ since' = Aged(since)
  /\ UNCHANGED <<known, pc, step, todo, cur, world, outboxFaults, outboxHistory>>

Deliver ==
  \/ PassOver
  \/ \E k \in ReportKeys : \/ Count(k) \/ CountFails(k) \/ Send(k) \/ SendFails(k)
                     \/ Acknowledge(k) \/ AcknowledgeFails(k)

OutboxNext ==
  \/ StartPoll \/ PollAll \/ PollUnsavedAll \/ PollPartial \/ PollFailed
  \/ Deliver
  \/ DaemonDies \/ Close \/ Hour
  \/ \E r \in Runs : RunMoves(r)

\* The source task is always scheduled, its sends are taken and time passes; the
\* runs of GitHub and the faults may stop at any time.
OutboxFairness ==
  /\ WF_outboxVars(Deliver)
  /\ WF_outboxVars(StartPoll) /\ WF_outboxVars(PollAll) /\ WF_outboxVars(Hour)

OutboxSpec     == OutboxInit /\ [][OutboxNext]_outboxVars
OutboxFairSpec == OutboxSpec /\ OutboxFairness

----------------------------------------------------------------------------
(***************************************************************************)
(* Properties.                                                             *)
(***************************************************************************)
Entry == [tries : -1..(MaxTries + MaxFaults), last : Ages \cup {Never}]
Base  == [terminal : SUBSET Runs, pending : [ReportKeys -> Entry], acked : [ReportKeys -> Ages \cup {Never}],
          dead : SUBSET ReportKeys, epoch : Nat, floor : Nat, established : BOOLEAN]

\* Types and shape: an entry has no more attempts than there are, but for those a
\* failed write left on disk unknown to the source; nothing in the file's outbox
\* is acknowledged or dead, and an event is in flight exactly between its count
\* and its acknowledgement.
OutboxTypeOK ==
  /\ hub \in [Runs -> RunStates]
  /\ disk \in Base /\ base \in Base
  /\ \A k \in ReportKeys : InOutbox(disk, k) => ~Settled(disk, k)
  /\ known \in [seen : BOOLEAN, ci : [Runs -> RunStates], established : BOOLEAN]
  /\ pc \in {"rest", "drain", "poll", "deliver"}
  /\ step \in {"next", "send", "ack"}
  /\ todo \subseteq ReportKeys /\ cur \subseteq ReportKeys /\ since \in Ages
  /\ cur = {} <=> step = "next"
  /\ ~Delivering => step = "next" /\ todo = {}
  /\ open \in BOOLEAN /\ faults \in 0..MaxFaults /\ unsaved \in BOOLEAN
  /\ owed \subseteq Runs /\ sent \in [ReportKeys -> Nat]

\* A run whose report was sent, or waits in the file's outbox, or is a dead letter.
Accounted(r) ==
  LET k == <<r, "done">>
  IN sent[k] > 0 \/ InOutbox(disk, k) \/ k \in disk.dead

\* A finished run that a poll wanted to report is not lost: it is accounted for, or the
\* file does not know the run yet, so that a later poll reports it.
NothingLost == \A r \in owed : Accounted(r) \/ r \notin disk.terminal

\* Whatever else fails, every such run is accounted for until a write of the file
\* fails and leaves the old one.
ReportsKept == ~unsaved => \A r \in owed : Accounted(r)

\* However acknowledgements fail and the daemon dies, no event is sent more often
\* than the outbox allows, and every send was counted on disk before it was made.
SendsBounded ==
  \A k \in ReportKeys : /\ sent[k] <= MaxTries
                  /\ InOutbox(disk, k) => sent[k] <= disk.pending[k].tries
OutboxInv == OutboxTypeOK /\ SendsBounded

\* No event is sent again once its acknowledgement is on disk: not after a restart
\* that reports the run anew, and not by the second queue of the same poll.
AckedStep == \A k \in ReportKeys : sent'[k] # sent[k] => disk.acked[k] = Never
AckedIsFinal == [][AckedStep]_outboxVars

\* An attempt that was counted but not made is made later: no event leaves the
\* retries without having been sent.  It does not hold of a daemon that dies
\* between count and send as often as there are attempts.
RetriedUntilSent ==
  \A k \in ReportKeys : pc = "rest" /\ InOutbox(disk, k) /\ disk.pending[k].tries = MaxTries => sent[k] > 0

\* Every finished run a poll wanted to report is sent in the end, or a dead letter.
Settles == \A r \in owed : sent[<<r, "done">>] > 0 \/ <<r, "done">> \in disk.dead
EveryReportSettles == []<>Settles
=============================================================================
