------------------------------ MODULE CiBatcher ------------------------------
(***************************************************************************)
(* The CI batcher of the dispatcher (src/dispatch.rs): the job events of a *)
(* workflow run are collected for a window and reported in one summary; a  *)
(* run seen in progress and now complete is reported at once.              *)
(*                                                                         *)
(* As in the routine batcher every event puts an entry with the batch's    *)
(* version in the timer wheel.  But a summary sent at once leaves its      *)
(* entries behind, and the next batch of the same run counts its versions  *)
(* from one again.                                                         *)
(***************************************************************************)
EXTENDS Naturals, FiniteSets

CONSTANTS Runs,       \* batch keys: repository, number, commit and run
          Jobs,       \* jobs (workflow names) of a run
          MaxEvents,  \* bound of the job events
          CiWindow,   \* ci_batch_window_secs, at least 1
          CiEnd,      \* bound of the clock
          SetBack     \* the wall clock may be set back

ASSUME CiConstants ==
  /\ IsFiniteSet(Jobs)
  /\ CiWindow \in Nat \ {0}
  /\ {MaxEvents, CiEnd} \subseteq Nat

CiTimes == 0..CiEnd
Outcome == {"running", "success", "failure", "cancelled", "skipped"}
NoJobs  == [j \in Jobs |-> "none"]

VARIABLES ciBatch,      \* ciBatch[r]: [jobs, expected, all, saw, at, version]
          ciTimers,     \* the wheel: entries [run, version, at]
          ciClock,      \* the time the last handler read
          ciEvents,     \* job events so far
          ciObserved,   \* history: ciObserved[r][j], the last outcome not reported yet
          ciSummaries   \* what the last handler sent: [run, jobs, verdict, complete, at]

ciVars == <<ciBatch, ciTimers, ciClock, ciEvents, ciObserved, ciSummaries>>

NoCiBatch == [jobs |-> NoJobs, expected |-> 0, all |-> FALSE, saw |-> FALSE,
              at |-> 0, version |-> 0]

CiInit ==
  /\ ciBatch = [r \in Runs |-> NoCiBatch]
  /\ ciTimers = {}
  /\ ciClock \in CiTimes
  /\ ciEvents = 0
  /\ ciObserved = [r \in Runs |-> NoJobs]
  /\ ciSummaries = {}

----------------------------------------------------------------------------
Reported(jobs)    == {j \in Jobs : jobs[j] # "none"}
CiWaiting(r)      == Reported(ciBatch[r].jobs) # {}
Having(jobs, o)   == {j \in Jobs : jobs[j] = o}
AllTerminal(jobs) == Having(jobs, "running") = {}

\* flush_batch: the kind of the summary.
Verdict(jobs) ==
  IF Having(jobs, "failure") # {} THEN "failed"
  ELSE IF ~AllTerminal(jobs) THEN "started"
  ELSE IF /\ Having(jobs, "cancelled") # {}
          /\ Having(jobs, "success") \cup Having(jobs, "skipped") = {} THEN "cancelled"
  ELSE "passed"

\* A run that was seen in progress is over: it need not wait for the window.
Complete(b) ==
  /\ b.saw
  /\ b.all
  /\ Cardinality(Reported(b.jobs)) >= b.expected
  /\ AllTerminal(b.jobs)

Summary(r, b) == [run |-> r, jobs |-> b.jobs, verdict |-> Verdict(b.jobs),
                  complete |-> Complete(b), at |-> b.at]

\* flush_due: an entry sends its batch if the run has one with this version.
CiFires(e) == CiWaiting(e.run) /\ ciBatch[e.run].version = e.version

CiDue(t)   == {e \in ciTimers : e.at <= t}
Flushed(t) == {e.run : e \in {f \in CiDue(t) : CiFires(f)}}
CiKept(t)  == [r \in Runs |-> IF r \in Flushed(t) THEN NoCiBatch ELSE ciBatch[r]]

CiAt(t) == (SetBack \/ t >= ciClock) /\ ciClock' = t

\* Mutant: what the new event says replaces what the batch knows.
JobsReplaced(jobs, j, o) == [NoJobs EXCEPT ![j] = o]

JobsWith(jobs, j, o) == [jobs EXCEPT ![j] = o]

\* The jobs a run is said to have: the largest number any event gave.
Expected(b, count) == IF count > b.expected THEN count ELSE b.expected

\* observe: the first event of a batch sets its deadline; each one updates its
\* job and what is known of the run, and raises the version.  all: the event
\* says whether the whole run is over, or ("absent") does not.
CiJoined(b, j, o, count, all, t) ==
  LET new == Reported(b.jobs) = {}
  IN [jobs     |-> JobsWith(b.jobs, j, o),
      expected |-> Expected(b, count),
      all      |-> IF all = "absent" THEN b.all ELSE all = "yes",
      saw      |-> b.saw \/ o = "running",
      at       |-> IF new THEN t + CiWindow ELSE b.at,
      version  |-> b.version + 1]

\* A CI event: what is due goes first, then the event joins its batch, whose
\* entry goes to the wheel, and a complete run is reported at once.
CiObserve(r, j, o, count, all, t) ==
  /\ ciEvents < MaxEvents
  /\ ciEvents' = ciEvents + 1
  /\ CiAt(t)
  /\ LET b    == CiJoined(CiKept(t)[r], j, o, count, all, t)
         due  == {Summary(q, ciBatch[q]) : q \in Flushed(t)}
         seen == [q \in Runs |-> IF q \in Flushed(t) THEN NoJobs ELSE ciObserved[q]]
     IN /\ ciTimers' = (ciTimers \ CiDue(t)) \cup {[run |-> r, version |-> b.version, at |-> b.at]}
        /\ \/ /\ Complete(b)
              /\ ciBatch' = [CiKept(t) EXCEPT ![r] = NoCiBatch]
              /\ ciSummaries' = due \cup {Summary(r, b)}
              /\ ciObserved' = [seen EXCEPT ![r] = NoJobs]
           \/ /\ ~Complete(b)
              /\ ciBatch' = [CiKept(t) EXCEPT ![r] = b]
              /\ ciSummaries' = due
              /\ ciObserved' = [seen EXCEPT ![r][j] = o]

\* The ticker, or an event of another kind.
CiTick(t) ==
  /\ CiAt(t)
  /\ ciBatch' = CiKept(t)
  /\ ciTimers' = ciTimers \ CiDue(t)
  /\ ciSummaries' = {Summary(r, ciBatch[r]) : r \in Flushed(t)}
  /\ ciObserved' = [r \in Runs |-> IF r \in Flushed(t) THEN NoJobs ELSE ciObserved[r]]
  /\ UNCHANGED ciEvents

CiNext ==
  \/ \E r \in Runs, j \in Jobs, o \in Outcome, count \in 1..Cardinality(Jobs),
        all \in {"yes", "no", "absent"}, t \in CiTimes : CiObserve(r, j, o, count, all, t)
  \/ \E t \in CiTimes : CiTick(t)

CiSpec == CiInit /\ [][CiNext]_ciVars

----------------------------------------------------------------------------
(* Properties.                                                             *)

JobStates == [Jobs -> Outcome \cup {"none"}]

\* Every variable keeps its type, and when a handler is done, a batch that waits has
\* a version and knows of a job, is not overdue, and its run is not complete.
CiTypeOK ==
  /\ ciBatch \in [Runs -> [jobs : JobStates, expected : Nat, all : BOOLEAN,
                         saw : BOOLEAN, at : Nat, version : Nat]]
  /\ ciTimers \subseteq [run : Runs, version : Nat, at : Nat]
  /\ ciClock \in CiTimes
  /\ ciEvents \in 0..MaxEvents
  /\ ciObserved \in [Runs -> JobStates]

NothingHeldBack ==
  \A r \in Runs : CiWaiting(r) =>
    /\ ciBatch[r].version > 0 /\ ciBatch[r].expected > 0
    /\ ciBatch[r].at > ciClock
    /\ ~Complete(ciBatch[r])

\* Every job event not superseded by a later one of its job is in the next
\* summary of its run: none is forgotten by a summary sent early or by an entry
\* that fires for another batch.
NothingForgotten == \A r \in Runs : ciBatch[r].jobs = ciObserved[r]

\* No complete or overdue CI batch waits, and no job event of a run is forgotten.
CiInv == CiTypeOK /\ NothingHeldBack /\ NothingForgotten

\* A summary that goes out before the window of its batch is over is one of a
\* complete run (README.md: ci_batch_window_secs controls how long clawhip waits
\* before flushing a summary).  It does not hold: the entries a summary sent at
\* once leaves in the wheel fire for the next batch of the run.
EarlyMeansComplete == \A s \in ciSummaries : s.at <= ciClock \/ s.complete
=============================================================================
