---------------------------- MODULE CronScheduler ----------------------------
(***************************************************************************)
(* The cron source (src/cron.rs): a task that looks at the clock, emits    *)
(* the jobs of every minute since the last one it processed, and writes    *)
(* what it has processed to a file, which it reads when the daemon starts. *)
(*                                                                         *)
(* A job may name a receipt file.  A job whose receipt shows an empty      *)
(* backlog, and showed the same when it was last emitted, is withheld      *)
(* until its lease runs out.  Time is in minutes.                          *)
(***************************************************************************)
EXTENDS Integers, FiniteSets

CONSTANTS
  NJobs,      \* the enabled jobs are 1..NJobs, in the order of the config
  Schedule,   \* Schedule[j]: the minutes that match the schedule of j
  Ttl,        \* Ttl[j]: zero_backlog_suppression_ttl_secs, in minutes
  Receipts,   \* Receipts[j]: what the receipt file of j can hold: a fingerprint,
              \* and whether it is a validated receipt of an empty backlog;
              \* nothing if j names no file
  MaxMinute,  \* bound: the last minute of the clock
  CronFaults, \* the kinds of faults of a run
  MaxMishaps  \* bound: how many faults

CronFaultKinds ==
  {"crash",  \* the daemon dies between two steps of a pass
   "torn",   \* it dies in the write of the state file
   "save",   \* the write fails: the source stops for good
   "back"}   \* the clock is set back

Jobs == 1..NJobs
Minutes == 0..MaxMinute

ASSUME CronAssumption ==
  /\ NJobs \in Nat \ {0} /\ MaxMinute \in Nat /\ MaxMishaps \in Nat
  /\ Schedule \in [Jobs -> SUBSET Minutes]
  /\ Ttl \in [Jobs -> Nat]
  /\ \A j \in Jobs : \A r \in Receipts[j] : r.zero \in BOOLEAN
  /\ CronFaults \subseteq CronFaultKinds

NoMinute == -1
Nothing == [print |-> "nothing", zero |-> FALSE]
NoLease == [key |-> "nothing", expires |-> NoMinute]

Held(j) == Receipts[j] \cup {Nothing}

VARIABLES
  now,      \* the clock
  memory,   \* CronSchedulerState in memory
  file,     \* CronSchedulerState in the file
  receipt,  \* receipt[j]: what the receipt file of j holds
  phase,    \* "waiting", "running", "saving", "stopped" or "down"
  pass,     \* the pass under way: the minute and job it is at, and its end
  mishaps,  \* faults so far
  from,     \* history: the minute the record on disk goes back to
  fired,    \* history: how often j was emitted for minute m
  emitted,  \* history: what each emission said of the receipt
  withheld  \* history: the emissions withheld, and for which receipt

cronHistory == <<fired, emitted, withheld>>
cronVars == <<now, memory, file, receipt, phase, pass, mishaps, from, cronHistory>>

EmptyState ==
  [last |-> NoMinute,
   prints |-> [j \in Jobs |-> "nothing"],
   leases |-> [j \in Jobs |-> NoLease]]

NoPass == [minute |-> 0, job |-> 1, upto |-> 0]

CronInit ==
  /\ now = 0
  /\ memory = EmptyState
  /\ file = EmptyState
  /\ receipt \in {f \in [Jobs -> UNION {Held(j) : j \in Jobs}] : \A j \in Jobs : f[j] \in Held(j)}
  /\ phase = "waiting"
  /\ pass = NoPass
  /\ mishaps = 0
  /\ from = 0
  /\ fired = [j \in Jobs |-> [m \in Minutes |-> 0]]
  /\ emitted = {}
  /\ withheld = {}

Mishap(kind) == kind \in CronFaults /\ mishaps < MaxMishaps /\ mishaps' = mishaps + 1

-----------------------------------------------------------------------------
(* A tick of the source's interval: the minutes this pass is to process.   *)
FirstNow == now
FirstAgain == IF memory.last = NoMinute THEN now ELSE memory.last
First == IF memory.last = NoMinute THEN now ELSE memory.last + 1

Begin ==
  /\ phase = "waiting"
  /\ pass' = [minute |-> First, job |-> 1, upto |-> now]
  /\ phase' = "running"
  /\ from' = IF memory.last = NoMinute THEN now ELSE from
  /\ UNCHANGED <<now, memory, file, receipt, mishaps, cronHistory>>

InPass == phase = "running" /\ pass.minute <= pass.upto
Job == pass.job
Advance ==
  pass' = IF Job < NJobs THEN [pass EXCEPT !.job = @ + 1]
          ELSE [pass EXCEPT !.minute = @ + 1, !.job = 1]

Matches == pass.minute \in Schedule[Job]

(* should_suppress: the same fingerprint as at the last emission, and a    *)
(* lease for it that has not run out at the minute being processed.        *)
Suppressed(j, m) ==
  /\ Ttl[j] > 0 /\ receipt[j].zero
  /\ memory.prints[j] = receipt[j].print
  /\ memory.leases[j].key = receipt[j].print
  /\ memory.leases[j].expires > m

Skip ==
  /\ InPass /\ ~Matches
  /\ Advance
  /\ UNCHANGED <<now, memory, file, receipt, phase, mishaps, from, cronHistory>>

Withhold ==
  /\ InPass /\ Matches
  /\ Suppressed(Job, pass.minute)
  /\ withheld' = withheld \cup {[job |-> Job, minute |-> pass.minute, print |-> receipt[Job].print]}
  /\ Advance
  /\ UNCHANGED <<now, memory, file, receipt, phase, mishaps, from, fired, emitted>>

(* What an emission leaves in memory.  A file that cannot be read takes    *)
(* the lease away and leaves the fingerprint.                              *)
Lease(j, m) ==
  IF receipt[j].zero /\ Ttl[j] > 0
  THEN [key |-> receipt[j].print, expires |-> m + Ttl[j]] ELSE NoLease
Emitted(j, m) ==
  [memory EXCEPT !.leases[j] = Lease(j, m),
                 !.prints[j] = IF receipt[j] = Nothing THEN @ ELSE receipt[j].print]

Emit ==
  /\ InPass /\ Matches
  /\ ~Suppressed(Job, pass.minute)
  /\ memory' = Emitted(Job, pass.minute)
  /\ fired' = [fired EXCEPT ![Job][pass.minute] = @ + 1]
  /\ emitted' = emitted \cup {[job |-> Job, minute |-> pass.minute, print |-> receipt[Job].print]}
  /\ Advance
  /\ UNCHANGED <<now, file, receipt, phase, mishaps, from, withheld>>

(* The loop is over, or had no minute: the pass's end is the last minute.  *)
Progress == [memory EXCEPT !.last = pass.upto]
Finish ==
  /\ phase = "running" /\ pass.minute > pass.upto
  /\ memory' = Progress
  /\ phase' = "saving"
  /\ pass' = NoPass
  /\ UNCHANGED <<now, file, receipt, mishaps, from, cronHistory>>

Save ==
  /\ phase = "saving"
  /\ file' = memory
  /\ phase' = "waiting"
  /\ UNCHANGED <<now, memory, receipt, pass, mishaps, from, cronHistory>>

(* The error ends the source's task; nothing starts it again.              *)
SaveFails ==
  /\ phase = "saving"
  /\ Mishap("save")
  /\ file' \in {file, EmptyState}
  /\ phase' = "stopped"
  /\ UNCHANGED <<now, memory, receipt, pass, from, cronHistory>>

-----------------------------------------------------------------------------
(* The daemon stops while the source waits, or dies somewhere else, and    *)
(* what was in memory is gone.  The file is written in place: a write cut  *)
(* short leaves one that does not parse, which counts as no file.          *)
Down == phase' = "down" /\ memory' = EmptyState /\ pass' = NoPass

Stop ==
  /\ phase \in {"waiting", "stopped"}
  /\ Down
  /\ UNCHANGED <<now, file, receipt, mishaps, from, cronHistory>>

Crash ==
  /\ phase \in {"running", "saving"}
  /\ \/ Mishap("crash") /\ UNCHANGED file
     \/ phase = "saving" /\ Mishap("torn") /\ file' = EmptyState
  /\ Down
  /\ UNCHANGED <<now, receipt, from, cronHistory>>

Start ==
  /\ phase = "down"
  /\ memory' = file
  /\ phase' = "waiting"
  /\ UNCHANGED <<now, file, receipt, pass, mishaps, from, cronHistory>>

(* The clock, and the tool that writes the receipts.                       *)
MinutePasses ==
  /\ now < MaxMinute
  /\ now' = now + 1
  /\ UNCHANGED <<memory, file, receipt, phase, pass, mishaps, from, cronHistory>>

SetBack ==
  /\ Mishap("back")
  /\ \E m \in Minutes : m < now /\ now' = m
  /\ UNCHANGED <<memory, file, receipt, phase, pass, from, cronHistory>>

Rewrite ==
  /\ \E j \in Jobs : \E r \in Held(j) : receipt' = [receipt EXCEPT ![j] = r]
  /\ UNCHANGED <<now, memory, file, phase, pass, mishaps, from, cronHistory>>

CronNext ==
  \/ Begin \/ Skip \/ Withhold \/ Emit \/ Finish
  \/ Save \/ SaveFails
  \/ Stop \/ Crash \/ Start
  \/ MinutePasses \/ SetBack \/ Rewrite

CronSpec == CronInit /\ [][CronNext]_cronVars

(* The source's task goes on while the daemon is up, the daemon is started *)
(* again, and time passes.  A source is not stopped between two passes for *)
(* ever: a pass that can begin again and again begins.                     *)
CronFairness ==
  /\ SF_cronVars(Begin)
  /\ WF_cronVars(Skip \/ Withhold \/ Emit \/ Finish)
  /\ WF_cronVars(Save)
  /\ WF_cronVars(Start)
  /\ WF_cronVars(MinutePasses)
CronFairSpec == CronSpec /\ CronFairness

-----------------------------------------------------------------------------
Prints == {r.print : r \in UNION {Held(j) : j \in Jobs}}
States ==
  [last : {NoMinute} \cup Minutes,
   prints : [Jobs -> Prints],
   leases : [Jobs -> [key : Prints, expires : Int]]]
Notes == [job : Jobs, minute : Minutes, print : Prints]

(* The types of the variables: a pass is at a minute of the clock or just  *)
(* behind it.                                                              *)
CronTypeOK ==
  /\ now \in Minutes
  /\ memory \in States /\ file \in States
  /\ \A j \in Jobs : receipt[j] \in Held(j)
  /\ phase \in {"waiting", "running", "saving", "stopped", "down"}
  /\ pass \in [minute : 0..(MaxMinute + 1), job : Jobs, upto : Minutes]
  /\ mishaps \in 0..MaxMishaps
  /\ from \in Minutes
  /\ fired \in [Jobs -> [Minutes -> Nat]]
  /\ emitted \subseteq Notes /\ withheld \subseteq Notes

Handled(j, m) == fired[j][m] > 0 \/ \E w \in withheld : w.job = j /\ w.minute = m

(* The record on disk tells the truth: every matching minute it goes back  *)
(* to and has behind it was emitted or withheld, whatever was interrupted. *)
NothingSkipped ==
  \A j \in Jobs, m \in Minutes :
    from <= m /\ m <= file.last /\ m \in Schedule[j] => Handled(j, m)

(* A minute's job is emitted once, and once more at most for every crash,  *)
(* failed write and step of the clock (emit_due, persist_state).           *)
RefireBounded == \A j \in Jobs, m \in Minutes : fired[j][m] <= 1 + mishaps

(* What is withheld has been said: the job was emitted with the same       *)
(* fingerprint less than its lease before (or, with the clock set back,    *)
(* later), so a new state is never kept from the reader (should_suppress). *)
WithheldWasSaid ==
  \A w \in withheld :
    \E s \in emitted :
      /\ s.job = w.job /\ s.print = w.print
      /\ w.minute < s.minute + Ttl[w.job]

(* Every variable keeps its type, what is on disk is true, no minute is    *)
(* repeated without a fault, and what is withheld has been said.           *)
CronInv == CronTypeOK /\ NothingSkipped /\ RefireBounded /\ WithheldWasSaid

(* A job is emitted once for a minute, a restart included (the tests       *)
(* scheduler_emits_matching_custom_job_once_per_minute and                 *)
(* scheduler_restart_does_not_refire_jobs_for_same_minute).  It does not   *)
(* hold when the clock is set back or a crash comes before the write; what *)
(* does is RefireBounded.                                                  *)
OncePerMinute == \A j \in Jobs, m \in Minutes : fired[j][m] <= 1

(* Every minute the scheduler knows to be behind and not yet processed is  *)
(* processed in the end, unless a write fails on the way there, which ends *)
(* the source or loses the file: downtime delays jobs and drops none.      *)
WriteLost == phase = "stopped" \/ file.last = NoMinute
UpToNow ==
  \A j \in Jobs, m \in Minutes :
    from <= m /\ m <= now /\ m \in Schedule[j] => Handled(j, m)
CaughtUp == []<>(WriteLost \/ UpToNow)

=============================================================================
