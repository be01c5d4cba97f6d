------------------------------- MODULE GjcLane -------------------------------
(***************************************************************************)
(* The watch over one GJC session (src/gjc_lane.rs): the durable lane      *)
(* record, the passes that keep it in step with the session (the           *)
(* reconciler's loop and the HTTP reconcile run the same pass), and the    *)
(* handlers that write to it meanwhile.                                    *)
(*                                                                         *)
(* A pass takes a snapshot of the record, replays its pending alerts, asks *)
(* the session's control plane, and writes what it learnt.  Each of its    *)
(* writes is compared with the record's revision and fails when somebody   *)
(* else has written since.  fresh says that the pass's record is still the *)
(* stored one; it stands for the revisions.  What is asked and what is     *)
(* written of the answer are one step: if the record changes in between,   *)
(* the write fails, as it does when the change comes first.                *)
(*                                                                         *)
(* How an alert is delivered is in AlertPipeline; here its acceptance is   *)
(* one step.  The review and the owner evidence are always invalidated     *)
(* together and are one.  Left out: the phase and the audit trail, which   *)
(* nothing reads back, clock times, and turns whose prompt was not         *)
(* accepted, which no alert is about.                                      *)
(***************************************************************************)
EXTENDS Naturals, Sequences

CONSTANTS Pollers,      \* who reconciles: the loop, an HTTP request
          Ends,         \* dispositions of a finished session; the control plane
                        \* of this version reports none, only that it is live
          PendingCap,   \* MAX_PENDING_ALERTS
          MaxAttempts,  \* max_consecutive_attempts
          Grace,        \* ghost_grace_polls
          MaxRev, MaxTurn, MaxGate, MaxGen, MaxHead,  \* bounds of the session
          LaneFaults,   \* kinds of faults
          MaxIncidents  \* bound of the faults, and the requests of operators and
                        \* clients, together

\* A session starts with a turn, an endpoint and a pull request.
ASSUME LaneAssumption ==
  /\ Ends \subseteq {"complete", "failed", "retired"}
  /\ {PendingCap, MaxAttempts, Grace, MaxRev, MaxTurn, MaxGen, MaxHead} \subseteq Nat \ {0}
  /\ {MaxGate, MaxIncidents} \subseteq Nat
  /\ LaneFaults \subseteq {"crash", "down", "ambiguous", "full", "refused"}

VARIABLES lane,      \* the lane record
          sess,      \* the session as its control plane shows it
          head,      \* the head of its pull request, 0 when it is closed
          pass,      \* pass[p]: where a pass stands
          read,      \* a full read of the session that is under way
          told,      \* the event bridge: the revision it has seen, and the turn whose
                     \* failure it has reported
          incidents,
          enrolled,  \* history: generation and head when the evidence was taken
          settled,   \* history: alerts delivered or withdrawn in this enrolment
          late       \* history: alerts staged when the watch was removed already

laneVars == <<lane, sess, head, pass, read, told, incidents, enrolled, settled, late>>

NoTurn == [id |-> 0, state |-> "idle"]
NoGate == [n |-> 0, open |-> FALSE]
Alert(kind, n, rev) == [kind |-> kind, n |-> n, rev |-> rev]
NoAlert == Alert("none", 0, 0)
NoRead  == [rev |-> 0, turn |-> NoTurn]
Untold  == [rev |-> 0, turn |-> 0]

\* register_lane.
Registered(gen, owner, pr) ==
  [watch |-> "on", gen |-> gen, episode |-> 0, alerted |-> FALSE, sdk |-> 0,
   turn |-> NoTurn, gate |-> NoGate, owner |-> owner, end |-> "none", pr |-> pr,
   valid |-> TRUE, misses |-> 0, suspended |-> FALSE, pending |-> <<>>]

NoLane == [Registered(0, "unclaimed", 0) EXCEPT !.watch = "absent"]

Resting == [pc |-> "idle", then |-> "idle", fresh |-> FALSE, alert |-> NoAlert, asked |-> FALSE]

LaneInit ==
  /\ lane = NoLane
  /\ sess = [found |-> TRUE, up |-> TRUE, gen |-> 1, rev |-> 1,
             turn |-> [id |-> 1, state |-> "running"], gate |-> NoGate, end |-> "live"]
  /\ head = 1
  /\ pass = [p \in Pollers |-> Resting]
  /\ read = NoRead
  /\ told = Untold
  /\ incidents = 0
  /\ enrolled = [gen |-> 0, pr |-> 0]
  /\ settled = {} /\ late = {}

----------------------------------------------------------------------------
(* The session.                                                            *)

Alive == sess.found /\ sess.end = "live"

NextRev(turn, gate, end) ==
  /\ sess.rev < MaxRev
  /\ sess' = [sess EXCEPT !.rev = @ + 1, !.turn = turn, !.gate = gate, !.end = end]

StartTurn ==
  /\ Alive /\ ~sess.gate.open /\ sess.turn.state # "running" /\ sess.turn.id < MaxTurn
  /\ NextRev([id |-> sess.turn.id + 1, state |-> "running"], sess.gate, "live")

EndTurn(state) ==
  /\ Alive /\ ~sess.gate.open /\ sess.turn.state = "running"
  /\ NextRev([sess.turn EXCEPT !.state = state], sess.gate, "live")

OpenGate ==
  /\ Alive /\ ~sess.gate.open /\ sess.turn.state = "running" /\ sess.gate.n < MaxGate
  /\ NextRev(sess.turn, [n |-> sess.gate.n + 1, open |-> TRUE], "live")

AnswerGate ==
  /\ Alive /\ sess.gate.open
  /\ NextRev(sess.turn, [sess.gate EXCEPT !.open = FALSE], "live")

EndSession(end) ==
  /\ Alive /\ ~sess.gate.open
  /\ end # "retired" => sess.turn.state = end
  /\ NextRev(sess.turn, sess.gate, end)

Exit == sess.found /\ sess' = [sess EXCEPT !.found = FALSE]

\* It comes back under a new endpoint, which counts its revisions anew.
Return ==
  /\ ~sess.found /\ sess.gen < MaxGen
  /\ sess' = [sess EXCEPT !.found = TRUE, !.gen = @ + 1, !.rev = 1, !.end = "live",
                          !.turn = [@ EXCEPT !.state = "idle"], !.gate.open = FALSE]

Rotate == sess.found /\ sess.gen < MaxGen /\ sess' = [sess EXCEPT !.gen = @ + 1]

Recover == ~sess.up /\ sess' = [sess EXCEPT !.up = TRUE]

Session ==
  /\ \/ StartTurn \/ OpenGate \/ AnswerGate \/ Exit \/ Return \/ Rotate \/ Recover
     \/ \E s \in {"complete", "failed", "idle"} : EndTurn(s)
     \/ \E e \in Ends : EndSession(e)
  /\ UNCHANGED <<lane, head, pass, read, told, incidents, enrolled, settled, late>>

Incident == incidents < MaxIncidents /\ incidents' = incidents + 1

Fault(f) == f \in LaneFaults /\ Incident

Outage ==
  /\ sess.up /\ Fault("down")
  /\ sess' = [sess EXCEPT !.up = FALSE]
  /\ UNCHANGED <<lane, head, pass, read, told, enrolled, settled, late>>

\* The head of the pull request moves, or it is closed: only a lane that is bound
\* to the request can tell.
Push ==
  /\ lane.pr # 0
  /\ \/ head \in 1..(MaxHead - 1) /\ head' = head + 1
     \/ head' = 0 /\ head # 0
  /\ UNCHANGED <<lane, sess, pass, read, told, incidents, enrolled, settled, late>>

----------------------------------------------------------------------------
(* What is written to the record.                                          *)

\* The turn as it is observed: an open gate waits for input.
Turn == IF sess.gate.open THEN [sess.turn EXCEPT !.state = "waiting"] ELSE sess.turn

Observation == [gen |-> sess.gen, rev |-> sess.rev, turn |-> Turn, gate |-> sess.gate,
                end |-> sess.end, gates |-> TRUE]

Same(a, b) == a.kind = b.kind /\ a.n = b.n
Holds(queue, a) == \E i \in 1..Len(queue) : Same(queue[i], a)

Distinct(queue) == \A i, j \in 1..Len(queue) : Same(queue[i], queue[j]) => i = j

Key(a) == <<a.kind, a.n>>
Keys(queue) == {Key(queue[i]) : i \in 1..Len(queue)}
Queued == Keys(lane.pending)

\* The queue holds nothing twice, and one alert at most goes.
Without(queue, a) ==
  IF ~Holds(queue, a) THEN queue
  ELSE LET i == CHOOSE i \in 1..Len(queue) : Same(queue[i], a)
       IN SubSeq(queue, 1, i - 1) \o SubSeq(queue, i + 1, Len(queue))

\* Mutant: an alert that finds no room is dropped, the rest of the write is made.
AddedWhileRoom(queue, a) ==
  IF Holds(queue, a) \/ Len(queue) >= PendingCap THEN queue ELSE Append(queue, a)

\* queue_pending_alert: what is queued already is not queued again.
Added(queue, a) == IF Holds(queue, a) THEN queue ELSE Append(queue, a)

\* The operation fails as a whole when its alerts find no room.
Fits(queue) == Len(queue) <= PendingCap

Active(t) == t.state \in {"running", "waiting"}
AddedIf(cond, queue, a) == IF cond THEN Added(queue, a) ELSE queue

EndSeen(l, o) == l.end = "none" /\ o.end # "live"

NewFailure(l, o) == o.turn.state = "failed" /\ l.turn # o.turn

NewGate(l, o) == o.gate.open /\ o.gate.n > l.gate.n

Stalled(l, o) ==
  Active(l.turn) /\ o.turn.state = "idle" /\ o.turn.id = l.turn.id /\ o.rev > l.sdk

\* The alerts that an observation raises, compared with the last one, are queued.
Staged(l, o) ==
  LET failures == AddedIf(NewFailure(l, o) \/ (EndSeen(l, o) /\ o.turn.state = "failed"),
                          l.pending, Alert("failed", o.turn.id, o.rev))
      stalls == AddedIf(Stalled(l, o), failures, Alert("stalled", o.turn.id, o.rev))
  IN AddedIf(NewGate(l, o) \/ (EndSeen(l, o) /\ o.gate.open),
             stalls, Alert("gate", o.gate.n, o.rev))

GateAfter(l, o) ==
  IF o.gate.n > 0 THEN o.gate
  ELSE IF o.gates THEN [l.gate EXCEPT !.open = FALSE] ELSE l.gate

Released(owner) == IF owner = "claimed" THEN "relinquished" ELSE owner

\* Mutant: another generation is noted, the evidence stays.
ValidWhatever(l, gen) == l.valid

\* Evidence does not outlive the generation it was taken under.
StillValid(l, gen) == l.valid /\ gen = l.gen

\* apply_observation.
Applied(l, o) ==
  [l EXCEPT !.valid = StillValid(l, o.gen), !.gen = o.gen, !.sdk = o.rev,
            !.alerted = FALSE, !.misses = 0, !.suspended = FALSE,
            !.turn = o.turn, !.gate = GateAfter(l, o),
            !.end = IF EndSeen(l, o) THEN o.end ELSE @,
            !.owner = IF EndSeen(l, o) THEN Released(@) ELSE @,
            !.pending = Staged(l, o)]

\* A failing endpoint is alerted once until it answers again.
Alerted(l) ==
  IF l.alerted THEN l
  ELSE [l EXCEPT !.episode = @ + 1, !.alerted = TRUE,
                 !.pending = Added(@, Alert("endpoint", l.episode + 1, l.sdk))]

\* Mutant: a miss is not counted.
MissedNot(n) == n

\* The counter of misses is only compared with the two limits.
Missed(n) == IF n < MaxAttempts + Grace THEN n + 1 ELSE n

\* mark_unavailable: a terminal lane is never suspended.
Unavailable(l) ==
  LET misses == Missed(l.misses)
  IN [Alerted(l) EXCEPT !.misses = misses,
                        !.suspended = @ \/ (l.end = "none" /\ misses >= MaxAttempts)]

\* note_endpoint_rotation.
Rotated(l, gen) ==
  IF gen = l.gen THEN l
  ELSE [l EXCEPT !.gen = gen, !.episode = @ + 1, !.alerted = FALSE, !.valid = FALSE]

\* mark_runtime_gone.
Gone(l) == [l EXCEPT !.end = "gone", !.valid = FALSE, !.misses = 0, !.owner = Released(@)]

\* remove_ghost_watch.
Removable(l) == l.watch = "on" /\ l.end # "none" /\ l.pending = <<>>
Removed(l) == [l EXCEPT !.watch = "removed"]

\* reclaim_tombstone keeps the alerts and whether polling is suspended.
Reclaimed(l, gen) ==
  [Registered(gen, "unclaimed", 0) EXCEPT !.suspended = l.suspended, !.pending = l.pending]

\* retire_lane.
Retired(l) ==
  IF l.end = "none" THEN [l EXCEPT !.end = "retired", !.owner = Released(@)] ELSE l

\* History: what is staged on a lane whose watch has been removed.
NoteLate ==
  late' = IF lane.watch = "removed" THEN late \cup (Keys(lane'.pending) \ Queued) ELSE late

----------------------------------------------------------------------------
(* A pass.                                                                 *)

\* Somebody writes: the snapshots of the others are out of date.
Outdated(p) == [q \in Pollers |-> IF q = p THEN pass[q] ELSE [pass[q] EXCEPT !.fresh = FALSE]]

\* mutate: compare the revision and write.
Write(p, new, step) ==
  /\ pass[p].fresh
  /\ lane' = new
  /\ pass' = [Outdated(p) EXCEPT ![p] = step]

\* A pass moves without writing.
Move(p, step) == lane' = lane /\ pass' = [pass EXCEPT ![p] = step]

\* The replay of the pending alerts, and where the pass goes then.
ReplayThen(next) == [Resting EXCEPT !.pc = "replay", !.then = next, !.fresh = TRUE]
Replaying(p)     == [pass[p] EXCEPT !.pc = "replay", !.alert = NoAlert]
Leave(p) == IF pass[p].then = "idle" THEN Resting
            ELSE [pass[p] EXCEPT !.pc = pass[p].then, !.alert = NoAlert]

At(p, pc) == pass[p].pc = pc

\* Mutant: any session that is found again takes its tombstone back.
ReclaimableAlways(l) == l.watch = "removed" /\ sess.found

\* A session that had been gone is back.
Reclaimable(l) == l.watch = "removed" /\ l.end = "gone" /\ sess.found

\* auto_enroll_native_sessions.
Enrolled ==
  IF Reclaimable(lane) THEN Reclaimed(lane, sess.gen)
  ELSE IF lane.watch = "absent" /\ sess.found THEN Registered(sess.gen, "unclaimed", 0)
  ELSE lane

\* poll_once: what can be enrolled is, and the record is read.
BeginPoll(p) ==
  /\ At(p, "idle") /\ Enrolled.watch = "on"
  /\ LET started == ReplayThen("examine")
     IN \/ /\ Enrolled = lane /\ Move(p, started)
           /\ UNCHANGED <<enrolled, settled, late>>
        \/ /\ Enrolled # lane
           /\ lane' = Enrolled /\ pass' = [Outdated(p) EXCEPT ![p] = started]
           /\ enrolled' = [gen |-> sess.gen, pr |-> 0]
           /\ settled' = {} /\ late' = {}
  /\ UNCHANGED <<sess, head, read, told, incidents>>

HasPending == lane.pending # <<>>

\* Nothing is left to replay, or the attempt cannot be noted.
EndReplay(p) ==
  /\ At(p, "replay") /\ (pass[p].fresh => ~HasPending)
  /\ Move(p, Leave(p))
  /\ UNCHANGED <<sess, head, read, told, incidents, enrolled, settled, late>>

\* The dispatcher's channel stays full.
GiveUp(p) ==
  /\ At(p, "replay") /\ HasPending /\ Fault("full")
  /\ Move(p, Leave(p))
  /\ UNCHANGED <<sess, head, read, told, enrolled, settled, late>>

\* The attempt is noted; a failure is looked into before it is sent.
Attempt(p) ==
  /\ At(p, "replay") /\ HasPending
  /\ LET a == Head(lane.pending)
     IN Write(p, lane, [pass[p] EXCEPT !.alert = a,
                        !.pc = IF a.kind = "failed" THEN "recheck" ELSE "sent"])
  /\ UNCHANGED <<sess, head, read, told, incidents, enrolled, settled, late>>

\* The dispatcher has accepted the alert.  It goes even if the record has moved
\* on: the acknowledgement reads the record again.
Acknowledged(p) ==
  /\ At(p, "sent")
  /\ LET a    == pass[p].alert
         step == [Replaying(p) EXCEPT !.fresh = TRUE]
     IN /\ lane' = [lane EXCEPT !.pending = Without(@, a)]
        /\ pass' = IF Holds(lane.pending, a) THEN [Outdated(p) EXCEPT ![p] = step]
                   ELSE [pass EXCEPT ![p] = step]
        /\ settled' = settled \cup {<<a.kind, a.n>>}
  /\ UNCHANGED <<sess, head, read, told, incidents, enrolled, late>>

Refused(p) ==
  /\ At(p, "sent") /\ Fault("refused")
  /\ Move(p, IF pass[p].then = "idle" THEN Resting ELSE [Leave(p) EXCEPT !.fresh = TRUE])
  /\ UNCHANGED <<sess, head, read, told, enrolled, settled, late>>

\* What the control plane answers: the generation is compared first.
Reply(l) ==
  IF ~sess.found THEN "gone"
  ELSE IF l.gen \notin {0, sess.gen} THEN "rotated"
  ELSE IF ~sess.up THEN "down"
  ELSE "ok"

\* failure_alert_authority.
IsCurrent(a, o) == o.turn.state = "failed" /\ o.rev >= a.rev /\ o.turn.id = a.n
IsSuperseded(a, o) ==
  /\ o.rev > a.rev /\ o.turn.id # a.n
  /\ Active(o.turn) \/ o.turn.state = "failed"

\* A failure is looked into: it is still the session's last word, or a later turn
\* has replaced it, or nobody can tell.  An observation newer than the record is
\* applied first.  The snapshot that is out of date may be as new as it or not.
Recheck(p) ==
  LET a    == pass[p].alert
      o    == Observation
      new  == IF o.rev > lane.sdk THEN Applied(lane, o) ELSE lane
      able == pass[p].fresh /\ Reply(lane) = "ok" /\ Fits(new.pending)
      ask(step) == [step EXCEPT !.asked = step # Resting]
      keep(step) == IF new = lane THEN Move(p, step) ELSE Write(p, new, step)
  IN /\ At(p, "recheck")
     /\ \/ able /\ IsCurrent(a, o) /\ keep([ask(pass[p]) EXCEPT !.pc = "sent"])
           /\ UNCHANGED settled
        \/ able /\ IsSuperseded(a, o)
           /\ Write(p, [new EXCEPT !.pending = Without(@, a)], ask(Replaying(p)))
           /\ settled' = settled \cup {<<a.kind, a.n>>}
        \/ able /\ ~IsCurrent(a, o) /\ ~IsSuperseded(a, o) /\ keep(ask(Leave(p)))
           /\ UNCHANGED settled
        \/ ~able /\ Move(p, IF Reply(lane) = "ok" THEN ask(Leave(p)) ELSE Leave(p))
           /\ UNCHANGED settled
        \/ ~pass[p].fresh /\ Reply(lane) = "ok"
           /\ \/ IsCurrent(a, o) /\ Move(p, [ask(pass[p]) EXCEPT !.pc = "sent"])
              \/ IsSuperseded(a, o) /\ Move(p, [ask(Replaying(p)) EXCEPT !.fresh = TRUE])
           /\ UNCHANGED settled
  /\ NoteLate
  /\ UNCHANGED <<sess, head, read, told, incidents, enrolled>>

\* The watch of a retired session goes at once; that of another ended one stays
\* until its session is.
Swept == lane.end \in {"retired", "gone"} /\ lane.pending = <<>>

\* Nothing is written of an observation the record has, nor of a terminal session
\* that is gone while its alerts wait.
Silent(l) ==
  \/ Reply(l) = "ok" /\ sess.rev <= l.sdk
  \/ Reply(l) = "gone" /\ l.end # "none" /\ ~Removable(l)

\* What the session's state makes of the record, and where the pass goes.
Learnt(l) ==
  CASE Reply(l) = "ok"      -> Applied(l, Observation)
    [] Reply(l) = "gone"    -> IF l.end = "none" THEN Gone(l) ELSE Removed(l)
    [] Reply(l) = "rotated" -> Rotated(l, sess.gen)
    [] Reply(l) = "down"    -> Unavailable(l)

Onwards(l) ==
  CASE Reply(l) = "ok"      -> ReplayThen(IF EndSeen(l, Observation) THEN "idle" ELSE "pr")
    [] Reply(l) = "gone"    -> IF l.end = "none" THEN ReplayThen("idle") ELSE Resting
    [] Reply(l) = "rotated" -> Resting
    [] Reply(l) = "down"    -> ReplayThen(IF l.end # "none" /\ l.misses + 1 >= Grace
                                          THEN "prune" ELSE "idle")

\* The session is asked.  A failure that was looked into has been answered just
\* now, and the pass has nothing newer to write.
Examine(p) ==
  LET able == pass[p].fresh /\ ~pass[p].asked /\ ~Silent(lane) /\ Fits(Learnt(lane).pending)
  IN /\ At(p, "examine")
     /\ \/ Swept /\ Removable(lane) /\ Write(p, Removed(lane), Resting)
        \/ ~Swept /\ able /\ Write(p, Learnt(lane), Onwards(lane))
        \/ ~(Swept /\ pass[p].fresh /\ Removable(lane)) /\ (Swept \/ ~able) /\ Move(p, Resting)
     /\ NoteLate
     /\ UNCHANGED <<sess, head, read, told, incidents, enrolled, settled>>

\* An answer nobody can read is alerted like an endpoint that fails.
Ambiguous(p) ==
  /\ At(p, "examine") /\ pass[p].fresh /\ ~Swept /\ ~pass[p].asked
  /\ Reply(lane) = "ok" /\ Fault("ambiguous")
  /\ IF Fits(Alerted(lane).pending) THEN Write(p, Alerted(lane), ReplayThen("idle"))
     ELSE Move(p, Resting)
  /\ NoteLate
  /\ UNCHANGED <<sess, head, read, told, enrolled, settled>>

\* It is too early after a failed poll, or polling is suspended.
Defer(p) ==
  /\ At(p, "examine") /\ ~(pass[p].fresh /\ Swept)
  /\ Move(p, Resting)
  /\ UNCHANGED <<sess, head, read, told, incidents, enrolled, settled, late>>

\* The terminal watch has been out of reach for too long.
Prune(p) ==
  /\ At(p, "prune")
  /\ \/ pass[p].fresh /\ Removable(lane) /\ Write(p, Removed(lane), Resting)
     \/ ~(pass[p].fresh /\ Removable(lane)) /\ Move(p, Resting)
  /\ UNCHANGED <<sess, head, read, told, incidents, enrolled, settled, late>>

\* reconcile_pr_binding: a binding that moved, or a closed request, invalidates
\* the evidence.
Rebound(l) ==
  IF head = 0 THEN [l EXCEPT !.valid = FALSE]
  ELSE [l EXCEPT !.valid = @ /\ head = l.pr, !.pr = head]

ReconcilePr(p) ==
  /\ At(p, "pr")
  /\ \/ pass[p].fresh /\ lane.pr # 0 /\ Write(p, Rebound(lane), Resting)
     \/ Move(p, Resting)
  /\ UNCHANGED <<sess, head, read, told, incidents, enrolled, settled, late>>

Poll(p) ==
  \/ BeginPoll(p) \/ EndReplay(p) \/ GiveUp(p) \/ Attempt(p) \/ Acknowledged(p) \/ Refused(p)
  \/ Recheck(p) \/ Examine(p) \/ Ambiguous(p) \/ Defer(p) \/ Prune(p) \/ ReconcilePr(p)

----------------------------------------------------------------------------
(* Requests.                                                               *)

\* A handler reads the record and writes it at once.
Put(new) ==
  /\ lane' = new
  /\ pass' = [q \in Pollers |-> [pass[q] EXCEPT !.fresh = FALSE]]

\* POST register: the generation may be given or not.
Register(gen, owner, pr) ==
  /\ Incident /\ lane.watch = "absent"
  /\ Put(Registered(gen, owner, pr))
  /\ enrolled' = [gen |-> gen, pr |-> pr]
  /\ UNCHANGED <<sess, head, read, told, settled, late>>

Claim ==
  /\ Incident /\ lane.watch = "on" /\ lane.end = "none"
  /\ Put([lane EXCEPT !.owner = "claimed"])
  /\ UNCHANGED <<sess, head, read, told, enrolled, settled, late>>

Retire ==
  /\ Incident /\ lane.watch # "absent"
  /\ Put(Retired(lane))
  /\ UNCHANGED <<sess, head, read, told, enrolled, settled, late>>

\* reconcile?force_resume=true, before the pass it starts.
ForceResume ==
  /\ Incident /\ lane.suspended
  /\ Put([lane EXCEPT !.suspended = FALSE, !.misses = 0])
  /\ UNCHANGED <<sess, head, read, told, enrolled, settled, late>>

\* GET session: the lane is looked up, then the session is asked.
ReadStart ==
  /\ Incident /\ read = NoRead
  /\ lane.watch = "on" /\ sess.found /\ sess.up
  /\ read' = [rev |-> sess.rev, turn |-> Turn]
  /\ UNCHANGED <<lane, sess, head, pass, told, enrolled, settled, late>>

\* stage_bridge_failure: the failure is applied to the record as it is now.
Failure(l, r) == [gen |-> l.gen, rev |-> r.rev, turn |-> r.turn, gate |-> NoGate,
                  end |-> "live", gates |-> FALSE]

\* What the read showed goes through the event bridge: a failure it has not
\* reported yet is staged, any other news only raises the record's watermark.
ReadEnd ==
  /\ read # NoRead /\ read' = NoRead
  /\ LET news   == read.rev > told.rev
         fails  == news /\ read.turn.state = "failed" /\ read.turn.id # told.turn
         new    == IF fails THEN Applied(lane, Failure(lane, read))
                   ELSE [lane EXCEPT !.sdk = read.rev]
     IN \/ /\ read.rev > lane.sdk /\ Fits(new.pending)
           /\ Put(new)
           /\ told' = IF ~news THEN told
                      ELSE [rev |-> read.rev, turn |-> IF fails THEN read.turn.id ELSE told.turn]
           /\ NoteLate
        \/ /\ ~(read.rev > lane.sdk /\ Fits(new.pending))
           /\ UNCHANGED <<lane, pass, told, late>>
  /\ UNCHANGED <<sess, head, incidents, enrolled, settled>>

\* The daemon stops and starts again; the record is as it was last written.
Restart ==
  /\ Fault("crash")
  /\ pass' = [p \in Pollers |-> Resting] /\ read' = NoRead /\ told' = Untold
  /\ UNCHANGED <<lane, sess, head, enrolled, settled, late>>

Requests ==
  \/ \E gen \in {0, sess.gen}, owner \in {"unclaimed", "claimed"}, pr \in {0, head} :
       Register(gen, owner, pr)
  \/ Claim \/ Retire \/ ForceResume \/ ReadStart \/ ReadEnd

LaneNext ==
  \/ Session \/ Outage \/ Push \/ Requests \/ Restart
  \/ \E p \in Pollers : Poll(p)

LaneSpec == LaneInit /\ [][LaneNext]_laneVars

\* The loop starts a pass every interval and a pass goes on; no wait between two
\* polls lasts for ever, and the dispatcher accepts in the end.
Onward(p) ==
  BeginPoll(p) \/ EndReplay(p) \/ Attempt(p) \/ Acknowledged(p) \/ Recheck(p) \/ Prune(p) \/ ReconcilePr(p)
LaneFairness == \A p \in Pollers : WF_laneVars(Onward(p)) /\ SF_laneVars(Examine(p))

LaneFairSpec == LaneSpec /\ LaneFairness

----------------------------------------------------------------------------
(* Properties.                                                             *)

Turns  == [id : 0..MaxTurn, state : {"idle", "running", "waiting", "complete", "failed"}]
Gates  == [n : 0..MaxGate, open : BOOLEAN]
LaneAlerts == [kind : {"failed", "stalled", "gate", "endpoint"}, n : Nat, rev : 0..MaxRev]

LaneRecords ==
  [watch : {"absent", "on", "removed"}, gen : 0..MaxGen, episode : Nat,
   alerted : BOOLEAN, sdk : 0..MaxRev, turn : Turns, gate : Gates,
   owner : {"unclaimed", "claimed", "relinquished"},
   end : Ends \cup {"none", "retired", "gone"}, pr : 0..MaxHead,
   valid : BOOLEAN, misses : 0..(MaxAttempts + Grace), suspended : BOOLEAN,
   pending : Seq(LaneAlerts)]

Sessions ==
  [found : BOOLEAN, up : BOOLEAN, gen : 1..MaxGen, rev : 1..MaxRev, turn : Turns,
   gate : Gates, end : Ends \cup {"live"}]

PassRecords ==
  [pc : {"idle", "replay", "recheck", "sent", "examine", "prune", "pr"},
   then : {"idle", "examine", "prune", "pr"}, fresh : BOOLEAN,
   alert : LaneAlerts \cup {NoAlert}, asked : BOOLEAN]

LaneTypeOK ==
  /\ lane \in LaneRecords
  /\ sess \in Sessions
  /\ head \in 0..MaxHead
  /\ pass \in [Pollers -> PassRecords]
  /\ read \in [rev : 0..MaxRev, turn : Turns]
  /\ told \in [rev : 0..MaxRev, turn : 0..MaxTurn]
  /\ incidents \in 0..MaxIncidents
  /\ enrolled \in [gen : 0..MaxGen, pr : 0..MaxHead]

\* No alert is left on a lane whose watch is removed, where nobody replays it
\* ("never tombstone a watch while an alert is still waiting for delivery"): the
\* exception is what a read of the session, or a pass that has read the record
\* again, stages when the watch has gone already.
TombstonesDrained == lane.watch = "removed" => Queued \subseteq late

\* What the record has taken note of has been alerted, or is about to be: the mark
\* that suppresses the next alert is never there without the alert.
MarkedMeansStaged ==
  LET staged == Queued \cup settled
  IN /\ lane.alerted => <<"endpoint", lane.episode>> \in staged
     /\ lane.turn.state = "failed" => <<"failed", lane.turn.id>> \in staged
     /\ lane.gate.open => <<"gate", lane.gate.n>> \in staged

\* Every variable keeps its type; the queue of alerts is bounded and holds nothing
\* twice; a lane that is over has no owner, only such a lane loses its watch, and
\* no alert with it, and what the record has taken note of has been alerted.
LaneInv ==
  /\ LaneTypeOK
  /\ Len(lane.pending) <= PendingCap
  /\ Distinct(lane.pending)
  /\ lane.end # "none" => lane.owner # "claimed"
  /\ lane.watch = "removed" => lane.end # "none"
  /\ MarkedMeansStaged
  /\ TombstonesDrained

\* Evidence that counts as valid was taken under the endpoint and at the head that
\* the record names: nothing restores it once either has moved.
EvidenceSound ==
  lane.valid /\ lane.watch # "absent" => [gen |-> lane.gen, pr |-> lane.pr] = enrolled

\* What a lane ended with stays, and so does the removal of its watch; only a
\* session that was gone and is found again takes its lane back.
StaysOver ==
  lane.end # "none" =>
    \/ lane'.end = lane.end /\ (lane.watch = "removed" => lane'.watch = "removed")
    \/ lane.end = "gone" /\ lane.watch = "removed" /\ lane'.watch = "on" /\ sess.found
TombstonesStay == [][StaysOver]_laneVars

\* The watch of a lane that is over goes, once its session is gone or does not
\* answer, unless the alert of a failed turn waits: whether that is still true only
\* the session could tell.
Ghost    == lane.watch = "on" /\ lane.end # "none" /\ ~(sess.found /\ sess.up)
Undecided == \E key \in Queued : key[1] = "failed"
GhostsGo == []<>(~Ghost \/ Undecided)
=============================================================================
