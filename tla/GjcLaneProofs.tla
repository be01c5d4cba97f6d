---------------------------- MODULE GjcLaneProofs ----------------------------
(***************************************************************************)
(* Theorems about the GJC lane: for any number of passes and any bounds,   *)
(* the record keeps LaneInv, what it calls valid evidence was taken under  *)
(* the endpoint and at the head it names, and what is over stays over.     *)
(***************************************************************************)
EXTENDS GjcLane, TLAPS

LEMMA LaneConstants ==
  /\ Ends \subseteq {"complete", "failed", "retired"}
  /\ PendingCap \in Nat \ {0} /\ MaxAttempts \in Nat \ {0} /\ Grace \in Nat \ {0}
  /\ MaxRev \in Nat \ {0} /\ MaxTurn \in Nat \ {0} /\ MaxGen \in Nat \ {0} /\ MaxHead \in Nat \ {0}
  /\ MaxGate \in Nat /\ MaxIncidents \in Nat
BY LaneAssumption

----------------------------------------------------------------------------
(* The queue of pending alerts.                                            *)

\* Queueing an alert (queue_pending_alert) leaves it in the queue once, and the
\* others where they are.
LEMMA AddedQueue ==
  ASSUME NEW q \in Seq(LaneAlerts), NEW a \in LaneAlerts
  PROVE  /\ Added(q, a) \in Seq(LaneAlerts)
         /\ Keys(Added(q, a)) = Keys(q) \cup {Key(a)}
         /\ Distinct(q) => Distinct(Added(q, a))
<1>1. CASE Holds(q, a)
  <2>1. Key(a) \in Keys(q)
    BY <1>1 DEF Holds, Same, Keys, Key
  <2> QED  BY <1>1, <2>1 DEF Added
<1>2. CASE ~Holds(q, a)
  <2> DEFINE r == Append(q, a)
  <2>1. Added(q, a) = r
    BY <1>2 DEF Added
  <2>2. /\ r \in Seq(LaneAlerts) /\ Len(r) = Len(q) + 1
        /\ \A i \in 1..Len(q) : r[i] = q[i]
        /\ r[Len(q) + 1] = a
        /\ Len(q) \in Nat
    OBVIOUS
  <2> HIDE DEF r
  <2>3. Keys(r) = Keys(q) \cup {Key(a)}
    <3>1. ASSUME NEW i \in 1..Len(r)  PROVE Key(r[i]) \in Keys(q) \cup {Key(a)}
      <4>1. i \in 1..Len(q) \/ i = Len(q) + 1
        BY <2>2
      <4> QED  BY <4>1, <2>2 DEF Keys
    <3>2. ASSUME NEW i \in 1..Len(q)  PROVE Key(q[i]) \in Keys(r)
      <4>1. i \in 1..Len(r) /\ r[i] = q[i]
        BY <2>2
      <4> QED  BY <4>1 DEF Keys
    <3>3. Key(a) \in Keys(r)
      <4>1. Len(q) + 1 \in 1..Len(r)
        BY <2>2
      <4> QED  BY <4>1, <2>2 DEF Keys
    <3> QED  BY <3>1, <3>2, <3>3 DEF Keys
  <2>4. Distinct(q) => Distinct(r)
    <3> SUFFICES ASSUME Distinct(q), NEW i \in 1..Len(r), NEW j \in 1..Len(r), Same(r[i], r[j])
                 PROVE  i = j
      BY DEF Distinct
    <3>1. ASSUME NEW k \in 1..Len(q)  PROVE ~Same(r[k], a) /\ ~Same(a, r[k])
      BY <1>2, <2>2 DEF Holds, Same
    <3>2. /\ i \in 1..Len(q) \/ i = Len(q) + 1
          /\ j \in 1..Len(q) \/ j = Len(q) + 1
      BY <2>2
    <3>3. CASE i \in 1..Len(q) /\ j \in 1..Len(q)
      BY <3>3, <2>2 DEF Distinct
    <3> QED  BY <3>1, <3>2, <3>3, <2>2
  <2> QED  BY <2>1, <2>2, <2>3, <2>4
<1> QED  BY <1>1, <1>2

LEMMA AddedIfQueue ==
  ASSUME NEW q \in Seq(LaneAlerts), NEW a \in LaneAlerts, NEW c \in BOOLEAN
  PROVE  /\ AddedIf(c, q, a) \in Seq(LaneAlerts)
         /\ Keys(q) \subseteq Keys(AddedIf(c, q, a))
         /\ c => Key(a) \in Keys(AddedIf(c, q, a))
         /\ Distinct(q) => Distinct(AddedIf(c, q, a))
BY AddedQueue DEF AddedIf

\* An alert that is acknowledged leaves the queue, and nothing else does.
LEMMA WithoutQueue ==
  ASSUME NEW q \in Seq(LaneAlerts), NEW a
  PROVE  /\ Without(q, a) \in Seq(LaneAlerts)
         /\ Keys(Without(q, a)) \subseteq Keys(q)
         /\ Keys(q) \subseteq Keys(Without(q, a)) \cup {Key(a)}
         /\ Len(Without(q, a)) <= Len(q)
         /\ Distinct(q) => Distinct(Without(q, a))
<1>1. CASE ~Holds(q, a)
  BY <1>1 DEF Without
<1>2. CASE Holds(q, a)
  <2> DEFINE i == CHOOSE i \in 1..Len(q) : Same(q[i], a)
             r == SubSeq(q, 1, i - 1) \o SubSeq(q, i + 1, Len(q))
  <2>1. i \in 1..Len(q) /\ Same(q[i], a)
    BY <1>2 DEF Holds
  <2>2. Without(q, a) = r
    BY <1>2 DEF Without
  <2> HIDE DEF i
  <2>3. /\ SubSeq(q, 1, i - 1) \in Seq(LaneAlerts) /\ Len(SubSeq(q, 1, i - 1)) = i - 1
        /\ \A k \in 1..(i - 1) : SubSeq(q, 1, i - 1)[k] = q[k]
    BY <2>1
  <2>4. /\ SubSeq(q, i + 1, Len(q)) \in Seq(LaneAlerts) /\ Len(SubSeq(q, i + 1, Len(q))) = Len(q) - i
        /\ \A k \in 1..(Len(q) - i) : SubSeq(q, i + 1, Len(q))[k] = q[k + i]
    BY <2>1
  <2>5. /\ r \in Seq(LaneAlerts) /\ Len(r) = Len(q) - 1
        /\ \A k \in 1..(i - 1) : r[k] = q[k]
        /\ \A k \in i..(Len(q) - 1) : r[k] = q[k + 1]
    <3> DEFINE s == SubSeq(q, 1, i - 1)
               t == SubSeq(q, i + 1, Len(q))
    <3>1. /\ s \o t \in Seq(LaneAlerts) /\ Len(s \o t) = Len(s) + Len(t)
          /\ \A k \in 1..Len(s) : (s \o t)[k] = s[k]
          /\ \A k \in 1..Len(t) : (s \o t)[Len(s) + k] = t[k]
      <4> HIDE DEF s, t
      <4> SUFFICES ASSUME s \in Seq(LaneAlerts), t \in Seq(LaneAlerts)
                   PROVE  /\ s \o t \in Seq(LaneAlerts) /\ Len(s \o t) = Len(s) + Len(t)
                          /\ \A k \in 1..Len(s) : (s \o t)[k] = s[k]
                          /\ \A k \in 1..Len(t) : (s \o t)[Len(s) + k] = t[k]
        BY <2>3, <2>4 DEF s, t
      <4> QED  OBVIOUS
    <3>2. \A k \in i..(Len(q) - 1) : k - (i - 1) \in 1..Len(t) /\ k = Len(s) + (k - (i - 1))
      BY <2>1, <2>3, <2>4
    <3>3. \A k \in i..(Len(q) - 1) : r[k] = q[k + 1]
      <4> SUFFICES ASSUME NEW k \in i..(Len(q) - 1)  PROVE r[k] = q[k + 1]
        OBVIOUS
      <4>1. r[k] = t[k - (i - 1)]
        BY <3>1, <3>2
      <4>2. k - (i - 1) \in 1..(Len(q) - i) /\ (k - (i - 1)) + i = k + 1
        BY <2>1
      <4> QED  BY <4>1, <4>2, <2>4
    <3>4. \A k \in 1..(i - 1) : r[k] = q[k]
      BY <3>1, <2>3
    <3>5. Len(r) = Len(q) - 1
      <4>1. Len(s) = i - 1 /\ Len(t) = Len(q) - i /\ Len(r) = Len(s) + Len(t)
        BY <3>1, <2>3, <2>4
      <4>2. i \in Nat /\ Len(q) \in Nat
        BY <2>1
      <4> HIDE DEF r, s, t
      <4> QED  BY <4>1, <4>2
    <3>6. r \in Seq(LaneAlerts)
      BY <3>1
    <3> HIDE DEF r
    <3> QED  BY <3>3, <3>4, <3>5, <3>6
  <2> HIDE DEF r
  <2>6. Keys(r) \subseteq Keys(q)
    <3> SUFFICES ASSUME NEW k \in 1..Len(r)  PROVE Key(r[k]) \in Keys(q)
      BY DEF Keys
    <3>1. PICK j \in 1..Len(q) : r[k] = q[j]
      <4>1. k \in 1..(i - 1) \/ k \in i..(Len(q) - 1)
        BY <2>1, <2>5
      <4>2. k \in 1..Len(q) /\ k + 1 \in 1..Len(q)
        BY <2>5, <2>1
      <4> QED  BY <4>1, <4>2, <2>5
    <3> QED  BY <3>1 DEF Keys
  <2>7. Keys(q) \subseteq Keys(r) \cup {Key(a)}
    <3> SUFFICES ASSUME NEW k \in 1..Len(q)  PROVE Key(q[k]) \in Keys(r) \cup {Key(a)}
      BY DEF Keys
    <3>1. CASE k = i
      BY <3>1, <2>1 DEF Same, Key
    <3>2. CASE k < i
      <4>1. k \in 1..Len(r) /\ r[k] = q[k]
        BY <3>2, <2>1, <2>5
      <4> QED  BY <4>1 DEF Keys
    <3>3. CASE k > i
      <4>1. k - 1 \in 1..Len(r) /\ k - 1 \in i..(Len(q) - 1) /\ (k - 1) + 1 = k
        BY <3>3, <2>1, <2>5
      <4>2. r[k - 1] = q[k]
        BY <4>1, <2>5
      <4> QED  BY <4>1, <4>2 DEF Keys
    <3> QED  BY <3>1, <3>2, <3>3, <2>1
  <2>8. Distinct(q) => Distinct(r)
    <3> SUFFICES ASSUME Distinct(q), NEW k \in 1..Len(r), NEW j \in 1..Len(r), Same(r[k], r[j])
                 PROVE  k = j
      BY DEF Distinct
    <3> DEFINE at(n) == IF n < i THEN n ELSE n + 1
    <3>1. ASSUME NEW n \in 1..Len(r)  PROVE at(n) \in 1..Len(q) /\ r[n] = q[at(n)]
      <4>1. n \in 1..(i - 1) \/ n \in i..(Len(q) - 1)
        BY <2>1, <2>5
      <4> QED  BY <4>1, <2>1, <2>5
    <3>2. at(k) = at(j)
      <4> HIDE DEF at
      <4> QED  BY <3>1 DEF Distinct
    <3> QED  BY <3>2, <2>1, <2>5
  <2> QED  BY <2>2, <2>5, <2>6, <2>7, <2>8
<1> QED  BY <1>1, <1>2

----------------------------------------------------------------------------
(* What holds of a record.                                                 *)

Evidence(l) == [gen |-> l.gen, pr |-> l.pr]

\* MarkedMeansStaged of a record and the alerts that are settled.
Marked(l, done) ==
  LET staged == Keys(l.pending) \cup done
  IN /\ l.alerted => <<"endpoint", l.episode>> \in staged
     /\ l.turn.state = "failed" => <<"failed", l.turn.id>> \in staged
     /\ l.gate.open => <<"gate", l.gate.n>> \in staged

\* No gate of the session is newer than the record's: what it calls open is.
Behind(l, gate) ==
  /\ l.gate.n <= gate.n
  /\ l.gate.n = gate.n /\ gate.open => l.gate.open

\* A record, the alerts settled, the session's gate, and what the evidence was
\* taken under.
Good(l, done, gate, taken) ==
  /\ l \in LaneRecords
  /\ Distinct(l.pending)
  /\ l.end # "none" => l.owner # "claimed"
  /\ l.watch = "removed" => l.end # "none"
  /\ Marked(l, done)
  /\ Behind(l, gate)
  /\ l.valid /\ l.watch # "absent" => Evidence(l) = taken

\* A write keeps the watch, unless it ends it, and what the lane ended with.
Follows(l, new) ==
  /\ new.watch = l.watch
  /\ l.end # "none" => new.end = l.end

\* What an observation is like.
Observations ==
  [gen : 0..MaxGen, rev : 0..MaxRev, turn : Turns, gate : Gates,
   end : Ends \cup {"live"}, gates : BOOLEAN]

LEMMA StagedQueue ==
  ASSUME NEW l \in LaneRecords, NEW o \in Observations
  PROVE  /\ Staged(l, o) \in Seq(LaneAlerts)
         /\ Keys(l.pending) \subseteq Keys(Staged(l, o))
         /\ NewFailure(l, o) => <<"failed", o.turn.id>> \in Keys(Staged(l, o))
         /\ NewGate(l, o) => <<"gate", o.gate.n>> \in Keys(Staged(l, o))
         /\ Distinct(l.pending) => Distinct(Staged(l, o))
<1> DEFINE f == Alert("failed", o.turn.id, o.rev)
           s == Alert("stalled", o.turn.id, o.rev)
           g == Alert("gate", o.gate.n, o.rev)
           cf == NewFailure(l, o) \/ (EndSeen(l, o) /\ o.turn.state = "failed")
           cs == Stalled(l, o)
           cg == NewGate(l, o) \/ (EndSeen(l, o) /\ o.gate.open)
           q1 == AddedIf(cf, l.pending, f)
           q2 == AddedIf(cs, q1, s)
           q3 == AddedIf(cg, q2, g)
<1>1. /\ f \in LaneAlerts /\ s \in LaneAlerts /\ g \in LaneAlerts
      /\ Key(f) = <<"failed", o.turn.id>> /\ Key(g) = <<"gate", o.gate.n>>
  BY LaneConstants DEF Observations, LaneAlerts, Alert, Turns, Gates, Key
<1>2. l.pending \in Seq(LaneAlerts)
  BY DEF LaneRecords
<1>3. cf \in BOOLEAN /\ cs \in BOOLEAN /\ cg \in BOOLEAN
  BY DEF NewFailure, EndSeen, Stalled, Active, NewGate, Observations, Gates
<1>4. Staged(l, o) = q3
  BY DEF Staged
<1> HIDE DEF f, s, g, cf, cs, cg
<1>5. /\ q1 \in Seq(LaneAlerts) /\ Keys(l.pending) \subseteq Keys(q1)
      /\ cf => Key(f) \in Keys(q1)
      /\ Distinct(l.pending) => Distinct(q1)
  BY <1>1, <1>2, <1>3, AddedIfQueue
<1> HIDE DEF q1
<1>6. /\ q2 \in Seq(LaneAlerts) /\ Keys(q1) \subseteq Keys(q2)
      /\ Distinct(q1) => Distinct(q2)
  BY <1>1, <1>3, <1>5, AddedIfQueue
<1> HIDE DEF q2
<1>7. /\ q3 \in Seq(LaneAlerts) /\ Keys(q2) \subseteq Keys(q3)
      /\ cg => Key(g) \in Keys(q3)
      /\ Distinct(q2) => Distinct(q3)
  BY <1>1, <1>3, <1>6, AddedIfQueue
<1>8. (NewFailure(l, o) => cf) /\ (NewGate(l, o) => cg)
  BY DEF cf, cg
<1> HIDE DEF q3
<1> QED  BY <1>1, <1>4, <1>5, <1>6, <1>7, <1>8

\* An observation (apply_observation): of the session as it is, or of a failure
\* that was read and says nothing of gates.
LEMMA AppliedGood ==
  ASSUME NEW l, NEW o \in Observations, NEW done, NEW gate \in Gates, NEW taken,
         Good(l, done, gate, taken),
         gate.open => gate.n # 0,
         o.gate = gate \/ (o.gate = NoGate /\ ~o.gates)
  PROVE  Good(Applied(l, o), done, gate, taken) /\ Follows(l, Applied(l, o))
<1> DEFINE new == Applied(l, o)
           queue == Staged(l, o)
<1>1. l \in LaneRecords
  BY DEF Good
<1>2. /\ queue \in Seq(LaneAlerts)
      /\ Keys(l.pending) \subseteq Keys(queue)
      /\ NewFailure(l, o) => <<"failed", o.turn.id>> \in Keys(queue)
      /\ NewGate(l, o) => <<"gate", o.gate.n>> \in Keys(queue)
      /\ Distinct(queue)
  BY <1>1, StagedQueue DEF Good
<1>3. GateAfter(l, o) \in Gates
  BY <1>1 DEF GateAfter, LaneRecords, Gates, Observations
<1>4. StillValid(l, o.gen) \in BOOLEAN /\ (StillValid(l, o.gen) => l.valid /\ o.gen = l.gen)
  BY <1>1 DEF StillValid, LaneRecords
<1>5. Released(l.owner) \in {"unclaimed", "relinquished"}
  BY <1>1 DEF Released, LaneRecords
<1> HIDE DEF queue
<1>6. /\ new.watch = l.watch /\ new.gen = o.gen /\ new.episode = l.episode
      /\ new.alerted = FALSE /\ new.sdk = o.rev /\ new.turn = o.turn
      /\ new.gate = GateAfter(l, o)
      /\ new.owner = (IF EndSeen(l, o) THEN Released(l.owner) ELSE l.owner)
      /\ new.end = (IF EndSeen(l, o) THEN o.end ELSE l.end)
      /\ new.pr = l.pr /\ new.valid = StillValid(l, o.gen)
      /\ new.misses = 0 /\ new.suspended = FALSE /\ new.pending = queue
  BY <1>1 DEF Applied, LaneRecords, queue
<1>7. new \in LaneRecords
  <2> DEFINE end   == IF EndSeen(l, o) THEN o.end ELSE l.end
             owner == IF EndSeen(l, o) THEN Released(l.owner) ELSE l.owner
             gt    == GateAfter(l, o)
             val   == StillValid(l, o.gen)
  <2>1. /\ o.gen \in 0..MaxGen /\ o.rev \in 0..MaxRev /\ o.turn \in Turns
        /\ 0 \in 0..(MaxAttempts + Grace) /\ gt \in Gates /\ val \in BOOLEAN
        /\ queue \in Seq(LaneAlerts)
    BY <1>2, <1>3, <1>4, LaneConstants DEF Observations
  <2>2. end \in Ends \cup {"none", "retired", "gone"}
    BY <1>1 DEF EndSeen, Observations, LaneRecords
  <2>3. owner \in {"unclaimed", "claimed", "relinquished"}
    BY <1>1, <1>5 DEF LaneRecords
  <2>4. new = [l EXCEPT !.valid = val, !.gen = o.gen, !.sdk = o.rev,
                        !.alerted = FALSE, !.misses = 0, !.suspended = FALSE,
                        !.turn = o.turn, !.gate = gt, !.end = end, !.owner = owner,
                        !.pending = queue]
    BY <1>1 DEF Applied, LaneRecords, queue
  <2> HIDE DEF end, owner, gt, val, new
  <2> DEFINE half == [l EXCEPT !.valid = val, !.gen = o.gen, !.sdk = o.rev,
                               !.alerted = FALSE, !.misses = 0, !.suspended = FALSE]
  <2>5. half \in LaneRecords
    BY <1>1, <2>1 DEF LaneRecords
  <2>6. new = [half EXCEPT !.turn = o.turn, !.gate = gt, !.end = end, !.owner = owner,
                           !.pending = queue]
    BY <2>4
  <2> HIDE DEF half
  <2> QED  BY <2>1, <2>2, <2>3, <2>5, <2>6 DEF LaneRecords
<1> HIDE DEF new
<1>8. Marked(new, done)
  <2>1. o.turn.state = "failed" => <<"failed", o.turn.id>> \in Keys(queue) \cup done
    BY <1>2 DEF Good, Marked, NewFailure
  <2>2. new.gate.open => <<"gate", new.gate.n>> \in Keys(queue) \cup done
    <3>1. CASE o.gate.n > 0
      <4>1. new.gate = gate
        BY <3>1, <1>6 DEF GateAfter, NoGate
      <4>2. CASE gate.n > l.gate.n
        BY <4>1, <4>2, <3>1, <1>2, <1>6 DEF NewGate, GateAfter, NoGate
      <4>3. CASE gate.n <= l.gate.n
        BY <4>1, <4>3, <1>1, <1>2 DEF Good, Behind, Marked, Gates, LaneRecords
      <4> QED  BY <4>2, <4>3, <1>1 DEF Gates, LaneRecords
    <3>2. CASE ~(o.gate.n > 0)
      BY <3>2, <1>1, <1>2, <1>6 DEF GateAfter, Good, Marked, LaneRecords, Gates
    <3> QED  BY <3>1, <3>2
  <2> QED  BY <1>6, <2>1, <2>2 DEF Marked
<1>9. Behind(new, gate)
  <2>1. CASE o.gate.n > 0
    BY <2>1, <1>6 DEF GateAfter, NoGate, Behind, Gates
  <2>2. CASE ~(o.gate.n > 0) /\ o.gate = gate
    BY <2>2, <1>1, <1>6 DEF GateAfter, Behind, Good, Gates, LaneRecords
  <2>3. CASE ~(o.gate.n > 0) /\ ~o.gates
    BY <2>3, <1>6 DEF GateAfter, Behind, Good
  <2> QED  BY <2>1, <2>2, <2>3
<1>10. new.end # "none" => new.owner # "claimed"
  BY <1>5, <1>6 DEF Good
<1>11. new.watch = "removed" => new.end # "none"
  BY <1>6, LaneConstants DEF Good, EndSeen, Observations
<1>12. new.valid /\ new.watch # "absent" => Evidence(new) = taken
  BY <1>4, <1>6 DEF Good, Evidence
<1>13. Follows(l, new)
  BY <1>6 DEF Follows, EndSeen
<1> QED  BY <1>2, <1>6, <1>7, <1>8, <1>9, <1>10, <1>11, <1>12, <1>13 DEF Good, new

\* A failed poll (mark_unavailable) and an answer nobody can read.
LEMMA AlertedGood ==
  ASSUME NEW l, NEW done, NEW gate \in Gates, NEW taken, Good(l, done, gate, taken)
  PROVE  /\ Good(Alerted(l), done, gate, taken) /\ Follows(l, Alerted(l))
         /\ Alerted(l).misses = l.misses /\ Alerted(l).end = l.end
<1>1. CASE l.alerted
  BY <1>1 DEF Alerted, Good, Follows
<1>2. CASE ~l.alerted
  <2> DEFINE a == Alert("endpoint", l.episode + 1, l.sdk)
             queue == Added(l.pending, a)
             new == [l EXCEPT !.episode = @ + 1, !.alerted = TRUE, !.pending = queue]
  <2>1. l \in LaneRecords
    BY DEF Good
  <2>2. a \in LaneAlerts /\ Key(a) = <<"endpoint", l.episode + 1>>
    BY <2>1 DEF LaneRecords, LaneAlerts, Alert, Key
  <2>3. Alerted(l) = new
    BY <1>2 DEF Alerted
  <2> HIDE DEF a
  <2>4. /\ queue \in Seq(LaneAlerts) /\ Keys(queue) = Keys(l.pending) \cup {Key(a)}
        /\ Distinct(queue)
    <3>1. l.pending \in Seq(LaneAlerts)
      BY <2>1 DEF LaneRecords
    <3> QED  BY <3>1, <2>2, AddedQueue DEF Good
  <2> HIDE DEF queue
  <2>5. /\ new \in LaneRecords
        /\ new.watch = l.watch /\ new.gen = l.gen /\ new.episode = l.episode + 1
        /\ new.turn = l.turn /\ new.gate = l.gate /\ new.owner = l.owner /\ new.end = l.end
        /\ new.pr = l.pr /\ new.valid = l.valid /\ new.misses = l.misses /\ new.pending = queue
    <3>1. l.episode + 1 \in Nat
      BY <2>1 DEF LaneRecords
    <3>2. new \in LaneRecords
      BY <2>1, <2>4, <3>1 DEF LaneRecords
    <3> QED  BY <2>1, <3>2 DEF LaneRecords
  <2> HIDE DEF new
  <2>6. Marked(new, done)
    BY <2>2, <2>4, <2>5 DEF Marked, Good
  <2> QED  BY <2>3, <2>4, <2>5, <2>6 DEF Good, Behind, Evidence, Follows
<1>3. l.alerted \in BOOLEAN
  BY DEF Good, LaneRecords
<1> QED  BY <1>1, <1>2, <1>3

LEMMA UnavailableGood ==
  ASSUME NEW l, NEW done, NEW gate \in Gates, NEW taken, Good(l, done, gate, taken)
  PROVE  Good(Unavailable(l), done, gate, taken) /\ Follows(l, Unavailable(l))
<1> DEFINE k == Alerted(l)
           c == l.end = "none" /\ Missed(l.misses) >= MaxAttempts
           new == [k EXCEPT !.misses = Missed(l.misses), !.suspended = @ \/ c]
<1>1. Good(k, done, gate, taken) /\ Follows(l, k) /\ l \in LaneRecords /\ k \in LaneRecords
  BY AlertedGood DEF Good
<1>2. Missed(l.misses) \in 0..(MaxAttempts + Grace)
  <2>1. l.misses \in 0..(MaxAttempts + Grace) /\ MaxAttempts \in Nat /\ Grace \in Nat
    BY <1>1, LaneConstants DEF LaneRecords
  <2> QED  BY <2>1 DEF Missed
<1>3. Unavailable(l) = new
  BY DEF Unavailable
<1> HIDE DEF k, c
<1>4. (k.suspended \/ c) \in BOOLEAN
  BY <1>1 DEF c, LaneRecords
<1>5. /\ new \in LaneRecords
      /\ new.watch = k.watch /\ new.gen = k.gen /\ new.episode = k.episode
      /\ new.alerted = k.alerted /\ new.turn = k.turn /\ new.gate = k.gate
      /\ new.owner = k.owner /\ new.end = k.end
      /\ new.pr = k.pr /\ new.valid = k.valid /\ new.pending = k.pending
  BY <1>1, <1>2, <1>4 DEF LaneRecords
<1> HIDE DEF new
<1> QED  BY <1>1, <1>3, <1>5 DEF Good, Marked, Behind, Evidence, Follows

\* The writes that queue nothing: another generation is noted, the session is
\* gone, its lane is retired or bound to a request anew.
LEMMA QuietGood ==
  ASSUME NEW l, NEW done, NEW gate \in Gates, NEW taken, Good(l, done, gate, taken)
  PROVE  /\ \A gen \in 0..MaxGen : /\ Good(Rotated(l, gen), done, gate, taken)
                                   /\ Follows(l, Rotated(l, gen))
                                   /\ Rotated(l, gen).pending = l.pending
         /\ l.end = "none" => /\ Good(Gone(l), done, gate, taken) /\ Follows(l, Gone(l))
                              /\ Gone(l).pending = l.pending
         /\ Good(Retired(l), done, gate, taken) /\ Follows(l, Retired(l))
         /\ Retired(l).pending = l.pending
         /\ head \in 0..MaxHead => /\ Good(Rebound(l), done, gate, taken)
                                   /\ Follows(l, Rebound(l))
                                   /\ Rebound(l).pending = l.pending
         /\ Good([l EXCEPT !.suspended = FALSE, !.misses = 0], done, gate, taken)
         /\ l.end = "none" => Good([l EXCEPT !.owner = "claimed"], done, gate, taken)
         /\ \A rev \in 0..MaxRev : Good([l EXCEPT !.sdk = rev], done, gate, taken)
<1>1. l \in LaneRecords
  BY DEF Good
<1>2. ASSUME NEW gen \in 0..MaxGen
      PROVE  /\ Good(Rotated(l, gen), done, gate, taken) /\ Follows(l, Rotated(l, gen))
             /\ Rotated(l, gen).pending = l.pending
  <2> DEFINE new == [l EXCEPT !.gen = gen, !.episode = @ + 1, !.alerted = FALSE, !.valid = FALSE]
  <2>1. CASE gen = l.gen
    BY <2>1 DEF Rotated, Follows
  <2>2. CASE gen # l.gen
    <3>1. /\ new \in LaneRecords
          /\ new.watch = l.watch /\ new.alerted = FALSE /\ new.turn = l.turn /\ new.gate = l.gate
          /\ new.owner = l.owner /\ new.end = l.end /\ new.valid = FALSE
          /\ new.pending = l.pending
      <4>1. l.episode + 1 \in Nat
        BY <1>1 DEF LaneRecords
      <4>2. new \in LaneRecords
        BY <1>1, <4>1 DEF LaneRecords
      <4> QED  BY <1>1, <4>2 DEF LaneRecords
    <3>2. Rotated(l, gen) = new
      BY <2>2 DEF Rotated
    <3> HIDE DEF new
    <3> QED  BY <3>1, <3>2 DEF Good, Marked, Behind, Evidence, Follows
  <2> QED  BY <2>1, <2>2
<1>3. Released(l.owner) \in {"unclaimed", "relinquished"}
  BY <1>1 DEF Released, LaneRecords
<1>4. ASSUME l.end = "none"
      PROVE  /\ Good(Gone(l), done, gate, taken) /\ Follows(l, Gone(l))
             /\ Gone(l).pending = l.pending
  <2> DEFINE new == [l EXCEPT !.end = "gone", !.valid = FALSE, !.misses = 0, !.owner = Released(@)]
  <2>1. /\ new \in LaneRecords
        /\ new.watch = l.watch /\ new.alerted = l.alerted /\ new.episode = l.episode
        /\ new.turn = l.turn /\ new.gate = l.gate
        /\ new.owner = Released(l.owner) /\ new.end = "gone" /\ new.valid = FALSE
        /\ new.pending = l.pending
    <3>1. 0 \in 0..(MaxAttempts + Grace)
      BY LaneConstants
    <3>2. new \in LaneRecords
      BY <1>1, <1>3, <3>1 DEF LaneRecords
    <3> QED  BY <1>1, <3>2 DEF LaneRecords
  <2>2. Gone(l) = new
    BY DEF Gone
  <2> HIDE DEF new
  <2> QED  BY <1>3, <1>4, <2>1, <2>2 DEF Good, Marked, Behind, Evidence, Follows
<1>5. /\ Good(Retired(l), done, gate, taken) /\ Follows(l, Retired(l))
      /\ Retired(l).pending = l.pending
  <2> DEFINE new == [l EXCEPT !.end = "retired", !.owner = Released(@)]
  <2>1. CASE l.end # "none"
    BY <2>1 DEF Retired, Follows
  <2>2. CASE l.end = "none"
    <3>1. /\ new \in LaneRecords
          /\ new.watch = l.watch /\ new.alerted = l.alerted /\ new.episode = l.episode
          /\ new.turn = l.turn /\ new.gate = l.gate /\ new.gen = l.gen /\ new.pr = l.pr
          /\ new.owner = Released(l.owner) /\ new.end = "retired" /\ new.valid = l.valid
          /\ new.pending = l.pending
      BY <1>1, <1>3, LaneConstants DEF LaneRecords
    <3>2. Retired(l) = new
      BY <2>2 DEF Retired
    <3> HIDE DEF new
    <3> QED  BY <1>3, <2>2, <3>1, <3>2 DEF Good, Marked, Behind, Evidence, Follows
  <2> QED  BY <2>1, <2>2
<1>6. ASSUME head \in 0..MaxHead
      PROVE  /\ Good(Rebound(l), done, gate, taken) /\ Follows(l, Rebound(l))
             /\ Rebound(l).pending = l.pending
  <2> DEFINE closed == [l EXCEPT !.valid = FALSE]
             moved  == [l EXCEPT !.valid = @ /\ head = l.pr, !.pr = head]
  <2>1. CASE head = 0
    <3>1. /\ closed \in LaneRecords
          /\ closed.watch = l.watch /\ closed.alerted = l.alerted /\ closed.episode = l.episode
          /\ closed.turn = l.turn /\ closed.gate = l.gate
          /\ closed.owner = l.owner /\ closed.end = l.end /\ closed.valid = FALSE
          /\ closed.pending = l.pending
      BY <1>1 DEF LaneRecords
    <3>2. Rebound(l) = closed
      BY <2>1 DEF Rebound
    <3> HIDE DEF closed
    <3> QED  BY <3>1, <3>2 DEF Good, Marked, Behind, Evidence, Follows
  <2>2. CASE head # 0
    <3>1. (l.valid /\ head = l.pr) \in BOOLEAN
      BY <1>1 DEF LaneRecords
    <3>2. /\ moved \in LaneRecords
          /\ moved.watch = l.watch /\ moved.alerted = l.alerted /\ moved.episode = l.episode
          /\ moved.turn = l.turn /\ moved.gate = l.gate /\ moved.gen = l.gen /\ moved.pr = head
          /\ moved.owner = l.owner /\ moved.end = l.end
          /\ moved.valid = (l.valid /\ head = l.pr)
          /\ moved.pending = l.pending
      BY <1>1, <1>6, <3>1 DEF LaneRecords
    <3>3. Rebound(l) = moved
      BY <2>2 DEF Rebound
    <3> HIDE DEF moved
    <3> QED  BY <3>2, <3>3 DEF Good, Marked, Behind, Evidence, Follows
  <2> QED  BY <2>1, <2>2
<1>7. Good([l EXCEPT !.suspended = FALSE, !.misses = 0], done, gate, taken)
  <2> DEFINE new == [l EXCEPT !.suspended = FALSE, !.misses = 0]
  <2>1. /\ new \in LaneRecords
        /\ new.watch = l.watch /\ new.alerted = l.alerted /\ new.episode = l.episode
        /\ new.turn = l.turn /\ new.gate = l.gate /\ new.gen = l.gen /\ new.pr = l.pr
        /\ new.owner = l.owner /\ new.end = l.end /\ new.valid = l.valid
        /\ new.pending = l.pending
    <3>1. 0 \in 0..(MaxAttempts + Grace)
      BY LaneConstants
    <3>2. new \in LaneRecords
      BY <1>1, <3>1 DEF LaneRecords
    <3> QED  BY <1>1, <3>2 DEF LaneRecords
  <2> HIDE DEF new
  <2>2. Good(new, done, gate, taken)
    BY <2>1 DEF Good, Marked, Behind, Evidence
  <2> QED  BY <2>2 DEF new
<1>8. ASSUME l.end = "none"  PROVE Good([l EXCEPT !.owner = "claimed"], done, gate, taken)
  <2> DEFINE new == [l EXCEPT !.owner = "claimed"]
  <2>1. /\ new \in LaneRecords
        /\ new.watch = l.watch /\ new.alerted = l.alerted /\ new.episode = l.episode
        /\ new.turn = l.turn /\ new.gate = l.gate /\ new.gen = l.gen /\ new.pr = l.pr
        /\ new.end = l.end /\ new.valid = l.valid /\ new.pending = l.pending
    BY <1>1 DEF LaneRecords
  <2> HIDE DEF new
  <2>2. Good(new, done, gate, taken)
    BY <1>8, <2>1 DEF Good, Marked, Behind, Evidence
  <2> QED  BY <2>2 DEF new
<1>9. ASSUME NEW rev \in 0..MaxRev  PROVE Good([l EXCEPT !.sdk = rev], done, gate, taken)
  <2> DEFINE new == [l EXCEPT !.sdk = rev]
  <2>1. /\ new \in LaneRecords
        /\ new.watch = l.watch /\ new.alerted = l.alerted /\ new.episode = l.episode
        /\ new.turn = l.turn /\ new.gate = l.gate /\ new.gen = l.gen /\ new.pr = l.pr
        /\ new.owner = l.owner /\ new.end = l.end /\ new.valid = l.valid
        /\ new.pending = l.pending
    BY <1>1 DEF LaneRecords
  <2> HIDE DEF new
  <2>2. Good(new, done, gate, taken)
    BY <2>1 DEF Good, Marked, Behind, Evidence
  <2> QED  BY <2>2 DEF new
<1> QED  BY <1>2, <1>4, <1>5, <1>6, <1>7, <1>8, <1>9

\* The watch of a lane that is over goes (remove_ghost_watch).
LEMMA RemovedGood ==
  ASSUME NEW l, NEW done, NEW gate \in Gates, NEW taken, Good(l, done, gate, taken),
         l.end # "none", l.watch # "absent"
  PROVE  Good(Removed(l), done, gate, taken)
<1> DEFINE new == [l EXCEPT !.watch = "removed"]
<1>1. /\ new \in LaneRecords
      /\ new.watch = "removed" /\ new.alerted = l.alerted /\ new.episode = l.episode
      /\ new.turn = l.turn /\ new.gate = l.gate /\ new.gen = l.gen /\ new.pr = l.pr
      /\ new.owner = l.owner /\ new.end = l.end /\ new.valid = l.valid
      /\ new.pending = l.pending
  BY DEF Good, LaneRecords
<1>2. Removed(l) = new
  BY DEF Removed
<1> HIDE DEF new
<1> QED  BY <1>1, <1>2 DEF Good, Marked, Behind, Evidence

\* An alert that is settled leaves the queue.
LEMMA WithoutGood ==
  ASSUME NEW l, NEW done, NEW gate \in Gates, NEW taken, Good(l, done, gate, taken), NEW a
  PROVE  LET new == [l EXCEPT !.pending = Without(@, a)]
         IN /\ Good(new, done \cup {<<a.kind, a.n>>}, gate, taken) /\ Follows(l, new)
            /\ Keys(new.pending) \subseteq Keys(l.pending)
            /\ Len(new.pending) <= Len(l.pending)
<1> DEFINE queue == Without(l.pending, a)
           new   == [l EXCEPT !.pending = queue]
<1>1. l \in LaneRecords /\ l.pending \in Seq(LaneAlerts)
  BY DEF Good, LaneRecords
<1>2. /\ queue \in Seq(LaneAlerts) /\ Keys(queue) \subseteq Keys(l.pending)
      /\ Keys(l.pending) \subseteq Keys(queue) \cup {Key(a)}
      /\ Len(queue) <= Len(l.pending)
      /\ Distinct(queue)
  BY <1>1, WithoutQueue DEF Good
<1>3. Key(a) = <<a.kind, a.n>>
  BY DEF Key
<1> HIDE DEF queue
<1>4. /\ new \in LaneRecords
      /\ new.watch = l.watch /\ new.alerted = l.alerted /\ new.episode = l.episode
      /\ new.turn = l.turn /\ new.gate = l.gate /\ new.gen = l.gen /\ new.pr = l.pr
      /\ new.owner = l.owner /\ new.end = l.end /\ new.valid = l.valid
      /\ new.pending = queue
  BY <1>1, <1>2 DEF LaneRecords
<1> HIDE DEF new
<1>5. Marked(new, done \cup {<<a.kind, a.n>>})
  BY <1>2, <1>3, <1>4 DEF Marked, Good
<1>6. Good(new, done \cup {<<a.kind, a.n>>}, gate, taken) /\ Follows(l, new)
  BY <1>2, <1>4, <1>5 DEF Good, Behind, Evidence, Follows
<1> QED  BY <1>2, <1>4, <1>6 DEF new, queue

\* A lane is registered, or a session takes its tombstone back: its evidence is new.
LEMMA RegisteredGood ==
  ASSUME NEW gen \in 0..MaxGen, NEW owner \in {"unclaimed", "claimed"}, NEW pr \in 0..MaxHead,
         NEW gate \in Gates, NEW done, gate.open => gate.n # 0
  PROVE  /\ Good(Registered(gen, owner, pr), done, gate, [gen |-> gen, pr |-> pr])
         /\ Registered(gen, owner, pr).watch = "on"
         /\ Registered(gen, owner, pr).pending = <<>>
<1> DEFINE new == Registered(gen, owner, pr)
<1>1. NoTurn \in Turns /\ NoGate \in Gates
  BY LaneConstants DEF NoTurn, NoGate, Turns, Gates
<1>2. <<>> \in Seq(LaneAlerts) /\ Distinct(<<>>)
  BY DEF Distinct
<1>3. /\ new \in LaneRecords
      /\ new.watch = "on" /\ new.alerted = FALSE /\ new.turn = NoTurn /\ new.gate = NoGate
      /\ new.gen = gen /\ new.pr = pr /\ new.end = "none" /\ new.pending = <<>>
  BY <1>1, <1>2, LaneConstants DEF Registered, LaneRecords
<1> HIDE DEF new
<1>4. Marked(new, done) /\ Behind(new, gate)
  BY <1>3 DEF Marked, Behind, NoTurn, NoGate, Gates
<1> QED  BY <1>2, <1>3, <1>4 DEF Good, Evidence, new

LEMMA ReclaimedGood ==
  ASSUME NEW l, NEW done, NEW old, NEW gate \in Gates, NEW taken, Good(l, old, gate, taken),
         gate.open => gate.n # 0, NEW gen \in 0..MaxGen
  PROVE  /\ Good(Reclaimed(l, gen), done, gate, [gen |-> gen, pr |-> 0])
         /\ Reclaimed(l, gen).watch = "on"
         /\ Reclaimed(l, gen).pending = l.pending
<1> DEFINE r   == Registered(gen, "unclaimed", 0)
           new == [r EXCEPT !.suspended = l.suspended, !.pending = l.pending]
<1>1. Good(r, done, gate, [gen |-> gen, pr |-> 0]) /\ r.watch = "on"
  BY RegisteredGood, LaneConstants
<1>2. /\ r \in LaneRecords /\ r.alerted = FALSE /\ r.turn = NoTurn /\ r.gate = NoGate
      /\ l.suspended \in BOOLEAN /\ l.pending \in Seq(LaneAlerts)
  BY <1>1 DEF Good, Registered, LaneRecords
<1>3. Reclaimed(l, gen) = new
  BY DEF Reclaimed
<1> HIDE DEF r
<1>4. /\ new \in LaneRecords
      /\ new.watch = "on" /\ new.alerted = FALSE /\ new.turn = NoTurn /\ new.gate = NoGate
      /\ new.gen = r.gen /\ new.pr = r.pr /\ new.owner = r.owner /\ new.end = r.end
      /\ new.valid = r.valid /\ new.pending = l.pending
  BY <1>1, <1>2 DEF LaneRecords
<1> HIDE DEF new
<1>5. Marked(new, done)
  BY <1>4 DEF Marked, NoTurn, NoGate
<1>6. Good(new, done, gate, [gen |-> gen, pr |-> 0])
  BY <1>1, <1>2, <1>4, <1>5 DEF Good, Behind, Evidence
<1> QED  BY <1>3, <1>4, <1>6

----------------------------------------------------------------------------
(* The inductive invariant.                                                *)

OtherTypes ==
  /\ sess \in Sessions
  /\ head \in 0..MaxHead
  /\ pass \in [Pollers -> PassRecords]
  /\ read \in [rev : 0..MaxRev, turn : Turns]
  /\ told \in [rev : 0..MaxRev, turn : 0..MaxTurn]
  /\ incidents \in 0..MaxIncidents
  /\ enrolled \in [gen : 0..MaxGen, pr : 0..MaxHead]

\* Before a lane is registered nobody has read it.
Unborn ==
  lane.watch = "absent" =>
    /\ lane = NoLane /\ read = NoRead
    /\ pass = [p \in Pollers |-> Resting]

LaneIInv ==
  /\ OtherTypes
  /\ sess.gate.open => sess.gate.n # 0
  /\ Good(lane, settled, sess.gate, enrolled)
  /\ Len(lane.pending) <= PendingCap
  /\ TombstonesDrained
  /\ Unborn

LEMMA LaneIInvImplies == LaneIInv => LaneInv /\ EvidenceSound
BY DEF LaneIInv, OtherTypes, Good, Marked, Evidence, LaneInv, LaneTypeOK, EvidenceSound,
       MarkedMeansStaged, Queued

LEMMA LaneInitial == LaneInit => LaneIInv
<1> SUFFICES ASSUME LaneInit  PROVE LaneIInv
  OBVIOUS
<1> DEFINE r == Registered(0, "unclaimed", 0)
<1>1. sess \in Sessions /\ sess.gate = NoGate /\ NoGate \in Gates /\ NoGate.open = FALSE
  BY LaneConstants DEF LaneInit, Sessions, NoGate, Gates, Turns
<1>2. Resting \in PassRecords
  BY DEF Resting, PassRecords
<1>3. NoTurn \in Turns
  BY LaneConstants DEF NoTurn, Turns
<1>4. OtherTypes
  <2>1. head \in 0..MaxHead /\ pass \in [Pollers -> PassRecords]
    BY <1>2, LaneConstants DEF LaneInit
  <2>2. read \in [rev : 0..MaxRev, turn : Turns] /\ told \in [rev : 0..MaxRev, turn : 0..MaxTurn]
    BY <1>3, LaneConstants DEF LaneInit, NoRead, Untold
  <2>3. incidents \in 0..MaxIncidents /\ enrolled \in [gen : 0..MaxGen, pr : 0..MaxHead]
    BY LaneConstants DEF LaneInit
  <2> QED  BY <1>1, <2>1, <2>2, <2>3 DEF OtherTypes
<1>5. Good(r, settled, sess.gate, [gen |-> 0, pr |-> 0]) /\ r.pending = <<>>
  BY <1>1, RegisteredGood, LaneConstants
<1>6. Good(lane, settled, sess.gate, enrolled) /\ lane.watch = "absent" /\ lane.pending = <<>>
  <2>1. lane = [r EXCEPT !.watch = "absent"]
    BY DEF LaneInit, NoLane
  <2>2. r \in LaneRecords
    BY <1>5 DEF Good
  <2> HIDE DEF r
  <2>3. /\ lane \in LaneRecords
        /\ lane.watch = "absent" /\ lane.alerted = r.alerted /\ lane.episode = r.episode
        /\ lane.turn = r.turn /\ lane.gate = r.gate
        /\ lane.owner = r.owner /\ lane.end = r.end /\ lane.pending = r.pending
    BY <2>1, <2>2 DEF LaneRecords
  <2> QED  BY <1>5, <2>3 DEF Good, Marked, Behind
<1>7. Len(lane.pending) <= PendingCap /\ TombstonesDrained /\ Unborn
  BY <1>6, LaneConstants DEF TombstonesDrained, Unborn, LaneInit
<1> QED  BY <1>1, <1>4, <1>6, <1>7 DEF LaneIInv

----------------------------------------------------------------------------
(* What a step makes of the record.                                        *)

\* The record is as it must be after a step, and what is over stays over.
WellWritten ==
  /\ Good(lane', settled', sess.gate, enrolled')
  /\ Len(lane'.pending) <= PendingCap
  /\ lane'.watch = "removed" => Keys(lane'.pending) \subseteq late'
  /\ lane'.watch # "absent"
  /\ StaysOver

\* A step that writes nothing.
LEMMA Unwritten ==
  ASSUME LaneIInv, lane.watch # "absent", UNCHANGED <<lane, enrolled, settled, late>>
  PROVE  WellWritten
BY DEF LaneIInv, WellWritten, TombstonesDrained, Queued, StaysOver

\* A step that neither ends the watch nor begins one.
LEMMA Written ==
  ASSUME LaneIInv, lane.watch # "absent", Follows(lane, lane'),
         Good(lane', settled', sess.gate, enrolled'),
         Len(lane'.pending) <= PendingCap,
         NoteLate \/ (late' = late /\ Keys(lane'.pending) \subseteq Keys(lane.pending))
  PROVE  WellWritten
BY DEF LaneIInv, WellWritten, Follows, NoteLate, TombstonesDrained, Queued, StaysOver

\* A step that ends it.
LEMMA WatchRemoved ==
  ASSUME LaneIInv, Removable(lane), lane' = Removed(lane),
         UNCHANGED <<enrolled, settled>>
  PROVE  WellWritten
<1>1. Good(Removed(lane), settled, sess.gate, enrolled)
  BY RemovedGood DEF LaneIInv, OtherTypes, Sessions, Removable
<1>2. lane'.watch = "removed" /\ lane'.pending = <<>> /\ lane'.end = lane.end
  BY DEF Removed, Removable, LaneIInv, Good, LaneRecords
<1>3. Keys(<<>>) = {} /\ Len(<<>>) = 0
  BY DEF Keys
<1> QED  BY <1>1, <1>2, <1>3, LaneConstants DEF WellWritten, StaysOver

LEMMA ObservationType == ASSUME LaneIInv  PROVE Observation \in Observations
BY DEF LaneIInv, OtherTypes, Sessions, Observation, Observations, Turn, Turns, Gates

\* Who takes a step of a pass that is under way has a record.
LEMMA UnderWay ==
  ASSUME LaneIInv, NEW p \in Pollers, ~At(p, "idle")
  PROVE  lane.watch # "absent"
BY DEF LaneIInv, Unborn, At, Resting

LEMMA BeginPollWrites ==
  ASSUME LaneIInv, NEW p \in Pollers, BeginPoll(p)
  PROVE  WellWritten
<1>1. CASE Enrolled = lane /\ UNCHANGED <<enrolled, settled, late>>
  <2>1. lane.watch # "absent" /\ lane' = lane
    BY <1>1 DEF BeginPoll, Move, Write
  <2> QED  BY <1>1, <2>1, Unwritten
<1>2. CASE Enrolled # lane /\ BeginPoll(p)
  <2>1. /\ lane' = Enrolled /\ enrolled' = [gen |-> sess.gen, pr |-> 0]
        /\ settled' = {} /\ late' = {}
    BY <1>2 DEF BeginPoll
  <2>2. /\ sess.gen \in 0..MaxGen /\ sess.gate \in Gates /\ 0 \in 0..MaxHead
        /\ sess.gate.open => sess.gate.n # 0
    BY LaneConstants DEF LaneIInv, OtherTypes, Sessions
  <2>3. CASE Reclaimable(lane)
    <3>1. lane' = Reclaimed(lane, sess.gen)
      BY <2>1, <2>3 DEF Enrolled
    <3>2. /\ Good(lane', {}, sess.gate, [gen |-> sess.gen, pr |-> 0])
          /\ lane'.watch = "on" /\ lane'.pending = lane.pending
      BY <2>2, <3>1, ReclaimedGood DEF LaneIInv
    <3> QED  BY <2>1, <2>3, <3>2 DEF WellWritten, StaysOver, Reclaimable, LaneIInv
  <2>4. CASE ~Reclaimable(lane)
    <3>1. lane.watch = "absent" /\ lane' = Registered(sess.gen, "unclaimed", 0)
      BY <1>2, <2>1, <2>4 DEF Enrolled
    <3>2. /\ Good(lane', {}, sess.gate, [gen |-> sess.gen, pr |-> 0])
          /\ lane'.watch = "on" /\ lane'.pending = <<>>
      BY <2>2, <3>1, RegisteredGood
    <3>3. lane.end = "none"
      BY <3>1 DEF LaneIInv, Unborn, NoLane, Registered
    <3> QED  BY <2>1, <3>2, <3>3, LaneConstants DEF WellWritten, StaysOver
  <2> QED  BY <2>3, <2>4
<1> QED  BY <1>1, <1>2 DEF BeginPoll

LEMMA AcknowledgedWrites ==
  ASSUME LaneIInv, NEW p \in Pollers, Acknowledged(p)
  PROVE  WellWritten
<1> DEFINE a   == pass[p].alert
           new == [lane EXCEPT !.pending = Without(@, a)]
<1>1. lane' = new /\ settled' = settled \cup {<<a.kind, a.n>>} /\ UNCHANGED <<enrolled, late>>
  BY DEF Acknowledged
<1>2. lane.watch # "absent"
  BY UnderWay DEF Acknowledged, At
<1>3. /\ Good(new, settled \cup {<<a.kind, a.n>>}, sess.gate, enrolled) /\ Follows(lane, new)
      /\ Keys(new.pending) \subseteq Keys(lane.pending)
      /\ Len(new.pending) <= Len(lane.pending)
  BY WithoutGood DEF LaneIInv, OtherTypes, Sessions
<1>4. Len(new.pending) <= PendingCap
  <2>1. Len(new.pending) \in Nat /\ Len(lane.pending) \in Nat
    BY <1>3 DEF Good, LaneRecords, LaneIInv
  <2> QED  BY <1>3, <2>1, LaneConstants DEF LaneIInv
<1> HIDE DEF new, a
<1> QED  BY <1>1, <1>2, <1>3, <1>4, Written

LEMMA RecheckWrites ==
  ASSUME LaneIInv, NEW p \in Pollers, Recheck(p)
  PROVE  WellWritten
<1> DEFINE a   == pass[p].alert
           o   == Observation
           new == IF o.rev > lane.sdk THEN Applied(lane, o) ELSE lane
           less == [new EXCEPT !.pending = Without(@, a)]
           key == <<a.kind, a.n>>
<1>1. lane.watch # "absent"
  BY UnderWay DEF Recheck, At
<1>2. Good(new, settled, sess.gate, enrolled) /\ Follows(lane, new)
  <2>1. Good(Applied(lane, o), settled, sess.gate, enrolled) /\ Follows(lane, Applied(lane, o))
    <3>1. o \in Observations /\ o.gate = sess.gate
      BY ObservationType DEF Observation
    <3> HIDE DEF o
    <3> QED  BY <3>1, AppliedGood DEF LaneIInv, OtherTypes, Sessions
  <2>2. Good(lane, settled, sess.gate, enrolled) /\ Follows(lane, lane)
    BY DEF LaneIInv, Follows
  <2> QED  BY <2>1, <2>2
<1>3. /\ \/ lane' = lane /\ settled' = settled
         \/ lane' = new /\ settled' = settled /\ Fits(new.pending)
         \/ lane' = less /\ settled' = settled \cup {key} /\ Fits(new.pending)
      /\ NoteLate /\ enrolled' = enrolled
  <2> HIDE DEF new, o, a
  <2> QED  BY DEF Recheck, Move, Write, new, o, a
<1> HIDE DEF new, o, key
<1>4. CASE lane' = lane /\ settled' = settled
  <2>1. Follows(lane, lane') /\ Good(lane', settled', sess.gate, enrolled')
        /\ Len(lane'.pending) <= PendingCap
    BY <1>3, <1>4 DEF LaneIInv, Follows
  <2> QED  BY <1>1, <1>3, <2>1, Written
<1>5. CASE lane' = new /\ settled' = settled /\ Fits(new.pending)
  BY <1>1, <1>2, <1>3, <1>5, Written DEF Fits
<1>6. CASE lane' = less /\ settled' = settled \cup {key} /\ Fits(new.pending)
  <2>1. /\ Good(less, settled \cup {key}, sess.gate, enrolled) /\ Follows(new, less)
        /\ Len(less.pending) <= Len(new.pending)
    BY <1>2, WithoutGood DEF LaneIInv, OtherTypes, Sessions, key
  <2>2. Len(less.pending) \in Nat /\ Len(new.pending) \in Nat
    BY <1>2, <2>1 DEF Good, LaneRecords
  <2> HIDE DEF less
  <2>3. Len(less.pending) <= PendingCap /\ Follows(lane, less)
    BY <1>2, <1>6, <2>1, <2>2, LaneConstants DEF Fits, Follows
  <2> QED  BY <1>1, <1>3, <1>6, <2>1, <2>3, Written
<1> QED  BY <1>3, <1>4, <1>5, <1>6

LEMMA ExamineWrites ==
  ASSUME LaneIInv, NEW p \in Pollers, Examine(p)
  PROVE  WellWritten
<1>1. lane.watch # "absent"
  BY UnderWay DEF Examine, At
<1>2. NoteLate /\ enrolled' = enrolled /\ settled' = settled
  BY DEF Examine
<1>3. \/ lane' = lane
      \/ Removable(lane) /\ lane' = Removed(lane)
      \/ lane' = Learnt(lane) /\ ~Silent(lane) /\ Fits(Learnt(lane).pending)
  BY DEF Examine, Move, Write
<1>4. CASE lane' = lane
  <2>1. Follows(lane, lane') /\ Good(lane', settled', sess.gate, enrolled')
        /\ Len(lane'.pending) <= PendingCap
    BY <1>2, <1>4 DEF LaneIInv, Follows
  <2> QED  BY <1>1, <1>2, <2>1, Written
<1>5. CASE Removable(lane) /\ lane' = Removed(lane)
  BY <1>2, <1>5, WatchRemoved
<1>6. CASE lane' = Learnt(lane) /\ ~Silent(lane) /\ Fits(Learnt(lane).pending)
  <2> DEFINE new == Learnt(lane)
  <2>1. sess.gate \in Gates /\ sess.gen \in 0..MaxGen /\ (sess.gate.open => sess.gate.n # 0)
    BY DEF LaneIInv, OtherTypes, Sessions
  <2>2. CASE Reply(lane) = "ok"
    <3>1. new = Applied(lane, Observation)
      BY <2>2 DEF Learnt
    <3>2. Observation \in Observations /\ Observation.gate = sess.gate
      BY ObservationType DEF Observation
    <3>3. Good(new, settled, sess.gate, enrolled) /\ Follows(lane, new)
      BY <2>1, <3>1, <3>2, AppliedGood DEF LaneIInv
    <3> QED  BY <1>1, <1>2, <1>6, <3>3, Written DEF Fits
  <2>3. CASE Reply(lane) = "gone" /\ lane.end = "none"
    <3>1. new = Gone(lane)
      BY <2>3 DEF Learnt
    <3>2. Good(new, settled, sess.gate, enrolled) /\ Follows(lane, new)
      <4>1. Good(Gone(lane), settled, sess.gate, enrolled) /\ Follows(lane, Gone(lane))
        BY <2>1, <2>3, QuietGood DEF LaneIInv
      <4> HIDE DEF new
      <4> QED  BY <3>1, <4>1
    <3> QED  BY <1>1, <1>2, <1>6, <3>2, Written DEF Fits
  <2>4. CASE Reply(lane) = "gone" /\ lane.end # "none"
    <3>1. new = Removed(lane) /\ Removable(lane)
      BY <1>6, <2>4 DEF Learnt, Silent
    <3> QED  BY <1>2, <1>6, <3>1, WatchRemoved
  <2>5. CASE Reply(lane) = "rotated"
    <3>1. new = Rotated(lane, sess.gen)
      BY <2>5 DEF Learnt
    <3>2. Good(new, settled, sess.gate, enrolled) /\ Follows(lane, new)
      <4>1. Good(Rotated(lane, sess.gen), settled, sess.gate, enrolled)
            /\ Follows(lane, Rotated(lane, sess.gen))
        BY <2>1, QuietGood DEF LaneIInv
      <4> HIDE DEF new
      <4> QED  BY <3>1, <4>1
    <3> QED  BY <1>1, <1>2, <1>6, <3>2, Written DEF Fits
  <2>6. CASE Reply(lane) = "down"
    <3>1. new = Unavailable(lane)
      BY <2>6 DEF Learnt
    <3>2. Good(new, settled, sess.gate, enrolled) /\ Follows(lane, new)
      BY <2>1, <3>1, UnavailableGood DEF LaneIInv
    <3> QED  BY <1>1, <1>2, <1>6, <3>2, Written DEF Fits
  <2> QED  BY <2>2, <2>3, <2>4, <2>5, <2>6 DEF Reply
<1> QED  BY <1>3, <1>4, <1>5, <1>6

LEMMA PollWrites ==
  ASSUME LaneIInv, NEW p \in Pollers, Poll(p)
  PROVE  WellWritten
<1>1. CASE BeginPoll(p)
  BY <1>1, BeginPollWrites
<1>2. CASE EndReplay(p) \/ GiveUp(p) \/ Attempt(p) \/ Refused(p) \/ Defer(p)
  <2>1. ~At(p, "idle") /\ UNCHANGED <<lane, enrolled, settled, late>>
    BY <1>2 DEF EndReplay, GiveUp, Attempt, Refused, Defer, At, Move, Write
  <2> QED  BY <2>1, UnderWay, Unwritten
<1>3. CASE Acknowledged(p)
  BY <1>3, AcknowledgedWrites
<1>4. CASE Recheck(p)
  BY <1>4, RecheckWrites
<1>5. CASE Examine(p)
  BY <1>5, ExamineWrites
<1>6. CASE Ambiguous(p)
  <2>1. lane.watch # "absent" /\ NoteLate /\ UNCHANGED <<enrolled, settled>>
    BY <1>6, UnderWay DEF Ambiguous, At
  <2>2. lane' = lane \/ (lane' = Alerted(lane) /\ Fits(Alerted(lane).pending))
    BY <1>6 DEF Ambiguous, Move, Write
  <2>3. CASE lane' = lane
    <3>1. Follows(lane, lane') /\ Good(lane', settled', sess.gate, enrolled')
          /\ Len(lane'.pending) <= PendingCap
      BY <2>1, <2>3 DEF LaneIInv, Follows
    <3> QED  BY <2>1, <3>1, Written
  <2>4. CASE lane' = Alerted(lane) /\ Fits(Alerted(lane).pending)
    <3>1. Good(Alerted(lane), settled, sess.gate, enrolled) /\ Follows(lane, Alerted(lane))
      BY AlertedGood DEF LaneIInv, OtherTypes, Sessions
    <3> QED  BY <2>1, <2>4, <3>1, Written DEF Fits
  <2> QED  BY <2>2, <2>3, <2>4
<1>7. CASE Prune(p)
  <2>1. lane.watch # "absent" /\ UNCHANGED <<enrolled, settled, late>>
    BY <1>7, UnderWay DEF Prune, At
  <2>2. lane' = lane \/ (Removable(lane) /\ lane' = Removed(lane))
    BY <1>7 DEF Prune, Move, Write
  <2> QED  BY <2>1, <2>2, Unwritten, WatchRemoved
<1>8. CASE ReconcilePr(p)
  <2>1. lane.watch # "absent" /\ UNCHANGED <<enrolled, settled, late>>
    BY <1>8, UnderWay DEF ReconcilePr, At
  <2>2. lane' = lane \/ lane' = Rebound(lane)
    BY <1>8 DEF ReconcilePr, Move, Write
  <2>3. CASE lane' = Rebound(lane)
    <3>1. /\ Good(lane', settled, sess.gate, enrolled) /\ Follows(lane, lane')
          /\ lane'.pending = lane.pending
      BY <2>3, QuietGood DEF LaneIInv, OtherTypes, Sessions
    <3>2. Len(lane'.pending) <= PendingCap /\ Keys(lane'.pending) \subseteq Keys(lane.pending)
      BY <3>1 DEF LaneIInv
    <3> QED  BY <2>1, <3>1, <3>2, Written
  <2> QED  BY <2>1, <2>2, <2>3, Unwritten
<1> QED  BY <1>1, <1>2, <1>3, <1>4, <1>5, <1>6, <1>7, <1>8 DEF Poll

LEMMA ReadEndWrites ==
  ASSUME LaneIInv, ReadEnd
  PROVE  WellWritten
<1> DEFINE fails == read.rev > told.rev /\ read.turn.state = "failed" /\ read.turn.id # told.turn
           o     == Failure(lane, read)
           new   == IF fails THEN Applied(lane, o) ELSE [lane EXCEPT !.sdk = read.rev]
<1>1. lane.watch # "absent" /\ UNCHANGED <<enrolled, settled>>
  BY DEF ReadEnd, LaneIInv, Unborn
<1>2. \/ lane' = new /\ Fits(new.pending) /\ NoteLate
      \/ lane' = lane /\ late' = late
  <2> HIDE DEF o
  <2> QED  BY DEF ReadEnd, Put, o
<1>3. Good(new, settled, sess.gate, enrolled) /\ Follows(lane, new)
  <2>1. CASE fails
    <3>1. /\ o \in Observations /\ o.gate = NoGate /\ ~o.gates
          /\ sess.gate \in Gates /\ (sess.gate.open => sess.gate.n # 0)
      BY LaneConstants DEF LaneIInv, Good, LaneRecords, OtherTypes, Sessions, Failure,
                            Observations, NoGate, Gates
    <3> HIDE DEF o, fails
    <3>2. Good(Applied(lane, o), settled, sess.gate, enrolled) /\ Follows(lane, Applied(lane, o))
      BY <3>1, AppliedGood DEF LaneIInv
    <3> QED  BY <2>1, <3>2
  <2>2. CASE ~fails
    <3>1. new = [lane EXCEPT !.sdk = read.rev]
      BY <2>2
    <3>2. Good(new, settled, sess.gate, enrolled)
      <4>1. sess.gate \in Gates /\ read.rev \in 0..MaxRev /\ Good(lane, settled, sess.gate, enrolled)
        BY DEF LaneIInv, OtherTypes, Sessions
      <4>2. Good([lane EXCEPT !.sdk = read.rev], settled, sess.gate, enrolled)
        BY <4>1, QuietGood
      <4> HIDE DEF new
      <4> QED  BY <3>1, <4>2
    <3>3. Follows(lane, new)
      BY <3>1 DEF LaneIInv, Good, LaneRecords, Follows
    <3> QED  BY <3>2, <3>3
  <2> QED  BY <2>1, <2>2
<1> HIDE DEF new
<1>4. CASE lane' = lane /\ late' = late
  BY <1>1, <1>4, Unwritten
<1>5. CASE lane' = new /\ Fits(new.pending) /\ NoteLate
  BY <1>1, <1>3, <1>5, Written DEF Fits
<1> QED  BY <1>2, <1>4, <1>5

LEMMA RequestsWrite ==
  ASSUME LaneIInv, Requests
  PROVE  WellWritten
<1>1. sess.gate \in Gates /\ sess.gen \in 0..MaxGen /\ (sess.gate.open => sess.gate.n # 0)
  BY DEF LaneIInv, OtherTypes, Sessions
<1>2. Good(lane, settled, sess.gate, enrolled) /\ lane \in LaneRecords
  BY DEF LaneIInv, Good
<1>3. ASSUME NEW gen \in {0, sess.gen}, NEW owner \in {"unclaimed", "claimed"},
             NEW pr \in {0, head}, Register(gen, owner, pr)
      PROVE  WellWritten
  <2>1. gen \in 0..MaxGen /\ pr \in 0..MaxHead
    BY <1>1, LaneConstants DEF LaneIInv, OtherTypes
  <2>2. /\ lane.watch = "absent" /\ lane' = Registered(gen, owner, pr)
        /\ enrolled' = [gen |-> gen, pr |-> pr] /\ UNCHANGED <<settled, late>>
    BY <1>3 DEF Register, Put
  <2>3. /\ Good(lane', settled, sess.gate, [gen |-> gen, pr |-> pr])
        /\ lane'.watch = "on" /\ lane'.pending = <<>>
    BY <1>1, <2>1, <2>2, RegisteredGood
  <2>4. lane.end = "none"
    BY <2>2 DEF LaneIInv, Unborn, NoLane, Registered
  <2> QED  BY <2>2, <2>3, <2>4, LaneConstants DEF WellWritten, StaysOver
<1>4. CASE Claim
  <2>1. /\ lane.watch # "absent" /\ lane' = [lane EXCEPT !.owner = "claimed"]
        /\ UNCHANGED <<enrolled, settled, late>>
    BY <1>4 DEF Claim, Put
  <2>2. Good(lane', settled, sess.gate, enrolled)
    BY <1>1, <1>2, <1>4, <2>1, QuietGood DEF Claim
  <2>3. Follows(lane, lane') /\ lane'.pending = lane.pending
    BY <1>2, <2>1 DEF LaneRecords, Follows
  <2> QED  BY <2>1, <2>2, <2>3, Written DEF LaneIInv
<1>5. CASE Retire
  <2>1. /\ lane.watch # "absent" /\ lane' = Retired(lane)
        /\ UNCHANGED <<enrolled, settled, late>>
    BY <1>5 DEF Retire, Put
  <2>2. /\ Good(lane', settled, sess.gate, enrolled) /\ Follows(lane, lane')
        /\ lane'.pending = lane.pending
    BY <1>1, <1>2, <2>1, QuietGood
  <2> QED  BY <2>1, <2>2, Written DEF LaneIInv
<1>6. CASE ForceResume
  <2>1. /\ lane.suspended /\ lane' = [lane EXCEPT !.suspended = FALSE, !.misses = 0]
        /\ UNCHANGED <<enrolled, settled, late>>
    BY <1>6 DEF ForceResume, Put
  <2>2. lane.watch # "absent"
    BY <2>1 DEF LaneIInv, Unborn, NoLane, Registered
  <2>3. Good(lane', settled, sess.gate, enrolled)
    BY <1>1, <1>2, <2>1, QuietGood
  <2>4. Follows(lane, lane') /\ lane'.pending = lane.pending
    BY <1>2, <2>1 DEF LaneRecords, Follows
  <2> QED  BY <2>1, <2>2, <2>3, <2>4, Written DEF LaneIInv
<1>7. CASE ReadStart
  BY <1>7, Unwritten DEF ReadStart
<1> QED  BY <1>3, <1>4, <1>5, <1>6, <1>7, ReadEndWrites DEF Requests

----------------------------------------------------------------------------
(* The session and the other variables.                                    *)

\* What the session does: its gates only come on.
LEMMA SessionMoves ==
  ASSUME LaneIInv, Session \/ Outage
  PROVE  /\ sess' \in Sessions
         /\ sess'.gate.open => sess'.gate.n # 0
         /\ Behind(lane, sess'.gate)
<1>1. /\ sess \in Sessions /\ (sess.gate.open => sess.gate.n # 0) /\ Behind(lane, sess.gate)
      /\ lane.gate \in Gates
  BY DEF LaneIInv, OtherTypes, Good, LaneRecords
<1> SUFFICES /\ sess' \in Sessions
             /\ \/ sess'.gate = sess.gate \/ sess'.gate = [sess.gate EXCEPT !.open = FALSE]
                \/ sess'.gate = [n |-> sess.gate.n + 1, open |-> TRUE]
  <2>1. sess.gate \in Gates
    BY <1>1 DEF Sessions
  <2> QED  BY <1>1, <2>1 DEF Behind, Gates
<1>2. ASSUME NEW turn \in Turns, NEW gate \in Gates, NEW end \in Ends \cup {"live"},
             NextRev(turn, gate, end)
      PROVE  sess' \in Sessions /\ sess'.gate = gate
  <2>1. sess.rev + 1 \in 1..MaxRev
    BY <1>1, <1>2, LaneConstants DEF NextRev, Sessions
  <2> QED  BY <1>1, <1>2, <2>1 DEF NextRev, Sessions
<1>3. sess.turn \in Turns /\ sess.gate \in Gates /\ "live" \in Ends \cup {"live"}
  BY <1>1 DEF Sessions
<1>4. CASE StartTurn
  <2>1. [id |-> sess.turn.id + 1, state |-> "running"] \in Turns
    BY <1>3, <1>4, LaneConstants DEF StartTurn, Turns
  <2> QED  BY <1>2, <1>3, <1>4, <2>1 DEF StartTurn
<1>5. ASSUME NEW state \in {"complete", "failed", "idle"}, EndTurn(state)
      PROVE  sess' \in Sessions /\ sess'.gate = sess.gate
  <2>1. [sess.turn EXCEPT !.state = state] \in Turns
    BY <1>3 DEF Turns
  <2> QED  BY <1>2, <1>3, <1>5, <2>1 DEF EndTurn
<1>6. CASE OpenGate
  <2>1. [n |-> sess.gate.n + 1, open |-> TRUE] \in Gates
    BY <1>3, <1>6, LaneConstants DEF OpenGate, Gates
  <2> QED  BY <1>2, <1>3, <1>6, <2>1 DEF OpenGate
<1>7. CASE AnswerGate
  <2>1. [sess.gate EXCEPT !.open = FALSE] \in Gates
    BY <1>3 DEF Gates
  <2> QED  BY <1>2, <1>3, <1>7, <2>1 DEF AnswerGate
<1>8. ASSUME NEW e \in Ends, EndSession(e)
      PROVE  sess' \in Sessions /\ sess'.gate = sess.gate
  BY <1>2, <1>3, <1>8 DEF EndSession
<1>9. CASE Exit \/ Recover \/ Outage
  BY <1>1, <1>9 DEF Exit, Recover, Outage, Sessions
<1>10. CASE Return
  <2>1. /\ sess.gen + 1 \in 1..MaxGen /\ 1 \in 1..MaxRev
        /\ [sess.turn EXCEPT !.state = "idle"] \in Turns
        /\ [sess.gate EXCEPT !.open = FALSE] \in Gates
    <3>1. sess.gen + 1 \in 1..MaxGen /\ 1 \in 1..MaxRev
      BY <1>1, <1>10, LaneConstants DEF Return, Sessions
    <3>2. [sess.turn EXCEPT !.state = "idle"] \in Turns
      BY <1>3 DEF Turns
    <3>3. [sess.gate EXCEPT !.open = FALSE] \in Gates
      BY <1>3 DEF Gates
    <3> QED  BY <3>1, <3>2, <3>3
  <2>2. sess' = [sess EXCEPT !.found = TRUE, !.gen = sess.gen + 1, !.rev = 1, !.end = "live",
                             !.turn = [sess.turn EXCEPT !.state = "idle"],
                             !.gate = [sess.gate EXCEPT !.open = FALSE]]
    BY <1>1, <1>10 DEF Return, Sessions
  <2> QED  BY <1>1, <2>1, <2>2 DEF Sessions
<1>11. CASE Rotate
  <2>1. sess.gen + 1 \in 1..MaxGen
    BY <1>1, <1>11, LaneConstants DEF Rotate, Sessions
  <2> QED  BY <1>1, <1>11, <2>1 DEF Rotate, Sessions
<1> QED  BY <1>4, <1>5, <1>6, <1>7, <1>8, <1>9, <1>10, <1>11 DEF Session

\* Where a pass may stand.
LEMMA PassSteps ==
  ASSUME LaneIInv, NEW p \in Pollers
  PROVE  /\ Resting \in PassRecords /\ pass[p] \in PassRecords
         /\ \A next \in {"idle", "examine", "prune", "pr"} : ReplayThen(next) \in PassRecords
         /\ Leave(p) \in PassRecords
         /\ \A f \in BOOLEAN : [Replaying(p) EXCEPT !.fresh = f] \in PassRecords
         /\ Replaying(p) \in PassRecords
         /\ Outdated(p) \in [Pollers -> PassRecords]
         /\ [q \in Pollers |-> [pass[q] EXCEPT !.fresh = FALSE]] \in [Pollers -> PassRecords]
         /\ \A r \in PassRecords : /\ [r EXCEPT !.pc = "sent"] \in PassRecords
                                   /\ [r EXCEPT !.asked = TRUE] \in PassRecords
                                   /\ [r EXCEPT !.fresh = TRUE] \in PassRecords
                                   /\ [r EXCEPT !.fresh = FALSE] \in PassRecords
<1>1. Resting \in PassRecords
  BY DEF Resting, PassRecords
<1>2. \A q \in Pollers : pass[q] \in PassRecords
  BY DEF LaneIInv, OtherTypes
<1>3. \A next \in {"idle", "examine", "prune", "pr"} : ReplayThen(next) \in PassRecords
  BY DEF ReplayThen, Resting, PassRecords
<1>4. Replaying(p) \in PassRecords
  BY <1>2 DEF Replaying, PassRecords
<1>5. ASSUME NEW r \in PassRecords, NEW f \in BOOLEAN
      PROVE  [r EXCEPT !.fresh = f] \in PassRecords
  BY <1>5 DEF PassRecords
<1>6. ASSUME NEW r \in PassRecords
      PROVE  [r EXCEPT !.pc = "sent"] \in PassRecords /\ [r EXCEPT !.asked = TRUE] \in PassRecords
  BY <1>6 DEF PassRecords
<1>7. Leave(p) \in PassRecords
  <2>1. pass[p].then # "idle" => [pass[p] EXCEPT !.pc = pass[p].then, !.alert = NoAlert] \in PassRecords
    BY <1>2 DEF PassRecords
  <2> QED  BY <1>1, <2>1 DEF Leave
<1>8. Outdated(p) \in [Pollers -> PassRecords]
  BY <1>2, <1>5 DEF Outdated
<1>9. [q \in Pollers |-> [pass[q] EXCEPT !.fresh = FALSE]] \in [Pollers -> PassRecords]
  BY <1>2, <1>5
<1> QED  BY <1>1, <1>2, <1>3, <1>4, <1>5, <1>6, <1>7, <1>8, <1>9

\* A pass that writes or moves.
LEMMA Stepped ==
  ASSUME LaneIInv, NEW p \in Pollers, NEW step \in PassRecords, NEW new,
         Write(p, new, step) \/ Move(p, step)
  PROVE  pass' \in [Pollers -> PassRecords]
BY PassSteps DEF Write, Move, LaneIInv, OtherTypes

LEMMA PollSteps ==
  ASSUME LaneIInv, NEW p \in Pollers, Poll(p)
  PROVE  pass' \in [Pollers -> PassRecords]
<1>1. CASE BeginPoll(p)
  <2>1. ReplayThen("examine") \in PassRecords /\ Outdated(p) \in [Pollers -> PassRecords]
        /\ pass \in [Pollers -> PassRecords]
    BY PassSteps DEF LaneIInv, OtherTypes
  <2> HIDE DEF PassRecords
  <2>2. \/ pass' = [pass EXCEPT ![p] = ReplayThen("examine")]
        \/ pass' = [Outdated(p) EXCEPT ![p] = ReplayThen("examine")]
    BY <1>1 DEF BeginPoll, Move
  <2> QED  BY <2>1, <2>2
<1>2. CASE EndReplay(p)
  BY <1>2, PassSteps, Stepped DEF EndReplay
<1>3. CASE GiveUp(p)
  BY <1>3, PassSteps, Stepped DEF GiveUp
<1>4. CASE Attempt(p)
  <2> DEFINE a  == Head(lane.pending)
             pc == IF a.kind = "failed" THEN "recheck" ELSE "sent"
  <2>1. a \in LaneAlerts
    BY <1>4 DEF Attempt, HasPending, LaneIInv, Good, LaneRecords
  <2>2. pc \in {"recheck", "sent"}
    OBVIOUS
  <2>3. Write(p, lane, [pass[p] EXCEPT !.alert = a, !.pc = pc])
    BY <1>4 DEF Attempt
  <2> HIDE DEF a, pc
  <2>4. [pass[p] EXCEPT !.alert = a, !.pc = pc] \in PassRecords
    <3>1. pass[p] \in PassRecords
      BY PassSteps
    <3> QED  BY <2>1, <2>2, <3>1 DEF PassRecords
  <2> QED  BY <2>3, <2>4, Stepped
<1>5. CASE Acknowledged(p)
  <2> DEFINE step == [Replaying(p) EXCEPT !.fresh = TRUE]
  <2>1. step \in PassRecords /\ Outdated(p) \in [Pollers -> PassRecords]
        /\ pass \in [Pollers -> PassRecords]
    BY PassSteps DEF LaneIInv, OtherTypes
  <2>2. pass' = [Outdated(p) EXCEPT ![p] = step] \/ pass' = [pass EXCEPT ![p] = step]
    BY <1>5 DEF Acknowledged
  <2> HIDE DEF step
  <2> QED  BY <2>1, <2>2
<1>6. CASE Refused(p)
  <2>1. Resting \in PassRecords /\ [Leave(p) EXCEPT !.fresh = TRUE] \in PassRecords
    BY PassSteps
  <2> QED  BY <1>6, <2>1, Stepped DEF Refused
<1>7. CASE Recheck(p)
  <2> DEFINE a   == pass[p].alert
             o   == Observation
             new == IF o.rev > lane.sdk THEN Applied(lane, o) ELSE lane
             less == [new EXCEPT !.pending = Without(@, a)]
             ask(step) == [step EXCEPT !.asked = step # Resting]
  <2>1. ASSUME NEW r \in PassRecords
        PROVE  ask(r) \in PassRecords
    BY <2>1 DEF PassRecords
  <2>2. /\ [ask(pass[p]) EXCEPT !.pc = "sent"] \in PassRecords
        /\ ask(Replaying(p)) \in PassRecords /\ ask(Leave(p)) \in PassRecords
        /\ Leave(p) \in PassRecords
        /\ [ask(Replaying(p)) EXCEPT !.fresh = TRUE] \in PassRecords
    <3> HIDE DEF ask
    <3> QED  BY <2>1, PassSteps
  <2>3. \/ Move(p, [ask(pass[p]) EXCEPT !.pc = "sent"])
        \/ Write(p, new, [ask(pass[p]) EXCEPT !.pc = "sent"])
        \/ Write(p, less, ask(Replaying(p)))
        \/ Move(p, ask(Leave(p))) \/ Write(p, new, ask(Leave(p)))
        \/ Move(p, Leave(p))
        \/ Move(p, [ask(Replaying(p)) EXCEPT !.fresh = TRUE])
    <3> HIDE DEF new, a, o
    <3> QED  BY <1>7 DEF Recheck, new, a, o
  <2> HIDE DEF ask, less, new
  <2> QED  BY <2>2, <2>3, Stepped
<1>8. CASE Examine(p)
  <2>1. Resting \in PassRecords /\ Onwards(lane) \in PassRecords
    <3>1. \A next \in {"idle", "examine", "prune", "pr"} : ReplayThen(next) \in PassRecords
      BY PassSteps
    <3> DEFINE x == IF EndSeen(lane, Observation) THEN "idle" ELSE "pr"
               y == IF lane.end # "none" /\ lane.misses + 1 >= Grace THEN "prune" ELSE "idle"
    <3>2. ReplayThen(x) \in PassRecords /\ ReplayThen(y) \in PassRecords
          /\ ReplayThen("idle") \in PassRecords /\ Resting \in PassRecords
      BY <3>1, PassSteps
    <3>3. \/ Onwards(lane) = ReplayThen(x) \/ Onwards(lane) = ReplayThen("idle")
          \/ Onwards(lane) = Resting \/ Onwards(lane) = ReplayThen(y)
      <4> HIDE DEF x, y
      <4>1. CASE Reply(lane) = "ok"
        BY <4>1 DEF Onwards, x
      <4>2. CASE Reply(lane) = "gone"
        BY <4>2 DEF Onwards
      <4>3. CASE Reply(lane) = "rotated"
        BY <4>3 DEF Onwards
      <4>4. CASE Reply(lane) = "down"
        BY <4>4 DEF Onwards, y
      <4> QED  BY <4>1, <4>2, <4>3, <4>4 DEF Reply
    <3> HIDE DEF x, y
    <3> QED  BY <3>2, <3>3
  <2>2. \/ Write(p, Removed(lane), Resting) \/ Write(p, Learnt(lane), Onwards(lane))
        \/ Move(p, Resting)
    BY <1>8 DEF Examine
  <2> QED  BY <2>1, <2>2, Stepped
<1>9. CASE Ambiguous(p)
  <2>1. ReplayThen("idle") \in PassRecords /\ Resting \in PassRecords
    BY PassSteps
  <2> QED  BY <1>9, <2>1, Stepped DEF Ambiguous
<1>10. CASE Defer(p) \/ Prune(p) \/ ReconcilePr(p)
  <2>1. \E new : Write(p, new, Resting) \/ Move(p, Resting)
    BY <1>10 DEF Defer, Prune, ReconcilePr
  <2> QED  BY <2>1, PassSteps, Stepped
<1> QED  BY <1>1, <1>2, <1>3, <1>4, <1>5, <1>6, <1>7, <1>8, <1>9, <1>10 DEF Poll

\* Another caller's write takes the freshness of a pass and nothing else.
LEMMA WornPass ==
  ASSUME NEW x \in PassRecords
  PROVE  [x EXCEPT !.fresh = FALSE] \in PassRecords
BY DEF PassRecords

LEMMA TypesKept ==
  ASSUME LaneIInv, LaneNext
  PROVE  OtherTypes'
<1> USE DEF LaneIInv, OtherTypes
<1>1. CASE Session
  BY <1>1, SessionMoves DEF Session
<1>2. incidents' \in 0..MaxIncidents \/ ~Incident
  BY LaneConstants DEF Incident
<1>3. CASE Outage
  BY <1>2, <1>3, SessionMoves DEF Outage, Fault
<1>4. CASE Push
  BY <1>4, LaneConstants DEF Push
<1>5. ASSUME NEW p \in Pollers, Poll(p)
      PROVE  OtherTypes'
  <2>1. pass' \in [Pollers -> PassRecords]
    BY <1>5, PollSteps
  <2>2. UNCHANGED <<sess, head, read, told>> /\ (incidents' = incidents \/ Incident)
    BY <1>5 DEF Poll, BeginPoll, EndReplay, GiveUp, Attempt, Acknowledged, Refused, Recheck,
                Examine, Ambiguous, Defer, Prune, ReconcilePr, Fault
  <2>3. enrolled' = enrolled \/ enrolled' = [gen |-> sess.gen, pr |-> 0]
    BY <1>5 DEF Poll, BeginPoll, EndReplay, GiveUp, Attempt, Acknowledged, Refused, Recheck,
                Examine, Ambiguous, Defer, Prune, ReconcilePr
  <2>4. enrolled' \in [gen : 0..MaxGen, pr : 0..MaxHead]
    BY <2>3, LaneConstants DEF Sessions
  <2> QED  BY <1>2, <2>1, <2>2, <2>4
<1>6. CASE Restart
  <2>1. NoRead \in [rev : 0..MaxRev, turn : Turns] /\ Untold \in [rev : 0..MaxRev, turn : 0..MaxTurn]
    BY LaneConstants DEF NoRead, Untold, NoTurn, Turns
  <2>2. [p \in Pollers |-> Resting] \in [Pollers -> PassRecords]
    BY DEF Resting, PassRecords
  <2> QED  BY <1>2, <1>6, <2>1, <2>2 DEF Restart, Fault
<1>7. CASE Requests
  <2>1. /\ UNCHANGED <<sess, head>>
        /\ incidents' = incidents \/ Incident
        /\ pass' = pass \/ pass' = [q \in Pollers |-> [pass[q] EXCEPT !.fresh = FALSE]]
    BY <1>7 DEF Requests, Register, Claim, Retire, ForceResume, ReadStart, ReadEnd, Put
  <2>2. pass' \in [Pollers -> PassRecords]
    <3> DEFINE Worn(q) == [pass[q] EXCEPT !.fresh = FALSE]
    <3>1. \A q \in Pollers : Worn(q) \in PassRecords
      BY WornPass
    <3>2. pass' = pass \/ pass' = [q \in Pollers |-> Worn(q)]
      BY <2>1
    <3>3. pass \in [Pollers -> PassRecords]
      OBVIOUS
    <3> HIDE DEF Worn
    <3> QED  BY ONLY <3>1, <3>2, <3>3
  <2>3. enrolled' \in [gen : 0..MaxGen, pr : 0..MaxHead]
    <3>1. \/ enrolled' = enrolled
          \/ \E gen \in {0, sess.gen}, pr \in {0, head} : enrolled' = [gen |-> gen, pr |-> pr]
      BY <1>7 DEF Requests, Register, Claim, Retire, ForceResume, ReadStart, ReadEnd
    <3> QED  BY <3>1, LaneConstants DEF Sessions
  <2>4. read' \in [rev : 0..MaxRev, turn : Turns]
    <3>1. read' = read \/ read' = NoRead \/ read' = [rev |-> sess.rev, turn |-> Turn]
      BY <1>7 DEF Requests, Register, Claim, Retire, ForceResume, ReadStart, ReadEnd
    <3>2. Turn \in Turns /\ sess.rev \in 0..MaxRev
      BY DEF Turn, Turns, Sessions
    <3>3. NoRead \in [rev : 0..MaxRev, turn : Turns]
      BY LaneConstants DEF NoRead, NoTurn, Turns
    <3> QED  BY <3>1, <3>2, <3>3
  <2>5. told' \in [rev : 0..MaxRev, turn : 0..MaxTurn]
    <3>1. \/ told' = told \/ told' = [rev |-> read.rev, turn |-> read.turn.id]
          \/ told' = [rev |-> read.rev, turn |-> told.turn]
      BY <1>7 DEF Requests, Register, Claim, Retire, ForceResume, ReadStart, ReadEnd
    <3> QED  BY <3>1 DEF Turns
  <2> QED  BY <1>2, <2>1, <2>2, <2>3, <2>4, <2>5
<1> QED  BY <1>1, <1>3, <1>4, <1>5, <1>6, <1>7 DEF LaneNext

----------------------------------------------------------------------------
(* The theorems.                                                           *)

LEMMA LaneStep ==
  ASSUME LaneIInv, LaneNext
  PROVE  LaneIInv' /\ StaysOver
<1>1. OtherTypes'
  BY TypesKept
<1>2. ASSUME WellWritten, sess' = sess
      PROVE  LaneIInv' /\ StaysOver
  BY <1>1, <1>2 DEF LaneIInv, WellWritten, TombstonesDrained, Queued, Unborn
<1>3. ASSUME UNCHANGED <<lane, settled, enrolled, late>>
      PROVE  StaysOver /\ TombstonesDrained' /\ Len(lane'.pending) <= PendingCap
  BY <1>3 DEF LaneIInv, StaysOver, TombstonesDrained, Queued
<1>4. CASE Session \/ Outage
  <2>1. UNCHANGED <<lane, pass, read, settled, enrolled, late>>
    BY <1>4 DEF Session, Outage
  <2>2. Good(lane', settled', sess'.gate, enrolled')
    BY <1>4, <2>1, SessionMoves DEF LaneIInv, Good
  <2>3. Unborn'
    BY <2>1 DEF LaneIInv, Unborn
  <2> QED  BY <1>1, <1>3, <1>4, <2>1, <2>2, <2>3, SessionMoves DEF LaneIInv
<1>5. CASE Push
  BY <1>1, <1>3, <1>5 DEF Push, LaneIInv, Unborn
<1>6. CASE Restart
  <2>1. Unborn'
    BY <1>6 DEF Restart, LaneIInv, Unborn
  <2> QED  BY <1>1, <1>3, <1>6, <2>1 DEF Restart, LaneIInv
<1>7. CASE Requests
  <2>1. sess' = sess
    BY <1>7 DEF Requests, Register, Claim, Retire, ForceResume, ReadStart, ReadEnd
  <2> QED  BY <1>2, <1>7, <2>1, RequestsWrite
<1>8. ASSUME NEW p \in Pollers, Poll(p)
      PROVE  LaneIInv' /\ StaysOver
  <2>1. sess' = sess
    BY <1>8 DEF Poll, BeginPoll, EndReplay, GiveUp, Attempt, Acknowledged, Refused, Recheck,
                Examine, Ambiguous, Defer, Prune, ReconcilePr
  <2> QED  BY <1>2, <1>8, <2>1, PollWrites
<1> QED  BY <1>4, <1>5, <1>6, <1>7, <1>8 DEF LaneNext

LEMMA LaneInductive == LaneSpec => []LaneIInv
<1>1. LaneIInv /\ UNCHANGED laneVars => LaneIInv'
  BY DEF laneVars, LaneIInv, OtherTypes, TombstonesDrained, Queued, Unborn
<1>2. LaneIInv /\ [LaneNext]_laneVars => LaneIInv'
  BY <1>1, LaneStep
<1> QED  BY <1>2, LaneInitial, PTL DEF LaneSpec

\* What the record has taken note of has been alerted or waits to be, the queue is
\* bounded and holds nothing twice, a lane that is over has no owner, and its watch
\* goes only when no alert waits: apply_observation, mark_unavailable and
\* remove_ghost_watch, whatever passes, requests, reads and restarts come between.
THEOREM NotedIsStaged == LaneSpec => []LaneInv
BY LaneInductive, LaneIInvImplies, PTL

\* Evidence that counts as valid was taken under the endpoint and at the head that
\* the record names (note_endpoint_rotation, reconcile_pr_binding, reclaim_tombstone).
THEOREM EvidenceAlwaysSound == LaneSpec => []EvidenceSound
BY LaneInductive, LaneIInvImplies, PTL

\* What a lane ended with stays, and so does the removal of its watch, unless a
\* session that was gone takes its tombstone back (reclaim_tombstone).
THEOREM OverStaysOver == LaneSpec => TombstonesStay
<1>1. LaneIInv /\ [LaneNext]_laneVars => [StaysOver]_laneVars
  BY LaneStep
<1> QED  BY <1>1, LaneInductive, PTL DEF LaneSpec, TombstonesStay
=============================================================================
