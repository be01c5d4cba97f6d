----------------------------- MODULE TimerWheel -----------------------------
(***************************************************************************)
(* The hierarchical timer wheel (src/core/timer_wheel.rs) as the batchers  *)
(* of src/dispatch.rs drive it: every handler of the dispatcher reads the  *)
(* clock, ticks the wheel with it, and only then schedules entries, at     *)
(* that time plus a window.                                                *)
(*                                                                         *)
(* A level is a ring of slots; Unit[l] is the time one slot covers.  An    *)
(* entry goes to the level its distance calls for, in the slot its due     *)
(* time falls in.  A tick walks the slots between the last tick and now on *)
(* every level, and moves what is not due yet to a finer level.            *)
(*                                                                         *)
(* The code has seconds, minutes, hours and days (60, 60, 24 and 365       *)
(* slots).  Nothing is assumed of the ratio between the levels.            *)
(***************************************************************************)
EXTENDS Naturals

CONSTANTS Ids,       \* entries that are ever scheduled
          WheelEnd,  \* bound of the clock
          Levels,    \* number of levels
          Unit,      \* Unit[l]: what a slot of level l covers
          Slots      \* Slots[l]: how many slots level l has

ASSUME WheelConstants ==
  /\ WheelEnd \in Nat
  /\ Levels \in Nat \ {0}
  /\ Unit  \in [1..Levels -> Nat \ {0}]
  /\ Slots \in [1..Levels -> Nat \ {0}]

WheelTimes == 0..WheelEnd
Level == 1..Levels

VARIABLES wheel,     \* the entries: [id, at, level, slot]
          current,   \* current_ms
          due        \* what the last tick returned

wheelVars == <<wheel, current, due>>

Entry == [id : Ids, at : WheelTimes]
Placement == [id : Ids, at : WheelTimes, level : Level, slot : Nat]

WheelInit == wheel = {} /\ current \in WheelTimes /\ due = {}

----------------------------------------------------------------------------
\* at.saturating_sub(current)
Delta(at, from) == IF at < from THEN 0 ELSE at - from

\* The levels whose ring the distance fits into: a level reaches as far as one
\* slot of the next one, and the last takes the rest.
Reaching(at, from) == {l \in Level : l = Levels \/ Delta(at, from) < Unit[l + 1]}

\* The finest of them.
LevelFor(at, from) == CHOOSE l \in Reaching(at, from) : \A k \in Reaching(at, from) : l <= k

SlotOf(at, l) == (at \div Unit[l]) % Slots[l]

\* schedule: where an entry goes, seen from the wheel's current time.
Place(id, at, from) ==
  LET l == LevelFor(at, from)
  IN [id |-> id, at |-> at, level |-> l, slot |-> SlotOf(at, l)]

\* Mutant: the walk starts after the slot of the last tick.
VisitedAfter(l, t) ==
  {s % Slots[l] : s \in (current \div Unit[l] + 1)..(t \div Unit[l])}

\* The slots of level l that a tick at t walks: none when the clock went back.
Visited(l, t) == {s % Slots[l] : s \in (current \div Unit[l])..(t \div Unit[l])}

Taken(t) == {e \in wheel : e.slot \in Visited(e.level, t)}

\* What is taken and not due goes back: seconds stay in their slot, the coarser
\* levels are scheduled again, seen from the time of the last tick.
Replace(e) == IF e.level = 1 THEN e ELSE Place(e.id, e.at, current)

Plain(e) == [id |-> e.id, at |-> e.at]

Schedule(id, at) ==
  /\ wheel' = wheel \cup {Place(id, at, current)}
  /\ due' = {}
  /\ UNCHANGED current

WheelTick(t) ==
  LET early == {e \in Taken(t) : e.at > t}
  IN /\ due' = {Plain(e) : e \in Taken(t) \ early}
     /\ wheel' = (wheel \ Taken(t)) \cup {Replace(e) : e \in early}
     /\ current' = t

\* observe: a deadline is never before the tick the handler has just made, and an
\* entry, a batch key with a version, is scheduled once.
Observe(id, at) ==
  /\ at >= current
  /\ \A e \in wheel : e.id # id
  /\ Schedule(id, at)

WheelNext ==
  \/ \E id \in Ids, at \in WheelTimes : Observe(id, at)
  \/ \E t \in WheelTimes : WheelTick(t)

WheelSpec == WheelInit /\ [][WheelNext]_wheelVars

----------------------------------------------------------------------------
(* Properties.                                                             *)

\* Every variable keeps its type, and no slot lies outside its ring (the code
\* indexes the ring with it).
WheelTypeOK ==
  /\ wheel \subseteq Placement
  /\ \A e \in wheel : e.slot < Slots[e.level]
  /\ current \in WheelTimes
  /\ due \subseteq Entry

\* No entry lies behind the wheel, and each is in the slot of its due time.
Placed ==
  \A e \in wheel : e.at >= current /\ e.level \in Level /\ e.slot = SlotOf(e.at, e.level)

\* The first tick at or after an entry's due time hands it back, no tick does so
\* before, and none does so twice: the wheel implements the delay queue.
Queue == INSTANCE DelayQueue WITH
  pending <- {Plain(e) : e \in wheel},
  now <- current,
  MaxTime <- WheelEnd

ImplementsDelayQueue == Queue!Spec
=============================================================================
