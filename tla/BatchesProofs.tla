---------------------------- MODULE BatchesProofs ----------------------------
(***************************************************************************)
(* The timers and batches of the dispatcher, for any keys, runs, events    *)
(* and limits.                                                             *)
(*                                                                         *)
(* The timer wheel implements the delay queue, for any number of levels,   *)
(* any units and any ring sizes.  The argument: an entry is in the slot of *)
(* its due time and not behind the wheel (Placed), so when its time comes  *)
(* the slot lies on the walk from the last tick to now, division being     *)
(* monotone.                                                               *)
(* Routine batches keep their windows: all entries of a key carry the      *)
(* deadline of the batch that waits (NoStrayTimer), so they leave the      *)
(* wheel together, and the current one is among them (Covered).            *)
(* A batch is cut into messages without loss: what is sent and open so far *)
(* is a sound cut of the items read so far (Sound).                        *)
(* A CI batch has its own entry in the wheel (Scheduled), among others     *)
(* that a summary sent early may have left there.                          *)
(***************************************************************************)
EXTENDS TimerWheel, RoutineBatcher, RoutineChunks, CiBatcher,
        SequenceTheorems, FiniteSetTheorems, WellFoundedInduction, TLAPS

----------------------------------------------------------------------------
(* The timer wheel.                                                        *)

\* A time falls in a slot no later than that of a later time.
LEMMA DivMonotone ==
  ASSUME NEW a \in Nat, NEW b \in Nat, a <= b, NEW u \in Nat \ {0}
  PROVE  a \div u \in Nat /\ b \div u \in Nat /\ a \div u <= b \div u
<1>1. a = u * (a \div u) + (a % u) /\ a % u \in 0..(u - 1) /\ a \div u \in Int
  OBVIOUS
<1>2. b = u * (b \div u) + (b % u) /\ b % u \in 0..(u - 1) /\ b \div u \in Int
  OBVIOUS
<1> QED
  BY <1>1, <1>2

\* The finest level that fits exists.
LEMMA LevelForType ==
  ASSUME NEW at, NEW from, WheelConstants  PROVE LevelFor(at, from) \in Level
<1> DEFINE T == Reaching(at, from)
<1>1. T \subseteq Nat /\ Levels \in T /\ T \subseteq Level
  BY DEF WheelConstants, Reaching, Level
<1>2. PICK l \in T : \A y \in T : ~ (<<y, l>> \in OpToRel(<, Nat))
  BY <1>1, NatLessThanWellFounded, WFMin
<1>3. \A y \in T : l <= y
  <2>1. ASSUME NEW y \in T  PROVE ~ (y < l) /\ y \in Nat /\ l \in Nat
    <3>1. y \in Nat /\ l \in Nat
      BY <1>1
    <3>2. <<y, l>> \in Nat \X Nat /\ <<y, l>>[1] = y /\ <<y, l>>[2] = l
      BY <3>1
    <3>3. QED
      BY <1>2, <3>1, <3>2 DEF OpToRel
  <2>2. QED
    BY <2>1
<1> QED
  BY <1>1, <1>3 DEF LevelFor

LEMMA ModType == ASSUME NEW n \in Nat, NEW k \in Nat \ {0}  PROVE n % k \in Nat /\ n % k < k
  OBVIOUS

LEMMA SlotType ==
  ASSUME WheelConstants, NEW at \in Nat, NEW l \in Level
  PROVE  SlotOf(at, l) \in Nat /\ SlotOf(at, l) < Slots[l]
<1>1. Unit[l] \in Nat \ {0} /\ Slots[l] \in Nat \ {0}
  BY DEF WheelConstants, Level
<1>2. at \div Unit[l] \in Nat
  BY <1>1, DivMonotone
<1> QED
  BY <1>1, <1>2, ModType DEF SlotOf

\* What an entry becomes when it is placed.
LEMMA PlaceType ==
  ASSUME WheelConstants, NEW id \in Ids, NEW at \in WheelTimes, NEW from
  PROVE  /\ Place(id, at, from) \in Placement
         /\ Place(id, at, from).level \in Level
         /\ Place(id, at, from).slot < Slots[Place(id, at, from).level]
         /\ Place(id, at, from).slot = SlotOf(at, Place(id, at, from).level)
         /\ Plain(Place(id, at, from)) = [id |-> id, at |-> at]
         /\ Place(id, at, from).at = at
<1>1. LevelFor(at, from) \in Level
  BY LevelForType
<1>2. /\ SlotOf(at, LevelFor(at, from)) \in Nat
      /\ SlotOf(at, LevelFor(at, from)) < Slots[LevelFor(at, from)]
  <2>1. at \in Nat
    BY DEF WheelTimes, WheelConstants
  <2>2. \A l \in Level : SlotOf(at, l) \in Nat /\ SlotOf(at, l) < Slots[l]
    BY <2>1, SlotType
  <2>3. QED
    BY <1>1, <2>2
<1> QED
  BY <1>1, <1>2 DEF Place, Placement, Plain

WheelInv == WheelTypeOK /\ Placed

\* Replacing an entry keeps what it is and its due time.
LEMMA ReplaceType ==
  ASSUME WheelConstants, WheelInv, NEW e \in wheel
  PROVE  /\ Replace(e) \in Placement
         /\ Replace(e).level \in Level
         /\ Replace(e).slot < Slots[Replace(e).level]
         /\ Replace(e).slot = SlotOf(e.at, Replace(e).level)
         /\ Plain(Replace(e)) = Plain(e)
         /\ Replace(e).at = e.at
<1>1. e \in Placement /\ e.id \in Ids /\ e.at \in WheelTimes
  BY DEF WheelInv, WheelTypeOK, Placement
<1>2. CASE e.level = 1
  BY <1>1, <1>2 DEF WheelInv, WheelTypeOK, Placed, Replace
<1>3. CASE e.level # 1
  BY <1>1, <1>3, PlaceType DEF Replace, Plain
<1> QED
  BY <1>2, <1>3

\* The tick walks the slot of every entry that is due.
LEMMA DueIsTaken ==
  ASSUME WheelConstants, WheelInv, NEW t \in WheelTimes, NEW e \in wheel, e.at <= t
  PROVE  e \in Taken(t)
<1>1. e.at \in Nat /\ current \in Nat /\ t \in Nat /\ current <= e.at
  BY DEF WheelInv, WheelTypeOK, Placed, Placement, WheelTimes, WheelConstants
<1>2. Unit[e.level] \in Nat \ {0} /\ e.level \in Level
  BY DEF WheelConstants, WheelInv, Placed, Level
<1>3. /\ current \div Unit[e.level] \in Nat
      /\ e.at \div Unit[e.level] \in Nat
      /\ t \div Unit[e.level] \in Nat
      /\ current \div Unit[e.level] <= e.at \div Unit[e.level]
      /\ e.at \div Unit[e.level] <= t \div Unit[e.level]
  BY <1>1, <1>2, DivMonotone
<1>4. e.slot = (e.at \div Unit[e.level]) % Slots[e.level]
  BY DEF WheelInv, Placed, SlotOf
<1>5. e.at \div Unit[e.level] \in (current \div Unit[e.level])..(t \div Unit[e.level])
  BY <1>3
<1> QED
  BY <1>4, <1>5 DEF Taken, Visited

\* A tick hands back what is due and keeps the rest.
LEMMA TickSplits ==
  ASSUME WheelConstants, WheelInv, NEW t \in WheelTimes, WheelTick(t)
  PROVE  /\ due' = {Plain(e) : e \in {f \in wheel : f.at <= t}}
         /\ \A e \in wheel' : \E f \in wheel : e.at = f.at /\ f.at > t /\ Plain(e) = Plain(f)
                                              /\ (e = f \/ e = Replace(f))
         /\ \A f \in wheel : f.at > t => \E e \in wheel' : Plain(e) = Plain(f)
<1> DEFINE early == {e \in Taken(t) : e.at > t}
<1>0. /\ due' = {Plain(e) : e \in Taken(t) \ early}
      /\ wheel' = (wheel \ Taken(t)) \cup {Replace(e) : e \in early}
  BY DEF WheelTick
<1>1. Taken(t) \subseteq wheel /\ \A e \in wheel : e.at \in Nat /\ t \in Nat
  BY DEF Taken, WheelInv, WheelTypeOK, Placement, WheelTimes, WheelConstants
<1>2. Taken(t) \ early = {f \in wheel : f.at <= t}
  BY <1>1, DueIsTaken
<1>3. ASSUME NEW e \in wheel'
      PROVE  \E f \in wheel : e.at = f.at /\ f.at > t /\ Plain(e) = Plain(f)
                              /\ (e = f \/ e = Replace(f))
  <2>1. CASE e \in wheel \ Taken(t)
    <3>1. ~(e.at <= t)
      BY <2>1, DueIsTaken
    <3>2. e.at > t
      BY <1>1, <2>1, <3>1
    <3>3. QED
      BY <2>1, <3>2
  <2>2. CASE e \in {Replace(f) : f \in early}
    BY <1>1, <2>2, ReplaceType
  <2>3. QED
    BY <1>0, <2>1, <2>2
<1>4. ASSUME NEW f \in wheel, f.at > t
      PROVE  \E e \in wheel' : Plain(e) = Plain(f)
  <2>1. CASE f \in Taken(t)
    <3>1. f \in early
      BY <1>4, <2>1
    <3>2. Replace(f) \in wheel'
      BY <1>0, <3>1
    <3>3. Plain(Replace(f)) = Plain(f)
      BY ReplaceType
    <3>4. QED
      BY <3>2, <3>3
  <2>2. CASE f \notin Taken(t)
    BY <1>0, <2>2
  <2>3. QED
    BY <2>1, <2>2
<1> QED
  BY <1>0, <1>2, <1>3, <1>4

----------------------------------------------------------------------------
LEMMA InitWheel == ASSUME WheelConstants, WheelInit  PROVE WheelInv
  BY DEF WheelInit, WheelInv, WheelTypeOK, Placed

LEMMA ObserveWheel ==
  ASSUME WheelConstants, WheelInv, NEW id \in Ids, NEW at \in WheelTimes, Observe(id, at)
  PROVE  WheelInv'
<1>1. WheelTypeOK'
  BY PlaceType DEF WheelInv, WheelTypeOK, Observe, Schedule
<1>2. Placed'
  BY PlaceType DEF WheelInv, Placed, Observe, Schedule, SlotOf
<1> QED
  BY <1>1, <1>2 DEF WheelInv

LEMMA TickWheel ==
  ASSUME WheelConstants, WheelInv, NEW t \in WheelTimes, WheelTick(t)  PROVE WheelInv'
<1>1. ASSUME NEW e \in wheel'
      PROVE  /\ e \in Placement /\ e.slot < Slots[e.level] /\ e.at >= t /\ e.level \in Level
             /\ e.slot = SlotOf(e.at, e.level)
  <2>1. PICK f \in wheel : e.at = f.at /\ f.at > t /\ (e = f \/ e = Replace(f))
    BY TickSplits
  <2>2. e.at \in Nat /\ t \in Nat
    BY <2>1 DEF WheelInv, WheelTypeOK, Placement, WheelTimes, WheelConstants
  <2>3. CASE e = f
    BY <2>1, <2>2, <2>3 DEF WheelInv, WheelTypeOK, Placed
  <2>4. CASE e = Replace(f)
    BY <2>1, <2>2, <2>4, ReplaceType
  <2>5. QED
    BY <2>1, <2>3, <2>4
<1>2. due' \subseteq Entry
  <2>1. due' = {Plain(e) : e \in {f \in wheel : f.at <= t}}
    BY TickSplits
  <2>2. \A e \in wheel : Plain(e) \in Entry
    BY DEF WheelInv, WheelTypeOK, Placement, Plain, Entry
  <2>3. QED
    BY <2>1, <2>2
<1>3. current' = t
  BY DEF WheelTick
<1> QED
  BY <1>1, <1>2, <1>3 DEF WheelInv, WheelTypeOK, Placed, SlotOf

LEMMA NextWheel == ASSUME WheelConstants, WheelInv, [WheelNext]_wheelVars  PROVE WheelInv'
<1>1. CASE UNCHANGED wheelVars
  BY <1>1 DEF WheelInv, WheelTypeOK, Placed, wheelVars
<1>2. CASE \E id \in Ids, at \in WheelTimes : Observe(id, at)
  BY <1>2, ObserveWheel
<1>3. CASE \E t \in WheelTimes : WheelTick(t)
  BY <1>3, TickWheel
<1> QED
  BY <1>1, <1>2, <1>3 DEF WheelNext

\* Every entry stays in the slot of its due time and ahead of the wheel (schedule).
THEOREM EntriesPlaced == WheelSpec => []Placed
<1>1. WheelInit => WheelInv
  BY InitWheel, WheelConstants
<1>2. WheelInv /\ [WheelNext]_wheelVars => WheelInv'
  BY NextWheel, WheelConstants
<1>3. WheelInv => Placed
  BY DEF WheelInv
<1> QED
  BY <1>1, <1>2, <1>3, PTL DEF WheelSpec

\* The invariant of the wheel: types, ring bounds and placement (tick, schedule).
THEOREM WheelInvAlways == WheelSpec => []WheelInv
<1>1. WheelInit => WheelInv
  BY InitWheel, WheelConstants
<1>2. WheelInv /\ [WheelNext]_wheelVars => WheelInv'
  BY NextWheel, WheelConstants
<1> QED
  BY <1>1, <1>2, PTL DEF WheelSpec

\* The first tick at or after the due time of an entry hands it back, and no
\* other tick does (tick, schedule).
THEOREM WheelIsDelayQueue == WheelSpec => ImplementsDelayQueue
<1>1. WheelInit => Queue!Init
  BY DEF WheelInit, Queue!Init, WheelTimes, Queue!Times
<1>2. ASSUME WheelInv, [WheelNext]_wheelVars  PROVE [Queue!Next]_(Queue!vars)
  <2>1. CASE UNCHANGED wheelVars
    BY <2>1 DEF wheelVars, Queue!vars
  <2>2. ASSUME NEW id \in Ids, NEW at \in WheelTimes, Observe(id, at)
        PROVE  Queue!Schedule(id, at)
    <3>1. wheel' = wheel \cup {Place(id, at, current)} /\ due' = {} /\ current' = current
      BY <2>2 DEF Observe, Schedule
    <3>2. {Plain(e) : e \in wheel'} = {Plain(e) : e \in wheel} \cup {[id |-> id, at |-> at]}
      <4>1. Plain(Place(id, at, current)) = [id |-> id, at |-> at]
        BY PlaceType, WheelConstants
      <4>2. QED
        BY <3>1, <4>1
    <3>3. QED
      BY <3>1, <3>2 DEF Queue!Schedule
  <2>3. ASSUME NEW t \in WheelTimes, WheelTick(t)
        PROVE  Queue!Tick(t)
    <3>1. /\ due' = {Plain(e) : e \in {f \in wheel : f.at <= t}}
          /\ \A e \in wheel' : \E f \in wheel : f.at > t /\ Plain(e) = Plain(f)
          /\ \A f \in wheel : f.at > t => \E e \in wheel' : Plain(e) = Plain(f)
      BY <1>2, <2>3, TickSplits, WheelConstants
    <3>2. \A f \in wheel : f.at \in Nat /\ Plain(f).at = f.at /\ t \in Nat
      BY <1>2, WheelConstants DEF WheelInv, WheelTypeOK, Placement, WheelTimes, WheelConstants, Plain
    <3>3. due' = {p \in {Plain(e) : e \in wheel} : p.at <= t}
      BY <3>1, <3>2
    <3>4. {Plain(e) : e \in wheel'} = {Plain(e) : e \in wheel} \ due'
      <4>1. ASSUME NEW e \in wheel'  PROVE Plain(e) \in {Plain(f) : f \in wheel} \ due'
        BY <3>1, <3>2, <3>3
      <4>2. ASSUME NEW f \in wheel, Plain(f) \notin due'
            PROVE  Plain(f) \in {Plain(e) : e \in wheel'}
        BY <3>1, <3>2, <3>3, <4>2
      <4>3. QED
        BY <4>1, <4>2
    <3>5. current' = t
      BY <2>3 DEF WheelTick
    <3>6. QED
      BY <3>3, <3>4, <3>5 DEF Queue!Tick
  <2>4. QED
    BY <1>2, <2>1, <2>2, <2>3 DEF WheelNext, Queue!Next, WheelTimes, Queue!Times
<1>3. WheelSpec => []WheelInv
  BY WheelInvAlways
<1> QED
  BY <1>1, <1>2, <1>3, PTL DEF WheelSpec, ImplementsDelayQueue, Queue!Spec

----------------------------------------------------------------------------
(* Routine batches.                                                        *)

\* A batch is sent exactly when its deadline has come.
LEMMA SentAtDeadline ==
  ASSUME BatcherInv, NEW t \in Times, NEW k \in Keys
  PROVE  k \in Sent(t) <=> Waiting(k) /\ batch[k].at <= t
<1>1. ASSUME k \in Sent(t)  PROVE Waiting(k) /\ batch[k].at <= t
  <2>1. PICK e \in timers : e.at <= t /\ Fires(e) /\ e.key = k
    BY <1>1 DEF Sent, Due
  <2>2. Waiting(e.key) /\ e.at = batch[e.key].at
    BY <2>1 DEF BatcherInv, NoStrayTimer
  <2>3. QED
    BY <2>1, <2>2
<1>2. ASSUME Waiting(k), batch[k].at <= t  PROVE k \in Sent(t)
  <2> DEFINE e == [key |-> k, version |-> batch[k].version, at |-> batch[k].at]
  <2>1. e \in timers /\ e.key = k /\ e.at = batch[k].at /\ e.version = batch[k].version
    BY <1>2 DEF BatcherInv, Covered
  <2>2. e \in Due(t) /\ Fires(e)
    BY <1>2, <2>1 DEF Due, Fires
  <2>3. QED
    BY <2>1, <2>2 DEF Sent
<1> QED
  BY <1>1, <1>2

\* What is left in the wheel after the tick belongs to batches that still wait.
LEMMA AfterFlush ==
  ASSUME BatcherInv, NEW t \in Times
  PROVE  /\ Kept(t) \in [Keys -> Batch]
         /\ \A k \in Keys : Kept(t)[k].items # <<>> =>
              /\ Kept(t)[k] = batch[k] /\ Waiting(k) /\ batch[k].at > t
              /\ [key |-> k, version |-> batch[k].version, at |-> batch[k].at]
                   \in timers \ Due(t)
         /\ \A e \in timers \ Due(t) :
              /\ e \in Timer
              /\ Kept(t)[e.key] = batch[e.key] /\ Kept(t)[e.key].items # <<>>
              /\ e.at = batch[e.key].at /\ e.version <= batch[e.key].version
         /\ \A k \in Keys : Kept(t)[k].items = <<>> => Kept(t)[k] = NoBatch \/ Kept(t)[k] = batch[k]
<1>1. /\ batch \in [Keys -> Batch] /\ timers \subseteq Timer /\ t \in Nat
      /\ \A k \in Keys : batch[k].at \in Nat
      /\ NoBatch \in Batch
  BY RoutineConstants DEF BatcherInv, TypeOK, Batch, NoBatch, Times, RoutineConstants
<1>2. Kept(t) \in [Keys -> Batch]
  BY <1>1 DEF Kept
<1>3. ASSUME NEW k \in Keys, Kept(t)[k].items # <<>>
      PROVE  /\ Kept(t)[k] = batch[k] /\ Waiting(k) /\ batch[k].at > t
             /\ [key |-> k, version |-> batch[k].version, at |-> batch[k].at]
                  \in timers \ Due(t)
  <2>1. k \notin Sent(t) /\ Kept(t)[k] = batch[k]
    BY <1>3 DEF Kept, NoBatch
  <2>2. Waiting(k) /\ batch[k].at > t
    BY <1>1, <1>3, <2>1, SentAtDeadline DEF Waiting
  <2>3. [key |-> k, version |-> batch[k].version, at |-> batch[k].at] \in timers \ Due(t)
    BY <1>1, <2>2 DEF BatcherInv, Covered, Due
  <2>4. QED
    BY <2>1, <2>2, <2>3
<1>4. ASSUME NEW e \in timers \ Due(t)
      PROVE  /\ e \in Timer
             /\ Kept(t)[e.key] = batch[e.key] /\ Kept(t)[e.key].items # <<>>
             /\ e.at = batch[e.key].at /\ e.version <= batch[e.key].version
  <2>1. e \in Timer /\ e.key \in Keys /\ e.at \in Nat /\ ~(e.at <= t)
    BY <1>1 DEF Timer, Due
  <2>2. Waiting(e.key) /\ e.at = batch[e.key].at /\ e.version <= batch[e.key].version
    BY DEF BatcherInv, NoStrayTimer
  <2>3. e.key \notin Sent(t)
    BY <2>1, <2>2, SentAtDeadline
  <2>4. QED
    BY <2>1, <2>2, <2>3 DEF Kept, Waiting
<1> QED
  BY <1>2, <1>3, <1>4 DEF Kept

LEMMA InitBatcher == ASSUME Init  PROVE BatcherInv
  BY DEF Init, BatcherInv, TypeOK, Covered, NothingOverdue, NoStrayTimer, Waiting, NoBatch, Batch

LEMMA SentType ==
  ASSUME BatcherInv, NEW t \in Times, Flush(t)  PROVE sent' \in [Keys -> Seq(Items)]
<1>1. \A k \in Keys : sent[k] \in Seq(Items) /\ batch[k].items \in Seq(Items)
  BY DEF BatcherInv, TypeOK, Batch
<1>2. \A k \in Keys : sent[k] \o batch[k].items \in Seq(Items)
  BY <1>1, ConcatProperties
<1> QED
  BY <1>1, <1>2 DEF Flush

LEMMA TickBatcher ==
  ASSUME BatcherInv, NEW t \in Times, Tick(t)  PROVE BatcherInv'
<1>1. Flush(t) /\ batch' = Kept(t) /\ timers' = timers \ Due(t) /\ arrived' = arrived
      /\ clock' = t /\ running' = running
  BY DEF Tick, Flush
<1>2. TypeOK'
  BY <1>1, AfterFlush, SentType DEF BatcherInv, TypeOK
<1>3. Covered' /\ NothingOverdue'
  BY <1>1, AfterFlush DEF Covered, NothingOverdue, Waiting
<1>4. NoStrayTimer'
  BY <1>1, AfterFlush DEF NoStrayTimer, Waiting
<1> QED
  BY <1>2, <1>3, <1>4 DEF BatcherInv

LEMMA DeferBatcher ==
  ASSUME BatcherInv, NEW t \in Times, NEW k \in Keys, NEW i \in Items, Defer(k, i, t)
  PROVE  BatcherInv'
<1> DEFINE old == Kept(t)[k]
           b   == Added(old, i, t)
           e   == [key |-> k, version |-> b.version, at |-> b.at]
<1>1. /\ Flush(t) /\ clock' = t /\ running' = running
      /\ batch' = [Kept(t) EXCEPT ![k] = b]
      /\ timers' = (timers \ Due(t)) \cup {e}
      /\ arrived' = [arrived EXCEPT ![k] = Append(@, i)]
  BY DEF Defer, Flush
<1>2. /\ old \in Batch /\ old.version \in Nat /\ old.at \in Nat /\ old.items \in Seq(Items)
      /\ Kept(t) \in [Keys -> Batch] /\ t \in Nat
  BY AfterFlush, RoutineConstants DEF Batch, Times, RoutineConstants
<1>3. /\ b.items = Append(old.items, i) /\ b.items \in Seq(Items) /\ b.items # <<>>
      /\ b.version = old.version + 1
      /\ b.at = IF old.items = <<>> THEN t + Window ELSE old.at
  BY <1>2 DEF Added
<1>4. b \in Batch /\ b.at > t
  <2>1. b.at \in Nat /\ b.at > t
    <3>1. CASE old.items = <<>>
      BY <1>2, <1>3, <3>1, RoutineConstants DEF RoutineConstants
    <3>2. CASE old.items # <<>>
      BY <1>2, <1>3, <3>2, AfterFlush
    <3>3. QED
      BY <3>1, <3>2
  <2>2. QED
    BY <1>2, <1>3, <2>1 DEF Batch, Added
<1>5. e \in Timer /\ e.key = k /\ e.version = b.version /\ e.at = b.at
  BY <1>4 DEF Batch, Timer
<1>6. TypeOK'
  <2>1. arrived' \in [Keys -> Seq(Items)]
    BY <1>1 DEF BatcherInv, TypeOK
  <2>2. timers' \subseteq Timer
    BY <1>1, <1>5, AfterFlush
  <2>3. batch' \in [Keys -> Batch]
    BY <1>1, <1>2, <1>4
  <2>4. sent' \in [Keys -> Seq(Items)]
    BY <1>1, SentType
  <2>5. QED
    BY <1>1, <2>1, <2>2, <2>3, <2>4 DEF BatcherInv, TypeOK
<1>7. batch'[k] = b /\ \A q \in Keys : q # k => batch'[q] = Kept(t)[q]
  BY <1>1, <1>2
<1>8. Covered' /\ NothingOverdue'
  <2>1. ASSUME NEW q \in Keys, batch'[q].items # <<>>
        PROVE  /\ batch'[q].at > clock'
               /\ [key |-> q, version |-> batch'[q].version, at |-> batch'[q].at] \in timers'
    <3>1. CASE q = k
      BY <1>1, <1>4, <1>7, <3>1
    <3>2. CASE q # k
      BY <1>1, <1>7, <2>1, <3>2, AfterFlush
    <3>3. QED
      BY <3>1, <3>2
  <2>2. QED
    BY <2>1 DEF Covered, NothingOverdue, Waiting
<1>9. NoStrayTimer'
  <2>1. ASSUME NEW f \in timers'
        PROVE  batch'[f.key].items # <<>> /\ f.at = batch'[f.key].at
               /\ f.version <= batch'[f.key].version
    <3>1. CASE f = e
      BY <1>2, <1>3, <1>5, <1>7, <3>1
    <3>2. CASE f \in timers \ Due(t)
      <4>1. /\ f \in Timer /\ f.key \in Keys /\ f.version \in Nat
            /\ Kept(t)[f.key] = batch[f.key] /\ Kept(t)[f.key].items # <<>>
            /\ f.at = batch[f.key].at /\ f.version <= batch[f.key].version
        BY <3>2, AfterFlush DEF Timer
      <4>2. CASE f.key = k
        <5>1. old.items # <<>> /\ f.at = old.at /\ f.version <= old.version
          BY <4>1, <4>2
        <5>2. b.items # <<>> /\ b.at = old.at /\ b.version = old.version + 1
          BY <1>3, <5>1
        <5>3. f.version <= b.version
          BY <1>2, <4>1, <5>1, <5>2 DEF Batch
        <5>4. batch'[f.key] = b
          BY <1>7, <4>2
        <5>5. QED
          BY <5>1, <5>2, <5>3, <5>4
      <4>3. CASE f.key # k
        BY <1>7, <4>1, <4>3
      <4>4. QED
        BY <4>2, <4>3
    <3>3. QED
      BY <1>1, <3>1, <3>2
  <2>2. QED
    BY <2>1 DEF NoStrayTimer, Waiting
<1> QED
  BY <1>6, <1>8, <1>9 DEF BatcherInv

LEMMA NextBatcher == ASSUME BatcherInv, [Next]_vars  PROVE BatcherInv'
<1>1. CASE UNCHANGED <<batch, timers, clock>> /\ (Stop \/ UNCHANGED vars)
  BY <1>1 DEF Stop, vars, BatcherInv, TypeOK, Covered, NothingOverdue, NoStrayTimer, Waiting
<1>2. CASE \E k \in Keys, i \in Items, t \in Times : Defer(k, i, t)
  BY <1>2, DeferBatcher
<1>3. CASE \E t \in Times : Tick(t)
  BY <1>3, TickBatcher
<1> QED
  BY <1>1, <1>2, <1>3 DEF Next, Stop, vars

\* The wheel holds exactly what the waiting batches need, and nothing that waits
\* is overdue once a handler is done (observe, flush_due).
THEOREM BatcherInvAlways == Spec => []BatcherInv
<1>1. Init => BatcherInv
  BY InitBatcher
<1>2. BatcherInv /\ [Next]_vars => BatcherInv'
  BY NextBatcher
<1> QED
  BY <1>1, <1>2, PTL DEF Spec

\* A batch leaves only when its window is over, and whole (flush_due).
THEOREM WindowAlwaysHonoured == Spec => WindowHonoured
<1>1. BatcherInv /\ [Next]_vars => [WindowStep]_vars
  <2>1. ASSUME BatcherInv, NEW t \in Times, Flush(t)  PROVE WindowStep
    <3>1. clock' = t /\ t \in Nat
      BY <2>1, RoutineConstants DEF Flush, Times, RoutineConstants
    <3>2. ASSUME NEW k \in Keys, sent'[k] # sent[k]
          PROVE  clock' >= batch[k].at /\ sent'[k] = sent[k] \o batch[k].items
      <4>1. k \in Sent(t) /\ sent'[k] = sent[k] \o batch[k].items
        BY <2>1, <3>2 DEF Flush
      <4>2. batch[k].at <= t /\ batch[k].at \in Nat
        BY <2>1, <4>1, SentAtDeadline DEF BatcherInv, TypeOK, Batch
      <4>3. QED
        BY <3>1, <4>1, <4>2
    <3>3. QED
      BY <3>2 DEF WindowStep
  <2>2. ASSUME Next  PROVE (\E t \in Times : Flush(t)) \/ sent' = sent
    BY <2>2 DEF Next, Defer, Tick, Stop
  <2>3. QED
    BY <2>1, <2>2 DEF WindowStep
<1>2. Spec => []BatcherInv
  BY BatcherInvAlways
<1> QED
  BY <1>1, <1>2, PTL DEF Spec, WindowHonoured

----------------------------------------------------------------------------
\* Adding a delivery to what waits, or sending what waits, keeps the sequence of
\* all deliveries of the key.
LEMMA FlushConserves ==
  ASSUME BatcherInv, Conserved, NEW t \in Times, Flush(t), NEW k \in Keys
  PROVE  sent'[k] \o Kept(t)[k].items = arrived[k]
<1>1. sent[k] \in Seq(Items) /\ batch[k].items \in Seq(Items) /\ sent \in [Keys -> Seq(Items)]
  BY DEF BatcherInv, TypeOK, Batch
<1>2. sent[k] \o batch[k].items = arrived[k] /\ arrived[k] \in Seq(Items)
  BY DEF Conserved, BatcherInv, TypeOK
<1>3. CASE k \in Sent(t)
  <2>1. sent'[k] = arrived[k] /\ Kept(t)[k].items = <<>>
    BY <1>2, <1>3 DEF Flush, Kept, NoBatch
  <2>2. QED
    BY <1>2, <2>1, ConcatEmptySeq
<1>4. CASE k \notin Sent(t)
  BY <1>2, <1>4 DEF Flush, Kept
<1> QED
  BY <1>3, <1>4

LEMMA AppendConserves ==
  ASSUME NEW s \in Seq(Items), NEW r \in Seq(Items), NEW i \in Items
  PROVE  s \o Append(r, i) = Append(s \o r, i)
<1>1. Append(r, i) = r \o <<i>> /\ <<i>> \in Seq(Items)
  BY AppendIsConcat
<1>2. s \o r \in Seq(Items)
  BY ConcatProperties
<1>3. Append(s \o r, i) = (s \o r) \o <<i>>
  BY <1>2, AppendIsConcat
<1> QED
  BY <1>1, <1>3, ConcatAssociative

LEMMA NextConserved == ASSUME BatcherInv, Conserved, [Next]_vars  PROVE Conserved'
<1>1. CASE UNCHANGED <<batch, arrived, sent>>
  BY <1>1 DEF Conserved
<1>2. ASSUME NEW t \in Times, Tick(t)  PROVE Conserved'
  BY <1>2, FlushConserves DEF Tick, Conserved
<1>3. ASSUME NEW t \in Times, NEW k \in Keys, NEW i \in Items, Defer(k, i, t)
      PROVE  Conserved'
  <2> DEFINE old == Kept(t)[k]
  <2>1. /\ Flush(t)
        /\ batch' = [Kept(t) EXCEPT ![k] = Added(old, i, t)]
        /\ arrived' = [arrived EXCEPT ![k] = Append(@, i)]
        /\ arrived \in [Keys -> Seq(Items)] /\ Kept(t) \in [Keys -> Batch]
    BY <1>3, AfterFlush DEF Defer, BatcherInv, TypeOK
  <2>2. \A q \in Keys : q # k => sent'[q] \o batch'[q].items = arrived'[q]
    BY <2>1, FlushConserves
  <2>3. sent'[k] \o Append(old.items, i) = Append(arrived[k], i)
    <3>1. sent'[k] \in Seq(Items) /\ old.items \in Seq(Items)
      BY <2>1, SentType DEF Batch
    <3>2. sent'[k] \o old.items = arrived[k]
      BY <2>1, FlushConserves
    <3>3. QED
      BY <3>1, <3>2, AppendConserves
  <2>4. batch'[k].items = Append(old.items, i) /\ arrived'[k] = Append(arrived[k], i)
    BY <2>1 DEF Added
  <2>5. QED
    BY <2>2, <2>3, <2>4 DEF Conserved
<1> QED
  BY <1>1, <1>2, <1>3 DEF Next, Stop, vars

\* Over any sequence of windows no delivery is lost, sent twice or overtaken by
\* another one of its key (observe, flush_due, flush_batch).
THEOREM DeliveriesConserved == Spec => []Conserved
<1>1. Init => Conserved
  <2>1. <<>> \o <<>> = <<>>
    BY EmptySeq, ConcatEmptySeq
  <2>2. NoBatch.items = <<>>
    BY DEF NoBatch
  <2>3. ASSUME Init, NEW k \in Keys
        PROVE  sent[k] = <<>> /\ batch[k].items = <<>> /\ arrived[k] = <<>>
    BY <2>2, <2>3 DEF Init
  <2>4. QED
    BY <2>1, <2>3 DEF Conserved
<1>2. BatcherInv /\ Conserved /\ [Next]_vars => Conserved'
  BY NextConserved
<1>3. Spec => []BatcherInv
  BY BatcherInvAlways
<1> QED
  BY <1>1, <1>2, <1>3, PTL DEF Spec

----------------------------------------------------------------------------
(* The messages of a batch.                                                *)

Message == [items : Seq(Nat), len : Nat]

ChunkTypes ==
  /\ lens \in Seq(Nat) /\ totals \in Seq(Nat) /\ open \in Seq(Nat)
  /\ chunks \in Seq(Message)
  /\ next \in 1..(Len(lens) + 2) /\ openLen \in Nat

\* The open message has begun with an item that fits alone.  A message is closed
\* by the next item, which it cannot take, or is that item, cut.
OpenSound ==
  /\ IF open = <<>> THEN openLen = 0 ELSE lens[open[1]] <= Limit
  /\ open = <<>> /\ chunks # <<>> /\ next <= Len(lens) => chunks[Len(chunks)].len = Limit
  /\ next = Len(lens) + 2 => open = <<>>

\* ChunksSound of messages M that carry the first r items, whose lengths are l[k]
\* and together t[k]; and the items of every message are among them.
Sum(t, k) == IF k = 0 THEN 0 ELSE t[k]

Carried(m, t, l) ==
  /\ m.items # <<>>
  /\ \A i \in 1..Len(m.items) : m.items[i] = First(m) + i - 1
  /\ \/ m.len + Sum(t, First(m) - 1) + 1 = Sum(t, Last(m)) + Len(m.items)
     \/ Len(m.items) = 1 /\ l[First(m)] > Limit

Right(m, t, r, l) ==
  Carried(m, t, l) /\ m.len <= Limit /\ First(m) \in Nat \ {0} /\ Last(m) <= r

Linked(m, q, l) == First(q) = Last(m) + 1 /\ m.len + 1 + l[First(q)] > Limit

Sound(M, t, r, l) ==
  /\ \A c \in 1..Len(M) : Right(M[c], t, r, l)
  /\ \A c \in 1..(Len(M) - 1) : Linked(M[c], M[c + 1], l)
  /\ IF Len(M) = 0 THEN r = 0 ELSE First(M[1]) = 1 /\ Last(M[Len(M)]) = r

ChunkIInv ==
  /\ ChunkTypes /\ OpenSound
  /\ Len(totals) = Read
  /\ Sound(Messages, totals, Read, lens)

LEMMA SoundChunks ==
  ASSUME Sound(Messages, totals, Read, lens)  PROVE ChunksSound
<1>1. \A c \in 1..Len(Messages) : Carries(Messages[c])
  BY DEF Sound, Right, Carried, Carries, Sum, Total
<1> QED
  BY <1>1 DEF Sound, Right, Linked, ChunksSound, AllCarried, WithinLimit, NotSplitEarly

LEMMA SumType ==
  ASSUME NEW t \in Seq(Nat), NEW k \in 0..Len(t)  PROVE Sum(t, k) \in Nat
BY DEF Sum

LEMMA SumAppend ==
  ASSUME NEW t \in Seq(Nat), NEW x \in Nat
  PROVE  /\ Append(t, x) \in Seq(Nat) /\ Len(Append(t, x)) = Len(t) + 1
         /\ \A k \in 0..Len(t) : Sum(Append(t, x), k) = Sum(t, k)
         /\ Sum(Append(t, x), Len(t) + 1) = x
BY DEF Sum

LEMMA NextTotal ==
  ASSUME NEW t \in Seq(Nat), NEW l \in Seq(Nat), Len(t) < Len(l)
  PROVE  /\ Len(t) \in Nat /\ Sum(t, Len(t)) \in Nat /\ l[Len(t) + 1] \in Nat
         /\ Sum(t, Len(t)) + l[Len(t) + 1] \in Nat
         /\ \A k \in 1..Len(t) : l[k] \in Nat
<1>1. Len(t) \in Nat /\ Len(l) \in Nat
  OBVIOUS
<1>2. Len(t) + 1 \in 1..Len(l) /\ \A k \in 1..Len(t) : k \in 1..Len(l)
  BY <1>1
<1>3. Len(t) \in 0..Len(t)
  BY <1>1
<1>4. l[Len(t) + 1] \in Nat /\ \A k \in 1..Len(t) : l[k] \in Nat
  BY <1>2
<1>5. Sum(t, Len(t)) \in Nat
  BY <1>3, SumType
<1> QED
  BY <1>1, <1>4, <1>5

LEMMA AppendFacts ==
  ASSUME NEW S, NEW s \in Seq(S), NEW e \in S
  PROVE  /\ Append(s, e) \in Seq(S) /\ Len(s) \in Nat /\ Len(Append(s, e)) = Len(s) + 1
         /\ Append(s, e)[Len(s) + 1] = e
         /\ \A i \in 1..Len(s) : Append(s, e)[i] = s[i] /\ s[i] \in S
OBVIOUS

\* The items and the place of a message whose items follow each other.
LEMMA LastItem ==
  ASSUME NEW m \in Message, NEW t, NEW l, Carried(m, t, l)
  PROVE  /\ First(m) \in Nat /\ Len(m.items) \in Nat \ {0} /\ Last(m) \in Nat
         /\ Last(m) = First(m) + Len(m.items) - 1
<1>1. m.items \in Seq(Nat) /\ Len(m.items) \in Nat \ {0}
  BY DEF Carried, Message
<1>2. 1 \in 1..Len(m.items) /\ Len(m.items) \in 1..Len(m.items)
  BY <1>1
<1>3. \A i \in 1..Len(m.items) : m.items[i] = First(m) + i - 1
  BY DEF Carried
<1>4. First(m) \in Nat
  BY <1>1, <1>2 DEF First
<1>5. Last(m) = First(m) + Len(m.items) - 1 /\ Last(m) \in Nat
  BY <1>1, <1>2, <1>3 DEF Last
<1> QED
  BY <1>1, <1>4, <1>5

\* What was read of the earlier items stays.
LEMMA RightStays ==
  ASSUME NEW t \in Seq(Nat), NEW x \in Nat, NEW l, NEW m \in Message, Right(m, t, Len(t), l)
  PROVE  Right(m, Append(t, x), Len(t) + 1, l)
<1> DEFINE u == Append(t, x)
<1>1. \A k \in 0..Len(t) : Sum(u, k) = Sum(t, k)
  BY SumAppend
<1>2. Carried(m, t, l) /\ First(m) \in Nat \ {0} /\ Last(m) <= Len(t)
  BY DEF Right
<1>3. First(m) - 1 \in 0..Len(t) /\ Last(m) \in 0..Len(t)
  BY <1>2, LastItem
<1>4. Sum(u, First(m) - 1) = Sum(t, First(m) - 1) /\ Sum(u, Last(m)) = Sum(t, Last(m))
  BY <1>1, <1>3
<1>5. Carried(m, u, l)
  BY <1>2, <1>4 DEF Carried
<1>6. Last(m) <= Len(t) + 1
  BY <1>3
<1> QED
  BY <1>2, <1>5, <1>6 DEF Right

\* Message m begins with the item after the first r, behind the messages M.
Begins(m, M, r, l) ==
  /\ m.items = <<r + 1>> /\ m.len <= Limit
  /\ m.len = l[r + 1] \/ l[r + 1] > Limit
  /\ M # <<>> => M[Len(M)].len + 1 + l[r + 1] > Limit

\* Message q is m with the item after the first r.
Extends(q, m, r, l) ==
  /\ q.items = Append(m.items, r + 1) /\ q.len = m.len + 1 + l[r + 1] /\ q.len <= Limit
  /\ Len(m.items) = 1 => l[First(m)] <= Limit

\* The message that takes the next item carries it.
LEMMA RightBegins ==
  ASSUME NEW t \in Seq(Nat), NEW l \in Seq(Nat), Len(t) < Len(l),
         NEW m \in Message, NEW M, Begins(m, M, Len(t), l)
  PROVE  /\ Right(m, Append(t, Sum(t, Len(t)) + l[Len(t) + 1]), Len(t) + 1, l)
         /\ First(m) = Len(t) + 1 /\ Last(m) = Len(t) + 1
<1> DEFINE r == Len(t)
           x == Sum(t, r) + l[r + 1]
           u == Append(t, x)
<1>1. r \in Nat /\ Sum(t, r) \in Nat /\ l[r + 1] \in Nat /\ x \in Nat
  BY SumType
<1>2. Sum(u, r) = Sum(t, r) /\ Sum(u, r + 1) = x
  BY <1>1, SumAppend
<1>3. /\ First(m) = r + 1 /\ Last(m) = r + 1 /\ Len(m.items) = 1 /\ m.items # <<>>
      /\ \A i \in 1..Len(m.items) : m.items[i] = First(m) + i - 1
  BY <1>1 DEF First, Last, Begins
<1>4. m.len \in Nat /\ m.len <= Limit /\ (m.len = l[r + 1] \/ l[r + 1] > Limit)
  BY DEF Begins, Message
<1>5. First(m) - 1 = r /\ First(m) \in Nat \ {0} /\ Last(m) <= r + 1
  BY <1>1, <1>3
<1> HIDE DEF u
<1>6. m.len + Sum(u, First(m) - 1) + 1 = Sum(u, Last(m)) + Len(m.items) \/ l[First(m)] > Limit
  BY <1>1, <1>2, <1>3, <1>4, <1>5
<1>7. Carried(m, u, l)
  BY <1>3, <1>6 DEF Carried
<1> QED
  BY <1>3, <1>4, <1>5, <1>7 DEF Right, u

LEMMA RightExtends ==
  ASSUME NEW t \in Seq(Nat), NEW l \in Seq(Nat), Len(t) < Len(l),
         NEW m \in Message, Right(m, t, Len(t), l), Last(m) = Len(t),
         NEW q \in Message, Extends(q, m, Len(t), l)
  PROVE  /\ Right(q, Append(t, Sum(t, Len(t)) + l[Len(t) + 1]), Len(t) + 1, l)
         /\ First(q) = First(m) /\ Last(q) = Len(t) + 1
<1> DEFINE r == Len(t)
           x == Sum(t, r) + l[r + 1]
           u == Append(t, x)
           k == Len(m.items)
<1>1. r \in Nat /\ Sum(t, r) \in Nat /\ l[r + 1] \in Nat /\ x \in Nat
  BY SumType
<1>2. Sum(u, r + 1) = x /\ \A i \in 0..r : Sum(u, i) = Sum(t, i)
  BY <1>1, SumAppend
<1>3. Carried(m, t, l) /\ First(m) \in Nat \ {0}
  BY DEF Right
<1>4. k \in Nat \ {0} /\ r = First(m) + k - 1 /\ m.items \in Seq(Nat)
  BY <1>3, LastItem DEF Message
<1>5. /\ Len(q.items) = k + 1 /\ q.items[k + 1] = r + 1
      /\ \A i \in 1..k : q.items[i] = m.items[i]
  <2>1. r + 1 \in Nat /\ q.items = Append(m.items, r + 1)
    BY <1>1 DEF Extends
  <2> QED
    BY <1>4, <2>1, AppendFacts
<1>6. First(q) = First(m) /\ Last(q) = r + 1
  <2>1. 1 \in 1..k
    BY <1>4
  <2> QED
    BY <1>5, <2>1 DEF First, Last
<1>7. \A i \in 1..Len(q.items) : q.items[i] = First(q) + i - 1
  <2> SUFFICES ASSUME NEW i \in 1..(k + 1) PROVE q.items[i] = First(q) + i - 1
    BY <1>5
  <2>1. CASE i = k + 1
    BY <1>3, <1>4, <1>5, <1>6, <2>1
  <2>2. CASE i \in 1..k
    BY <1>3, <1>5, <1>6, <2>2 DEF Carried
  <2> QED
    BY <1>4, <2>1, <2>2
<1>8. m.len + Sum(t, First(m) - 1) + 1 = Sum(t, r) + k
  <2>1. CASE k = 1
    <3>1. First(m) = r /\ r \in 1..r
      BY <1>1, <1>3, <1>4, <2>1
    <3>2. l[First(m)] \in Nat
      BY <3>1, NextTotal
    <3>3. l[First(m)] <= Limit
      BY <2>1 DEF Extends
    <3>4. ~(l[First(m)] > Limit)
      BY <3>2, <3>3, ChunkConstants
    <3> QED
      BY <1>3, <3>4 DEF Carried
  <2>2. CASE k # 1
    BY <1>3, <2>2 DEF Carried
  <2> QED
    BY <2>1, <2>2
<1>9. Sum(u, First(m) - 1) = Sum(t, First(m) - 1) /\ Sum(t, First(m) - 1) \in Nat
  <2>1. First(m) - 1 \in 0..r
    BY <1>3, <1>4
  <2> QED
    BY <1>2, <2>1, SumType
<1>10. q.len = m.len + 1 + l[r + 1] /\ q.len <= Limit /\ m.len \in Nat
  BY DEF Extends, Message
<1> HIDE DEF u
<1>11. q.len + Sum(u, First(q) - 1) + 1 = Sum(u, Last(q)) + Len(q.items)
  <2> DEFINE s == Sum(t, First(m) - 1)
  <2>1. Sum(u, First(q) - 1) = s /\ Sum(u, Last(q)) = Sum(t, r) + l[r + 1]
    BY <1>2, <1>6, <1>9
  <2>2. s \in Nat /\ m.len + s + 1 = Sum(t, r) + k
    BY <1>8, <1>9
  <2> HIDE DEF s
  <2> QED
    <3> DEFINE y == Sum(t, r)
               z == l[r + 1]
               v == m.len
    <3>1. /\ y \in Nat /\ z \in Nat /\ v \in Nat /\ s \in Nat /\ k \in Nat
          /\ q.len = v + 1 + z /\ v + s + 1 = y + k
          /\ Sum(u, First(q) - 1) = s /\ Sum(u, Last(q)) = y + z /\ Len(q.items) = k + 1
      BY <1>1, <1>4, <1>5, <1>10, <2>1, <2>2
    <3> HIDE DEF y, z, v, k
    <3>2. (v + 1 + z) + s + 1 = (y + z) + (k + 1)
      BY <3>1
    <3> QED
      BY <3>1, <3>2
<1>12. q.items # <<>>
  <2>1. Len(q.items) # 0
    BY <1>4, <1>5
  <2> QED
    BY <2>1
<1>13. Carried(q, u, l)
  BY <1>7, <1>11, <1>12 DEF Carried
<1>14. Right(q, u, r + 1, l)
  BY <1>1, <1>3, <1>6, <1>10, <1>13 DEF Right
<1> QED
  BY <1>6, <1>14 DEF u

\* The next item begins a message.
LEMMA SoundAppend ==
  ASSUME NEW M \in Seq(Message), NEW t \in Seq(Nat), NEW l \in Seq(Nat),
         Sound(M, t, Len(t), l), Len(t) < Len(l),
         NEW m \in Message, Begins(m, M, Len(t), l)
  PROVE  Sound(Append(M, m), Append(t, Sum(t, Len(t)) + l[Len(t) + 1]), Len(t) + 1, l)
<1> DEFINE n == Len(M)
           N == Append(M, m)
           r == Len(t)
           x == Sum(t, r) + l[r + 1]
           u == Append(t, x)
<1>1. /\ n \in Nat /\ Len(N) = n + 1 /\ N[n + 1] = m
      /\ \A c \in 1..n : N[c] = M[c] /\ M[c] \in Message
  BY AppendFacts
<1>2. r \in Nat /\ l[r + 1] \in Nat /\ x \in Nat
  BY NextTotal
<1>3. Right(m, u, r + 1, l) /\ First(m) = r + 1 /\ Last(m) = r + 1
  BY RightBegins
<1>4. \A c \in 1..n : Right(M[c], u, r + 1, l)
  BY <1>1, <1>2, RightStays DEF Sound
<1> HIDE DEF N, u, x
<1>5. ASSUME NEW c \in 1..(n + 1) PROVE Right(N[c], u, r + 1, l)
  <2>1. c = n + 1 \/ c \in 1..n
    <3>1. n \in Nat
      BY <1>1
    <3> HIDE DEF n
    <3> QED
      BY <3>1
  <2> QED
    BY <1>1, <1>3, <1>4, <2>1
<1>6. \A c \in 1..(n - 1) : Linked(N[c], N[c + 1], l)
  <2>1. \A c \in 1..(n - 1) : N[c] = M[c] /\ N[c + 1] = M[c + 1]
    BY <1>1
  <2> QED
    BY <2>1 DEF Sound
<1>7. n # 0 => Linked(N[n], N[n + 1], l)
  <2> SUFFICES ASSUME n # 0 PROVE Linked(M[n], m, l)
    BY <1>1
  <2>1. Last(M[n]) = r /\ M # <<>>
    BY DEF Sound
  <2>2. M[n].len + 1 + l[r + 1] > Limit
    BY <2>1 DEF Begins
  <2> QED
    BY <1>3, <2>1, <2>2 DEF Linked
<1>8. ASSUME NEW c \in 1..n PROVE Linked(N[c], N[c + 1], l)
  <2>1. (n # 0 /\ c = n) \/ c \in 1..(n - 1)
    BY <1>1
  <2> QED
    BY <1>6, <1>7, <2>1
<1>9. First(N[1]) = 1
  <2>1. CASE n = 0
    <3>1. r = 0
      BY <2>1 DEF Sound
    <3> QED
      BY <1>1, <1>3, <2>1, <3>1
  <2>2. CASE n # 0
    <3>1. First(M[1]) = 1
      BY <2>2 DEF Sound
    <3> QED
      BY <1>1, <2>2, <3>1
  <2> QED
    BY <2>1, <2>2
<1>10. /\ \A c \in 1..Len(N) : Right(N[c], u, r + 1, l)
       /\ \A c \in 1..(Len(N) - 1) : Linked(N[c], N[c + 1], l)
       /\ Len(N) # 0 /\ Last(N[Len(N)]) = r + 1
  BY <1>1, <1>3, <1>5, <1>8
<1>11. Sound(N, u, r + 1, l)
  BY <1>9, <1>10 DEF Sound
<1> QED
  BY <1>11 DEF N, x, u

\* The next item joins the last message.
LEMMA SoundExtend ==
  ASSUME NEW M \in Seq(Message), NEW t \in Seq(Nat), NEW l \in Seq(Nat), Len(t) < Len(l),
         NEW m \in Message, Sound(Append(M, m), t, Len(t), l),
         NEW q \in Message, Extends(q, m, Len(t), l)
  PROVE  Sound(Append(M, q), Append(t, Sum(t, Len(t)) + l[Len(t) + 1]), Len(t) + 1, l)
<1> DEFINE n == Len(M)
           O == Append(M, m)
           N == Append(M, q)
           r == Len(t)
           x == Sum(t, r) + l[r + 1]
           u == Append(t, x)
<1>1. /\ n \in Nat /\ Len(N) = n + 1 /\ N[n + 1] = q /\ Len(O) = n + 1 /\ O[n + 1] = m
      /\ \A c \in 1..n : N[c] = M[c] /\ O[c] = M[c] /\ M[c] \in Message
  BY AppendFacts
<1>2. r \in Nat /\ l[r + 1] \in Nat /\ x \in Nat
  BY NextTotal
<1> HIDE DEF O
<1>3. /\ \A c \in 1..(n + 1) : Right(O[c], t, r, l)
      /\ \A c \in 1..n : Linked(O[c], O[c + 1], l)
      /\ First(O[1]) = 1 /\ Last(O[n + 1]) = r
  <2>1. Sound(O, t, r, l) /\ Len(O) # 0
    BY <1>1 DEF O
  <2>2. Len(O) - 1 = n
    BY <1>1
  <2> QED
    BY <1>1, <2>1, <2>2 DEF Sound
<1>4. Right(m, t, r, l) /\ Last(m) = r
  BY <1>1, <1>3
<1>5. Right(q, u, r + 1, l) /\ First(q) = First(m) /\ Last(q) = r + 1
  BY <1>4, RightExtends
<1>6. \A c \in 1..n : Right(M[c], t, r, l)
  BY <1>1, <1>3
<1>7. \A c \in 1..n : Right(M[c], u, r + 1, l)
  BY <1>1, <1>2, <1>6, RightStays
<1> HIDE DEF N, u, x
<1>8. ASSUME NEW c \in 1..(n + 1) PROVE Right(N[c], u, r + 1, l)
  <2>1. c = n + 1 \/ c \in 1..n
    <3>1. n \in Nat
      BY <1>1
    <3> HIDE DEF n
    <3> QED
      BY <3>1
  <2> QED
    BY <1>1, <1>5, <1>7, <2>1
<1>9. \A c \in 1..(n + 1) : First(N[c]) = First(O[c])
  BY <1>1, <1>5
<1>10. \A c \in 1..n : Linked(N[c], N[c + 1], l)
  <2> SUFFICES ASSUME NEW c \in 1..n PROVE Linked(N[c], N[c + 1], l)
    OBVIOUS
  <2>1. N[c] = O[c] /\ First(N[c + 1]) = First(O[c + 1])
    BY <1>1, <1>9
  <2> QED
    BY <1>3, <2>1 DEF Linked
<1>11. First(N[1]) = 1
  BY <1>1, <1>3, <1>9
<1>12. /\ \A c \in 1..Len(N) : Right(N[c], u, r + 1, l)
       /\ \A c \in 1..(Len(N) - 1) : Linked(N[c], N[c + 1], l)
       /\ Len(N) # 0 /\ Last(N[Len(N)]) = r + 1
  BY <1>1, <1>5, <1>8, <1>10
<1>13. Sound(N, u, r + 1, l)
  BY <1>11, <1>12 DEF Sound
<1> QED
  BY <1>13 DEF N, x, u
\* An item is read: what it makes of the messages.
LEMMA ItemSound ==
  ASSUME ChunkIInv, Item
  PROVE  /\ Len(totals)' = Read' /\ Sound(Messages, totals, Read, lens)'
<1> DEFINE t == totals
           r == Len(t)
<1>1. /\ lens \in Seq(Nat) /\ t \in Seq(Nat) /\ open \in Seq(Nat) /\ chunks \in Seq(Message)
      /\ next \in Nat \ {0} /\ openLen \in Nat /\ Len(lens) \in Nat
      /\ next <= Len(lens) /\ next' = next + 1 /\ lens' = lens
  BY DEF ChunkIInv, ChunkTypes, Item
<1>2. Read = next - 1 /\ Read' = next /\ r = next - 1 /\ next = r + 1 /\ r < Len(lens)
  BY <1>1 DEF Read, ChunkIInv
<1>3. totals' = Append(t, Sum(t, r) + lens[r + 1])
  BY <1>2 DEF Item, Total, Sum
<1>4. Sum(t, r) + lens[r + 1] \in Nat /\ lens[r + 1] \in Nat /\ r \in Nat
  BY <1>1, <1>2, NextTotal
<1>5. Len(totals') = Read'
  BY <1>1, <1>2, <1>3, <1>4, AppendFacts
<1>6. Sound(Messages, t, r, lens) /\ Messages \in Seq(Message)
  <2>1. Closed \in Message
    BY <1>1 DEF Closed, Message
  <2>2. Messages \in Seq(Message)
    BY <1>1, <2>1, AppendFacts DEF Messages
  <2>3. Len(totals) = Read
    BY DEF ChunkIInv
  <2> QED
    BY <2>2, <2>3 DEF ChunkIInv
<1>11. /\ openLen \in Nat /\ r + 1 \in Nat /\ openLen + 1 + lens[r + 1] \in Nat
       /\ openLen + (1 + lens[r + 1]) = openLen + 1 + lens[r + 1]
       /\ openLen + 1 + lens[r + 1] <= Limit \/ openLen + 1 + lens[r + 1] > Limit
       /\ lens[r + 1] <= Limit \/ lens[r + 1] > Limit
  <2> DEFINE z == lens[r + 1]
             k == r
  <2>1. openLen \in Nat /\ z \in Nat /\ k \in Nat /\ Limit \in Nat
    BY <1>1, <1>4, ChunkConstants
  <2> HIDE DEF z, k
  <2>2. /\ k + 1 \in Nat /\ openLen + 1 + z \in Nat
        /\ openLen + (1 + z) = openLen + 1 + z
        /\ openLen + 1 + z <= Limit \/ openLen + 1 + z > Limit
        /\ z <= Limit \/ z > Limit
    BY <2>1
  <2> QED
    BY <2>1, <2>2 DEF z, k
<1> SUFFICES Sound(Messages', Append(t, Sum(t, r) + lens[r + 1]), r + 1, lens)
  BY <1>1, <1>2, <1>3, <1>5
<1>7. CASE Join /\ open # <<>>
  <2> DEFINE m == Closed
             q == [items |-> Append(open, r + 1), len |-> openLen + 1 + lens[r + 1]]
  <2>1. m \in Message /\ q \in Message
    <3>1. r + 1 \in Nat /\ openLen + 1 + lens[r + 1] \in Nat
      BY <1>11
    <3>2. Append(open, r + 1) \in Seq(Nat)
      BY <1>1, <3>1, AppendFacts
    <3> QED
      BY <1>1, <3>1, <3>2 DEF Closed, Message
  <2>2. Messages = Append(chunks, m) /\ Messages' = Append(chunks, q)
    <3>1. open' = Append(open, r + 1) /\ openLen' = openLen + 1 + lens[r + 1] /\ chunks' = chunks
      <4>1. openLen' = openLen + (1 + lens[r + 1])
        BY <1>2, <1>7 DEF Join, Needs
      <4>2. open' = Append(open, r + 1) /\ chunks' = chunks
        BY <1>2, <1>7 DEF Join
      <4> QED
        BY <1>11, <4>1, <4>2
    <3>2. open' # <<>>
      <4>1. Len(open') = Len(open) + 1 /\ Len(open) \in Nat
        BY <1>1, <1>11, <3>1, AppendFacts
      <4>2. Len(open') # 0
        BY <4>1
      <4> QED
        BY <4>2
    <3> QED
      BY <1>7, <3>1, <3>2 DEF Messages, Closed
  <2>3. Extends(q, m, r, lens)
    <3>1. openLen + (1 + lens[r + 1]) <= Limit
      BY <1>2, <1>7 DEF Join, Fits, Needs
    <3>2. q.len <= Limit
      BY <1>11, <3>1
    <3>3. Len(m.items) = 1 => lens[First(m)] <= Limit
      BY <1>7 DEF Closed, First, ChunkIInv, OpenSound
    <3> QED
      BY <3>2, <3>3 DEF Extends, Closed
  <2> QED
    BY <1>1, <1>2, <1>6, <2>1, <2>2, <2>3, SoundExtend
<1>8. CASE Join /\ open = <<>>
  <2> DEFINE q == [items |-> <<r + 1>>, len |-> lens[r + 1]]
  <2>1. q \in Message
    BY <1>4 DEF Message
  <2>2. Messages = chunks /\ Messages' = Append(chunks, q)
    BY <1>1, <1>2, <1>4, <1>8 DEF Messages, Closed, Join, Needs, ChunkIInv, OpenSound
  <2>3. Begins(q, Messages, r, lens)
    <3>1. openLen = 0 /\ openLen + lens[r + 1] <= Limit
      BY <1>2, <1>8 DEF Join, Fits, Needs, ChunkIInv, OpenSound
    <3>2. q.len <= Limit
      BY <1>4, <3>1
    <3>3. chunks # <<>> => chunks[Len(chunks)].len = Limit
      BY <1>1, <1>8 DEF ChunkIInv, OpenSound
    <3>4. Limit + 1 + lens[r + 1] > Limit
      BY <1>4, ChunkConstants
    <3> QED
      BY <2>2, <3>2, <3>3, <3>4 DEF Begins
  <2> QED
    BY <1>1, <1>2, <1>6, <2>1, <2>2, <2>3, SoundAppend
<1>9. CASE Break
  <2> DEFINE q == [items |-> <<r + 1>>, len |-> lens[r + 1]]
  <2>1. q \in Message
    BY <1>4 DEF Message
  <2>0. Closed \in Message
    BY <1>1 DEF Closed, Message
  <2>2. open # <<>>
    <3> SUFFICES ASSUME open = <<>> PROVE FALSE
      OBVIOUS
    <3>1. openLen = 0 /\ ~(openLen + lens[r + 1] <= Limit) /\ ~(lens[r + 1] > Limit)
      BY <1>2, <1>9 DEF Break, Fits, Needs, Oversized, ChunkIInv, OpenSound
    <3> QED
      BY <1>4, <3>1, ChunkConstants
  <2>3. Messages = Append(chunks, Closed) /\ Messages' = Append(Messages, q)
    BY <1>2, <1>9, <2>2 DEF Messages, Closed, Break
  <2>4. Begins(q, Messages, r, lens)
    <3>1. ~(openLen + (1 + lens[r + 1]) <= Limit) /\ ~(lens[r + 1] > Limit)
      BY <1>2, <1>9, <2>2 DEF Break, Fits, Needs, Oversized
    <3>2. openLen + 1 + lens[r + 1] > Limit /\ q.len <= Limit
      BY <1>11, <3>1
    <3>3. Messages[Len(Messages)] = Closed
      BY <1>1, <2>0, <2>3, AppendFacts
    <3> QED
      BY <3>2, <3>3 DEF Begins, Closed
  <2> QED
    BY <1>1, <1>2, <1>6, <2>1, <2>3, <2>4, SoundAppend
<1>10. CASE Cut
  <2>1. Capped \in Message /\ Capped = [items |-> <<r + 1>>, len |-> Limit]
    BY <1>1, <1>2, ChunkConstants DEF Message, Capped
  <2>2. Messages' = Append(Messages, Capped)
    <3>1. open' = <<>> /\ chunks' = Messages \o <<Capped>>
      BY <1>10 DEF Messages, Cut
    <3>2. Messages \o <<Capped>> = Append(Messages, Capped)
      BY <1>6, <2>1
    <3> QED
      BY <3>1, <3>2 DEF Messages
  <2>3. Begins(Capped, Messages, r, lens)
    <3>1. lens[r + 1] > Limit
      BY <1>2, <1>10 DEF Cut, Oversized
    <3>2. ASSUME Messages # <<>> PROVE Messages[Len(Messages)].len + 1 + lens[r + 1] > Limit
      <4>1. Messages[Len(Messages)] \in Message
        BY <1>6, <3>2
      <4>2. Messages[Len(Messages)].len \in Nat
        BY <4>1 DEF Message
      <4> QED
        BY <1>4, <3>1, <4>2, ChunkConstants
    <3> QED
      BY <2>1, <3>1, <3>2, ChunkConstants DEF Begins
  <2> QED
    BY <1>1, <1>2, <1>6, <2>1, <2>2, <2>3, SoundAppend
<1> QED
  BY <1>7, <1>8, <1>9, <1>10 DEF Item

LEMMA ItemTypes ==
  ASSUME ChunkIInv, Item  PROVE ChunkTypes' /\ OpenSound'
<1>1. /\ lens \in Seq(Nat) /\ totals \in Seq(Nat) /\ open \in Seq(Nat) /\ chunks \in Seq(Message)
      /\ next \in Nat \ {0} /\ openLen \in Nat /\ Len(lens) \in Nat /\ Closed \in Message
      /\ next <= Len(lens) /\ next' = next + 1 /\ lens' = lens
  BY DEF ChunkIInv, ChunkTypes, Item, Closed, Message
<1>2. lens[next] \in Nat
  BY <1>1
<1>3. totals' \in Seq(Nat)
  BY <1>1, <1>2 DEF Item, ChunkIInv, Total, Read
<1>4. next' \in 1..(Len(lens') + 2) /\ next' # Len(lens') + 2
  BY <1>1
<1>5. CASE Join
  <2>1. open' = Append(open, next) /\ chunks' = chunks /\ openLen' = openLen + Needs
    BY <1>5 DEF Join
  <2>2. open' \in Seq(Nat) /\ open' # <<>> /\ open'[1] = IF open = <<>> THEN next ELSE open[1]
    <3>1. /\ Append(open, next) \in Seq(Nat) /\ Len(Append(open, next)) = Len(open) + 1
          /\ Append(open, next)[Len(open) + 1] = next /\ Len(open) \in Nat
          /\ \A i \in 1..Len(open) : Append(open, next)[i] = open[i]
      BY <1>1, AppendFacts
    <3>2. open = <<>> => Len(open) = 0
      OBVIOUS
    <3>3. open # <<>> => 1 \in 1..Len(open)
      BY <1>1
    <3> QED
      BY <2>1, <3>1, <3>2, <3>3
  <2>3. Needs \in Nat /\ openLen' \in Nat
    <3>1. Needs = lens[next] \/ Needs = 1 + lens[next]
      BY DEF Needs
    <3>2. Needs \in Nat
      BY <1>2, <3>1
    <3> QED
      BY <1>1, <2>1, <3>2
  <2>4. lens'[open'[1]] <= Limit
    <3>1. CASE open = <<>>
      <4>1. 0 + lens[next] <= Limit
        BY <1>5, <3>1 DEF Join, Fits, Needs, ChunkIInv, OpenSound
      <4> QED
        BY <1>1, <1>2, <2>2, <3>1, <4>1
    <3>2. CASE open # <<>>
      BY <1>1, <2>2, <3>2 DEF ChunkIInv, OpenSound
    <3> QED
      BY <3>1, <3>2
  <2>5. OpenSound'
    BY <1>4, <2>2, <2>4 DEF OpenSound
  <2>6. ChunkTypes'
    BY <1>1, <1>3, <1>4, <2>1, <2>2, <2>3 DEF ChunkTypes
  <2> QED
    BY <2>5, <2>6
<1>6. CASE Break
  <2>1. open' = <<next>> /\ openLen' = lens[next] /\ chunks' \in {chunks, Append(chunks, Closed)}
    BY <1>6 DEF Break
  <2>2. chunks' \in Seq(Message)
    <3>1. Append(chunks, Closed) \in Seq(Message)
      BY <1>1, AppendFacts
    <3> QED
      BY <1>1, <2>1, <3>1
  <2>3. open' \in Seq(Nat) /\ open' # <<>> /\ open'[1] = next
    BY <1>1, <2>1
  <2>4. lens'[open'[1]] <= Limit
    <3>1. ~(lens[next] > Limit)
      BY <1>6 DEF Break, Oversized
    <3> QED
      BY <1>1, <1>2, <2>3, <3>1, ChunkConstants
  <2>5. OpenSound'
    BY <1>4, <2>3, <2>4 DEF OpenSound
  <2>6. ChunkTypes'
    BY <1>1, <1>2, <1>3, <1>4, <2>1, <2>2, <2>3 DEF ChunkTypes
  <2> QED
    BY <2>5, <2>6
<1>7. CASE Cut
  <2>1. Capped \in Message /\ Capped.len = Limit
    BY <1>1, ChunkConstants DEF Capped, Message
  <2>2. /\ open' = <<>> /\ openLen' = 0
        /\ \E c \in Seq(Message) : chunks' = c \o <<Capped>>
    <3>1. Append(chunks, Closed) \in Seq(Message)
      BY <1>1
    <3> QED
      BY <1>1, <1>7, <3>1 DEF Cut
  <2>3. PICK c \in Seq(Message) : chunks' = c \o <<Capped>>
    BY <2>2
  <2>4. chunks' \in Seq(Message) /\ chunks'[Len(chunks')] = Capped
    BY <2>1, <2>3
  <2>5. open' \in Seq(Nat) /\ openLen' \in Nat
    BY <2>2
  <2> QED
    BY <1>1, <1>3, <1>4, <2>1, <2>2, <2>4, <2>5 DEF ChunkTypes, OpenSound
<1> QED
  BY <1>5, <1>6, <1>7 DEF Item

LEMMA FinishKeeps ==
  ASSUME ChunkIInv, Finish  PROVE ChunkIInv'
<1>1. /\ lens \in Seq(Nat) /\ totals \in Seq(Nat) /\ open \in Seq(Nat) /\ chunks \in Seq(Message)
      /\ Len(lens) \in Nat /\ Closed \in Message /\ next = Len(lens) + 1
      /\ next' = next + 1 /\ lens' = lens /\ totals' = totals /\ open' = <<>> /\ openLen' = 0
  BY DEF ChunkIInv, ChunkTypes, Finish, Closed, Message
<1>2. chunks' = Messages /\ Messages' = Messages
  BY <1>1 DEF Finish, Messages
<1>3. Messages \in Seq(Message)
  BY <1>1 DEF Messages
<1>4. Read' = Read
  BY <1>1 DEF Read
<1>5. ChunkTypes' /\ OpenSound'
  BY <1>1, <1>2, <1>3 DEF ChunkTypes, OpenSound
<1>6. Len(totals)' = Read' /\ Sound(Messages, totals, Read, lens)'
  BY <1>1, <1>2, <1>4 DEF ChunkIInv
<1> QED
  BY <1>5, <1>6 DEF ChunkIInv

LEMMA ChunkStart == ChunkInit => ChunkIInv
<1> SUFFICES ASSUME ChunkInit PROVE ChunkIInv
  OBVIOUS
<1>1. PICK n \in 0..MaxItems : lens \in [1..n -> Lengths]
  BY DEF ChunkInit
<1>2. lens \in Seq(Nat) /\ Len(lens) \in Nat
  BY <1>1, ChunkConstants DEF Lengths
<1>3. next = 1 /\ open = <<>> /\ openLen = 0 /\ chunks = <<>> /\ totals = <<>>
  BY DEF ChunkInit
<1>4. Messages = <<>> /\ Read = 0
  BY <1>2, <1>3 DEF Messages, Read
<1>5. ChunkTypes /\ OpenSound
  BY <1>2, <1>3 DEF ChunkTypes, OpenSound
<1>6. Len(totals) = 0 /\ Sound(Messages, totals, Read, lens)
  BY <1>3, <1>4 DEF Sound
<1> QED
  BY <1>4, <1>5, <1>6 DEF ChunkIInv

\* For any limit and any items, whatever is read and sent so far carries every item
\* once and in order, no message is too long, and none was closed too early
\* (split_discord_routine_chunks).
THEOREM ChunksAlwaysSound == ChunkSpec => []ChunksSound
<1>1. ChunkIInv /\ [ChunkNext]_chunkVars => ChunkIInv'
  <2> SUFFICES ASSUME ChunkIInv, [ChunkNext]_chunkVars PROVE ChunkIInv'
    OBVIOUS
  <2>1. CASE Item
    BY <2>1, ItemSound, ItemTypes DEF ChunkIInv
  <2>2. CASE UNCHANGED chunkVars
    BY <2>2 DEF chunkVars, ChunkIInv, ChunkTypes, OpenSound, Messages, Read, Closed
  <2> QED
    BY <2>1, <2>2, FinishKeeps DEF ChunkNext
<1>2. ChunkIInv => ChunksSound
  BY SoundChunks DEF ChunkIInv
<1> QED
  BY <1>1, <1>2, ChunkStart, PTL DEF ChunkSpec

----------------------------------------------------------------------------
(* CI batches.                                                             *)

CiBatch == [jobs : JobStates, expected : Nat, all : BOOLEAN, saw : BOOLEAN, at : Nat, version : Nat]
CiTimer == [run : Runs, version : Nat, at : Nat]

CiEntry(r, b) == [run |-> r, version |-> b.version, at |-> b.at]

\* A batch that waits has its entry in the wheel, next to those of batches that
\* went out early.
Scheduled == \A r \in Runs : CiWaiting(r) => CiEntry(r, ciBatch[r]) \in ciTimers

CiIInv == CiInv /\ Scheduled

LEMMA CiTypes ==
  ASSUME CiTypeOK
  PROVE  /\ ciBatch \in [Runs -> CiBatch] /\ ciTimers \subseteq CiTimer
         /\ NoJobs \in JobStates /\ NoCiBatch \in CiBatch
         /\ Reported(NoJobs) = {}
<1>1. NoJobs \in JobStates
  BY DEF NoJobs, JobStates
<1>2. NoCiBatch \in CiBatch
  BY <1>1 DEF NoCiBatch, CiBatch
<1> QED
  BY <1>1, <1>2 DEF CiTypeOK, CiBatch, CiTimer, Reported, NoJobs

\* What is left after a flush: nothing of what was due, and the rest as it was.
LEMMA CiFlush ==
  ASSUME CiIInv, NEW t \in CiTimes
  PROVE  /\ CiKept(t) \in [Runs -> CiBatch]
         /\ \A r \in Runs : Reported(CiKept(t)[r].jobs) # {} =>
              /\ CiKept(t)[r] = ciBatch[r] /\ CiWaiting(r) /\ ciBatch[r].at > t
              /\ CiEntry(r, ciBatch[r]) \in ciTimers \ CiDue(t)
         /\ \A r \in Runs :
              CiKept(t)[r].jobs = IF r \in Flushed(t) THEN NoJobs ELSE ciObserved[r]
<1>1. /\ ciBatch \in [Runs -> CiBatch] /\ ciTimers \subseteq CiTimer
      /\ NoCiBatch \in CiBatch /\ Reported(NoJobs) = {} /\ t \in Nat
  BY CiTypes, CiConstants DEF CiIInv, CiInv, CiTimes
<1>2. CiKept(t) \in [Runs -> CiBatch]
  BY <1>1 DEF CiKept
<1>3. ASSUME NEW r \in Runs, Reported(CiKept(t)[r].jobs) # {}
      PROVE  /\ CiKept(t)[r] = ciBatch[r] /\ CiWaiting(r) /\ ciBatch[r].at > t
             /\ CiEntry(r, ciBatch[r]) \in ciTimers \ CiDue(t)
  <2> DEFINE e == CiEntry(r, ciBatch[r])
  <2>1. r \notin Flushed(t)
    BY <1>1, <1>3 DEF CiKept, NoCiBatch
  <2>2. CiKept(t)[r] = ciBatch[r] /\ CiWaiting(r)
    BY <1>3, <2>1 DEF CiKept, CiWaiting
  <2>3. e \in ciTimers /\ e.run = r /\ e.version = ciBatch[r].version /\ e.at = ciBatch[r].at
    BY <2>2 DEF CiIInv, Scheduled, CiEntry
  <2>4. CiFires(e)
    BY <2>2, <2>3 DEF CiFires
  <2>5. e \notin CiDue(t)
    BY <2>1, <2>3, <2>4 DEF Flushed
  <2>6. ~(e.at <= t)
    BY <2>3, <2>5 DEF CiDue
  <2>7. ciBatch[r].at \in Nat
    BY <1>1 DEF CiBatch
  <2>8. ciBatch[r].at > t
    BY <1>1, <2>3, <2>6, <2>7
  <2> QED
    BY <2>2, <2>3, <2>5, <2>8
<1>4. ASSUME NEW r \in Runs
      PROVE  CiKept(t)[r].jobs = IF r \in Flushed(t) THEN NoJobs ELSE ciObserved[r]
  BY DEF CiKept, NoCiBatch, CiIInv, CiInv, NothingForgotten
<1> QED
  BY <1>2, <1>3, <1>4

LEMMA CiTickKeeps ==
  ASSUME CiIInv, NEW t \in CiTimes, CiTick(t)  PROVE CiIInv'
<1>1. /\ ciBatch' = CiKept(t) /\ ciTimers' = ciTimers \ CiDue(t) /\ ciClock' = t
      /\ ciEvents' = ciEvents
      /\ ciObserved' = [r \in Runs |-> IF r \in Flushed(t) THEN NoJobs ELSE ciObserved[r]]
  BY DEF CiTick, CiAt
<1>2. NoJobs \in JobStates /\ ciObserved \in [Runs -> JobStates] /\ ciTimers \subseteq CiTimer
      /\ ciEvents \in 0..MaxEvents
  BY CiTypes DEF CiIInv, CiInv, CiTypeOK
<1>3. CiTypeOK'
  BY <1>1, <1>2, CiFlush DEF CiTypeOK, CiBatch, CiTimer
<1>4. ASSUME NEW r \in Runs, CiWaiting(r)'
      PROVE  /\ ciBatch'[r] = ciBatch[r] /\ CiWaiting(r) /\ ciBatch[r].at > t
             /\ CiEntry(r, ciBatch[r]) \in ciTimers'
  BY <1>1, <1>4, CiFlush DEF CiWaiting
<1>5. NothingHeldBack'
  BY <1>1, <1>4 DEF NothingHeldBack, CiIInv, CiInv
<1>6. NothingForgotten'
  BY <1>1, CiFlush DEF NothingForgotten
<1>7. Scheduled'
  BY <1>4 DEF Scheduled
<1> QED
  BY <1>3, <1>5, <1>6, <1>7 DEF CiIInv, CiInv

\* The batch an event has joined.
LEMMA CiJoins ==
  ASSUME NEW b \in CiBatch, NEW j \in Jobs, NEW o \in Outcome,
         NEW count \in 1..Cardinality(Jobs), NEW all \in {"yes", "no", "absent"}, NEW t \in CiTimes,
         Reported(b.jobs) # {} => b.at > t
  PROVE  LET d == CiJoined(b, j, o, count, all, t)
         IN /\ d \in CiBatch /\ d.jobs = [b.jobs EXCEPT ![j] = o]
            /\ d.version > 0 /\ d.expected > 0 /\ d.at > t
<1> DEFINE d == CiJoined(b, j, o, count, all, t)
<1>1. /\ b.jobs \in JobStates /\ b.expected \in Nat /\ b.at \in Nat /\ b.version \in Nat
      /\ b.all \in BOOLEAN /\ b.saw \in BOOLEAN
  BY DEF CiBatch
<1>2. Cardinality(Jobs) \in Nat
  BY CiConstants, FS_CardinalityType
<1>3. count \in Nat \ {0} /\ t \in Nat /\ CiWindow \in Nat \ {0}
  BY <1>2, CiConstants DEF CiTimes
<1>4. /\ d.jobs = [b.jobs EXCEPT ![j] = o]
      /\ d.expected = Expected(b, count)
      /\ d.all = IF all = "absent" THEN b.all ELSE all = "yes"
      /\ d.saw = (b.saw \/ o = "running")
      /\ d.at = IF Reported(b.jobs) = {} THEN t + CiWindow ELSE b.at
      /\ d.version = b.version + 1
      /\ d = [jobs |-> d.jobs, expected |-> d.expected, all |-> d.all, saw |-> d.saw,
              at |-> d.at, version |-> d.version]
  BY DEF CiJoined, JobsWith
<1> HIDE DEF d
<1>5. d.jobs \in JobStates
  BY <1>1, <1>4 DEF JobStates
<1>6. d.expected \in Nat /\ d.expected > 0
  BY <1>1, <1>3, <1>4 DEF Expected
<1>7. d.at \in Nat /\ d.at > t
  <2>1. CASE Reported(b.jobs) = {}
    BY <1>3, <1>4, <2>1
  <2>2. CASE Reported(b.jobs) # {}
    BY <1>1, <1>4, <2>2
  <2> QED
    BY <2>1, <2>2
<1>8. d.version \in Nat /\ d.version > 0
  BY <1>1, <1>4
<1>9. d.all \in BOOLEAN /\ d.saw \in BOOLEAN
  BY <1>1, <1>4
<1>10. d \in CiBatch
  BY <1>4, <1>5, <1>6, <1>7, <1>8, <1>9 DEF CiBatch
<1> QED
  BY <1>4, <1>6, <1>7, <1>8, <1>10 DEF d

LEMMA CiObserveKeeps ==
  ASSUME CiIInv, NEW r \in Runs, NEW j \in Jobs, NEW o \in Outcome,
         NEW count \in 1..Cardinality(Jobs), NEW all \in {"yes", "no", "absent"}, NEW t \in CiTimes,
         CiObserve(r, j, o, count, all, t)
  PROVE  CiIInv'
<1> DEFINE old  == CiKept(t)
           b    == CiJoined(old[r], j, o, count, all, t)
           seen == [q \in Runs |-> IF q \in Flushed(t) THEN NoJobs ELSE ciObserved[q]]
           e    == CiEntry(r, b)
<1>1. /\ ciClock' = t /\ ciEvents' \in 0..MaxEvents
      /\ ciTimers' = (ciTimers \ CiDue(t)) \cup {e}
      /\ \/ /\ ciBatch' = [old EXCEPT ![r] = NoCiBatch]
            /\ ciObserved' = [seen EXCEPT ![r] = NoJobs]
         \/ /\ ~Complete(b)
            /\ ciBatch' = [old EXCEPT ![r] = b]
            /\ ciObserved' = [seen EXCEPT ![r][j] = o]
  <2>1. ciEvents' \in 0..MaxEvents
    BY CiConstants DEF CiObserve, CiIInv, CiInv, CiTypeOK
  <2> QED
    BY <2>1 DEF CiObserve, CiAt, CiEntry
<1>2. /\ old \in [Runs -> CiBatch] /\ NoJobs \in JobStates /\ NoCiBatch \in CiBatch
      /\ Reported(NoJobs) = {} /\ ciTimers \subseteq CiTimer
      /\ ciObserved \in [Runs -> JobStates] /\ t \in Nat
  BY CiFlush, CiTypes DEF CiIInv, CiInv, CiTypeOK, CiTimes
<1>3. /\ \A q \in Runs : Reported(old[q].jobs) # {} =>
           /\ old[q] = ciBatch[q] /\ CiWaiting(q) /\ ciBatch[q].at > t
           /\ CiEntry(q, ciBatch[q]) \in ciTimers \ CiDue(t)
      /\ \A q \in Runs : old[q].jobs = seen[q]
  BY CiFlush
<1>4. /\ b \in CiBatch /\ b.jobs = [old[r].jobs EXCEPT ![j] = o]
      /\ b.version > 0 /\ b.expected > 0 /\ b.at > t
  <2>1. old[r] \in CiBatch
    BY <1>2
  <2>2. Reported(old[r].jobs) # {} => old[r].at > t
    BY <1>3
  <2> HIDE DEF old
  <2> QED
    BY <2>1, <2>2, CiJoins
<1> HIDE DEF old, b
<1>5. e \in CiTimer /\ ciTimers' \subseteq CiTimer /\ e \in ciTimers'
  <2>1. e \in CiTimer
    BY <1>4 DEF CiEntry, CiTimer, CiBatch
  <2> QED
    BY <1>1, <1>2, <2>1
<1>6. seen \in [Runs -> JobStates] /\ [seen[r] EXCEPT ![j] = o] \in JobStates
  BY <1>2 DEF JobStates
<1> HIDE DEF seen, e
<1>7. ciBatch' \in [Runs -> CiBatch] /\ ciObserved' \in [Runs -> JobStates]
  BY <1>1, <1>2, <1>4, <1>6
<1>8. CiTypeOK'
  BY <1>1, <1>5, <1>7 DEF CiTypeOK, CiBatch, CiTimer
<1>9. ASSUME NEW q \in Runs, q # r
      PROVE  ciBatch'[q] = old[q] /\ ciObserved'[q] = seen[q]
  BY <1>1, <1>2, <1>6, <1>9
<1>10. \/ ciBatch'[r] = NoCiBatch /\ ciObserved'[r] = NoJobs
       \/ ciBatch'[r] = b /\ ~Complete(b) /\ ciObserved'[r] = [seen[r] EXCEPT ![j] = o]
  BY <1>1, <1>2, <1>6
<1>11. ciBatch'[r].jobs = ciObserved'[r]
  BY <1>3, <1>4, <1>10 DEF NoCiBatch
<1>12. NothingForgotten'
  BY <1>3, <1>9, <1>11 DEF NothingForgotten
<1>13. ASSUME NEW q \in Runs, CiWaiting(q)'
       PROVE  /\ ciBatch'[q].version > 0 /\ ciBatch'[q].expected > 0
              /\ ciBatch'[q].at > t /\ ~Complete(ciBatch'[q])
              /\ CiEntry(q, ciBatch'[q]) \in ciTimers'
  <2>1. Reported(ciBatch'[q].jobs) # {}
    BY <1>13 DEF CiWaiting
  <2>2. CASE q # r
    <3>1. ciBatch'[q] = old[q]
      BY <1>9, <2>2
    <3>2. /\ old[q] = ciBatch[q] /\ CiWaiting(q) /\ ciBatch[q].at > t
          /\ CiEntry(q, ciBatch[q]) \in ciTimers \ CiDue(t)
      BY <1>3, <2>1, <3>1
    <3>3. /\ ciBatch[q].version > 0 /\ ciBatch[q].expected > 0 /\ ~Complete(ciBatch[q])
      BY <3>2 DEF CiIInv, CiInv, NothingHeldBack
    <3> QED
      BY <1>1, <3>1, <3>2, <3>3
  <2>3. CASE q = r
    <3>1. ciBatch'[r] # NoCiBatch
      BY <1>2, <2>1, <2>3 DEF NoCiBatch
    <3>2. ciBatch'[r] = b /\ ~Complete(b)
      BY <1>10, <3>1
    <3> QED
      BY <1>4, <1>5, <2>3, <3>2 DEF e
  <2> QED
    BY <2>2, <2>3
<1>14. NothingHeldBack' /\ Scheduled'
  BY <1>1, <1>13 DEF NothingHeldBack, Scheduled
<1> QED
  BY <1>8, <1>12, <1>14 DEF CiIInv, CiInv

LEMMA CiStart == CiInit => CiIInv
<1> SUFFICES ASSUME CiInit PROVE CiIInv
  OBVIOUS
<1>1. NoJobs \in JobStates /\ Reported(NoJobs) = {}
  BY DEF NoJobs, JobStates, Reported
<1>2. NoCiBatch \in CiBatch
  BY <1>1 DEF NoCiBatch, CiBatch
<1>3. CiTypeOK
  BY <1>1, <1>2, CiConstants DEF CiInit, CiTypeOK, CiBatch
<1>4. \A r \in Runs : ~CiWaiting(r)
  BY <1>1 DEF CiInit, CiWaiting, NoCiBatch
<1>5. NothingForgotten
  BY DEF CiInit, NothingForgotten, NoCiBatch
<1> QED
  BY <1>3, <1>4, <1>5 DEF CiIInv, CiInv, NothingHeldBack, Scheduled

\* For any runs and jobs, any order of events and any jumps of the clock, no batch of
\* a run waits past its window or once the run is complete, and no job event is
\* forgotten (observe, flush_due).
THEOREM CiAlwaysSound == CiSpec => []CiInv
<1>1. CiIInv /\ [CiNext]_ciVars => CiIInv'
  <2> SUFFICES ASSUME CiIInv, [CiNext]_ciVars PROVE CiIInv'
    OBVIOUS
  <2>1. CASE UNCHANGED ciVars
    BY <2>1 DEF ciVars, CiIInv, CiInv, CiTypeOK, NothingHeldBack, NothingForgotten, Scheduled, CiWaiting
  <2> QED
    BY <2>1, CiTickKeeps, CiObserveKeeps DEF CiNext
<1> QED
  BY <1>1, CiStart, PTL DEF CiSpec, CiIInv
=============================================================================
