--------------------------- MODULE CiOutboxProofs ---------------------------
EXTENDS CiOutbox, TLAPS

USE DEF outboxFaults

\* What follows from OutboxConstants, in the form the proofs use.
LEMMA OutboxNumbers ==
  ASSUME OutboxConstants
  PROVE  /\ MaxTries \in Nat /\ MaxTries >= 1
         /\ MaxAge \in Nat /\ MaxAge >= 1
         /\ Retention \in Nat /\ Retention >= 1
         /\ RetryAfter \in Nat
         /\ MaxFaults \in Nat
<1>1. MaxTries \in Nat \ {0} /\ MaxAge \in Nat \ {0} /\ Retention \in Nat \ {0} /\ RetryAfter \in Nat \ {0}
  BY DEF OutboxConstants
<1>2. MaxFaults \in Nat
  BY DEF OutboxConstants
<1>. QED  BY <1>1, <1>2

----------------------------------------------------------------------------
\* Bases without a bound on the attempts.
Times     == Ages \cup {Never}
Waiting   == [tries : Nat, last : Times]
AnyEntry  == {NotPending} \cup Waiting
AnyBase   == [terminal : SUBSET Runs, pending : [ReportKeys -> AnyEntry], acked : [ReportKeys -> Times],
              dead : SUBSET ReportKeys, epoch : Nat, floor : Nat, established : BOOLEAN]

Attempts(b, k) == b.pending[k].tries
Clean(b)       == \A k \in ReportKeys : InOutbox(b, k) => ~Settled(b, k)

\* An event is in an outbox when it has a number of attempts.
LEMMA InOutboxCounts ==
  ASSUME NEW b \in AnyBase, NEW k \in ReportKeys
  PROVE  /\ Attempts(b, k) \in Int /\ Attempts(b, k) >= -1
         /\ InOutbox(b, k) <=> Attempts(b, k) >= 0
<1>1. b.pending[k] \in AnyEntry
  BY DEF AnyBase
<1>2. CASE b.pending[k] = NotPending
  BY <1>2 DEF NotPending, Attempts, InOutbox
<1>3. CASE b.pending[k] \in Waiting
  <2>1. b.pending[k].tries \in Nat
    BY <1>3 DEF Waiting
  <2>2. NotPending.tries = -1
    BY DEF NotPending
  <2>. QED  BY <2>1, <2>2 DEF Attempts, InOutbox
<1>. QED  BY <1>1, <1>2, <1>3 DEF AnyEntry

LEMMA AgedTimes ==
  ASSUME OutboxConstants, NEW a \in Times
  PROVE  Aged(a) \in Times /\ (Aged(a) = Never <=> a = Never) /\ (a \in Ages => Aged(a) \in Ages)
BY OutboxNumbers DEF Aged, Times, Ages, Never

\* The parts of a base are what the operations below say of them.
LEMMA BaseParts ==
  ASSUME NEW b \in AnyBase
  PROVE  /\ b.terminal \in SUBSET Runs
         /\ b.pending \in [ReportKeys -> AnyEntry]
         /\ b.acked \in [ReportKeys -> Times]
         /\ b.dead \in SUBSET ReportKeys
         /\ b.epoch \in Nat /\ b.floor \in Nat
         /\ b.established \in BOOLEAN
BY DEF AnyBase

\* The sum of two entries is an entry with the larger count.
LEMMA MergedCounts ==
  ASSUME OutboxConstants, NEW d \in AnyEntry, NEW s \in AnyEntry
  PROVE  MergedEntry(d, s) \in AnyEntry /\ MergedEntry(d, s).tries = Larger(d.tries, s.tries)
<1>. USE OutboxNumbers
<1>1. MergedEntry(d, s).tries = Larger(d.tries, s.tries)
  BY DEF MergedEntry
<1>2. CASE d = NotPending /\ s = NotPending
  <2>1. MergedEntry(d, s) = NotPending
    BY <1>2 DEF MergedEntry, NotPending, Larger, Later
  <2>. QED  BY <1>1, <2>1 DEF AnyEntry
<1>3. CASE d \in Waiting \/ s \in Waiting
  <2>1. \A e \in AnyEntry : e.tries \in Int /\ e.tries >= -1 /\ e.last \in Times
    BY DEF AnyEntry, Waiting, NotPending, Times
  <2>2. d.tries >= 0 \/ s.tries >= 0
    BY <1>3 DEF Waiting
  <2>3. Larger(d.tries, s.tries) \in Nat
    BY <2>1, <2>2 DEF Larger
  <2>4. Later(d.last, s.last) \in Times
    BY <2>1 DEF Later
  <2>. QED  BY <1>1, <2>3, <2>4 DEF MergedEntry, AnyEntry, Waiting
<1>. QED  BY <1>2, <1>3 DEF AnyEntry

\* Taking out of the outbox what is settled.
LEMMA NormalParts ==
  ASSUME NEW b \in AnyBase
  PROVE  /\ Normal(b) \in AnyBase
         /\ Normal(b).acked = b.acked /\ Normal(b).dead = b.dead
         /\ Normal(b).floor = b.floor
         /\ \A k \in ReportKeys : Normal(b).pending[k] = IF Settled(b, k) THEN NotPending ELSE b.pending[k]
<1>. DEFINE p == [k \in ReportKeys |-> IF Settled(b, k) THEN NotPending ELSE b.pending[k]]
<1>1. Normal(b) = [terminal |-> b.terminal, pending |-> p, acked |-> b.acked, dead |-> b.dead,
                   epoch |-> b.epoch, floor |-> b.floor, established |-> b.established]
  BY DEF Normal, AnyBase
<1>2. p \in [ReportKeys -> AnyEntry]
  BY BaseParts DEF AnyEntry
<1>3. \A k \in ReportKeys : p[k] = IF Settled(b, k) THEN NotPending ELSE b.pending[k]
  OBVIOUS
<1>. HIDE DEF p
<1>4. Normal(b) \in AnyBase
  BY <1>1, <1>2, BaseParts DEF AnyBase
<1>5. Normal(b).pending = p /\ Normal(b).acked = b.acked /\ Normal(b).dead = b.dead /\ Normal(b).floor = b.floor
  BY <1>1
<1>. QED  BY <1>3, <1>4, <1>5

\* ... leaves a clean base, with the counts of the rest.
LEMMA NormalClean ==
  ASSUME NEW b \in AnyBase
  PROVE  /\ Normal(b) \in AnyBase /\ Clean(Normal(b)) /\ Normal(b).floor = b.floor
         /\ \A k \in ReportKeys : /\ Settled(Normal(b), k) <=> Settled(b, k)
                                  /\ Attempts(Normal(b), k) = IF Settled(b, k) THEN -1 ELSE Attempts(b, k)
<1>1. \A k \in ReportKeys : Settled(Normal(b), k) <=> Settled(b, k)
  BY NormalParts DEF Settled
<1>2. \A k \in ReportKeys : Settled(b, k) => Normal(b).pending[k] = NotPending
  BY NormalParts
<1>3. Clean(Normal(b))
  BY <1>1, <1>2 DEF Clean, InOutbox
<1>4. \A k \in ReportKeys : Attempts(Normal(b), k) = IF Settled(b, k) THEN -1 ELSE Attempts(b, k)
  BY NormalParts DEF Attempts, NotPending
<1>. QED  BY <1>1, <1>3, <1>4, NormalParts

LEMMA MergeParts ==
  ASSUME OutboxConstants, NEW d \in AnyBase, NEW s \in AnyBase
  PROVE  /\ Merge(d, s) \in AnyBase /\ Clean(Merge(d, s))
         /\ Merge(d, s).floor = Larger(d.floor, s.floor)
         /\ Merge(d, s).dead = d.dead \cup s.dead
         /\ Merge(d, s).acked = [k \in ReportKeys |-> IF d.acked[k] # Never THEN d.acked[k] ELSE s.acked[k]]
         /\ \A k \in ReportKeys : Settled(Merge(d, s), k) <=> Settled(d, k) \/ Settled(s, k)
         /\ d.floor = 0 =>
              \A k \in ReportKeys :
                 Attempts(Merge(d, s), k) = IF Settled(d, k) \/ Settled(s, k) THEN -1
                                            ELSE Larger(Attempts(d, k), Attempts(s, k))
<1>. DEFINE p == [k \in ReportKeys |-> IF Stale(d, s) THEN d.pending[k] ELSE MergedEntry(d.pending[k], s.pending[k])]
            a == [k \in ReportKeys |-> IF d.acked[k] # Never THEN d.acked[k] ELSE s.acked[k]]
            m == [terminal |-> d.terminal \cup s.terminal, pending |-> p, acked |-> a, dead |-> d.dead \cup s.dead,
                  epoch |-> Larger(d.epoch, s.epoch), floor |-> Larger(d.floor, s.floor),
                  established |-> d.established \/ s.established]
<1>1. Merge(d, s) = Normal(m)
  BY DEF Merge
<1>2. p \in [ReportKeys -> AnyEntry] /\ a \in [ReportKeys -> Times]
  BY BaseParts, MergedCounts
<1>3. \A k \in ReportKeys : a[k] = IF d.acked[k] # Never THEN d.acked[k] ELSE s.acked[k]
  OBVIOUS
<1>4. d.floor = 0 => \A k \in ReportKeys : p[k].tries = Larger(Attempts(d, k), Attempts(s, k))
  BY BaseParts, MergedCounts DEF Stale, Attempts
<1>. HIDE DEF p, a
<1>5. m \in AnyBase
  <2>1. Larger(d.epoch, s.epoch) \in Nat /\ Larger(d.floor, s.floor) \in Nat
    BY BaseParts DEF Larger
  <2>. QED  BY <1>2, <2>1, BaseParts DEF AnyBase
<1>6. \A k \in ReportKeys : Settled(m, k) <=> Settled(d, k) \/ Settled(s, k)
  BY <1>3 DEF Settled
<1>7. \A k \in ReportKeys : Attempts(m, k) = p[k].tries
  BY DEF Attempts
<1>8. m.floor = Larger(d.floor, s.floor) /\ m.acked = a /\ m.dead = d.dead \cup s.dead
  OBVIOUS
<1>. HIDE DEF m
<1>9. /\ Normal(m) \in AnyBase /\ Clean(Normal(m)) /\ Normal(m).floor = m.floor /\ Normal(m).acked = m.acked
      /\ Normal(m).dead = m.dead
      /\ \A k \in ReportKeys : /\ Settled(Normal(m), k) <=> Settled(m, k)
                               /\ Attempts(Normal(m), k) = IF Settled(m, k) THEN -1 ELSE Attempts(m, k)
  BY <1>5, NormalClean, NormalParts
<1>10. Merge(d, s).acked = [k \in ReportKeys |-> IF d.acked[k] # Never THEN d.acked[k] ELSE s.acked[k]]
  BY <1>1, <1>8, <1>9 DEF a
<1>11. d.floor = 0 => \A k \in ReportKeys :
         Attempts(Normal(m), k) = IF Settled(d, k) \/ Settled(s, k) THEN -1
                                  ELSE Larger(Attempts(d, k), Attempts(s, k))
  BY <1>4, <1>6, <1>7, <1>9
<1>. QED  BY <1>1, <1>6, <1>8, <1>9, <1>10, <1>11

\* Dropping expired acknowledgements; with none there is nothing to drop.
LEMMA CompactedParts ==
  ASSUME OutboxConstants, NEW b \in AnyBase
  PROVE  /\ Compacted(b) \in AnyBase /\ Compacted(b).dead = b.dead
         /\ MaxAge < Retention => /\ Compacted(b).floor = b.floor
                                  /\ \A k \in ReportKeys : /\ Settled(Compacted(b), k) <=> Settled(b, k)
                                                           /\ Attempts(Compacted(b), k) = Attempts(b, k)
<1>. DEFINE a == [k \in ReportKeys |-> IF Expired(b, k) THEN Never ELSE b.acked[k]]
            f == IF \E k \in ReportKeys : Expired(b, k) THEN Larger(b.floor, b.epoch) ELSE b.floor
<1>1. Compacted(b) = [b EXCEPT !.acked = a, !.floor = f]
  BY DEF Compacted
<1>2. a \in [ReportKeys -> Times] /\ f \in Nat
  BY BaseParts DEF Times, Larger
<1>3. ASSUME MaxAge < Retention
      PROVE  f = b.floor /\ \A k \in ReportKeys : a[k] = b.acked[k]
  <2>1. \A k \in ReportKeys : b.acked[k] \in 0..MaxAge \cup {-1}
    BY BaseParts DEF Times, Ages, Never
  <2>2. \A k \in ReportKeys : ~Expired(b, k)
    BY <1>3, <2>1, OutboxNumbers DEF Expired, Never
  <2>. QED  BY <2>2
<1>. HIDE DEF a, f
<1>4. Compacted(b) \in AnyBase
  BY <1>1, <1>2 DEF AnyBase
<1>5. /\ Compacted(b).floor = f /\ Compacted(b).acked = a /\ Compacted(b).dead = b.dead
      /\ Compacted(b).pending = b.pending
  BY <1>1 DEF AnyBase
<1>. QED  BY <1>3, <1>4, <1>5 DEF Settled, Attempts

\* What a write of the file with the source's copy leaves there.
LEMMA CommittedParts ==
  ASSUME OutboxConstants, disk \in AnyBase, NEW s \in AnyBase
  PROVE  /\ Committed(s) \in AnyBase /\ Clean(Committed(s))
         /\ Committed(s).dead = disk.dead \cup s.dead
         /\ MaxAge < Retention /\ disk.floor = 0 /\ s.floor = 0 =>
              /\ Committed(s).floor = 0
              /\ \A k \in ReportKeys :
                    /\ Settled(Committed(s), k) <=> Settled(disk, k) \/ Settled(s, k)
                    /\ Attempts(Committed(s), k) = IF Settled(disk, k) \/ Settled(s, k) THEN -1
                                                   ELSE Larger(Attempts(disk, k), Attempts(s, k))
<1>. DEFINE m == Merge(disk, s)
            n == [m EXCEPT !.epoch = @ + 1]
<1>1. Committed(s) = Normal(Compacted(n))
  BY DEF Committed
<1>2. m \in AnyBase /\ m.dead = disk.dead \cup s.dead
  BY MergeParts
<1>3. /\ MaxAge < Retention /\ disk.floor = 0 /\ s.floor = 0 =>
          /\ m.floor = 0
          /\ \A k \in ReportKeys :
                 /\ Settled(m, k) <=> Settled(disk, k) \/ Settled(s, k)
                 /\ Attempts(m, k) = IF Settled(disk, k) \/ Settled(s, k) THEN -1
                                     ELSE Larger(Attempts(disk, k), Attempts(s, k))
  <2>1. Larger(0, 0) = 0
    BY DEF Larger
  <2>2. m.floor = Larger(disk.floor, s.floor)
    BY MergeParts
  <2>3. \A k \in ReportKeys : Settled(m, k) <=> Settled(disk, k) \/ Settled(s, k)
    BY MergeParts
  <2>4. disk.floor = 0 =>
          \A k \in ReportKeys : Attempts(m, k) = IF Settled(disk, k) \/ Settled(s, k) THEN -1
                                                 ELSE Larger(Attempts(disk, k), Attempts(s, k))
    BY MergeParts
  <2>. HIDE DEF m
  <2>. QED  BY <2>1, <2>2, <2>3, <2>4
<1>. HIDE DEF m
<1>4. n \in AnyBase /\ n.floor = m.floor /\ n.pending = m.pending /\ n.acked = m.acked /\ n.dead = m.dead
  BY <1>2 DEF AnyBase
<1>5. \A k \in ReportKeys : (Settled(n, k) <=> Settled(m, k)) /\ Attempts(n, k) = Attempts(m, k)
  BY <1>4 DEF Settled, Attempts
<1>. HIDE DEF n
<1>6. Compacted(n) \in AnyBase /\ Compacted(n).dead = n.dead
  BY <1>4, CompactedParts
<1>7. MaxAge < Retention =>
        /\ Compacted(n).floor = n.floor
        /\ \A k \in ReportKeys : /\ Settled(Compacted(n), k) <=> Settled(n, k)
                                 /\ Attempts(Compacted(n), k) = Attempts(n, k)
  BY <1>4, CompactedParts
<1>. DEFINE c == Compacted(n)
<1>. HIDE DEF c
<1>8. /\ Normal(c) \in AnyBase /\ Clean(Normal(c)) /\ Normal(c).floor = c.floor /\ Normal(c).dead = c.dead
      /\ \A k \in ReportKeys : /\ Settled(Normal(c), k) <=> Settled(c, k)
                               /\ Attempts(Normal(c), k) = IF Settled(c, k) THEN -1 ELSE Attempts(c, k)
  BY <1>6, NormalClean, NormalParts DEF c
<1>9. ASSUME MaxAge < Retention, disk.floor = 0, s.floor = 0, NEW k \in ReportKeys
      PROVE  /\ Settled(Normal(c), k) <=> Settled(disk, k) \/ Settled(s, k)
             /\ Attempts(Normal(c), k) = IF Settled(disk, k) \/ Settled(s, k) THEN -1
                                         ELSE Larger(Attempts(disk, k), Attempts(s, k))
  <2>1. (Settled(c, k) <=> Settled(n, k)) /\ Attempts(c, k) = Attempts(n, k)
    BY <1>7, <1>9 DEF c
  <2>. QED  BY <1>3, <1>5, <1>8, <1>9, <2>1
<1>10. MaxAge < Retention /\ disk.floor = 0 /\ s.floor = 0 => Normal(c).floor = 0
  BY <1>3, <1>4, <1>7, <1>8 DEF c
<1>11. Normal(c).dead = disk.dead \cup s.dead
  BY <1>2, <1>4, <1>6, <1>8 DEF c
<1>. QED  BY <1>1, <1>8, <1>9, <1>10, <1>11 DEF c

LEMMA RenumberedParts ==
  ASSUME NEW b \in AnyBase
  PROVE  /\ Renumbered(b) \in AnyBase /\ Renumbered(b).dead = b.dead
         /\ Clean(b) => Clean(Renumbered(b))
         /\ b.floor = 0 => Renumbered(b).floor = 0
         /\ \A k \in ReportKeys : /\ Settled(Renumbered(b), k) <=> Settled(b, k)
                                  /\ Attempts(Renumbered(b), k) = Attempts(b, k)
<1>. DEFINE r == Renumbered(b)
<1>1. /\ r \in AnyBase /\ r.pending = b.pending /\ r.acked = b.acked /\ r.dead = b.dead
      /\ b.floor = 0 => r.floor = 0
  <2>1. CASE b.floor = 0
    <3>1. r = [b EXCEPT !.epoch = 1]
      BY <2>1 DEF Renumbered
    <3>. HIDE DEF r
    <3>2. r \in AnyBase
      BY <3>1 DEF AnyBase
    <3>. QED  BY <3>1, <3>2 DEF AnyBase
  <2>2. CASE b.floor # 0
    <3>. DEFINE e == IF b.epoch > b.floor THEN 2 ELSE 1
    <3>1. r = [b EXCEPT !.floor = 1, !.epoch = e]
      BY <2>2 DEF Renumbered
    <3>2. e \in Nat
      OBVIOUS
    <3>. HIDE DEF e, r
    <3>3. r \in AnyBase
      BY <3>1, <3>2 DEF AnyBase
    <3>4. r.pending = b.pending /\ r.acked = b.acked /\ r.dead = b.dead
      BY <3>1 DEF AnyBase
    <3>. QED  BY <2>2, <3>3, <3>4
  <2>. QED  BY <2>1, <2>2
<1>. HIDE DEF r
<1>2. Clean(b) => Clean(r)
  BY <1>1 DEF Clean, InOutbox, Settled
<1>3. \A k \in ReportKeys : (Settled(r, k) <=> Settled(b, k)) /\ Attempts(r, k) = Attempts(b, k)
  BY <1>1 DEF Settled, Attempts
<1>. QED  BY <1>1, <1>2, <1>3 DEF r

\* A counted attempt is one more of an event that is still in the outbox.
LEMMA CountedParts ==
  ASSUME OutboxConstants, since \in Ages, NEW b \in AnyBase, NEW k \in ReportKeys
  PROVE  /\ Counted(b, k) \in AnyBase
         /\ Counted(b, k).floor = b.floor
         /\ \A j \in ReportKeys :
               /\ Settled(Counted(b, k), j) <=> Settled(b, j)
               /\ Attempts(Counted(b, k), j) = IF j = k /\ Attempts(b, k) >= 0 THEN Attempts(b, k) + 1
                                               ELSE Attempts(b, j)
<1>. DEFINE e == IF InOutbox(b, k) THEN [tries |-> b.pending[k].tries + 1, last |-> since] ELSE b.pending[k]
            p == [b.pending EXCEPT ![k] = e]
<1>1. Counted(b, k) = [b EXCEPT !.pending = p]
  BY BaseParts DEF Counted
<1>2. e \in AnyEntry /\ e.tries = IF Attempts(b, k) >= 0 THEN Attempts(b, k) + 1 ELSE Attempts(b, k)
  <2>1. CASE InOutbox(b, k)
    <3>1. Attempts(b, k) + 1 \in Nat /\ Attempts(b, k) >= 0
      BY <2>1, InOutboxCounts
    <3>2. e = [tries |-> Attempts(b, k) + 1, last |-> since]
      BY <2>1 DEF Attempts
    <3>. QED  BY <3>1, <3>2 DEF AnyEntry, Waiting, Times
  <2>2. CASE ~InOutbox(b, k)
    <3>1. ~(Attempts(b, k) >= 0)
      BY <2>2, InOutboxCounts
    <3>. QED  BY <2>2, <3>1, BaseParts DEF Attempts
  <2>. QED  BY <2>1, <2>2
<1>. HIDE DEF e
<1>3. p \in [ReportKeys -> AnyEntry]
  BY <1>2, BaseParts
<1>4. \A j \in ReportKeys : p[j] = IF j = k THEN e ELSE b.pending[j]
  BY BaseParts
<1>. HIDE DEF p
<1>5. Counted(b, k) \in AnyBase
  BY <1>1, <1>3 DEF AnyBase
<1>6. /\ Counted(b, k).pending = p /\ Counted(b, k).acked = b.acked /\ Counted(b, k).dead = b.dead
      /\ Counted(b, k).floor = b.floor
  BY <1>1 DEF AnyBase
<1>7. \A j \in ReportKeys : Settled(Counted(b, k), j) <=> Settled(b, j)
  BY <1>6 DEF Settled
<1>8. \A j \in ReportKeys :
        Attempts(Counted(b, k), j) = IF j = k /\ Attempts(b, k) >= 0 THEN Attempts(b, k) + 1 ELSE Attempts(b, j)
  <2>1. \A j \in ReportKeys : Attempts(Counted(b, k), j) = IF j = k THEN e.tries ELSE Attempts(b, j)
    BY <1>4, <1>6 DEF Attempts
  <2>. QED  BY <1>2, <2>1
<1>. QED  BY <1>5, <1>6, <1>7, <1>8

\* An event whose attempts are used up is settled when there is no one to send it to.
LEMMA BuriedParts ==
  ASSUME OutboxConstants, NEW b \in AnyBase, NEW k \in ReportKeys
  PROVE  /\ Buried(b, k) \in AnyBase
         /\ Buried(b, k).floor = b.floor
         /\ \A j \in ReportKeys :
               /\ Settled(Buried(b, k), j) <=> Settled(b, j) \/ (j = k /\ Attempts(b, k) >= MaxTries)
               /\ Attempts(Buried(b, k), j) = IF j = k /\ Attempts(b, k) >= MaxTries THEN -1
                                              ELSE Attempts(b, j)
         /\ Attempts(b, k) >= MaxTries => k \in Buried(b, k).dead
<1>1. CASE ~(Attempts(b, k) >= MaxTries)
  <2>1. Buried(b, k) = b
    BY <1>1 DEF Buried, Attempts
  <2>. QED  BY <1>1, <2>1
<1>2. CASE Attempts(b, k) >= MaxTries
  <2>. DEFINE a == [b.acked EXCEPT ![k] = IF b.acked[k] # Never THEN b.acked[k] ELSE 0]
              p == [b.pending EXCEPT ![k] = NotPending]
  <2>1. InOutbox(b, k)
    BY <1>2, InOutboxCounts, OutboxNumbers
  <2>. DEFINE d == b.dead \cup {k}
  <2>2. Buried(b, k) = [b EXCEPT !.pending = p, !.acked = a, !.dead = d]
    BY <1>2, <2>1, BaseParts DEF Buried, Attempts
  <2>3. p \in [ReportKeys -> AnyEntry] /\ \A j \in ReportKeys : p[j] = IF j = k THEN NotPending ELSE b.pending[j]
    BY BaseParts DEF AnyEntry
  <2>4. 0 \in Times
    BY OutboxNumbers DEF Times, Ages
  <2>5. a \in [ReportKeys -> Times] /\ \A j \in ReportKeys : j # k => a[j] = b.acked[j]
    BY <2>4, BaseParts
  <2>a. d \in SUBSET ReportKeys /\ \A j \in ReportKeys : j \in d <=> j \in b.dead \/ j = k
    BY BaseParts
  <2>. HIDE DEF a, p, d
  <2>6. Buried(b, k) \in AnyBase
    BY <2>2, <2>3, <2>5, <2>a DEF AnyBase
  <2>7. /\ Buried(b, k).pending = p /\ Buried(b, k).acked = a /\ Buried(b, k).dead = d
        /\ Buried(b, k).floor = b.floor
    BY <2>2 DEF AnyBase
  <2>8. \A j \in ReportKeys : Settled(Buried(b, k), j) <=> Settled(b, j) \/ j = k
    BY <2>5, <2>7, <2>a DEF Settled
  <2>9. \A j \in ReportKeys : Attempts(Buried(b, k), j) = IF j = k THEN -1 ELSE Attempts(b, j)
    BY <2>3, <2>7 DEF Attempts, NotPending
  <2>. QED  BY <1>2, <2>6, <2>7, <2>8, <2>9, <2>a
<1>. QED  BY <1>1, <1>2

\* What a poll found enters the outbox with no attempt, unless it is there.
LEMMA UpdatedParts ==
  ASSUME OutboxConstants, base \in AnyBase, NEW ci \in [Runs -> RunStates], NEW c \in BOOLEAN,
         NEW x \in BOOLEAN
  PROVE  /\ Updated(ci, c, x) \in AnyBase
         /\ Updated(ci, c, x).floor = base.floor
         /\ \A j \in ReportKeys :
               /\ Settled(Updated(ci, c, x), j) <=> Settled(base, j)
               /\ \/ Attempts(Updated(ci, c, x), j) = Attempts(base, j)
                  \/ Attempts(Updated(ci, c, x), j) = 0 /\ Attempts(base, j) = -1
               /\ j \in Events(ci) => Attempts(Updated(ci, c, x), j) >= 0 \/ Settled(base, j)
<1>. DEFINE r == base.terminal \cup Recorded(ci, c)
            b == [base EXCEPT !.terminal = r]
            p == [k \in ReportKeys |->
                    IF k \in Events(ci) /\ b.acked[k] = Never /\ ~InOutbox(b, k)
                    THEN [tries |-> 0, last |-> Never] ELSE b.pending[k]]
            y == b.established \/ x
<1>1. r \in SUBSET Runs
  BY BaseParts DEF Recorded
<1>. HIDE DEF r
<1>2. b \in AnyBase
  BY <1>1 DEF AnyBase
<1>3. /\ b.pending = base.pending /\ b.acked = base.acked /\ b.dead = base.dead /\ b.floor = base.floor
  BY DEF AnyBase
<1>4. Updated(ci, c, x) = [[b EXCEPT !.pending = p] EXCEPT !.established = y]
  <2>1. Enqueued(b, Events(ci)) = [b EXCEPT !.pending = p]
    BY DEF Enqueued
  <2>2. Updated(ci, c, x) = [Enqueued(b, Events(ci)) EXCEPT !.established = @ \/ x]
    BY DEF Updated, r
  <2>3. [b EXCEPT !.pending = p].established = b.established
    BY <1>2 DEF AnyBase
  <2>. QED  BY <2>1, <2>2, <2>3
<1>. HIDE DEF b
<1>5. p \in [ReportKeys -> AnyEntry]
  <2>1. [tries |-> 0, last |-> Never] \in AnyEntry
    BY DEF AnyEntry, Waiting, Times
  <2>. QED  BY <1>2, <2>1, BaseParts
<1>6. \A j \in ReportKeys : p[j] = b.pending[j] \/ (p[j].tries = 0 /\ ~InOutbox(b, j))
  OBVIOUS
<1>a. ASSUME NEW j \in ReportKeys, j \in Events(ci), b.acked[j] = Never, ~InOutbox(b, j)
      PROVE  p[j].tries = 0
  BY <1>a
<1>7. y \in BOOLEAN
  BY <1>2, BaseParts
<1>. HIDE DEF p, y
<1>8. Updated(ci, c, x) \in AnyBase
  BY <1>2, <1>4, <1>5, <1>7 DEF AnyBase
<1>9. /\ Updated(ci, c, x).pending = p /\ Updated(ci, c, x).acked = b.acked /\ Updated(ci, c, x).dead = b.dead
      /\ Updated(ci, c, x).floor = b.floor
  BY <1>2, <1>4 DEF AnyBase
<1>10. \A j \in ReportKeys : Settled(Updated(ci, c, x), j) <=> Settled(base, j)
  BY <1>3, <1>9 DEF Settled
<1>11. ASSUME NEW j \in ReportKeys
       PROVE  \/ Attempts(Updated(ci, c, x), j) = Attempts(base, j)
              \/ Attempts(Updated(ci, c, x), j) = 0 /\ Attempts(base, j) = -1
  <2>1. InOutbox(b, j) <=> InOutbox(base, j)
    BY <1>3 DEF InOutbox
  <2>2. ~InOutbox(base, j) => Attempts(base, j) = -1
    BY DEF InOutbox, Attempts, NotPending
  <2>. QED  BY <1>3, <1>6, <1>9, <2>1, <2>2 DEF Attempts
<1>12. ASSUME NEW j \in ReportKeys, j \in Events(ci)
       PROVE  Attempts(Updated(ci, c, x), j) >= 0 \/ Settled(base, j)
  <2>1. CASE InOutbox(base, j)
    <3>1. Attempts(base, j) >= 0
      BY <2>1, InOutboxCounts
    <3>. QED  BY <1>11, <3>1
  <2>2. CASE b.acked[j] = Never /\ ~InOutbox(b, j)
    BY <1>9, <1>12, <1>a, <2>2 DEF Attempts
  <2>. QED  BY <1>3, <2>1, <2>2 DEF InOutbox, Settled
<1>. QED  BY <1>3, <1>8, <1>9, <1>10, <1>11, <1>12

LEMMA AgedParts ==
  ASSUME OutboxConstants, NEW b \in AnyBase
  PROVE  /\ AgedBase(b) \in AnyBase
         /\ Clean(b) => Clean(AgedBase(b))
         /\ AgedBase(b).floor = b.floor /\ AgedBase(b).dead = b.dead
         /\ \A j \in ReportKeys : /\ Settled(AgedBase(b), j) <=> Settled(b, j)
                                  /\ Attempts(AgedBase(b), j) = Attempts(b, j)
<1>. DEFINE a == [k \in ReportKeys |-> Aged(b.acked[k])]
            p == [k \in ReportKeys |-> [b.pending[k] EXCEPT !.last = Aged(b.pending[k].last)]]
<1>1. AgedBase(b) = [b EXCEPT !.acked = a, !.pending = p]
  BY DEF AgedBase
<1>2. a \in [ReportKeys -> Times] /\ \A k \in ReportKeys : a[k] = Never <=> b.acked[k] = Never
  BY BaseParts, AgedTimes
<1>3. ASSUME NEW e \in AnyEntry
      PROVE  /\ [e EXCEPT !.last = Aged(e.last)] \in AnyEntry
             /\ [e EXCEPT !.last = Aged(e.last)].tries = e.tries
  <2>1. CASE e = NotPending
    <3>1. Aged(Never) = Never
      BY DEF Aged
    <3>. QED  BY <2>1, <3>1 DEF NotPending, AnyEntry
  <2>2. CASE e \in Waiting
    <3>1. Aged(e.last) \in Times
      BY <2>2, AgedTimes DEF Waiting
    <3>. QED  BY <2>2, <3>1 DEF Waiting, AnyEntry
  <2>. QED  BY <2>1, <2>2 DEF AnyEntry
<1>4. p \in [ReportKeys -> AnyEntry] /\ \A k \in ReportKeys : p[k].tries = b.pending[k].tries
  BY <1>3, BaseParts
<1>. HIDE DEF a, p
<1>5. AgedBase(b) \in AnyBase
  BY <1>1, <1>2, <1>4 DEF AnyBase
<1>6. /\ AgedBase(b).pending = p /\ AgedBase(b).acked = a /\ AgedBase(b).dead = b.dead
      /\ AgedBase(b).floor = b.floor
  BY <1>1 DEF AnyBase
<1>7. \A j \in ReportKeys : /\ Settled(AgedBase(b), j) <=> Settled(b, j)
                            /\ Attempts(AgedBase(b), j) = Attempts(b, j)
  BY <1>2, <1>4, <1>6 DEF Settled, Attempts
<1>8. \A j \in ReportKeys : InOutbox(AgedBase(b), j) <=> InOutbox(b, j)
  BY <1>5, <1>7, InOutboxCounts
<1>. QED  BY <1>5, <1>6, <1>7, <1>8 DEF Clean

\* An acknowledgement settles its event and no other.
LEMMA AcknowledgedParts ==
  ASSUME OutboxConstants, disk \in AnyBase, base \in AnyBase, NEW k \in ReportKeys
  PROVE  /\ Acknowledged(k) \in AnyBase /\ Clean(Acknowledged(k))
         /\ Acknowledged(k).dead = disk.dead \cup base.dead
         /\ disk.floor = 0 /\ base.floor = 0 =>
              /\ Acknowledged(k).floor = 0
              /\ \A j \in ReportKeys :
                    /\ Settled(disk, j) \/ Settled(base, j) => Settled(Acknowledged(k), j)
                    /\ Settled(Acknowledged(k), j) => Settled(disk, j) \/ Settled(base, j) \/ j = k
                    /\ Attempts(Acknowledged(k), j) = IF Settled(Acknowledged(k), j) THEN -1
                                                      ELSE Larger(Attempts(disk, j), Attempts(base, j))
<1>. DEFINE m == Merge(disk, base)
            still == InOutbox(m, k) \/ InOutbox(base, k)
            n == IF still /\ m.acked[k] = Never THEN [m EXCEPT !.acked[k] = 0] ELSE m
<1>1. Acknowledged(k) = Normal(n)
  BY DEF Acknowledged
<1>2. /\ m \in AnyBase
      /\ m.floor = Larger(disk.floor, base.floor)
      /\ m.dead = disk.dead \cup base.dead
      /\ \A j \in ReportKeys : Settled(m, j) <=> Settled(disk, j) \/ Settled(base, j)
      /\ disk.floor = 0 =>
           \A j \in ReportKeys :
              Attempts(m, j) = IF Settled(disk, j) \/ Settled(base, j) THEN -1
                               ELSE Larger(Attempts(disk, j), Attempts(base, j))
  BY MergeParts
<1>. HIDE DEF m, still
<1>3. /\ n \in AnyBase /\ n.floor = m.floor /\ n.dead = m.dead
      /\ \A j \in ReportKeys : /\ Settled(m, j) => Settled(n, j)
                               /\ Settled(n, j) => Settled(m, j) \/ j = k
                               /\ Attempts(n, j) = Attempts(m, j)
  <2>. DEFINE a == [m.acked EXCEPT ![k] = 0]
  <2>1. n = m \/ (m.acked[k] = Never /\ n = [m EXCEPT !.acked = a])
    OBVIOUS
  <2>. HIDE DEF n
  <2>2. CASE n = m
    BY <1>2, <2>2
  <2>3. CASE m.acked[k] = Never /\ n = [m EXCEPT !.acked = a]
    <3>1. n = [m EXCEPT !.acked = a]
      BY <2>3
    <3>2. 0 \in Times
      BY OutboxNumbers DEF Times, Ages
    <3>3. a \in [ReportKeys -> Times] /\ \A j \in ReportKeys : j # k => a[j] = m.acked[j]
      BY <1>2, <3>2, BaseParts
    <3>. HIDE DEF a
    <3>4. n \in AnyBase
      BY <1>2, <3>1, <3>3 DEF AnyBase
    <3>5. n.acked = a /\ n.pending = m.pending /\ n.dead = m.dead /\ n.floor = m.floor
      BY <1>2, <3>1 DEF AnyBase
    <3>6. \A j \in ReportKeys : /\ Settled(m, j) => Settled(n, j) \/ j = k
                                /\ Settled(n, j) => Settled(m, j) \/ j = k
                                /\ Attempts(n, j) = Attempts(m, j)
      BY <3>3, <3>5 DEF Settled, Attempts
    <3>7. a[k] = 0
      BY <1>2, BaseParts DEF a
    <3>8. Settled(n, k)
      BY <3>5, <3>7 DEF Settled, Never
    <3>9. ASSUME NEW j \in ReportKeys, Settled(m, j) PROVE Settled(n, j)
      <4>1. CASE j = k
        BY <3>8, <4>1
      <4>2. CASE j # k
        BY <3>6, <3>9, <4>2
      <4>. QED  BY <4>1, <4>2
    <3>10. \A j \in ReportKeys : (Settled(n, j) => Settled(m, j) \/ j = k) /\ Attempts(n, j) = Attempts(m, j)
      BY <3>6
    <3>. QED  BY <3>4, <3>5, <3>9, <3>10
  <2>. QED  BY <2>1, <2>2, <2>3
<1>. HIDE DEF n
<1>4. /\ Normal(n) \in AnyBase /\ Clean(Normal(n)) /\ Normal(n).floor = n.floor /\ Normal(n).dead = n.dead
      /\ \A j \in ReportKeys : /\ Settled(Normal(n), j) <=> Settled(n, j)
                               /\ Attempts(Normal(n), j) = IF Settled(n, j) THEN -1 ELSE Attempts(n, j)
  BY <1>3, NormalClean, NormalParts
<1>5. Larger(0, 0) = 0
  BY DEF Larger
<1>6. ASSUME disk.floor = 0, NEW j \in ReportKeys
      PROVE  Attempts(Normal(n), j) = IF Settled(Normal(n), j) THEN -1
                                      ELSE Larger(Attempts(disk, j), Attempts(base, j))
  BY <1>2, <1>3, <1>4, <1>6
<1>7. \A j \in ReportKeys : /\ Settled(disk, j) \/ Settled(base, j) => Settled(Normal(n), j)
                            /\ Settled(Normal(n), j) => Settled(disk, j) \/ Settled(base, j) \/ j = k
  BY <1>2, <1>3, <1>4
<1>. QED  BY <1>1, <1>2, <1>3, <1>4, <1>5, <1>6, <1>7

----------------------------------------------------------------------------
(***************************************************************************)
(* Shape: what OutboxTypeOK says but for the bound of the attempts, and    *)
(* that an event between its count and its send is in the file's outbox.   *)
(***************************************************************************)
DataShape ==
  /\ disk \in AnyBase /\ base \in AnyBase
  /\ Clean(disk)
  /\ hub \in [Runs -> RunStates]
  /\ known \in [seen : BOOLEAN, ci : [Runs -> RunStates], established : BOOLEAN]
  /\ since \in Ages /\ open \in BOOLEAN /\ faults \in 0..MaxFaults
  /\ owed \subseteq Runs /\ sent \in [ReportKeys -> Nat]
ControlShape ==
  /\ pc \in {"rest", "drain", "poll", "deliver"}
  /\ step \in {"next", "send", "ack"}
  /\ todo \subseteq ReportKeys /\ cur \subseteq ReportKeys
  /\ cur = {} <=> step = "next"
  /\ ~Delivering => step = "next" /\ todo = {}
Announced == step = "send" => \A k \in cur : InOutbox(disk, k)
Shape == DataShape /\ ControlShape /\ Announced

LEMMA EmptyIsClean ==
  ASSUME OutboxConstants
  PROVE  /\ EmptyBase \in AnyBase /\ Clean(EmptyBase) /\ EmptyBase.floor = 0
         /\ \A k \in ReportKeys : ~Settled(EmptyBase, k) /\ Attempts(EmptyBase, k) = -1
<1>. DEFINE p == [k \in ReportKeys |-> NotPending]
            a == [k \in ReportKeys |-> Never]
<1>1. EmptyBase = [terminal |-> {}, pending |-> p, acked |-> a, dead |-> {}, epoch |-> 0, floor |-> 0,
                   established |-> FALSE]
  BY DEF EmptyBase
<1>2. p \in [ReportKeys -> AnyEntry] /\ a \in [ReportKeys -> Times]
  BY DEF AnyEntry, Times
<1>3. \A k \in ReportKeys : p[k] = NotPending /\ a[k] = Never
  OBVIOUS
<1>. HIDE DEF p, a
<1>4. EmptyBase \in AnyBase
  BY <1>1, <1>2 DEF AnyBase
<1>5. EmptyBase.pending = p /\ EmptyBase.acked = a /\ EmptyBase.dead = {} /\ EmptyBase.floor = 0
  BY <1>1
<1>6. \A k \in ReportKeys : ~Settled(EmptyBase, k)
  BY <1>3, <1>5 DEF Settled
<1>7. \A k \in ReportKeys : Attempts(EmptyBase, k) = -1
  BY <1>3, <1>5 DEF Attempts, NotPending
<1>. QED  BY <1>4, <1>5, <1>6, <1>7 DEF Clean

LEMMA ShapeInit ==
  ASSUME OutboxConstants, OutboxInit
  PROVE  Shape
<1>1. DataShape
  <2>1. 0 \in Ages /\ 0 \in 0..MaxFaults
    BY OutboxNumbers DEF Ages
  <2>2. hub \in [Runs -> RunStates] /\ sent \in [ReportKeys -> Nat]
    BY DEF OutboxInit, RunStates
  <2>3. known \in [seen : BOOLEAN, ci : [Runs -> RunStates], established : BOOLEAN]
    BY DEF OutboxInit, NothingKnown, RunStates
  <2>. QED  BY <2>1, <2>2, <2>3, EmptyIsClean DEF OutboxInit, DataShape
<1>2. ControlShape /\ Announced
  BY DEF OutboxInit, ControlShape, Announced, Delivering
<1>. QED  BY <1>1, <1>2 DEF Shape

LEMMA FaultCounts ==
  ASSUME OutboxConstants, faults \in 0..MaxFaults, NEW f, Fault(f)
  PROVE  faults' \in 0..MaxFaults /\ faults' = faults + 1
BY OutboxNumbers DEF Fault

\* A write, whether it succeeds or fails, leaves a clean file.
LEMMA SavedParts ==
  ASSUME NEW b \in AnyBase, Clean(b), Saved(b)
  PROVE  /\ disk' \in AnyBase /\ base' \in AnyBase /\ Clean(disk') /\ disk' = base'
         /\ disk'.dead = b.dead
         /\ b.floor = 0 => disk'.floor = 0
         /\ \A k \in ReportKeys : /\ Settled(disk', k) <=> Settled(b, k)
                                  /\ Attempts(disk', k) = Attempts(b, k)
BY RenumberedParts DEF Saved

LEMMA WriteFailsParts ==
  ASSUME OutboxConstants, DataShape, NEW b \in AnyBase, Clean(b), WriteFails(b)
  PROVE  /\ disk' \in AnyBase /\ base' = base /\ base' \in AnyBase /\ Clean(disk')
         /\ faults' \in 0..MaxFaults /\ faults' = faults + 1
         /\ disk' = disk \/ disk' = b
BY FaultCounts DEF WriteFails, DataShape

\* The events and the runs that a poll finds.
LEMMA FetchedParts ==
  ASSUME DataShape, NEW S \in SUBSET Runs
  PROVE  Fetched(S) \in [Runs -> RunStates]
BY DEF Fetched, DataShape

LEMMA EventsParts ==
  ASSUME NEW ci
  PROVE  Events(ci) \subseteq ReportKeys /\ Wanted(ci) \subseteq Runs
<1>1. Events(ci) \subseteq ReportKeys
  BY DEF Events, Changed
<1>. QED  BY <1>1 DEF Wanted, ReportKeys

----------------------------------------------------------------------------
\* Every step keeps the shape.
LEMMA CountKeepsShape ==
  ASSUME OutboxConstants, Shape, NEW k \in ReportKeys, Count(k)
  PROVE  Shape'
<1>. DEFINE c == Counted(base, k)
            new == Committed(c)
<1>1. c \in AnyBase
  BY CountedParts DEF Shape, DataShape
<1>. HIDE DEF c
<1>2. new \in AnyBase /\ Clean(new)
  BY <1>1, CommittedParts DEF Shape, DataShape
<1>3. Saved(new) /\ IF InOutbox(new, k) THEN step' = "send" /\ cur' = {k} ELSE step' = "next" /\ cur' = {}
  BY DEF Count, c
<1>. HIDE DEF new
<1>4. disk' \in AnyBase /\ base' \in AnyBase /\ Clean(disk')
  BY <1>2, <1>3, SavedParts
<1>5. DataShape'
  BY <1>4 DEF Shape, DataShape, Count, world, outboxHistory
<1>6. ControlShape'
  BY <1>3 DEF Shape, ControlShape, Count, Delivering
<1>7. Announced'
  <2>1. step' = "send" => InOutbox(new, k) /\ cur' = {k}
    BY <1>3
  <2>2. InOutbox(new, k) => InOutbox(disk', k)
    BY <1>2, <1>3, <1>4, SavedParts, InOutboxCounts
  <2>. QED  BY <2>1, <2>2 DEF Announced
<1>. QED  BY <1>5, <1>6, <1>7 DEF Shape

LEMMA CountFailsKeepsShape ==
  ASSUME OutboxConstants, Shape, NEW k \in ReportKeys, CountFails(k)
  PROVE  Shape'
<1>. DEFINE c == Counted(base, k)
            new == Committed(c)
<1>1. c \in AnyBase
  BY CountedParts DEF Shape, DataShape
<1>. HIDE DEF c
<1>2. new \in AnyBase /\ Clean(new)
  BY <1>1, CommittedParts DEF Shape, DataShape
<1>3. WriteFails(new)
  BY DEF CountFails, c
<1>. HIDE DEF new
<1>4. disk' \in AnyBase /\ base' \in AnyBase /\ Clean(disk') /\ faults' \in 0..MaxFaults
  BY <1>2, <1>3, WriteFailsParts DEF Shape
<1>5. DataShape'
  BY <1>4 DEF Shape, DataShape, CountFails, world, outboxHistory
<1>6. ControlShape' /\ Announced'
  BY DEF Shape, ControlShape, Announced, CountFails, StopPass, AfterPass, Delivering
<1>. QED  BY <1>5, <1>6 DEF Shape

LEMMA SendKeepsShape ==
  ASSUME OutboxConstants, Shape, NEW k \in ReportKeys, Send(k)
  PROVE  Shape'
<1>1. DataShape'
  <2>1. sent' \in [ReportKeys -> Nat]
    BY DEF Shape, DataShape, Send
  <2>. QED  BY <2>1 DEF Shape, DataShape, Send, source, world
<1>2. ControlShape' /\ Announced'
  BY DEF Shape, ControlShape, Announced, Send, Delivering
<1>. QED  BY <1>1, <1>2 DEF Shape

LEMMA SendFailsKeepsShape ==
  ASSUME OutboxConstants, Shape, NEW k \in ReportKeys, SendFails(k)
  PROVE  Shape'
<1>. DEFINE u == Buried(base, k)
            new == Committed(u)
<1>1. u \in AnyBase
  BY BuriedParts DEF Shape, DataShape
<1>2. base' = u /\ ((disk' = new /\ UNCHANGED faults) \/ (Fault("unsaved") /\ UNCHANGED disk))
  BY DEF SendFails
<1>. HIDE DEF u
<1>3. new \in AnyBase /\ Clean(new)
  BY <1>1, CommittedParts DEF Shape, DataShape
<1>. HIDE DEF new
<1>4. disk' \in AnyBase /\ base' \in AnyBase /\ Clean(disk') /\ faults' \in 0..MaxFaults
  BY <1>1, <1>2, <1>3, FaultCounts DEF Shape, DataShape
<1>5. DataShape'
  BY <1>4 DEF Shape, DataShape, SendFails, world, outboxHistory
<1>6. ControlShape' /\ Announced'
  BY DEF Shape, ControlShape, Announced, SendFails, StopPass, AfterPass, Delivering
<1>. QED  BY <1>5, <1>6 DEF Shape

LEMMA AcknowledgeKeepsShape ==
  ASSUME OutboxConstants, Shape, NEW k \in ReportKeys, Acknowledge(k) \/ AcknowledgeFails(k)
  PROVE  Shape'
<1>. DEFINE new == Acknowledged(k)
<1>1. new \in AnyBase /\ Clean(new)
  BY AcknowledgedParts DEF Shape, DataShape
<1>2. (Saved(new) /\ UNCHANGED faults) \/ WriteFails(new)
  BY DEF Acknowledge, AcknowledgeFails
<1>. HIDE DEF new
<1>3. disk' \in AnyBase /\ base' \in AnyBase /\ Clean(disk') /\ faults' \in 0..MaxFaults
  BY <1>1, <1>2, SavedParts, WriteFailsParts DEF Shape, DataShape
<1>4. DataShape'
  BY <1>3 DEF Shape, DataShape, Acknowledge, AcknowledgeFails, world, outboxHistory
<1>5. ControlShape' /\ Announced'
  BY DEF Shape, ControlShape, Announced, Acknowledge, AcknowledgeFails, NextEvent, Delivering
<1>. QED  BY <1>4, <1>5 DEF Shape

LEMMA PollKeepsShape ==
  ASSUME OutboxConstants, Shape, NEW ci \in [Runs -> RunStates], NEW c \in BOOLEAN, NEW x \in BOOLEAN,
         Poll(ci, c, x), faults' \in 0..MaxFaults
  PROVE  Shape'
<1>. DEFINE u == Updated(ci, c, x)
            new == Committed(u)
<1>1. u \in AnyBase
  BY UpdatedParts DEF Shape, DataShape
<1>. HIDE DEF u
<1>2. new \in AnyBase /\ Clean(new)
  BY <1>1, CommittedParts DEF Shape, DataShape
<1>3. Saved(new)
  BY DEF Poll, u
<1>. HIDE DEF new
<1>4. disk' \in AnyBase /\ base' \in AnyBase /\ Clean(disk')
  BY <1>2, <1>3, SavedParts
<1>5. DataShape'
  <2>1. owed' \subseteq Runs
    BY EventsParts DEF Shape, DataShape, Poll
  <2>2. known' \in [seen : BOOLEAN, ci : [Runs -> RunStates], established : BOOLEAN]
    BY DEF Poll
  <2>3. since' \in Ages
    BY OutboxNumbers DEF Poll, Ages
  <2>. QED  BY <1>4, <2>1, <2>2, <2>3 DEF Shape, DataShape, Poll, world
<1>6. ControlShape' /\ Announced'
  <2>1. todo' \subseteq ReportKeys
    BY EventsParts DEF Poll
  <2>. QED  BY <2>1 DEF Shape, ControlShape, Announced, Poll, Delivering
<1>. QED  BY <1>5, <1>6 DEF Shape

LEMMA PollUnsavedKeepsShape ==
  ASSUME OutboxConstants, Shape, NEW ci \in [Runs -> RunStates], NEW c \in BOOLEAN, NEW x \in BOOLEAN,
         pc = "poll", PollUnsaved(ci, c, x)
  PROVE  Shape'
<1>. DEFINE u == Updated(ci, c, x)
            new == Committed(u)
<1>1. u \in AnyBase
  BY UpdatedParts DEF Shape, DataShape
<1>. HIDE DEF u
<1>2. new \in AnyBase /\ Clean(new)
  BY <1>1, CommittedParts DEF Shape, DataShape
<1>3. WriteFails(new)
  BY DEF PollUnsaved, u
<1>. HIDE DEF new
<1>4. disk' \in AnyBase /\ base' \in AnyBase /\ Clean(disk') /\ faults' \in 0..MaxFaults
  BY <1>2, <1>3, WriteFailsParts DEF Shape
<1>5. DataShape'
  <2>1. owed' \subseteq Runs
    BY EventsParts DEF Shape, DataShape, PollUnsaved
  <2>2. known' \in [seen : BOOLEAN, ci : [Runs -> RunStates], established : BOOLEAN]
    BY DEF PollUnsaved, Shape, DataShape
  <2>. QED  BY <1>4, <2>1, <2>2 DEF Shape, DataShape, PollUnsaved, world
<1>6. ControlShape' /\ Announced'
  <2>1. step = "next" /\ todo = {} /\ cur = {}
    BY DEF Shape, ControlShape, Delivering
  <2>. QED  BY <2>1 DEF PollUnsaved, Shape, ControlShape, Announced, Delivering
<1>. QED  BY <1>5, <1>6 DEF Shape

LEMMA RestKeepsShape ==
  ASSUME OutboxConstants, Shape,
         StartPoll \/ PassOver \/ Close \/ \E r \in Runs : RunMoves(r)
  PROVE  Shape'
<1>1. CASE StartPoll
  <2>1. 0 \in Ages
    BY OutboxNumbers DEF Ages
  <2>. QED  BY <1>1, <2>1 DEF Shape, DataShape, ControlShape, Announced, StartPoll, source, world, outboxHistory,
                             Delivering
<1>2. CASE PassOver
  BY <1>2 DEF Shape, DataShape, ControlShape, Announced, PassOver, StopPass, AfterPass, source, world,
              outboxHistory, Delivering
<1>3. CASE Close
  <2>1. faults' \in 0..MaxFaults
    BY <1>3, FaultCounts DEF Close, Shape, DataShape
  <2>. QED  BY <1>3, <2>1 DEF Shape, DataShape, ControlShape, Announced, Close, source, control, outboxHistory,
                             Delivering
<1>4. CASE \E r \in Runs : RunMoves(r)
  <2>1. hub' \in [Runs -> RunStates]
    BY <1>4 DEF RunMoves, Shape, DataShape, RunStates
  <2>. QED  BY <1>4, <2>1 DEF Shape, DataShape, ControlShape, Announced, RunMoves, source, control,
                             outboxHistory, Delivering
<1>. QED  BY <1>1, <1>2, <1>3, <1>4

LEMMA DiesKeepsShape ==
  ASSUME OutboxConstants, Shape, DaemonDies
  PROVE  Shape'
<1>1. base' \in AnyBase
  BY NormalClean DEF DaemonDies, Shape, DataShape
<1>2. faults' \in 0..MaxFaults
  BY FaultCounts DEF DaemonDies, Shape, DataShape
<1>3. known' \in [seen : BOOLEAN, ci : [Runs -> RunStates], established : BOOLEAN]
  BY DEF DaemonDies, NothingKnown, RunStates
<1>4. DataShape'
  BY <1>1, <1>2, <1>3 DEF DaemonDies, Shape, DataShape, outboxHistory
<1>5. ControlShape' /\ Announced'
  BY DEF DaemonDies, ControlShape, Announced, Delivering
<1>. QED  BY <1>4, <1>5 DEF Shape

LEMMA HourKeepsShape ==
  ASSUME OutboxConstants, Shape, Hour
  PROVE  Shape'
<1>1. disk' \in AnyBase /\ base' \in AnyBase /\ Clean(disk')
  BY AgedParts DEF Hour, Shape, DataShape
<1>2. since' \in Ages
  BY AgedTimes DEF Hour, Shape, DataShape, Times
<1>3. DataShape'
  BY <1>1, <1>2 DEF Hour, Shape, DataShape, world, outboxHistory
<1>4. ControlShape'
  BY DEF Hour, Shape, ControlShape, Delivering
<1>5. Announced'
  <2>1. \A k \in ReportKeys : InOutbox(disk, k) => InOutbox(disk', k)
    BY <1>1, AgedParts, InOutboxCounts DEF Hour, Shape, DataShape
  <2>. QED  BY <2>1 DEF Hour, Shape, Announced, ControlShape
<1>. QED  BY <1>3, <1>4, <1>5 DEF Shape

\* The polls of a step, each with what it fetched.
LEMMA PollSteps ==
  ASSUME OutboxConstants, DataShape, PollAll \/ PollPartial \/ PollFailed
  PROVE  \E ci \in [Runs -> RunStates], c \in BOOLEAN, x \in BOOLEAN :
            Poll(ci, c, x) /\ faults' \in 0..MaxFaults /\ faults' >= faults
<1>1. CASE PollAll
  <2>1. Fetched(Runs) \in [Runs -> RunStates]
    BY FetchedParts
  <2>2. Poll(Fetched(Runs), TRUE, TRUE) /\ faults' = faults
    BY <1>1 DEF PollAll
  <2>3. faults' \in 0..MaxFaults /\ faults' >= faults
    BY <2>2, OutboxNumbers DEF DataShape
  <2>. QED  BY <2>1, <2>2, <2>3
<1>2. CASE PollPartial
  <2>1. PICK S \in SUBSET Runs : Poll(Fetched(S), FALSE, TRUE)
    BY <1>2 DEF PollPartial
  <2>2. Fetched(S) \in [Runs -> RunStates]
    BY FetchedParts
  <2>3. faults' \in 0..MaxFaults /\ faults' >= faults
    BY <1>2, FaultCounts DEF PollPartial, DataShape
  <2>. QED  BY <2>1, <2>2, <2>3
<1>3. CASE PollFailed
  <2>1. known.ci \in [Runs -> RunStates]
    BY DEF DataShape
  <2>2. faults' \in 0..MaxFaults /\ faults' >= faults
    BY <1>3, FaultCounts DEF PollFailed, DataShape
  <2>. QED  BY <1>3, <2>1, <2>2 DEF PollFailed
<1>. QED  BY <1>1, <1>2, <1>3

LEMMA ShapeStep ==
  ASSUME OutboxConstants, Shape, [OutboxNext]_outboxVars
  PROVE  Shape'
<1>1. CASE StartPoll \/ PassOver \/ Close \/ \E r \in Runs : RunMoves(r)
  BY <1>1, RestKeepsShape
<1>2. CASE PollAll \/ PollPartial \/ PollFailed
  BY <1>2, PollSteps, PollKeepsShape DEF Shape
<1>3. CASE PollUnsavedAll
  BY <1>3, FetchedParts, PollUnsavedKeepsShape DEF PollUnsavedAll, Shape
<1>4. ASSUME NEW k \in ReportKeys,
             Count(k) \/ CountFails(k) \/ Send(k) \/ SendFails(k) \/ Acknowledge(k) \/ AcknowledgeFails(k)
      PROVE  Shape'
  BY <1>4, CountKeepsShape, CountFailsKeepsShape, SendKeepsShape, SendFailsKeepsShape, AcknowledgeKeepsShape
<1>5. CASE DaemonDies
  BY <1>5, DiesKeepsShape
<1>6. CASE Hour
  BY <1>6, HourKeepsShape
<1>7. CASE UNCHANGED outboxVars
  BY <1>7 DEF outboxVars, source, control, world, outboxHistory, Shape, DataShape, ControlShape, Announced,
              Delivering
<1>. QED  BY <1>1, <1>2, <1>3, <1>4, <1>5, <1>6, <1>7 DEF OutboxNext, Deliver

\* No event is sent again once its acknowledgement is on disk, whatever fails and
\* however old acknowledgements get: between the count of an attempt and its send
\* nothing takes the event out of the file, and what is in the file's outbox is not
\* acknowledged there.
THEOREM AckedForGood == OutboxConstants => (OutboxSpec => AckedIsFinal)
<1>. SUFFICES ASSUME OutboxConstants PROVE OutboxSpec => AckedIsFinal
  OBVIOUS
<1>1. OutboxInit => Shape
  BY ShapeInit
<1>2. Shape /\ [OutboxNext]_outboxVars => Shape'
  BY ShapeStep
<1>3. Shape /\ [OutboxNext]_outboxVars => [AckedStep]_outboxVars
  <2>. SUFFICES ASSUME Shape, OutboxNext PROVE AckedStep
    BY DEF AckedStep
  <2>. SUFFICES ASSUME NEW k \in ReportKeys, sent'[k] # sent[k] PROVE disk.acked[k] = Never
    BY DEF AckedStep
  <2>1. PICK j \in ReportKeys : Send(j)
    <3>1. CASE \E j \in ReportKeys : Send(j)
      BY <3>1
    <3>2. CASE UNCHANGED sent
      BY <3>2
    <3>. QED  BY <3>1, <3>2 DEF OutboxNext, Deliver, StartPoll, PollAll, PollUnsavedAll, PollPartial,
                 PollFailed, Poll, PollUnsaved, PassOver, Count, CountFails, SendFails, Acknowledge,
                 AcknowledgeFails, DaemonDies, Close, Hour, RunMoves, outboxHistory
  <2>2. k = j /\ step = "send" /\ k \in cur
    BY <2>1 DEF Send, Shape, DataShape
  <2>3. InOutbox(disk, k)
    BY <2>2 DEF Shape, Announced
  <2>. QED  BY <2>3 DEF Shape, DataShape, Clean, Settled
<1>. QED  BY <1>1, <1>2, <1>3, PTL DEF OutboxSpec, AckedIsFinal

----------------------------------------------------------------------------
(***************************************************************************)
(* Counting: while no acknowledgement is dropped, both copies of the       *)
(* outbox count at least the sends that were made.                         *)
(***************************************************************************)
\* A copy that has the event waiting counts its sends; one that knows nothing of it
\* is right that there were none.
Booked(b, k) ==
  /\ Attempts(b, k) >= 0 => sent[k] <= Attempts(b, k)
  /\ Attempts(b, k) = -1 /\ ~Settled(b, k) => sent[k] = 0
  /\ Attempts(b, k) <= MaxTries + faults
Queued(k) ==
  /\ sent[k] < MaxTries
  /\ Attempts(base, k) >= 0 \/ Settled(base, k)
  /\ Attempts(base, k) < MaxTries + faults
  /\ Attempts(disk, k) < MaxTries + faults
Counting(k) ==
  /\ sent[k] <= MaxTries
  /\ Booked(disk, k) /\ Booked(base, k)
  /\ Attempts(base, k) < MaxTries => Attempts(disk, k) < MaxTries + faults
  /\ k \in todo => Queued(k)
  /\ k \in cur => k \notin todo
  /\ k \in cur /\ step = "send" =>
       sent[k] < MaxTries /\ sent[k] < Attempts(disk, k) /\ sent[k] < Attempts(base, k)
CountInv == disk.floor = 0 /\ base.floor = 0 /\ \A k \in ReportKeys : Counting(k)

LEMMA ShapeNumbers ==
  ASSUME OutboxConstants, Shape, NEW k \in ReportKeys
  PROVE  /\ MaxTries \in Nat /\ MaxTries >= 1 /\ faults \in Nat /\ faults <= MaxFaults /\ MaxFaults \in Nat
         /\ sent[k] \in Nat
         /\ Attempts(disk, k) \in Int /\ Attempts(disk, k) >= -1
         /\ Attempts(base, k) \in Int /\ Attempts(base, k) >= -1
         /\ InOutbox(disk, k) <=> Attempts(disk, k) >= 0
         /\ InOutbox(base, k) <=> Attempts(base, k) >= 0
BY OutboxNumbers, InOutboxCounts DEF Shape, DataShape

LEMMA CountKeepsCount ==
  ASSUME OutboxConstants, MaxAge < Retention, Shape, CountInv, NEW k \in ReportKeys, Count(k)
  PROVE  CountInv'
<1>. DEFINE c == Counted(base, k)
            new == Committed(c)
<1>1. /\ c \in AnyBase /\ c.floor = 0
      /\ \A j \in ReportKeys :
            /\ Settled(c, j) <=> Settled(base, j)
            /\ Attempts(c, j) = IF j = k /\ Attempts(base, k) >= 0 THEN Attempts(base, k) + 1
                                ELSE Attempts(base, j)
  BY CountedParts DEF Shape, DataShape, CountInv
<1>2. /\ Saved(new) /\ todo' = todo \ {k} /\ faults' = faults /\ sent' = sent
      /\ IF InOutbox(new, k) THEN step' = "send" /\ cur' = {k} ELSE step' = "next" /\ cur' = {}
      /\ k \in todo
  BY DEF Count, c, outboxHistory
<1>. HIDE DEF c
<1>3. /\ new \in AnyBase /\ Clean(new) /\ new.floor = 0
      /\ \A j \in ReportKeys :
            /\ Settled(new, j) <=> Settled(disk, j) \/ Settled(c, j)
            /\ Attempts(new, j) = IF Settled(disk, j) \/ Settled(c, j) THEN -1
                                  ELSE Larger(Attempts(disk, j), Attempts(c, j))
  BY <1>1, CommittedParts DEF Shape, DataShape, CountInv
<1>. HIDE DEF new
<1>4. /\ disk' = base' /\ disk'.floor = 0
      /\ \A j \in ReportKeys : /\ Settled(disk', j) <=> Settled(new, j)
                               /\ Attempts(disk', j) = Attempts(new, j)
  BY <1>2, <1>3, SavedParts
<1>5. ASSUME NEW j \in ReportKeys
      PROVE  Counting(j)'
  <2>1. Counting(j)
    BY DEF CountInv
  <2>2. InOutbox(new, k) <=> Attempts(new, k) >= 0
    BY <1>3, InOutboxCounts
  <2>. DEFINE n == Attempts(disk', j)
  <2>6. n \in Int /\ n >= -1 /\ Attempts(base', j) = n
    BY <1>3, <1>4, InOutboxCounts
  <2>7. Booked(disk, j)' => Booked(base, j)'
    BY <1>4 DEF Booked
  <2>3. /\ Settled(disk', j) <=> Settled(disk, j) \/ Settled(base, j)
        /\ Attempts(disk', j) = IF Settled(disk, j) \/ Settled(base, j) THEN -1
                                ELSE Larger(Attempts(disk, j), Attempts(c, j))
    BY <1>1, <1>3, <1>4
  <2>4. CASE j = k
    <3>1. Attempts(c, j) = IF Attempts(base, j) >= 0 THEN Attempts(base, j) + 1 ELSE Attempts(base, j)
      BY <1>1, <2>4
    <3>2. Queued(j)
      BY <1>2, <2>1, <2>4 DEF Counting
    <3>3. j \in cur' => Attempts(disk', j) >= 0
      BY <1>2, <1>4, <2>2, <2>4
    <3>4. Attempts(disk', j) >= 0 => sent[j] < Attempts(disk', j)
      BY <2>1, <2>3, <3>1, <3>2, ShapeNumbers DEF Counting, Queued, Booked, Larger
    <3>5. Attempts(disk', j) = -1 => Settled(disk', j)
      BY <2>3, <3>1, <3>2, ShapeNumbers DEF Queued, Larger
    <3>6. Attempts(disk', j) <= MaxTries + faults
      BY <2>3, <3>1, <3>2, ShapeNumbers DEF Queued, Larger
    <3>7. j \notin todo'
      BY <1>2, <2>4
    <3>8. sent[j] < MaxTries
      BY <3>2 DEF Queued
    <3>9. Booked(disk, j)'
      BY <1>2, <2>6, <3>4, <3>5, <3>6, ShapeNumbers DEF Booked
    <3>10. n < MaxTries => n < MaxTries + faults
      BY <2>6, ShapeNumbers
    <3>. HIDE DEF n
    <3>11. Attempts(base, j)' = n /\ Attempts(disk, j)' = n
      BY <2>6 DEF n
    <3>. QED  BY <1>2, <2>6, <2>7, <3>3, <3>4, <3>7, <3>8, <3>9, <3>10, <3>11, ShapeNumbers DEF Counting, n
  <2>5. CASE j # k
    <3>1. Attempts(c, j) = Attempts(base, j)
      BY <1>1, <2>5
    <3>2. Booked(disk, j)'
      BY <1>2, <2>1, <2>3, <3>1, ShapeNumbers DEF Counting, Booked, Larger
    <3>3. j \notin cur'
      BY <1>2, <2>5
    <3>4. j \in todo' => j \in todo
      BY <1>2
    <3>5. j \in todo => Queued(j)'
      BY <1>2, <1>4, <2>1, <2>3, <3>1, ShapeNumbers DEF Counting, Queued, Larger
    <3>6. sent[j] <= MaxTries
      BY <2>1 DEF Counting
    <3>7. n < MaxTries => n < MaxTries + faults
      BY <2>6, ShapeNumbers
    <3>. QED  BY <1>2, <2>6, <2>7, <3>2, <3>3, <3>4, <3>5, <3>6, <3>7 DEF Counting
  <2>. QED  BY <2>4, <2>5
<1>. QED  BY <1>4, <1>5 DEF CountInv

LEMMA CountFailsKeepsCount ==
  ASSUME OutboxConstants, MaxAge < Retention, Shape, CountInv, NEW k \in ReportKeys, CountFails(k)
  PROVE  CountInv'
<1>. DEFINE c == Counted(base, k)
            new == Committed(c)
<1>1. /\ c \in AnyBase /\ c.floor = 0
      /\ \A j \in ReportKeys :
            /\ Settled(c, j) <=> Settled(base, j)
            /\ Attempts(c, j) = IF j = k /\ Attempts(base, k) >= 0 THEN Attempts(base, k) + 1
                                ELSE Attempts(base, j)
  BY CountedParts DEF Shape, DataShape, CountInv
<1>2. /\ WriteFails(new) /\ todo' = {} /\ cur' = {} /\ sent' = sent /\ k \in todo
  BY DEF CountFails, StopPass, c, outboxHistory
<1>. HIDE DEF c
<1>3. /\ new \in AnyBase /\ Clean(new) /\ new.floor = 0
      /\ \A j \in ReportKeys :
            /\ Settled(new, j) <=> Settled(disk, j) \/ Settled(c, j)
            /\ Attempts(new, j) = IF Settled(disk, j) \/ Settled(c, j) THEN -1
                                  ELSE Larger(Attempts(disk, j), Attempts(c, j))
  BY <1>1, CommittedParts DEF Shape, DataShape, CountInv
<1>. HIDE DEF new
<1>4. base' = base /\ faults' = faults + 1 /\ (disk' = disk \/ disk' = new)
  BY <1>2, <1>3, WriteFailsParts DEF Shape
<1>5. ASSUME NEW j \in ReportKeys
      PROVE  Counting(j)'
  <2>1. Counting(j)
    BY DEF CountInv
  <2>2. CASE disk' = disk
    BY <1>2, <1>4, <2>1, <2>2, ShapeNumbers DEF Counting, Booked
  <2>3. CASE disk' = new
    <3>1. /\ Settled(disk', j) <=> Settled(disk, j) \/ Settled(base, j)
          /\ Attempts(disk', j) = IF Settled(disk, j) \/ Settled(base, j) THEN -1
                                  ELSE Larger(Attempts(disk, j), Attempts(c, j))
      BY <1>1, <1>3, <2>3
    <3>2. \/ Attempts(c, j) = Attempts(base, j)
          \/ Attempts(c, j) = Attempts(base, j) + 1 /\ Attempts(base, j) >= 0
      BY <1>1
    <3>3. Booked(disk, j)'
      BY <1>2, <1>4, <2>1, <3>1, <3>2, ShapeNumbers DEF Counting, Booked, Larger
    <3>4. Booked(base, j)'
      BY <1>2, <1>4, <2>1, ShapeNumbers DEF Counting, Booked
    <3>5. Attempts(base, j) < MaxTries => Attempts(disk', j) < MaxTries + faults'
      BY <1>4, <2>1, <3>1, <3>2, ShapeNumbers DEF Counting, Booked, Larger
    <3>. QED  BY <1>2, <1>4, <2>1, <3>3, <3>4, <3>5 DEF Counting
  <2>. QED  BY <1>4, <2>2, <2>3
<1>6. disk'.floor = 0 /\ base'.floor = 0
  BY <1>3, <1>4 DEF CountInv
<1>. QED  BY <1>5, <1>6 DEF CountInv

LEMMA SendKeepsCount ==
  ASSUME OutboxConstants, Shape, CountInv, NEW k \in ReportKeys, Send(k)
  PROVE  CountInv'
<1>1. /\ disk' = disk /\ base' = base /\ todo' = todo /\ cur' = cur /\ cur = {k} /\ faults' = faults
      /\ step = "send" /\ step' = "ack"
  BY DEF Send, source
<1>2. \A j \in ReportKeys : sent'[j] = IF j = k THEN sent[j] + 1 ELSE sent[j]
  BY DEF Send, Shape, DataShape
<1>3. ASSUME NEW j \in ReportKeys
      PROVE  Counting(j)'
  <2>1. Counting(j)
    BY DEF CountInv
  <2>2. CASE j = k
    <3>1. j \in cur /\ j \notin todo
      BY <1>1, <2>1, <2>2 DEF Counting
    <3>. QED  BY <1>1, <1>2, <2>1, <2>2, <3>1, ShapeNumbers DEF Counting, Booked
  <2>3. CASE j # k
    <3>1. sent'[j] = sent[j]
      BY <1>2, <2>3
    <3>. QED  BY <1>1, <2>1, <3>1 DEF Counting, Booked, Queued
  <2>. QED  BY <2>2, <2>3
<1>. QED  BY <1>1, <1>3 DEF CountInv

LEMMA SendFailsKeepsCount ==
  ASSUME OutboxConstants, MaxAge < Retention, Shape, CountInv, NEW k \in ReportKeys, SendFails(k)
  PROVE  CountInv'
<1>. DEFINE u == Buried(base, k)
            new == Committed(u)
<1>1. /\ u \in AnyBase /\ u.floor = 0
      /\ \A j \in ReportKeys :
            /\ Settled(u, j) <=> Settled(base, j) \/ (j = k /\ Attempts(base, k) >= MaxTries)
            /\ Attempts(u, j) = IF j = k /\ Attempts(base, k) >= MaxTries THEN -1 ELSE Attempts(base, j)
  BY BuriedParts DEF Shape, DataShape, CountInv
<1>2. /\ base' = u /\ todo' = {} /\ cur' = {} /\ sent' = sent
      /\ (disk' = new /\ UNCHANGED faults) \/ (Fault("unsaved") /\ UNCHANGED disk)
  BY DEF SendFails, StopPass, outboxHistory
<1>. HIDE DEF u
<1>3. /\ new \in AnyBase /\ Clean(new) /\ new.floor = 0
      /\ \A j \in ReportKeys :
            /\ Settled(new, j) <=> Settled(disk, j) \/ Settled(u, j)
            /\ Attempts(new, j) = IF Settled(disk, j) \/ Settled(u, j) THEN -1
                                  ELSE Larger(Attempts(disk, j), Attempts(u, j))
  BY <1>1, CommittedParts DEF Shape, DataShape, CountInv
<1>. HIDE DEF new
<1>4. (disk' = new /\ faults' = faults) \/ (disk' = disk /\ faults' = faults + 1)
  BY <1>2, FaultCounts DEF Shape, DataShape
<1>5. ASSUME NEW j \in ReportKeys
      PROVE  Counting(j)'
  <2>1. Counting(j)
    BY DEF CountInv
  <2>2. \/ Attempts(u, j) = Attempts(base, j) /\ (Settled(u, j) <=> Settled(base, j))
        \/ Attempts(u, j) = -1 /\ Settled(u, j) /\ Attempts(base, j) >= MaxTries
    BY <1>1
  <2>3. Booked(base, j)'
    BY <1>2, <1>4, <2>1, <2>2, ShapeNumbers DEF Counting, Booked
  <2>4. CASE disk' = disk /\ faults' = faults + 1
    BY <1>2, <2>1, <2>3, <2>4, ShapeNumbers DEF Counting, Booked
  <2>5. CASE disk' = new /\ faults' = faults
    <3>1. /\ Settled(disk', j) <=> Settled(disk, j) \/ Settled(u, j)
          /\ Attempts(disk', j) = IF Settled(disk, j) \/ Settled(u, j) THEN -1
                                  ELSE Larger(Attempts(disk, j), Attempts(u, j))
      BY <1>3, <2>5
    <3>2. Booked(disk, j)'
      BY <1>2, <2>1, <2>2, <2>5, <3>1, ShapeNumbers DEF Counting, Booked, Larger
    <3>3. Attempts(u, j) < MaxTries => Attempts(disk', j) < MaxTries + faults
      BY <2>1, <2>2, <3>1, ShapeNumbers DEF Counting, Larger
    <3>. QED  BY <1>2, <2>1, <2>3, <2>5, <3>2, <3>3 DEF Counting
  <2>. QED  BY <1>4, <2>4, <2>5
<1>6. disk'.floor = 0 /\ base'.floor = 0
  BY <1>1, <1>2, <1>3, <1>4 DEF CountInv
<1>. QED  BY <1>5, <1>6 DEF CountInv

LEMMA AcknowledgeKeepsCount ==
  ASSUME OutboxConstants, Shape, CountInv, NEW k \in ReportKeys, Acknowledge(k) \/ AcknowledgeFails(k)
  PROVE  CountInv'
<1>. DEFINE new == Acknowledged(k)
<1>1. /\ new \in AnyBase /\ Clean(new) /\ new.floor = 0
      /\ \A j \in ReportKeys :
            /\ Settled(disk, j) \/ Settled(base, j) => Settled(new, j)
            /\ Settled(new, j) => Settled(disk, j) \/ Settled(base, j) \/ j = k
            /\ Attempts(new, j) = IF Settled(new, j) THEN -1 ELSE Larger(Attempts(disk, j), Attempts(base, j))
  BY AcknowledgedParts DEF Shape, DataShape, CountInv
<1>2. /\ cur' = {} /\ todo' = todo /\ sent' = sent
      /\ (Saved(new) /\ UNCHANGED faults) \/ WriteFails(new)
  BY DEF Acknowledge, AcknowledgeFails, NextEvent, outboxHistory
<1>. HIDE DEF new
<1>3. CASE Saved(new) /\ UNCHANGED faults
  <2>1. /\ disk' = base' /\ disk'.floor = 0
        /\ \A j \in ReportKeys : /\ Settled(disk', j) <=> Settled(new, j)
                                 /\ Attempts(disk', j) = Attempts(new, j)
    BY <1>1, <1>3, SavedParts
  <2>2. ASSUME NEW j \in ReportKeys
        PROVE  Counting(j)'
    <3>1. Counting(j)
      BY DEF CountInv
    <3>2. /\ Settled(disk, j) \/ Settled(base, j) => Settled(disk', j)
          /\ Attempts(disk', j) = IF Settled(disk', j) THEN -1 ELSE Larger(Attempts(disk, j), Attempts(base, j))
      BY <1>1, <2>1
    <3>3. Booked(disk, j)'
      BY <1>2, <1>3, <3>1, <3>2, ShapeNumbers DEF Counting, Booked, Larger
    <3>4. j \in todo => Queued(j)'
      BY <1>2, <1>3, <2>1, <3>1, <3>2, ShapeNumbers DEF Counting, Queued, Larger
    <3>5. sent[j] <= MaxTries
      BY <3>1 DEF Counting
    <3>6. Attempts(disk', j) \in Int /\ Attempts(base', j) = Attempts(disk', j)
      BY <1>1, <2>1, InOutboxCounts
    <3>7. Attempts(disk', j) < MaxTries => Attempts(disk', j) < MaxTries + faults
      BY <3>6, ShapeNumbers
    <3>8. Booked(base, j)'
      BY <2>1, <3>3 DEF Booked
    <3>. QED  BY <1>2, <1>3, <3>3, <3>4, <3>5, <3>6, <3>7, <3>8 DEF Counting
  <2>. QED  BY <2>1, <2>2 DEF CountInv
<1>4. CASE WriteFails(new)
  <2>1. base' = base /\ faults' = faults + 1 /\ (disk' = disk \/ disk' = new)
    BY <1>1, <1>4, WriteFailsParts DEF Shape
  <2>2. ASSUME NEW j \in ReportKeys
        PROVE  Counting(j)'
    <3>1. Counting(j)
      BY DEF CountInv
    <3>2. Booked(base, j)'
      BY <1>2, <2>1, <3>1, ShapeNumbers DEF Counting, Booked
    <3>3. CASE disk' = disk
      BY <1>2, <2>1, <3>1, <3>3, ShapeNumbers DEF Counting, Booked, Queued
    <3>4. CASE disk' = new
      <4>1. /\ Settled(disk, j) \/ Settled(base, j) => Settled(disk', j)
            /\ Attempts(disk', j) = IF Settled(disk', j) THEN -1
                                    ELSE Larger(Attempts(disk, j), Attempts(base, j))
        BY <1>1, <3>4
      <4>2. Booked(disk, j)'
        BY <1>2, <2>1, <3>1, <4>1, ShapeNumbers DEF Counting, Booked, Larger
      <4>3. Attempts(disk', j) < MaxTries + faults'
        BY <2>1, <3>1, <4>1, ShapeNumbers DEF Counting, Booked, Larger
      <4>4. j \in todo => Queued(j)'
        BY <1>2, <2>1, <3>1, <4>3, ShapeNumbers DEF Counting, Queued
      <4>. QED  BY <1>2, <3>1, <3>2, <4>2, <4>3, <4>4 DEF Counting
    <3>. QED  BY <2>1, <3>3, <3>4
  <2>3. disk'.floor = 0 /\ base'.floor = 0
    BY <1>1, <2>1 DEF CountInv
  <2>. QED  BY <2>2, <2>3 DEF CountInv
<1>. QED  BY <1>2, <1>3, <1>4

LEMMA PollKeepsCount ==
  ASSUME OutboxConstants, MaxAge < Retention, Shape, CountInv,
         NEW ci \in [Runs -> RunStates], NEW c \in BOOLEAN, NEW x \in BOOLEAN,
         Poll(ci, c, x), faults' \in 0..MaxFaults, faults' >= faults
  PROVE  CountInv'
<1>. DEFINE u == Updated(ci, c, x)
            new == Committed(u)
<1>1. /\ u \in AnyBase /\ u.floor = 0
      /\ \A j \in ReportKeys :
            /\ Settled(u, j) <=> Settled(base, j)
            /\ \/ Attempts(u, j) = Attempts(base, j)
               \/ Attempts(u, j) = 0 /\ Attempts(base, j) = -1
  BY UpdatedParts DEF Shape, DataShape, CountInv
<1>2. /\ Saved(new) /\ cur' = {} /\ sent' = sent
      /\ \A j \in todo' : InOutbox(new, j) /\ Attempts(new, j) < MaxTries
  BY DEF Poll, u, Due, Attempts
<1>. HIDE DEF u
<1>3. /\ new \in AnyBase /\ Clean(new) /\ new.floor = 0
      /\ \A j \in ReportKeys :
            /\ Settled(new, j) <=> Settled(disk, j) \/ Settled(u, j)
            /\ Attempts(new, j) = IF Settled(disk, j) \/ Settled(u, j) THEN -1
                                  ELSE Larger(Attempts(disk, j), Attempts(u, j))
  BY <1>1, CommittedParts DEF Shape, DataShape, CountInv
<1>. HIDE DEF new
<1>4. /\ disk' = base' /\ disk'.floor = 0
      /\ \A j \in ReportKeys : /\ Settled(disk', j) <=> Settled(new, j)
                               /\ Attempts(disk', j) = Attempts(new, j)
  BY <1>2, <1>3, SavedParts
<1>5. ASSUME NEW j \in ReportKeys
      PROVE  Counting(j)'
  <2>1. Counting(j)
    BY DEF CountInv
  <2>2. faults' \in Nat
    BY ShapeNumbers
  <2>3. /\ Settled(disk', j) <=> Settled(disk, j) \/ Settled(base, j)
        /\ Attempts(disk', j) = IF Settled(disk, j) \/ Settled(base, j) THEN -1
                                ELSE Larger(Attempts(disk, j), Attempts(u, j))
    BY <1>1, <1>3, <1>4
  <2>4. \/ Attempts(u, j) = Attempts(base, j)
        \/ Attempts(u, j) = 0 /\ Attempts(base, j) = -1
    BY <1>1
  <2>5. Booked(disk, j)'
    BY <1>2, <2>1, <2>2, <2>3, <2>4, ShapeNumbers DEF Counting, Booked, Larger
  <2>6. j \in todo' => Attempts(disk', j) >= 0 /\ Attempts(disk', j) < MaxTries
    BY <1>2, <1>3, <1>4, InOutboxCounts
  <2>7. sent[j] <= MaxTries
    BY <2>1 DEF Counting
  <2>8. Attempts(disk', j) \in Int
    BY <2>3, <2>4, ShapeNumbers DEF Larger
  <2>9. j \in todo' => Queued(j)'
    BY <1>2, <1>4, <2>2, <2>5, <2>6, <2>8, ShapeNumbers DEF Queued, Booked
  <2>. QED  BY <1>2, <1>4, <2>2, <2>5, <2>7, <2>8, <2>9, ShapeNumbers DEF Counting, Booked
<1>. QED  BY <1>4, <1>5 DEF CountInv

LEMMA PollUnsavedKeepsCount ==
  ASSUME OutboxConstants, MaxAge < Retention, Shape, CountInv,
         NEW ci \in [Runs -> RunStates], NEW c \in BOOLEAN, NEW x \in BOOLEAN,
         pc = "poll", PollUnsaved(ci, c, x)
  PROVE  CountInv'
<1>. DEFINE u == Updated(ci, c, x)
            new == Committed(u)
<1>1. /\ u \in AnyBase /\ u.floor = 0
      /\ \A j \in ReportKeys :
            /\ Settled(u, j) <=> Settled(base, j)
            /\ \/ Attempts(u, j) = Attempts(base, j)
               \/ Attempts(u, j) = 0 /\ Attempts(base, j) = -1
  BY UpdatedParts DEF Shape, DataShape, CountInv
<1>2. WriteFails(new) /\ cur' = {} /\ todo' = {} /\ sent' = sent
  <2>1. cur = {} /\ todo = {}
    BY DEF Shape, ControlShape, Delivering
  <2>. QED  BY <2>1 DEF PollUnsaved, u
<1>. HIDE DEF u
<1>3. /\ new \in AnyBase /\ Clean(new) /\ new.floor = 0
      /\ \A j \in ReportKeys :
            /\ Settled(new, j) <=> Settled(disk, j) \/ Settled(u, j)
            /\ Attempts(new, j) = IF Settled(disk, j) \/ Settled(u, j) THEN -1
                                  ELSE Larger(Attempts(disk, j), Attempts(u, j))
  BY <1>1, CommittedParts DEF Shape, DataShape, CountInv
<1>. HIDE DEF new
<1>4. base' = base /\ faults' = faults + 1 /\ (disk' = disk \/ disk' = new)
  BY <1>2, <1>3, WriteFailsParts DEF Shape
<1>5. ASSUME NEW j \in ReportKeys
      PROVE  Counting(j)'
  <2>1. Counting(j)
    BY DEF CountInv
  <2>2. CASE disk' = disk
    BY <1>2, <1>4, <2>1, <2>2, ShapeNumbers DEF Counting, Booked
  <2>3. CASE disk' = new
    <3>1. /\ Settled(disk', j) <=> Settled(disk, j) \/ Settled(base, j)
          /\ Attempts(disk', j) = IF Settled(disk, j) \/ Settled(base, j) THEN -1
                                  ELSE Larger(Attempts(disk, j), Attempts(u, j))
      BY <1>1, <1>3, <2>3
    <3>2. \/ Attempts(u, j) = Attempts(base, j)
          \/ Attempts(u, j) = 0 /\ Attempts(base, j) = -1
      BY <1>1
    <3>3. Booked(disk, j)'
      BY <1>2, <1>4, <2>1, <3>1, <3>2, ShapeNumbers DEF Counting, Booked, Larger
    <3>4. Booked(base, j)'
      BY <1>2, <1>4, <2>1, ShapeNumbers DEF Counting, Booked
    <3>5. Attempts(disk', j) < MaxTries + faults'
      BY <1>4, <2>1, <3>1, <3>2, ShapeNumbers DEF Counting, Booked, Larger
    <3>. QED  BY <1>2, <1>4, <2>1, <3>3, <3>4, <3>5 DEF Counting
  <2>. QED  BY <1>4, <2>2, <2>3
<1>6. disk'.floor = 0 /\ base'.floor = 0
  BY <1>3, <1>4 DEF CountInv
<1>. QED  BY <1>5, <1>6 DEF CountInv

LEMMA DiesKeepsCount ==
  ASSUME OutboxConstants, Shape, CountInv, DaemonDies
  PROVE  CountInv'
<1>1. /\ base'.floor = 0
      /\ \A j \in ReportKeys : /\ Settled(base', j) <=> Settled(disk, j)
                               /\ Attempts(base', j) = IF Settled(disk, j) THEN -1 ELSE Attempts(disk, j)
  BY NormalClean DEF DaemonDies, Shape, DataShape, CountInv
<1>2. disk' = disk /\ todo' = {} /\ cur' = {} /\ sent' = sent /\ faults' = faults + 1
  BY FaultCounts DEF DaemonDies, outboxHistory, Shape, DataShape
<1>3. ASSUME NEW j \in ReportKeys
      PROVE  Counting(j)'
  <2>1. Counting(j)
    BY DEF CountInv
  <2>2. /\ Settled(base', j) <=> Settled(disk, j)
        /\ Attempts(base', j) = IF Settled(disk, j) THEN -1 ELSE Attempts(disk, j)
    BY <1>1
  <2>. QED  BY <1>2, <2>1, <2>2, ShapeNumbers DEF Counting, Booked
<1>. QED  BY <1>1, <1>2, <1>3 DEF CountInv

LEMMA HourKeepsCount ==
  ASSUME OutboxConstants, Shape, CountInv, Hour
  PROVE  CountInv'
<1>1. disk' = AgedBase(disk) /\ base' = AgedBase(base)
  BY DEF Hour
<1>2. /\ disk'.floor = 0 /\ base'.floor = 0
      /\ \A j \in ReportKeys : /\ Settled(disk', j) <=> Settled(disk, j)
                               /\ Attempts(disk', j) = Attempts(disk, j)
                               /\ Settled(base', j) <=> Settled(base, j)
                               /\ Attempts(base', j) = Attempts(base, j)
  BY <1>1, AgedParts DEF Shape, DataShape, CountInv
<1>3. step' = step /\ todo' = todo /\ cur' = cur /\ sent' = sent /\ faults' = faults
  BY DEF Hour, outboxHistory
<1>. QED  BY <1>2, <1>3 DEF CountInv, Counting, Booked, Queued

LEMMA StartKeepsCount ==
  ASSUME OutboxConstants, Shape, CountInv, StartPoll
  PROVE  CountInv'
<1>1. /\ disk' = disk /\ base' = base /\ cur' = {} /\ sent' = sent /\ faults' = faults
      /\ \A j \in todo' : InOutbox(base, j) /\ Attempts(base, j) < MaxTries
  BY DEF StartPoll, Due, Attempts, source, outboxHistory
<1>2. ASSUME NEW j \in ReportKeys
      PROVE  Counting(j)'
  <2>1. Counting(j)
    BY DEF CountInv
  <2>2. j \in todo' => Queued(j)'
    BY <1>1, <2>1, ShapeNumbers DEF Queued, Counting, Booked
  <2>. QED  BY <1>1, <2>1, <2>2 DEF Counting, Booked
<1>. QED  BY <1>1, <1>2 DEF CountInv

LEMMA RestKeepsCount ==
  ASSUME OutboxConstants, Shape, CountInv,
         PassOver \/ Close \/ (\E r \in Runs : RunMoves(r)) \/ UNCHANGED outboxVars
  PROVE  CountInv'
<1>1. /\ disk' = disk /\ base' = base /\ sent' = sent
      /\ (todo' = todo /\ cur' = cur /\ step' = step) \/ (todo' = {} /\ cur' = {})
  BY DEF PassOver, StopPass, Close, RunMoves, outboxVars, source, control, outboxHistory
<1>2. faults' = faults \/ faults' = faults + 1
  BY FaultCounts DEF PassOver, Close, RunMoves, outboxVars, Shape, DataShape
<1>3. ASSUME NEW j \in ReportKeys
      PROVE  Counting(j)'
  <2>1. Counting(j)
    BY DEF CountInv
  <2>2. Booked(disk, j)' /\ Booked(base, j)'
    BY <1>1, <1>2, <2>1, ShapeNumbers DEF Counting, Booked
  <2>3. Attempts(base, j) < MaxTries => Attempts(disk, j) < MaxTries + faults'
    BY <1>2, <2>1, ShapeNumbers DEF Counting
  <2>4. Queued(j) => Queued(j)'
    BY <1>1, <1>2, ShapeNumbers DEF Queued
  <2>. QED  BY <1>1, <2>1, <2>2, <2>3, <2>4 DEF Counting
<1>. QED  BY <1>1, <1>3 DEF CountInv

LEMMA CountStep ==
  ASSUME OutboxConstants, MaxAge < Retention, Shape, CountInv, [OutboxNext]_outboxVars
  PROVE  CountInv'
<1>1. CASE PassOver \/ Close \/ (\E r \in Runs : RunMoves(r)) \/ UNCHANGED outboxVars
  BY <1>1, RestKeepsCount
<1>2. CASE PollAll \/ PollPartial \/ PollFailed
  BY <1>2, PollSteps, PollKeepsCount DEF Shape
<1>3. CASE PollUnsavedAll
  BY <1>3, FetchedParts, PollUnsavedKeepsCount DEF PollUnsavedAll, Shape
<1>4. ASSUME NEW k \in ReportKeys,
             Count(k) \/ CountFails(k) \/ Send(k) \/ SendFails(k) \/ Acknowledge(k) \/ AcknowledgeFails(k)
      PROVE  CountInv'
  BY <1>4, CountKeepsCount, CountFailsKeepsCount, SendKeepsCount, SendFailsKeepsCount, AcknowledgeKeepsCount
<1>5. CASE DaemonDies
  BY <1>5, DiesKeepsCount
<1>6. CASE Hour
  BY <1>6, HourKeepsCount
<1>7. CASE StartPoll
  BY <1>7, StartKeepsCount
<1>. QED  BY <1>1, <1>2, <1>3, <1>4, <1>5, <1>6, <1>7 DEF OutboxNext, Deliver

LEMMA CountInit ==
  ASSUME OutboxConstants, OutboxInit
  PROVE  CountInv
<1>1. ASSUME NEW j \in ReportKeys
      PROVE  Counting(j)
  <2>1. /\ disk = EmptyBase /\ base = EmptyBase /\ sent[j] = 0 /\ faults = 0 /\ todo = {} /\ cur = {}
    BY DEF OutboxInit
  <2>. QED  BY <2>1, EmptyIsClean, OutboxNumbers DEF Counting, Booked
<1>. QED  BY <1>1, EmptyIsClean DEF OutboxInit, CountInv
----------------------------------------------------------------------------
(***************************************************************************)
(* Keeping: as long as no write has failed and left the old file, what is  *)
(* settled in either copy was sent or is a dead letter, and what a poll    *)
(* wanted to report is settled so, or waits in the file.                   *)
(***************************************************************************)
Done(b, k)  == sent[k] > 0 \/ k \in b.dead
Waits(b, k) == Done(b, k) \/ InOutbox(b, k)
SettledDone == \A k \in ReportKeys : Settled(disk, k) \/ Settled(base, k) => Done(disk, k)
AckedSent   == step = "ack" => \A k \in cur : sent[k] > 0
OwedWaits   == \A r \in owed : Waits(disk, <<r, "done">>)
Keeping     == SettledDone /\ AckedSent /\ OwedWaits
KeepInv     == ~unsaved => Keeping

\* The flag of the failed writes is raised by that fault and by nothing else.
LEMMA UnsavedStays ==
  ASSUME unsaved \in BOOLEAN, [OutboxNext]_outboxVars
  PROVE  unsaved' \in BOOLEAN /\ (unsaved => unsaved')
<1>1. UNCHANGED unsaved \/ \E kind \in FaultKinds : Fault(kind)
  <2>2. CASE StartPoll \/ PollAll \/ PassOver \/ Hour \/ (\E r \in Runs : RunMoves(r)) \/ UNCHANGED outboxVars
    BY <2>2 DEF StartPoll, PollAll, PassOver, Hour, RunMoves, outboxVars
  <2>3. CASE PollPartial \/ PollFailed \/ DaemonDies \/ Close
    BY <2>3 DEF PollPartial, PollFailed, DaemonDies, Close, FaultKinds
  <2>4. CASE PollUnsavedAll
    BY <2>4 DEF PollUnsavedAll, PollUnsaved, WriteFails, FaultKinds
  <2>5. ASSUME NEW k \in ReportKeys,
               Count(k) \/ CountFails(k) \/ Send(k) \/ SendFails(k) \/ Acknowledge(k) \/ AcknowledgeFails(k)
        PROVE  UNCHANGED unsaved \/ \E kind \in FaultKinds : Fault(kind)
    BY <2>5 DEF Count, CountFails, Send, SendFails, Acknowledge, AcknowledgeFails, WriteFails, FaultKinds
  <2>. QED  BY <2>2, <2>3, <2>4, <2>5 DEF OutboxNext, Deliver
<1>2. ASSUME NEW kind \in FaultKinds, Fault(kind)
      PROVE  unsaved' \in BOOLEAN /\ (unsaved => unsaved')
  <2>1. unsaved' = (unsaved \/ kind = "unsaved")
    BY <1>2 DEF Fault
  <2>. QED  BY <2>1
<1>. QED  BY <1>1, <1>2

\* A write of the source's copy keeps what is due in the file, and brings what is
\* due in the copy.
LEMMA CommitKeeps ==
  ASSUME OutboxConstants, MaxAge < Retention, Shape, CountInv, Keeping, NEW s \in AnyBase, s.floor = 0,
         \A k \in ReportKeys : Settled(s, k) => Done(disk, k) \/ Done(s, k)
  PROVE  /\ Committed(s) \in AnyBase /\ Clean(Committed(s))
         /\ \A k \in ReportKeys :
               /\ Done(disk, k) => Done(Committed(s), k)
               /\ Settled(Committed(s), k) => Done(Committed(s), k)
               /\ Waits(disk, k) \/ Attempts(s, k) >= 0 => Waits(Committed(s), k)
<1>. DEFINE new == Committed(s)
<1>1. /\ new \in AnyBase /\ Clean(new)
      /\ new.dead = disk.dead \cup s.dead
      /\ \A k \in ReportKeys :
            /\ Settled(new, k) <=> Settled(disk, k) \/ Settled(s, k)
            /\ Attempts(new, k) = IF Settled(disk, k) \/ Settled(s, k) THEN -1
                                  ELSE Larger(Attempts(disk, k), Attempts(s, k))
  BY CommittedParts DEF Shape, DataShape, CountInv
<1>. HIDE DEF new
<1>2. ASSUME NEW k \in ReportKeys
      PROVE  /\ Done(disk, k) => Done(new, k)
             /\ Settled(new, k) => Done(new, k)
             /\ Waits(disk, k) \/ Attempts(s, k) >= 0 => Waits(new, k)
  <2>1. (Done(disk, k) => Done(new, k)) /\ (Done(s, k) => Done(new, k))
    BY <1>1 DEF Done
  <2>2. Settled(new, k) => Done(new, k)
    BY <1>1, <2>1 DEF Keeping, SettledDone
  <2>3. Attempts(s, k) \in Int /\ Attempts(disk, k) \in Int
    BY InOutboxCounts, ShapeNumbers
  <2>4. ASSUME InOutbox(disk, k) \/ Attempts(s, k) >= 0, ~Settled(new, k)
        PROVE  InOutbox(new, k)
    <3>1. Attempts(new, k) = Larger(Attempts(disk, k), Attempts(s, k))
      BY <1>1, <2>4
    <3>2. Attempts(disk, k) >= 0 \/ Attempts(s, k) >= 0
      BY <2>4, ShapeNumbers
    <3>3. Attempts(new, k) >= 0
      BY <2>3, <3>1, <3>2 DEF Larger
    <3>. QED  BY <1>1, <3>3, InOutboxCounts
  <2>. QED  BY <2>1, <2>2, <2>4 DEF Waits
<1>. QED  BY <1>1, <1>2 DEF new

\* A write that put its file in place, in every step that leaves the history of the
\* sends alone.
LEMMA WriteKeeps ==
  ASSUME OutboxConstants, DataShape, sent' = sent, NEW new \in AnyBase, Clean(new),
         Saved(new) \/ (WriteFails(new) /\ ~unsaved'),
         \A k \in ReportKeys : (Settled(new, k) => Done(new, k)) /\ (Settled(base, k) => Done(new, k))
  PROVE  /\ SettledDone'
         /\ \A k \in ReportKeys : Waits(new, k) => Waits(disk, k)'
<1>1. CASE Saved(new)
  <2>1. /\ disk' \in AnyBase /\ disk' = base' /\ disk'.dead = new.dead
        /\ \A k \in ReportKeys : /\ Settled(disk', k) <=> Settled(new, k)
                                 /\ Attempts(disk', k) = Attempts(new, k)
    BY <1>1, SavedParts
  <2>2. \A k \in ReportKeys : InOutbox(disk', k) <=> InOutbox(new, k)
    BY <2>1, InOutboxCounts
  <2>. QED  BY <2>1, <2>2 DEF SettledDone, Waits, Done
<1>2. CASE WriteFails(new) /\ ~unsaved'
  <2>1. base' = base /\ disk' = new
    BY <1>2 DEF WriteFails, Fault
  <2>. QED  BY <2>1 DEF SettledDone, Waits, Done
<1>. QED  BY <1>1, <1>2

\* What was owed and in whose favour nothing changed still waits.
LEMMA OwedStay ==
  ASSUME OwedWaits, owed \subseteq Runs, owed' = owed,
         \A k \in ReportKeys : Waits(disk, k) => Waits(disk, k)'
  PROVE  OwedWaits'
BY DEF OwedWaits, ReportKeys, Kinds

LEMMA CountKeepsKept ==
  ASSUME OutboxConstants, MaxAge < Retention, Shape, CountInv, Keeping, NEW k \in ReportKeys,
         Count(k) \/ CountFails(k), ~unsaved'
  PROVE  Keeping'
<1>. DEFINE c == Counted(base, k)
            new == Committed(c)
<1>1. c \in AnyBase /\ c.floor = 0 /\ \A j \in ReportKeys : Settled(c, j) <=> Settled(base, j)
  BY CountedParts DEF Shape, DataShape, CountInv
<1>2. /\ Saved(new) \/ WriteFails(new)
      /\ sent' = sent /\ owed' = owed /\ step' # "ack"
  BY DEF Count, CountFails, StopPass, c, outboxHistory
<1>. HIDE DEF c
<1>3. \A j \in ReportKeys : Settled(base, j) => Done(disk, j)
  BY DEF Keeping, SettledDone
<1>4. /\ new \in AnyBase /\ Clean(new)
      /\ \A j \in ReportKeys : /\ Done(disk, j) => Done(new, j)
                               /\ Settled(new, j) => Done(new, j)
                               /\ Waits(disk, j) => Waits(new, j)
  BY <1>1, <1>3, CommitKeeps
<1>. HIDE DEF new
<1>5. SettledDone' /\ \A j \in ReportKeys : Waits(new, j) => Waits(disk, j)'
  BY <1>2, <1>3, <1>4, WriteKeeps DEF Shape
<1>6. OwedWaits'
  BY <1>2, <1>4, <1>5, OwedStay DEF Keeping, Shape, DataShape
<1>. QED  BY <1>2, <1>5, <1>6 DEF Keeping, AckedSent

LEMMA SendKeepsKept ==
  ASSUME OutboxConstants, Shape, Keeping, NEW k \in ReportKeys, Send(k)
  PROVE  Keeping'
<1>1. disk' = disk /\ base' = base /\ cur' = {k} /\ owed' = owed
  BY DEF Send, source
<1>2. \A j \in ReportKeys : sent[j] \in Nat /\ sent'[j] = IF j = k THEN sent[j] + 1 ELSE sent[j]
  BY DEF Send, Shape, DataShape
<1>3. sent'[k] > 0 /\ \A j \in ReportKeys : sent[j] > 0 => sent'[j] > 0
  BY <1>2
<1>4. \A j \in ReportKeys : Done(disk, j) => Done(disk, j)'
  BY <1>1, <1>3 DEF Done
<1>5. SettledDone'
  BY <1>1, <1>4 DEF Keeping, SettledDone
<1>6. OwedWaits'
  BY <1>1, <1>4, OwedStay DEF Keeping, Waits, Shape, DataShape
<1>. QED  BY <1>1, <1>3, <1>5, <1>6 DEF Keeping, AckedSent

LEMMA SendFailsKeepsKept ==
  ASSUME OutboxConstants, MaxAge < Retention, Shape, CountInv, Keeping, NEW k \in ReportKeys,
         SendFails(k), ~unsaved'
  PROVE  Keeping'
<1>. DEFINE u == Buried(base, k)
            new == Committed(u)
<1>1. /\ u \in AnyBase /\ u.floor = 0
      /\ \A j \in ReportKeys : Settled(u, j) => Settled(base, j) \/ j \in u.dead
  BY BuriedParts DEF Shape, DataShape, CountInv
<1>2. /\ base' = u /\ (disk' = new \/ Fault("unsaved"))
      /\ sent' = sent /\ owed' = owed /\ step' # "ack"
  BY DEF SendFails, StopPass, u, outboxHistory
<1>. HIDE DEF u
<1>3. disk' = new
  BY <1>2 DEF Fault
<1>4. \A j \in ReportKeys : Settled(u, j) => Done(disk, j) \/ Done(u, j)
  BY <1>1 DEF Keeping, SettledDone, Done
<1>5. /\ new \in AnyBase /\ new.dead = disk.dead \cup u.dead
      /\ \A j \in ReportKeys : /\ Done(disk, j) => Done(new, j)
                               /\ Settled(new, j) => Done(new, j)
                               /\ Waits(disk, j) => Waits(new, j)
  BY <1>1, <1>4, CommitKeeps, CommittedParts DEF Shape, DataShape
<1>. HIDE DEF new
<1>6. \A j \in ReportKeys : (Done(new, j) <=> Done(disk, j)') /\ (Waits(new, j) <=> Waits(disk, j)')
  BY <1>2, <1>3 DEF Done, Waits
<1>7. SettledDone'
  BY <1>2, <1>3, <1>4, <1>5, <1>6 DEF SettledDone, Done
<1>8. OwedWaits'
  BY <1>2, <1>5, <1>6, OwedStay DEF Keeping, Shape, DataShape
<1>. QED  BY <1>2, <1>7, <1>8 DEF Keeping, AckedSent

\* What is acknowledged was sent.
LEMMA AcknowledgeKeepsKept ==
  ASSUME OutboxConstants, Shape, CountInv, Keeping, NEW k \in ReportKeys,
         Acknowledge(k) \/ AcknowledgeFails(k), ~unsaved'
  PROVE  Keeping'
<1>. DEFINE new == Acknowledged(k)
<1>1. /\ new \in AnyBase /\ Clean(new) /\ new.dead = disk.dead \cup base.dead
      /\ \A j \in ReportKeys :
            /\ Settled(new, j) => Settled(disk, j) \/ Settled(base, j) \/ j = k
            /\ Attempts(new, j) = IF Settled(new, j) THEN -1 ELSE Larger(Attempts(disk, j), Attempts(base, j))
  BY AcknowledgedParts DEF Shape, DataShape, CountInv
<1>2. /\ Saved(new) \/ WriteFails(new)
      /\ sent' = sent /\ owed' = owed /\ step' # "ack"
      /\ step = "ack" /\ cur = {k}
  BY DEF Acknowledge, AcknowledgeFails, NextEvent, outboxHistory
<1>. HIDE DEF new
<1>3. sent[k] > 0
  BY <1>2 DEF Keeping, AckedSent
<1>4. \A j \in ReportKeys : Done(disk, j) => Done(new, j)
  BY <1>1 DEF Done
<1>5. \A j \in ReportKeys : (Settled(new, j) => Done(new, j)) /\ (Settled(base, j) => Done(new, j))
  BY <1>1, <1>3, <1>4 DEF Keeping, SettledDone, Done
<1>6. ASSUME NEW j \in ReportKeys, Waits(disk, j) PROVE Waits(new, j)
  <2>1. ASSUME InOutbox(disk, j), ~Settled(new, j) PROVE InOutbox(new, j)
    <3>1. Attempts(new, j) >= 0
      BY <1>1, <2>1, ShapeNumbers DEF Larger
    <3>. QED  BY <1>1, <3>1, InOutboxCounts
  <2>. QED  BY <1>4, <1>5, <1>6, <2>1 DEF Waits
<1>7. SettledDone' /\ \A j \in ReportKeys : Waits(new, j) => Waits(disk, j)'
  BY <1>1, <1>2, <1>5, WriteKeeps DEF Shape
<1>8. OwedWaits'
  BY <1>2, <1>6, <1>7, OwedStay DEF Keeping, Shape, DataShape
<1>. QED  BY <1>2, <1>7, <1>8 DEF Keeping, AckedSent

\* What a poll wants to report waits in the file it leaves, or is settled there.
LEMMA PollKeepsKept ==
  ASSUME OutboxConstants, MaxAge < Retention, Shape, CountInv, Keeping,
         NEW ci \in [Runs -> RunStates], NEW c \in BOOLEAN, NEW x \in BOOLEAN,
         Poll(ci, c, x) \/ (pc = "poll" /\ PollUnsaved(ci, c, x)), ~unsaved'
  PROVE  Keeping'
<1>. DEFINE u == Updated(ci, c, x)
            new == Committed(u)
<1>1. /\ u \in AnyBase /\ u.floor = 0
      /\ \A j \in ReportKeys : /\ Settled(u, j) <=> Settled(base, j)
                               /\ j \in Events(ci) => Attempts(u, j) >= 0 \/ Settled(base, j)
  BY UpdatedParts DEF Shape, DataShape, CountInv
<1>2. /\ Saved(new) \/ WriteFails(new)
      /\ sent' = sent /\ owed' = owed \cup Wanted(ci) /\ step' # "ack"
  <2>1. pc = "poll" => step = "next"
    BY DEF Shape, ControlShape, Delivering
  <2>. QED  BY <2>1 DEF Poll, PollUnsaved, u
<1>. HIDE DEF u
<1>3. \A j \in ReportKeys : Settled(base, j) => Done(disk, j)
  BY DEF Keeping, SettledDone
<1>4. /\ new \in AnyBase /\ Clean(new)
      /\ \A j \in ReportKeys : /\ Done(disk, j) => Done(new, j)
                               /\ Settled(new, j) => Done(new, j)
                               /\ Waits(disk, j) \/ Attempts(u, j) >= 0 => Waits(new, j)
  BY <1>1, <1>3, CommitKeeps
<1>. HIDE DEF new
<1>5. SettledDone' /\ \A j \in ReportKeys : Waits(new, j) => Waits(disk, j)'
  BY <1>2, <1>3, <1>4, WriteKeeps DEF Shape
<1>6. ASSUME NEW r \in owed' PROVE Waits(disk, <<r, "done">>)'
  <2>1. r \in owed \/ r \in Wanted(ci)
    BY <1>2
  <2>2. CASE r \in owed
    <3>1. <<r, "done">> \in ReportKeys
      BY <2>2 DEF Shape, DataShape, ReportKeys, Kinds
    <3>2. Waits(disk, <<r, "done">>)
      BY <2>2 DEF Keeping, OwedWaits
    <3>. QED  BY <1>4, <1>5, <3>1, <3>2
  <2>3. CASE r \in Wanted(ci)
    <3>1. PICK e \in Events(ci) : e[2] = "done" /\ r = e[1]
      BY <2>3 DEF Wanted
    <3>2. e \in ReportKeys /\ e = <<r, "done">>
      BY <3>1, EventsParts DEF ReportKeys
    <3>3. Attempts(u, e) >= 0 \/ Done(new, e)
      BY <1>1, <1>3, <1>4, <3>1, <3>2
    <3>4. Waits(new, e)
      BY <1>4, <3>2, <3>3 DEF Waits
    <3>. QED  BY <1>5, <3>2, <3>4
  <2>. QED  BY <2>1, <2>2, <2>3
<1>. QED  BY <1>2, <1>5, <1>6 DEF Keeping, AckedSent, OwedWaits

\* A restart knows what the file knows; time takes nothing away.
LEMMA DiesKeepsKept ==
  ASSUME OutboxConstants, Shape, Keeping, DaemonDies
  PROVE  Keeping'
<1>1. /\ disk' = disk /\ sent' = sent /\ owed' = owed /\ step' # "ack"
      /\ \A j \in ReportKeys : Settled(base', j) <=> Settled(disk, j)
  BY NormalClean DEF DaemonDies, outboxHistory, Shape, DataShape
<1>. QED  BY <1>1 DEF Keeping, SettledDone, AckedSent, OwedWaits, Done, Waits

LEMMA HourKeepsKept ==
  ASSUME OutboxConstants, Shape, Keeping, Hour
  PROVE  Keeping'
<1>1. disk' = AgedBase(disk) /\ base' = AgedBase(base) /\ step' = step /\ cur' = cur /\ sent' = sent /\ owed' = owed
  BY DEF Hour, outboxHistory
<1>2. /\ disk' \in AnyBase /\ disk'.dead = disk.dead
      /\ \A j \in ReportKeys : /\ Settled(disk', j) <=> Settled(disk, j)
                               /\ Attempts(disk', j) = Attempts(disk, j)
                               /\ Settled(base', j) <=> Settled(base, j)
  BY <1>1, AgedParts DEF Shape, DataShape
<1>3. \A j \in ReportKeys : InOutbox(disk', j) <=> InOutbox(disk, j)
  BY <1>2, InOutboxCounts DEF Shape, DataShape
<1>4. \A j \in ReportKeys : (Done(disk, j)' <=> Done(disk, j)) /\ (Waits(disk, j)' <=> Waits(disk, j))
  BY <1>1, <1>2, <1>3 DEF Done, Waits
<1>5. SettledDone'
  BY <1>2, <1>4 DEF Keeping, SettledDone
<1>6. OwedWaits'
  BY <1>1, <1>4, OwedStay DEF Keeping, Shape, DataShape
<1>. QED  BY <1>1, <1>5, <1>6 DEF Keeping, AckedSent

LEMMA RestKeepsKept ==
  ASSUME OutboxConstants, Shape, Keeping,
         StartPoll \/ PassOver \/ Close \/ (\E r \in Runs : RunMoves(r)) \/ UNCHANGED outboxVars
  PROVE  Keeping'
<1>1. /\ disk' = disk /\ base' = base /\ sent' = sent /\ owed' = owed
      /\ (cur' = cur /\ step' = step) \/ step' = "next"
  BY DEF StartPoll, PassOver, StopPass, Close, RunMoves, outboxVars, source, control, outboxHistory
<1>. QED  BY <1>1 DEF Keeping, SettledDone, AckedSent, OwedWaits, Done, Waits

LEMMA KeepStep ==
  ASSUME OutboxConstants, MaxAge < Retention, Shape, CountInv, unsaved \in BOOLEAN, KeepInv,
         [OutboxNext]_outboxVars
  PROVE  KeepInv'
<1>. SUFFICES ASSUME ~unsaved' PROVE Keeping'
  BY DEF KeepInv
<1>1. Keeping
  BY UnsavedStays DEF KeepInv
<1>2. CASE StartPoll \/ PassOver \/ Close \/ (\E r \in Runs : RunMoves(r)) \/ UNCHANGED outboxVars
  BY <1>1, <1>2, RestKeepsKept
<1>3. CASE PollAll \/ PollPartial \/ PollFailed
  BY <1>1, <1>3, PollSteps, PollKeepsKept DEF Shape
<1>4. CASE PollUnsavedAll
  BY <1>1, <1>4, FetchedParts, PollKeepsKept DEF PollUnsavedAll, Shape
<1>5. ASSUME NEW k \in ReportKeys,
             Count(k) \/ CountFails(k) \/ Send(k) \/ SendFails(k) \/ Acknowledge(k) \/ AcknowledgeFails(k)
      PROVE  Keeping'
  BY <1>1, <1>5, CountKeepsKept, SendKeepsKept, SendFailsKeepsKept, AcknowledgeKeepsKept
<1>6. CASE DaemonDies
  BY <1>1, <1>6, DiesKeepsKept
<1>7. CASE Hour
  BY <1>1, <1>7, HourKeepsKept
<1>. QED  BY <1>2, <1>3, <1>4, <1>5, <1>6, <1>7 DEF OutboxNext, Deliver

LEMMA KeepInit ==
  ASSUME OutboxConstants, OutboxInit
  PROVE  KeepInv
<1>1. /\ disk = EmptyBase /\ base = EmptyBase /\ step = "next" /\ owed = {}
  BY DEF OutboxInit
<1>. QED  BY <1>1, EmptyIsClean DEF KeepInv, Keeping, SettledDone, AckedSent, OwedWaits

\* A base whose attempts are within the bound is one of the type of the run.
LEMMA BoundedBase ==
  ASSUME OutboxConstants, Shape, NEW b \in AnyBase,
         \A k \in ReportKeys : Attempts(b, k) <= MaxTries + faults
  PROVE  b \in Base
<1>1. ASSUME NEW k \in ReportKeys
      PROVE  b.pending[k] \in Entry
  <2>1. MaxTries \in Nat /\ faults \in Nat /\ faults <= MaxFaults /\ MaxFaults \in Nat
    BY ShapeNumbers
  <2>2. b.pending[k] \in [tries : Nat \cup {-1}, last : Times]
    BY DEF AnyBase, AnyEntry, Waiting, NotPending, Times
  <2>3. b.pending[k].tries <= MaxTries + faults
    BY DEF Attempts
  <2>4. b.pending[k].tries \in -1..(MaxTries + MaxFaults)
    BY <2>1, <2>2, <2>3
  <2>. QED  BY <2>2, <2>4 DEF Entry, Times
<1>2. b.pending \in [ReportKeys -> Entry]
  BY <1>1, BaseParts
<1>. QED  BY <1>2, BaseParts DEF Base, AnyBase, Times

\* While no acknowledgement is dropped, every state is of its type, no event is
\* sent more often than the outbox allows, and every send was counted in the file
\* before it was made, however writes fail and the daemon dies.
THEOREM OutboxAlwaysSound == OutboxConstants /\ MaxAge < Retention => (OutboxSpec => []OutboxInv)
<1>. SUFFICES ASSUME OutboxConstants, MaxAge < Retention PROVE OutboxSpec => []OutboxInv
  OBVIOUS
<1>. DEFINE IInv == Shape /\ CountInv /\ unsaved \in BOOLEAN
<1>1. OutboxInit => IInv
  BY ShapeInit, CountInit DEF OutboxInit
<1>2. IInv /\ [OutboxNext]_outboxVars => IInv'
  BY ShapeStep, CountStep, UnsavedStays
<1>3. IInv => OutboxInv
  <2>. SUFFICES ASSUME Shape, CountInv, unsaved \in BOOLEAN PROVE OutboxInv
    OBVIOUS
  <2>1. disk \in Base /\ base \in Base
    BY BoundedBase DEF Shape, DataShape, CountInv, Counting, Booked
  <2>2. OutboxTypeOK
    BY <2>1 DEF Shape, DataShape, ControlShape, Clean, OutboxTypeOK
  <2>3. SendsBounded
    BY ShapeNumbers DEF CountInv, Counting, Booked, SendsBounded, Attempts
  <2>. QED  BY <2>2, <2>3 DEF OutboxInv
<1>. QED  BY <1>1, <1>2, <1>3, PTL DEF OutboxSpec
\* While no acknowledgement is dropped and until a write of the file fails and leaves
\* the old one, a finished run that a poll wanted to report is not lost, whatever else
\* fails: it was sent, it waits in the file, or it is a dead letter there.
THEOREM NothingIsLost == OutboxConstants /\ MaxAge < Retention => (OutboxSpec => []ReportsKept)
<1>. SUFFICES ASSUME OutboxConstants, MaxAge < Retention PROVE OutboxSpec => []ReportsKept
  OBVIOUS
<1>. DEFINE IInv == Shape /\ CountInv /\ unsaved \in BOOLEAN /\ KeepInv
<1>1. OutboxInit => IInv
  BY ShapeInit, CountInit, KeepInit DEF OutboxInit
<1>2. IInv /\ [OutboxNext]_outboxVars => IInv'
  BY ShapeStep, CountStep, UnsavedStays, KeepStep
<1>3. IInv => ReportsKept
  BY DEF KeepInv, Keeping, OwedWaits, Waits, Done, ReportsKept, Accounted
<1>. QED  BY <1>1, <1>2, <1>3, PTL DEF OutboxSpec
=============================================================================
