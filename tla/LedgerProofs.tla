----------------------------- MODULE LedgerProofs -----------------------------
(***************************************************************************)
(* The event ledger (EventLedger), when appends do not tear.  That what    *)
(* the ledger owes is on record (LedgerInv) is not inductive: a segment is *)
(* rewritten from memory, and memory is rebuilt from the disk.  The        *)
(* invariant says where each owed key is, between any two steps of a       *)
(* compaction: in a shard written since it was accepted, or in its segment *)
(* and, while the daemon runs, in memory as well (OwedIsKept); and that a  *)
(* pass has its selection in shards of today before it rewrites a segment  *)
(* (JobSound).                                                             *)
(*                                                                         *)
(* The event bridge (EventBridge), which feeds the ledger, has its own     *)
(* invariant (BridgeIInv) further down.                                    *)
(***************************************************************************)
EXTENDS EventLedger, EventBridge, FiniteSetTheorems, WellFoundedInduction, TLAPS

\* A shard has the key that was written since it was accepted, so that it is not
\* pruned while the ledger owes the key.
Summed(k) == \E s \in shards : k \in s.keys /\ acceptedOn[k] <= s.at

\* The key is in its segment, and a running daemon has that record in memory, so
\* that the segment is not rewritten without it.
Raw(k) == IF up THEN \E r \in mem : r.key = k /\ k \in seg[r.ts].keys ELSE \E d \in Days : k \in seg[d].keys

OwedIsKept ==
  \A k \in Keys : Owed(k) => (Summed(k) \/ Raw(k)) /\ (up => k \in dedupe)

\* What a pass has taken is in a shard it has written today, or still to write.
SummedToday(k) == \E s \in shards : k \in s.keys /\ s.at = day
JobSound ==
  /\ job.pc = "shards" => \A r \in job.ids : SummedToday(r.key) \/ \E s \in job.shards : r.key \in s.keys
  /\ job.pc = "segments" => \A r \in job.ids : SummedToday(r.key)
  /\ job.pc = "shards" => job.days # {}
  /\ \A s \in job.shards : Cardinality(s.keys) \in 1..ShardSize

Readables == \A d \in Days : seg[d].tail = NoKey /\ ~seg[d].bad
InTime == (\A k \in Keys : acceptedOn[k] <= day) /\ \A s \in shards : s.at <= day

LedgerIInv == TypeOK /\ Readables /\ InTime /\ JobSound /\ (twice => capped) /\ (capped \/ OwedIsKept)

-----------------------------------------------------------------------------
(* Finite sets, minima and the selections of a load.                         *)

LEMMA LedgerLimits ==
  /\ IsFiniteSet(Keys)
  /\ MaxDay \in Nat /\ MaxFaults \in Nat
  /\ RawDays \in Nat \ {0} /\ SummaryDays \in Nat \ {0} /\ MaxRecords \in Nat \ {0}
  /\ MaxPerPass \in Nat \ {0} /\ ShardSize \in Nat \ {0}
  /\ NoKey \notin Keys /\ Part \notin Keys /\ NoKey # Part
BY LedgerConstants DEF LedgerConstants, NoKey, Part

LEMMA RecordsFinite == IsFiniteSet(Record)
<1>1. IsFiniteSet(Days)
  BY LedgerLimits, FS_Interval DEF Days
<1>2. IsFiniteSet(Keys \X Days)
  BY <1>1, LedgerLimits, FS_Product
<1> DEFINE f == [p \in Keys \X Days |-> [key |-> p[1], ts |-> p[2]]]
<1>3. f \in Surjection(Keys \X Days, Record)
  <2>1. f \in [Keys \X Days -> Record]
    BY DEF Record
  <2>2. \A r \in Record : \E p \in Keys \X Days : f[p] = r
    <3> SUFFICES ASSUME NEW r \in Record  PROVE \E p \in Keys \X Days : f[p] = r
      OBVIOUS
    <3>1. <<r.key, r.ts>> \in Keys \X Days /\ f[<<r.key, r.ts>>] = r
      BY DEF Record
    <3> QED
      BY <3>1
  <2> QED
    BY <2>1, <2>2 DEF Surjection
<1> QED
  BY <1>2, <1>3, FS_Surjection

LEMMA Earliest ==
  ASSUME NEW T \in SUBSET Nat, T # {}
  PROVE  \E t \in T : \A u \in T : t <= u
<1>1. PICK t \in T : \A u \in T : ~ (<<u, t>> \in OpToRel(<, Nat))
  BY NatLessThanWellFounded, WFMin
<1>2. ASSUME NEW u \in T  PROVE t <= u
  <2>1. u \in Nat /\ t \in Nat
    OBVIOUS
  <2>2. <<u, t>> \in Nat \X Nat /\ <<u, t>>[1] = u /\ <<u, t>>[2] = t
    BY <2>1
  <2>3. ~(u < t)
    BY <1>1, <2>1, <2>2 DEF OpToRel
  <2> QED
    BY <2>1, <2>3
<1> QED
  BY <1>2

\* The first record of each key that is retained is in memory, and no other.
LEMMA FirstRecords ==
  ASSUME NEW kept \in SUBSET Record
  PROVE  /\ FirstOfKey(kept) \subseteq kept
         /\ \A r, o \in FirstOfKey(kept) : r.key = o.key => r = o
         /\ KeysIn(FirstOfKey(kept)) = KeysIn(kept)
<1>1. FirstOfKey(kept) \subseteq kept
  BY DEF FirstOfKey
<1>2. ASSUME NEW r \in FirstOfKey(kept), NEW o \in FirstOfKey(kept), r.key = o.key  PROVE r = o
  <2>1. r \in Record /\ o \in Record /\ r.ts <= o.ts /\ o.ts <= r.ts
    BY <1>2 DEF FirstOfKey
  <2>2. r.ts = o.ts
    BY <2>1, LedgerLimits DEF Record, Days
  <2> QED
    BY <1>2, <2>1, <2>2 DEF Record
<1>3. ASSUME NEW r \in kept  PROVE \E o \in FirstOfKey(kept) : o.key = r.key
  <2> DEFINE times == {o.ts : o \in {q \in kept : q.key = r.key}}
  <2>1. times \subseteq Nat /\ times # {}
    BY <1>3, LedgerLimits DEF Record, Days
  <2>2. PICK t \in times : \A u \in times : t <= u
    BY <2>1, Earliest
  <2>3. PICK o \in kept : o.key = r.key /\ o.ts = t
    BY <2>2
  <2>4. o \in FirstOfKey(kept)
    BY <2>2, <2>3 DEF FirstOfKey
  <2> QED
    BY <2>3, <2>4
<1> QED
  BY <1>1, <1>2, <1>3 DEF KeysIn

\* What a load makes of the disk; below the cap, all of it.
LEMMA Loaded ==
  ASSUME seg \in [Days -> Segment], Readables, capped \in BOOLEAN,
         NEW sums \in SUBSET shards, shards \subseteq Shard, Load(sums)
  PROVE  /\ mem' \subseteq Record /\ Cardinality(mem') <= MaxRecords
         /\ \A r, o \in mem' : r.key = o.key => r = o
         /\ dedupe' \subseteq Keys /\ KeysIn(mem') \subseteq dedupe'
         /\ capped' \in BOOLEAN /\ (capped => capped')
         /\ ~capped' =>
              /\ \A d \in Days : \A k \in seg[d].keys :
                   /\ k \in dedupe'
                   /\ \E r \in mem' : r.key = k /\ k \in seg[r.ts].keys
              /\ KeysOf(sums) \subseteq dedupe'
<1>1. PICK kept \in Retained :
        /\ mem' = FirstOfKey(kept)
        /\ dedupe' \in Histories(KeysIn(kept), sums)
        /\ capped' = (capped \/ kept # OnDisk \/ dedupe' # KeysIn(kept) \cup KeysOf(sums))
  BY DEF Load
<1>2. OnDisk \subseteq Record /\ kept \subseteq OnDisk /\ kept \subseteq Record
  BY DEF Retained, OnDisk
<1>3. IsFiniteSet(OnDisk) /\ IsFiniteSet(kept)
  BY <1>2, RecordsFinite, FS_Subset
<1>4. Cardinality(kept) <= MaxRecords
  <2>1. Cardinality(kept) = AtMost(Cardinality(OnDisk), MaxRecords) /\ Cardinality(OnDisk) \in Nat
    BY <1>3, FS_CardinalityType DEF Retained
  <2> QED
    BY <2>1, LedgerLimits DEF AtMost
<1>5. Cardinality(mem') <= MaxRecords
  <2>1. IsFiniteSet(mem') /\ Cardinality(mem') <= Cardinality(kept)
    BY <1>1, <1>2, <1>3, FirstRecords, FS_Subset
  <2>2. Cardinality(mem') \in Nat /\ Cardinality(kept) \in Nat
    BY <1>3, <2>1, FS_CardinalityType
  <2> QED
    BY <1>4, <2>1, <2>2, LedgerLimits
<1>6. /\ KeysIn(mem') = KeysIn(kept) /\ KeysIn(kept) \subseteq Keys
      /\ dedupe' \subseteq KeysIn(kept) \cup KeysOf(sums) /\ KeysIn(kept) \subseteq dedupe'
      /\ KeysOf(sums) \subseteq Keys
  <2>1. KeysIn(mem') = KeysIn(kept)
    BY <1>1, <1>2, FirstRecords
  <2>2. KeysIn(kept) \subseteq Keys
    BY <1>2 DEF KeysIn, Record
  <2>3. KeysOf(sums) \subseteq Keys
    BY DEF KeysOf, Shard
  <2> QED
    BY <1>1, <2>1, <2>2, <2>3 DEF Histories
<1>7. ASSUME ~capped', NEW d \in Days, NEW k \in seg[d].keys
      PROVE  k \in dedupe' /\ \E r \in mem' : r.key = k /\ k \in seg[r.ts].keys
  <2>1. k \in Keys /\ kept = OnDisk
    BY <1>1, <1>7 DEF Segment
  <2>2. [key |-> k, ts |-> d] \in kept
    BY <1>7, <2>1 DEF OnDisk, Record, Readable
  <2>3. k \in KeysIn(kept)
    BY <2>2 DEF KeysIn
  <2>4. PICK r \in mem' : r.key = k
    BY <1>6, <2>3 DEF KeysIn
  <2>5. r \in OnDisk
    BY <1>1, <1>2, <2>1, <2>4, FirstRecords
  <2>6. r.ts \in Days /\ r.key \in Readable(seg[r.ts])
    BY <2>5 DEF OnDisk, Record
  <2>7. r.key \in seg[r.ts].keys
    BY <2>6 DEF Readable, Readables
  <2> QED
    BY <1>6, <2>3, <2>4, <2>7
<1>8. ~capped' => KeysOf(sums) \subseteq dedupe'
  BY <1>1
<1>9. capped' \in BOOLEAN /\ (capped => capped')
  BY <1>1
<1>10. mem' \subseteq Record /\ \A r, o \in mem' : r.key = o.key => r = o
  BY <1>1, <1>2, FirstRecords
<1> QED
  BY <1>5, <1>6, <1>7, <1>8, <1>9, <1>10

-----------------------------------------------------------------------------
(* The steps.                                                                *)

\* A line goes to the end of a segment that was read whole.
LEMMA AppendedLine ==
  ASSUME NEW s \in Segment, s.tail = NoKey, ~s.bad, NEW k \in Keys
  PROVE  /\ WithLine(s, k) \in Segment
         /\ WithLine(s, k).keys = s.keys \cup {k}
         /\ WithLine(s, k).tail = NoKey /\ ~WithLine(s, k).bad
         /\ ~Torn => AfterFailure(s, k) = {s, WithLine(s, k)}
<1>1. WithLine(s, k) = [keys |-> s.keys \cup {k}, tail |-> NoKey, bad |-> FALSE]
  BY DEF WithLine, Segment
<1>2. ~Torn => AfterFailure(s, k) = {s, WithLine(s, k)}
  BY DEF AfterFailure
<1> QED
  BY <1>1, <1>2 DEF Segment

\* Where a key is that was there, when segments only grow and memory, the shards
\* and the books stay.
LEMMA StillKept ==
  ASSUME LedgerIInv, NEW k \in Keys, ~capped, Owed(k),
         \A d \in Days : seg[d].keys \subseteq seg'[d].keys,
         mem \subseteq mem', dedupe \subseteq dedupe', shards' = shards, up' = up,
         acceptedOn'[k] = acceptedOn[k]
  PROVE  (Summed(k) \/ Raw(k))' /\ (up' => k \in dedupe')
<1>1. (Summed(k) \/ Raw(k)) /\ (up => k \in dedupe) /\ mem \subseteq Record
  BY DEF LedgerIInv, OwedIsKept, TypeOK
<1>2. Summed(k) => Summed(k)'
  BY DEF Summed
<1>3. \A r \in mem : r.ts \in Days
  BY <1>1 DEF Record
<1>4. Raw(k) => Raw(k)'
  BY <1>3 DEF Raw
<1> QED
  BY <1>1, <1>2, <1>4

LEMMA AppendStep ==
  ASSUME LedgerIInv, NEW k \in Keys, NEW ts \in 0..day, AppendRecord(k, ts)
  PROVE  LedgerIInv'
<1> USE LedgerLimits
<1> DEFINE new == [key |-> k, ts |-> ts]
<1>1. /\ ts \in Days /\ day \in Days /\ seg \in [Days -> Segment] /\ new \in Record
      /\ mem \subseteq Record /\ k \notin dedupe /\ IsFiniteSet(mem)
      /\ acceptedOn \in [Keys -> Days \cup {-1}] /\ dedupe \subseteq Keys
      /\ KeysIn(mem) \subseteq dedupe
  <2>1. /\ day \in Days /\ seg \in [Days -> Segment] /\ mem \subseteq Record /\ k \notin dedupe
        /\ acceptedOn \in [Keys -> Days \cup {-1}] /\ dedupe \subseteq Keys /\ KeysIn(mem) \subseteq dedupe
    BY DEF AppendRecord, Known, LedgerIInv, TypeOK
  <2>2. ts \in Days
    BY <2>1 DEF Days
  <2> QED
    BY <2>1, <2>2, RecordsFinite, FS_Subset DEF Record
<1>2. /\ seg' = [seg EXCEPT ![ts] = WithLine(seg[ts], k)] /\ mem' = mem \cup {new}
      /\ dedupe' = dedupe \cup {k} /\ twice' = (twice \/ Owed(k))
      /\ acceptedOn' = [acceptedOn EXCEPT ![k] = day]
      /\ shards' = shards /\ job' = job /\ day' = day /\ lastRun' = lastRun /\ up' = up
      /\ faults' = faults /\ capped' = capped /\ up /\ job.pc = "idle"
  BY DEF AppendRecord, Idle
<1>3. /\ WithLine(seg[ts], k) \in Segment
      /\ WithLine(seg[ts], k).keys = seg[ts].keys \cup {k}
      /\ WithLine(seg[ts], k).tail = NoKey /\ ~WithLine(seg[ts], k).bad
  BY <1>1, AppendedLine DEF LedgerIInv, Readables
<1>4. /\ seg' \in [Days -> Segment] /\ seg'[ts].keys = seg[ts].keys \cup {k}
      /\ \A d \in Days : seg'[d] = IF d = ts THEN WithLine(seg[ts], k) ELSE seg[d]
  BY <1>1, <1>2, <1>3
<1>5. mem' \subseteq Record /\ Cardinality(mem') <= MaxRecords
  <2>1. Cardinality(mem) < MaxRecords /\ Cardinality(mem) \in Nat
    BY <1>1, FS_CardinalityType DEF AppendRecord
  <2>2. Cardinality(mem') <= Cardinality(mem) + 1 /\ Cardinality(mem') \in Nat
    <3> HIDE DEF new
    <3>1. Cardinality(mem \cup {new}) = IF new \in mem THEN Cardinality(mem) ELSE Cardinality(mem) + 1
      BY <1>1, FS_AddElement
    <3> QED
      BY <1>2, <2>1, <3>1
  <2> QED
    BY <1>1, <1>2, <2>1, <2>2
<1>6. (\A r, o \in mem' : r.key = o.key => r = o) /\ KeysIn(mem') \subseteq dedupe'
  <2>1. \A r \in mem : r.key # k
    BY <1>1 DEF KeysIn
  <2> QED
    BY <1>1, <1>2, <2>1 DEF KeysIn, LedgerIInv, TypeOK
<1>7. acceptedOn' \in [Keys -> Days \cup {-1}] /\ twice' \in BOOLEAN
  BY <1>1, <1>2 DEF LedgerIInv, TypeOK
<1>8. TypeOK'
  BY <1>1, <1>2, <1>4, <1>5, <1>6, <1>7 DEF LedgerIInv, TypeOK
<1>9. Readables'
  BY <1>3, <1>4 DEF LedgerIInv, Readables
<1>10. InTime'
  BY <1>1, <1>2 DEF LedgerIInv, InTime, Days
<1>11. JobSound'
  BY <1>2 DEF LedgerIInv, JobSound, SummedToday
<1>12. twice' => capped'
  BY <1>1, <1>2 DEF LedgerIInv, OwedIsKept
<1>13. ASSUME ~capped', NEW j \in Keys, Owed(j)'  PROVE (Summed(j) \/ Raw(j))' /\ (up' => j \in dedupe')
  <2>1. CASE j = k
    <3>1. new \in mem' /\ new.key = k /\ k \in seg'[new.ts].keys
      BY <1>2, <1>4
    <3> QED
      BY <1>2, <2>1, <3>1 DEF Raw
  <2>2. CASE j # k
    <3>1. acceptedOn'[j] = acceptedOn[j] /\ Owed(j)
      BY <1>1, <1>2, <1>13, <2>2 DEF Owed
    <3>2. \A d \in Days : seg[d].keys \subseteq seg'[d].keys
      BY <1>3, <1>4
    <3> QED
      BY <1>2, <1>13, <3>1, <3>2, StillKept
  <2> QED
    BY <2>1, <2>2
<1> QED
  BY <1>8, <1>9, <1>10, <1>11, <1>12, <1>13 DEF LedgerIInv, OwedIsKept

LEMMA AppendFailsStep ==
  ASSUME ~Torn, LedgerIInv, NEW k \in Keys, NEW ts \in 0..day, AppendFails(k, ts)
  PROVE  LedgerIInv'
<1> USE LedgerLimits
<1>1. ts \in Days /\ day \in Days /\ seg \in [Days -> Segment] /\ faults \in 0..MaxFaults
  BY DEF LedgerIInv, TypeOK, Days
<1>2. PICK s \in AfterFailure(seg[ts], k) : seg' = [seg EXCEPT ![ts] = s]
  BY DEF AppendFails
<1>3. /\ s \in Segment /\ seg[ts].keys \subseteq s.keys /\ s.tail = NoKey /\ ~s.bad
  BY <1>1, <1>2, AppendedLine DEF LedgerIInv, Readables
<1>4. /\ seg' \in [Days -> Segment] /\ \A d \in Days : seg[d].keys \subseteq seg'[d].keys
      /\ \A d \in Days : seg'[d].tail = NoKey /\ ~seg'[d].bad
  BY <1>1, <1>2, <1>3 DEF LedgerIInv, Readables
<1>5. /\ shards' = shards /\ mem' = mem /\ dedupe' = dedupe /\ job' = job /\ day' = day
      /\ lastRun' = lastRun /\ up' = up /\ acceptedOn' = acceptedOn /\ twice' = twice
      /\ capped' = capped /\ faults' \in 0..MaxFaults
  BY <1>1 DEF AppendFails, memory, history, Fault
<1>6. TypeOK'
  BY <1>4, <1>5 DEF LedgerIInv, TypeOK, KeysIn
<1>7. Readables' /\ InTime' /\ JobSound'
  BY <1>4, <1>5 DEF LedgerIInv, Readables, InTime, JobSound, SummedToday
<1>8. ASSUME ~capped', NEW j \in Keys, Owed(j)'  PROVE (Summed(j) \/ Raw(j))' /\ (up' => j \in dedupe')
  <2>1. Owed(j)
    BY <1>5, <1>8 DEF Owed
  <2> QED
    BY <1>4, <1>5, <1>8, <2>1, StillKept
<1> QED
  BY <1>5, <1>6, <1>7, <1>8 DEF LedgerIInv, OwedIsKept

LEMMA CrashStep ==
  ASSUME LedgerIInv, Crash
  PROVE  LedgerIInv'
<1> USE LedgerLimits
<1>1. /\ seg' = seg /\ shards' = shards /\ mem' = {} /\ dedupe' = {} /\ job' = NoJob /\ up' = FALSE /\ up
      /\ day' = day /\ lastRun' = lastRun /\ acceptedOn' = acceptedOn /\ twice' = twice
      /\ capped' = capped /\ faults' \in 0..MaxFaults
  BY DEF Crash, disk, history, Fault, LedgerIInv, TypeOK
<1>2. Cardinality({}) <= MaxRecords
  BY FS_EmptySet
<1>3. TypeOK'
  BY <1>1, <1>2 DEF LedgerIInv, TypeOK, KeysIn, NoJob, Job
<1>4. Readables' /\ InTime' /\ JobSound'
  BY <1>1 DEF LedgerIInv, Readables, InTime, JobSound, NoJob
<1>5. ASSUME ~capped', NEW j \in Keys, Owed(j)'  PROVE (Summed(j) \/ Raw(j))'
  <2>1. (Summed(j) \/ Raw(j)) /\ \A r \in mem : r.ts \in Days
    BY <1>1, <1>5 DEF LedgerIInv, OwedIsKept, Owed, TypeOK, Record
  <2> QED
    BY <1>1, <2>1 DEF Summed, Raw
<1> QED
  BY <1>1, <1>3, <1>4, <1>5 DEF LedgerIInv, OwedIsKept

LEMMA OpenStep ==
  ASSUME LedgerIInv, Open
  PROVE  LedgerIInv'
<1> USE LedgerLimits
<1>1. /\ seg' = seg /\ shards' = shards /\ job' = job /\ up' = TRUE /\ ~up /\ job = NoJob
      /\ day' = day /\ lastRun' = -1 /\ acceptedOn' = acceptedOn /\ twice' = twice
      /\ faults' = faults /\ Load(shards)
  BY DEF Open, disk, history, LedgerIInv, TypeOK
<1>2. /\ mem' \subseteq Record /\ Cardinality(mem') <= MaxRecords
      /\ \A r, o \in mem' : r.key = o.key => r = o
      /\ dedupe' \subseteq Keys /\ KeysIn(mem') \subseteq dedupe'
      /\ capped' \in BOOLEAN /\ (capped => capped')
      /\ ~capped' =>
           /\ \A d \in Days : \A k \in seg[d].keys :
                /\ k \in dedupe'
                /\ \E r \in mem' : r.key = k /\ k \in seg[r.ts].keys
           /\ KeysOf(shards) \subseteq dedupe'
  BY <1>1, Loaded DEF LedgerIInv, TypeOK
<1>3. TypeOK'
  BY <1>1, <1>2 DEF LedgerIInv, TypeOK, KeysIn
<1>4. Readables' /\ InTime' /\ JobSound'
  BY <1>1 DEF LedgerIInv, Readables, InTime, JobSound, NoJob
<1>5. ASSUME ~capped', NEW j \in Keys, Owed(j)'  PROVE (Summed(j) \/ Raw(j))' /\ j \in dedupe'
  <2>1. Summed(j) \/ \E d \in Days : j \in seg[d].keys
    BY <1>1, <1>2, <1>5 DEF LedgerIInv, OwedIsKept, Owed, Raw
  <2>2. CASE Summed(j)
    BY <1>1, <1>2, <1>5, <2>2 DEF Summed, KeysOf
  <2>3. CASE \E d \in Days : j \in seg[d].keys
    BY <1>1, <1>2, <1>5, <2>3 DEF Raw
  <2> QED
    BY <2>1, <2>2, <2>3
<1> QED
  BY <1>1, <1>2, <1>3, <1>4, <1>5 DEF LedgerIInv, OwedIsKept

LEMMA CompactStep ==
  ASSUME LedgerIInv, Compact
  PROVE  LedgerIInv'
<1> USE LedgerLimits
<1>1. /\ seg' = seg /\ shards' = shards /\ mem' = mem /\ dedupe' = dedupe /\ up' = up /\ up
      /\ day' = day /\ lastRun' = day /\ acceptedOn' = acceptedOn /\ twice' = twice
      /\ faults' = faults /\ capped' = capped /\ mem \subseteq Record
  BY DEF Compact, Idle, disk, memory, history, LedgerIInv, TypeOK
<1>2. PICK sel \in Selections : \E sums \in Groupings(sel) :
        job' = [pc |-> IF sel = {} THEN "prune" ELSE "shards",
                shards |-> sums, ids |-> sel, days |-> {r.ts : r \in sel}]
  BY DEF Compact
<1>3. PICK sums \in Groupings(sel) :
        job' = [pc |-> IF sel = {} THEN "prune" ELSE "shards",
                shards |-> sums, ids |-> sel, days |-> {r.ts : r \in sel}]
  BY <1>2
<1>4. sel \subseteq mem /\ sel \subseteq Record /\ SumsUp(sums, sel)
  BY <1>1, <1>2, <1>3 DEF Selections, Old, Groupings
<1>5. sums \in SUBSET Summary
  BY <1>3, <1>4 DEF Groupings, Summary, KeysIn, Record
<1>6. \A s \in sums : Cardinality(s.keys) \in 1..ShardSize
  <2> SUFFICES ASSUME NEW s \in sums  PROVE Cardinality(s.keys) \in 1..ShardSize
    OBVIOUS
  <2>1. s.keys \subseteq Keys /\ s.keys # {} /\ Cardinality(s.keys) <= ShardSize
    BY <1>4, <1>5 DEF SumsUp, Summary
  <2>2. IsFiniteSet(s.keys)
    BY <2>1, FS_Subset
  <2>3. Cardinality(s.keys) \in Nat /\ Cardinality(s.keys) # 0
    BY <2>1, <2>2, FS_CardinalityType, FS_EmptySet
  <2> QED
    BY <2>1, <2>3
<1>7. {r.ts : r \in sel} \subseteq Days
  BY <1>4 DEF Record
<1>8. job' \in Job
  BY <1>3, <1>4, <1>5, <1>7 DEF Job
<1>9. sel # {} => sums # {} /\ {r.ts : r \in sel} # {}
  BY <1>4 DEF SumsUp
<1>10. TypeOK'
  BY <1>1, <1>3, <1>8, <1>9 DEF LedgerIInv, TypeOK, KeysIn
<1>11. JobSound'
  BY <1>3, <1>4, <1>6, <1>9 DEF JobSound, SumsUp
<1>12. Readables' /\ InTime' /\ (twice' => capped') /\ (capped' \/ OwedIsKept')
  BY <1>1 DEF LedgerIInv, Readables, InTime, OwedIsKept, Owed, Summed, Raw
<1> QED
  BY <1>10, <1>11, <1>12 DEF LedgerIInv

LEMMA WriteShardStep ==
  ASSUME LedgerIInv, WriteShard
  PROVE  LedgerIInv'
<1> USE LedgerLimits
<1>1. /\ seg' = seg /\ mem' = mem /\ dedupe' = dedupe /\ up' = up /\ up
      /\ day' = day /\ lastRun' = lastRun /\ acceptedOn' = acceptedOn /\ twice' = twice
      /\ faults' = faults /\ capped' = capped /\ job.pc = "shards" /\ job \in Job /\ day \in Days
      /\ shards \subseteq Shard
  BY DEF WriteShard, memory, history, LedgerIInv, TypeOK
<1>2. PICK new \in job.shards : \E old \in SUBSET {s \in shards : s.keys = new.keys /\ s.last = new.last} :
        /\ shards' = (shards \ old) \cup {[keys |-> new.keys, last |-> new.last, at |-> day]}
        /\ job' = [job EXCEPT !.shards = job.shards \ {new},
                              !.pc = IF job.shards \ {new} = {} THEN "segments" ELSE "shards"]
  BY DEF WriteShard
<1>3. PICK old \in SUBSET {s \in shards : s.keys = new.keys /\ s.last = new.last} :
        shards' = (shards \ old) \cup {[keys |-> new.keys, last |-> new.last, at |-> day]}
  BY <1>2
<1> DEFINE rest == job.shards \ {new}
           made == [keys |-> new.keys, last |-> new.last, at |-> day]
<1>4. job' = [pc |-> IF rest = {} THEN "segments" ELSE "shards", shards |-> rest, ids |-> job.ids, days |-> job.days]
  BY <1>1, <1>2 DEF Job
<1>5. /\ job' \in Job /\ job.ids \subseteq Record /\ job'.ids = job.ids /\ job'.shards = rest /\ job'.days = job.days
      /\ job'.pc = IF rest = {} THEN "segments" ELSE "shards"
  BY <1>1, <1>4 DEF Job
<1>6. /\ made \in Shard /\ made.keys = new.keys /\ made.at = day
      /\ Cardinality(new.keys) \in 1..ShardSize
  BY <1>1 DEF Job, Summary, Shard, LedgerIInv, JobSound
<1>7. /\ shards' \subseteq Shard /\ made \in shards'
      /\ \A s \in shards' : s = made \/ s \in shards
      /\ \A s \in shards : s \in shards' \/ s.keys = new.keys
  BY <1>1, <1>3, <1>6
<1>8. job.days # {}
  BY <1>1 DEF LedgerIInv, JobSound
<1>9. TypeOK'
  <2>1. \A s \in shards' : Cardinality(s.keys) \in 1..ShardSize
    BY <1>6, <1>7 DEF LedgerIInv, TypeOK
  <2> QED
    BY <1>1, <1>5, <1>7, <1>8, <2>1 DEF LedgerIInv, TypeOK, KeysIn
<1>10. Readables' /\ InTime'
  BY <1>1, <1>6, <1>7 DEF LedgerIInv, Readables, InTime, Days
<1>11. JobSound'
  <2>1. ASSUME NEW r \in job.ids
        PROVE  SummedToday(r.key)' \/ \E s \in rest : r.key \in s.keys
    <3>1. SummedToday(r.key) \/ \E s \in job.shards : r.key \in s.keys
      BY <1>1 DEF LedgerIInv, JobSound
    <3>2. r.key \in new.keys => SummedToday(r.key)'
      BY <1>1, <1>6, <1>7 DEF SummedToday
    <3>3. SummedToday(r.key) => SummedToday(r.key)'
      BY <1>1, <1>7, <3>2 DEF SummedToday
    <3> QED
      BY <3>1, <3>2, <3>3
  <2>2. \A s \in rest : Cardinality(s.keys) \in 1..ShardSize
    BY DEF LedgerIInv, JobSound
  <2> QED
    BY <1>5, <1>8, <2>1, <2>2 DEF JobSound
<1>12. ASSUME ~capped', NEW j \in Keys, Owed(j)'  PROVE (Summed(j) \/ Raw(j))' /\ (up' => j \in dedupe')
  <2>1. (Summed(j) \/ Raw(j)) /\ (up => j \in dedupe) /\ acceptedOn[j] <= day
    BY <1>1, <1>12 DEF LedgerIInv, OwedIsKept, Owed, InTime
  <2>2. Summed(j) => Summed(j)'
    BY <1>1, <1>6, <1>7, <2>1 DEF Summed
  <2> QED
    BY <1>1, <2>1, <2>2 DEF Raw
<1> QED
  BY <1>1, <1>9, <1>10, <1>11, <1>12 DEF LedgerIInv, OwedIsKept

LEMMA RewriteStep ==
  ASSUME LedgerIInv, RewriteSegment
  PROVE  LedgerIInv' /\ (\A j \in Keys : ~capped /\ Owed(j) => Summed(j) \/ InRaw(j)')
<1> USE LedgerLimits
<1>1. /\ shards' = shards /\ mem' = mem /\ dedupe' = dedupe /\ up' = up /\ up
      /\ day' = day /\ lastRun' = lastRun /\ acceptedOn' = acceptedOn /\ twice' = twice
      /\ faults' = faults /\ capped' = capped /\ job.pc = "segments" /\ job \in Job
      /\ seg \in [Days -> Segment] /\ mem \subseteq Record
  BY DEF RewriteSegment, memory, history, LedgerIInv, TypeOK
<1>2. PICK d \in job.days :
        /\ seg' = [seg EXCEPT ![d] = Lines(Remaining(d))]
        /\ job' = [job EXCEPT !.days = job.days \ {d},
                              !.pc = IF job.days \ {d} = {} THEN "prune" ELSE "segments"]
  BY DEF RewriteSegment
<1> DEFINE rest == job.days \ {d}
           left == Lines(Remaining(d))
<1>3. job' = [pc |-> IF rest = {} THEN "prune" ELSE "segments", shards |-> job.shards, ids |-> job.ids, days |-> rest]
  BY <1>1, <1>2 DEF Job
<1>4. /\ job' \in Job /\ d \in Days /\ job'.ids = job.ids /\ job'.shards = job.shards /\ job'.days = rest
      /\ job'.pc = IF rest = {} THEN "prune" ELSE "segments"
  BY <1>1, <1>3 DEF Job
<1>5. left \in Segment /\ seg' = [seg EXCEPT ![d] = left]
  <2>1. Remaining(d) \in SUBSET Keys
    BY <1>1 DEF Remaining, KeysIn, Record
  <2> QED
    BY <1>2, <2>1 DEF Segment, Lines
<1>6. seg' \in [Days -> Segment] /\ \A e \in Days : seg'[e] = IF e = d THEN left ELSE seg[e]
  BY <1>1, <1>4, <1>5
<1>7. TypeOK'
  BY <1>1, <1>4, <1>6 DEF LedgerIInv, TypeOK, KeysIn
<1>8. Readables' /\ InTime'
  BY <1>1, <1>6 DEF LedgerIInv, Readables, InTime, Lines
<1>9. JobSound'
  BY <1>1, <1>4 DEF LedgerIInv, JobSound, SummedToday
<1>10. ASSUME ~capped, NEW j \in Keys, Owed(j)
       PROVE  Summed(j) \/ \E r \in mem : r.key = j /\ r.ts \in Days /\ j \in seg'[r.ts].keys
  <2>1. CASE Summed(j)
    BY <2>1
  <2>2. CASE ~Summed(j)
    <3>1. PICK r \in mem : r.key = j /\ j \in seg[r.ts].keys
      BY <1>1, <1>10, <2>2 DEF LedgerIInv, OwedIsKept, Raw
    <3>2. r.ts \in Days
      BY <1>1 DEF Record
    <3>3. acceptedOn[j] <= day
      BY DEF LedgerIInv, InTime
    <3>4. r \notin job.ids
      <4>1. SUFFICES ASSUME r \in job.ids  PROVE FALSE
        OBVIOUS
      <4>2. PICK s \in shards : r.key \in s.keys /\ s.at = day
        BY <1>1, <4>1 DEF LedgerIInv, JobSound, SummedToday
      <4>3. Summed(j)
        BY <3>1, <3>3, <4>2 DEF Summed
      <4> QED
        BY <2>2, <4>3
    <3>5. j \in seg'[r.ts].keys
      <4>1. CASE r.ts = d
        BY <1>6, <3>1, <3>2, <3>4, <4>1 DEF Remaining, KeysIn, Lines
      <4>2. CASE r.ts # d
        BY <1>6, <3>1, <3>2, <4>2
      <4> QED
        BY <4>1, <4>2
    <3> QED
      BY <3>1, <3>2, <3>5
  <2> QED
    BY <2>1, <2>2
<1>11. ASSUME ~capped', NEW j \in Keys, Owed(j)'  PROVE (Summed(j) \/ Raw(j))' /\ (up' => j \in dedupe')
  <2>1. Owed(j) /\ j \in dedupe
    BY <1>1, <1>11 DEF LedgerIInv, OwedIsKept, Owed
  <2>2. Summed(j) => Summed(j)'
    BY <1>1 DEF Summed
  <2> QED
    BY <1>1, <1>10, <1>11, <2>1, <2>2 DEF Raw
<1>12. ASSUME ~capped, NEW j \in Keys, Owed(j)  PROVE Summed(j) \/ InRaw(j)'
  BY <1>10, <1>12 DEF InRaw, Readable
<1> QED
  BY <1>1, <1>7, <1>8, <1>9, <1>11, <1>12 DEF LedgerIInv, OwedIsKept

LEMMA PruneStep ==
  ASSUME LedgerIInv, PruneAndLoad
  PROVE  LedgerIInv'
<1> USE LedgerLimits
<1> DEFINE kept == {s \in shards : ~Expired(s)}
<1>1. /\ seg' = seg /\ shards' = kept /\ up' = up /\ up /\ job' = NoJob
      /\ day' = day /\ lastRun' = lastRun /\ acceptedOn' = acceptedOn /\ twice' = twice
      /\ faults' = faults /\ day \in Days /\ acceptedOn \in [Keys -> Days \cup {-1}] /\ shards \subseteq Shard
  BY DEF PruneAndLoad, history, LedgerIInv, TypeOK
<1>2. CanLoad
  BY DEF CanLoad, Sound, LedgerIInv, Readables
<1>3. \/ mem' = mem /\ dedupe' = dedupe /\ capped' = capped
      \/ Load(kept)
  BY <1>2 DEF PruneAndLoad, memory
<1>4. ASSUME NEW j \in Keys, Owed(j), Summed(j)  PROVE \E s \in kept : j \in s.keys /\ acceptedOn[j] <= s.at
  <2>1. PICK s \in shards : j \in s.keys /\ acceptedOn[j] <= s.at
    BY <1>4 DEF Summed
  <2>2. s.at \in Days /\ acceptedOn[j] \in Days
    BY <1>1, <1>4 DEF Shard, Owed, Days
  <2>3. ~Expired(s)
    BY <1>1, <1>4, <2>1, <2>2 DEF Expired, Owed, Days
  <2> QED
    BY <2>1, <2>3
<1>5. /\ mem' \subseteq Record /\ Cardinality(mem') <= MaxRecords
      /\ \A r, o \in mem' : r.key = o.key => r = o
      /\ dedupe' \subseteq Keys /\ KeysIn(mem') \subseteq dedupe'
      /\ capped' \in BOOLEAN /\ (capped => capped')
      /\ Load(kept) /\ ~capped' =>
           /\ \A d \in Days : \A k \in seg[d].keys :
                /\ k \in dedupe'
                /\ \E r \in mem' : r.key = k /\ k \in seg[r.ts].keys
           /\ KeysOf(kept) \subseteq dedupe'
  <2>1. CASE Load(kept)
    BY <2>1, Loaded DEF LedgerIInv, TypeOK
  <2>2. CASE ~Load(kept)
    BY <1>3, <2>2 DEF LedgerIInv, TypeOK, KeysIn
  <2> QED
    BY <2>1, <2>2
<1>6. NoJob \in Job /\ NoJob.pc = "idle" /\ NoJob.shards = {}
  BY DEF NoJob, Job
<1>7. TypeOK'
  BY <1>1, <1>5, <1>6 DEF LedgerIInv, TypeOK, KeysIn
<1>8. Readables' /\ InTime' /\ JobSound'
  BY <1>1, <1>6 DEF LedgerIInv, Readables, InTime, JobSound
<1>9. ASSUME ~capped', NEW j \in Keys, Owed(j)'  PROVE (Summed(j) \/ Raw(j))' /\ (up' => j \in dedupe')
  <2>1. Owed(j) /\ (Summed(j) \/ Raw(j)) /\ j \in dedupe
    BY <1>1, <1>5, <1>9 DEF LedgerIInv, OwedIsKept, Owed
  <2>2. Summed(j) => Summed(j)' /\ (Load(kept) => j \in dedupe')
    <3> SUFFICES ASSUME Summed(j)  PROVE Summed(j)' /\ (Load(kept) => j \in dedupe')
      OBVIOUS
    <3>1. PICK s \in kept : j \in s.keys /\ acceptedOn[j] <= s.at
      BY <1>4, <2>1
    <3> QED
      BY <1>1, <1>5, <1>9, <3>1 DEF Summed, KeysOf
  <2>3. CASE Load(kept)
    <3>1. Raw(j) => Raw(j)' /\ j \in dedupe'
      <4> SUFFICES ASSUME Raw(j)  PROVE Raw(j)' /\ j \in dedupe'
        OBVIOUS
      <4>1. PICK r \in mem : r.key = j /\ j \in seg[r.ts].keys
        BY <1>1 DEF Raw
      <4>2. r.ts \in Days
        BY DEF LedgerIInv, TypeOK, Record
      <4>3. j \in dedupe' /\ \E o \in mem' : o.key = j /\ j \in seg[o.ts].keys
        BY <1>5, <1>9, <2>3, <4>1, <4>2
      <4> QED
        BY <1>1, <4>3 DEF Raw
    <3> QED
      BY <2>1, <2>2, <2>3, <3>1
  <2>4. CASE ~Load(kept)
    BY <1>1, <1>3, <2>1, <2>2, <2>4 DEF Raw
  <2> QED
    BY <2>3, <2>4
<1> QED
  BY <1>1, <1>5, <1>7, <1>8, <1>9 DEF LedgerIInv, OwedIsKept

LEMMA OtherSteps ==
  ASSUME LedgerIInv, CompactionFails \/ NextDay \/ UNCHANGED vars
  PROVE  LedgerIInv'
<1> USE LedgerLimits
<1>1. NoJob \in Job /\ NoJob.pc = "idle" /\ NoJob.shards = {}
  BY DEF NoJob, Job
<1>2. /\ seg' = seg /\ shards' = shards /\ mem' = mem /\ dedupe' = dedupe /\ up' = up
      /\ lastRun' = lastRun /\ acceptedOn' = acceptedOn /\ twice' = twice /\ capped' = capped
      /\ faults' \in 0..MaxFaults /\ day \in Days /\ day' \in Days /\ day <= day'
      /\ job' = NoJob \/ (job' = job /\ (job.pc = "idle" \/ day' = day))
      /\ acceptedOn \in [Keys -> Days \cup {-1}] /\ shards \subseteq Shard
  BY DEF CompactionFails, NextDay, vars, disk, memory, history, Fault, LedgerIInv, TypeOK, Days
<1>3. TypeOK'
  BY <1>1, <1>2 DEF LedgerIInv, TypeOK, KeysIn
<1>4. Readables' /\ InTime'
  BY <1>2 DEF LedgerIInv, Readables, InTime, Days, Shard
<1>5. JobSound'
  BY <1>1, <1>2 DEF LedgerIInv, JobSound, SummedToday
<1>6. \A j \in Keys : Owed(j)' => Owed(j)
  BY <1>2 DEF Owed, Days
<1>7. capped' \/ OwedIsKept'
  BY <1>2, <1>6 DEF LedgerIInv, OwedIsKept, Summed, Raw
<1> QED
  BY <1>2, <1>3, <1>4, <1>5, <1>7 DEF LedgerIInv

LEMMA InitSound == Init => LedgerIInv
<1> SUFFICES ASSUME Init  PROVE LedgerIInv
  OBVIOUS
<1> USE LedgerLimits
<1>1. Lines({}) \in Segment /\ Lines({}).tail = NoKey /\ ~Lines({}).bad /\ NoJob \in Job /\ NoJob.pc = "idle" /\ NoJob.shards = {}
  BY DEF Lines, Segment, NoJob, Job
<1>2. Cardinality(mem) = 0 /\ 0 \in Days
  BY FS_EmptySet DEF Init, Days
<1>3. TypeOK
  <2>1. seg \in [Days -> Segment] /\ job \in Job /\ job.pc = "idle" /\ job = NoJob
    BY <1>1 DEF Init
  <2>2. mem \subseteq Record /\ Cardinality(mem) <= MaxRecords /\ KeysIn(mem) \subseteq dedupe
    BY <1>2 DEF Init, KeysIn
  <2>3. acceptedOn \in [Keys -> Days \cup {-1}] /\ {up, twice, capped} \subseteq BOOLEAN
    BY DEF Init
  <2> QED
    BY <1>2, <2>1, <2>2, <2>3 DEF Init, TypeOK
<1>4. Readables /\ InTime /\ JobSound
  BY <1>1, <1>2 DEF Init, Readables, InTime, JobSound, Days
<1> QED
  BY <1>3, <1>4 DEF Init, LedgerIInv, OwedIsKept, Owed

\* One step keeps the invariant.
LEMMA LedgerStep ==
  ASSUME ~Torn, LedgerIInv, [Next]_vars
  PROVE  LedgerIInv'
<1>1. ASSUME NEW k \in Keys, NEW ts \in 0..day, AppendRecord(k, ts)  PROVE LedgerIInv'
  BY <1>1, AppendStep
<1>2. ASSUME NEW k \in Keys, NEW ts \in 0..day, AppendFails(k, ts)  PROVE LedgerIInv'
  BY <1>2, AppendFailsStep
<1>3. CASE Compact
  BY <1>3, CompactStep
<1>4. CASE WriteShard
  BY <1>4, WriteShardStep
<1>5. CASE RewriteSegment
  BY <1>5, RewriteStep
<1>6. CASE PruneAndLoad
  BY <1>6, PruneStep
<1>7. CASE CompactionFails \/ NextDay \/ UNCHANGED vars
  BY <1>7, OtherSteps
<1>8. CASE Crash
  BY <1>8, CrashStep
<1>9. CASE Open
  BY <1>9, OpenStep
<1> QED
  BY <1>1, <1>2, <1>3, <1>4, <1>5, <1>6, <1>7, <1>8, <1>9 DEF Next

LEMMA LedgerAlways == ~Torn => (Spec => []LedgerIInv)
<1> SUFFICES ASSUME ~Torn  PROVE Spec => []LedgerIInv
  OBVIOUS
<1>1. Init => LedgerIInv
  BY InitSound
<1>2. LedgerIInv /\ [Next]_vars => LedgerIInv'
  BY LedgerStep
<1> QED
  BY <1>1, <1>2, PTL DEF Spec

-----------------------------------------------------------------------------
(* The theorems.                                                             *)

LEMMA KeptIsRecorded == LedgerIInv => LedgerInv
<1> SUFFICES ASSUME LedgerIInv  PROVE LedgerInv
  OBVIOUS
<1>1. ASSUME NEW k \in Keys, Summed(k) \/ Raw(k)  PROVE OnRecord(k)
  <2>1. CASE Summed(k)
    BY <2>1 DEF Summed, OnRecord, KeysOf
  <2>2. CASE Raw(k)
    BY <2>2 DEF Raw, OnRecord, Readable, LedgerIInv, TypeOK, Record
  <2> QED
    BY <1>1, <2>1, <2>2
<1>2. OwedIsRecorded
  BY <1>1 DEF LedgerIInv, OwedIsKept, OwedIsRecorded, Known
<1> QED
  BY <1>2 DEF LedgerIInv, LedgerInv, AcceptedOnce

\* An event the ledger has accepted is on disk, in its raw segment or in a summary
\* shard, and known to the running daemon, as long as the summary retention lasts,
\* and is not accepted again: through compactions cut short at any step, failed
\* appends and restarts (EventLedger::append, compact and load), unless a start cut
\* memory at max_records.  Appends do not tear.
THEOREM LedgerAlwaysSound == ~Torn => (Spec => []LedgerInv)
<1> SUFFICES ASSUME ~Torn  PROVE Spec => []LedgerInv
  OBVIOUS
<1>1. LedgerIInv => LedgerInv
  BY KeptIsRecorded
<1> QED
  BY <1>1, LedgerAlways, PTL

\* The key of an accepted event leaves the raw segments only when it is in a shard.
LEMMA SummarisedAtStep ==
  ASSUME LedgerIInv, [Next]_vars
  PROVE  SummarisedStep
<1> SUFFICES ASSUME NEW j \in Keys, ~capped, InRaw(j), Owed(j), ~InRaw(j)'  PROVE j \in KeysOf(shards)
  BY DEF SummarisedStep
<1> USE LedgerLimits
<1>1. /\ seg \in [Days -> Segment] /\ \A d \in Days : seg[d].tail = NoKey
  BY DEF LedgerIInv, TypeOK, Readables
<1>2. PICK d \in Days : j \in seg[d].keys
  BY <1>1 DEF InRaw, Readable
<1>3. seg' # seg
  BY DEF InRaw, Readable
<1>4. ASSUME NEW k \in Keys, NEW ts \in 0..day, AppendRecord(k, ts) \/ AppendFails(k, ts)  PROVE FALSE
  <2>1. ts \in Days
    BY DEF LedgerIInv, TypeOK, Days
  <2>2. PICK s \in AfterFailure(seg[ts], k) : seg' = [seg EXCEPT ![ts] = s]
    BY <1>4 DEF AppendRecord, AppendFails, AfterFailure
  <2>3. seg[ts].keys \subseteq s.keys
    BY <1>1, <2>1, <2>2 DEF AfterFailure, WithLine, Segment
  <2>4. j \in seg'[d].keys
    BY <1>1, <1>2, <2>1, <2>2, <2>3
  <2> QED
    BY <1>2, <2>4 DEF InRaw, Readable
<1>5. CASE RewriteSegment
  <2>1. Summed(j)
    BY <1>5, RewriteStep
  <2> QED
    BY <2>1 DEF Summed, KeysOf
<1> QED
  BY <1>3, <1>4, <1>5
  DEF Next, Compact, WriteShard, PruneAndLoad, CompactionFails, Crash, Open, NextDay, disk, vars

\* The key of an event the ledger owes leaves the raw segments only by the rewrite of
\* its segment, and only when a shard has it (compact, write_summary_shard and
\* rewrite_raw_segment), unless memory was cut at max_records.  Appends do not tear.
THEOREM SummarisedBefore == ~Torn => (Spec => SummarisedFirst)
<1> SUFFICES ASSUME ~Torn  PROVE Spec => SummarisedFirst
  OBVIOUS
<1>1. LedgerIInv /\ [Next]_vars => [SummarisedStep]_vars
  BY SummarisedAtStep
<1> QED
  BY <1>1, LedgerAlways, PTL DEF Spec, SummarisedFirst

-----------------------------------------------------------------------------
(* The event bridge.  That it tells what it takes for told, and tells it once, *)
(* is not inductive: a late snapshot could bring back an earlier turn, and an  *)
(* intake that has told an episode could tell it again.  The invariant says    *)
(* how snapshots are ordered (OrderedAll) and that tracks follow them          *)
(* (Follows), what an intake under way will leave (IntakeSound), and who pays  *)
(* for the copies of an episode there are (Paid).                              *)

Snapshot == [rev : Nat, turn : Turns \cup {0}, begun : Turns \cup {0}, phase : Phases, accepted : BOOLEAN,
             attempt : Nat, prompt : Nat, gate : Nat, open : BOOLEAN, model : Models,
             health : Healths \cup {Nothing}]

Track == [rev : Nat, turn : Nat, attempts : Nat, ended : Nat, prompt : Nat, promptTurn : Nat, lastPrompt : Nat,
          gate : Nat, model : Models \cup {Nothing}, health : Healths \cup {Nothing}, alerted : BOOLEAN,
          episode : Nat, started : BOOLEAN, flight : Nat, stalled : Nat]

\* The session counts its turns and prompts upwards; a snapshot without one says nothing.
Ordered(s, r) ==
  s.rev <= r.rev => /\ s.turn # 0 /\ r.turn # 0 => s.turn <= r.turn
                    /\ s.prompt # 0 /\ r.prompt # 0 => s.prompt <= r.prompt
OrderedAll(shots, session) ==
  /\ session \in shots /\ session.turn \in {0, session.begun}
  /\ \A s, r \in shots : Ordered(s, r)
  /\ \A s \in shots : s.rev <= session.rev /\ s.turn <= session.begun /\ s.prompt <= session.prompt

\* No snapshot at or above a track's revision is of an earlier turn or prompt.
Ahead(t, s) == (s.turn # 0 => t.turn <= s.turn) /\ (s.prompt # 0 => t.lastPrompt <= s.prompt)
Follows(t, shots, session) ==
  /\ t.turn <= session.begun /\ t.lastPrompt <= session.prompt
  /\ \A s \in shots : t.rev <= s.rev => Ahead(t, s)

\* What holds of a track between snapshots.
TrackOk(t) ==
  /\ t.ended # 0 => t.ended = t.turn
  /\ t.promptTurn <= t.turn
  /\ t.lastPrompt # 0 /\ t.promptTurn = t.turn => t.prompt = t.lastPrompt
  /\ t.alerted <=> t.health \in {"degraded", "failed"}

\* The track will not report the episode of the event again.
Noted(t, e) ==
  \/ e.kind = "started" /\ t.started
  \/ e.kind = "complete" /\ (e.turn < t.turn \/ e.turn = t.ended)
  \/ e.kind = "retry-needed" /\ (e.turn < t.turn \/ (e.turn = t.turn /\ \E n \in 0..t.attempts : e.part = <<n>>))
  \/ e.kind = "prompt" /\ \E n \in 0..t.lastPrompt : e.part = <<n>>
  \/ e.kind = "question" /\ e.gate <= t.gate

\* SeenIsTold, of any track, events and staged failures.
Reported(t, T, S) ==
  /\ t.ended # 0 => (\E e \in T : e.kind = "complete" /\ e.turn = t.ended) \/ t.ended \in S
  /\ t.started => \E e \in T : e.kind = "started"
  /\ t.stalled # 0 => \E e \in T : e.kind = "stalled"
  /\ t.prompt # 0 => \E e \in T : e.kind = "prompt" /\ e.part = <<t.prompt>>
  /\ t.alerted => \E e \in T : /\ e.kind = "endpoint" /\ e.part[2] = t.episode
                               /\ t.health = "failed" => e.part[1] = "failed"

NatEvent(e) == e.turn \in Nat /\ e.gate \in Nat

\* An intake, and what it will make of the track and of the ledger.
InTake(in) == in.at \in {"stage", "emit"}
ToStage(in) == IF in.at = "stage" /\ in.failed THEN {in.snap.turn} ELSE {}
IntakeTypes(in) ==
  /\ in = [at |-> in.at, snap |-> in.snap, events |-> in.events, track |-> in.track, failed |-> in.failed]
  /\ in.snap \in Snapshot /\ in.track \in Track /\ in.failed \in BOOLEAN
  /\ in.failed => in.snap.turn # 0
  /\ \A e \in in.events : NatEvent(e)
IntakeSound(in, t, T, S) ==
  /\ in.track.rev = in.snap.rev /\ t.rev < in.snap.rev
  /\ TrackOk(in.track)
  /\ \A e, f \in in.events : e.kind = f.kind => e = f
  /\ \A e \in in.events : e.kind \in OnceKinds => Noted(in.track, e) /\ ~Noted(t, e)
  /\ \A e \in T : Noted(t, e) => Noted(in.track, e)
  /\ Reported(in.track, T \cup in.events, S \cup ToStage(in))

\* The intake under way has told of the episode.
Telling(in, e) ==
  in.at = "emit" /\ Noted(in.track, e) /\ \A f \in in.events : ~SameEpisode(e, f)

\* Copies beyond the first are paid for, and the first by the track or the intake.
Same(e, T) == {f \in T : SameEpisode(e, f)}
Paid(T, t, in, n) ==
  \A e \in T : e.kind \in OnceKinds =>
    Cardinality(Same(e, T)) <= n + (IF Noted(t, e) \/ Telling(in, e) THEN 1 ELSE 0)

BridgeTypes ==
  /\ sess \in Session /\ snaps \subseteq Snapshot /\ track \in Track
  /\ mark \in Nat /\ crashes \in Nat /\ refusals \in Nat
  /\ staged \subseteq Turns
  /\ IsFiniteSet(told) /\ \A e \in told : NatEvent(e)
  /\ ingress = NoIngress \/ (InTake(ingress) /\ IntakeTypes(ingress))

Shots == snaps \cup {sess} \cup (IF InTake(ingress) THEN {ingress.snap} ELSE {})
TrackSound == TrackOk(track) /\ Follows(track, Shots, sess) /\ Reported(track, told, staged)
InTakeSound ==
  InTake(ingress) => /\ IntakeSound(ingress, track, told, staged) /\ Follows(ingress.track, Shots, sess)
                     /\ ingress.at = "emit" /\ ingress.failed => ingress.snap.rev <= mark

BridgeIInv ==
  /\ BridgeTypes /\ OrderedAll(Shots, sess) /\ TrackSound /\ InTakeSound
  /\ Paid(told, track, ingress, crashes + refusals)
  /\ track.rev <= mark /\ mark <= sess.rev

-----------------------------------------------------------------------------
(* The reducer, part by part.                                                  *)

LEMMA BridgeNumbers ==
  ASSUME BridgeConstants
  PROVE  /\ MaxSeen \in Nat /\ MaxUnderWay \in Nat /\ MaxCrashes \in Nat /\ MaxRefusals \in Nat
         /\ Turns \subseteq Nat /\ 0 \notin Turns
         /\ Topics \subseteq {"turn", "retry", "prompt", "gate", "model", "endpoint"}
BY DEF BridgeConstants

LEMMA AtTurnParts ==
  ASSUME BridgeConstants, NEW t \in Track, NEW s \in Snapshot, TrackOk(t), Ahead(t, s), s.turn # 0
  PROVE  LET x == AtTurn(t, s)
         IN /\ x \in Track /\ TrackOk(x) /\ x.turn = s.turn
            /\ x.rev = t.rev /\ x.promptTurn = t.promptTurn /\ x.lastPrompt = t.lastPrompt
            /\ x.gate = t.gate /\ x.model = t.model /\ x.health = t.health /\ x.alerted = t.alerted
            /\ x.episode = t.episode /\ x.started = t.started /\ x.flight = t.flight /\ x.stalled = t.stalled
            /\ t.turn = s.turn => x = t
            /\ t.turn # s.turn => x.attempts = 0 /\ x.ended = 0 /\ x.prompt = 0
<1>1. t.turn \in Nat /\ s.turn \in Nat /\ t.turn <= s.turn
  BY BridgeNumbers DEF Track, Snapshot, Ahead
<1>2. CASE t.turn = s.turn
  BY <1>2 DEF AtTurn
<1>3. CASE t.turn # s.turn
  <2> DEFINE x == [rev |-> t.rev, turn |-> s.turn, attempts |-> 0, ended |-> 0, prompt |-> 0,
                   promptTurn |-> t.promptTurn, lastPrompt |-> t.lastPrompt, gate |-> t.gate, model |-> t.model,
                   health |-> t.health, alerted |-> t.alerted, episode |-> t.episode, started |-> t.started,
                   flight |-> t.flight, stalled |-> t.stalled]
  <2>1. AtTurn(t, s) = x
    BY <1>3 DEF AtTurn, Track
  <2>2. x \in Track
    BY <1>1 DEF Track
  <2>3. TrackOk(x)
    BY <1>1, <1>3 DEF TrackOk, Track
  <2> QED
    BY <1>3, <2>1, <2>2, <2>3
<1> QED
  BY <1>2, <1>3

LEMMA TrackUpdated ==
  ASSUME NEW t \in Track, NEW a \in Nat, NEW b \in BOOLEAN, NEW c \in Nat, NEW d \in Nat, NEW e \in Nat
  PROVE  [t EXCEPT !.attempts = a, !.started = b, !.ended = c, !.stalled = d, !.flight = e] \in Track
BY DEF Track

LEMMA TurnTrackParts ==
  ASSUME BridgeConstants, NEW t \in Track, NEW s \in Snapshot, TrackOk(t), s.turn # 0, t.turn = s.turn,
         NEW accepted \in BOOLEAN
  PROVE  LET x == TurnTrack(t, s, accepted)
         IN /\ x \in Track /\ TrackOk(x)
            /\ x.rev = t.rev /\ x.turn = t.turn /\ x.prompt = t.prompt /\ x.promptTurn = t.promptTurn
            /\ x.lastPrompt = t.lastPrompt /\ x.gate = t.gate /\ x.model = t.model
            /\ x.health = t.health /\ x.alerted = t.alerted /\ x.episode = t.episode
            /\ x.attempts = (IF s.attempt > t.attempts THEN s.attempt ELSE t.attempts)
            /\ x.started = (t.started \/ (accepted /\ s.phase = "active"))
            /\ x.ended = (IF accepted /\ Terminal(s) THEN s.turn ELSE t.ended)
            /\ x.stalled = (IF s.phase = "active" THEN 0
                            ELSE IF s.phase = "idle" /\ t.flight = s.turn THEN s.turn ELSE t.stalled)
<1> DEFINE flight == IF s.phase = "active" THEN (IF accepted THEN s.turn ELSE 0)
                     ELSE IF s.phase # "waiting" THEN 0
                     ELSE IF accepted /\ t.flight = 0 THEN s.turn ELSE t.flight
           stalled == IF s.phase = "active" THEN 0
                      ELSE IF s.phase = "idle" /\ t.flight = s.turn THEN s.turn ELSE t.stalled
           attempts == IF s.attempt > t.attempts THEN s.attempt ELSE t.attempts
           ended == IF accepted /\ Terminal(s) THEN s.turn ELSE t.ended
           started == t.started \/ (accepted /\ s.phase = "active")
           x == TurnTrack(t, s, accepted)
<1>1. s.turn \in Nat /\ s.attempt \in Nat /\ t.attempts \in Nat /\ t.ended \in Nat /\ t.flight \in Nat
      /\ t.stalled \in Nat /\ t.started \in BOOLEAN
  BY BridgeNumbers DEF Track, Snapshot
<1>2. flight \in Nat /\ stalled \in Nat /\ attempts \in Nat /\ ended \in Nat /\ started \in BOOLEAN
  BY <1>1
<1>3. x \in Track
  <2>1. x = [t EXCEPT !.attempts = attempts, !.started = started, !.ended = ended, !.stalled = stalled,
                      !.flight = flight]
    BY DEF TurnTrack
  <2> HIDE DEF x, flight, stalled, attempts, ended, started
  <2> QED
    BY <1>2, <2>1, TrackUpdated
<1>4. /\ x.rev = t.rev /\ x.turn = t.turn /\ x.prompt = t.prompt /\ x.promptTurn = t.promptTurn
      /\ x.lastPrompt = t.lastPrompt /\ x.gate = t.gate /\ x.model = t.model
      /\ x.health = t.health /\ x.alerted = t.alerted /\ x.episode = t.episode
  BY DEF TurnTrack, Track
<1>5. x.attempts = attempts /\ x.ended = ended /\ x.stalled = stalled
  BY DEF TurnTrack, Track
<1>6. x.started = started
  BY DEF TurnTrack, Track
<1> HIDE DEF x
<1>7. TrackOk(x)
  BY <1>4, <1>5 DEF TrackOk
<1> QED
  BY <1>3, <1>4, <1>5, <1>6, <1>7 DEF x

LEMMA GoneTrackParts ==
  ASSUME NEW t \in Track, TrackOk(t)
  PROVE  LET x == GoneTrack(t)
         IN /\ x \in Track /\ TrackOk(x)
            /\ x.rev = t.rev /\ x.turn = t.turn /\ x.prompt = t.prompt /\ x.promptTurn = t.promptTurn
            /\ x.lastPrompt = t.lastPrompt /\ x.gate = t.gate /\ x.model = t.model
            /\ x.health = t.health /\ x.alerted = t.alerted /\ x.episode = t.episode
            /\ x.attempts = t.attempts /\ x.started = t.started /\ x.ended = t.ended
            /\ x.stalled = IF t.flight # 0 THEN t.flight ELSE t.stalled
<1> DEFINE x == GoneTrack(t)
<1>1. x \in Track
  BY DEF GoneTrack, Track
<1>2. /\ x.rev = t.rev /\ x.turn = t.turn /\ x.prompt = t.prompt /\ x.promptTurn = t.promptTurn
      /\ x.lastPrompt = t.lastPrompt /\ x.gate = t.gate /\ x.model = t.model
      /\ x.health = t.health /\ x.alerted = t.alerted /\ x.episode = t.episode
      /\ x.attempts = t.attempts /\ x.started = t.started /\ x.ended = t.ended
      /\ x.stalled = IF t.flight # 0 THEN t.flight ELSE t.stalled
  BY DEF GoneTrack, Track
<1> HIDE DEF x
<1>3. TrackOk(x)
  BY <1>2 DEF TrackOk
<1> QED
  BY <1>1, <1>2, <1>3 DEF x
LEMMA PromptTrackParts ==
  ASSUME NEW t \in Track, NEW s \in Snapshot, BridgeConstants, TrackOk(t), s.turn # 0 => t.turn = s.turn,
         s.prompt # 0 => t.lastPrompt <= s.prompt
  PROVE  LET x == PromptTrack(t, s)
         IN /\ x \in Track /\ TrackOk(x)
            /\ x.rev = t.rev /\ x.turn = t.turn /\ x.gate = t.gate /\ x.model = t.model
            /\ x.health = t.health /\ x.alerted = t.alerted /\ x.episode = t.episode
            /\ x.attempts = t.attempts /\ x.started = t.started /\ x.ended = t.ended /\ x.stalled = t.stalled
            /\ PromptNew(t, s) => /\ x.prompt = s.prompt /\ x.lastPrompt = s.prompt
                                  /\ t.lastPrompt < s.prompt /\ s.prompt # 0
            /\ ~PromptNew(t, s) => x = t
<1>1. /\ s.prompt \in Nat /\ s.turn \in Nat /\ t.prompt \in Nat /\ t.lastPrompt \in Nat
      /\ t.promptTurn \in Nat /\ t.turn \in Nat
  BY BridgeNumbers DEF Track, Snapshot
<1>2. CASE PromptNew(t, s)
  <2> DEFINE x == [t EXCEPT !.prompt = s.prompt, !.promptTurn = s.turn, !.lastPrompt = s.prompt]
  <2>1. PromptTrack(t, s) = x
    BY <1>2 DEF PromptTrack
  <2>2. x \in Track
    BY <1>1 DEF Track
  <2>3. /\ x.rev = t.rev /\ x.turn = t.turn /\ x.gate = t.gate /\ x.model = t.model
        /\ x.health = t.health /\ x.alerted = t.alerted /\ x.episode = t.episode
        /\ x.attempts = t.attempts /\ x.started = t.started /\ x.ended = t.ended /\ x.stalled = t.stalled
        /\ x.prompt = s.prompt /\ x.lastPrompt = s.prompt /\ x.promptTurn = s.turn
    BY DEF Track
  <2>4. t.lastPrompt < s.prompt /\ s.prompt # 0 /\ s.turn = t.turn
    BY <1>1, <1>2 DEF PromptNew, TrackOk
  <2> HIDE DEF x
  <2>5. TrackOk(x)
    BY <1>1, <2>3, <2>4 DEF TrackOk
  <2> QED
    BY <1>2, <2>1, <2>2, <2>3, <2>4, <2>5
<1>3. CASE ~PromptNew(t, s)
  BY <1>3 DEF PromptTrack
<1> QED
  BY <1>2, <1>3

LEMMA GateTrackParts ==
  ASSUME NEW t \in Track, NEW s \in Snapshot, TrackOk(t)
  PROVE  LET x == GateTrack(t, s)
         IN /\ x \in Track /\ TrackOk(x)
            /\ x.rev = t.rev /\ x.turn = t.turn /\ x.prompt = t.prompt /\ x.promptTurn = t.promptTurn
            /\ x.lastPrompt = t.lastPrompt /\ x.model = t.model
            /\ x.health = t.health /\ x.alerted = t.alerted /\ x.episode = t.episode
            /\ x.attempts = t.attempts /\ x.started = t.started /\ x.ended = t.ended /\ x.stalled = t.stalled
            /\ t.gate <= x.gate /\ s.gate <= x.gate
<1>1. s.gate \in Nat /\ t.gate \in Nat
  BY DEF Track, Snapshot
<1>2. CASE s.gate > t.gate
  <2> DEFINE x == [t EXCEPT !.gate = s.gate]
  <2>1. GateTrack(t, s) = x
    BY <1>2 DEF GateTrack
  <2>2. x \in Track
    BY <1>1 DEF Track
  <2>3. /\ x.rev = t.rev /\ x.turn = t.turn /\ x.prompt = t.prompt /\ x.promptTurn = t.promptTurn
        /\ x.lastPrompt = t.lastPrompt /\ x.model = t.model
        /\ x.health = t.health /\ x.alerted = t.alerted /\ x.episode = t.episode
        /\ x.attempts = t.attempts /\ x.started = t.started /\ x.ended = t.ended /\ x.stalled = t.stalled
        /\ x.gate = s.gate
    BY DEF Track
  <2> HIDE DEF x
  <2>4. TrackOk(x)
    BY <2>3 DEF TrackOk
  <2> QED
    BY <1>1, <1>2, <2>1, <2>2, <2>3, <2>4
<1>3. CASE ~(s.gate > t.gate)
  BY <1>1, <1>3 DEF GateTrack
<1> QED
  BY <1>2, <1>3

\* With the model that the snapshot shows, and its revision.
LEMMA EndpointTrackParts ==
  ASSUME NEW t \in Track, NEW s \in Snapshot, TrackOk(t)
  PROVE  LET x == [EndpointTrack([t EXCEPT !.model = s.model], s) EXCEPT !.rev = s.rev]
         IN /\ x \in Track /\ TrackOk(x)
            /\ x.rev = s.rev /\ x.turn = t.turn /\ x.prompt = t.prompt /\ x.promptTurn = t.promptTurn
            /\ x.lastPrompt = t.lastPrompt /\ x.gate = t.gate
            /\ x.attempts = t.attempts /\ x.started = t.started /\ x.ended = t.ended /\ x.stalled = t.stalled
            /\ s.health = Nothing => x.health = t.health /\ x.alerted = t.alerted /\ x.episode = t.episode
            /\ s.health # Nothing => /\ x.health = s.health /\ x.alerted = Sick(s)
                                     /\ t.alerted => x.episode = t.episode
<1> DEFINE u == [t EXCEPT !.model = s.model]
           w == EndpointTrack(u, s)
           x == [w EXCEPT !.rev = s.rev]
           episode == IF Sick(s) /\ ~u.alerted /\ u.health \in {Nothing, "ok"} THEN u.episode + 1 ELSE u.episode
<1>1. /\ s.rev \in Nat /\ s.model \in Models /\ s.health \in Healths \cup {Nothing}
  BY DEF Snapshot
<1>2. u \in Track
  BY <1>1 DEF Track
<1>3. /\ u.turn = t.turn /\ u.prompt = t.prompt /\ u.promptTurn = t.promptTurn
      /\ u.lastPrompt = t.lastPrompt /\ u.gate = t.gate
      /\ u.attempts = t.attempts /\ u.started = t.started /\ u.ended = t.ended /\ u.stalled = t.stalled
      /\ u.health = t.health /\ u.alerted = t.alerted /\ u.episode = t.episode
  BY DEF Track
<1> HIDE DEF u
<1>4. /\ w \in Track
      /\ w.turn = u.turn /\ w.prompt = u.prompt /\ w.promptTurn = u.promptTurn
      /\ w.lastPrompt = u.lastPrompt /\ w.gate = u.gate
      /\ w.attempts = u.attempts /\ w.started = u.started /\ w.ended = u.ended /\ w.stalled = u.stalled
      /\ s.health = Nothing => w.health = u.health /\ w.alerted = u.alerted /\ w.episode = u.episode
      /\ s.health # Nothing => w.health = s.health /\ w.alerted = Sick(s) /\ w.episode = episode
  <2>1. CASE s.health = Nothing
    BY <1>2, <2>1 DEF EndpointTrack
  <2>2. CASE s.health # Nothing
    <3>1. w = [u EXCEPT !.health = s.health, !.alerted = Sick(s), !.episode = episode]
      BY <2>2 DEF EndpointTrack
    <3>2. episode \in Nat
      BY <1>2 DEF Track
    <3>3. Sick(s) \in BOOLEAN
      BY DEF Sick
    <3>4. w \in Track
      <4> HIDE DEF w, episode
      <4> QED
        BY <1>1, <1>2, <3>1, <3>2, <3>3 DEF Track
    <3> HIDE DEF w, episode
    <3> QED
      BY <1>2, <2>2, <3>1, <3>4 DEF Track
  <2> QED
    BY <2>1, <2>2
<1> HIDE DEF w
<1>5. x \in Track
  BY <1>1, <1>4 DEF Track
<1>6. /\ x.rev = s.rev /\ x.turn = w.turn /\ x.prompt = w.prompt /\ x.promptTurn = w.promptTurn
      /\ x.lastPrompt = w.lastPrompt /\ x.gate = w.gate
      /\ x.attempts = w.attempts /\ x.started = w.started /\ x.ended = w.ended /\ x.stalled = w.stalled
      /\ x.health = w.health /\ x.alerted = w.alerted /\ x.episode = w.episode
  BY <1>4 DEF Track
<1> HIDE DEF x
<1>7. t.alerted => episode = t.episode
  BY <1>3
<1> HIDE DEF episode
<1>8. TrackOk(x)
  <2>1. x.ended # 0 => x.ended = x.turn
    BY <1>3, <1>4, <1>6 DEF TrackOk
  <2>2. /\ x.promptTurn <= x.turn
        /\ x.lastPrompt # 0 /\ x.promptTurn = x.turn => x.prompt = x.lastPrompt
    BY <1>3, <1>4, <1>6 DEF TrackOk
  <2>3. CASE s.health = Nothing
    BY <1>3, <1>4, <1>6, <2>1, <2>2, <2>3 DEF TrackOk
  <2>4. CASE s.health # Nothing
    BY <1>4, <1>6, <2>1, <2>2, <2>4 DEF TrackOk, Sick
  <2> QED
    BY <2>3, <2>4
<1> QED
  BY <1>3, <1>4, <1>5, <1>6, <1>7, <1>8 DEF x, w, u
-----------------------------------------------------------------------------
(* The reducer as a whole.                                                     *)

FirstTrack(t, s) == IF s.turn = 0 THEN t ELSE AtTurn(t, s)
Accepts(t, s) == s.accepted \/ FirstTrack(t, s).prompt # 0
SecondTrack(t, s) ==
  IF s.turn = 0 THEN GoneTrack(FirstTrack(t, s)) ELSE TurnTrack(FirstTrack(t, s), s, Accepts(t, s))
ThirdTrack(t, s) == GateTrack(PromptTrack(SecondTrack(t, s), s), s)
LastTrack(t, s) == [EndpointTrack([ThirdTrack(t, s) EXCEPT !.model = s.model], s) EXCEPT !.rev = s.rev]
Episode(t, s) == EndpointTrack([ThirdTrack(t, s) EXCEPT !.model = s.model], s).episode

TurnPart(t, s) ==
  IF s.turn = 0 THEN GoneEvents(FirstTrack(t, s), s) ELSE TurnEvents(FirstTrack(t, s), s, Accepts(t, s))
OtherPart(t, s) ==
  When(PromptNew(SecondTrack(t, s), s), Event(s, "prompt", <<s.prompt>>))
  \cup When(GateNew(SecondTrack(t, s), s), Event(s, "question", <<>>))
  \cup When(ModelNew(SecondTrack(t, s), s), Event(s, "model", <<SecondTrack(t, s).model, s.model>>))
  \cup When(EndpointNew(ThirdTrack(t, s), s), Event(s, "endpoint", <<s.health, Episode(t, s)>>))

LEMMA ObservedStages ==
  ASSUME NEW t, NEW s
  PROVE  LET r == Observed(t, s)
         IN /\ r.events = TurnPart(t, s) \cup OtherPart(t, s)
            /\ r.fails = (s.turn # 0 /\ TurnFails(FirstTrack(t, s), s, Accepts(t, s)))
            /\ r.track = LastTrack(t, s)
BY DEF Observed, TurnPart, OtherPart, LastTrack, Episode, ThirdTrack, SecondTrack, Accepts, FirstTrack

\* The tracks on the way.
LEMMA ObservedTracks ==
  ASSUME BridgeConstants, NEW t \in Track, NEW s \in Snapshot, TrackOk(t), Ahead(t, s)
  PROVE  LET a == FirstTrack(t, s)
             b == SecondTrack(t, s)
             c == ThirdTrack(t, s)
             x == LastTrack(t, s)
         IN /\ a \in Track /\ b \in Track /\ c \in Track /\ x \in Track
            /\ TrackOk(a) /\ TrackOk(b) /\ TrackOk(c) /\ TrackOk(x)
            /\ Accepts(t, s) \in BOOLEAN
            /\ a.turn = (IF s.turn = 0 THEN t.turn ELSE s.turn) /\ b.turn = a.turn /\ x.turn = a.turn
            /\ a.turn = t.turn => a = t
            /\ a.turn # t.turn => a.attempts = 0 /\ a.ended = 0 /\ a.prompt = 0
            /\ a.started = t.started /\ a.flight = t.flight /\ a.stalled = t.stalled
            /\ a.lastPrompt = t.lastPrompt /\ a.gate = t.gate
            /\ a.health = t.health /\ a.alerted = t.alerted /\ a.episode = t.episode
            /\ s.turn = 0 => /\ x.attempts = a.attempts /\ x.started = a.started /\ x.ended = a.ended
                             /\ x.stalled = (IF a.flight # 0 THEN a.flight ELSE a.stalled)
            /\ s.turn # 0 => /\ x.attempts = (IF s.attempt > a.attempts THEN s.attempt ELSE a.attempts)
                             /\ x.started = (a.started \/ (Accepts(t, s) /\ s.phase = "active"))
                             /\ x.ended = (IF Accepts(t, s) /\ Terminal(s) THEN s.turn ELSE a.ended)
                             /\ x.stalled = (IF s.phase = "active" THEN 0
                                             ELSE IF s.phase = "idle" /\ a.flight = s.turn THEN s.turn ELSE a.stalled)
            /\ b.lastPrompt = a.lastPrompt /\ b.prompt = a.prompt /\ b.gate = a.gate
            /\ PromptNew(b, s) => /\ x.prompt = s.prompt /\ x.lastPrompt = s.prompt
                                  /\ a.lastPrompt < s.prompt /\ s.prompt # 0
            /\ ~PromptNew(b, s) => x.prompt = a.prompt /\ x.lastPrompt = a.lastPrompt
            /\ a.gate <= x.gate /\ s.gate <= x.gate
            /\ c.health = t.health /\ c.alerted = t.alerted /\ c.episode = t.episode
            /\ x.episode = Episode(t, s) /\ x.rev = s.rev
            /\ s.health = Nothing => x.health = t.health /\ x.alerted = t.alerted /\ x.episode = t.episode
            /\ s.health # Nothing => /\ x.health = s.health /\ x.alerted = Sick(s)
                                     /\ t.alerted => x.episode = t.episode
<1> DEFINE a == FirstTrack(t, s)
           b == SecondTrack(t, s)
           p == PromptTrack(b, s)
           c == ThirdTrack(t, s)
           x == LastTrack(t, s)
<1>1. /\ a \in Track /\ TrackOk(a)
      /\ a.turn = (IF s.turn = 0 THEN t.turn ELSE s.turn)
      /\ a.turn = t.turn => a = t
      /\ a.turn # t.turn => a.attempts = 0 /\ a.ended = 0 /\ a.prompt = 0
      /\ a.started = t.started /\ a.flight = t.flight /\ a.stalled = t.stalled
      /\ a.lastPrompt = t.lastPrompt /\ a.gate = t.gate
      /\ a.health = t.health /\ a.alerted = t.alerted /\ a.episode = t.episode
  <2>1. CASE s.turn = 0
    BY <2>1 DEF FirstTrack
  <2>2. CASE s.turn # 0
    <3>1. a = AtTurn(t, s)
      BY <2>2 DEF FirstTrack
    <3> QED
      BY <2>2, <3>1, AtTurnParts
  <2> QED
    BY <2>1, <2>2
<1>2. Accepts(t, s) \in BOOLEAN
  BY DEF Accepts, Snapshot
<1> HIDE DEF a
<1>3. /\ b \in Track /\ TrackOk(b) /\ b.turn = a.turn
      /\ b.prompt = a.prompt /\ b.lastPrompt = a.lastPrompt /\ b.gate = a.gate
      /\ b.health = a.health /\ b.alerted = a.alerted /\ b.episode = a.episode
      /\ s.turn = 0 => /\ b.attempts = a.attempts /\ b.started = a.started /\ b.ended = a.ended
                       /\ b.stalled = (IF a.flight # 0 THEN a.flight ELSE a.stalled)
      /\ s.turn # 0 => /\ b.attempts = (IF s.attempt > a.attempts THEN s.attempt ELSE a.attempts)
                       /\ b.started = (a.started \/ (Accepts(t, s) /\ s.phase = "active"))
                       /\ b.ended = (IF Accepts(t, s) /\ Terminal(s) THEN s.turn ELSE a.ended)
                       /\ b.stalled = (IF s.phase = "active" THEN 0
                                       ELSE IF s.phase = "idle" /\ a.flight = s.turn THEN s.turn ELSE a.stalled)
  <2>1. CASE s.turn = 0
    <3>1. b = GoneTrack(a)
      BY <2>1 DEF SecondTrack, a
    <3> HIDE DEF b
    <3> QED
      BY <1>1, <2>1, <3>1, GoneTrackParts
  <2>2. CASE s.turn # 0
    <3>1. b = TurnTrack(a, s, Accepts(t, s))
      BY <2>2 DEF SecondTrack, a
    <3> HIDE DEF b
    <3> QED
      BY <1>1, <1>2, <2>2, <3>1, TurnTrackParts
  <2> QED
    BY <2>1, <2>2
<1> HIDE DEF b
<1>4. /\ p \in Track /\ TrackOk(p) /\ p.turn = b.turn /\ p.gate = b.gate
      /\ p.health = b.health /\ p.alerted = b.alerted /\ p.episode = b.episode
      /\ p.attempts = b.attempts /\ p.started = b.started /\ p.ended = b.ended /\ p.stalled = b.stalled
      /\ PromptNew(b, s) => /\ p.prompt = s.prompt /\ p.lastPrompt = s.prompt
                            /\ b.lastPrompt < s.prompt /\ s.prompt # 0
      /\ ~PromptNew(b, s) => p = b
  <2>1. s.turn # 0 => b.turn = s.turn
    BY <1>1, <1>3
  <2>2. s.prompt # 0 => b.lastPrompt <= s.prompt
    BY <1>1, <1>3 DEF Ahead
  <2> HIDE DEF p
  <2> QED
    BY <1>3, <2>1, <2>2, PromptTrackParts DEF p
<1> HIDE DEF p
<1>5. /\ c \in Track /\ TrackOk(c) /\ c.turn = p.turn
      /\ c.prompt = p.prompt /\ c.lastPrompt = p.lastPrompt
      /\ c.health = p.health /\ c.alerted = p.alerted /\ c.episode = p.episode
      /\ c.attempts = p.attempts /\ c.started = p.started /\ c.ended = p.ended /\ c.stalled = p.stalled
      /\ p.gate <= c.gate /\ s.gate <= c.gate
  <2>1. c = GateTrack(p, s)
    BY DEF ThirdTrack, p, b
  <2> HIDE DEF c
  <2> QED
    BY <1>4, <2>1, GateTrackParts
<1> HIDE DEF c
<1>6. /\ x \in Track /\ TrackOk(x)
      /\ x.rev = s.rev /\ x.turn = c.turn /\ x.prompt = c.prompt /\ x.lastPrompt = c.lastPrompt /\ x.gate = c.gate
      /\ x.attempts = c.attempts /\ x.started = c.started /\ x.ended = c.ended /\ x.stalled = c.stalled
      /\ s.health = Nothing => x.health = c.health /\ x.alerted = c.alerted /\ x.episode = c.episode
      /\ s.health # Nothing => /\ x.health = s.health /\ x.alerted = Sick(s)
                               /\ c.alerted => x.episode = c.episode
  <2>1. x = [EndpointTrack([c EXCEPT !.model = s.model], s) EXCEPT !.rev = s.rev]
    BY DEF LastTrack, c
  <2> HIDE DEF x
  <2> QED
    BY <1>5, <2>1, EndpointTrackParts
<1>7. x.episode = Episode(t, s)
  <2> DEFINE u == [c EXCEPT !.model = s.model]
             w == EndpointTrack(u, s)
             episode == IF Sick(s) /\ ~u.alerted /\ u.health \in {Nothing, "ok"} THEN u.episode + 1 ELSE u.episode
  <2>1. x = [w EXCEPT !.rev = s.rev] /\ Episode(t, s) = w.episode
    BY DEF LastTrack, Episode, c
  <2>2. w = IF s.health = Nothing THEN u ELSE [u EXCEPT !.health = s.health, !.alerted = Sick(s), !.episode = episode]
    BY DEF EndpointTrack
  <2>3. u = [u EXCEPT !.model = s.model]
    BY <1>5 DEF Track
  <2>4. x.episode = w.episode
    <3> HIDE DEF u, x, episode
    <3> QED
      BY <2>1, <2>2, <2>3
  <2> QED
    BY <2>1, <2>4
<1> HIDE DEF x
<1>8. x.turn = a.turn /\ b.turn = a.turn /\ a.gate <= x.gate /\ s.gate <= x.gate
  BY <1>3, <1>4, <1>5, <1>6
<1>9. /\ x.attempts = b.attempts /\ x.started = b.started /\ x.ended = b.ended /\ x.stalled = b.stalled
      /\ x.prompt = p.prompt /\ x.lastPrompt = p.lastPrompt
  BY <1>4, <1>5, <1>6
<1>10. c.health = t.health /\ c.alerted = t.alerted /\ c.episode = t.episode
  BY <1>1, <1>3, <1>4, <1>5
<1>11. /\ PromptNew(b, s) => /\ x.prompt = s.prompt /\ x.lastPrompt = s.prompt
                             /\ a.lastPrompt < s.prompt /\ s.prompt # 0
       /\ ~PromptNew(b, s) => x.prompt = a.prompt /\ x.lastPrompt = a.lastPrompt
  BY <1>3, <1>4, <1>9
<1> QED
  BY <1>1, <1>2, <1>3, <1>5, <1>6, <1>7, <1>8, <1>9, <1>10, <1>11 DEF a, b, c, x
\* The events, one by one.
LEMMA ObservedEvents ==
  ASSUME NEW t, NEW s, NEW e \in Observed(t, s).events
  PROVE  LET a == FirstTrack(t, s)
         IN \/ s.turn # 0 /\ s.attempt > a.attempts /\ e = Event(s, "retry-needed", <<s.attempt>>)
            \/ s.turn # 0 /\ ~a.started /\ Accepts(t, s) /\ s.phase = "active" /\ e = Event(s, "started", <<>>)
            \/ /\ s.turn # 0 /\ Accepts(t, s) /\ s.phase = "complete" /\ a.ended # s.turn
               /\ e = Event(s, "complete", <<>>)
            \/ s.turn # 0 /\ e = Event(s, "stalled", <<>>)
            \/ s.turn = 0 /\ e = Event(s, "stalled", <<a.flight>>)
            \/ PromptNew(SecondTrack(t, s), s) /\ e = Event(s, "prompt", <<s.prompt>>)
            \/ GateNew(SecondTrack(t, s), s) /\ e = Event(s, "question", <<>>)
            \/ e = Event(s, "model", <<SecondTrack(t, s).model, s.model>>)
            \/ e = Event(s, "endpoint", <<s.health, Episode(t, s)>>)
<1>1. e \in TurnPart(t, s) \/ e \in OtherPart(t, s)
  BY ObservedStages
<1>2. CASE e \in OtherPart(t, s)
  BY <1>2 DEF OtherPart, When
<1>3. CASE e \in TurnPart(t, s)
  BY <1>3 DEF TurnPart, TurnEvents, GoneEvents, When
<1> QED
  BY <1>1, <1>2, <1>3

LEMMA KindsDiffer ==
  ASSUME NEW t, NEW s, NEW e \in Observed(t, s).events, NEW f \in Observed(t, s).events, e.kind = f.kind
  PROVE  e = f
BY ObservedEvents DEF Event

LEMMA EventNumbers ==
  ASSUME BridgeConstants, NEW t, NEW s \in Snapshot, NEW e \in Observed(t, s).events
  PROVE  NatEvent(e)
<1>1. s.turn \in Nat /\ s.gate \in Nat
  BY BridgeNumbers DEF Snapshot
<1>2. e.turn = s.turn /\ e.gate = s.gate
  BY ObservedEvents DEF Event
<1> QED
  BY <1>1, <1>2 DEF NatEvent

\* What the track notes, it goes on noting.
LEMMA NotedStays ==
  ASSUME BridgeConstants, NEW t \in Track, NEW s \in Snapshot, TrackOk(t), Ahead(t, s),
         NEW e, NatEvent(e), Noted(t, e)
  PROVE  Noted(LastTrack(t, s), e)
<1> DEFINE a == FirstTrack(t, s)
           b == SecondTrack(t, s)
           x == LastTrack(t, s)
<1>1. /\ a \in Track /\ x \in Track /\ TrackOk(x)
      /\ a.turn = (IF s.turn = 0 THEN t.turn ELSE s.turn) /\ x.turn = a.turn
      /\ a.turn = t.turn => a = t
      /\ a.turn # t.turn => a.attempts = 0 /\ a.ended = 0
      /\ a.started = t.started /\ a.lastPrompt = t.lastPrompt /\ a.gate = t.gate
  BY ObservedTracks
<1>2. /\ s.turn = 0 => x.attempts = a.attempts /\ x.started = a.started /\ x.ended = a.ended
      /\ s.turn # 0 => /\ x.attempts = (IF s.attempt > a.attempts THEN s.attempt ELSE a.attempts)
                       /\ x.started = (a.started \/ (Accepts(t, s) /\ s.phase = "active"))
                       /\ x.ended = (IF Accepts(t, s) /\ Terminal(s) THEN s.turn ELSE a.ended)
  BY ObservedTracks
<1>3. /\ PromptNew(b, s) => x.lastPrompt = s.prompt /\ a.lastPrompt < s.prompt
      /\ ~PromptNew(b, s) => x.lastPrompt = a.lastPrompt
      /\ a.gate <= x.gate
  BY ObservedTracks
<1>4. s.turn \in Nat /\ s.attempt \in Nat /\ s.prompt \in Nat
  BY BridgeNumbers DEF Snapshot
<1>5. e.turn \in Nat /\ e.gate \in Nat
  BY DEF NatEvent
<1>6. t.turn <= x.turn
  BY <1>1, <1>4 DEF Ahead, Track
<1> HIDE DEF a, b, x
<1>7. CASE e.kind = "started" /\ t.started
  BY <1>1, <1>2, <1>7 DEF Noted, x
<1>8. CASE e.kind = "complete" /\ (e.turn < t.turn \/ e.turn = t.ended)
  <2>1. CASE e.turn < x.turn
    BY <1>8, <2>1 DEF Noted, x
  <2>2. CASE ~(e.turn < x.turn)
    <3>1. e.turn = t.ended
      BY <1>1, <1>5, <1>6, <1>8, <2>2 DEF Track
    <3>2. x.turn = t.turn
      BY <1>1, <1>5, <1>6, <2>2, <3>1 DEF TrackOk, Track
    <3>3. e.turn = t.turn
      BY <1>1, <1>5, <2>2, <3>1, <3>2 DEF TrackOk, Track
    <3>4. a = t
      BY <1>1, <3>2
    <3>5. x.ended = e.turn
      BY <1>1, <1>2, <3>1, <3>2, <3>3, <3>4
    <3> QED
      BY <1>8, <3>5 DEF Noted, x
  <2> QED
    BY <2>1, <2>2
<1>9. CASE /\ e.kind = "retry-needed"
           /\ e.turn < t.turn \/ (e.turn = t.turn /\ \E n \in 0..t.attempts : e.part = <<n>>)
  <2>1. CASE e.turn < x.turn
    BY <1>9, <2>1 DEF Noted, x
  <2>2. CASE ~(e.turn < x.turn)
    <3>1. e.turn = t.turn /\ x.turn = t.turn
      BY <1>1, <1>5, <1>6, <1>9, <2>2 DEF Track
    <3>2. PICK n \in 0..t.attempts : e.part = <<n>>
      BY <1>5, <1>9, <3>1
    <3>3. t.attempts <= x.attempts /\ t.attempts \in Nat /\ x.attempts \in Nat
      BY <1>1, <1>2, <1>4, <3>1 DEF Track
    <3>4. n \in 0..x.attempts
      BY <3>3
    <3> QED
      BY <1>9, <3>1, <3>2, <3>4 DEF Noted, x
  <2> QED
    BY <2>1, <2>2
<1>10. CASE e.kind = "prompt" /\ \E n \in 0..t.lastPrompt : e.part = <<n>>
  <2>1. PICK n \in 0..t.lastPrompt : e.part = <<n>>
    BY <1>10
  <2>2. t.lastPrompt <= x.lastPrompt /\ t.lastPrompt \in Nat /\ x.lastPrompt \in Nat
    BY <1>1, <1>3, <1>4 DEF Track
  <2>3. n \in 0..x.lastPrompt
    BY <2>2
  <2> QED
    BY <1>10, <2>1, <2>3 DEF Noted, x
<1>11. CASE e.kind = "question" /\ e.gate <= t.gate
  <2>1. e.gate <= x.gate
    BY <1>1, <1>3, <1>5, <1>11 DEF Track
  <2> QED
    BY <1>11, <2>1 DEF Noted, x
<1> QED
  BY <1>7, <1>8, <1>9, <1>10, <1>11 DEF Noted

\* An event is of an episode that the track had not noted, and now has.
LEMMA EventsAreNew ==
  ASSUME BridgeConstants, NEW t \in Track, NEW s \in Snapshot, TrackOk(t), Ahead(t, s),
         NEW e \in Observed(t, s).events, e.kind \in OnceKinds
  PROVE  Noted(LastTrack(t, s), e) /\ ~Noted(t, e)
<1> DEFINE a == FirstTrack(t, s)
           b == SecondTrack(t, s)
           x == LastTrack(t, s)
<1>1. /\ a \in Track /\ b \in Track /\ x \in Track
      /\ a.turn = (IF s.turn = 0 THEN t.turn ELSE s.turn) /\ x.turn = a.turn
      /\ a.turn = t.turn => a = t
      /\ a.started = t.started /\ a.lastPrompt = t.lastPrompt /\ a.gate = t.gate
  BY ObservedTracks
<1>2. /\ s.turn # 0 => /\ x.attempts = (IF s.attempt > a.attempts THEN s.attempt ELSE a.attempts)
                       /\ x.started = (a.started \/ (Accepts(t, s) /\ s.phase = "active"))
                       /\ x.ended = (IF Accepts(t, s) /\ Terminal(s) THEN s.turn ELSE a.ended)
  BY ObservedTracks
<1>3. /\ PromptNew(b, s) => x.lastPrompt = s.prompt /\ a.lastPrompt < s.prompt
      /\ b.gate = a.gate /\ s.gate <= x.gate
  BY ObservedTracks
<1>4. s.turn \in Nat /\ s.attempt \in Nat /\ s.prompt \in Nat /\ s.gate \in Nat
  BY BridgeNumbers DEF Snapshot
<1>5. s.turn # 0 => t.turn <= s.turn
  BY DEF Ahead
<1>6. \/ s.turn # 0 /\ s.attempt > a.attempts /\ e = Event(s, "retry-needed", <<s.attempt>>)
      \/ s.turn # 0 /\ ~a.started /\ Accepts(t, s) /\ s.phase = "active" /\ e = Event(s, "started", <<>>)
      \/ /\ s.turn # 0 /\ Accepts(t, s) /\ s.phase = "complete" /\ a.ended # s.turn
         /\ e = Event(s, "complete", <<>>)
      \/ PromptNew(b, s) /\ e = Event(s, "prompt", <<s.prompt>>)
      \/ GateNew(b, s) /\ e = Event(s, "question", <<>>)
  BY ObservedEvents DEF OnceKinds, Event
<1> HIDE DEF a, b, x
<1>7. CASE s.turn # 0 /\ s.attempt > a.attempts /\ e = Event(s, "retry-needed", <<s.attempt>>)
  <2>1. e.kind = "retry-needed" /\ e.turn = s.turn /\ e.part = <<s.attempt>>
    BY <1>7 DEF Event
  <2>2. e.turn = x.turn /\ s.attempt \in 0..x.attempts
    BY <1>1, <1>2, <1>4, <1>7, <2>1
  <2>3. Noted(x, e)
    BY <2>1, <2>2 DEF Noted
  <2>4. ASSUME e.turn = t.turn, NEW n \in 0..t.attempts, e.part = <<n>>
        PROVE  FALSE
    <3>1. a = t
      BY <1>1, <1>7, <2>1, <2>4
    <3>2. s.attempt = n
      BY <2>1, <2>4
    <3> QED
      BY <1>4, <1>7, <2>4, <3>1, <3>2 DEF Track
  <2>5. ~(e.turn < t.turn)
    BY <1>4, <1>5, <1>7, <2>1 DEF Track
  <2> QED
    BY <2>1, <2>3, <2>4, <2>5 DEF Noted, x
<1>8. CASE s.turn # 0 /\ ~a.started /\ Accepts(t, s) /\ s.phase = "active" /\ e = Event(s, "started", <<>>)
  <2>1. e.kind = "started"
    BY <1>8 DEF Event
  <2> QED
    BY <1>1, <1>2, <1>8, <2>1 DEF Noted, x
<1>9. CASE /\ s.turn # 0 /\ Accepts(t, s) /\ s.phase = "complete" /\ a.ended # s.turn
           /\ e = Event(s, "complete", <<>>)
  <2>1. e.kind = "complete" /\ e.turn = s.turn
    BY <1>9 DEF Event
  <2>2. x.ended = s.turn
    BY <1>2, <1>9 DEF Terminal
  <2>3. ~(s.turn < t.turn)
    BY <1>4, <1>5, <1>9 DEF Track
  <2>4. s.turn # t.ended
    <3>1. CASE s.turn = t.turn
      BY <1>1, <1>9, <3>1
    <3>2. CASE s.turn # t.turn
      BY <1>9, <3>2 DEF TrackOk
    <3> QED
      BY <3>1, <3>2
  <2> QED
    BY <2>1, <2>2, <2>3, <2>4 DEF Noted, x
<1>10. CASE PromptNew(b, s) /\ e = Event(s, "prompt", <<s.prompt>>)
  <2>1. e.kind = "prompt" /\ e.part = <<s.prompt>>
    BY <1>10 DEF Event
  <2>2. s.prompt \in 0..x.lastPrompt
    BY <1>3, <1>4, <1>10
  <2>3. ASSUME NEW n \in 0..t.lastPrompt, e.part = <<n>>
        PROVE  FALSE
    <3>1. s.prompt = n
      BY <2>1, <2>3
    <3> QED
      BY <1>1, <1>3, <1>4, <1>10, <2>3, <3>1 DEF Track
  <2> QED
    BY <2>1, <2>2, <2>3 DEF Noted, x
<1>11. CASE GateNew(b, s) /\ e = Event(s, "question", <<>>)
  <2>1. e.kind = "question" /\ e.gate = s.gate
    BY <1>11 DEF Event
  <2>2. ~(s.gate <= t.gate)
    <3>1. s.gate > b.gate
      BY <1>11 DEF GateNew
    <3>2. t.gate \in Nat /\ b.gate = t.gate
      BY <1>1, <1>3 DEF Track
    <3> QED
      BY <1>4, <3>1, <3>2
  <2> QED
    BY <1>3, <2>1, <2>2 DEF Noted, x
<1> QED
  BY <1>6, <1>7, <1>8, <1>9, <1>10, <1>11
\* What the track holds for told is told before, or by these events.
LEMMA ReportedStays ==
  ASSUME BridgeConstants, NEW t \in Track, NEW s \in Snapshot, TrackOk(t), Ahead(t, s),
         NEW T, NEW S, Reported(t, T, S)
  PROVE  Reported(LastTrack(t, s), T \cup Observed(t, s).events,
                  S \cup (IF Observed(t, s).fails THEN {s.turn} ELSE {}))
<1> DEFINE a == FirstTrack(t, s)
           b == SecondTrack(t, s)
           c == ThirdTrack(t, s)
           x == LastTrack(t, s)
           news == Observed(t, s).events
           fails == Observed(t, s).fails
           T2 == T \cup news
           S2 == S \cup (IF fails THEN {s.turn} ELSE {})
<1>1. /\ a \in Track /\ x \in Track
      /\ a.turn = (IF s.turn = 0 THEN t.turn ELSE s.turn)
      /\ a.turn = t.turn => a = t
      /\ a.turn # t.turn => a.ended = 0 /\ a.prompt = 0
      /\ a.started = t.started /\ a.flight = t.flight /\ a.stalled = t.stalled
  BY ObservedTracks
<1>2. /\ s.turn = 0 => /\ x.started = a.started /\ x.ended = a.ended
                       /\ x.stalled = (IF a.flight # 0 THEN a.flight ELSE a.stalled)
      /\ s.turn # 0 => /\ x.started = (a.started \/ (Accepts(t, s) /\ s.phase = "active"))
                       /\ x.ended = (IF Accepts(t, s) /\ Terminal(s) THEN s.turn ELSE a.ended)
                       /\ x.stalled = (IF s.phase = "active" THEN 0
                                       ELSE IF s.phase = "idle" /\ a.flight = s.turn THEN s.turn ELSE a.stalled)
  BY ObservedTracks
<1>3. /\ PromptNew(b, s) => x.prompt = s.prompt
      /\ ~PromptNew(b, s) => x.prompt = a.prompt
  BY ObservedTracks
<1>4. /\ c.health = t.health /\ c.alerted = t.alerted /\ x.episode = Episode(t, s)
      /\ s.health = Nothing => x.health = t.health /\ x.alerted = t.alerted /\ x.episode = t.episode
      /\ s.health # Nothing => /\ x.health = s.health /\ x.alerted = Sick(s)
                               /\ t.alerted => x.episode = t.episode
  BY ObservedTracks
<1>5. news = TurnPart(t, s) \cup OtherPart(t, s)
      /\ fails = (s.turn # 0 /\ TurnFails(a, s, Accepts(t, s)))
  BY ObservedStages
<1>6. /\ s.turn = 0 => TurnPart(t, s) = GoneEvents(a, s)
      /\ s.turn # 0 => TurnPart(t, s) = TurnEvents(a, s, Accepts(t, s))
  BY DEF TurnPart
<1>7. /\ PromptNew(b, s) => Event(s, "prompt", <<s.prompt>>) \in news
      /\ EndpointNew(c, s) => Event(s, "endpoint", <<s.health, Episode(t, s)>>) \in news
  BY <1>5 DEF OtherPart, When
<1>8. /\ t.ended # 0 => (\E e \in T2 : e.kind = "complete" /\ e.turn = t.ended) \/ t.ended \in S2
      /\ t.started => \E e \in T2 : e.kind = "started"
      /\ t.stalled # 0 => \E e \in T2 : e.kind = "stalled"
      /\ t.prompt # 0 => \E e \in T2 : e.kind = "prompt" /\ e.part = <<t.prompt>>
      /\ t.alerted => \E e \in T2 : /\ e.kind = "endpoint" /\ e.part[2] = t.episode
                                    /\ t.health = "failed" => e.part[1] = "failed"
  <2> HIDE DEF news, fails
  <2> QED
    BY DEF Reported
<1>9. s.turn \in Nat /\ s.health \in Healths \cup {Nothing}
  BY BridgeNumbers DEF Snapshot
<1>10. news \subseteq T2 /\ (fails => s.turn \in S2)
  OBVIOUS
<1> HIDE DEF a, b, c, x, news, fails, T2, S2
<1>11. ASSUME x.ended # 0
       PROVE  (\E e \in T2 : e.kind = "complete" /\ e.turn = x.ended) \/ x.ended \in S2
  <2>1. CASE x.ended = a.ended
    BY <1>1, <1>8, <1>11, <2>1
  <2>2. CASE x.ended # a.ended
    <3>1. s.turn # 0 /\ Accepts(t, s) /\ Terminal(s) /\ x.ended = s.turn /\ a.ended # s.turn
      BY <1>2, <2>2
    <3>2. CASE s.phase = "complete"
      <4>1. Event(s, "complete", <<>>) \in news
        BY <1>5, <1>6, <3>1, <3>2 DEF TurnEvents, When
      <4> QED
        BY <1>10, <3>1, <4>1 DEF Event
    <3>3. CASE s.phase = "failed"
      BY <1>5, <1>10, <3>1, <3>3 DEF TurnFails
    <3> QED
      BY <3>1, <3>2, <3>3 DEF Terminal
  <2> QED
    BY <2>1, <2>2
<1>12. ASSUME x.started
       PROVE  \E e \in T2 : e.kind = "started"
  <2>1. CASE t.started
    BY <1>8, <2>1
  <2>2. CASE ~t.started
    <3>1. s.turn # 0 /\ Accepts(t, s) /\ s.phase = "active" /\ ~a.started
      BY <1>1, <1>2, <1>12, <2>2
    <3>2. Event(s, "started", <<>>) \in news
      BY <1>5, <1>6, <3>1 DEF TurnEvents, When
    <3> QED
      BY <1>10, <3>2 DEF Event
  <2> QED
    BY <2>1, <2>2
<1>13. ASSUME x.stalled # 0
       PROVE  \E e \in T2 : e.kind = "stalled"
  <2>1. CASE t.stalled # 0
    BY <1>8, <2>1
  <2>2. CASE t.stalled = 0
    <3>1. CASE s.turn = 0
      <4>1. Event(s, "stalled", <<a.flight>>) \in news
        BY <1>1, <1>2, <1>5, <1>6, <1>13, <2>2, <3>1 DEF GoneEvents, When
      <4> QED
        BY <1>10, <4>1 DEF Event
    <3>2. CASE s.turn # 0
      <4>1. Event(s, "stalled", <<>>) \in news
        BY <1>1, <1>2, <1>5, <1>6, <1>13, <2>2, <3>2 DEF TurnEvents, When
      <4> QED
        BY <1>10, <4>1 DEF Event
    <3> QED
      BY <3>1, <3>2
  <2> QED
    BY <2>1, <2>2
<1>14. ASSUME x.prompt # 0
       PROVE  \E e \in T2 : e.kind = "prompt" /\ e.part = <<x.prompt>>
  <2>1. CASE PromptNew(b, s)
    BY <1>3, <1>7, <1>10, <2>1 DEF Event
  <2>2. CASE ~PromptNew(b, s)
    BY <1>1, <1>3, <1>8, <1>14, <2>2
  <2> QED
    BY <2>1, <2>2
<1>15. ASSUME x.alerted
       PROVE  \E e \in T2 : /\ e.kind = "endpoint" /\ e.part[2] = x.episode
                            /\ x.health = "failed" => e.part[1] = "failed"
  <2>1. CASE s.health = Nothing
    BY <1>4, <1>8, <1>15, <2>1
  <2>2. CASE s.health # Nothing /\ EndpointNew(c, s)
    <3> DEFINE e == Event(s, "endpoint", <<s.health, Episode(t, s)>>)
    <3>1. e \in T2
      BY <1>7, <1>10, <2>2
    <3>2. e.kind = "endpoint" /\ e.part[2] = x.episode /\ e.part[1] = x.health
      BY <1>4, <2>2 DEF Event
    <3> QED
      BY <3>1, <3>2
  <2>3. CASE s.health # Nothing /\ ~EndpointNew(c, s)
    <3>1. t.alerted /\ (s.health = "failed" => t.health # "degraded")
      BY <1>4, <1>15, <2>3 DEF EndpointNew
    <3>2. s.health = "failed" => t.health = "failed"
      BY <3>1 DEF TrackOk
    <3>3. PICK e \in T2 : /\ e.kind = "endpoint" /\ e.part[2] = t.episode
                          /\ t.health = "failed" => e.part[1] = "failed"
      BY <1>8, <3>1
    <3> QED
      BY <1>4, <2>3, <3>1, <3>2, <3>3
  <2> QED
    BY <2>1, <2>2, <2>3
<1>16. Reported(x, T2, S2)
  BY <1>11, <1>12, <1>13, <1>14, <1>15 DEF Reported
<1> QED
  BY <1>16 DEF x, T2, S2, news, fails
-----------------------------------------------------------------------------
(* The snapshots and what follows them.                                        *)

LEMMA FewerOrdered ==
  ASSUME NEW A, NEW B, NEW session, OrderedAll(A, session), B \subseteq A, session \in B
  PROVE  OrderedAll(B, session)
BY DEF OrderedAll

LEMMA FewerFollowed ==
  ASSUME NEW t, NEW A, NEW B, NEW session, Follows(t, A, session), B \subseteq A
  PROVE  Follows(t, B, session)
BY DEF Follows

\* A full read: like the session, but without a prompt.
LEMMA ShotTaken ==
  ASSUME NEW A, NEW session \in Session, OrderedAll(A, session), NEW x,
         x.rev = session.rev, x.turn = session.turn, x.prompt \in {0, session.prompt}
  PROVE  /\ OrderedAll(A \cup {x}, session)
         /\ \A t : Follows(t, A, session) => Follows(t, A \cup {x}, session)
<1>1. session \in A /\ (\A s, r \in A : Ordered(s, r))
      /\ \A s \in A : s.rev <= session.rev /\ s.turn <= session.begun /\ s.prompt <= session.prompt
  BY DEF OrderedAll
<1>2. ASSUME NEW s \in A
      PROVE  Ordered(s, x) /\ Ordered(x, s)
  <2>1. Ordered(s, session) /\ Ordered(session, s)
    BY <1>1
  <2> QED
    BY <2>1 DEF Ordered
<1>3. Ordered(x, x)
  <2>1. Ordered(session, session)
    BY <1>1
  <2> QED
    BY <2>1 DEF Ordered
<1>4. OrderedAll(A \cup {x}, session)
  <2>1. \A s, r \in A \cup {x} : Ordered(s, r)
    BY <1>1, <1>2, <1>3
  <2>2. x.rev <= session.rev /\ x.turn <= session.begun
    BY <1>1
  <2>3. x.prompt <= session.prompt
    BY <1>1 DEF Session
  <2> QED
    BY <1>1, <2>1, <2>2, <2>3 DEF OrderedAll
<1>5. ASSUME NEW t, Follows(t, A, session)
      PROVE  Follows(t, A \cup {x}, session)
  <2>1. t.rev <= session.rev => Ahead(t, session)
    BY <1>1, <1>5 DEF Follows
  <2>2. t.rev <= x.rev => Ahead(t, x)
    BY <2>1 DEF Ahead
  <2> QED
    BY <1>5, <2>2 DEF Follows
<1> QED
  BY <1>4, <1>5

\* The session moves on.
LEMMA MovesParts ==
  ASSUME BridgeConstants, sess \in Session, sess.turn \in {0, sess.begun}, NEW next \in Moves
  PROVE  /\ next \in Session
         /\ next.turn \in {0, next.begun} /\ sess.begun <= next.begun /\ sess.prompt <= next.prompt
<1>1. /\ sess.turn \in Turns \cup {0} /\ sess.begun \in Turns \cup {0} /\ sess.prompt \in Nat
      /\ sess.attempt \in Nat /\ sess.gate \in Nat
      /\ \A t \in Turns \cup {0} : t \in Nat
  BY BridgeNumbers DEF Session
<1>2. CASE next \in TurnMoves
  <2> DEFINE flags == IF NextTurn \notin Turns THEN {} ELSE IF "prompt" \in Topics THEN BOOLEAN ELSE {TRUE}
             moves == {[sess EXCEPT !.turn = NextTurn, !.begun = NextTurn, !.phase = "active", !.accepted = a,
                                    !.attempt = 0] : a \in flags}
             phases == {[sess EXCEPT !.phase = p] : p \in IF InTurn THEN Shown \ {sess.phase} ELSE {}}
  <2>1. CASE next \in moves
    <3>1. PICK a \in flags :
                 next = [sess EXCEPT !.turn = NextTurn, !.begun = NextTurn, !.phase = "active", !.accepted = a,
                                     !.attempt = 0]
      BY <2>1
    <3>2. a \in BOOLEAN /\ NextTurn \in Turns
      BY <3>1
    <3>3. next \in Session
      BY <3>1, <3>2 DEF Session, Phases
    <3>4. next.turn = NextTurn /\ next.begun = NextTurn /\ next.prompt = sess.prompt
      BY <3>1 DEF Session
    <3> QED
      BY <1>1, <3>3, <3>4 DEF NextTurn
  <2>2. CASE \E p \in Shown : next = [sess EXCEPT !.phase = p]
    <3>1. PICK p \in Shown : next = [sess EXCEPT !.phase = p]
      BY <2>2
    <3>2. next \in Session
      BY <3>1 DEF Session, Phases, Shown
    <3> QED
      BY <1>1, <3>1, <3>2 DEF Session
  <2>3. CASE next = [sess EXCEPT !.turn = 0, !.phase = "idle"]
    <3>1. next \in Session
      BY <2>3 DEF Session, Phases
    <3> QED
      BY <1>1, <2>3, <3>1 DEF Session
  <2>4. CASE next \in phases
    BY <2>2, <2>4
  <2>5. TurnMoves = moves \cup phases \cup {[sess EXCEPT !.turn = 0, !.phase = "idle"]}
    BY DEF TurnMoves
  <2> HIDE DEF moves, phases
  <2> QED
    BY <1>2, <2>1, <2>3, <2>4, <2>5
<1>3. CASE next \in RetryMoves
  <2>1. next = [sess EXCEPT !.attempt = sess.attempt + 1]
    BY <1>3 DEF RetryMoves
  <2> QED
    BY <1>1, <2>1 DEF Session
<1>4. CASE next \in PromptMoves
  <2>1. next = [sess EXCEPT !.prompt = sess.prompt + 1]
    BY <1>4 DEF PromptMoves
  <2> QED
    BY <1>1, <2>1 DEF Session
<1>5. CASE next \in GateMoves
  <2>1. next = [sess EXCEPT !.open = FALSE] \/ next = [sess EXCEPT !.gate = sess.gate + 1, !.open = TRUE]
    BY <1>5 DEF GateMoves
  <2>2. CASE next = [sess EXCEPT !.open = FALSE]
    <3>1. next \in Session
      BY <2>2 DEF Session
    <3> QED
      BY <1>1, <2>2, <3>1 DEF Session
  <2>3. CASE next = [sess EXCEPT !.gate = sess.gate + 1, !.open = TRUE]
    <3>1. ASSUME NEW g \in Nat, NEW o \in BOOLEAN
          PROVE  [sess EXCEPT !.gate = g, !.open = o] \in Session
      BY DEF Session
    <3>2. sess.gate + 1 \in Nat
      BY <1>1
    <3>3. next \in Session
      BY <2>3, <3>1, <3>2
    <3> QED
      BY <1>1, <2>3, <3>3 DEF Session
  <2> QED
    BY <2>1, <2>2, <2>3
<1>6. CASE next \in ModelMoves
  <2>1. PICK m \in Models : next = [sess EXCEPT !.model = m]
    BY <1>6 DEF ModelMoves
  <2> QED
    BY <1>1, <2>1 DEF Session
<1>7. CASE next \in HealthMoves
  <2>1. PICK h \in Healths : next = [sess EXCEPT !.health = h]
    BY <1>7 DEF HealthMoves
  <2> QED
    BY <1>1, <2>1 DEF Session
<1>8. next \in TurnMoves \cup RetryMoves \cup PromptMoves \cup GateMoves \cup ModelMoves \cup HealthMoves
  <2> DEFINE Of(topic) ==
        CASE topic = "turn" -> TurnMoves [] topic = "retry" -> RetryMoves
          [] topic = "prompt" -> PromptMoves [] topic = "gate" -> GateMoves
          [] topic = "model" -> ModelMoves [] topic = "endpoint" -> HealthMoves
  <2>0. Moves = UNION {Of(topic) : topic \in Topics}
    BY DEF Moves
  <2> HIDE DEF Of
  <2>1. PICK topic \in Topics : next \in Of(topic)
    BY <2>0
  <2>2. topic \in {"turn", "retry", "prompt", "gate", "model", "endpoint"}
    BY BridgeNumbers
  <2>3. CASE topic = "turn"
    BY <2>1, <2>3 DEF Of
  <2>4. CASE topic = "retry"
    BY <2>1, <2>4 DEF Of
  <2>5. CASE topic = "prompt"
    BY <2>1, <2>5 DEF Of
  <2>6. CASE topic = "gate"
    BY <2>1, <2>6 DEF Of
  <2>7. CASE topic = "model"
    BY <2>1, <2>7 DEF Of
  <2>8. CASE topic = "endpoint"
    BY <2>1, <2>8 DEF Of
  <2> QED
    BY <2>2, <2>3, <2>4, <2>5, <2>6, <2>7, <2>8
<1> QED
  BY <1>2, <1>3, <1>4, <1>5, <1>6, <1>7, <1>8

\* The session's new state among the snapshots there are.
LEMMA SessionMoved ==
  ASSUME NEW A, NEW B, NEW old \in Session, NEW new \in Session, BridgeConstants,
         OrderedAll(A, old), A \subseteq Snapshot, B \subseteq A,
         new.rev = old.rev + 1, new.turn \in {0, new.begun}, old.begun <= new.begun, old.prompt <= new.prompt
  PROVE  /\ OrderedAll(B \cup {new}, new)
         /\ \A t \in Track : Follows(t, A, old) => Follows(t, B \cup {new}, new)
<1>1. /\ old.rev \in Nat /\ old.begun \in Nat /\ old.prompt \in Nat
      /\ new.rev \in Nat /\ new.begun \in Nat /\ new.prompt \in Nat /\ new.turn \in Nat
  BY BridgeNumbers DEF Session
<1>2. ASSUME NEW s \in B
      PROVE  /\ s.rev \in Nat /\ s.turn \in Nat /\ s.prompt \in Nat
             /\ s.rev <= old.rev /\ s.turn <= old.begun /\ s.prompt <= old.prompt
  BY BridgeNumbers DEF Snapshot, OrderedAll
<1>3. ASSUME NEW s \in B
      PROVE  /\ Ordered(s, new) /\ Ordered(new, s)
             /\ s.rev <= new.rev /\ s.turn <= new.begun /\ s.prompt <= new.prompt
  BY <1>1, <1>2 DEF Ordered
<1>4. Ordered(new, new)
  BY <1>1 DEF Ordered
<1>5. OrderedAll(B \cup {new}, new)
  <2>1. \A s, r \in B : Ordered(s, r)
    BY DEF OrderedAll
  <2>2. \A s, r \in B \cup {new} : Ordered(s, r)
    BY <1>3, <1>4, <2>1
  <2>3. \A s \in B \cup {new} : s.rev <= new.rev /\ s.turn <= new.begun /\ s.prompt <= new.prompt
    BY <1>1, <1>3
  <2> QED
    BY <2>2, <2>3 DEF OrderedAll
<1>6. ASSUME NEW t \in Track, Follows(t, A, old)
      PROVE  Follows(t, B \cup {new}, new)
  <2>1. t.turn <= old.begun /\ t.lastPrompt <= old.prompt /\ t.turn \in Nat /\ t.lastPrompt \in Nat
    BY <1>6 DEF Follows, Track
  <2>2. Ahead(t, new)
    BY <1>1, <2>1 DEF Ahead
  <2>3. t.turn <= new.begun /\ t.lastPrompt <= new.prompt
    BY <1>1, <2>1
  <2> QED
    BY <1>6, <2>2, <2>3 DEF Follows
<1> QED
  BY <1>5, <1>6

\* The track that a snapshot leaves follows the snapshots.
LEMMA LastTrackFollows ==
  ASSUME BridgeConstants, NEW t \in Track, NEW session \in Session, NEW A, A \subseteq Snapshot, NEW s \in A,
         OrderedAll(A, session), TrackOk(t), Follows(t, A, session), t.rev < s.rev
  PROVE  Ahead(t, s) /\ Follows(LastTrack(t, s), A, session)
<1> DEFINE x == LastTrack(t, s)
<1>1. s \in Snapshot /\ s.rev \in Nat /\ s.turn \in Nat /\ s.prompt \in Nat /\ t.rev \in Nat
  BY BridgeNumbers DEF Snapshot, Track
<1>2. Ahead(t, s)
  BY <1>1 DEF Follows
<1>3. /\ x.rev = s.rev /\ x.turn = (IF s.turn = 0 THEN t.turn ELSE s.turn)
      /\ x.lastPrompt = t.lastPrompt \/ (x.lastPrompt = s.prompt /\ s.prompt # 0)
  BY <1>1, <1>2, ObservedTracks
<1> HIDE DEF x
<1>4. x.turn <= session.begun /\ x.lastPrompt <= session.prompt
  BY <1>3 DEF OrderedAll, Follows
<1>5. ASSUME NEW r \in A, x.rev <= r.rev
      PROVE  Ahead(x, r)
  <2>1. r.rev \in Nat
    BY DEF Snapshot
  <2>2. Ahead(t, r)
    BY <1>1, <1>3, <1>5, <2>1 DEF Follows
  <2>3. Ordered(s, r)
    BY DEF OrderedAll
  <2> QED
    BY <1>3, <1>5, <2>2, <2>3 DEF Ahead, Ordered
<1> QED
  BY <1>2, <1>4, <1>5 DEF Follows, x
-----------------------------------------------------------------------------
(* The copies of an episode.                                                   *)

LEMMA EpisodesAgree ==
  ASSUME NEW e, NEW f, SameEpisode(e, f)
  PROVE  /\ SameEpisode(f, e)
         /\ \A g : SameEpisode(e, g) <=> SameEpisode(f, g)
         /\ \A t : Noted(t, e) => Noted(t, f)
<1>1. /\ SameEpisode(f, e)
      /\ \A g : SameEpisode(e, g) <=> SameEpisode(f, g)
  BY DEF SameEpisode
<1>2. ASSUME NEW t, Noted(t, e)
      PROVE  Noted(t, f)
  <2>1. CASE e.kind = "started" \/ e.kind = "question" \/ e.kind = "prompt"
    BY <1>2, <2>1 DEF Noted, SameEpisode
  <2>2. CASE e.kind = "complete" \/ e.kind = "retry-needed"
    BY <1>2, <2>2 DEF Noted, SameEpisode
  <2> QED
    BY <1>2, <2>1, <2>2 DEF Noted
<1> QED
  BY <1>1, <1>2

\* One more event is told: only the copies of its episode are more.
LEMMA CopiesGrow ==
  ASSUME NEW T, IsFiniteSet(T), NEW x, NEW e, NEW n \in Nat
  PROVE  /\ Cardinality(Same(e, T)) \in Nat /\ Cardinality(Same(e, T \cup {x})) \in Nat
         /\ ~SameEpisode(e, x) => Same(e, T \cup {x}) = Same(e, T)
         /\ Cardinality(Same(e, T)) <= n => Cardinality(Same(e, T \cup {x})) <= n + 1
<1> DEFINE A == Same(e, T)
           B == Same(e, T \cup {x})
<1>1. IsFiniteSet(A)
  BY FS_Subset DEF Same
<1>2. ~SameEpisode(e, x) => B = A
  BY DEF Same
<1>3. B \subseteq A \cup {x}
  BY DEF Same
<1> HIDE DEF A, B
<1>4. /\ IsFiniteSet(A \cup {x}) /\ Cardinality(A) \in Nat
      /\ Cardinality(A \cup {x}) = Cardinality(A) \/ Cardinality(A \cup {x}) = Cardinality(A) + 1
  BY <1>1, FS_AddElement, FS_CardinalityType
<1>5. Cardinality(B) <= Cardinality(A \cup {x}) /\ IsFiniteSet(B)
  BY <1>3, <1>4, FS_Subset
<1>6. Cardinality(B) \in Nat /\ Cardinality(A \cup {x}) \in Nat
  BY <1>4, <1>5, FS_CardinalityType
<1> QED
  BY <1>2, <1>4, <1>5, <1>6 DEF A, B

\* A refusal or a crash pays for the first copy, whatever is noted afterwards.
LEMMA PaidByAFault ==
  ASSUME NEW T, IsFiniteSet(T), NEW t, NEW in, NEW n \in Nat, Paid(T, t, in, n)
  PROVE  \A u, out : Paid(T, u, out, n + 1)
<1> SUFFICES ASSUME NEW u, NEW out, NEW e \in T, e.kind \in OnceKinds
             PROVE  Cardinality(Same(e, T)) <= n + 1 + (IF Noted(u, e) \/ Telling(out, e) THEN 1 ELSE 0)
  BY DEF Paid
<1>1. Cardinality(Same(e, T)) \in Nat
  BY CopiesGrow
<1>2. Cardinality(Same(e, T)) <= n + (IF Noted(t, e) \/ Telling(in, e) THEN 1 ELSE 0)
  BY DEF Paid
<1> QED
  BY <1>1, <1>2

\* What was noted or was being told is still noted or being told.
LEMMA PaidStill ==
  ASSUME NEW T, IsFiniteSet(T), NEW t, NEW in, NEW n \in Nat, Paid(T, t, in, n), NEW u, NEW out,
         \A e \in T : Noted(t, e) \/ Telling(in, e) => Noted(u, e) \/ Telling(out, e)
  PROVE  Paid(T, u, out, n)
<1> SUFFICES ASSUME NEW e \in T, e.kind \in OnceKinds
             PROVE  Cardinality(Same(e, T)) <= n + (IF Noted(u, e) \/ Telling(out, e) THEN 1 ELSE 0)
  BY DEF Paid
<1>1. Cardinality(Same(e, T)) \in Nat
  BY CopiesGrow
<1>2. Cardinality(Same(e, T)) <= n + (IF Noted(t, e) \/ Telling(in, e) THEN 1 ELSE 0)
  BY DEF Paid
<1> QED
  BY <1>1, <1>2

\* An intake tells the next of its events.
LEMMA PaidForEvent ==
  ASSUME NEW T, IsFiniteSet(T), NEW S, NEW t, NEW in, NEW out, NEW n \in Nat, Paid(T, t, in, n),
         in.at = "emit", out.at = "emit", out.track = in.track, IntakeSound(in, t, T, S),
         NEW x \in in.events, out.events = in.events \ {x}
  PROVE  Paid(T \cup {x}, t, out, n)
<1>1. /\ \A e, f \in in.events : e.kind = f.kind => e = f
      /\ \A e \in in.events : e.kind \in OnceKinds => Noted(in.track, e) /\ ~Noted(t, e)
  BY DEF IntakeSound
<1> SUFFICES ASSUME NEW e \in T \cup {x}, e.kind \in OnceKinds
             PROVE  Cardinality(Same(e, T \cup {x})) <= n + (IF Noted(t, e) \/ Telling(out, e) THEN 1 ELSE 0)
  BY DEF Paid
<1>2. CASE ~SameEpisode(e, x)
  <2>1. e \in T
    BY <1>2 DEF SameEpisode
  <2>2. Cardinality(Same(e, T)) <= n + (IF Noted(t, e) \/ Telling(in, e) THEN 1 ELSE 0)
    BY <2>1 DEF Paid
  <2>3. Telling(in, e) => Telling(out, e)
    BY DEF Telling
  <2>4. Same(e, T \cup {x}) = Same(e, T) /\ Cardinality(Same(e, T)) \in Nat
    BY <1>2, CopiesGrow
  <2> QED
    BY <2>2, <2>3, <2>4
<1>3. CASE SameEpisode(e, x)
  <2>1. x.kind \in OnceKinds /\ x.kind = e.kind
    BY <1>3 DEF SameEpisode
  <2>2. Telling(out, e)
    <3>1. Noted(in.track, e)
      BY <1>1, <1>3, <2>1, EpisodesAgree
    <3>2. \A f \in out.events : ~SameEpisode(e, f)
      BY <1>1, <2>1 DEF SameEpisode
    <3> QED
      BY <3>1, <3>2 DEF Telling
  <2>3. Cardinality(Same(e, T)) <= n
    <3>1. CASE Same(e, T) = {}
      BY <3>1, FS_EmptySet
    <3>2. CASE Same(e, T) # {}
      <4>1. PICK f \in T : SameEpisode(e, f)
        BY <3>2 DEF Same
      <4>2. Same(f, T) = Same(e, T)
        BY <4>1, EpisodesAgree DEF Same
      <4>3. SameEpisode(f, x) /\ SameEpisode(x, f) /\ f.kind = x.kind
        BY <1>3, <4>1, EpisodesAgree DEF SameEpisode
      <4>4. ~Noted(t, f) /\ ~Telling(in, f)
        BY <1>1, <2>1, <4>3, EpisodesAgree DEF Telling
      <4>5. Cardinality(Same(f, T)) <= n + 0
        BY <2>1, <4>3, <4>4 DEF Paid
      <4> QED
        BY <4>2, <4>5
    <3> QED
      BY <3>1, <3>2
  <2>4. Cardinality(Same(e, T \cup {x})) <= n + 1
    BY <2>3, CopiesGrow
  <2> QED
    BY <2>2, <2>4
<1> QED
  BY <1>2, <1>3
-----------------------------------------------------------------------------
(* The steps of the bridge.                                                    *)

LEMMA MoreReported ==
  ASSUME NEW t, NEW T, NEW S, NEW T2, NEW S2, Reported(t, T, S), T \subseteq T2, S \subseteq S2
  PROVE  Reported(t, T2, S2)
BY DEF Reported

LEMMA BridgeNumbersNow ==
  ASSUME BridgeTypes
  PROVE  /\ mark \in Nat /\ crashes \in Nat /\ refusals \in Nat /\ crashes + refusals \in Nat
         /\ sess \in Session /\ sess.rev \in Nat /\ sess \in Snapshot /\ Shots \subseteq Snapshot
         /\ track \in Track /\ track.rev \in Nat /\ IsFiniteSet(told)
<1>1. sess \in Snapshot
  BY DEF BridgeTypes, Session, Snapshot
<1>2. InTake(ingress) => ingress.snap \in Snapshot
  BY DEF BridgeTypes, IntakeTypes, InTake, NoIngress
<1> QED
  BY <1>1, <1>2 DEF BridgeTypes, Shots, Session, Track

\* There is no intake after the step, and nothing else is forgotten.
LEMMA NoTelling ==
  ASSUME NEW e
  PROVE  ~InTake(NoIngress) /\ ~Telling(NoIngress, e)
BY DEF InTake, NoIngress, Telling

LEMMA BridgeStarts ==
  ASSUME BridgeConstants, BridgeInit
  PROVE  BridgeIInv
<1>1. PICK m \in Models : sess = NewSession(m) \/ (1 \in Turns /\ sess = InFirstTurn(m))
  BY DEF BridgeInit
<1>2. /\ sess \in Session /\ sess.rev = 1 /\ sess.prompt = 0
      /\ sess.turn = sess.begun
  <2>1. CASE sess = NewSession(m)
    BY <2>1 DEF NewSession, Session, Phases, Healths
  <2>2. CASE 1 \in Turns /\ sess = InFirstTurn(m)
    <3>1. sess = [rev |-> 1, turn |-> 1, begun |-> 1, phase |-> "active", accepted |-> TRUE,
                  attempt |-> 0, prompt |-> 0, gate |-> 0, open |-> FALSE, model |-> m, health |-> "ok"]
      BY <2>2 DEF InFirstTurn, NewSession
    <3> QED
      BY <2>2, <3>1 DEF Session, Phases, Healths
  <2> QED
    BY <1>1, <2>1, <2>2
<1>3. track \in Track /\ track.rev = 0 /\ track.turn = 0 /\ track.lastPrompt = 0
  BY DEF BridgeInit, NewTrack, Track
<1>4. BridgeTypes
  BY <1>2, <1>3, FS_EmptySet DEF BridgeInit, BridgeTypes
<1>5. Shots = {sess}
  BY NoTelling DEF BridgeInit, Shots
<1>6. sess.turn \in Nat /\ sess.begun \in Nat
  BY <1>2, BridgeNumbers DEF Session
<1>7. OrderedAll(Shots, sess)
  BY <1>2, <1>5, <1>6 DEF OrderedAll, Ordered
<1>8. TrackSound
  <2>1. TrackOk(track) /\ Reported(track, told, staged)
    BY DEF BridgeInit, NewTrack, TrackOk, Reported, Nothing
  <2>2. Follows(track, Shots, sess)
    BY <1>2, <1>3, <1>5, <1>6 DEF Follows, Ahead
  <2> QED
    BY <2>1, <2>2 DEF TrackSound
<1>9. InTakeSound
  BY NoTelling DEF BridgeInit, InTakeSound
<1>10. Paid(told, track, ingress, crashes + refusals)
  BY DEF BridgeInit, Paid
<1> QED
  BY <1>2, <1>3, <1>4, <1>7, <1>8, <1>9, <1>10 DEF BridgeIInv, BridgeInit

LEMMA MoveKeeps ==
  ASSUME BridgeConstants, BridgeIInv, Move
  PROVE  BridgeIInv'
<1>1. PICK next \in Moves : sess' = [next EXCEPT !.rev = sess.rev + 1]
  BY DEF Move
<1>2. UNCHANGED <<snaps, ingress, track, mark, staged, told, crashes, refusals>>
  BY DEF Move
<1>3. sess \in Session /\ sess.turn \in {0, sess.begun} /\ sess.rev \in Nat
  BY DEF BridgeIInv, BridgeTypes, OrderedAll, Session
<1>4. /\ next \in Session
      /\ next.turn \in {0, next.begun} /\ sess.begun <= next.begun /\ sess.prompt <= next.prompt
  BY <1>3, MovesParts
<1>5. /\ sess' \in Session /\ sess'.rev = sess.rev + 1
      /\ sess'.turn = next.turn /\ sess'.begun = next.begun /\ sess'.prompt = next.prompt
  BY <1>1, <1>3, <1>4 DEF Session
<1>6. Shots \subseteq Snapshot /\ track \in Track /\ mark \in Nat
  BY BridgeNumbersNow DEF BridgeIInv
<1> DEFINE rest == snaps \cup (IF InTake(ingress) THEN {ingress.snap} ELSE {})
<1>7. rest \subseteq Shots /\ Shots' = rest \cup {sess'}
  BY <1>2 DEF Shots
<1> HIDE DEF rest
<1>8. /\ OrderedAll(rest \cup {sess'}, sess')
      /\ \A t \in Track : Follows(t, Shots, sess) => Follows(t, rest \cup {sess'}, sess')
  <2>1. OrderedAll(Shots, sess)
    BY DEF BridgeIInv
  <2>2. /\ sess'.turn \in {0, sess'.begun} /\ sess.begun <= sess'.begun /\ sess.prompt <= sess'.prompt
    BY <1>4, <1>5
  <2> QED
    BY <1>3, <1>5, <1>6, <1>7, <2>1, <2>2, SessionMoved
<1>9. BridgeTypes'
  BY <1>2, <1>5 DEF BridgeIInv, BridgeTypes
<1>10. OrderedAll(Shots, sess)'
  BY <1>7, <1>8
<1>11. TrackSound'
  BY <1>2, <1>6, <1>7, <1>8 DEF BridgeIInv, TrackSound
<1>12. InTakeSound'
  <2>1. InTake(ingress) => ingress.track \in Track
    BY DEF BridgeIInv, BridgeTypes, IntakeTypes, InTake, NoIngress
  <2> QED
    BY <1>2, <1>7, <1>8, <2>1 DEF BridgeIInv, InTakeSound
<1>13. Paid(told, track, ingress, crashes + refusals)'
  BY <1>2 DEF BridgeIInv
<1>14. (track.rev <= mark /\ mark <= sess.rev)'
  BY <1>2, <1>3, <1>5, <1>6 DEF BridgeIInv
<1> QED
  BY <1>9, <1>10, <1>11, <1>12, <1>13, <1>14 DEF BridgeIInv

LEMMA TakeKeeps ==
  ASSUME BridgeConstants, BridgeIInv, TakeRead \/ TakePush
  PROVE  BridgeIInv'
<1>1. PICK snap : /\ snap \in Snapshot /\ snap.rev = sess.rev /\ snap.turn = sess.turn
                  /\ snap.prompt \in {0, sess.prompt}
                  /\ Take(snap)
  <2>1. sess \in Session
    BY DEF BridgeIInv, BridgeTypes
  <2>2. CASE TakePush
    <3>1. sess \in Snapshot
      BY BridgeNumbersNow DEF BridgeIInv
    <3> QED
      BY <2>2, <3>1 DEF TakePush
  <2>3. CASE TakeRead
    <3> DEFINE phase == IF sess.phase = "waiting" THEN "active" ELSE sess.phase
    <3>1. ASSUME NEW p \in Phases
          PROVE  LET x == [sess EXCEPT !.attempt = 0, !.prompt = 0, !.health = Nothing, !.phase = p]
                 IN x \in Snapshot /\ x.rev = sess.rev /\ x.turn = sess.turn /\ x.prompt = 0
      BY <2>1 DEF Snapshot, Session
    <3>2. phase \in Phases
      BY <2>1 DEF Session, Phases
    <3>3. Read = [sess EXCEPT !.attempt = 0, !.prompt = 0, !.health = Nothing, !.phase = phase]
      BY DEF Read
    <3> HIDE DEF phase
    <3> QED
      BY <2>3, <3>1, <3>2, <3>3 DEF TakeRead
  <2> QED
    BY <2>2, <2>3
<1>2. snaps' = snaps \cup {snap} /\ UNCHANGED <<sess, ingress, track, mark, staged, told, crashes, refusals>>
  BY <1>1 DEF Take
<1>3. Shots' = Shots \cup {snap}
  BY <1>2 DEF Shots
<1>4. /\ OrderedAll(Shots \cup {snap}, sess)
      /\ \A t : Follows(t, Shots, sess) => Follows(t, Shots \cup {snap}, sess)
  <2>1. sess \in Session
    BY DEF BridgeIInv, BridgeTypes
  <2> QED
    BY <1>1, <2>1, ShotTaken DEF BridgeIInv
<1>5. BridgeTypes'
  BY <1>1, <1>2 DEF BridgeIInv, BridgeTypes
<1>6. OrderedAll(Shots, sess)' /\ TrackSound' /\ InTakeSound'
  BY <1>2, <1>3, <1>4 DEF BridgeIInv, TrackSound, InTakeSound
<1>7. Paid(told, track, ingress, crashes + refusals)' /\ (track.rev <= mark /\ mark <= sess.rev)'
  BY <1>2 DEF BridgeIInv
<1> QED
  BY <1>5, <1>6, <1>7 DEF BridgeIInv
\* The session is where it was, and there is no snapshot that was not there.
LEMMA ShotsLeft ==
  ASSUME BridgeIInv, UNCHANGED sess, Shots' \subseteq Shots
  PROVE  /\ OrderedAll(Shots, sess)'
         /\ \A t : Follows(t, Shots, sess) => Follows(t, Shots', sess')
<1>1. OrderedAll(Shots, sess) /\ sess \in Shots'
  BY DEF BridgeIInv, Shots
<1>2. OrderedAll(Shots', sess)
  BY <1>1, FewerOrdered
<1>3. \A t : Follows(t, Shots, sess) => Follows(t, Shots', sess)
  BY FewerFollowed
<1> QED
  BY <1>2, <1>3

LEMMA ReduceKeeps ==
  ASSUME BridgeConstants, BridgeIInv, Reduce
  PROVE  BridgeIInv'
<1>1. PICK s \in snaps :
        /\ snaps' = snaps \ {s}
        /\ ingress' = IF Fresh(s.rev)
                        THEN LET r == Reduced(track, s)
                             IN [at |-> "stage", snap |-> s, events |-> r.events, track |-> r.track, failed |-> r.fails]
                        ELSE NoIngress
  BY DEF Reduce
<1>2. ingress = NoIngress /\ UNCHANGED <<sess, track, mark, staged, told, crashes, refusals>>
  BY DEF Reduce
<1>3. /\ crashes + refusals \in Nat /\ IsFiniteSet(told) /\ mark \in Nat /\ track \in Track /\ track.rev \in Nat
      /\ sess \in Session /\ Shots \subseteq Snapshot
  BY BridgeNumbersNow DEF BridgeIInv
<1>4. s \in Shots /\ s \in Snapshot /\ s.rev \in Nat
  BY <1>3 DEF Shots, Snapshot
<1>5. Shots = snaps \cup {sess}
  BY <1>2, NoTelling DEF Shots
<1>6. /\ track.rev <= mark /\ TrackOk(track) /\ Follows(track, Shots, sess) /\ Reported(track, told, staged)
      /\ OrderedAll(Shots, sess) /\ snaps \subseteq Snapshot /\ \A e \in told : NatEvent(e)
  BY DEF BridgeIInv, TrackSound, BridgeTypes
<1>7. Paid(told, track, ingress', crashes + refusals)
  BY <1>2, <1>3, NoTelling, PaidStill DEF BridgeIInv
<1>8. Paid(told, track, ingress, crashes + refusals)' /\ (track.rev <= mark /\ mark <= sess.rev)'
  BY <1>2, <1>7 DEF BridgeIInv
<1>9. CASE Fresh(s.rev)
  <2> DEFINE r == Observed(track, s)
             in == [at |-> "stage", snap |-> s, events |-> r.events, track |-> r.track, failed |-> r.fails]
  <2>1. s.rev > track.rev
    BY <1>3, <1>4, <1>6, <1>9 DEF Fresh
  <2>2. ingress' = in
    <3>1. Reduced(track, s) = Observed(track, s)
      BY <1>3, <1>4, <2>1 DEF Reduced
    <3> QED
      BY <1>1, <1>9, <3>1
  <2>3. Shots' = (snaps \ {s}) \cup {sess, s}
    <3>1. in.at = "stage" /\ in.snap = s
      OBVIOUS
    <3> HIDE DEF in
    <3> QED
      BY <1>1, <1>2, <2>2, <3>1 DEF Shots, InTake
  <2>4. Shots' \subseteq Shots
    BY <1>4, <1>5, <2>3
  <2>5. Ahead(track, s) /\ Follows(LastTrack(track, s), Shots, sess)
    BY <1>3, <1>4, <1>6, <2>1, LastTrackFollows
  <2>6. /\ r.track = LastTrack(track, s) /\ r.fails \in BOOLEAN /\ (r.fails => s.turn # 0)
        /\ r.track \in Track /\ TrackOk(r.track) /\ r.track.rev = s.rev
    <3>1. r.track = LastTrack(track, s)
      BY ObservedStages
    <3>2. r.fails = (s.turn # 0 /\ TurnFails(FirstTrack(track, s), s, Accepts(track, s)))
      BY ObservedStages
    <3>3. LastTrack(track, s) \in Track /\ TrackOk(LastTrack(track, s)) /\ LastTrack(track, s).rev = s.rev
      BY <1>3, <1>4, <1>6, <2>5, ObservedTracks
    <3> HIDE DEF r
    <3> QED
      BY <3>1, <3>2, <3>3
  <2>7. /\ \A e, f \in r.events : e.kind = f.kind => e = f
        /\ \A e \in r.events : NatEvent(e)
        /\ \A e \in r.events : e.kind \in OnceKinds => Noted(r.track, e) /\ ~Noted(track, e)
        /\ \A e \in told : Noted(track, e) => Noted(r.track, e)
    BY <1>3, <1>4, <1>6, <2>5, <2>6, KindsDiffer, EventNumbers, EventsAreNew, NotedStays
  <2>8. Reported(r.track, told \cup r.events, staged \cup (IF r.fails THEN {s.turn} ELSE {}))
    BY <1>3, <1>4, <1>6, <2>5, <2>6, ReportedStays
  <2> HIDE DEF r
  <2>9. InTake(in) /\ IntakeTypes(in)
    BY <1>4, <2>6, <2>7 DEF InTake, IntakeTypes
  <2>10. IntakeSound(in, track, told, staged)
    BY <2>1, <2>6, <2>7, <2>8 DEF IntakeSound, ToStage
  <2>11. BridgeTypes'
    BY <1>1, <1>2, <2>2, <2>9 DEF BridgeIInv, BridgeTypes
  <2>12. OrderedAll(Shots, sess)' /\ TrackSound'
    BY <1>2, <1>6, <2>4, ShotsLeft DEF TrackSound
  <2>13. InTakeSound'
    <3>1. Follows(r.track, Shots', sess')
      BY <1>2, <2>4, <2>5, <2>6, ShotsLeft
    <3>2. Follows(in.track, Shots', sess') /\ in.at = "stage"
      BY <3>1
    <3> HIDE DEF in
    <3> QED
      BY <1>2, <2>2, <2>10, <3>2 DEF InTakeSound
  <2> QED
    BY <1>8, <2>11, <2>12, <2>13 DEF BridgeIInv
<1>10. CASE ~Fresh(s.rev)
  <2>1. ingress' = NoIngress
    BY <1>1, <1>10
  <2>2. Shots' \subseteq Shots
    BY <1>1, <1>2, <2>1, NoTelling DEF Shots
  <2>3. BridgeTypes'
    BY <1>1, <1>2, <2>1 DEF BridgeIInv, BridgeTypes
  <2>4. OrderedAll(Shots, sess)' /\ TrackSound' /\ InTakeSound'
    BY <1>2, <1>6, <2>1, <2>2, NoTelling, ShotsLeft DEF TrackSound, InTakeSound
  <2> QED
    BY <1>8, <2>3, <2>4 DEF BridgeIInv
<1> QED
  BY <1>9, <1>10

\* The intake goes on: it tells, or is about to.
LEMMA EmitKeeps ==
  ASSUME BridgeConstants, BridgeIInv, Emit
  PROVE  BridgeIInv'
<1>1. PICK x \in ingress.events : /\ told' = told \cup {x}
                                  /\ ingress' = [ingress EXCEPT !.events = ingress.events \ {x}]
  BY DEF Emit
<1>2. ingress.at = "emit" /\ UNCHANGED <<sess, snaps, track, mark, staged, crashes, refusals>>
  BY DEF Emit
<1>3. crashes + refusals \in Nat /\ IsFiniteSet(told)
  BY BridgeNumbersNow DEF BridgeIInv
<1>4. InTake(ingress) /\ IntakeTypes(ingress) /\ ingress # NoIngress
  BY <1>2 DEF BridgeIInv, BridgeTypes, InTake, NoIngress
<1>5. IntakeSound(ingress, track, told, staged) /\ Follows(ingress.track, Shots, sess)
  BY <1>4 DEF BridgeIInv, InTakeSound
<1>6. /\ ingress'.at = "emit" /\ ingress'.snap = ingress.snap /\ ingress'.track = ingress.track
      /\ ingress'.failed = ingress.failed /\ ingress'.events = ingress.events \ {x}
      /\ ingress' = [at |-> ingress'.at, snap |-> ingress'.snap, events |-> ingress'.events,
                     track |-> ingress'.track, failed |-> ingress'.failed]
  BY <1>1, <1>2, <1>4 DEF IntakeTypes
<1>7. InTake(ingress') /\ IntakeTypes(ingress')
  BY <1>4, <1>6 DEF IntakeTypes, InTake
<1>8. Shots' = Shots
  BY <1>2, <1>4, <1>6, <1>7 DEF Shots
<1>9. BridgeTypes'
  <2>1. IsFiniteSet(told')
    BY <1>1, <1>3, FS_AddElement
  <2>2. NatEvent(x)
    BY <1>4 DEF IntakeTypes
  <2>3. \A e \in told' : NatEvent(e)
    BY <1>1, <2>2 DEF BridgeIInv, BridgeTypes
  <2> QED
    BY <1>2, <1>7, <2>1, <2>3 DEF BridgeIInv, BridgeTypes
<1>10. OrderedAll(Shots, sess)' /\ (track.rev <= mark /\ mark <= sess.rev)'
  BY <1>2, <1>8 DEF BridgeIInv
<1>11. TrackSound'
  <2>1. Reported(track, told', staged)
    BY <1>1, MoreReported DEF BridgeIInv, TrackSound
  <2> QED
    BY <1>2, <1>8, <2>1 DEF BridgeIInv, TrackSound
<1>12. InTakeSound'
  <2>1. IntakeSound(ingress', track, told', staged)
    <3>1. told' \cup ingress'.events = told \cup ingress.events
      BY <1>1, <1>6
    <3>2. ToStage(ingress') = ToStage(ingress)
      BY <1>2, <1>6 DEF ToStage
    <3>3. Reported(ingress'.track, told' \cup ingress'.events, staged \cup ToStage(ingress'))
      BY <1>5, <1>6, <3>1, <3>2 DEF IntakeSound
    <3>4. Noted(track, x) => x.kind \in OnceKinds
      BY DEF Noted, OnceKinds
    <3>5. \A e \in told' : Noted(track, e) => Noted(ingress'.track, e)
      BY <1>1, <1>5, <1>6, <3>4 DEF IntakeSound
    <3> QED
      BY <1>5, <1>6, <3>3, <3>5 DEF IntakeSound
  <2> QED
    BY <1>2, <1>4, <1>5, <1>6, <1>8, <2>1 DEF BridgeIInv, InTakeSound
<1>13. Paid(told, track, ingress, crashes + refusals)'
  <2>1. Paid(told \cup {x}, track, ingress', crashes + refusals)
    BY <1>2, <1>3, <1>5, <1>6, PaidForEvent DEF BridgeIInv
  <2> QED
    BY <1>1, <1>2, <2>1
<1> QED
  BY <1>9, <1>10, <1>11, <1>12, <1>13 DEF BridgeIInv
LEMMA StageKeeps ==
  ASSUME BridgeConstants, BridgeIInv, Stage
  PROVE  BridgeIInv'
<1>1. ingress.at = "stage" /\ UNCHANGED <<sess, snaps, track, told, crashes, refusals>>
  BY DEF Stage
<1>2. /\ crashes + refusals \in Nat /\ IsFiniteSet(told) /\ mark \in Nat /\ track.rev \in Nat /\ sess.rev \in Nat
      /\ Shots \subseteq Snapshot /\ track.rev <= mark /\ mark <= sess.rev
  BY BridgeNumbersNow DEF BridgeIInv
<1>3. InTake(ingress) /\ IntakeTypes(ingress)
  BY <1>1 DEF BridgeIInv, BridgeTypes, InTake, NoIngress
<1>4. IntakeSound(ingress, track, told, staged) /\ Follows(ingress.track, Shots, sess)
  BY <1>3 DEF BridgeIInv, InTakeSound
<1>5. /\ ingress.snap \in Shots /\ ingress.snap.rev \in Nat /\ ingress.snap.rev <= sess.rev
      /\ ingress.snap \in Snapshot
  <2>1. ingress.snap \in Shots /\ ingress.snap \in Snapshot
    BY <1>3 DEF Shots, IntakeTypes
  <2> QED
    BY <2>1 DEF BridgeIInv, OrderedAll, Snapshot
<1>6. Paid(told, track, ingress', crashes + refusals)
  <2>1. \A e \in told : ~Telling(ingress, e)
    BY <1>1 DEF Telling
  <2> QED
    BY <1>2, <2>1, PaidStill DEF BridgeIInv
<1>7. CASE ingress' = NoIngress /\ UNCHANGED <<mark, staged>>
  <2>1. Shots' \subseteq Shots
    BY <1>1, <1>7, NoTelling DEF Shots
  <2>2. BridgeTypes' /\ InTakeSound'
    BY <1>1, <1>7, NoTelling DEF BridgeIInv, BridgeTypes, InTakeSound
  <2>3. OrderedAll(Shots, sess)' /\ TrackSound'
    BY <1>1, <1>7, <2>1, ShotsLeft DEF BridgeIInv, TrackSound
  <2> QED
    BY <1>1, <1>2, <1>6, <1>7, <2>2, <2>3 DEF BridgeIInv
<1>8. CASE /\ ingress' = [ingress EXCEPT !.at = "emit"]
           /\ \/ ~ingress.failed /\ UNCHANGED <<mark, staged>>
              \/ /\ ingress.failed /\ ~(ingress.snap.rev < mark)
                 /\ staged' = staged \cup {ingress.snap.turn} /\ mark' = ingress.snap.rev
  <2>1. /\ ingress'.at = "emit" /\ ingress'.snap = ingress.snap /\ ingress'.track = ingress.track
        /\ ingress'.failed = ingress.failed /\ ingress'.events = ingress.events
        /\ ingress' = [at |-> ingress'.at, snap |-> ingress'.snap, events |-> ingress'.events,
                       track |-> ingress'.track, failed |-> ingress'.failed]
    BY <1>3, <1>8 DEF IntakeTypes
  <2>2. InTake(ingress') /\ IntakeTypes(ingress')
    BY <1>3, <2>1 DEF IntakeTypes, InTake
  <2>3. staged' = staged \cup ToStage(ingress) /\ ToStage(ingress') = {}
    BY <1>1, <1>8, <2>1 DEF ToStage
  <2>4. mark' \in Nat /\ mark <= mark' /\ mark' <= sess.rev /\ (ingress.failed => ingress.snap.rev <= mark')
    BY <1>2, <1>5, <1>8
  <2>5. Shots' = Shots
    BY <1>1, <1>3, <2>1, <2>2 DEF Shots
  <2>6. BridgeTypes'
    <3>1. ToStage(ingress) \subseteq Turns
      BY <1>3, <1>5 DEF ToStage, IntakeTypes, Snapshot
    <3> QED
      BY <1>1, <2>2, <2>3, <2>4, <3>1 DEF BridgeIInv, BridgeTypes
  <2>7. OrderedAll(Shots, sess)' /\ (track.rev <= mark /\ mark <= sess.rev)'
    BY <1>1, <1>2, <2>4, <2>5 DEF BridgeIInv
  <2>8. TrackSound'
    <3>1. Reported(track, told, staged')
      BY <2>3, MoreReported DEF BridgeIInv, TrackSound
    <3> QED
      BY <1>1, <2>5, <3>1 DEF BridgeIInv, TrackSound
  <2>9. InTakeSound'
    <3>1. staged' \cup ToStage(ingress') = staged \cup ToStage(ingress)
      BY <2>3
    <3>2. IntakeSound(ingress', track, told, staged')
      BY <1>4, <2>1, <3>1 DEF IntakeSound
    <3> QED
      BY <1>1, <1>4, <2>1, <2>4, <2>5, <3>2 DEF InTakeSound
  <2> QED
    BY <1>1, <1>6, <2>6, <2>7, <2>8, <2>9 DEF BridgeIInv
<1> QED
  BY <1>7, <1>8 DEF Stage

\* The intake is given up; the track is as it was or as new.
LEMMA RefusalKeeps ==
  ASSUME BridgeConstants, BridgeIInv, ingress' = NoIngress, Shots' \subseteq Shots,
         UNCHANGED <<sess, mark, staged, told>>, snaps' \subseteq snaps,
         crashes' \in Nat, refusals' \in Nat, crashes' + refusals' = crashes + refusals + 1,
         track' = track \/ (track' \in Track /\ track' = NewTrack)
  PROVE  BridgeIInv'
<1>1. /\ crashes + refusals \in Nat /\ IsFiniteSet(told) /\ mark \in Nat
      /\ track.rev <= mark /\ mark <= sess.rev /\ sess \in Session
  BY BridgeNumbersNow DEF BridgeIInv
<1>2. sess.begun \in Nat /\ sess.prompt \in Nat
  BY <1>1, BridgeNumbers DEF Session
<1>3. BridgeTypes' /\ InTakeSound'
  BY NoTelling DEF BridgeIInv, BridgeTypes, InTakeSound
<1>4. OrderedAll(Shots, sess)'
  BY ShotsLeft
<1>5. TrackSound' /\ track'.rev <= mark
  <2>1. CASE track' = track
    BY <1>1, <2>1, ShotsLeft DEF BridgeIInv, TrackSound
  <2>2. CASE track' = NewTrack
    <3>1. track'.turn = 0 /\ track'.lastPrompt = 0 /\ track'.rev = 0
      BY <2>2 DEF NewTrack
    <3>2. TrackOk(track') /\ Reported(track', told', staged')
      BY <2>2 DEF NewTrack, TrackOk, Reported, Nothing
    <3>3. \A s \in Shots : s.turn \in Nat /\ s.prompt \in Nat
      BY BridgeNumbers, BridgeNumbersNow DEF BridgeIInv, Snapshot
    <3>4. Follows(track', Shots, sess)
      BY <1>2, <3>1, <3>3 DEF Follows, Ahead
    <3>5. Follows(track', Shots', sess')
      BY <3>4, ShotsLeft
    <3> QED
      BY <1>1, <3>1, <3>2, <3>5 DEF TrackSound
  <2> QED
    BY <2>1, <2>2
<1>6. Paid(told, track, ingress, crashes + refusals)'
  <2>1. Paid(told, track', ingress', crashes + refusals + 1)
    BY <1>1, PaidByAFault DEF BridgeIInv
  <2> QED
    BY <2>1
<1> QED
  BY <1>1, <1>3, <1>4, <1>5, <1>6 DEF BridgeIInv

LEMMA GiveUpKeeps ==
  ASSUME BridgeConstants, BridgeIInv, GiveUp
  PROVE  BridgeIInv'
<1>1. /\ ingress' = NoIngress /\ refusals' = refusals + 1
      /\ UNCHANGED <<sess, snaps, track, mark, staged, told, crashes>>
  BY DEF GiveUp
<1>2. Shots' \subseteq Shots
  BY <1>1, NoTelling DEF Shots
<1>3. crashes' \in Nat /\ refusals' \in Nat /\ crashes' + refusals' = crashes + refusals + 1
  BY <1>1, BridgeNumbersNow DEF BridgeIInv
<1> QED
  BY <1>1, <1>2, <1>3, RefusalKeeps

LEMMA CommitKeeps ==
  ASSUME BridgeConstants, BridgeIInv, Commit
  PROVE  BridgeIInv'
<1>1. /\ ingress.at = "emit" /\ ingress.events = {} /\ ingress' = NoIngress
      /\ UNCHANGED <<sess, snaps, staged, told, crashes>>
  BY DEF Commit
<1>2. Shots' \subseteq Shots
  BY <1>1, NoTelling DEF Shots
<1>3. CASE refusals' = refusals + 1 /\ UNCHANGED <<track, mark>>
  <2>1. crashes' \in Nat /\ refusals' \in Nat /\ crashes' + refusals' = crashes + refusals + 1
    BY <1>1, <1>3, BridgeNumbersNow DEF BridgeIInv
  <2> QED
    BY <1>1, <1>2, <1>3, <2>1, RefusalKeeps
<1>4. CASE /\ Raises /\ track' = ingress.track
           /\ mark' = IF ingress.failed THEN mark ELSE ingress.snap.rev
           /\ UNCHANGED refusals
  <2>1. /\ crashes + refusals \in Nat /\ IsFiniteSet(told) /\ mark \in Nat /\ sess.rev \in Nat
        /\ mark <= sess.rev
    BY BridgeNumbersNow DEF BridgeIInv
  <2>2. InTake(ingress) /\ IntakeTypes(ingress)
    BY <1>1 DEF BridgeIInv, BridgeTypes, InTake, NoIngress
  <2>3. /\ IntakeSound(ingress, track, told, staged) /\ Follows(ingress.track, Shots, sess)
        /\ ingress.failed => ingress.snap.rev <= mark
    BY <1>1, <2>2 DEF BridgeIInv, InTakeSound
  <2>4. ingress.snap \in Shots /\ ingress.snap.rev \in Nat
    BY <2>2 DEF Shots, IntakeTypes, Snapshot
  <2>5. ingress.snap.rev <= sess.rev
    BY <2>4 DEF BridgeIInv, OrderedAll
  <2>6. mark' \in Nat /\ track'.rev <= mark' /\ mark' <= sess.rev
    BY <1>4, <2>1, <2>3, <2>4, <2>5 DEF IntakeSound
  <2>7. BridgeTypes' /\ InTakeSound'
    BY <1>1, <1>4, <2>2, <2>6, NoTelling DEF BridgeIInv, BridgeTypes, InTakeSound, IntakeTypes
  <2>8. OrderedAll(Shots, sess)'
    BY <1>1, <1>2, ShotsLeft
  <2>9. TrackSound'
    <3>1. told \cup ingress.events = told /\ staged \cup ToStage(ingress) = staged
      BY <1>1 DEF ToStage
    <3>2. Reported(ingress.track, told, staged)
      BY <2>3, <3>1 DEF IntakeSound
    <3>3. Follows(ingress.track, Shots', sess')
      BY <1>1, <1>2, <2>3, ShotsLeft
    <3> QED
      BY <1>1, <1>4, <2>3, <3>2, <3>3 DEF TrackSound, IntakeSound
  <2>10. Paid(told, track, ingress, crashes + refusals)'
    <3>1. \A e \in told : Noted(track, e) \/ Telling(ingress, e) => Noted(ingress.track, e)
      BY <2>3 DEF IntakeSound, Telling
    <3>2. Paid(told, ingress.track, NoIngress, crashes + refusals)
      BY <2>1, <3>1, PaidStill DEF BridgeIInv
    <3> QED
      BY <1>1, <1>4, <3>2
  <2> QED
    BY <1>1, <2>6, <2>7, <2>8, <2>9, <2>10 DEF BridgeIInv
<1> QED
  BY <1>3, <1>4 DEF Commit

LEMMA ReconcileKeeps ==
  ASSUME BridgeConstants, BridgeIInv, Reconcile
  PROVE  BridgeIInv'
<1>1. /\ sess.rev > mark /\ mark' = sess.rev
      /\ staged' = staged \cup (IF sess.turn # 0 /\ sess.accepted /\ sess.phase = "failed" THEN {sess.turn} ELSE {})
      /\ UNCHANGED <<sess, snaps, ingress, track, told, crashes, refusals>>
  BY DEF Reconcile
<1>2. /\ mark \in Nat /\ sess.rev \in Nat /\ track.rev \in Nat /\ sess \in Session
      /\ Shots \subseteq Snapshot /\ track.rev <= mark
  BY BridgeNumbersNow DEF BridgeIInv
<1>3. Shots' = Shots
  BY <1>1 DEF Shots
<1>4. BridgeTypes'
  <2>1. staged' \subseteq Turns
    BY <1>1, <1>2 DEF BridgeIInv, BridgeTypes, Session
  <2> QED
    BY <1>1, <1>2, <2>1 DEF BridgeIInv, BridgeTypes
<1>5. /\ OrderedAll(Shots, sess)' /\ (track.rev <= mark /\ mark <= sess.rev)'
      /\ Paid(told, track, ingress, crashes + refusals)'
  BY <1>1, <1>2, <1>3 DEF BridgeIInv
<1>6. staged \subseteq staged'
  BY <1>1
<1>7. TrackSound'
  <2>1. Reported(track, told, staged')
    BY <1>6, MoreReported DEF BridgeIInv, TrackSound
  <2> QED
    BY <1>1, <1>3, <2>1 DEF BridgeIInv, TrackSound
<1>8. InTakeSound'
  <2> SUFFICES ASSUME InTake(ingress)
               PROVE  /\ IntakeSound(ingress, track, told, staged') /\ Follows(ingress.track, Shots, sess)
                      /\ ingress.at = "emit" /\ ingress.failed => ingress.snap.rev <= sess.rev
    BY <1>1, <1>3 DEF InTakeSound
  <2>1. IntakeSound(ingress, track, told, staged) /\ Follows(ingress.track, Shots, sess)
    BY DEF BridgeIInv, InTakeSound
  <2>2. Reported(ingress.track, told \cup ingress.events, staged' \cup ToStage(ingress))
    BY <1>6, <2>1, MoreReported DEF IntakeSound
  <2>3. IntakeSound(ingress, track, told, staged')
    BY <2>1, <2>2 DEF IntakeSound
  <2>4. ingress.snap.rev <= sess.rev
    BY DEF BridgeIInv, OrderedAll, Shots
  <2> QED
    BY <2>1, <2>3, <2>4
<1> QED
  BY <1>4, <1>5, <1>7, <1>8 DEF BridgeIInv

LEMMA BridgeCrashKeeps ==
  ASSUME BridgeConstants, BridgeIInv, BridgeCrash
  PROVE  BridgeIInv'
<1>1. /\ crashes' = crashes + 1 /\ snaps' = {} /\ ingress' = NoIngress /\ track' = NewTrack
      /\ UNCHANGED <<sess, mark, staged, told, refusals>>
  BY DEF BridgeCrash
<1>2. Shots' \subseteq Shots
  BY <1>1, NoTelling DEF Shots
<1>3. crashes' \in Nat /\ refusals' \in Nat /\ crashes' + refusals' = crashes + refusals + 1
  BY <1>1, BridgeNumbersNow DEF BridgeIInv
<1>4. NewTrack \in Track
  BY DEF NewTrack, Track
<1> QED
  BY <1>1, <1>2, <1>3, <1>4, RefusalKeeps

LEMMA BridgeStep ==
  ASSUME BridgeConstants, BridgeIInv, [BridgeNext]_bridgeVars
  PROVE  BridgeIInv'
<1>1. CASE UNCHANGED bridgeVars
  <2>1. Shots' = Shots
    BY <1>1 DEF bridgeVars, Shots
  <2>2. BridgeTypes' /\ TrackSound' /\ InTakeSound'
    BY <1>1, <2>1 DEF bridgeVars, BridgeIInv, BridgeTypes, TrackSound, InTakeSound
  <2> QED
    BY <1>1, <2>1, <2>2 DEF bridgeVars, BridgeIInv
<1> QED
  BY <1>1, MoveKeeps, TakeKeeps, ReduceKeeps, StageKeeps, EmitKeeps, GiveUpKeeps, CommitKeeps, ReconcileKeeps,
     BridgeCrashKeeps DEF BridgeNext

LEMMA BridgeImplied ==
  ASSUME BridgeIInv
  PROVE  BridgeInv
<1>1. BridgeTypeOK
  BY DEF BridgeIInv, BridgeTypes, BridgeTypeOK, OrderedAll, Shots
<1>2. SeenIsTold
  BY DEF BridgeIInv, TrackSound, Reported, SeenIsTold, Told
<1>3. TellsBounded
  <2> SUFFICES ASSUME NEW e \in told, e.kind \in OnceKinds
               PROVE  Cardinality(Copies(e)) <= 1 + crashes + refusals
    BY DEF TellsBounded
  <2>1. Copies(e) = Same(e, told)
    BY DEF Copies, Same
  <2>2. crashes \in Nat /\ refusals \in Nat /\ Cardinality(Same(e, told)) \in Nat
    BY BridgeNumbersNow, CopiesGrow DEF BridgeIInv
  <2>3. Cardinality(Same(e, told)) <= crashes + refusals + (IF Noted(track, e) \/ Telling(ingress, e) THEN 1 ELSE 0)
    BY DEF BridgeIInv, Paid
  <2> QED
    BY <2>1, <2>2, <2>3
<1> QED
  BY <1>1, <1>2, <1>3 DEF BridgeIInv, BridgeInv

\* What the reducer holds for told has been told or staged, an episode is told
\* once but for what crashes and refused writes made the reducer forget, and no
\* snapshot is behind the watermark and in front of the reducer: whatever the
\* order, the loss and the lateness of the snapshots.
THEOREM BridgeAlwaysSound == BridgeConstants => (BridgeSpec => []BridgeInv)
<1> SUFFICES ASSUME BridgeConstants
             PROVE  BridgeSpec => []BridgeInv
  OBVIOUS
<1>1. BridgeInit => BridgeIInv
  BY BridgeStarts
<1>2. BridgeIInv /\ [BridgeNext]_bridgeVars => BridgeIInv'
  BY BridgeStep
<1>3. BridgeIInv => BridgeInv
  BY BridgeImplied
<1> QED
  BY <1>1, <1>2, <1>3, PTL DEF BridgeSpec
=============================================================================
