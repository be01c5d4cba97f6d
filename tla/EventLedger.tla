----------------------------- MODULE EventLedger -----------------------------
(***************************************************************************)
(* The durable event ledger (src/ledger.rs): an event whose key the ledger *)
(* has seen is neither recorded nor delivered again.                       *)
(*                                                                         *)
(* A record lives in the raw segment of its own day, and in memory; when   *)
(* it is older than the raw retention, compaction writes its key into a    *)
(* summary shard and rewrites its segment from MEMORY, not from disk.  The *)
(* keys in memory are rebuilt from disk when the daemon starts and after a *)
(* compaction.  Time is counted in days, the unit of both retentions, and  *)
(* a compaction interval is one day.                                       *)
(*                                                                         *)
(* Records and keys are sets.  What the order in memory and the seconds of *)
(* a day decide (which old records a pass takes, which of one day the cap  *)
(* leaves out, which records of a day share a summary) is left open.       *)
(***************************************************************************)
EXTENDS Integers, FiniteSets

CONSTANTS Keys,         \* dedupe keys of the events
          MaxDay,       \* bound of the clock
          RawDays,      \* raw_retention_days
          SummaryDays,  \* summary_retention_days
          MaxRecords,   \* max_records
          MaxPerPass,   \* max_records_per_compaction
          ShardSize,    \* MAX_SUMMARY_RECORDS, the chunk of a group
          MaxFaults,    \* bound of the faults of a behaviour
          Torn          \* a failed append may leave part of a line

Days    == 0..MaxDay
NoKey   == "none"
Part    == "fragment"
Record  == [key : Keys, ts : Days]
Summary == [keys : SUBSET Keys, last : Days]
Shard   == [keys : SUBSET Keys, last : Days, at : Days]
Segment == [keys : SUBSET Keys, tail : Keys \cup {NoKey, Part}, bad : BOOLEAN]

ASSUME LedgerConstants ==
  /\ IsFiniteSet(Keys)
  /\ {MaxDay, MaxFaults} \subseteq Nat
  /\ {RawDays, SummaryDays, MaxRecords, MaxPerPass, ShardSize} \subseteq Nat \ {0}
  /\ RawDays <= SummaryDays
  /\ Torn \in BOOLEAN
  /\ Keys \cap {NoKey, Part} = {}

VARIABLES seg,       \* seg[d]: the raw segment of day d: the keys on whole lines,
                     \* what follows the last newline, and whether a line is torn
          shards,    \* the summary shards on disk, at their modification day
          mem,       \* the records in memory
          dedupe,    \* the keys in memory
          job,       \* the compaction in progress: [pc, shards, ids, days]
          day,       \* the clock
          lastRun,   \* last_compaction_unix, -1 for none since the start
          up,        \* the daemon runs
          faults,    \* faults so far
          acceptedOn,\* history: the day a key was last accepted, -1 for never
          twice,     \* history: a key was accepted again while the ledger owed it
          capped     \* history: a start had to leave records or keys out

disk    == <<seg, shards>>
memory  == <<mem, dedupe>>
history == <<acceptedOn, twice>>
vars    == <<disk, memory, job, day, lastRun, up, faults, history, capped>>

NoJob == [pc |-> "idle", shards |-> {}, ids |-> {}, days |-> {}]

\* A segment of whole lines.
Lines(keys) == [keys |-> keys, tail |-> NoKey, bad |-> FALSE]

Init ==
  /\ seg = [d \in Days |-> Lines({})]
  /\ shards = {}
  /\ mem = {}
  /\ dedupe = {}
  /\ job = NoJob
  /\ day = 0
  /\ lastRun = -1
  /\ up = TRUE
  /\ faults = 0
  /\ acceptedOn = [k \in Keys |-> -1]
  /\ twice = FALSE
  /\ capped = FALSE

Idle == up /\ job.pc = "idle"
Fault == faults < MaxFaults /\ faults' = faults + 1

----------------------------------------------------------------------------
(***************************************************************************)
(* Appending a record.                                                     *)
(***************************************************************************)
\* The keys a reader of the segment finds, and whether it can read it at all.
Readable(s) == s.keys \cup ({s.tail} \ {NoKey, Part})
Sound(s)    == ~s.bad /\ s.tail # Part

\* A line goes behind what follows the last newline: with anything there the
\* two make one line that no reader parses.
WithLine(s, k) ==
  IF s.tail = NoKey THEN [s EXCEPT !.keys = @ \cup {k}]
  ELSE [s EXCEPT !.tail = NoKey, !.bad = TRUE]

\* What a failed append may leave: nothing, the whole line (the sync failed), and
\* when writes tear, the record without its newline or a part of it.
AfterFailure(s, k) ==
  {s, WithLine(s, k)}
    \cup (IF Torn THEN {[s EXCEPT !.tail = IF @ = NoKey THEN t ELSE Part] : t \in {k, Part}}
          ELSE {})

\* An event whose key the ledger owes is answered with Duplicate.
Owed(k) == acceptedOn[k] >= 0 /\ day - acceptedOn[k] <= SummaryDays

\* Mutant: only the records still raw are looked up, not the summaries.
KnownRaw(k) == k \in {r.key : r \in mem}

Known(k) == k \in dedupe

AppendRecord(k, ts) ==
  /\ Idle
  /\ ~Known(k)
  /\ Cardinality(mem) < MaxRecords
  /\ seg' = [seg EXCEPT ![ts] = WithLine(@, k)]
  /\ mem' = mem \cup {[key |-> k, ts |-> ts]}
  /\ dedupe' = dedupe \cup {k}
  /\ twice' = (twice \/ Owed(k))
  /\ acceptedOn' = [acceptedOn EXCEPT ![k] = day]
  /\ UNCHANGED <<shards, job, day, lastRun, up, faults, capped>>

AppendFails(k, ts) ==
  /\ Idle
  /\ ~Known(k)
  /\ Cardinality(mem) < MaxRecords
  /\ Fault
  /\ \E s \in AfterFailure(seg[ts], k) : seg' = [seg EXCEPT ![ts] = s]
  /\ UNCHANGED <<shards, memory, job, day, lastRun, up, history, capped>>

----------------------------------------------------------------------------
(***************************************************************************)
(* Reading the disk: when the daemon starts, and after a compaction.       *)
(***************************************************************************)
CanLoad == \A d \in Days : Sound(seg[d])

AtMost(n, cap) == IF n < cap THEN n ELSE cap

\* The records that are retained: over the cap the oldest are left out.
OnDisk == {r \in Record : r.key \in Readable(seg[r.ts])}
Retained ==
  {kept \in SUBSET OnDisk :
     /\ Cardinality(kept) = AtMost(Cardinality(OnDisk), MaxRecords)
     /\ \A r \in kept, o \in OnDisk \ kept : o.ts <= r.ts}

\* Of two records with one key the first counts.
FirstOfKey(kept) == {r \in kept : \A o \in kept : o.key = r.key => r.ts <= o.ts}
KeysIn(records)  == {r.key : r \in records}

\* The keys of the summaries come on top, newest summary first, up to the cap.
KeysOf(sums) == UNION {s.keys : s \in sums}
Newer(sums, s) == {t \in sums : t.last >= s.last}
Histories(raw, sums) ==
  {known \in SUBSET (raw \cup KeysOf(sums)) :
     /\ raw \subseteq known
     /\ Cardinality(known) = AtMost(Cardinality(raw \cup KeysOf(sums)), MaxRecords)
     /\ \A s \in sums : s.keys \subseteq known \/ known \subseteq raw \cup KeysOf(Newer(sums, s))}

Load(sums) ==
  \E kept \in Retained :
    /\ mem' = FirstOfKey(kept)
    /\ dedupe' \in Histories(KeysIn(kept), sums)
    /\ capped' = (capped \/ kept # OnDisk \/ dedupe' # KeysIn(kept) \cup KeysOf(sums))

\* A load that meets an unreadable line has cleared the memory before.
LoadFails ==
  /\ mem' = {}
  /\ dedupe' = {}
  /\ UNCHANGED capped

Open ==
  /\ ~up
  /\ CanLoad
  /\ up' = TRUE
  /\ Load(shards)
  /\ lastRun' = -1
  /\ UNCHANGED <<disk, job, day, faults, history>>

Crash ==
  /\ up
  /\ Fault
  /\ up' = FALSE
  /\ mem' = {}
  /\ dedupe' = {}
  /\ job' = NoJob
  /\ UNCHANGED <<disk, day, lastRun, history, capped>>

----------------------------------------------------------------------------
(***************************************************************************)
(* Compaction: shards, then segments, then old shards, then the load.      *)
(***************************************************************************)
IsOld(r) == r.ts < day - RawDays

\* What one pass takes of the old records, and how it sums them up: by day and
\* group (repository, worktree, session), in chunks.
Old == {r \in mem : IsOld(r)}
Selections == {sel \in SUBSET Old : Cardinality(sel) = AtMost(Cardinality(Old), MaxPerPass)}

SumsUp(sums, sel) ==
  /\ \A s \in sums :
       /\ s.keys # {} /\ Cardinality(s.keys) <= ShardSize
       /\ \A k \in s.keys : [key |-> k, ts |-> s.last] \in sel
  /\ \A r \in sel : \E s \in sums : r.key \in s.keys /\ s.last = r.ts
  /\ \A s, t \in sums : s # t /\ s.last = t.last => s.keys \cap t.keys = {}
Groupings(sel) ==
  {sums \in SUBSET [keys : SUBSET KeysIn(sel), last : {r.ts : r \in sel}] : SumsUp(sums, sel)}

Due == lastRun = -1 \/ day > lastRun

Compact ==
  /\ Idle
  /\ Due
  /\ lastRun' = day
  /\ \E sel \in Selections : \E sums \in Groupings(sel) :
       job' = [pc |-> IF sel = {} THEN "prune" ELSE "shards",
               shards |-> sums, ids |-> sel, days |-> {r.ts : r \in sel}]
  /\ UNCHANGED <<disk, memory, day, up, faults, history, capped>>

\* A shard's name is made of its contents and their order: written again it is
\* the same file with a new date, or a second one.
WriteShard ==
  /\ up
  /\ job.pc = "shards"
  /\ \E new \in job.shards :
       LET same == {s \in shards : s.keys = new.keys /\ s.last = new.last}
           rest == job.shards \ {new}
       IN /\ \A s \in rest : new.last <= s.last
          /\ \E old \in SUBSET same :
               shards' = (shards \ old) \cup {[keys |-> new.keys, last |-> new.last, at |-> day]}
          /\ job' = [job EXCEPT !.shards = rest, !.pc = IF rest = {} THEN "segments" ELSE "shards"]
  /\ UNCHANGED <<seg, memory, day, lastRun, up, faults, history, capped>>

\* Mutant: the whole day goes, also what one pass was too short for.
RemainingNone(d) == {}

Remaining(d) == KeysIn({r \in mem \ job.ids : r.ts = d})

RewriteSegment ==
  /\ up
  /\ job.pc = "segments"
  /\ \E d \in job.days :
       LET rest == job.days \ {d}
       IN /\ \A e \in rest : d < e
          /\ seg' = [seg EXCEPT ![d] = Lines(Remaining(d))]
          /\ job' = [job EXCEPT !.days = rest, !.pc = IF rest = {} THEN "prune" ELSE "segments"]
  /\ UNCHANGED <<shards, memory, day, lastRun, up, faults, history, capped>>

Expired(s) == s.at < day - SummaryDays

PruneAndLoad ==
  /\ up
  /\ job.pc = "prune"
  /\ LET kept == {s \in shards : ~Expired(s)}
     IN /\ shards' = kept
        /\ IF job.ids = {} /\ kept = shards THEN UNCHANGED <<memory, capped>>
           ELSE IF CanLoad THEN Load(kept)
           ELSE LoadFails
  /\ job' = NoJob
  /\ UNCHANGED <<seg, day, lastRun, up, faults, history>>

\* A shard or a segment that cannot be written, or an old shard that cannot be
\* removed, ends the pass before the load.
CompactionFails ==
  /\ up
  /\ job.pc # "idle"
  /\ Fault
  /\ job' = NoJob
  /\ UNCHANGED <<disk, memory, day, lastRun, up, history, capped>>

NextDay ==
  /\ job.pc = "idle"
  /\ day < MaxDay
  /\ day' = day + 1
  /\ UNCHANGED <<disk, memory, job, lastRun, up, faults, history, capped>>

Next ==
  \/ \E k \in Keys, ts \in 0..day : AppendRecord(k, ts) \/ AppendFails(k, ts)
  \/ Compact \/ WriteShard \/ RewriteSegment \/ PruneAndLoad \/ CompactionFails
  \/ Crash \/ Open
  \/ NextDay

Spec == Init /\ [][Next]_vars

----------------------------------------------------------------------------
(***************************************************************************)
(* Properties.                                                             *)
(***************************************************************************)
Job == [pc : {"idle", "shards", "segments", "prune"},
        shards : SUBSET Summary, ids : SUBSET Record, days : SUBSET Days]

\* The types, with the bounds the code keeps: memory holds no more records than
\* the cap, one per key, and every record in memory has its key in the set of
\* keys; no shard is empty or larger than a chunk; a pass that has shards to
\* write still has them, and a pass never outlives its daemon.
TypeOK ==
  /\ seg \in [Days -> Segment]
  /\ shards \subseteq Shard /\ \A s \in shards : Cardinality(s.keys) \in 1..ShardSize
  /\ mem \subseteq Record /\ Cardinality(mem) <= MaxRecords
  /\ dedupe \subseteq Keys /\ KeysIn(mem) \subseteq dedupe
  /\ \A r, o \in mem : r.key = o.key => r = o
  /\ job \in Job
  /\ job.pc = "shards" => job.shards # {}
  /\ job.pc = "segments" => job.days # {}
  /\ up \/ job = NoJob
  /\ day \in Days /\ lastRun \in Days \cup {-1} /\ faults \in 0..MaxFaults
  /\ acceptedOn \in [Keys -> Days \cup {-1}]
  /\ {up, twice, capped} \subseteq BOOLEAN

\* An accepted event is not accepted again while the summary retention since its
\* acceptance lasts, whatever its own timestamp, through restarts, failed appends
\* and compactions cut short at any step; unless a start had to leave something
\* out for the cap on records.
AcceptedOnce == twice => capped

\* Behind it: whatever the ledger owes is on disk, in a record that can be read
\* or in a shard, at every moment of a compaction; and the running daemon has it in
\* memory.
OnRecord(k) == (\E d \in Days : k \in Readable(seg[d])) \/ k \in KeysOf(shards)
OwedIsRecorded ==
  capped \/ \A k \in Keys : Owed(k) => OnRecord(k) /\ (up => Known(k))

LedgerInv == TypeOK /\ AcceptedOnce /\ OwedIsRecorded

\* A raw record of an accepted event leaves its segment only when a shard has its
\* key: no step of a compaction, and no rewrite of a segment from memory, loses a
\* record that was never summarised, unless memory was cut at the cap.
InRaw(k) == \E d \in Days : k \in Readable(seg[d])
SummarisedStep ==
  \A k \in Keys : ~capped /\ InRaw(k) /\ ~InRaw(k)' /\ Owed(k) => k \in KeysOf(shards)
SummarisedFirst == [][SummarisedStep]_vars
=============================================================================
