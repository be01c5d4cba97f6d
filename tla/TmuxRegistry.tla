---------------------------- MODULE TmuxRegistry ----------------------------
(* The registry of watched tmux sessions (source/tmux.rs), seen from one       *)
(* session: the entry in memory, the entry on disk, the requests that register *)
(* a watch or a lane and move the lane along, and the three readers that prune *)
(* an entry whose session they found absent: the poll loop, the HTTP listing   *)
(* and the handler of a terminal event.                                        *)
(*                                                                             *)
(* Every change holds one lock from the copy of the registry to its            *)
(* publication and saves the file in between; `saving` is the change that is   *)
(* on disk and not yet in memory.  Readers do not take the lock.  The handlers *)
(* await a change within the request they answer, so that a caller that hangs  *)
(* up drops it at any await: the lock is free again, and the file may be ahead *)
(* of memory.  What such a request leaves of a file operation is taken to end  *)
(* before the next save begins (all saves use one temporary name).             *)
(*                                                                             *)
(* What is said of a lane besides its launch, workflow and revision is left    *)
(* out; so are its identity strings but the generation id (`id`).              *)
EXTENDS Integers, FiniteSets

CONSTANTS
  LaneIds,        \* generation ids that clients give to lanes
  Clients,        \* requests under way at a time
  Pruners,        \* of "poll", "http" and "event"
  Configured,     \* whether the configuration monitors the session, by its name
  MaxGeneration,  \* bound on the generations minted
  MaxRevision,    \* bound on the revisions of a lane
  MaxRestarts,    \* bound on crashes
  MaxFailures     \* bound on saves and probes that fail and on callers that hang up after a save

ASSUME RegistryConstants ==
  /\ Pruners \subseteq {"poll", "http", "event"}
  /\ Configured \in BOOLEAN
  /\ {MaxGeneration, MaxRevision, MaxRestarts, MaxFailures} \subseteq Nat

VARIABLES
  alive,     \* the tmux session exists
  up,        \* the daemon runs
  memory,    \* the entry of the shared registry, or Nobody
  disk,      \* the entry of the file, or Nobody
  saving,    \* the entry saved and about to be published, or Unlocked
  holder,    \* who saved it: a request, or the task of the poll
  nextGen,   \* NEXT_REGISTRATION_GENERATION
  looks,     \* per pruner: where it is, what it listed and what it read
  asks,      \* per client: the request under way
  absent,    \* history: the session was absent at some time since the entry of memory was made
  ahead,     \* history: the file was last written for a request that was dropped since
  restarts, failures

file == <<disk, saving, holder, ahead>>
registryVars == <<alive, up, memory, file, nextGen, looks, asks, absent, restarts, failures>>

-----------------------------------------------------------------------------
(* Entries and lanes.                                                          *)

Launches == {"ready", "claimed", "verified", "launched", "failed"}
Workflows == {"active", "handoff", "retired"}
Lanes == [id : LaneIds, launch : Launches, workflow : Workflows, quiesced : BOOLEAN,
          told : BOOLEAN, revision : Nat]
NoLane == [id |-> "none"]

Entries == [source : {"config", "cli"}, gen : Nat, wrapper : BOOLEAN, lane : Lanes \cup {NoLane}]
Nobody == [source |-> "nobody"]
Unlocked == [source |-> "unlocked"]

ConfigEntry == [source |-> "config", gen |-> 0, wrapper |-> FALSE, lane |-> NoLane]

IsDynamic(entry) == entry.source = "cli"
HasLane(entry) == IsDynamic(entry) /\ entry.lane # NoLane
InFlight(entry) == HasLane(entry) /\ entry.lane.workflow # "retired"
Over(lane) == lane.workflow = "retired" /\ lane.quiesced

(* registration_is_reconcilable. *)
Reconcilable(entry) == IsDynamic(entry) /\ (HasLane(entry) => Over(entry.lane))

(* What the file holds of an entry: configured ones are not written. *)
Durable(entry) == IF IsDynamic(entry) THEN entry ELSE Nobody

NewLane(id) == [id |-> id, launch |-> "ready", workflow |-> "active", quiesced |-> FALSE,
                told |-> FALSE, revision |-> 0]

Idle == [at |-> "idle"]
Stopped == [at |-> "stopped"]
Looks == {Idle, Stopped} \cup [at : {"sync", "read"}, listed : {"with", "without", "noserver", "error"}]
           \cup [at : {"probe"}, gen : Nat, act : {"prune", "unregister"}] \cup [at : {"prune", "unregister"}, gen : Nat]
NotAsking == [kind |-> "none"]
Requests == {NotAsking} \cup [kind : {"watch"}, gen : Nat, wrapper : BOOLEAN]
              \cup [kind : {"lane"}, gen : Nat, id : LaneIds] \cup [kind : {"retire"}, id : LaneIds, expected : Nat]

RegistryInit ==
  /\ alive \in BOOLEAN /\ up = TRUE
  /\ memory = Nobody /\ disk = Nobody /\ saving = Unlocked /\ holder = "none" /\ ahead = FALSE
  /\ nextGen = 1
  /\ looks = [p \in Pruners |-> Idle]
  /\ asks = [c \in Clients |-> NotAsking]
  /\ absent = FALSE /\ restarts = 0 /\ failures = 0

-----------------------------------------------------------------------------
(* The session, and the lock: a save, then a publication.                      *)

SessionEnds ==
  /\ alive /\ alive' = FALSE /\ absent' = TRUE
  /\ UNCHANGED <<up, memory, file, nextGen, looks, asks, restarts, failures>>

SessionStarts ==
  /\ ~alive /\ alive' = TRUE
  /\ UNCHANGED <<up, memory, file, nextGen, looks, asks, absent, restarts, failures>>

Free == up /\ saving = Unlocked

SaveLater(by, entry) == saving' = entry /\ holder' = by /\ ahead' = FALSE /\ UNCHANGED <<disk, failures>>
Save(by, entry) ==
  /\ saving' = entry /\ holder' = by
  /\ disk' = Durable(entry) /\ ahead' = FALSE
  /\ UNCHANGED failures
SaveFails == failures < MaxFailures /\ failures' = failures + 1 /\ UNCHANGED file
NoSave == UNCHANGED <<file, failures>>

(* An entry keeps its age while it is only changed: absent is about the one    *)
(* that a registration made.                                                   *)
SameWatch(a, b) == a.source = b.source /\ (a.source = "cli" => a.gen = b.gen)

Publish ==
  /\ up /\ saving # Unlocked
  /\ memory' = saving /\ saving' = Unlocked /\ holder' = "none"
  /\ absent' = IF SameWatch(memory, saving) THEN absent ELSE ~alive
  /\ UNCHANGED <<alive, up, disk, ahead, nextGen, looks, asks, restarts, failures>>

(* The caller of a request goes away while its change is written: memory stays *)
(* what it was.                                                                *)
HangUp ==
  /\ up /\ holder = "request" /\ failures < MaxFailures
  /\ saving' = Unlocked /\ holder' = "none"
  /\ ahead' = TRUE /\ failures' = failures + 1
  /\ UNCHANGED <<alive, up, memory, disk, nextGen, looks, asks, absent, restarts>>

(* A change of another session's entry saves the whole registry, this one's entry with it. *)
SaveElsewhere ==
  /\ Free /\ disk' = Durable(memory) /\ ahead' = FALSE
  /\ UNCHANGED <<alive, up, memory, saving, holder, nextGen, looks, asks, absent, restarts, failures>>

-----------------------------------------------------------------------------
(* The pruners.  A look is: list the sessions, bring the configured entries in *)
(* line with the list, read the registry, probe the session, act.              *)

(* What list-sessions may answer. *)
Listing == {"error"} \cup (IF alive THEN {"with"} ELSE {"without", "noserver"})

(* sync_active_config_registrations, merge_active_config_registrations: the    *)
(* configured entries in memory are those whose session is listed; they give   *)
(* way to a wrapper's watch and to a lane in flight, but replace any other.    *)
GivesWayUnlessWrapped(entry) == IsDynamic(entry) /\ ~entry.wrapper
GivesWay(entry) == IsDynamic(entry) /\ ~entry.wrapper /\ ~InFlight(entry)
Synced(listed) ==
  IF listed = "with" /\ Configured /\ (memory = Nobody \/ GivesWay(memory)) THEN ConfigEntry
  ELSE IF listed # "with" /\ memory = ConfigEntry THEN Nobody
  ELSE memory

Moved(p, look) == looks' = [looks EXCEPT ![p] = look]

List(p) ==
  /\ up /\ looks[p] = Idle /\ p # "event"
  /\ \E listed \in Listing :
       /\ ~(p = "http" /\ listed = "error")
       /\ Moved(p, [at |-> IF listed \in {"with", "without"} THEN "sync" ELSE "read", listed |-> listed])
  /\ UNCHANGED <<alive, up, memory, file, nextGen, asks, absent, restarts, failures>>

Sync(p) ==
  /\ Free /\ looks[p].at = "sync"
  /\ memory' = Synced(looks[p].listed)
  /\ absent' = IF SameWatch(memory, memory') THEN absent ELSE ~alive
  /\ Moved(p, [looks[p] EXCEPT !.at = "read"])
  /\ UNCHANGED <<alive, up, file, nextGen, asks, restarts, failures>>

(* The poll reads every entry, and makes one for a configured session that has *)
(* none; what it would do to one whose session is gone follows from the entry. *)
(* On a server that is gone, configured entries and lanes are kept.            *)
Monitored == IF memory = Nobody /\ Configured THEN ConfigEntry ELSE memory
ToProbe(entry) ==
  [at |-> "probe", gen |-> entry.gen, act |-> IF Reconcilable(entry) THEN "prune" ELSE "unregister"]
WantedOnServer(listed) == IF Monitored = Nobody \/ listed = "noserver" THEN Idle ELSE ToProbe(Monitored)
Wanted(listed) ==
  IF Monitored = Nobody \/ (listed = "noserver" /\ ~Reconcilable(Monitored)) THEN Idle ELSE ToProbe(Monitored)

ReadByPoll ==
  /\ up /\ "poll" \in Pruners /\ looks["poll"].at = "read"
  /\ Moved("poll", Wanted(looks["poll"].listed))
  /\ UNCHANGED <<alive, up, memory, file, nextGen, asks, absent, restarts, failures>>

(* The listing holds the inventory it has taken against the registry it reads now. *)
ReadByHttp ==
  /\ up /\ "http" \in Pruners /\ looks["http"].at = "read"
  /\ Moved("http", IF looks["http"].listed # "with" /\ Reconcilable(memory)
                     THEN [at |-> "prune", gen |-> memory.gen] ELSE Idle)
  /\ UNCHANGED <<alive, up, memory, file, nextGen, asks, absent, restarts, failures>>

(* A terminal event of the session: only a plain watch is a candidate. *)
ReadByEvent ==
  /\ up /\ "event" \in Pruners /\ looks["event"] = Idle
  /\ IsDynamic(memory) /\ memory.lane = NoLane /\ ~memory.wrapper
  /\ Moved("event", [at |-> "probe", gen |-> memory.gen, act |-> "prune"])
  /\ UNCHANGED <<alive, up, memory, file, nextGen, asks, absent, restarts, failures>>

(* has-session. *)
Found(look) == IF alive THEN Idle ELSE [at |-> look.act, gen |-> look.gen]

Probe(p) ==
  /\ up /\ looks[p].at = "probe"
  /\ Moved(p, Found(looks[p]))
  /\ UNCHANGED <<alive, up, memory, file, nextGen, asks, absent, restarts, failures>>

ProbeFails(p) ==
  /\ up /\ looks[p].at = "probe" /\ failures < MaxFailures
  /\ failures' = failures + 1 /\ Moved(p, Idle)
  /\ UNCHANGED <<alive, up, memory, file, nextGen, asks, absent, restarts>>

(* prune_absent_dynamic_registrations: the generation read is compared and swapped. *)
MatchesAny(gen) == Reconcilable(memory)
Matches(gen) == Reconcilable(memory) /\ memory.gen = gen

(* The poll ends with the error, and nothing starts its source again.          *)
AfterFailure(p) == IF p = "poll" THEN Stopped ELSE Idle

HeldBy(p) == IF p = "poll" THEN "poll" ELSE "request"

Prune(p) ==
  /\ Free /\ looks[p].at = "prune"
  /\ \/ Matches(looks[p].gen) /\ Save(HeldBy(p), Nobody) /\ Moved(p, Idle)
     \/ Matches(looks[p].gen) /\ SaveFails /\ Moved(p, AfterFailure(p))
     \/ ~Matches(looks[p].gen) /\ Moved(p, Idle) /\ NoSave
  /\ UNCHANGED <<alive, up, memory, nextGen, asks, absent, restarts>>

(* remove_tmux_registrations, for what the poll found absent and may not prune. *)
Removable(entry) == entry.source = "config" \/ (HasLane(entry) /\ Over(entry.lane))
Unregister ==
  /\ Free /\ "poll" \in Pruners /\ looks["poll"].at = "unregister"
  /\ \/ Removable(memory) /\ Save("poll", Nobody) /\ Moved("poll", Idle)
     \/ Removable(memory) /\ SaveFails /\ Moved("poll", AfterFailure("poll"))
     \/ ~Removable(memory) /\ Moved("poll", Idle) /\ NoSave
  /\ UNCHANGED <<alive, up, memory, nextGen, asks, absent, restarts>>

-----------------------------------------------------------------------------
(* The requests: a registration mints its generation before it waits for the lock. *)

Asked(c, ask) == asks' = [asks EXCEPT ![c] = ask]

Mint(c) ==
  /\ up /\ asks[c] = NotAsking /\ nextGen <= MaxGeneration
  /\ nextGen' = nextGen + 1
  /\ \/ \E wrapper \in BOOLEAN : Asked(c, [kind |-> "watch", gen |-> nextGen, wrapper |-> wrapper])
     \/ \E id \in LaneIds : Asked(c, [kind |-> "lane", gen |-> nextGen, id |-> id])
  /\ UNCHANGED <<alive, up, memory, file, looks, absent, restarts, failures>>

Made(ask) ==
  IF ask.kind = "watch"
  THEN [source |-> "cli", gen |-> ask.gen, wrapper |-> ask.wrapper, lane |-> NoLane]
  ELSE [source |-> "cli", gen |-> ask.gen, wrapper |-> FALSE, lane |-> NewLane(ask.id)]

(* A watch replaces anything but a lane in flight; a lane, only a retired one. *)
Admitted(ask) ==
  IF ask.kind = "watch" THEN ~InFlight(memory)
  ELSE memory = Nobody \/ (HasLane(memory) /\ ~InFlight(memory))

RegisterEntry(c) ==
  /\ Free /\ asks[c].kind \in {"watch", "lane"}
  /\ IF Admitted(asks[c]) THEN Save("request", Made(asks[c])) \/ SaveFails ELSE NoSave
  /\ Asked(c, NotAsking)
  /\ UNCHANGED <<alive, up, memory, nextGen, looks, absent, restarts>>

(* mutate_lane: the revision a client has read is compared and swapped.  A     *)
(* request with another revision or id is refused, and one that was made       *)
(* already is answered: neither changes anything.                              *)
Change(lane) ==
  /\ Free /\ memory.lane.revision < MaxRevision
  /\ \/ Save("request", [memory EXCEPT !.lane = [lane EXCEPT !.revision = memory.lane.revision + 1]])
     \/ SaveFails
  /\ UNCHANGED <<alive, up, memory, nextGen, looks, absent, restarts>>

(* claim_lane *)
Claim ==
  /\ InFlight(memory) /\ memory.lane.launch \in {"ready", "claimed"}
  /\ Change([memory.lane EXCEPT !.launch = "claimed"])
  /\ UNCHANGED asks

(* update_lane_evidence: what may follow a launch state. *)
Follows(launch, next) ==
  \/ launch = next
  \/ launch = "claimed" /\ next \in {"verified", "failed"}
  \/ launch = "verified" /\ next \in {"launched", "failed"}

Evidence ==
  /\ InFlight(memory)
  /\ \E next \in Launches : Follows(memory.lane.launch, next) /\ Change([memory.lane EXCEPT !.launch = next])
  /\ UNCHANGED asks

(* update_lane_workflow: retiring has a request of its own. *)
Workflow ==
  /\ InFlight(memory)
  /\ \E w \in Workflows \ {"retired"}, q \in BOOLEAN :
       Change([memory.lane EXCEPT !.workflow = w, !.quiesced = q])
  /\ UNCHANGED asks

(* record_lane_delivery: the kickoff comes before any other delivery, and a    *)
(* delivery may bring the workflow with it, "retired" too.                     *)
Delivery ==
  /\ HasLane(memory)
  /\ \/ /\ InFlight(memory) /\ memory.lane.launch = "ready" /\ ~memory.lane.told
        /\ Change([memory.lane EXCEPT !.told = TRUE])
     \/ \E w \in Workflows :
          /\ InFlight(memory) \/ w = "retired"
          /\ Change([memory.lane EXCEPT !.told = TRUE, !.workflow = w])
  /\ UNCHANGED asks

(* retire_lane_if_absent: the session is asked for before the lock is taken. *)
AskToRetire(c) ==
  /\ up /\ asks[c] = NotAsking /\ ~alive /\ HasLane(memory)
  /\ Asked(c, [kind |-> "retire", id |-> memory.lane.id, expected |-> memory.lane.revision])
  /\ UNCHANGED <<alive, up, memory, file, nextGen, looks, absent, restarts, failures>>

Current(ask) == HasLane(memory) /\ memory.lane.id = ask.id /\ memory.lane.revision = ask.expected

Retire(c) ==
  /\ asks[c].kind = "retire" /\ Current(asks[c])
  /\ Change([memory.lane EXCEPT !.workflow = "retired", !.quiesced = TRUE])
  /\ Asked(c, NotAsking)

RetireRefused(c) ==
  /\ Free /\ asks[c].kind = "retire" /\ ~Current(asks[c])
  /\ Asked(c, NotAsking)
  /\ UNCHANGED <<alive, up, memory, file, nextGen, looks, absent, restarts, failures>>

(* A request may also go away while it waits, or between its awaits: it has    *)
(* changed nothing.                                                            *)
GiveUp(c) ==
  /\ up /\ asks[c] # NotAsking /\ Asked(c, NotAsking)
  /\ UNCHANGED <<alive, up, memory, file, nextGen, looks, absent, restarts, failures>>

LeaveLook(p) ==
  /\ up /\ p # "poll" /\ looks[p] # Idle /\ Moved(p, Idle)
  /\ UNCHANGED <<alive, up, memory, file, nextGen, asks, absent, restarts, failures>>

-----------------------------------------------------------------------------
(* The daemon stops at any moment, and starts: load_tmux_registry_state, then  *)
(* reconcile_restored_tmux_registry.                                           *)

Crash ==
  /\ up /\ restarts < MaxRestarts
  /\ up' = FALSE /\ restarts' = restarts + 1
  /\ memory' = Nobody /\ saving' = Unlocked /\ holder' = "none" /\ ahead' = FALSE /\ absent' = FALSE
  /\ looks' = [p \in Pruners |-> Idle] /\ asks' = [c \in Clients |-> NotAsking]
  /\ UNCHANGED <<alive, disk, nextGen, failures>>

(* advance_registration_generation_above, of an allocator that begins at 1: it *)
(* stays where it is for what is not above it.                                 *)
Above(loaded) == IF loaded <= 1 THEN 1 ELSE loaded + 1

Restart ==
  /\ ~up /\ up' = TRUE
  /\ nextGen' = IF IsDynamic(disk) THEN Above(disk.gen) ELSE 1
  /\ absent' = ~alive
  /\ \/ memory' = disk /\ UNCHANGED disk
     \/ ~alive /\ Reconcilable(disk) /\ memory' = Nobody /\ disk' = Nobody
  /\ UNCHANGED <<alive, saving, holder, ahead, looks, asks, restarts, failures>>

RegistryNext ==
  \/ SessionEnds \/ SessionStarts \/ Publish \/ HangUp \/ SaveElsewhere
  \/ \E p \in Pruners : List(p) \/ Sync(p) \/ Probe(p) \/ ProbeFails(p) \/ Prune(p) \/ LeaveLook(p)
  \/ ReadByPoll \/ ReadByHttp \/ ReadByEvent \/ Unregister
  \/ \E c \in Clients : Mint(c) \/ RegisterEntry(c) \/ AskToRetire(c) \/ Retire(c) \/ RetireRefused(c)
                       \/ GiveUp(c)
  \/ Claim \/ Evidence \/ Workflow \/ Delivery
  \/ Crash \/ Restart

(* The poll runs at its interval, and whoever holds the lock goes on or is dropped. *)
RegistryFairness ==
  /\ WF_registryVars(Publish) /\ WF_registryVars(Restart)
  /\ WF_registryVars(ReadByPoll) /\ WF_registryVars(Unregister)
  /\ "poll" \in Pruners => /\ WF_registryVars(List("poll")) /\ WF_registryVars(Sync("poll"))
                           /\ WF_registryVars(Probe("poll")) /\ WF_registryVars(Prune("poll"))

RegistrySpec == RegistryInit /\ [][RegistryNext]_registryVars /\ RegistryFairness

-----------------------------------------------------------------------------
(* Properties.                                                                 *)

RegistryTypeOK ==
  /\ {alive, up, absent, ahead} \subseteq BOOLEAN
  /\ {memory, disk} \subseteq Entries \cup {Nobody}
  /\ saving \in Entries \cup {Nobody, Unlocked}
  /\ holder \in {"none", "request", "poll"}
  /\ nextGen \in Nat \ {0} /\ restarts \in Nat /\ failures \in Nat
  /\ asks \in [Clients -> Requests]
  /\ looks \in [Pruners -> Looks]

(* The lane of an entry is that of another, or one revision on. *)
Continues(entry, next) ==
  /\ HasLane(next) /\ next.lane.id = entry.lane.id
  /\ next.lane.revision \in {entry.lane.revision, entry.lane.revision + 1}

(* What a request was answered survives a crash: a lane in flight that memory  *)
(* shows is in the file, at most one revision on, also while a change is under *)
(* way and after one whose caller hung up; but for what such a caller left     *)
(* behind, the file holds the dynamic entry that memory shows, and during a    *)
(* change what is about to be shown.                                           *)
AnswersAreSaved ==
  /\ up /\ InFlight(memory) => Continues(memory, disk)
  /\ up /\ saving = Unlocked /\ ~ahead /\ IsDynamic(memory) => disk = memory
  /\ up /\ saving # Unlocked => disk = Durable(saving)

RegistryInv == RegistryTypeOK /\ AnswersAreSaved

(* The evidence of a lane in flight that clients were answered is not pruned,  *)
(* replaced, taken over by the configuration, undone by a request that was     *)
(* dropped, or lost in a restart: what is shown of it, by memory, or by the    *)
(* file while the daemon is down, stays under its id and changes one revision  *)
(* at a time (source/tmux.rs, the comment of                                   *)
(* prune_absent_dynamic_registrations: "Active and handoff lane evidence is    *)
(* preserved regardless of liveness").                                         *)
Shown == IF up THEN memory ELSE disk
KeepsLane == InFlight(Shown) => Continues(Shown, Shown')

(* A registration is pruned only if its session has been absent since it was   *)
(* made.  Removed says that a pruner takes a watch out.                        *)
RemovedBy(p) == looks[p].at = "prune" /\ looks'[p] = Idle /\ saving = Unlocked /\ saving' = Nobody
PrunedWasGone == [][\A p \in Pruners : RemovedBy(p) => absent]_registryVars

(* The same of the pruners that read the registry before they ask for the      *)
(* session, and of a generation that is no restored one's.                     *)
Probing == {"poll", "event"}
SoundPrune == \A p \in Pruners \cap Probing : RemovedBy(p) /\ memory.gen > 1 => absent

(* An entry goes for a cause, and a lane in flight for none (source/tmux.rs,   *)
(* prune_absent_dynamic_registrations and remove_tmux_registrations).          *)
GoneForCause == [][KeepsLane /\ SoundPrune]_registryVars

(* A watch whose session stays away goes, wrapper or not, unless a lane in     *)
(* flight keeps it, or the poll has ended with the error of a save.            *)
Polling == looks["poll"] # Stopped
AbsentWatchesGo == <>[](up /\ ~alive /\ Polling) => <>[]~Reconcilable(memory)

=============================================================================
