-------------------------- MODULE TmuxRegistryProofs --------------------------
(* Proofs about TmuxRegistry, for any clients, lanes, pruners and bounds: what *)
(* memory shows is in the file (RegistryInv), and an entry goes for a cause, a *)
(* lane in flight for none (GoneForCause); and at the end about TmuxPanes:     *)
(* what is told of a session's panes is new, told once, and nothing new is     *)
(* passed over (PanesInv).                                                     *)
(*                                                                             *)
(* The strengthening says where an entry may be.  The file may be ahead of     *)
(* memory, by a change under way or one whose caller hung up, but by one       *)
(* revision of the lane at most, since whoever changes a lane starts from      *)
(* memory's; so neither a restart nor the next save takes back more than that. *)
(* A generation above 1 is minted once: a request that waits for the lock has  *)
(* one that no entry and no look has, and a look that read one finds it in     *)
(* memory as long as that entry is there, and never again; so what a probe     *)
(* said of it is said of the entry that is removed.                            *)
EXTENDS TmuxRegistry, TmuxPanes, SequenceTheorems, WellFoundedInduction, TLAPS

-----------------------------------------------------------------------------
(* The inductive invariant.                                                    *)

IsGen(entry, g) == IsDynamic(entry) /\ entry.gen = g

DownIsIdle ==
  ~up => /\ saving = Unlocked
         /\ \A p \in Pruners : looks[p] = Idle
         /\ \A c \in Clients : asks[c] = NotAsking

ConfigIsPlain == \A entry \in {memory, disk, saving} : entry.source = "config" => entry = ConfigEntry

AwayIsAbsent == up /\ ~alive => absent \/ memory = Nobody

Asking(c) == asks[c].kind \in {"watch", "lane"}
Unused(c) ==
  /\ asks[c].gen < nextGen
  /\ \A d \in Clients : Asking(d) /\ asks[d].gen = asks[c].gen => d = c
  /\ asks[c].gen > 1 => ~IsGen(memory, asks[c].gen) /\ ~IsGen(saving, asks[c].gen)
GensUnused == \A c \in Clients : Asking(c) => Unused(c)

GensMinted == \A entry \in {memory, saving} : IsDynamic(entry) /\ entry.gen > 1 => entry.gen < nextGen

Looking(p) == looks[p].at \in {"probe", "prune"} /\ looks[p].gen > 1
Once(g) ==
  /\ g < nextGen
  /\ \A c \in Clients : Asking(c) => asks[c].gen # g
  /\ IsGen(saving, g) => IsGen(memory, g)
LooksOnce == \A p \in Pruners : Looking(p) => Once(looks[p].gen)

ProbedWasAbsent ==
  \A p \in Pruners \cap Probing :
    Looking(p) /\ looks[p].at = "prune" /\ IsGen(memory, looks[p].gen) => absent

Places == DownIsIdle /\ ConfigIsPlain /\ AwayIsAbsent
Gens == GensUnused /\ GensMinted /\ LooksOnce
RegistryIInv == RegistryInv /\ Places /\ Gens /\ ProbedWasAbsent

-----------------------------------------------------------------------------
(* Types.                                                                      *)

USE DEF file, NoSave

\* The fields of an entry that is no configured one (RegisteredTmuxSession).
LEMMA DynamicEntry ==
  ASSUME NEW e \in Entries \cup {Nobody}, IsDynamic(e)
  PROVE  e \in Entries /\ e.gen \in Nat /\ e.lane \in Lanes \cup {NoLane}
BY DEF Entries, Nobody, IsDynamic

WithLane(e, lane, revision) == [e EXCEPT !.lane = [lane EXCEPT !.revision = revision]]

\* A change of a lane gives an entry of the same generation with the changed lane,
\* one revision on (mutate_lane).
LEMMA ChangedEntry ==
  ASSUME NEW e \in Entries, IsDynamic(e), NEW lane \in Lanes, NEW revision \in Nat,
         NEW f, f = WithLane(e, lane, revision)
  PROVE  /\ f \in Entries /\ IsDynamic(f) /\ f.gen = e.gen /\ f.wrapper = e.wrapper
         /\ f.lane.id = lane.id /\ f.lane.revision = revision
         /\ HasLane(f) /\ f # Nobody /\ f # Unlocked
<1>1. [lane EXCEPT !.revision = revision] \in Lanes /\ "launch" \in DOMAIN [lane EXCEPT !.revision = revision]
  BY DEF Lanes
<1>2. [lane EXCEPT !.revision = revision].id = lane.id /\ [lane EXCEPT !.revision = revision].revision = revision
  BY DEF Lanes
<1>3. f \in Entries /\ f.source = e.source /\ f.gen = e.gen /\ f.wrapper = e.wrapper
      /\ f.lane = [lane EXCEPT !.revision = revision]
  BY <1>1 DEF Entries, WithLane
<1>4. f.lane # NoLane
  BY <1>1, <1>3 DEF NoLane
<1>5. QED
  BY <1>2, <1>3, <1>4 DEF HasLane, IsDynamic, Nobody, Unlocked

\* The types of what a save changes.
FileTypes ==
  /\ saving' \in Entries \cup {Nobody, Unlocked} /\ disk' \in Entries \cup {Nobody}
  /\ holder' \in {"none", "request", "poll"} /\ ahead' \in BOOLEAN /\ failures' \in Nat

\* What is saved has the type of what is published (Save, save_durable_tmux_registry).
LEMMA SaveTypes ==
  ASSUME NEW e \in Entries \cup {Nobody}, NEW by \in {"request", "poll"}, RegistryTypeOK,
         Save(by, e) \/ SaveFails \/ NoSave
  PROVE  FileTypes
<1>1. CASE Save(by, e)
  BY <1>1 DEF Save, Durable, RegistryTypeOK, FileTypes
<1>2. CASE SaveFails \/ NoSave
  BY <1>2 DEF SaveFails, RegistryTypeOK, FileTypes
<1>3. QED
  BY <1>1, <1>2

\* A request of a client, and a look of a pruner, one step on.
LEMMA AskTypes ==
  ASSUME RegistryTypeOK, NEW c \in Clients, NEW ask \in Requests, Asked(c, ask)
  PROVE  asks' \in [Clients -> Requests]
BY DEF Asked, RegistryTypeOK

LEMMA LookTypes ==
  ASSUME RegistryTypeOK, NEW p \in Pruners, NEW l \in Looks, Moved(p, l)
  PROVE  looks' \in [Pruners -> Looks]
BY DEF Moved, RegistryTypeOK

\* A change of the lane (mutate_lane) keeps the types, whatever it changes in it.
LEMMA ChangeTypes ==
  ASSUME RegistryTypeOK, HasLane(memory), NEW lane \in Lanes, Change(lane), asks' \in [Clients -> Requests]
  PROVE  RegistryTypeOK'
<1>1. memory \in Entries /\ IsDynamic(memory) /\ memory.lane.revision + 1 \in Nat
  BY DynamicEntry DEF RegistryTypeOK, HasLane, Lanes
<1>2. PICK e : e = WithLane(memory, lane, memory.lane.revision + 1) /\ (Save("request", e) \/ SaveFails)
  BY DEF Change, WithLane
<1>3. e \in Entries
  BY <1>1, <1>2, ChangedEntry
<1>4. QED
  BY <1>2, <1>3, SaveTypes DEF Change, RegistryTypeOK, FileTypes

\* The lane of an entry that has one.
LEMMA LaneTypes ==
  ASSUME RegistryTypeOK, HasLane(memory)
  PROVE  memory.lane \in Lanes
BY DynamicEntry DEF RegistryTypeOK, HasLane

\* What a look comes to (list_tmux_sessions, session_exists, poll_tmux).
LEMMA LookKinds ==
  /\ Idle \in Looks /\ Stopped \in Looks
  /\ \A at \in {"sync", "read"}, l \in {"with", "without", "noserver", "error"} :
       [at |-> at, listed |-> l] \in Looks
  /\ \A g \in Nat, a \in {"prune", "unregister"} :
       [at |-> "probe", gen |-> g, act |-> a] \in Looks /\ [at |-> a, gen |-> g] \in Looks
BY DEF Looks

\* The steps of the lanes (claim_lane, update_lane_evidence, update_lane_workflow,
\* record_lane_delivery, retire_lane_if_absent) are changes of a lane that keep its id.
LEMMA LaneChanges ==
  ASSUME RegistryTypeOK,
         Claim \/ Evidence \/ Workflow \/ Delivery \/ \E c \in Clients : Retire(c)
  PROVE  /\ HasLane(memory) /\ memory.lane \in Lanes
         /\ \E lane \in Lanes : lane.id = memory.lane.id /\ Change(lane)
<1>1. HasLane(memory) /\ memory.lane \in Lanes
  BY LaneTypes DEF Claim, Evidence, Workflow, Delivery, Retire, Current, InFlight
<1>2. \E lane \in Lanes : lane.id = memory.lane.id /\ Change(lane)
  <2> DEFINE Kept(lane) == lane \in Lanes /\ lane.id = memory.lane.id
  <2>1. \A l \in Launches : Kept([memory.lane EXCEPT !.launch = l])
    BY <1>1 DEF Lanes
  <2>2. \A w \in Workflows, q \in BOOLEAN : Kept([memory.lane EXCEPT !.workflow = w, !.quiesced = q])
    BY <1>1 DEF Lanes
  <2>3. /\ Kept([memory.lane EXCEPT !.told = TRUE])
        /\ \A w \in Workflows : Kept([memory.lane EXCEPT !.told = TRUE, !.workflow = w])
    BY <1>1 DEF Lanes
  <2>4. Launches # {} /\ "claimed" \in Launches /\ "retired" \in Workflows
    BY DEF Launches, Workflows
  <2> SUFFICES \E lane : Kept(lane) /\ Change(lane)
    OBVIOUS
  <2> HIDE DEF Kept
  <2>5. CASE Claim
    BY <2>1, <2>4, <2>5 DEF Claim
  <2>6. CASE Evidence
    BY <2>1, <2>6 DEF Evidence
  <2>7. CASE Workflow
    BY <2>2, <2>7 DEF Workflow
  <2>8. CASE Delivery
    BY <2>3, <2>8 DEF Delivery
  <2>9. CASE \E c \in Clients : Retire(c)
    BY <2>2, <2>4, <2>9 DEF Retire
  <2>10. QED
    BY <2>5, <2>6, <2>7, <2>8, <2>9
<1>3. QED
  BY <1>1, <1>2

\* They keep the types.
LEMMA LaneStepTypes ==
  ASSUME RegistryTypeOK, Claim \/ Evidence \/ Workflow \/ Delivery
  PROVE  RegistryTypeOK'
<1>1. asks' \in [Clients -> Requests]
  BY DEF Claim, Evidence, Workflow, Delivery, RegistryTypeOK
<1>2. QED
  BY <1>1, LaneChanges, ChangeTypes

\* The steps of the pruners keep the types (list_active_tmux_registrations, poll_tmux,
\* expire_terminal_tmux_registration).
LEMMA LookStepTypes ==
  ASSUME RegistryTypeOK, NEW p \in Pruners,
         List(p) \/ Sync(p) \/ Probe(p) \/ ProbeFails(p) \/ LeaveLook(p)
  PROVE  RegistryTypeOK'
<1>1. looks[p] \in Looks
  BY DEF RegistryTypeOK
<1>2. CASE List(p)
  <2>1. \E l \in Looks : Moved(p, l)
    BY <1>2, LookKinds DEF List, Listing
  <2>2. QED
    BY <1>2, <2>1, LookTypes DEF List, RegistryTypeOK
<1>3. CASE Sync(p)
  <2>1. [looks[p] EXCEPT !.at = "read"] \in Looks
    BY <1>1, <1>3 DEF Sync, Looks, Idle, Stopped
  <2>2. memory' \in Entries \cup {Nobody}
    BY <1>3 DEF Sync, Synced, RegistryTypeOK, ConfigEntry, Entries
  <2>3. absent' \in BOOLEAN
    BY <1>3 DEF Sync, RegistryTypeOK
  <2>4. QED
    BY <1>3, <2>1, <2>2, <2>3, LookTypes DEF Sync, RegistryTypeOK
<1>4. CASE Probe(p)
  <2>1. looks[p].gen \in Nat /\ looks[p].act \in {"prune", "unregister"}
    BY <1>1, <1>4 DEF Probe, Looks, Idle, Stopped
  <2>2. Found(looks[p]) \in Looks
    BY <2>1, LookKinds DEF Found
  <2>3. QED
    BY <1>4, <2>2, LookTypes DEF Probe, RegistryTypeOK
<1>5. CASE ProbeFails(p) \/ LeaveLook(p)
  <2>1. looks' \in [Pruners -> Looks]
    BY <1>5, LookKinds, LookTypes DEF ProbeFails, LeaveLook
  <2>2. CASE ProbeFails(p)
    BY <2>1, <2>2 DEF ProbeFails, RegistryTypeOK
  <2>3. CASE LeaveLook(p)
    BY <2>1, <2>3 DEF LeaveLook, RegistryTypeOK
  <2>4. QED
    BY <1>5, <2>2, <2>3
<1>6. QED
  BY <1>2, <1>3, <1>4, <1>5

\* What a reader of the registry wants done with the entry (poll_tmux,
\* list_active_tmux_registrations, expire_terminal_tmux_registration).
LEMMA ReadTypes ==
  ASSUME RegistryTypeOK, ReadByPoll \/ ReadByHttp \/ ReadByEvent
  PROVE  RegistryTypeOK'
<1>1. memory # Nobody => memory.gen \in Nat
  BY DEF RegistryTypeOK, Entries
<1>2. Reconcilable(memory) \/ IsDynamic(memory) => memory # Nobody
  BY DEF Reconcilable, IsDynamic, Nobody
<1>3. CASE ReadByPoll
  <2>1. Wanted(looks["poll"].listed) \in Looks
    <3>1. Monitored # Nobody => Monitored.gen \in Nat
      BY <1>1 DEF Monitored, ConfigEntry
    <3>2. Monitored # Nobody => ToProbe(Monitored) \in Looks
      BY <3>1, LookKinds DEF ToProbe
    <3>3. QED
      BY <3>2, LookKinds DEF Wanted
  <2>2. QED
    BY <1>3, <2>1, LookTypes DEF ReadByPoll, RegistryTypeOK
<1>4. CASE ReadByHttp
  <2>1. \E l \in Looks : Moved("http", l)
    BY <1>1, <1>2, <1>4, LookKinds DEF ReadByHttp
  <2>2. QED
    BY <1>4, <2>1, LookTypes DEF ReadByHttp, RegistryTypeOK
<1>5. CASE ReadByEvent
  <2>1. [at |-> "probe", gen |-> memory.gen, act |-> "prune"] \in Looks
    BY <1>1, <1>2, <1>5, LookKinds DEF ReadByEvent
  <2>2. QED
    BY <1>5, <2>1, LookTypes DEF ReadByEvent, RegistryTypeOK
<1>6. QED
  BY <1>3, <1>4, <1>5

\* The removals keep the types (prune_absent_dynamic_registrations,
\* remove_tmux_registrations).
LEMMA RemoveTypes ==
  ASSUME RegistryTypeOK, (\E p \in Pruners : Prune(p)) \/ Unregister
  PROVE  RegistryTypeOK'
<1>1. Nobody \in Entries \cup {Nobody}
  OBVIOUS
<1>2. ASSUME NEW p \in Pruners, Prune(p) PROVE RegistryTypeOK'
  <2>1. AfterFailure(p) \in Looks /\ Idle \in Looks
    BY LookKinds DEF AfterFailure
  <2>2. looks' \in [Pruners -> Looks]
    BY <1>2, <2>1, LookTypes DEF Prune
  <2>3. FileTypes
    BY <1>1, <1>2, SaveTypes DEF Prune, HeldBy
  <2>4. QED
    BY <1>2, <2>2, <2>3 DEF Prune, RegistryTypeOK, FileTypes
<1>3. ASSUME Unregister PROVE RegistryTypeOK'
  <2>1. AfterFailure("poll") \in Looks /\ Idle \in Looks /\ "poll" \in Pruners
    BY <1>3, LookKinds DEF AfterFailure, Unregister
  <2>2. looks' \in [Pruners -> Looks]
    BY <1>3, <2>1, LookTypes DEF Unregister
  <2>3. FileTypes
    BY <1>1, <1>3, SaveTypes DEF Unregister
  <2>4. QED
    BY <1>3, <2>2, <2>3 DEF Unregister, RegistryTypeOK, FileTypes
<1>4. QED
  BY <1>2, <1>3

\* An entry that a registration makes (register_runtime_tmux_registration,
\* register_lane_registration).
LEMMA MadeEntry ==
  ASSUME NEW ask \in Requests, ask.kind \in {"watch", "lane"}
  PROVE  /\ ask.gen \in Nat /\ Made(ask) \in Entries
         /\ IsDynamic(Made(ask)) /\ Made(ask).gen = ask.gen
<1>1. CASE ask.kind = "watch"
  <2>1. ask \in [kind : {"watch"}, gen : Nat, wrapper : BOOLEAN]
    BY <1>1 DEF Requests, NotAsking
  <2>2. QED
    BY <1>1, <2>1 DEF Made, Entries, IsDynamic
<1>2. CASE ask.kind = "lane"
  <2>1. ask \in [kind : {"lane"}, gen : Nat, id : LaneIds]
    BY <1>2 DEF Requests, NotAsking
  <2>2. NewLane(ask.id) \in Lanes
    BY <2>1 DEF NewLane, Lanes, Launches, Workflows
  <2>3. QED
    BY <1>2, <2>1, <2>2 DEF Made, Entries, IsDynamic
<1>3. QED
  BY <1>1, <1>2

\* The requests keep the types.
LEMMA AskStepTypes ==
  ASSUME RegistryTypeOK, NEW c \in Clients,
         Mint(c) \/ RegisterEntry(c) \/ AskToRetire(c) \/ Retire(c) \/ RetireRefused(c) \/ GiveUp(c)
  PROVE  RegistryTypeOK'
<1>1. NotAsking \in Requests /\ asks[c] \in Requests
  BY DEF Requests, RegistryTypeOK
<1>2. CASE Mint(c)
  <2>1. \E ask \in Requests : Asked(c, ask)
    BY <1>2 DEF Mint, Requests, RegistryTypeOK
  <2>2. nextGen' \in Nat \ {0}
    BY <1>2 DEF Mint, RegistryTypeOK
  <2>3. QED
    BY <1>2, <2>1, <2>2, AskTypes DEF Mint, RegistryTypeOK
<1>3. CASE RegisterEntry(c)
  <2>1. Made(asks[c]) \in Entries
    BY <1>1, <1>3, MadeEntry DEF RegisterEntry
  <2>2. FileTypes
    BY <1>3, <2>1, SaveTypes DEF RegisterEntry
  <2>3. asks' \in [Clients -> Requests]
    BY <1>1, <1>3, AskTypes DEF RegisterEntry
  <2>4. QED
    BY <1>3, <2>2, <2>3 DEF RegisterEntry, RegistryTypeOK, FileTypes
<1>4. CASE AskToRetire(c)
  <2>1. memory.lane \in Lanes
    BY <1>4, LaneTypes DEF AskToRetire
  <2>2. [kind |-> "retire", id |-> memory.lane.id, expected |-> memory.lane.revision] \in Requests
    BY <2>1 DEF Requests, Lanes
  <2>3. QED
    BY <1>4, <2>2, AskTypes DEF AskToRetire, RegistryTypeOK
<1>5. CASE Retire(c)
  <2>1. memory.lane \in Lanes /\ HasLane(memory)
    BY <1>5, LaneTypes DEF Retire, Current
  <2>2. [memory.lane EXCEPT !.workflow = "retired", !.quiesced = TRUE] \in Lanes
    BY <2>1 DEF Lanes, Workflows
  <2>3. asks' \in [Clients -> Requests]
    BY <1>1, <1>5, AskTypes DEF Retire
  <2>4. QED
    BY <1>5, <2>1, <2>2, <2>3, ChangeTypes DEF Retire
<1>6. CASE RetireRefused(c) \/ GiveUp(c)
  BY <1>1, <1>6, AskTypes DEF RetireRefused, GiveUp, RegistryTypeOK
<1>7. QED
  BY <1>2, <1>3, <1>4, <1>5, <1>6

\* The session, the lock and the restart keep the types.
LEMMA OtherTypes ==
  ASSUME RegistryTypeOK,
         SessionEnds \/ SessionStarts \/ Publish \/ HangUp \/ SaveElsewhere \/ Crash \/ Restart
  PROVE  RegistryTypeOK'
<1>1. CASE SessionEnds \/ SessionStarts
  BY <1>1 DEF SessionEnds, SessionStarts, RegistryTypeOK
<1>2. CASE Publish \/ HangUp \/ SaveElsewhere
  <2>1. absent' \in BOOLEAN /\ ahead' \in BOOLEAN
    BY <1>2 DEF Publish, HangUp, SaveElsewhere, RegistryTypeOK
  <2>2. QED
    BY <1>2, <2>1 DEF Publish, HangUp, SaveElsewhere, Durable, RegistryTypeOK
<1>3. CASE Crash
  <2>1. looks' \in [Pruners -> Looks] /\ asks' \in [Clients -> Requests]
    BY <1>3, LookKinds DEF Crash, Requests
  <2>2. alive' \in BOOLEAN /\ up' \in BOOLEAN /\ absent' \in BOOLEAN /\ ahead' \in BOOLEAN
    BY <1>3 DEF Crash, RegistryTypeOK
  <2>3. QED
    BY <1>3, <2>1, <2>2 DEF Crash, RegistryTypeOK
<1>4. CASE Restart
  <2>1. IsDynamic(disk) => disk.gen \in Nat
    BY DynamicEntry DEF RegistryTypeOK
  <2>2. nextGen' \in Nat \ {0}
    BY <1>4, <2>1 DEF Restart, Above
  <2>3. QED
    BY <1>4, <2>2 DEF Restart, RegistryTypeOK
<1>5. QED
  BY <1>1, <1>2, <1>3, <1>4

\* Every step keeps the types.
LEMMA TypesNext ==
  ASSUME RegistryTypeOK, [RegistryNext]_registryVars
  PROVE  RegistryTypeOK'
<1>1. CASE UNCHANGED registryVars
  BY <1>1 DEF registryVars, RegistryTypeOK
<1>2. CASE RegistryNext
  BY <1>2, OtherTypes, LookStepTypes, ReadTypes, RemoveTypes, AskStepTypes, LaneStepTypes DEF RegistryNext
<1>3. QED
  BY <1>1, <1>2

-----------------------------------------------------------------------------
(* Memory and file.                                                            *)

Agreement == AnswersAreSaved /\ ConfigIsPlain /\ (~up => saving = Unlocked)

\* What one kind of entry is, it is not of another.
LEMMA EntryKinds ==
  ASSUME NEW e
  PROVE  /\ IsDynamic(e) => e # Nobody /\ e # Unlocked /\ e # ConfigEntry /\ Durable(e) = e
         /\ ~IsDynamic(e) => Durable(e) = Nobody
         /\ InFlight(e) => HasLane(e) /\ IsDynamic(e) /\ e # Nobody /\ ~Reconcilable(e) /\ ~Removable(e)
                           /\ ~GivesWay(e)
         /\ ~InFlight(Nobody) /\ ~IsDynamic(Nobody) /\ ~IsDynamic(Unlocked) /\ ~IsDynamic(ConfigEntry)
         /\ Nobody # Unlocked /\ Nobody # ConfigEntry /\ Unlocked # ConfigEntry
         /\ Nobody.source # "config" /\ Unlocked.source # "config"
BY DEF IsDynamic, Nobody, Unlocked, ConfigEntry, Durable, InFlight, HasLane, Reconcilable, Over,
       Removable, GivesWay

\* What a step that moves neither memory nor file keeps.
LEMMA AgreementStill ==
  ASSUME Agreement, UNCHANGED <<up, memory, file>>
  PROVE  Agreement' /\ KeepsLane
<1>1. Agreement'
  BY DEF Agreement, AnswersAreSaved, ConfigIsPlain
<1>2. Shown' = Shown
  BY DEF Shown
<1>3. QED
  BY <1>1, <1>2 DEF KeepsLane, Continues, InFlight

\* Who holds the lock saves an entry that a client made or takes one out, and a
\* lane in flight only for the same lane (save_durable_tmux_registry).
LEMMA AgreementSave ==
  ASSUME Agreement, Free, UNCHANGED <<up, memory>>, NEW e, NEW by,
         e = Nobody \/ IsDynamic(e), InFlight(memory) => Continues(memory, e),
         Save(by, e) \/ SaveFails \/ NoSave
  PROVE  Agreement' /\ KeepsLane
<1>1. CASE SaveFails \/ NoSave
  BY <1>1, AgreementStill DEF SaveFails
<1>2. CASE Save(by, e)
  <2>1. saving' = e /\ disk' = e /\ e # Unlocked /\ Durable(e) = e
    BY <1>2, EntryKinds DEF Save
  <2>2. AnswersAreSaved'
    BY <2>1 DEF AnswersAreSaved
  <2>3. e.source # "config"
    BY EntryKinds DEF IsDynamic
  <2>4. ConfigIsPlain'
    BY <2>1, <2>3 DEF ConfigIsPlain, Agreement
  <2>5. Shown' = Shown
    BY DEF Free, Shown
  <2>6. QED
    BY <2>2, <2>4, <2>5 DEF Agreement, Free, KeepsLane, Continues, InFlight
<1>3. QED
  BY <1>1, <1>2

\* A change of a lane (mutate_lane).
LEMMA AgreementChange ==
  ASSUME RegistryTypeOK, Agreement, HasLane(memory), NEW lane \in Lanes, lane.id = memory.lane.id,
         Change(lane)
  PROVE  Agreement' /\ KeepsLane
<1>1. /\ memory \in Entries /\ IsDynamic(memory) /\ memory.lane.revision + 1 \in Nat
      /\ Free /\ UNCHANGED <<up, memory>>
  BY DynamicEntry DEF RegistryTypeOK, HasLane, Lanes, Change
<1>2. PICK e : e = WithLane(memory, lane, memory.lane.revision + 1) /\ (Save("request", e) \/ SaveFails)
  BY DEF Change, WithLane
<1>3. HasLane(e) /\ e.lane.id = lane.id /\ e.lane.revision = memory.lane.revision + 1 /\ IsDynamic(e)
  BY <1>1, <1>2, ChangedEntry
<1>4. Continues(memory, e)
  BY <1>3 DEF Continues
<1>5. QED
  BY <1>1, <1>2, <1>3, <1>4, AgreementSave

\* The removals (prune_absent_dynamic_registrations, remove_tmux_registrations).
LEMMA AgreementRemove ==
  ASSUME Agreement, (\E p \in Pruners : Prune(p)) \/ Unregister
  PROVE  Agreement' /\ KeepsLane
<1>1. PICK by : \/ ~InFlight(memory) /\ (Save(by, Nobody) \/ SaveFails)
                \/ NoSave
  BY EntryKinds DEF Prune, Unregister, Matches
<1>2. Free /\ UNCHANGED <<up, memory>>
  BY DEF Prune, Unregister
<1>3. CASE NoSave
  BY <1>2, <1>3, AgreementStill
<1>4. CASE ~InFlight(memory) /\ (Save(by, Nobody) \/ SaveFails)
  BY <1>2, <1>4, AgreementSave
<1>5. QED
  BY <1>1, <1>3, <1>4

\* The registrations (register_runtime_tmux_registration, register_lane_registration).
LEMMA AgreementRegister ==
  ASSUME RegistryTypeOK, Agreement, NEW c \in Clients, RegisterEntry(c)
  PROVE  Agreement' /\ KeepsLane
<1>1. CASE Admitted(asks[c])
  <2>1. ~InFlight(memory)
    BY <1>1, EntryKinds DEF Admitted
  <2>2. IsDynamic(Made(asks[c]))
    BY MadeEntry DEF RegisterEntry, RegistryTypeOK
  <2>3. Free /\ UNCHANGED <<up, memory>> /\ (Save("request", Made(asks[c])) \/ SaveFails)
    BY <1>1 DEF RegisterEntry
  <2>4. QED
    BY <2>1, <2>2, <2>3, AgreementSave
<1>2. CASE ~Admitted(asks[c])
  BY <1>2, AgreementStill DEF RegisterEntry
<1>3. QED
  BY <1>1, <1>2

\* The steps of the lanes.
LEMMA AgreementLane ==
  ASSUME RegistryTypeOK, Agreement,
         Claim \/ Evidence \/ Workflow \/ Delivery \/ \E c \in Clients : Retire(c)
  PROVE  Agreement' /\ KeepsLane
<1>1. HasLane(memory) /\ memory.lane \in Lanes
  BY LaneChanges
<1>2. PICK lane \in Lanes : lane.id = memory.lane.id /\ Change(lane)
  BY LaneChanges
<1>3. QED
  BY <1>1, <1>2, AgreementChange

\* The configured entries in memory come and go with the list of sessions
\* (merge_active_config_registrations).
LEMMA AgreementSync ==
  ASSUME Agreement, NEW p \in Pruners, Sync(p)
  PROVE  Agreement' /\ KeepsLane
<1>1. Free /\ UNCHANGED <<up, file>> /\ memory' = Synced(looks[p].listed)
  BY DEF Sync
<1>2. \/ memory' = memory
      \/ memory' \in {ConfigEntry, Nobody} /\ ~InFlight(memory)
  BY <1>1, EntryKinds DEF Synced
<1>3. CASE memory' = memory
  BY <1>1, <1>3, AgreementStill
<1>4. CASE memory' \in {ConfigEntry, Nobody} /\ ~InFlight(memory)
  <2>1. ~IsDynamic(memory') /\ ~InFlight(memory')
    BY <1>4, EntryKinds
  <2>2. AnswersAreSaved'
    BY <1>1, <2>1 DEF Free, AnswersAreSaved
  <2>3. ConfigIsPlain'
    BY <1>1, <1>4, EntryKinds DEF ConfigIsPlain, Agreement
  <2>4. KeepsLane
    BY <1>1, <1>4 DEF Free, KeepsLane, Shown
  <2>5. QED
    BY <1>1, <2>2, <2>3, <2>4 DEF Agreement, Free
<1>5. QED
  BY <1>2, <1>3, <1>4

\* The publication, which shows what is in the file, the caller that hangs up before
\* it, and the save of another session's change.
LEMMA AgreementLock ==
  ASSUME Agreement, Publish \/ HangUp \/ SaveElsewhere
  PROVE  Agreement' /\ KeepsLane
<1>1. CASE Publish
  <2>1. up /\ saving # Unlocked /\ memory' = saving /\ saving' = Unlocked /\ UNCHANGED <<up, disk>>
    BY <1>1 DEF Publish
  <2>2. disk = Durable(saving)
    BY <2>1 DEF Agreement, AnswersAreSaved
  <2>3. IsDynamic(memory') => disk' = memory'
    BY <2>1, <2>2, EntryKinds
  <2>4. AnswersAreSaved'
    BY <2>1, <2>3 DEF AnswersAreSaved, Continues, InFlight, HasLane
  <2>5. ConfigIsPlain'
    BY <2>1, EntryKinds DEF ConfigIsPlain, Agreement
  <2>6. InFlight(memory) => Continues(memory, memory')
    <3>1. SUFFICES ASSUME InFlight(memory) PROVE Continues(memory, memory')
      OBVIOUS
    <3>2. Continues(memory, disk)
      BY <2>1, <3>1 DEF Agreement, AnswersAreSaved
    <3>3. disk = saving
      BY <2>2, <3>2, EntryKinds DEF Continues, HasLane
    <3>4. QED
      BY <2>1, <3>2, <3>3
  <2>7. QED
    BY <2>1, <2>4, <2>5, <2>6 DEF Agreement, KeepsLane, Shown
<1>2. CASE HangUp
  <2>1. up /\ saving' = Unlocked /\ ahead' /\ UNCHANGED <<up, memory, disk>>
    BY <1>2 DEF HangUp
  <2>2. AnswersAreSaved'
    BY <2>1 DEF Agreement, AnswersAreSaved
  <2>3. ConfigIsPlain'
    BY <2>1, EntryKinds DEF Agreement, ConfigIsPlain
  <2>4. QED
    BY <2>1, <2>2, <2>3 DEF Agreement, KeepsLane, Shown, Continues, InFlight
<1>3. CASE SaveElsewhere
  <2>1. Free /\ disk' = Durable(memory) /\ UNCHANGED <<up, memory, saving>>
    BY <1>3 DEF SaveElsewhere
  <2>2. IsDynamic(memory') => disk' = memory'
    BY <2>1, EntryKinds
  <2>3. AnswersAreSaved'
    BY <2>1, <2>2 DEF AnswersAreSaved, Free, Continues, InFlight, HasLane
  <2>4. ConfigIsPlain'
    BY <2>1, EntryKinds DEF ConfigIsPlain, Agreement
  <2>5. QED
    BY <2>1, <2>3, <2>4 DEF Agreement, Free, KeepsLane, Shown, Continues, InFlight
<1>4. QED
  BY <1>1, <1>2, <1>3

\* The crash and the restart (load_tmux_registry_state, reconcile_restored_tmux_registry).
LEMMA AgreementRestart ==
  ASSUME Agreement, Crash \/ Restart
  PROVE  Agreement' /\ KeepsLane
<1>1. CASE Crash
  <2>1. up /\ ~up' /\ memory' = Nobody /\ saving' = Unlocked /\ disk' = disk
    BY <1>1 DEF Crash
  <2>2. Agreement'
    BY <2>1, EntryKinds DEF Agreement, AnswersAreSaved, ConfigIsPlain
  <2>3. KeepsLane
    BY <2>1 DEF Agreement, AnswersAreSaved, KeepsLane, Shown
  <2>4. QED
    BY <2>2, <2>3
<1>2. CASE Restart
  <2>1. /\ ~up /\ saving' = saving
        /\ \/ memory' = disk /\ disk' = disk
           \/ Reconcilable(disk) /\ memory' = Nobody /\ disk' = Nobody
    BY <1>2 DEF Restart
  <2>2. memory' = disk' /\ (disk' # disk => ~InFlight(disk))
    BY <2>1, EntryKinds
  <2>3. up' /\ saving' = Unlocked
    BY <1>2, <2>1 DEF Restart, Agreement
  <2>4. AnswersAreSaved'
    BY <2>2, <2>3 DEF AnswersAreSaved, Continues, InFlight
  <2>5. KeepsLane
    BY <2>1, <2>2, <2>3 DEF KeepsLane, Shown, Continues, InFlight
  <2>6. ConfigIsPlain'
    BY <2>1, <2>2, EntryKinds DEF ConfigIsPlain, Agreement
  <2>7. QED
    BY <2>3, <2>4, <2>5, <2>6 DEF Agreement
<1>3. QED
  BY <1>1, <1>2

\* Every step keeps memory, file and lock in agreement, and a lane in flight.
LEMMA AgreementNext ==
  ASSUME RegistryTypeOK, Agreement, [RegistryNext]_registryVars
  PROVE  Agreement' /\ KeepsLane
<1>1. CASE UNCHANGED <<up, memory, file>>
  BY <1>1, AgreementStill
<1>2. CASE \/ SessionEnds \/ SessionStarts \/ ReadByPoll \/ ReadByHttp \/ ReadByEvent
           \/ \E p \in Pruners : List(p) \/ Probe(p) \/ ProbeFails(p) \/ LeaveLook(p)
           \/ \E c \in Clients : Mint(c) \/ AskToRetire(c) \/ RetireRefused(c) \/ GiveUp(c)
  BY <1>1, <1>2 DEF SessionEnds, SessionStarts, ReadByPoll, ReadByHttp, ReadByEvent, List, Probe,
       ProbeFails, LeaveLook, Mint, AskToRetire, RetireRefused, GiveUp
<1>3. QED
  BY <1>1, <1>2, AgreementRemove, AgreementRegister, AgreementLane, AgreementSync, AgreementLock,
     AgreementRestart
     DEF RegistryNext, registryVars

-----------------------------------------------------------------------------
(* Requests and looks.  A step is described by what it does to the entries:    *)
(* a watch that memory or the save has after it, they had before, or a request *)
(* brought it.                                                                 *)

\* A crash leaves no request, no look and no save behind, and until the restart
\* nobody begins one.
LEMMA DownIsIdleNext ==
  ASSUME DownIsIdle, [RegistryNext]_registryVars
  PROVE  DownIsIdle'
<1>1. CASE UNCHANGED registryVars
  BY <1>1 DEF registryVars, DownIsIdle
<1>2. CASE Crash
  BY <1>2 DEF Crash, DownIsIdle
<1>3. CASE UNCHANGED <<up, saving, looks, asks>>
  BY <1>3 DEF DownIsIdle
<1>4. CASE up'
  BY <1>4 DEF DownIsIdle
<1>5. CASE SessionEnds \/ SessionStarts
  BY <1>3, <1>5 DEF SessionEnds, SessionStarts
<1>6. CASE Publish \/ HangUp \/ SaveElsewhere \/ Restart
  BY <1>4, <1>6 DEF Publish, HangUp, SaveElsewhere, Restart, Free
<1>7. CASE ReadByPoll \/ ReadByHttp \/ ReadByEvent
  BY <1>4, <1>7 DEF ReadByPoll, ReadByHttp, ReadByEvent
<1>8. ASSUME NEW p \in Pruners, List(p) \/ Sync(p) \/ Probe(p) \/ ProbeFails(p) \/ LeaveLook(p)
      PROVE  DownIsIdle'
  BY <1>4, <1>8 DEF List, Sync, Probe, ProbeFails, LeaveLook, Free
<1>9. CASE Unregister \/ \E p \in Pruners : Prune(p)
  BY <1>4, <1>9 DEF Unregister, Prune, Free
<1>10. CASE Claim \/ Evidence \/ Workflow \/ Delivery
  <2>1. \E lane : Change(lane)
    BY <1>10 DEF Claim, Evidence, Workflow, Delivery
  <2>2. QED
    BY <1>4, <2>1 DEF Change, Free
<1>11. ASSUME NEW c \in Clients,
              Mint(c) \/ RegisterEntry(c) \/ AskToRetire(c) \/ Retire(c) \/ RetireRefused(c) \/ GiveUp(c)
       PROVE  DownIsIdle'
  BY <1>4, <1>11 DEF Mint, RegisterEntry, AskToRetire, Retire, RetireRefused, GiveUp, Change, Free
<1>12. QED
  BY <1>1, <1>2, <1>5, <1>6, <1>7, <1>8, <1>9, <1>10, <1>11 DEF RegistryNext

\* Memory and the save show after the step no watch that they did not show before.
NoNewWatch ==
  \A g : /\ IsGen(memory, g)' => IsGen(memory, g) \/ IsGen(saving, g)
         /\ IsGen(saving, g)' => IsGen(memory, g) \/ IsGen(saving, g)

\* A look that finds its watch in the save finds it in memory.
SavedIsShown == \A g : IsGen(saving, g)' /\ IsGen(memory, g) => IsGen(memory, g)'

\* No look is begun.
NoNewLook ==
  \A p \in Pruners : Looking(p)' => Looking(p) /\ looks'[p].gen = looks[p].gen

\* No request is begun.
NoNewAsk ==
  \A c \in Clients : Asking(c)' => Asking(c) /\ asks'[c].gen = asks[c].gen

\* A step that begins nothing keeps what is said of the generations.
LEMMA GensKept ==
  ASSUME RegistryTypeOK, Gens, NoNewWatch, SavedIsShown, NoNewLook, NoNewAsk, nextGen' = nextGen
  PROVE  Gens'
<1>1. GensUnused'
  BY DEF Gens, GensUnused, Unused, NoNewWatch, NoNewAsk
<1>2. GensMinted'
  <2>1. \A g : g > 1 /\ (IsGen(memory, g) \/ IsGen(saving, g)) => g < nextGen
    BY DEF Gens, GensMinted, IsGen
  <2>2. \A g : g > 1 /\ (IsGen(memory, g)' \/ IsGen(saving, g)') => g < nextGen'
    BY <2>1 DEF NoNewWatch
  <2>3. QED
    BY <2>2 DEF GensMinted, IsGen
<1>3. LooksOnce'
  <2>1. SUFFICES ASSUME NEW p \in Pruners, Looking(p)' PROVE Once(looks[p].gen)'
    BY DEF LooksOnce
  <2>2. Looking(p) /\ looks'[p].gen = looks[p].gen /\ Once(looks[p].gen)
    BY <2>1 DEF NoNewLook, Gens, LooksOnce
  <2>3. \A c \in Clients : Asking(c)' => asks'[c].gen # looks[p].gen
    BY <2>2 DEF NoNewAsk, Once
  <2>4. IsGen(saving, looks[p].gen)' => IsGen(memory, looks[p].gen)'
    BY <2>2 DEF NoNewWatch, SavedIsShown, Once
  <2>5. QED
    BY <2>2, <2>3, <2>4 DEF Once, IsGen
<1>4. QED
  BY <1>1, <1>2, <1>3 DEF Gens

\* What is saved under the lock is nothing, or the entry with a changed lane.
LEMMA ChangeNoNewWatch ==
  ASSUME RegistryTypeOK, HasLane(memory), NEW lane \in Lanes, Change(lane)
  PROVE  NoNewWatch /\ SavedIsShown /\ nextGen' = nextGen /\ looks' = looks
<1>1. /\ memory \in Entries /\ IsDynamic(memory) /\ memory.lane.revision + 1 \in Nat
      /\ UNCHANGED <<memory, nextGen, looks>>
  BY DynamicEntry DEF RegistryTypeOK, HasLane, Lanes, Change
<1>2. PICK e : e = WithLane(memory, lane, memory.lane.revision + 1) /\ (Save("request", e) \/ SaveFails)
  BY DEF Change, WithLane
<1>3. e.gen = memory.gen
  BY <1>1, <1>2, ChangedEntry
<1>4. saving' = saving \/ saving' = e
  BY <1>2 DEF Save, SaveFails
<1>5. \A g : IsGen(saving, g)' => IsGen(saving, g) \/ IsGen(memory, g)
  BY <1>1, <1>3, <1>4 DEF IsGen
<1>6. \A g : IsGen(memory, g)' <=> IsGen(memory, g)
  BY <1>1 DEF IsGen
<1>7. QED
  BY <1>1, <1>5, <1>6 DEF NoNewWatch, SavedIsShown

\* The steps of the lanes (mutate_lane).
LEMMA GensLane ==
  ASSUME RegistryTypeOK, Gens,
         Claim \/ Evidence \/ Workflow \/ Delivery \/ \E c \in Clients : Retire(c)
  PROVE  Gens'
<1>1. HasLane(memory) /\ memory.lane \in Lanes
  BY LaneChanges
<1>2. PICK lane \in Lanes : Change(lane)
  BY LaneChanges
<1>3. NoNewWatch /\ SavedIsShown /\ nextGen' = nextGen /\ looks' = looks
  BY <1>1, <1>2, ChangeNoNewWatch
<1>4. NoNewLook
  BY <1>3 DEF NoNewLook, Looking
<1>5. NoNewAsk
  <2>1. CASE asks' = asks
    BY <2>1 DEF NoNewAsk, Asking
  <2>2. ASSUME NEW c \in Clients, asks' = [asks EXCEPT ![c] = NotAsking] PROVE NoNewAsk
    <3>1. \A d \in Clients : asks'[d] = IF d = c THEN NotAsking ELSE asks[d]
      BY <2>2 DEF RegistryTypeOK
    <3>2. QED
      BY <3>1 DEF NoNewAsk, Asking, NotAsking
  <2>3. QED
    BY <2>1, <2>2 DEF Claim, Evidence, Workflow, Delivery, Retire, Asked
<1>6. QED
  BY <1>3, <1>4, <1>5, GensKept

\* A look that moves on keeps the generation it read (poll_tmux).
LEMMA LookMoves ==
  ASSUME RegistryTypeOK, NEW p \in Pruners, NEW l, Moved(p, l),
         l.at \in {"probe", "prune"} => looks[p].at = "probe" /\ l.gen = looks[p].gen
  PROVE  NoNewLook
<1>1. \A q \in Pruners : looks'[q] = IF q = p THEN l ELSE looks[q]
  BY DEF Moved, RegistryTypeOK
<1>2. QED
  BY <1>1 DEF NoNewLook, Looking

\* The pruners' steps but their reading of the registry.
LEMMA GensLook ==
  ASSUME RegistryTypeOK, Gens, NEW p \in Pruners,
         List(p) \/ Sync(p) \/ Probe(p) \/ ProbeFails(p) \/ LeaveLook(p)
  PROVE  Gens'
<1>1. nextGen' = nextGen /\ asks' = asks /\ saving' = saving
  BY DEF List, Sync, Probe, ProbeFails, LeaveLook
<1>2. NoNewAsk
  BY <1>1 DEF NoNewAsk, Asking
<1>3. NoNewLook
  <2>1. CASE List(p)
    <3>1. PICK l : Moved(p, l) /\ l.at \in {"sync", "read"}
      BY <2>1 DEF List
    <3>2. QED
      BY <3>1, LookMoves
  <2>2. CASE Sync(p)
    <3>1. looks[p] \in Looks /\ looks[p].at = "sync"
      BY <2>2 DEF Sync, RegistryTypeOK
    <3>2. [looks[p] EXCEPT !.at = "read"].at = "read"
      BY <3>1 DEF Looks, Idle, Stopped
    <3>3. QED
      BY <2>2, <3>2, LookMoves DEF Sync
  <2>3. CASE Probe(p)
    BY <2>3, LookMoves DEF Probe, Found, Idle
  <2>4. CASE ProbeFails(p) \/ LeaveLook(p)
    BY <2>4, LookMoves DEF ProbeFails, LeaveLook, Idle
  <2>5. QED
    BY <2>1, <2>2, <2>3, <2>4
<1>4. NoNewWatch /\ SavedIsShown
  <2>1. CASE memory' = memory
    BY <1>1, <2>1 DEF NoNewWatch, SavedIsShown, IsGen
  <2>2. CASE Sync(p)
    <3>1. memory' \in {memory, ConfigEntry, Nobody} /\ saving = Unlocked
      BY <2>2 DEF Sync, Synced, Free
    <3>2. QED
      BY <1>1, <3>1, EntryKinds DEF NoNewWatch, SavedIsShown, IsGen
  <2>3. QED
    BY <2>1, <2>2 DEF List, Probe, ProbeFails, LeaveLook
<1>5. QED
  BY <1>1, <1>2, <1>3, <1>4, GensKept

\* The removals.
LEMMA GensRemove ==
  ASSUME RegistryTypeOK, Gens, (\E p \in Pruners : Prune(p)) \/ Unregister
  PROVE  Gens'
<1>1. nextGen' = nextGen /\ asks' = asks /\ memory' = memory
  BY DEF Prune, Unregister
<1>2. saving' = saving \/ saving' = Nobody
  BY DEF Prune, Unregister, Save, SaveFails
<1>3. NoNewWatch /\ SavedIsShown /\ NoNewAsk
  BY <1>1, <1>2, EntryKinds DEF NoNewWatch, SavedIsShown, NoNewAsk, Asking, IsGen
<1>4. NoNewLook
  <2>1. \E p \in Pruners, l \in {Idle, Stopped} : Moved(p, l)
    BY DEF Prune, Unregister, AfterFailure
  <2>2. QED
    BY <2>1, LookMoves DEF Idle, Stopped
<1>5. QED
  BY <1>1, <1>3, <1>4, GensKept

\* A request that is made, and one that is answered without a registration or goes
\* away (retire_lane_if_absent).
LEMMA GensRetire ==
  ASSUME RegistryTypeOK, Gens, NEW c \in Clients, AskToRetire(c) \/ RetireRefused(c) \/ GiveUp(c)
  PROVE  Gens'
<1>1. UNCHANGED <<nextGen, looks, memory, saving>>
  BY DEF AskToRetire, RetireRefused, GiveUp
<1>2. PICK ask : ask.kind \in {"retire", "none"} /\ asks' = [asks EXCEPT ![c] = ask]
  BY DEF AskToRetire, RetireRefused, GiveUp, Asked, NotAsking
<1>3. \A d \in Clients : asks'[d] = IF d = c THEN ask ELSE asks[d]
  BY <1>2 DEF RegistryTypeOK
<1>4. NoNewAsk
  BY <1>2, <1>3 DEF NoNewAsk, Asking
<1>5. NoNewWatch /\ SavedIsShown /\ NoNewLook
  BY <1>1 DEF NoNewWatch, SavedIsShown, NoNewLook, Looking, IsGen
<1>6. QED
  BY <1>1, <1>4, <1>5, GensKept

\* The session, the publication, the caller that hangs up and a save for another session.
LEMMA GensStill ==
  ASSUME RegistryTypeOK, Gens,
         SessionEnds \/ SessionStarts \/ Publish \/ HangUp \/ SaveElsewhere \/ UNCHANGED registryVars
  PROVE  Gens'
<1>1. UNCHANGED <<nextGen, looks, asks>>
  BY DEF SessionEnds, SessionStarts, Publish, HangUp, SaveElsewhere, registryVars
<1>2. NoNewLook /\ NoNewAsk
  BY <1>1 DEF NoNewLook, NoNewAsk, Looking, Asking
<1>3. \/ memory' = memory /\ saving' \in {saving, Unlocked}
      \/ memory' = saving /\ saving' = Unlocked
  BY DEF SessionEnds, SessionStarts, Publish, HangUp, SaveElsewhere, registryVars
<1>4. NoNewWatch /\ SavedIsShown
  BY <1>3, EntryKinds DEF NoNewWatch, SavedIsShown, IsGen
<1>5. QED
  BY <1>1, <1>2, <1>4, GensKept

\* A crash forgets requests and looks, and the generations start above the entry
\* that is restored (advance_registration_generation_above).
LEMMA GensRestart ==
  ASSUME RegistryTypeOK, DownIsIdle, Gens, Crash \/ Restart
  PROVE  Gens'
<1>1. \A c \in Clients : asks'[c] = NotAsking
  BY DEF Crash, Restart, DownIsIdle
<1>2. \A p \in Pruners : looks'[p] = Idle
  BY DEF Crash, Restart, DownIsIdle
<1>3. GensUnused' /\ LooksOnce'
  BY <1>1, <1>2 DEF GensUnused, LooksOnce, Asking, Looking, NotAsking, Idle
<1>4. saving' = Unlocked /\ memory' \in {disk, Nobody} /\ (memory' # Nobody => Restart)
  BY DEF Crash, Restart, DownIsIdle
<1>5. Restart /\ IsDynamic(disk) /\ disk.gen > 1 => disk.gen < nextGen'
  BY DynamicEntry DEF Restart, Above, RegistryTypeOK
<1>6. GensMinted'
  BY <1>4, <1>5, EntryKinds DEF GensMinted
<1>7. QED
  BY <1>3, <1>6 DEF Gens

\* A generation that is minted is new (mint_registration_generation).
LEMMA GensMint ==
  ASSUME RegistryTypeOK, Gens, NEW c \in Clients, Mint(c)
  PROVE  Gens'
<1>1. /\ nextGen' = nextGen + 1 /\ nextGen \in Nat /\ nextGen > 0
      /\ UNCHANGED <<memory, saving, looks>>
  BY DEF Mint, RegistryTypeOK
<1>2. PICK ask \in Requests : ask.kind \in {"watch", "lane"} /\ ask.gen = nextGen /\ Asked(c, ask)
  BY <1>1 DEF Mint, Requests, RegistryTypeOK
<1>3. \A d \in Clients : asks'[d] = IF d = c THEN ask ELSE asks[d]
  BY <1>2 DEF Asked, RegistryTypeOK
<1>4. \A d \in Clients : Asking(d) => asks[d].gen \in Nat /\ asks[d].gen < nextGen
  BY MadeEntry DEF Gens, GensUnused, Unused, Asking, RegistryTypeOK
<1>5. \A g : IsGen(memory, g)' = IsGen(memory, g) /\ IsGen(saving, g)' = IsGen(saving, g)
  BY <1>1 DEF IsGen
<1>6. \A e \in {memory, saving} : IsDynamic(e) => e.gen \in Nat
  BY DynamicEntry, EntryKinds DEF RegistryTypeOK
<1>7. \A e \in {memory, saving} : nextGen > 1 => ~IsGen(e, nextGen)
  BY <1>1, <1>6 DEF Gens, GensMinted, IsGen
<1>8. GensUnused'
  <2>1. SUFFICES ASSUME NEW d \in Clients, Asking(d)' PROVE Unused(d)'
    BY DEF GensUnused
  <2>2. CASE d = c
    <3>1. asks'[d].gen = nextGen /\ nextGen < nextGen'
      BY <1>1, <1>2, <1>3, <2>2
    <3>2. \A b \in Clients : Asking(b)' /\ asks'[b].gen = nextGen => b = d
      BY <1>1, <1>3, <1>4, <2>2 DEF Asking
    <3>3. asks'[d].gen > 1 => ~IsGen(memory, asks[d].gen)' /\ ~IsGen(saving, asks[d].gen)'
      BY <1>1, <1>7, <3>1 DEF IsGen
    <3>4. QED
      BY <3>1, <3>2, <3>3 DEF Unused
  <2>3. CASE d # c
    <3>1. asks'[d] = asks[d] /\ Unused(d) /\ Asking(d) /\ asks[d].gen \in Nat /\ asks[d].gen < nextGen'
      BY <1>1, <1>3, <1>4, <2>1, <2>3 DEF Gens, GensUnused, Asking
    <3>2. \A b \in Clients : Asking(b)' /\ asks'[b].gen = asks[d].gen => b = d
      BY <1>1, <1>2, <1>3, <1>4, <3>1 DEF Asking, Unused
    <3>3. asks[d].gen > 1 => ~IsGen(memory, asks[d].gen)' /\ ~IsGen(saving, asks[d].gen)'
      BY <1>5, <3>1 DEF Unused
    <3>4. QED
      BY <3>1, <3>2, <3>3 DEF Unused, IsGen
  <2>4. QED
    BY <2>2, <2>3
<1>9. GensMinted'
  BY <1>1, <1>6 DEF Gens, GensMinted
<1>10. LooksOnce'
  <2>1. SUFFICES ASSUME NEW p \in Pruners, Looking(p)' PROVE Once(looks[p].gen)'
    BY DEF LooksOnce
  <2>2. looks'[p] = looks[p] /\ Once(looks[p].gen) /\ looks[p].gen \in Nat
    BY <1>1, <2>1 DEF Gens, LooksOnce, Looking, RegistryTypeOK, Looks, Idle, Stopped
  <2>3. looks[p].gen < nextGen'
    BY <1>1, <2>2 DEF Once
  <2>4. \A d \in Clients : Asking(d)' => asks'[d].gen # looks[p].gen
    BY <1>1, <1>2, <1>3, <2>2 DEF Once, Asking
  <2>5. QED
    BY <1>5, <2>2, <2>3, <2>4 DEF Once, IsGen
<1>11. QED
  BY <1>8, <1>9, <1>10 DEF Gens

\* A registration saves the generation of the request, and no other has it
\* (register_runtime_tmux_registration, register_lane_registration).
LEMMA GensRegister ==
  ASSUME RegistryTypeOK, Gens, NEW c \in Clients, RegisterEntry(c)
  PROVE  Gens'
<1>1. /\ Asking(c) /\ Unused(c) /\ UNCHANGED <<memory, looks, nextGen>>
      /\ IsDynamic(Made(asks[c])) /\ Made(asks[c]).gen = asks[c].gen
  BY MadeEntry DEF RegisterEntry, Asking, Gens, GensUnused, RegistryTypeOK
<1>2. saving' = saving \/ saving' = Made(asks[c])
  BY DEF RegisterEntry, Save, SaveFails
<1>3. \A d \in Clients : asks'[d] = IF d = c THEN NotAsking ELSE asks[d]
  BY DEF RegisterEntry, Asked, RegistryTypeOK
<1>4. NoNewAsk /\ ~Asking(c)'
  BY <1>3 DEF NoNewAsk, Asking, NotAsking
<1>5. \A g : /\ IsGen(memory, g)' <=> IsGen(memory, g)
             /\ IsGen(saving, g)' => IsGen(saving, g) \/ g = asks[c].gen
  BY <1>1, <1>2 DEF IsGen
<1>6. GensUnused'
  <2>1. SUFFICES ASSUME NEW d \in Clients, Asking(d)' PROVE Unused(d)'
    BY DEF GensUnused
  <2>2. d # c /\ asks'[d] = asks[d] /\ Asking(d) /\ Unused(d)
    BY <1>3, <1>4, <2>1 DEF Gens, GensUnused, Asking
  <2>3. asks[d].gen # asks[c].gen
    BY <1>1, <2>2 DEF Unused
  <2>4. asks[d].gen > 1 => ~IsGen(memory, asks[d].gen)' /\ ~IsGen(saving, asks[d].gen)'
    BY <1>5, <2>2, <2>3 DEF Unused
  <2>5. \A b \in Clients : Asking(b)' /\ asks'[b].gen = asks[d].gen => b = d
    BY <1>4, <2>2 DEF NoNewAsk, Unused
  <2>6. QED
    BY <1>1, <2>2, <2>4, <2>5 DEF Unused
<1>7. GensMinted'
  BY <1>1, <1>2 DEF Gens, GensMinted, Unused
<1>8. LooksOnce'
  <2>1. SUFFICES ASSUME NEW p \in Pruners, Looking(p)' PROVE Once(looks[p].gen)'
    BY DEF LooksOnce
  <2>2. looks'[p] = looks[p] /\ Once(looks[p].gen)
    BY <1>1, <2>1 DEF Gens, LooksOnce, Looking
  <2>3. looks[p].gen # asks[c].gen
    BY <1>1, <2>2 DEF Once
  <2>4. IsGen(saving, looks[p].gen)' => IsGen(memory, looks[p].gen)'
    BY <1>1, <1>5, <2>2, <2>3 DEF Once
  <2>5. \A d \in Clients : Asking(d)' => asks'[d].gen # looks[p].gen
    BY <1>4, <2>2 DEF NoNewAsk, Once
  <2>6. QED
    BY <1>1, <2>2, <2>4, <2>5 DEF Once
<1>9. QED
  BY <1>6, <1>7, <1>8 DEF Gens

\* A look reads the generation that memory shows (poll_tmux,
\* list_active_tmux_registrations, expire_terminal_tmux_registration).
LEMMA GensRead ==
  ASSUME RegistryTypeOK, Gens, ConfigIsPlain, ReadByPoll \/ ReadByHttp \/ ReadByEvent
  PROVE  Gens'
<1>1. UNCHANGED <<memory, saving, asks, nextGen>>
  BY DEF ReadByPoll, ReadByHttp, ReadByEvent
<1>2. PICK p \in Pruners :
         \E l : /\ Moved(p, l)
                /\ l.at \in {"probe", "prune"} /\ l.gen > 1 => memory # Nobody /\ l.gen = memory.gen
  <2>1. Wanted(looks["poll"].listed) # Idle =>
          Wanted(looks["poll"].listed).gen = IF memory = Nobody THEN 0 ELSE memory.gen
    BY DEF Wanted, ToProbe, Monitored, ConfigEntry
  <2>2. CASE ReadByPoll
    BY <2>1, <2>2 DEF ReadByPoll, Idle
  <2>3. CASE ReadByHttp \/ ReadByEvent
    BY <2>3, EntryKinds DEF ReadByHttp, ReadByEvent, Reconcilable, Idle
  <2>4. QED
    BY <2>2, <2>3
<1>3. /\ \A q \in Pruners : q # p => looks'[q] = looks[q]
      /\ looks'[p].at \in {"probe", "prune"} /\ looks'[p].gen > 1 => memory # Nobody /\ looks'[p].gen = memory.gen
  <2>1. ASSUME NEW l, Moved(p, l)  PROVE looks'[p] = l /\ \A q \in Pruners : q # p => looks'[q] = looks[q]
    BY <2>1 DEF Moved, RegistryTypeOK
  <2>2. QED
    BY <1>2, <2>1, Zenon
<1>4. memory # Nobody /\ memory.gen > 1 => IsDynamic(memory)
  BY DEF ConfigIsPlain, ConfigEntry, IsDynamic, RegistryTypeOK, Entries
<1>5. GensUnused' /\ GensMinted'
  BY <1>1 DEF Gens, GensUnused, GensMinted, Unused, Asking, IsGen
<1>6. LooksOnce'
  <2>1. SUFFICES ASSUME NEW q \in Pruners, Looking(q)' PROVE Once(looks[q].gen)'
    BY DEF LooksOnce
  <2>2. CASE q # p
    BY <1>1, <1>3, <2>1, <2>2 DEF Gens, LooksOnce, Looking, Once, Asking, IsGen
  <2>3. CASE q = p
    <3>1. looks'[q].gen = memory.gen /\ memory.gen > 1 /\ IsDynamic(memory)
      BY <1>3, <1>4, <2>1, <2>3 DEF Looking
    <3>2. memory.gen < nextGen /\ IsGen(memory, memory.gen)
      BY <3>1 DEF Gens, GensMinted, IsGen
    <3>3. \A d \in Clients : Asking(d) => asks[d].gen # memory.gen
      BY <3>1, <3>2 DEF Gens, GensUnused, Unused
    <3>4. QED
      BY <1>1, <3>1, <3>2, <3>3 DEF Once, Asking, IsGen
  <2>4. QED
    BY <2>2, <2>3
<1>7. QED
  BY <1>5, <1>6 DEF Gens

\* Every step keeps what is said of the generations.
LEMMA GensNext ==
  ASSUME RegistryTypeOK, Places, Gens, [RegistryNext]_registryVars
  PROVE  Gens'
BY GensLane, GensLook, GensRemove, GensRetire, GensStill, GensRestart, GensMint, GensRegister, GensRead
   DEF RegistryNext, Places

-----------------------------------------------------------------------------
(* Absence.                                                                    *)

\* While the session is away, what is shown has seen it away.
LEMMA AwayNext ==
  ASSUME RegistryTypeOK, AwayIsAbsent, [RegistryNext]_registryVars
  PROVE  AwayIsAbsent'
<1>1. CASE UNCHANGED <<up, alive, memory, absent>>
  BY <1>1 DEF AwayIsAbsent
<1>2. CASE SessionEnds \/ SessionStarts
  BY <1>2 DEF AwayIsAbsent, SessionEnds, SessionStarts
<1>3. CASE Publish \/ \E p \in Pruners : Sync(p)
  <2>1. UNCHANGED <<up, alive>> /\ absent' = IF SameWatch(memory, memory') THEN absent ELSE ~alive
    BY <1>3 DEF Publish, Sync
  <2>2. memory = Nobody /\ SameWatch(memory, memory') => memory' = Nobody
    <3>1. memory' \in Entries \cup {Nobody}
      BY <1>3, OtherTypes, LookStepTypes DEF RegistryTypeOK
    <3>2. QED
      BY <3>1 DEF SameWatch, Nobody, Entries
  <2>3. QED
    BY <2>1, <2>2 DEF AwayIsAbsent
<1>4. CASE Crash \/ Restart
  <2>1. CASE Crash
    <3>1. memory' = Nobody
      BY <2>1 DEF Crash
    <3>2. QED
      BY <3>1 DEF AwayIsAbsent
  <2>2. CASE Restart
    <3>1. alive' = alive /\ absent' = ~alive
      BY <2>2 DEF Restart
    <3>2. alive \in BOOLEAN
      BY DEF RegistryTypeOK
    <3>3. ~alive' => absent'
      BY <3>1, <3>2
    <3>4. QED
      BY <3>3 DEF AwayIsAbsent
  <2>3. QED
    BY <1>4, <2>1, <2>2
<1>5. CASE \/ HangUp \/ SaveElsewhere \/ ReadByPoll \/ ReadByHttp \/ ReadByEvent \/ Unregister
           \/ \E p \in Pruners : List(p) \/ Probe(p) \/ ProbeFails(p) \/ Prune(p) \/ LeaveLook(p)
  BY <1>1, <1>5 DEF HangUp, SaveElsewhere, ReadByPoll, ReadByHttp, ReadByEvent, Unregister, List, Probe,
       ProbeFails, Prune, LeaveLook
<1>6. CASE \/ Claim \/ Evidence \/ Workflow \/ Delivery
           \/ \E c \in Clients : Mint(c) \/ RegisterEntry(c) \/ AskToRetire(c) \/ Retire(c)
                                \/ RetireRefused(c) \/ GiveUp(c)
  BY <1>1, <1>6 DEF Claim, Evidence, Workflow, Delivery, Mint, RegisterEntry, AskToRetire, Retire,
       RetireRefused, GiveUp, Change
<1>7. QED
  BY <1>1, <1>2, <1>3, <1>4, <1>5, <1>6 DEF RegistryNext, registryVars

\* What a pruner that probed is about to remove was away, as long as it is there.
LEMMA ProbedNext ==
  ASSUME RegistryTypeOK, Places, Gens, ProbedWasAbsent, [RegistryNext]_registryVars
  PROVE  ProbedWasAbsent'
<1>1. SUFFICES ASSUME NEW p \in Pruners \cap Probing,
                      Looking(p)', looks'[p].at = "prune", IsGen(memory, looks[p].gen)'
               PROVE  absent'
  BY DEF ProbedWasAbsent
<1>2. CASE Probe(p)
  <2>1. up /\ ~alive /\ memory # Nobody /\ absent' = absent
    BY <1>1, <1>2, EntryKinds DEF Probe, Found, Moved, Idle, IsGen, RegistryTypeOK
  <2>2. QED
    BY <2>1 DEF Places, AwayIsAbsent
<1>3. CASE ~Probe(p)
  <2>1. looks'[p] = looks[p]
    <3>1. CASE UNCHANGED looks
      BY <3>1
    <3>2. CASE Crash
      BY <1>1, <3>2 DEF Crash, Idle
    <3>3. ASSUME NEW q \in Pruners, List(q) \/ Sync(q) \/ Probe(q) \/ ProbeFails(q) \/ Prune(q) \/ LeaveLook(q)
          PROVE  looks'[p] = looks[p]
      <4>1. PICK l : Moved(q, l) /\ (q = p => l.at # "prune")
        <5>1. looks[q] \in Looks
          BY DEF RegistryTypeOK
        <5>2. looks[q].at = "sync" => [looks[q] EXCEPT !.at = "read"].at = "read"
          BY <5>1 DEF Looks, Idle, Stopped
        <5>3. CASE List(q)
          BY <5>3 DEF List
        <5>4. CASE Sync(q)
          BY <5>2, <5>4 DEF Sync
        <5>5. CASE Probe(q)
          BY <1>3, <5>5 DEF Probe
        <5>6. CASE ProbeFails(q) \/ Prune(q) \/ LeaveLook(q)
          BY <5>6 DEF ProbeFails, Prune, LeaveLook, AfterFailure, Idle, Stopped
        <5>7. QED
          BY <3>3, <5>3, <5>4, <5>5, <5>6
      <4>2. QED
        BY <1>1, <4>1 DEF Moved, RegistryTypeOK
    <3>4. CASE ReadByPoll \/ ReadByHttp \/ ReadByEvent \/ Unregister
      <4>1. PICK q \in Pruners : \E l : Moved(q, l) /\ (l.at = "prune" => q = "http")
        BY <3>4 DEF ReadByPoll, ReadByHttp, ReadByEvent, Unregister, Wanted, ToProbe, AfterFailure,
               Idle, Stopped
      <4>2. QED
        BY <1>1, <4>1 DEF Moved, RegistryTypeOK, Probing
    <3>5. QED
      BY <3>1, <3>2, <3>3, <3>4
         DEF RegistryNext, registryVars, SessionEnds, SessionStarts, Publish, HangUp, SaveElsewhere, Claim,
             Evidence, Workflow, Delivery, Change, Mint, RegisterEntry, AskToRetire, Retire,
             RetireRefused, GiveUp, Restart
  <2>2. Looking(p) /\ Once(looks[p].gen) /\ looks[p].at = "prune"
    BY <1>1, <2>1 DEF Looking, Gens, LooksOnce
  <2>3. CASE memory' = memory /\ absent' = absent
    BY <1>1, <2>1, <2>2, <2>3 DEF ProbedWasAbsent, IsGen
  <2>4. CASE SessionEnds
    BY <2>4 DEF SessionEnds
  <2>5. CASE Publish \/ \E q \in Pruners : Sync(q)
    <3>1. IsGen(memory, looks[p].gen)
      <4>1. CASE Publish
        BY <1>1, <2>1, <2>2, <4>1 DEF Publish, Once, IsGen
      <4>2. CASE \E q \in Pruners : Sync(q)
        BY <1>1, <2>1, <4>2, EntryKinds DEF Sync, Synced, IsGen
      <4>3. QED
        BY <2>5, <4>1, <4>2
    <3>2. SameWatch(memory, memory')
      BY <1>1, <2>1, <3>1 DEF SameWatch, IsGen, IsDynamic
    <3>3. absent' = absent
      BY <2>5, <3>2 DEF Publish, Sync
    <3>4. QED
      BY <2>2, <3>1, <3>3 DEF ProbedWasAbsent
  <2>6. CASE Crash \/ Restart
    BY <1>1, <2>1, <2>6 DEF Crash, Restart, Places, DownIsIdle, Idle
  <2>7. QED
    BY <2>3, <2>4, <2>5, <2>6
       DEF RegistryNext, registryVars, SessionStarts, HangUp, SaveElsewhere, ReadByPoll, ReadByHttp,
           ReadByEvent, Unregister, List, Probe, ProbeFails, Prune, LeaveLook, Claim, Evidence, Workflow,
           Delivery, Change, Mint, RegisterEntry, AskToRetire, Retire, RetireRefused, GiveUp
<1>4. QED
  BY <1>2, <1>3

-----------------------------------------------------------------------------
(* The theorems.                                                               *)

\* A pruner that probed removes only what was away, unless its generation is the
\* restored one (prune_absent_dynamic_registrations_with_reason).
LEMMA PruneIsSound ==
  ASSUME RegistryTypeOK, ProbedWasAbsent, [RegistryNext]_registryVars
  PROVE  SoundPrune
<1>1. SUFFICES ASSUME NEW p \in Pruners \cap Probing, RemovedBy(p), memory.gen > 1
               PROVE  absent
  BY DEF SoundPrune
<1>2. looks'[p] # looks[p] /\ looks[p].at = "prune" /\ saving' # saving /\ saving' = Nobody
  BY <1>1, EntryKinds DEF RemovedBy, Idle
<1>3. Prune(p)
  <2>1. ASSUME NEW q \in Pruners,
               List(q) \/ Sync(q) \/ Probe(q) \/ ProbeFails(q) \/ LeaveLook(q)
        PROVE  saving' = saving
    BY <2>1 DEF List, Sync, Probe, ProbeFails, LeaveLook
  <2>2. ASSUME NEW q \in Pruners, Prune(q) PROVE q = p
    BY <1>2, <2>2 DEF Prune, Moved, RegistryTypeOK
  <2>3. ~Unregister
    BY <1>2 DEF Unregister, Moved, RegistryTypeOK
  <2>4. CASE Crash \/ Restart
    BY <1>2, <2>4, EntryKinds DEF Crash, Restart
  <2>5. CASE UNCHANGED looks \/ UNCHANGED saving
    BY <1>2, <2>5
  <2>6. QED
    BY <2>1, <2>2, <2>3, <2>4, <2>5
       DEF RegistryNext, registryVars, SessionEnds, SessionStarts, Publish, HangUp, SaveElsewhere, Claim,
           Evidence, Workflow, Delivery, Change, Mint, RegisterEntry, AskToRetire, Retire,
           RetireRefused, GiveUp, ReadByPoll, ReadByHttp, ReadByEvent
<1>4. Matches(looks[p].gen)
  BY <1>2, <1>3 DEF Prune
<1>5. Looking(p) /\ IsGen(memory, looks[p].gen)
  BY <1>1, <1>2, <1>4 DEF Matches, Reconcilable, IsGen, Looking
<1>6. QED
  BY <1>2, <1>5 DEF ProbedWasAbsent

\* The strengthening holds of every state.
LEMMA RegistryInductive == RegistrySpec => []RegistryIInv
<1>1. RegistryInit => RegistryIInv
  <2>1. SUFFICES ASSUME RegistryInit PROVE RegistryIInv
    OBVIOUS
  <2>2. RegistryTypeOK
    <3>1. looks \in [Pruners -> Looks] /\ asks \in [Clients -> Requests]
      BY <2>1, LookKinds DEF RegistryInit, Requests
    <3>2. alive \in BOOLEAN /\ up \in BOOLEAN /\ absent \in BOOLEAN /\ ahead \in BOOLEAN
      BY <2>1 DEF RegistryInit
    <3>3. QED
      BY <2>1, <3>1, <3>2 DEF RegistryInit, RegistryTypeOK
  <2>3. AnswersAreSaved /\ ConfigIsPlain /\ DownIsIdle /\ AwayIsAbsent
    BY <2>1, EntryKinds DEF RegistryInit, AnswersAreSaved, ConfigIsPlain, DownIsIdle, AwayIsAbsent
  <2>4. Gens /\ ProbedWasAbsent
    BY <2>1, EntryKinds
       DEF RegistryInit, Gens, GensUnused, GensMinted, LooksOnce, ProbedWasAbsent, Asking, Looking,
           Idle, NotAsking
  <2>5. QED
    BY <2>2, <2>3, <2>4 DEF RegistryIInv, RegistryInv, Places
<1>2. RegistryIInv /\ [RegistryNext]_registryVars => RegistryIInv'
  <2>1. SUFFICES ASSUME RegistryIInv, [RegistryNext]_registryVars PROVE RegistryIInv'
    OBVIOUS
  <2>2. RegistryTypeOK /\ Agreement /\ Places /\ Gens /\ ProbedWasAbsent
    BY <2>1 DEF RegistryIInv, RegistryInv, Places, Agreement, DownIsIdle
  <2>3. RegistryTypeOK' /\ Agreement' /\ DownIsIdle' /\ AwayIsAbsent' /\ Gens' /\ ProbedWasAbsent'
    BY <2>1, <2>2, TypesNext, AgreementNext, DownIsIdleNext, AwayNext, GensNext, ProbedNext DEF Places
  <2>4. QED
    BY <2>3 DEF RegistryIInv, RegistryInv, Places, Agreement
<1>3. QED
  BY <1>1, <1>2, PTL DEF RegistrySpec

\* What a request was answered is in the file, whoever reads or prunes meanwhile and
\* though the callers of others hang up at any await: a lane in flight at most one
\* revision on (REGISTRY_MUTATION_LOCK, save_durable_tmux_registry).
THEOREM AnswersAlwaysSaved == RegistrySpec => []RegistryInv
<1>1. RegistryIInv => RegistryInv
  BY DEF RegistryIInv
<1>2. QED
  BY <1>1, RegistryInductive, PTL

\* No step removes, replaces or sets back a lane in flight that was answered, not a
\* restart nor a save after a caller hung up, and a pruner that probed removes only
\* what was away
\* (prune_absent_dynamic_registrations_with_reason, remove_tmux_registrations).
THEOREM EntriesGoForCause == RegistrySpec => GoneForCause
<1>1. RegistryIInv /\ [RegistryNext]_registryVars => [KeepsLane /\ SoundPrune]_registryVars
  <2>1. SUFFICES ASSUME RegistryIInv, [RegistryNext]_registryVars PROVE KeepsLane /\ SoundPrune
    OBVIOUS
  <2>2. RegistryTypeOK /\ Agreement /\ ProbedWasAbsent
    BY <2>1 DEF RegistryIInv, RegistryInv, Places, Agreement, DownIsIdle
  <2>3. QED
    BY <2>1, <2>2, AgreementNext, PruneIsSound
<1>2. QED
  BY <1>1, RegistryInductive, PTL DEF RegistrySpec, GoneForCause

HIDE DEF file, NoSave

-----------------------------------------------------------------------------
(* The panes (TmuxPanes), for any panes, lines and captured lines, and however *)
(* the session and its watchers come and go.  A known screen is what the pane  *)
(* showed at the mark, so that what is found in the present one, beyond the    *)
(* longest overlap, was printed after it; and for each text what was told, and *)
(* what may still be told of it, was printed.  A daemon may still tell only    *)
(* what its window has when its look began before the wrapper was registered.  *)

Aways    == {Away, Resting} \cup [at : {"probe", "panes"}, watch : BOOLEAN, now : Nat]
Moments  == Nat \cup {Never}
Contents == [state : {"live", "dead", "closed"}, lines : Seq(Texts)]
Pictures == [screen : Seq(Texts), change : Moments, stale : Moments]

\* The types, as far as the proofs need them.
PanesShape ==
  /\ clock \in Nat /\ {session, wrapped, hurried, both} \subseteq BOOLEAN
  /\ pane \in [Panes -> Contents]
  /\ look \in [Watchers -> Aways]
  /\ known \in [Watchers -> [Panes -> Pictures]]
  /\ pending \in [Watchers -> [since : Nat, hits : SUBSET Keyed]]
  /\ printed \in [Texts -> Nat] /\ told \in [Texts -> Nat]
  /\ mark \in [Watchers -> [Panes -> Nat]]
  /\ owed \in [Watchers -> SUBSET Keyed]
  /\ said \in [Watchers -> [Panes -> Moments]]

Lines(p) == pane[p].lines
From(n)  == IF n > Depth THEN n - Depth + 1 ELSE 1

\* A known screen is what the pane showed when the mark was set, unless the session has
\* started anew since.
Marked(w, p) ==
  /\ mark[w][p] <= Len(Lines(p))
  /\ known[w][p] # Unknown /\ mark[w][p] > 0 =>
       known[w][p].screen = SubSeq(Lines(p), From(mark[w][p]), mark[w][p])

\* A stale report is followed by the time its watcher remembers.
IsLooking(w) == look[w].at \in {"probe", "panes"}
Timed(w, p) ==
  /\ said[w][p] <= clock
  /\ IsLooking(w) => said[w][p] <= look[w].now /\ look[w].now <= clock
  /\ known[w][p] # Unknown => said[w][p] <= known[w][p].change \/ said[w][p] <= known[w][p].stale

\* A wrapper that does not run knows nothing; while nothing is registered none runs.
Unwrapped ==
  /\ look["wrapper"] = Away => pending["wrapper"] = NoHits /\ \A p \in Panes : known["wrapper"][p] = Unknown
  /\ ~wrapped /\ ~both => look["wrapper"] = Away

\* What a watcher may still tell of a text: once for its window, once for what it has not seen.
One(b) == IF b THEN 1 ELSE 0
After(p, m, t) == \E i \in 1..Len(Lines(p)) : i > m /\ Lines(p)[i] = t
Unseen(w, t) == \E p \in Panes : known[w][p] # Unknown /\ After(p, mark[w][p], t)
Waiting(w, t) == One(t \in pending[w].hits)
Share(w, t) == Waiting(w, t) + One(Unseen(w, t))

\* Of the daemon, once a wrapper is registered, only a look begun before still counts.
Early == look["daemon"].at = "probe" /\ look["daemon"].watch
Shares(t) ==
  IF wrapped THEN Share("wrapper", t) + (IF Early THEN Waiting("daemon", t) ELSE 0) ELSE Share("daemon", t)
Paid == ~both => \A t \in Texts : told[t] + Shares(t) <= printed[t]

PanesIInv ==
  /\ PanesShape /\ (\A w \in Watchers, p \in Panes : Marked(w, p) /\ Timed(w, p))
  /\ Unwrapped /\ Paid /\ NothingOverlooked /\ ~hurried

\* What follows from PanesConstants, in the form the proofs use.
LEMMA PanesNumbers ==
  ASSUME PanesConstants
  PROVE  /\ Depth \in Nat /\ Depth >= 1 /\ Window \in Nat /\ Window >= 1
         /\ StaleAfter \in Nat /\ StaleAfter >= 1 /\ Keyed \subseteq Texts
<1>1. Depth \in Nat \ {0} /\ Window \in Nat \ {0} /\ StaleAfter \in Nat \ {0}
  BY DEF PanesConstants
<1>. QED  BY <1>1 DEF Texts

LEMMA MaxOfTwo ==
  ASSUME NEW a \in Int, NEW b \in Int
  PROVE  Max({a, b}) = IF a >= b THEN a ELSE b
<1>. DEFINE c == IF a >= b THEN a ELSE b
<1>1. c \in {a, b} /\ \A y \in {a, b} : c >= y
  OBVIOUS
<1>2. ASSUME NEW x \in {a, b}, \A y \in {a, b} : x >= y
      PROVE  x = c
  BY <1>2
<1>3. \E x \in {a, b} : \A y \in {a, b} : x >= y
  BY <1>1
<1>4. Max({a, b}) \in {a, b} /\ \A y \in {a, b} : Max({a, b}) >= y
  BY <1>3 DEF Max
<1>. QED  BY <1>2, <1>4

\* A set of numbers up to n has a greatest one.
LEMMA Greatest ==
  ASSUME NEW n \in Nat, NEW S \in SUBSET (0..n), S # {}
  PROVE  Max(S) \in S /\ \A y \in S : Max(S) >= y
<1>. DEFINE T == {n - x : x \in S}
<1>1. T \in SUBSET Nat /\ T # {}
  <2>1. \A x \in S : n - x \in Nat
    OBVIOUS
  <2>2. PICK x \in S : TRUE
    OBVIOUS
  <2>3. n - x \in T
    OBVIOUS
  <2>. QED  BY <2>1, <2>3
<1>2. PICK t \in T : \A u \in T : ~ (<<u, t>> \in OpToRel(<, Nat))
  <2>. HIDE DEF T
  <2>. QED  BY <1>1, NatLessThanWellFounded, WFMin
<1>3. PICK x \in S : t = n - x
  BY <1>2
<1>4. ASSUME NEW y \in S PROVE x >= y
  <2>. DEFINE u == n - y
  <2>1. u \in T /\ u \in Nat /\ t \in Nat
    BY <1>1, <1>2
  <2>2. u = n - y
    OBVIOUS
  <2>. HIDE DEF u, T
  <2>3. <<u, t>> \in Nat \X Nat /\ <<u, t>>[1] = u /\ <<u, t>>[2] = t
    BY <2>1
  <2>4. ~(u < t)
    BY <1>2, <2>1, <2>3 DEF OpToRel
  <2>. QED  BY <1>3, <2>1, <2>2, <2>4
<1>5. \E m \in S : \A y \in S : m >= y
  BY <1>4
<1>. QED  BY <1>5 DEF Max

\* The longest overlap is at least as long as any.
LEMMA OverlapBounds ==
  ASSUME NEW old \in Seq(Texts), NEW new \in Seq(Texts), NEW k \in 0..Len(new), Joins(old, new, k)
  PROVE  Overlap(old, new) \in 0..Len(new) /\ k <= Overlap(old, new)
<1>. DEFINE S == {j \in 0..Len(new) : Joins(old, new, j)}
<1>1. Len(new) \in Nat
  BY LenProperties
<1>2. S \in SUBSET (0..Len(new)) /\ k \in S
  OBVIOUS
<1>3. Overlap(old, new) = Max(S)
  BY DEF Overlap
<1>. HIDE DEF S
<1>4. Max(S) \in S /\ Max(S) >= k
  BY <1>1, <1>2, Greatest
<1>. QED  BY <1>1, <1>2, <1>3, <1>4

\* A part of a sequence of texts, by its places.
LEMMA PartOf ==
  ASSUME NEW s \in Seq(Texts), NEW m \in Int, m >= 1, NEW n \in Int, n <= Len(s)
  PROVE  /\ SubSeq(s, m, n) \in Seq(Texts)
         /\ Len(SubSeq(s, m, n)) = IF m <= n THEN n - m + 1 ELSE 0
         /\ \A i \in 1..(n - m + 1) : SubSeq(s, m, n)[i] = s[m + i - 1]
<1>1. Len(s) \in Nat
  BY LenProperties
<1>2. \A i \in m..n : s[i] \in Texts
  BY <1>1, ElementOfSeq
<1>. QED  BY <1>2, SubSeqProperties

LEMMA RestOf ==
  ASSUME NEW s \in Seq(Texts), NEW o \in 0..Len(s)
  PROVE  /\ DOMAIN SubSeq(s, o + 1, Len(s)) = 1..(Len(s) - o)
         /\ \A i \in 1..(Len(s) - o) : SubSeq(s, o + 1, Len(s))[i] = s[o + i]
<1>. DEFINE r == SubSeq(s, o + 1, Len(s))
<1>1. Len(s) \in Nat
  BY LenProperties
<1>2. /\ r \in Seq(Texts)
      /\ Len(r) = IF o + 1 <= Len(s) THEN Len(s) - (o + 1) + 1 ELSE 0
      /\ \A i \in 1..(Len(s) - (o + 1) + 1) : r[i] = s[(o + 1) + i - 1]
  BY <1>1, PartOf
<1>. HIDE DEF r
<1>3. DOMAIN r = 1..Len(r)
  BY <1>2, LenProperties
<1>4. Len(r) = Len(s) - o
  BY <1>1, <1>2
<1>5. \A i \in 1..(Len(s) - o) : r[i] = s[o + i]
  BY <1>1, <1>2
<1>. QED  BY <1>3, <1>4, <1>5 DEF r

\* An overlap of no line there always is.
LEMMA NoOverlap ==
  ASSUME NEW old \in Seq(Texts), NEW new \in Seq(Texts)
  PROVE  Joins(old, new, 0)
<1>1. Len(old) \in Nat /\ Len(new) \in Nat
  BY LenProperties
<1>2. SubSeq(old, Len(old) + 1, Len(old)) = << >> /\ SubSeq(new, 1, 0) = << >>
  BY <1>1, SubSeqEmpty
<1>. QED  BY <1>1, <1>2 DEF Joins

\* What counts as appended is in the new screen, below an overlap.
LEMMA AppendedParts ==
  ASSUME NEW old \in Seq(Texts), NEW new \in Seq(Texts), NEW k \in 0..Len(new), Joins(old, new, k)
  PROVE  \A t \in Appended(old, new) : \E i \in 1..Len(new) : i > k /\ new[i] = t
<1>. DEFINE o == Overlap(old, new)
<1>1. Len(new) \in Nat /\ o \in 0..Len(new) /\ k <= o
  BY LenProperties, OverlapBounds
<1>2. Appended(old, new) = ToSet(SubSeq(new, o + 1, Len(new)))
  BY DEF Appended
<1>. HIDE DEF o
<1>3. /\ DOMAIN SubSeq(new, o + 1, Len(new)) = 1..(Len(new) - o)
      /\ \A i \in 1..(Len(new) - o) : SubSeq(new, o + 1, Len(new))[i] = new[o + i]
  BY <1>1, RestOf
<1>5. ASSUME NEW t \in Appended(old, new)
      PROVE  \E i \in 1..Len(new) : i > k /\ new[i] = t
  <2>1. PICK j \in 1..(Len(new) - o) : SubSeq(new, o + 1, Len(new))[j] = t
    BY <1>2, <1>3, <1>5 DEF ToSet
  <2>2. o + j \in 1..Len(new) /\ o + j > k /\ new[o + j] = t
    BY <1>1, <1>3, <2>1
  <2>. QED  BY <2>2
<1>. QED  BY <1>5

\* What is in the new screen and not in the old one is among what was appended.
LEMMA NewIsAppended ==
  ASSUME NEW old \in Seq(Texts), NEW new \in Seq(Texts), NEW t \in ToSet(new), t \notin ToSet(old)
  PROVE  t \in Appended(old, new)
<1>. DEFINE S == {j \in 0..Len(new) : Joins(old, new, j)}
            o == Overlap(old, new)
<1>1. Len(old) \in Nat /\ Len(new) \in Nat /\ DOMAIN new = 1..Len(new) /\ DOMAIN old = 1..Len(old)
  BY LenProperties
<1>2. o \in 0..Len(new) /\ Joins(old, new, o)
  <2>1. S \in SUBSET (0..Len(new)) /\ 0 \in S
    BY <1>1, NoOverlap
  <2>2. o = Max(S)
    BY DEF Overlap
  <2>. HIDE DEF S, o
  <2>3. o \in S
    BY <1>1, <2>1, <2>2, Greatest
  <2>. QED  BY <2>3 DEF S
<1>3. PICK i \in 1..Len(new) : new[i] = t
  BY <1>1 DEF ToSet
<1>4. Appended(old, new) = ToSet(SubSeq(new, o + 1, Len(new)))
  BY DEF Appended
<1>. HIDE DEF o
<1>5. CASE i <= o
  <2>1. o <= Len(old) /\ SubSeq(old, Len(old) - o + 1, Len(old)) = SubSeq(new, 1, o)
    BY <1>2 DEF Joins
  <2>2. SubSeq(new, 1, o)[i] = new[i]
    BY <1>1, <1>2, <1>5, PartOf
  <2>3. SubSeq(old, Len(old) - o + 1, Len(old))[i] = old[Len(old) - o + i]
    BY <1>1, <1>2, <1>5, <2>1, PartOf
  <2>4. Len(old) - o + i \in 1..Len(old)
    BY <1>1, <1>2, <1>5, <2>1
  <2>5. old[Len(old) - o + i] = t
    BY <1>3, <2>1, <2>2, <2>3
  <2>6. t \in ToSet(old)
    BY <1>1, <2>4, <2>5 DEF ToSet
  <2>. QED  BY <2>6
<1>6. CASE i > o
  <2>. DEFINE s == SubSeq(new, o + 1, Len(new))
  <2>1. DOMAIN s = 1..(Len(new) - o) /\ \A j \in 1..(Len(new) - o) : s[j] = new[o + j]
    BY <1>2, RestOf
  <2>. HIDE DEF s
  <2>3. i - o \in 1..(Len(new) - o) /\ o + (i - o) = i
    BY <1>1, <1>2, <1>6
  <2>4. s[i - o] = t
    BY <1>3, <2>1, <2>3
  <2>5. t \in ToSet(s)
    BY <2>1, <2>3, <2>4 DEF ToSet
  <2>. QED  BY <1>4, <2>5 DEF s
<1>. QED  BY <1>1, <1>2, <1>5, <1>6

-----------------------------------------------------------------------------
\* What a pane shows: the last lines, as many as are captured.
LEMMA ScreenParts ==
  ASSUME PanesConstants, PanesShape, NEW p \in Panes
  PROVE  /\ Lines(p) \in Seq(Texts) /\ Len(Lines(p)) \in Nat
         /\ From(Len(Lines(p))) \in 1..(Len(Lines(p)) + 1)
         /\ Screen(p) = SubSeq(Lines(p), From(Len(Lines(p))), Len(Lines(p)))
         /\ Screen(p) \in Seq(Texts)
         /\ Len(Screen(p)) = Len(Lines(p)) - From(Len(Lines(p))) + 1
         /\ \A i \in 1..Len(Screen(p)) : Screen(p)[i] = Lines(p)[From(Len(Lines(p))) + i - 1]
<1>. DEFINE n == Len(Lines(p))
<1>1. Lines(p) \in Seq(Texts)
  BY DEF PanesShape, Contents, Lines
<1>2. n \in Nat
  BY <1>1, LenProperties
<1>3. From(n) \in 1..(n + 1)
  BY <1>2, PanesNumbers DEF From
<1>4. Screen(p) = SubSeq(Lines(p), Max({1, n - Depth + 1}), n)
  BY DEF Screen, Lines
<1>5. Max({1, n - Depth + 1}) = From(n)
  BY <1>2, PanesNumbers, MaxOfTwo DEF From
<1>. HIDE DEF n
<1>6. Screen(p) = SubSeq(Lines(p), From(n), n)
  BY <1>4, <1>5
<1>7. /\ Screen(p) \in Seq(Texts)
      /\ Len(Screen(p)) = IF From(n) <= n THEN n - From(n) + 1 ELSE 0
      /\ \A i \in 1..(n - From(n) + 1) : Screen(p)[i] = Lines(p)[From(n) + i - 1]
  BY <1>1, <1>2, <1>3, <1>6, PartOf DEF n
<1>8. Len(Screen(p)) = n - From(n) + 1
  BY <1>2, <1>3, <1>7
<1>. QED  BY <1>1, <1>2, <1>3, <1>6, <1>7, <1>8 DEF n

\* The end of an earlier screen that is still shown begins the present one.
LEMMA ScreensJoin ==
  ASSUME PanesConstants, PanesShape, NEW p \in Panes, NEW m \in Nat, m > 0, m <= Len(Lines(p))
  PROVE  LET old == SubSeq(Lines(p), From(m), m)
             k   == IF From(Len(Lines(p))) <= m THEN m - From(Len(Lines(p))) + 1 ELSE 0
         IN /\ old \in Seq(Texts)
            /\ k \in 0..Len(Screen(p)) /\ Joins(old, Screen(p), k)
<1>. DEFINE s == Lines(p)
            n == Len(s)
            a == From(m)
            b == From(n)
            old == SubSeq(s, a, m)
            new == Screen(p)
            k == IF b <= m THEN m - b + 1 ELSE 0
<1>1. /\ s \in Seq(Texts) /\ n \in Nat /\ b \in 1..(n + 1)
      /\ new \in Seq(Texts) /\ Len(new) = n - b + 1
      /\ \A i \in 1..(n - b + 1) : new[i] = s[b + i - 1]
  BY ScreenParts
<1>2. a \in 1..m /\ a <= b /\ m <= n
  BY <1>1, PanesNumbers DEF From
<1>. HIDE DEF s, n, a, b
<1>3. /\ old \in Seq(Texts)
      /\ Len(old) = IF a <= m THEN m - a + 1 ELSE 0
      /\ \A i \in 1..(m - a + 1) : old[i] = s[a + i - 1]
  BY <1>1, <1>2, PartOf DEF n
<1>4. Len(old) = m - a + 1
  BY <1>2, <1>3
<1>. HIDE DEF old, new
<1>5. k \in 0..Len(new) /\ k <= Len(old)
  BY <1>1, <1>2, <1>4
<1>6. CASE b <= m
  <2>1. k = m - b + 1 /\ k \in Nat
    BY <1>1, <1>2, <1>6
  <2>. HIDE DEF k
  <2>. DEFINE x == SubSeq(old, Len(old) - k + 1, Len(old))
              y == SubSeq(new, 1, k)
  <2>2. /\ x \in Seq(Texts)
        /\ Len(x) = IF Len(old) - k + 1 <= Len(old) THEN Len(old) - (Len(old) - k + 1) + 1 ELSE 0
        /\ \A i \in 1..(Len(old) - (Len(old) - k + 1) + 1) : x[i] = old[(Len(old) - k + 1) + i - 1]
    <3>. DEFINE j == Len(old) - k + 1
    <3>1. j \in Int /\ j >= 1 /\ Len(old) \in Int /\ Len(old) <= Len(old)
      BY <1>2, <1>4, <1>5, <2>1
    <3>. HIDE DEF j
    <3>2. /\ SubSeq(old, j, Len(old)) \in Seq(Texts)
          /\ Len(SubSeq(old, j, Len(old))) = IF j <= Len(old) THEN Len(old) - j + 1 ELSE 0
          /\ \A i \in 1..(Len(old) - j + 1) : SubSeq(old, j, Len(old))[i] = old[j + i - 1]
      BY <1>3, <3>1, PartOf
    <3>. QED  BY <3>2 DEF j
  <2>3. /\ y \in Seq(Texts) /\ Len(y) = IF 1 <= k THEN k - 1 + 1 ELSE 0
        /\ \A i \in 1..(k - 1 + 1) : y[i] = new[1 + i - 1]
    BY <1>1, <1>5, <2>1, PartOf
  <2>. HIDE DEF x, y
  <2>4. Len(x) = k /\ Len(y) = k
    BY <1>2, <1>4, <1>5, <2>1, <2>2, <2>3
  <2>5. ASSUME NEW i \in 1..k PROVE x[i] = y[i]
    <3>1. x[i] = old[Len(old) - k + i] /\ y[i] = new[i]
      BY <1>2, <1>4, <2>1, <2>2, <2>3
    <3>2. Len(old) - k + i \in 1..(m - a + 1) /\ i \in 1..(n - b + 1)
      BY <1>1, <1>2, <1>4, <1>5, <2>1
    <3>3. old[Len(old) - k + i] = s[a + (Len(old) - k + i) - 1] /\ new[i] = s[b + i - 1]
      BY <1>1, <1>3, <3>2
    <3>4. a + (Len(old) - k + i) - 1 = b + i - 1
      BY <1>1, <1>2, <1>4, <2>1
    <3>. QED  BY <3>1, <3>3, <3>4
  <2>6. x = y
    BY <2>2, <2>3, <2>4, <2>5, SeqEqual
  <2>7. Joins(old, new, k)
    BY <1>5, <2>6 DEF Joins, x, y
  <2>. QED  BY <1>3, <1>5, <2>7 DEF s, n, a, b, old, new, k
<1>7. CASE ~(b <= m)
  <2>1. k = 0 /\ Joins(old, new, 0)
    BY <1>1, <1>3, <1>7, NoOverlap
  <2>. HIDE DEF k
  <2>. QED  BY <1>3, <1>5, <2>1 DEF s, n, a, b, old, new, k
<1>. QED  BY <1>6, <1>7

\* Only lines printed after the mark are found.
LEMMA HitsAreNew ==
  ASSUME PanesConstants, PanesShape, NEW w \in Watchers, NEW p \in Panes, Marked(w, p), known[w][p] # Unknown,
         NEW t \in Hits(known[w][p].screen, Screen(p))
  PROVE  t \in Keyed /\ After(p, mark[w][p], t)
<1>. DEFINE s == Lines(p)
            n == Len(s)
            b == From(n)
            m == mark[w][p]
            old == known[w][p].screen
            new == Screen(p)
<1>1. /\ s \in Seq(Texts) /\ n \in Nat /\ b \in 1..(n + 1)
      /\ new \in Seq(Texts) /\ Len(new) = n - b + 1
      /\ \A i \in 1..(n - b + 1) : new[i] = s[b + i - 1]
  BY ScreenParts
<1>2. m \in Nat /\ m <= n /\ old \in Seq(Texts)
  BY DEF PanesShape, Marked, Pictures
<1>3. t \in Keyed /\ t \in Appended(old, new)
  BY DEF Hits
<1>4. \E k \in 0..Len(new) : Joins(old, new, k) /\ b + k > m
  <2>1. CASE m = 0
    <3>1. Joins(old, new, 0) /\ 0 \in 0..Len(new)
      BY <1>1, <1>2, NoOverlap
    <3>2. b + 0 > m
      BY <1>1, <2>1
    <3>. QED  BY <3>1, <3>2
  <2>2. CASE m > 0
    <3>1. old = SubSeq(s, From(m), m)
      BY <2>2 DEF Marked
    <3>. DEFINE k == IF b <= m THEN m - b + 1 ELSE 0
    <3>2. k \in 0..Len(new) /\ Joins(SubSeq(s, From(m), m), new, k)
      BY <1>2, <2>2, ScreensJoin
    <3>3. b + k > m
      BY <1>1, <1>2
    <3>. HIDE DEF k
    <3>. QED  BY <3>1, <3>2, <3>3
  <2>. QED  BY <1>2, <2>1, <2>2
<1>5. PICK k \in 0..Len(new) : Joins(old, new, k) /\ b + k > m
  BY <1>4
<1>. HIDE DEF old, new, s, n, b, m
<1>6. PICK i \in 1..Len(new) : i > k /\ new[i] = t
  BY <1>1, <1>2, <1>3, <1>5, AppendedParts
<1>7. b + i - 1 \in 1..n /\ b + i - 1 > m /\ s[b + i - 1] = t
  BY <1>1, <1>2, <1>5, <1>6
<1>8. \E j \in 1..n : j > m /\ s[j] = t
  BY <1>7
<1>. QED  BY <1>3, <1>8 DEF After, s, n, m

\* What came into sight is found, and nothing comes into a screen that did not change.
LEMMA CameIsHit ==
  ASSUME PanesConstants, PanesShape, NEW w \in Watchers, NEW p \in Panes, Marked(w, p), NEW t \in Came(w, p)
  PROVE  t \in Hits(known[w][p].screen, Screen(p)) /\ known[w][p].screen # Screen(p)
<1>. DEFINE s == Lines(p)
            n == Len(s)
            m == mark[w][p]
            f == Max({m, n - Depth})
<1>1. /\ s \in Seq(Texts) /\ n \in Nat /\ Screen(p) \in Seq(Texts) /\ Len(Screen(p)) = n - From(n) + 1
      /\ \A i \in 1..Len(Screen(p)) : Screen(p)[i] = s[From(n) + i - 1]
      /\ From(n) \in 1..(n + 1)
  BY ScreenParts
<1>2. m \in Nat /\ m <= n /\ known[w][p].screen \in Seq(Texts)
  BY DEF PanesShape, Marked, Pictures
<1>3. f = IF m >= n - Depth THEN m ELSE n - Depth
  <2>1. m \in Int /\ n - Depth \in Int
    BY <1>1, <1>2, PanesNumbers
  <2>. HIDE DEF m, n
  <2>. QED  BY <2>1, MaxOfTwo
<1>4. /\ t \in Keyed /\ t \notin ToSet(known[w][p].screen)
      /\ t \in ToSet(SubSeq(s, f + 1, n))
  BY DEF Came, Since, Lines
<1>5. f \in 0..n /\ f + 1 >= From(n)
  <2>. HIDE DEF s, n, m, f
  <2>1. n \in Nat /\ m \in Nat /\ m <= n /\ Depth \in Nat /\ From(n) = IF n > Depth THEN n - Depth + 1 ELSE 1
    BY <1>1, <1>2, PanesNumbers DEF From
  <2>2. CASE m >= n - Depth
    BY <1>3, <2>1, <2>2
  <2>3. CASE ~(m >= n - Depth)
    BY <1>3, <2>1, <2>3
  <2>. QED  BY <2>2, <2>3
<1>. HIDE DEF s, n, m, f
<1>6. PICK i \in 1..(n - f) : s[f + i] = t
  <2>. DEFINE r == SubSeq(s, f + 1, n)
  <2>1. DOMAIN r = 1..(n - f) /\ \A i \in 1..(n - f) : r[i] = s[f + i]
    BY <1>1, <1>5, RestOf DEF n
  <2>2. t \in ToSet(r)
    BY <1>4
  <2>. HIDE DEF r
  <2>3. PICK i \in DOMAIN r : r[i] = t
    BY <2>2 DEF ToSet
  <2>. QED  BY <2>1, <2>3
<1>7. f + i - From(n) + 1 \in 1..Len(Screen(p)) /\ Screen(p)[f + i - From(n) + 1] = s[f + i]
  <2>. DEFINE j == f + i - From(n) + 1
  <2>1. j \in 1..Len(Screen(p)) /\ From(n) + j - 1 = f + i
    BY <1>1, <1>5, <1>6
  <2>. HIDE DEF j
  <2>2. Screen(p)[j] = s[f + i]
    BY <1>1, <2>1
  <2>. QED  BY <2>1, <2>2 DEF j
<1>8. t \in ToSet(Screen(p))
  BY <1>1, <1>6, <1>7, LenProperties DEF ToSet
<1>. QED  BY <1>1, <1>2, <1>4, <1>8, NewIsAppended DEF Hits

-----------------------------------------------------------------------------
(* What the parts of a step do.                                              *)

\* A place of a watcher is told by its name.
LEMMA WatcherPlaces ==
  ASSUME NEW x \in Aways
  PROVE  /\ x.at = "away" <=> x = Away
         /\ x.at = "resting" <=> x = Resting
         /\ x.at \in {"probe", "panes"} <=> x \notin {Away, Resting}
         /\ x.at \in {"probe", "panes"} => x.watch \in BOOLEAN /\ x.now \in Nat
         /\ x.at \in {"away", "resting", "probe", "panes"}
<1>1. Away.at = "away" /\ Resting.at = "resting"
  BY DEF Away, Resting
<1>2. CASE x \in {Away, Resting}
  BY <1>1, <1>2
<1>3. CASE x \in [at : {"probe", "panes"}, watch : BOOLEAN, now : Nat]
  <2>1. x.at \in {"probe", "panes"} /\ x.watch \in BOOLEAN /\ x.now \in Nat
    BY <1>3
  <2>. QED  BY <1>1, <2>1
<1>. QED  BY <1>2, <1>3 DEF Aways

LEMMA LookTyped ==
  ASSUME PanesShape, NEW w \in Watchers
  PROVE  look[w] \in Aways
BY DEF PanesShape

LEMMA Going ==
  ASSUME PanesShape, NEW w \in Watchers, NEW place \in Aways, Goes(w, place)
  PROVE  /\ look' \in [Watchers -> Aways] /\ look'[w] = place
         /\ \A v \in Watchers : v # w => look'[v] = look[v]
BY DEF Goes, PanesShape

LEMMA UnknownTyped ==
  Unknown \in Pictures /\ Unknown.screen = << >> /\ Unknown.change = -1 /\ Unknown.stale = -1
<1>1. << >> \in Seq(Texts)
  BY EmptySeq
<1>2. Unknown.screen = << >> /\ Unknown.change = -1 /\ Unknown.stale = -1
  BY DEF Unknown
<1>3. Unknown \in Pictures
  BY <1>1 DEF Unknown, Pictures, Moments, Never
<1>. QED  BY <1>2, <1>3

LEMMA Forgetting ==
  ASSUME PanesShape, NEW w \in Watchers, Forgets(w)
  PROVE  /\ known' \in [Watchers -> [Panes -> Pictures]]
         /\ \A p \in Panes : known'[w][p] = Unknown
         /\ \A v \in Watchers : v # w => known'[v] = known[v]
BY UnknownTyped DEF Forgets, PanesShape

LEMMA Dropping ==
  ASSUME PanesShape, NEW w \in Watchers, Drops(w)
  PROVE  /\ pending' \in [Watchers -> [since : Nat, hits : SUBSET Keyed]]
         /\ owed' \in [Watchers -> SUBSET Keyed]
         /\ pending'[w] = NoHits /\ pending'[w].hits = {} /\ owed'[w] = {}
         /\ \A v \in Watchers : v # w => pending'[v] = pending[v] /\ owed'[v] = owed[v]
<1>1. NoHits \in [since : Nat, hits : SUBSET Keyed] /\ NoHits.hits = {}
  BY DEF NoHits
<1>. QED  BY <1>1 DEF Drops, PanesShape

LEMMA WatcherNames ==
  ASSUME NEW w \in Watchers
  PROVE  w \in {"daemon", "wrapper"}
BY DEF Watchers

LEMMA FreshTyped ==
  Fresh \in Contents /\ Fresh.lines = << >>
<1>1. << >> \in Seq(Texts)
  BY EmptySeq
<1>. QED  BY <1>1 DEF Fresh, Contents

\* A line is added to what a pane shows, or the pane ends.
LEMMA Printing ==
  ASSUME PanesShape, NEW p \in Panes, NEW t \in Texts, pane' = [pane EXCEPT ![p].lines = Append(@, t)]
  PROVE  /\ pane' \in [Panes -> Contents] /\ Lines(p)' = Append(Lines(p), t)
         /\ \A q \in Panes : q # p => pane'[q] = pane[q]
<1>1. pane[p] \in Contents
  BY DEF PanesShape
<1>2. Append(pane[p].lines, t) \in Seq(Texts)
  BY <1>1, AppendProperties DEF Contents
<1>3. [pane[p] EXCEPT !.lines = Append(@, t)] \in Contents
  BY <1>1, <1>2 DEF Contents
<1>4. pane' = [pane EXCEPT ![p] = [pane[p] EXCEPT !.lines = Append(@, t)]]
  BY <1>1 DEF PanesShape
<1>. QED  BY <1>1, <1>3, <1>4 DEF PanesShape, Lines, Contents

LEMMA Ending ==
  ASSUME PanesShape, NEW p \in Panes, NEW s \in {"dead", "closed"}, pane' = [pane EXCEPT ![p].state = s]
  PROVE  pane' \in [Panes -> Contents] /\ \A q \in Panes : Lines(q)' = Lines(q)
<1>1. pane[p] \in Contents
  BY DEF PanesShape
<1>3. [pane[p] EXCEPT !.state = s] \in Contents
  BY <1>1 DEF Contents
<1>4. pane' = [pane EXCEPT ![p] = [pane[p] EXCEPT !.state = s]]
  BY <1>1 DEF PanesShape
<1>. QED  BY <1>1, <1>3, <1>4 DEF PanesShape, Lines, Contents

-----------------------------------------------------------------------------
(* The types.                                                                *)

LEMMA NowTyped ==
  ASSUME PanesShape, NEW w \in Watchers, IsLooking(w)
  PROVE  Now(w) \in Nat /\ look[w].now \in Nat
<1>1. look[w].now \in Nat
  BY LookTyped, WatcherPlaces DEF IsLooking
<1>2. clock \in Nat
  BY DEF PanesShape
<1>. QED  BY <1>1, <1>2 DEF Now

\* What a watcher remembers of a pane after a look: what it shows, and for the time of a
\* change or of a report the present one, or the one it remembered.
LEMMA SeenParts ==
  ASSUME PanesConstants, PanesShape, NEW w \in Watchers, NEW p \in Panes, IsLooking(w)
  PROVE  /\ Seen(w, p) \in Pictures
         /\ Seen(w, p) # Unknown =>
              /\ Open(p) /\ Seen(w, p).screen = Screen(p)
              /\ \/ Stale(w, p) /\ Seen(w, p).stale = Now(w)
                 \/ ~Stale(w, p) /\ Seen(w, p).change = Now(w)
                 \/ ~Stale(w, p) /\ known[w][p] # Unknown /\ Seen(w, p) = known[w][p]
<1>. DEFINE k == known[w][p]
            new == [screen |-> Screen(p), change |-> Now(w), stale |-> Never]
            later == [k EXCEPT !.stale = Now(w)]
<1>1. k \in Pictures /\ Screen(p) \in Seq(Texts) /\ Now(w) \in Nat
  BY ScreenParts, NowTyped DEF PanesShape
<1>2. new \in Pictures /\ new.screen = Screen(p) /\ new.change = Now(w)
  BY <1>1 DEF Pictures, Moments, Never
<1>3. later \in Pictures /\ later.screen = k.screen /\ later.stale = Now(w)
  BY <1>1 DEF Pictures, Moments
<1>4. Seen(w, p) = IF ~Open(p) THEN Unknown ELSE IF k = Unknown \/ Changed(w, p) THEN new
                   ELSE IF Stale(w, p) THEN later ELSE k
  BY DEF Seen
<1>5. Changed(w, p) <=> k # Unknown /\ k.screen # Screen(p)
  BY DEF Changed
<1>6. Stale(w, p) => k # Unknown /\ ~Changed(w, p)
  BY DEF Stale
<1>. HIDE DEF k, new, later
<1>7. CASE ~Open(p)
  BY <1>4, <1>7, UnknownTyped
<1>8. CASE Open(p) /\ (k = Unknown \/ Changed(w, p))
  BY <1>2, <1>4, <1>6, <1>8
<1>9. CASE Open(p) /\ k # Unknown /\ ~Changed(w, p) /\ Stale(w, p)
  BY <1>3, <1>4, <1>5, <1>9
<1>10. CASE Open(p) /\ k # Unknown /\ ~Changed(w, p) /\ ~Stale(w, p)
  BY <1>1, <1>4, <1>5, <1>10 DEF k
<1>. QED  BY <1>7, <1>8, <1>9, <1>10

LEMMA CollectedTyped ==
  ASSUME PanesShape, NEW w \in Watchers, IsLooking(w), NEW hits \in SUBSET Keyed,
         NEW window \in [since : Nat, hits : SUBSET Keyed]
  PROVE  /\ Collected(w, window, hits) \in [since : Nat, hits : SUBSET Keyed]
         /\ Collected(w, window, hits).hits = window.hits \cup hits
<1>1. Now(w) \in Nat
  BY NowTyped
<1>2. CASE hits = {}
  BY <1>2 DEF Collected
<1>3. CASE hits # {} /\ window = NoHits
  <2>. DEFINE new == [since |-> Now(w), hits |-> hits]
  <2>1. new \in [since : Nat, hits : SUBSET Keyed] /\ new.hits = hits
    BY <1>1
  <2>2. window.hits = {}
    BY <1>3 DEF NoHits
  <2>3. Collected(w, window, hits) = new
    BY <1>3 DEF Collected
  <2>. HIDE DEF new
  <2>. QED  BY <2>1, <2>2, <2>3
<1>4. CASE hits # {} /\ window # NoHits
  <2>. DEFINE new == [window EXCEPT !.hits = window.hits \cup hits]
  <2>1. new \in [since : Nat, hits : SUBSET Keyed] /\ new.hits = window.hits \cup hits
    OBVIOUS
  <2>3. Collected(w, window, hits) = new
    BY <1>4 DEF Collected
  <2>. HIDE DEF new
  <2>. QED  BY <2>1, <2>3
<1>. QED  BY <1>2, <1>3, <1>4


\* What a look at the panes leaves.
Kept(w)  == {p \in Panes : pane[p].state = "live" /\ known[w][p] # Unknown /\ \A q \in Dead : q < p}
HitsIn(w) == UNION {Hits(known[w][p].screen, Screen(p)) : p \in {q \in Kept(w) : Changed(w, q)}}
CameIn(w) == UNION {Came(w, p) : p \in Kept(w)}
StaleIn(w) == {p \in Panes : Open(p) /\ Stale(w, p)}

LEMMA HitsInKeyed ==
  ASSUME NEW w \in Watchers
  PROVE  HitsIn(w) \in SUBSET Keyed /\ CameIn(w) \in SUBSET Keyed
BY DEF HitsIn, Hits, CameIn, Came

LEMMA Looked ==
  ASSUME PanesConstants, PanesShape, NEW w \in Watchers, Snapshot(w)
  PROVE  /\ IsLooking(w) /\ look[w].at = "panes" /\ look'[w] = Resting /\ look' \in [Watchers -> Aways]
         /\ pending' \in [Watchers -> [since : Nat, hits : SUBSET Keyed]]
         /\ pending'[w].hits = (IF Dead = {} THEN pending[w].hits ELSE {}) \cup HitsIn(w)
         /\ owed' \in [Watchers -> SUBSET Keyed]
         /\ owed'[w] = (IF Dead = {} THEN owed[w] ELSE {}) \cup CameIn(w)
         /\ known' \in [Watchers -> [Panes -> Pictures]] /\ \A p \in Panes : known'[w][p] = Seen(w, p)
         /\ mark' \in [Watchers -> [Panes -> Nat]] /\ \A p \in Panes : mark'[w][p] = Len(Lines(p))
         /\ said' \in [Watchers -> [Panes -> Moments]]
         /\ \A p \in Panes : said'[w][p] = IF p \in StaleIn(w) THEN Now(w) ELSE said[w][p]
         /\ hurried' = (hurried \/ \E p \in StaleIn(w) : said[w][p] # Never /\ Now(w) - said[w][p] < StaleAfter)
         /\ \A v \in Watchers : v # w => look'[v] = look[v] /\ pending'[v] = pending[v] /\ owed'[v] = owed[v]
         /\ \A v \in Watchers : v # w => known'[v] = known[v] /\ mark'[v] = mark[v] /\ said'[v] = said[v]
         /\ UNCHANGED <<clock, session, pane, wrapped, prints, troubles, printed, told, both>>
<1>1. IsLooking(w) /\ look[w].at = "panes"
  BY DEF Snapshot, IsLooking
<1>2. /\ pending' = [pending EXCEPT ![w] = Collected(w, IF Dead = {} THEN pending[w] ELSE NoHits, HitsIn(w))]
      /\ owed' = [owed EXCEPT ![w] = (IF Dead = {} THEN owed[w] ELSE {}) \cup CameIn(w)]
      /\ known' = [known EXCEPT ![w] = [p \in Panes |-> Seen(w, p)]]
      /\ mark' = [mark EXCEPT ![w] = [p \in Panes |-> Len(pane[p].lines)]]
      /\ hurried' = (hurried \/ \E p \in StaleIn(w) : said[w][p] # Never /\ Now(w) - said[w][p] < StaleAfter)
      /\ said' = [said EXCEPT ![w] = [p \in Panes |-> IF p \in StaleIn(w) THEN Now(w) ELSE said[w][p]]]
  BY Zenon DEF Snapshot, Kept, HitsIn, CameIn, StaleIn, PanesShape
<1>3. /\ look' = [look EXCEPT ![w] = Resting]
      /\ UNCHANGED <<clock, session, pane, wrapped, prints, troubles, printed, told, both>>
  BY DEF Snapshot, Goes
<1>4. look' \in [Watchers -> Aways] /\ look'[w] = Resting /\ \A v \in Watchers : v # w => look'[v] = look[v]
  BY <1>3 DEF PanesShape, Aways
<1>5. /\ pending' \in [Watchers -> [since : Nat, hits : SUBSET Keyed]]
      /\ pending'[w].hits = (IF Dead = {} THEN pending[w].hits ELSE {}) \cup HitsIn(w)
      /\ \A v \in Watchers : v # w => pending'[v] = pending[v]
  <2>. DEFINE old == IF Dead = {} THEN pending[w] ELSE NoHits
              new == Collected(w, old, HitsIn(w))
  <2>1. /\ old \in [since : Nat, hits : SUBSET Keyed]
        /\ old.hits = IF Dead = {} THEN pending[w].hits ELSE {}
    <3>1. NoHits \in [since : Nat, hits : SUBSET Keyed] /\ NoHits.hits = {}
      BY DEF NoHits
    <3>2. pending[w] \in [since : Nat, hits : SUBSET Keyed]
      BY DEF PanesShape
    <3>. QED  BY <3>1, <3>2
  <2>2. pending' = [pending EXCEPT ![w] = new]
    BY <1>2
  <2>3. pending \in [Watchers -> [since : Nat, hits : SUBSET Keyed]]
    BY DEF PanesShape
  <2>. HIDE DEF old
  <2>4. new \in [since : Nat, hits : SUBSET Keyed] /\ new.hits = old.hits \cup HitsIn(w)
    BY <1>1, <2>1, HitsInKeyed, CollectedTyped
  <2>. HIDE DEF new
  <2>5. pending'[w] = new /\ pending' \in [Watchers -> [since : Nat, hits : SUBSET Keyed]]
    BY <2>2, <2>3, <2>4
  <2>. QED  BY <2>1, <2>2, <2>3, <2>4, <2>5
<1>6. /\ owed' \in [Watchers -> SUBSET Keyed]
      /\ owed'[w] = (IF Dead = {} THEN owed[w] ELSE {}) \cup CameIn(w)
      /\ \A v \in Watchers : v # w => owed'[v] = owed[v]
  BY <1>2, HitsInKeyed DEF PanesShape
<1>7. /\ known' \in [Watchers -> [Panes -> Pictures]] /\ \A p \in Panes : known'[w][p] = Seen(w, p)
      /\ \A v \in Watchers : v # w => known'[v] = known[v]
  <2>. DEFINE new == [p \in Panes |-> Seen(w, p)]
  <2>1. new \in [Panes -> Pictures] /\ \A p \in Panes : new[p] = Seen(w, p)
    BY <1>1, SeenParts
  <2>2. known' = [known EXCEPT ![w] = new]
    BY <1>2
  <2>. HIDE DEF new
  <2>. QED  BY <2>1, <2>2 DEF PanesShape
<1>8. /\ mark' \in [Watchers -> [Panes -> Nat]] /\ \A p \in Panes : mark'[w][p] = Len(Lines(p))
      /\ \A v \in Watchers : v # w => mark'[v] = mark[v]
  <2>. DEFINE new == [p \in Panes |-> Len(pane[p].lines)]
  <2>1. new \in [Panes -> Nat] /\ \A p \in Panes : new[p] = Len(Lines(p))
    BY ScreenParts DEF Lines
  <2>2. mark' = [mark EXCEPT ![w] = new]
    BY <1>2
  <2>. HIDE DEF new
  <2>. QED  BY <2>1, <2>2 DEF PanesShape
<1>9. /\ said' \in [Watchers -> [Panes -> Moments]]
      /\ \A p \in Panes : said'[w][p] = IF p \in StaleIn(w) THEN Now(w) ELSE said[w][p]
      /\ \A v \in Watchers : v # w => said'[v] = said[v]
  <2>. DEFINE new == [p \in Panes |-> IF p \in StaleIn(w) THEN Now(w) ELSE said[w][p]]
  <2>1. new \in [Panes -> Moments] /\ \A p \in Panes : new[p] = IF p \in StaleIn(w) THEN Now(w) ELSE said[w][p]
    BY <1>1, NowTyped DEF PanesShape, Moments
  <2>2. said' = [said EXCEPT ![w] = new]
    BY <1>2
  <2>. HIDE DEF new
  <2>. QED  BY <2>1, <2>2 DEF PanesShape
<1>10. hurried' = (hurried \/ \E p \in StaleIn(w) : said[w][p] # Never /\ Now(w) - said[w][p] < StaleAfter)
  BY <1>2
<1>. QED  BY Zenon, <1>1, <1>3, <1>4, <1>5, <1>6, <1>7, <1>8, <1>9, <1>10

LEMMA ShapeStep ==
  ASSUME PanesConstants, PanesShape, [PanesNext]_panesVars
  PROVE  PanesShape'
<1>. USE DEF World, Watching
<1>1. CASE Tick
  BY <1>1 DEF Tick, PanesShape
<1>2. ASSUME NEW p \in Panes, NEW t \in Texts, Printed(p, t) PROVE PanesShape'
  <2>1. pane' \in [Panes -> Contents]
    BY <1>2, Printing DEF Printed
  <2>2. printed' \in [Texts -> Nat]
    BY <1>2 DEF Printed, PanesShape
  <2>. QED  BY <1>2, <2>1, <2>2 DEF Printed, PanesShape
<1>3. ASSUME NEW p \in Panes, PaneEnds(p) PROVE PanesShape'
  <2>1. pane' \in [Panes -> Contents]
    BY <1>3, Ending DEF PaneEnds
  <2>. QED  BY <1>3, <2>1 DEF PaneEnds, PanesShape
<1>4. CASE SessionCloses
  BY <1>4 DEF SessionCloses, PanesShape
<1>5. CASE SessionOpens
  <2>1. pane' \in [Panes -> Contents]
    BY <1>5, FreshTyped DEF SessionOpens
  <2>. QED  BY <1>5, <2>1 DEF SessionOpens, PanesShape
<1>6. ASSUME NEW w \in Watchers, Begin(w) PROVE PanesShape'
  <2>. DEFINE place == [at |-> "probe", watch |-> (w = "wrapper" \/ ~wrapped), now |-> clock]
  <2>1. place \in Aways
    <3>1. (w = "wrapper" \/ ~wrapped) \in BOOLEAN /\ clock \in Nat
      BY DEF PanesShape
    <3>. QED  BY <3>1 DEF Aways
  <2>2. Goes(w, place)
    BY <1>6 DEF Begin
  <2>. HIDE DEF place
  <2>3. look' \in [Watchers -> Aways]
    BY <2>1, <2>2, Going
  <2>. QED  BY <1>6, <2>3 DEF Begin, PanesShape
<1>7. ASSUME NEW w \in Watchers, Absent(w) PROVE PanesShape'
  <2>1. look' \in [Watchers -> Aways]
    BY <1>7, Going DEF Absent, Aways
  <2>2. wrapped' \in BOOLEAN /\ both' \in BOOLEAN
    <3>1. wrapped' \in BOOLEAN
      BY <1>7, Zenon DEF Absent
    <3>2. both' \in BOOLEAN
      BY <1>7, Zenon DEF Absent
    <3>. QED  BY <3>1, <3>2
  <2>3. Drops(w) /\ Forgets(w)
    BY <1>7 DEF Absent
  <2>4. UNCHANGED <<clock, session, pane, printed, told, mark, said, hurried>>
    BY <1>7 DEF Absent
  <2>. QED  BY <2>1, <2>2, <2>3, <2>4, Dropping, Forgetting DEF PanesShape
<1>8. ASSUME NEW w \in Watchers, NotMine(w) PROVE PanesShape'
  <2>1. look' \in [Watchers -> Aways]
    BY <1>8, Going DEF NotMine, Aways
  <2>3. Drops(w) /\ Forgets(w)
    BY <1>8 DEF NotMine
  <2>4. UNCHANGED <<clock, session, pane, printed, wrapped, both, told, mark, said, hurried>>
    BY <1>8 DEF NotMine
  <2>. QED  BY <2>1, <2>3, <2>4, Dropping, Forgetting DEF PanesShape
<1>9. ASSUME NEW w \in Watchers, Flush(w) PROVE PanesShape'
  <2>1. look' \in [Watchers -> Aways]
    <3>1. look[w] \in [at : {"probe", "panes"}, watch : BOOLEAN, now : Nat]
      BY <1>9, LookTyped, WatcherPlaces DEF Flush, Aways
    <3>2. [look[w] EXCEPT !.at = "panes"] \in Aways
      BY <3>1 DEF Aways
    <3>. QED  BY <1>9, <3>2, Going DEF Flush
  <2>2. /\ pending' \in [Watchers -> [since : Nat, hits : SUBSET Keyed]]
        /\ owed' \in [Watchers -> SUBSET Keyed]
    BY <1>9, Dropping DEF Flush, PanesShape
  <2>3. told' \in [Texts -> Nat]
    <3>1. CASE ReadyToFlush(w)
      <4>1. told' = [t \in Texts |-> told[t] + (IF t \in pending[w].hits THEN 1 ELSE 0)]
        BY <1>9, <3>1 DEF Flush
      <4>2. told \in [Texts -> Nat]
        BY DEF PanesShape
      <4>. QED  BY <4>1, <4>2
    <3>2. CASE ~ReadyToFlush(w)
      BY <1>9, <3>2 DEF Flush, PanesShape
    <3>. QED  BY <3>1, <3>2
  <2>4. UNCHANGED <<clock, session, pane, printed, wrapped, both, known, mark, said, hurried>>
    BY <1>9 DEF Flush
  <2>. QED  BY <2>1, <2>2, <2>3, <2>4 DEF PanesShape
<1>10. ASSUME NEW w \in Watchers, Fails(w) PROVE PanesShape'
  <2>1. look' \in [Watchers -> Aways]
    BY <1>10, Going DEF Fails, Aways
  <2>2. /\ pending' \in [Watchers -> [since : Nat, hits : SUBSET Keyed]]
        /\ owed' \in [Watchers -> SUBSET Keyed]
    BY <1>10, Dropping DEF Fails, PanesShape
  <2>3. Forgets(w) /\ UNCHANGED <<clock, session, pane, printed, wrapped, both, told, mark, said, hurried>>
    BY <1>10 DEF Fails
  <2>. QED  BY <2>1, <2>2, <2>3, Forgetting DEF PanesShape
<1>11. ASSUME NEW w \in Watchers, Snapshot(w) PROVE PanesShape'
  <2>1. hurried' \in BOOLEAN
    BY <1>11, Looked, Zenon
  <2>. QED  BY <1>11, <2>1, Looked DEF PanesShape
<1>12. CASE Follow
  <2>1. look' \in [Watchers -> Aways]
    BY <1>12, Going DEF Follow, Aways, Watchers
  <2>. QED  BY <1>12, <2>1 DEF Follow, PanesShape
<1>13. CASE Leave
  <2>0. "wrapper" \in Watchers
    BY DEF Watchers
  <2>1. look' \in [Watchers -> Aways]
    BY <1>13, <2>0, Going DEF Leave, Aways
  <2>2. Drops("wrapper") /\ Forgets("wrapper")
    BY <1>13 DEF Leave
  <2>3. UNCHANGED <<clock, session, pane, printed, wrapped, both, told, mark, said, hurried>>
    BY <1>13 DEF Leave
  <2>. QED  BY <2>0, <2>1, <2>2, <2>3, Dropping, Forgetting DEF PanesShape
<1>14. CASE UNCHANGED panesVars
  BY <1>14 DEF panesVars, PanesShape
<1>. QED  BY <1>1, <1>2, <1>3, <1>4, <1>5, <1>6, <1>7, <1>8, <1>9, <1>10, <1>11, <1>12, <1>13, <1>14 DEF PanesNext

-----------------------------------------------------------------------------
(* A known screen is what the pane showed at the mark.                       *)

LEMMA MarkedKept ==
  ASSUME NEW w \in Watchers, NEW p \in Panes, Marked(w, p), Lines(p)' = Lines(p),
         mark'[w][p] = mark[w][p], known'[w][p] \in {known[w][p], Unknown}
  PROVE  Marked(w, p)'
BY DEF Marked, From

\* A line that is added changes no earlier part.
LEMMA PartOfAppended ==
  ASSUME NEW s \in Seq(Texts), NEW t \in Texts, NEW a \in Nat, a >= 1, NEW m \in Nat, m <= Len(s)
  PROVE  SubSeq(Append(s, t), a, m) = SubSeq(s, a, m)
<1>. DEFINE r == Append(s, t)
            x == SubSeq(r, a, m)
            y == SubSeq(s, a, m)
<1>1. r \in Seq(Texts) /\ Len(r) = Len(s) + 1 /\ Len(s) \in Nat /\ \A i \in 1..Len(s) : r[i] = s[i]
  BY AppendProperties, LenProperties
<1>. HIDE DEF r
<1>2. /\ x \in Seq(Texts) /\ Len(x) = IF a <= m THEN m - a + 1 ELSE 0
      /\ \A i \in 1..(m - a + 1) : x[i] = r[a + i - 1]
  <2>1. m <= Len(r)
    BY <1>1
  <2>. QED  BY <1>1, <2>1, PartOf
<1>3. /\ y \in Seq(Texts) /\ Len(y) = IF a <= m THEN m - a + 1 ELSE 0
      /\ \A i \in 1..(m - a + 1) : y[i] = s[a + i - 1]
  BY PartOf
<1>. HIDE DEF x, y
<1>4. Len(x) = Len(y)
  BY <1>2, <1>3
<1>5. ASSUME NEW i \in 1..Len(x) PROVE x[i] = y[i]
  <2>1. i \in 1..(m - a + 1)
    BY <1>2
  <2>2. a + i - 1 \in 1..Len(s)
    BY <1>1, <2>1
  <2>. QED  BY <1>1, <1>2, <1>3, <2>1, <2>2
<1>6. x = y
  BY <1>2, <1>3, <1>4, <1>5, SeqEqual
<1>. QED  BY <1>6 DEF x, y, r

LEMMA MarkedStep ==
  ASSUME PanesConstants, PanesShape, [PanesNext]_panesVars, \A w \in Watchers, p \in Panes : Marked(w, p),
         NEW v \in Watchers, NEW q \in Panes
  PROVE  Marked(v, q)'
<1>. USE DEF World, Watching
<1>. DEFINE Quiet == Lines(q)' = Lines(q) /\ mark'[v][q] = mark[v][q] /\ known'[v][q] \in {known[v][q], Unknown}
<1>0. Marked(v, q) /\ (Quiet => Marked(v, q)')
  BY MarkedKept
<1>1. CASE Tick
  BY <1>0, <1>1 DEF Tick, Lines
<1>2. ASSUME NEW p \in Panes, NEW t \in Texts, Printed(p, t) PROVE Marked(v, q)'
  <2>1. UNCHANGED <<mark, known>> /\ pane' = [pane EXCEPT ![p].lines = Append(@, t)]
    BY <1>2 DEF Printed
  <2>2. CASE q # p
    BY <1>0, <2>1, <2>2, Printing DEF Lines
  <2>3. CASE q = p
    <3>. DEFINE s == Lines(q)
                m == mark[v][q]
    <3>1. Lines(q)' = Append(s, t)
      BY <2>1, <2>3, Printing
    <3>2. s \in Seq(Texts) /\ Len(s) \in Nat /\ m \in Nat /\ m <= Len(s)
      BY <1>0, ScreenParts DEF PanesShape, Marked
    <3>3. From(m) \in Nat /\ From(m) >= 1
      BY <3>2, PanesNumbers DEF From
    <3>4. SubSeq(Append(s, t), From(m), m) = SubSeq(s, From(m), m)
      BY <3>2, <3>3, PartOfAppended
    <3>5. Len(Append(s, t)) = Len(s) + 1
      BY <3>2, AppendProperties
    <3>6. m <= Len(Append(s, t))
      BY <3>2, <3>5
    <3>7. known[v][q] # Unknown /\ m > 0 => known[v][q].screen = SubSeq(Append(s, t), From(m), m)
      BY <1>0, <3>4 DEF Marked
    <3>. HIDE DEF s, m
    <3>8. mark'[v][q] = m /\ known'[v][q] = known[v][q]
      BY <2>1 DEF m
    <3>. QED  BY <3>1, <3>6, <3>7, <3>8 DEF Marked, From
  <2>. QED  BY <2>2, <2>3
<1>3. ASSUME NEW p \in Panes, PaneEnds(p) PROVE Marked(v, q)'
  BY <1>0, <1>3, Ending DEF PaneEnds
<1>4. CASE SessionCloses
  BY <1>0, <1>4 DEF SessionCloses, Lines
<1>5. CASE SessionOpens
  <2>1. mark'[v][q] = 0 /\ Lines(q)' = << >>
    BY <1>5, FreshTyped DEF SessionOpens, Lines
  <2>. QED  BY <2>1 DEF Marked
<1>6. ASSUME NEW w \in Watchers, Begin(w) PROVE Marked(v, q)'
  BY <1>0, <1>6 DEF Begin, Lines
<1>7. ASSUME NEW w \in Watchers, Absent(w) PROVE Marked(v, q)'
  <2>1. Forgets(w) /\ UNCHANGED <<pane, mark>>
    BY <1>7 DEF Absent
  <2>2. known'[v][q] \in {known[v][q], Unknown}
    BY <2>1, Forgetting
  <2>. QED  BY <1>0, <2>1, <2>2 DEF Lines
<1>8. ASSUME NEW w \in Watchers, NotMine(w) PROVE Marked(v, q)'
  <2>1. Forgets(w) /\ UNCHANGED <<pane, mark>>
    BY <1>8 DEF NotMine
  <2>2. known'[v][q] \in {known[v][q], Unknown}
    BY <2>1, Forgetting
  <2>. QED  BY <1>0, <2>1, <2>2 DEF Lines
<1>9. ASSUME NEW w \in Watchers, Flush(w) PROVE Marked(v, q)'
  BY <1>0, <1>9 DEF Flush, Lines
<1>10. ASSUME NEW w \in Watchers, Fails(w) PROVE Marked(v, q)'
  <2>1. Forgets(w) /\ UNCHANGED <<pane, mark>>
    BY <1>10 DEF Fails
  <2>2. known'[v][q] \in {known[v][q], Unknown}
    BY <2>1, Forgetting
  <2>. QED  BY <1>0, <2>1, <2>2 DEF Lines
<1>11. ASSUME NEW w \in Watchers, Snapshot(w) PROVE Marked(v, q)'
  <2>1. pane' = pane
    BY <1>11, Looked
  <2>2. CASE v = w
    <3>1. known'[v][q] = Seen(w, q) /\ mark'[v][q] = Len(Lines(q)) /\ Len(Lines(q)) \in Nat /\ IsLooking(w)
      BY <1>11, <2>2, Looked, ScreenParts
    <3>2. Seen(w, q) # Unknown => Seen(w, q).screen = SubSeq(Lines(q), From(Len(Lines(q))), Len(Lines(q)))
      BY <3>1, SeenParts, ScreenParts
    <3>3. Lines(q)' = Lines(q)
      BY <2>1 DEF Lines
    <3>. QED  BY <3>1, <3>2, <3>3 DEF Marked, From
  <2>3. CASE v # w
    <3>1. known'[v] = known[v] /\ mark'[v] = mark[v]
      BY <1>11, <2>3, Looked
    <3>. QED  BY <1>0, <2>1, <3>1 DEF Lines
  <2>. QED  BY <2>2, <2>3
<1>12. CASE Follow
  BY <1>0, <1>12 DEF Follow, Lines
<1>13. CASE Leave
  <2>1. Forgets("wrapper") /\ "wrapper" \in Watchers /\ UNCHANGED <<pane, mark>>
    BY <1>13 DEF Leave, Watchers
  <2>2. known'[v][q] \in {known[v][q], Unknown}
    BY <2>1, Forgetting
  <2>. QED  BY <1>0, <2>1, <2>2 DEF Lines
<1>14. CASE UNCHANGED panesVars
  BY <1>0, <1>14 DEF panesVars, Lines
<1>. QED  BY <1>1, <1>2, <1>3, <1>4, <1>5, <1>6, <1>7, <1>8, <1>9, <1>10, <1>11, <1>12, <1>13, <1>14 DEF PanesNext

-----------------------------------------------------------------------------
(* Time: a pane is not told as stale twice within StaleAfter.                 *)

LEMMA TimedKept ==
  ASSUME PanesShape, NEW v \in Watchers, NEW q \in Panes, Timed(v, q),
         clock' \in Nat, clock <= clock', said'[v][q] = said[v][q], known'[v][q] \in {known[v][q], Unknown},
         IsLooking(v)' => look'[v].now = clock \/ (IsLooking(v) /\ look'[v].now = look[v].now)
  PROVE  Timed(v, q)'
<1>. DEFINE s == said[v][q]
            n == look[v].now
            n2 == look'[v].now
<1>1. clock \in Nat /\ s \in Int /\ (IsLooking(v) => n \in Nat) /\ s <= clock
  BY NowTyped DEF PanesShape, Moments, Never, Timed
<1>2. IsLooking(v)' => n2 \in Nat /\ n2 <= clock' /\ s <= n2
  <2>1. IsLooking(v) => s <= n /\ n <= clock
    BY DEF Timed
  <2>. HIDE DEF n, n2, s
  <2>. QED  BY <1>1, <2>1 DEF n, n2
<1>3. known'[v][q] # Unknown => s <= known'[v][q].change \/ s <= known'[v][q].stale
  BY DEF Timed
<1>4. s <= clock'
  BY <1>1
<1>5. said'[v][q] = s
  OBVIOUS
<1>. HIDE DEF s
<1>. QED  BY <1>2, <1>3, <1>4, <1>5 DEF Timed

\* Who has gone on is not looking, unless it has just begun.
LEMMA NotLooking ==
  ASSUME NEW w \in Watchers, look'[w] \in {Away, Resting}
  PROVE  ~IsLooking(w)'
BY DEF IsLooking, Away, Resting

\* A report that is due is not a hurried one.
LEMMA InTime ==
  ASSUME PanesConstants, PanesShape, NEW w \in Watchers, NEW p \in Panes, Timed(w, p), IsLooking(w), Stale(w, p),
         said[w][p] # Never
  PROVE  ~(Now(w) - said[w][p] < StaleAfter)
<1>. DEFINE k == known[w][p]
            s == said[w][p]
            n == Now(w)
<1>1. k \in Pictures /\ s \in Moments /\ n \in Nat /\ StaleAfter \in Nat
  BY NowTyped, PanesNumbers DEF PanesShape
<1>2. k # Unknown /\ n - k.change >= StaleAfter /\ (k.stale # Never => n - k.stale >= StaleAfter)
  BY DEF Stale, IsStale
<1>3. s <= k.change \/ s <= k.stale
  BY <1>2 DEF Timed
<1>4. k.change \in Int /\ k.stale \in Int /\ s \in Int /\ (k.stale = Never => k.stale = -1) /\ s >= 0
  BY <1>1 DEF Pictures, Moments, Never
<1>. HIDE DEF k, s, n
<1>5. ASSUME s <= k.change PROVE ~(n - s < StaleAfter)
  BY <1>1, <1>2, <1>4, <1>5
<1>6. ASSUME s <= k.stale PROVE ~(n - s < StaleAfter)
  BY <1>1, <1>2, <1>4, <1>6
<1>. QED  BY <1>3, <1>5, <1>6 DEF s, n

LEMMA TimedStep ==
  ASSUME PanesConstants, PanesShape, [PanesNext]_panesVars, NEW v \in Watchers, NEW q \in Panes,
         Timed(v, q)
  PROVE  Timed(v, q)'
<1>. USE DEF World, Watching
<1>. DEFINE Kept1 == /\ clock' \in Nat /\ clock <= clock' /\ said'[v][q] = said[v][q]
                     /\ known'[v][q] \in {known[v][q], Unknown}
            Going1 == IsLooking(v)' => look'[v].now = clock \/ (IsLooking(v) /\ look'[v].now = look[v].now)
            Goal == Timed(v, q)'
<1>0. clock \in Nat /\ (Kept1 /\ Going1 => Goal)
  BY TimedKept DEF PanesShape
<1>01. look' = look => Going1
  BY DEF IsLooking
<1>02. ASSUME NEW w \in Watchers, look'[w] \in {Away, Resting}, v # w => look'[v] = look[v] PROVE Going1
  <2>1. CASE v = w
    BY <1>02, <2>1, NotLooking
  <2>2. CASE v # w
    BY <1>02, <2>2 DEF IsLooking
  <2>. QED  BY <2>1, <2>2
<1>03. ASSUME NEW w \in Watchers, Forgets(w) PROVE known'[v][q] \in {known[v][q], Unknown}
  BY <1>03, Forgetting
<1>. HIDE DEF Going1
<1>1. CASE Tick
  BY <1>0, <1>01, <1>1 DEF Tick
<1>2. ASSUME NEW p \in Panes, NEW t \in Texts, Printed(p, t) PROVE Goal
  BY <1>0, <1>01, <1>2 DEF Printed
<1>3. ASSUME NEW p \in Panes, PaneEnds(p) PROVE Goal
  BY <1>0, <1>01, <1>3 DEF PaneEnds
<1>4. CASE SessionCloses
  BY <1>0, <1>01, <1>4 DEF SessionCloses
<1>5. CASE SessionOpens
  BY <1>0, <1>01, <1>5 DEF SessionOpens
<1>6. ASSUME NEW w \in Watchers, Begin(w) PROVE Goal
  <2>. DEFINE place == [at |-> "probe", watch |-> (w = "wrapper" \/ ~wrapped), now |-> clock]
  <2>1. place \in Aways /\ place.now = clock
    <3>1. (w = "wrapper" \/ ~wrapped) \in BOOLEAN /\ clock \in Nat
      BY DEF PanesShape
    <3>. QED  BY <3>1 DEF Aways
  <2>2. Goes(w, place)
    BY <1>6 DEF Begin
  <2>. HIDE DEF place
  <2>3. look'[w].now = clock /\ (v # w => look'[v] = look[v])
    BY <2>1, <2>2, Going
  <2>4. Going1
    BY <2>3 DEF Going1, IsLooking
  <2>. QED  BY <1>0, <1>6, <2>4 DEF Begin
<1>7. ASSUME NEW w \in Watchers, Absent(w) PROVE Goal
  <2>1. look'[w] \in {Away, Resting} /\ (v # w => look'[v] = look[v])
    BY <1>7, Going DEF Absent, Aways
  <2>. QED  BY <1>0, <1>02, <1>03, <1>7, <2>1 DEF Absent
<1>8. ASSUME NEW w \in Watchers, NotMine(w) PROVE Goal
  <2>1. look'[w] \in {Away, Resting} /\ (v # w => look'[v] = look[v])
    BY <1>8, Going DEF NotMine, Aways
  <2>. QED  BY <1>0, <1>02, <1>03, <1>8, <2>1 DEF NotMine
<1>9. ASSUME NEW w \in Watchers, Flush(w) PROVE Goal
  <2>1. look[w] \in [at : {"probe", "panes"}, watch : BOOLEAN, now : Nat]
    BY <1>9, LookTyped, WatcherPlaces DEF Flush, Aways
  <2>. DEFINE place == [look[w] EXCEPT !.at = "panes"]
  <2>2. place \in Aways /\ place.now = look[w].now
    BY <2>1 DEF Aways
  <2>3. IsLooking(w) /\ Goes(w, place)
    BY <1>9 DEF Flush, IsLooking
  <2>. HIDE DEF place
  <2>4. look'[w].now = look[w].now /\ (v # w => look'[v] = look[v])
    BY <2>2, <2>3, Going
  <2>5. Going1
    BY <2>3, <2>4 DEF Going1, IsLooking
  <2>. QED  BY <1>0, <1>9, <2>5 DEF Flush
<1>10. ASSUME NEW w \in Watchers, Fails(w) PROVE Goal
  <2>1. look'[w] \in {Away, Resting} /\ (v # w => look'[v] = look[v])
    BY <1>10, Going DEF Fails, Aways
  <2>. QED  BY <1>0, <1>02, <1>03, <1>10, <2>1 DEF Fails
<1>11. ASSUME NEW w \in Watchers, Snapshot(w) PROVE Goal
  <2>1. look'[w] = Resting /\ clock' = clock /\ IsLooking(w) /\ Now(w) \in Nat
    BY <1>11, Looked, NowTyped
  <2>2. CASE v = w
    <3>1. ~IsLooking(v)'
      BY <2>1, <2>2, NotLooking
    <3>2. Now(v) <= clock /\ said[v][q] <= Now(v)
      BY <1>0, <2>1, <2>2 DEF Now, Timed
    <3>3. /\ known'[v][q] = Seen(v, q)
          /\ said'[v][q] = IF q \in StaleIn(v) THEN Now(v) ELSE said[v][q]
      BY <1>11, <2>2, Looked
    <3>4. Stale(v, q) /\ Open(q) <=> q \in StaleIn(v)
      BY DEF StaleIn
    <3>5. said'[v][q] <= clock'
      BY <2>1, <3>2, <3>3 DEF Timed
    <3>6. known'[v][q] # Unknown => said'[v][q] <= known'[v][q].change \/ said'[v][q] <= known'[v][q].stale
      <4>. DEFINE x == Seen(v, q)
                  s == said[v][q]
                  n == Now(v)
      <4>1. x # Unknown =>
              /\ Open(q)
              /\ \/ Stale(v, q) /\ x.stale = n
                 \/ ~Stale(v, q) /\ x.change = n
                 \/ ~Stale(v, q) /\ known[v][q] # Unknown /\ x = known[v][q]
        BY <2>1, <2>2, SeenParts
      <4>2. n \in Nat /\ s <= n /\ (known[v][q] # Unknown => s <= known[v][q].change \/ s <= known[v][q].stale)
        BY <2>1, <2>2, <3>2 DEF Timed
      <4>3. known'[v][q] = x /\ said'[v][q] = IF Stale(v, q) /\ Open(q) THEN n ELSE s
        BY <3>3, <3>4
      <4>. HIDE DEF x, s, n
      <4>. QED  BY <4>1, <4>2, <4>3
    <3>. QED  BY <3>1, <3>5, <3>6 DEF Timed
  <2>3. CASE v # w
    <3>1. look'[v] = look[v] /\ known'[v] = known[v] /\ said'[v] = said[v]
      BY <1>11, <2>3, Looked
    <3>2. Going1
      BY <3>1 DEF Going1, IsLooking
    <3>. QED  BY <1>0, <2>1, <3>1, <3>2
  <2>. QED  BY <2>2, <2>3
<1>12. CASE Follow
  <2>1. look'["wrapper"] \in {Away, Resting} /\ (v # "wrapper" => look'[v] = look[v]) /\ "wrapper" \in Watchers
    BY <1>12, Going DEF Follow, Aways, Watchers
  <2>. QED  BY <1>0, <1>02, <1>12, <2>1 DEF Follow
<1>13. CASE Leave
  <2>0. "wrapper" \in Watchers
    BY DEF Watchers
  <2>1. look'["wrapper"] \in {Away, Resting} /\ (v # "wrapper" => look'[v] = look[v])
    BY <1>13, <2>0, Going DEF Leave, Aways
  <2>. QED  BY <1>0, <1>02, <1>03, <1>13, <2>0, <2>1 DEF Leave
<1>14. CASE UNCHANGED panesVars
  BY <1>0, <1>01, <1>14 DEF panesVars
<1>. QED  BY <1>1, <1>2, <1>3, <1>4, <1>5, <1>6, <1>7, <1>8, <1>9, <1>10, <1>11, <1>12, <1>13, <1>14 DEF PanesNext

LEMMA NotHurried ==
  ASSUME PanesConstants, PanesShape, [PanesNext]_panesVars, ~hurried,
         \A w \in Watchers, p \in Panes : Timed(w, p)
  PROVE  ~hurried'
<1>. USE DEF World, Watching
<1>1. ASSUME NEW w \in Watchers, Snapshot(w) PROVE ~hurried'
  <2>1. hurried' = (hurried \/ \E p \in StaleIn(w) : said[w][p] # Never /\ Now(w) - said[w][p] < StaleAfter)
    BY <1>1, Looked
  <2>2. ASSUME NEW p \in StaleIn(w), said[w][p] # Never PROVE ~(Now(w) - said[w][p] < StaleAfter)
    <3>1. p \in Panes /\ Stale(w, p) /\ IsLooking(w)
      BY <1>1, Looked DEF StaleIn
    <3>. QED  BY <2>2, <3>1, InTime
  <2>. QED  BY <2>1, <2>2
<1>2. ASSUME ~\E w \in Watchers : Snapshot(w) PROVE hurried' = hurried
  BY <1>2 DEF PanesNext, panesVars, Tick, Printed, PaneEnds, SessionCloses, SessionOpens, Begin, Absent, NotMine,
              Flush, Fails, Follow, Leave
<1>. QED  BY <1>1, <1>2

-----------------------------------------------------------------------------
(* What came into sight waits to be told.                                    *)

LEMMA CameInHits ==
  ASSUME PanesConstants, PanesShape, NEW w \in Watchers, \A p \in Panes : Marked(w, p)
  PROVE  CameIn(w) \subseteq HitsIn(w)
<1>1. SUFFICES ASSUME NEW t \in CameIn(w) PROVE t \in HitsIn(w)
  OBVIOUS
<1>2. PICK p \in Kept(w) : t \in Came(w, p)
  BY DEF CameIn
<1>3. p \in Panes /\ known[w][p] # Unknown
  BY DEF Kept
<1>4. t \in Hits(known[w][p].screen, Screen(p)) /\ known[w][p].screen # Screen(p)
  BY <1>2, <1>3, CameIsHit
<1>5. Changed(w, p)
  BY <1>3, <1>4 DEF Changed
<1>. QED  BY <1>2, <1>4, <1>5 DEF HitsIn

LEMMA OverlookedStep ==
  ASSUME PanesConstants, PanesShape, [PanesNext]_panesVars, NothingOverlooked,
         \A w \in Watchers, p \in Panes : Marked(w, p)
  PROVE  NothingOverlooked'
<1>. USE DEF World, Watching
<1>0. ASSUME NEW w \in Watchers, Drops(w) PROVE NothingOverlooked'
  BY <1>0, Dropping DEF NothingOverlooked
<1>1. UNCHANGED <<pending, owed>> => NothingOverlooked'
  BY DEF NothingOverlooked
<1>2. ASSUME NEW w \in Watchers, Absent(w) \/ NotMine(w) PROVE NothingOverlooked'
  BY <1>0, <1>2 DEF Absent, NotMine
<1>3. ASSUME NEW w \in Watchers, Flush(w) \/ Fails(w) PROVE NothingOverlooked'
  BY <1>0, <1>1, <1>3 DEF Flush, Fails
<1>4. ASSUME NEW w \in Watchers, Snapshot(w) PROVE NothingOverlooked'
  <2>1. /\ pending'[w].hits = (IF Dead = {} THEN pending[w].hits ELSE {}) \cup HitsIn(w)
        /\ owed'[w] = (IF Dead = {} THEN owed[w] ELSE {}) \cup CameIn(w)
        /\ \A v \in Watchers : v # w => pending'[v] = pending[v] /\ owed'[v] = owed[v]
    BY <1>4, Looked
  <2>2. CameIn(w) \subseteq HitsIn(w) /\ owed[w] \subseteq pending[w].hits
    BY CameInHits DEF NothingOverlooked
  <2>3. owed'[w] \subseteq pending'[w].hits
    BY <2>1, <2>2
  <2>4. ASSUME NEW v \in Watchers, v # w PROVE owed'[v] \subseteq pending'[v].hits
    BY <2>1, <2>4 DEF NothingOverlooked
  <2>. QED  BY <2>3, <2>4 DEF NothingOverlooked
<1>5. CASE Leave
  BY <1>0, <1>5 DEF Leave, Watchers
<1>6. CASE Follow
  BY <1>1, <1>6 DEF Follow
<1>7. ASSUME NEW w \in Watchers, Begin(w) PROVE NothingOverlooked'
  BY <1>1, <1>7 DEF Begin
<1>8. ASSUME NEW p \in Panes, PaneEnds(p) \/ (\E t \in Texts : Printed(p, t)) PROVE NothingOverlooked'
  BY <1>1, <1>8 DEF PaneEnds, Printed
<1>9. CASE Tick \/ SessionCloses \/ SessionOpens \/ UNCHANGED panesVars
  BY <1>1, <1>9 DEF Tick, SessionCloses, SessionOpens, panesVars
<1>. QED  BY <1>2, <1>3, <1>4, <1>5, <1>6, <1>7, <1>8, <1>9 DEF PanesNext

-----------------------------------------------------------------------------
(* Who watches: the wrapper runs only while it is registered, and knows        *)
(* nothing of the panes while it does not run.                                 *)

LEMMA UnwrappedStep ==
  ASSUME PanesConstants, PanesShape, [PanesNext]_panesVars, Unwrapped
  PROVE  Unwrapped'
<1>. USE DEF World, Watching
<1>. DEFINE Empty == pending["wrapper"] = NoHits /\ \A p \in Panes : known["wrapper"][p] = Unknown
<1>0. /\ look["wrapper"] = Away => Empty
      /\ ~wrapped /\ ~both => look["wrapper"] = Away
      /\ "wrapper" \in Watchers /\ "daemon" \in Watchers
  BY DEF Unwrapped, Watchers
<1>01. UNCHANGED <<look, pending, known, wrapped, both>> => Unwrapped'
  BY DEF Unwrapped
<1>02. ASSUME look["wrapper"] # Away, look'["wrapper"] # Away, UNCHANGED <<wrapped, both>> PROVE Unwrapped'
  BY <1>0, <1>02 DEF Unwrapped
<1>03. ASSUME look'["wrapper"] = Away, Drops("wrapper"), Forgets("wrapper") PROVE Unwrapped'
  <2>1. Empty'
    BY <1>0, <1>03, Dropping, Forgetting
  <2>. QED  BY <1>03, <2>1 DEF Unwrapped
<1>04. ASSUME look'["wrapper"] = look["wrapper"], pending'["wrapper"] = pending["wrapper"],
              known'["wrapper"] = known["wrapper"], UNCHANGED <<wrapped, both>>
       PROVE  Unwrapped'
  BY <1>0, <1>04 DEF Unwrapped
<1>05. Resting # Away
  BY DEF Resting, Away
<1>06. look["wrapper"].at # "away" => look["wrapper"] # Away
  BY DEF Away
<1>. HIDE DEF Empty
<1>1. ASSUME NEW p \in Panes, PaneEnds(p) \/ (\E t \in Texts : Printed(p, t)) PROVE Unwrapped'
  BY <1>01, <1>1 DEF PaneEnds, Printed
<1>2. CASE Tick \/ SessionCloses \/ SessionOpens \/ UNCHANGED panesVars
  BY <1>01, <1>2 DEF Tick, SessionCloses, SessionOpens, panesVars
<1>3. ASSUME NEW w \in Watchers, Begin(w) PROVE Unwrapped'
  <2>. DEFINE place == [at |-> "probe", watch |-> (w = "wrapper" \/ ~wrapped), now |-> clock]
  <2>1. place.at = "probe" /\ place # Away
    BY DEF Away
  <2>2. look' = [look EXCEPT ![w] = place] /\ look[w] = Resting /\ UNCHANGED <<pending, known, wrapped, both>>
    BY <1>3 DEF Begin, Goes
  <2>. HIDE DEF place
  <2>3. CASE w = "wrapper"
    BY <1>0, <1>02, <1>05, <2>1, <2>2, <2>3 DEF PanesShape
  <2>4. CASE w # "wrapper"
    BY <1>0, <1>04, <2>2, <2>4 DEF PanesShape
  <2>. QED  BY <2>3, <2>4
<1>4. ASSUME NEW w \in Watchers, Absent(w) PROVE Unwrapped'
  <2>1. Drops(w) /\ Forgets(w) /\ look' = [look EXCEPT ![w] = IF w = "daemon" THEN Resting ELSE Away]
    BY <1>4 DEF Absent, Goes
  <2>2. CASE w = "wrapper"
    <3>1. look'["wrapper"] = Away
      BY <1>0, <2>1, <2>2 DEF PanesShape
    <3>. QED  BY <1>03, <2>1, <2>2, <3>1
  <2>3. CASE w = "daemon"
    <3>1. /\ look'["wrapper"] = look["wrapper"] /\ pending'["wrapper"] = pending["wrapper"]
          /\ known'["wrapper"] = known["wrapper"]
      BY <1>0, <2>1, <2>3, Dropping, Forgetting DEF PanesShape
    <3>2. ~wrapped' /\ ~both' => look["wrapper"] = Away
      <4>1. ~both' => ~both /\ (wrapped /\ ~wrapped' => look["wrapper"] = Away)
        BY <1>4 DEF Absent
      <4>. QED  BY <1>0, <4>1
    <3>. QED  BY <1>0, <3>1, <3>2 DEF Unwrapped, Empty
  <2>. QED  BY <2>2, <2>3, WatcherNames
<1>5. ASSUME NEW w \in Watchers, NotMine(w) \/ Snapshot(w) PROVE Unwrapped'
  <2>1. /\ look' = [look EXCEPT ![w] = Resting] /\ look[w].at # "away"
        /\ UNCHANGED <<wrapped, both>>
    BY <1>5 DEF NotMine, Snapshot, Goes
  <2>2. CASE w = "wrapper"
    BY <1>0, <1>02, <1>05, <1>06, <2>1, <2>2 DEF PanesShape
  <2>3. CASE w # "wrapper"
    <3>1. pending'["wrapper"] = pending["wrapper"] /\ known'["wrapper"] = known["wrapper"]
      BY <1>0, <1>5, <2>3, Looked, Dropping, Forgetting DEF NotMine
    <3>2. look'["wrapper"] = look["wrapper"]
      BY <1>0, <2>1, <2>3 DEF PanesShape
    <3>. QED  BY <1>04, <2>1, <3>1, <3>2
  <2>. QED  BY <2>2, <2>3
<1>6. ASSUME NEW w \in Watchers, Flush(w) PROVE Unwrapped'
  <2>. DEFINE place == [look[w] EXCEPT !.at = "panes"]
  <2>1. look' = [look EXCEPT ![w] = place] /\ look[w].at = "probe" /\ UNCHANGED <<known, wrapped, both>>
    BY <1>6 DEF Flush, Goes
  <2>2. place.at = "panes"
    <3>1. look[w] \in [at : {"probe", "panes"}, watch : BOOLEAN, now : Nat]
      BY <2>1, LookTyped, WatcherPlaces DEF Aways
    <3>. QED  BY <3>1
  <2>. HIDE DEF place
  <2>3. place # Away
    BY <2>2 DEF Away
  <2>4. CASE w = "wrapper"
    BY <1>0, <1>02, <1>06, <2>1, <2>3, <2>4 DEF PanesShape
  <2>5. CASE w # "wrapper"
    <3>1. pending'["wrapper"] = pending["wrapper"]
      BY <1>0, <1>6, <2>5, Dropping DEF Flush
    <3>2. look'["wrapper"] = look["wrapper"]
      BY <1>0, <2>1, <2>5 DEF PanesShape
    <3>. QED  BY <1>04, <2>1, <3>1, <3>2
  <2>. QED  BY <2>4, <2>5
<1>7. ASSUME NEW w \in Watchers, Fails(w) PROVE Unwrapped'
  <2>1. Forgets(w) /\ UNCHANGED <<wrapped, both>>
    BY <1>7 DEF Fails
  <2>2. CASE w = "wrapper"
    <3>1. look'["wrapper"] = Away /\ Drops("wrapper")
      BY <1>0, <1>7, <2>2 DEF Fails, Goes, PanesShape
    <3>. QED  BY <1>03, <2>1, <2>2, <3>1
  <2>3. CASE w = "daemon"
    <3>1. look' = [look EXCEPT !["daemon"] = Resting] /\ UNCHANGED pending
      BY <1>7, <2>3 DEF Fails, Goes
    <3>2. look'["wrapper"] = look["wrapper"] /\ known'["wrapper"] = known["wrapper"]
      BY <1>0, <2>1, <2>3, <3>1, Forgetting DEF PanesShape
    <3>. QED  BY <1>04, <2>1, <3>1, <3>2
  <2>. QED  BY <2>2, <2>3, WatcherNames
<1>8. CASE Follow
  <2>1. wrapped' = TRUE /\ look'["wrapper"] = Resting
    BY <1>0, <1>8 DEF Follow, Goes, PanesShape
  <2>. QED  BY <1>05, <2>1 DEF Unwrapped
<1>9. CASE Leave
  <2>1. look'["wrapper"] = Away /\ Drops("wrapper") /\ Forgets("wrapper")
    BY <1>0, <1>9 DEF Leave, Goes, PanesShape
  <2>. QED  BY <1>03, <2>1
<1>. QED  BY <1>1, <1>2, <1>3, <1>4, <1>5, <1>6, <1>7, <1>8, <1>9 DEF PanesNext

-----------------------------------------------------------------------------
(* A line is told once: what a watcher may still tell is paid for by what was  *)
(* printed.                                                                    *)

\* What a watcher may still tell, in numbers.
LEMMA ShareParts ==
  ASSUME NEW w \in Watchers, NEW t \in Texts
  PROVE  /\ Waiting(w, t) \in 0..1 /\ Share(w, t) \in 0..2
         /\ Waiting(w, t) = IF t \in pending[w].hits THEN 1 ELSE 0
         /\ Share(w, t) = Waiting(w, t) + (IF Unseen(w, t) THEN 1 ELSE 0)
BY DEF Waiting, Share, One

LEMMA ShareParts2 ==
  ASSUME NEW w \in Watchers, NEW t \in Texts
  PROVE  /\ Waiting(w, t)' \in 0..1 /\ Share(w, t)' \in 0..2
         /\ Waiting(w, t)' = IF t \in pending'[w].hits THEN 1 ELSE 0
         /\ Share(w, t)' = Waiting(w, t)' + (IF Unseen(w, t)' THEN 1 ELSE 0)
BY DEF Waiting, Share, One

LEMMA SharesParts ==
  ASSUME NEW t \in Texts
  PROVE  /\ Shares(t) \in Nat
         /\ wrapped => Shares(t) = Share("wrapper", t) + (IF Early THEN Waiting("daemon", t) ELSE 0)
         /\ ~wrapped => Shares(t) = Share("daemon", t)
         /\ wrapped' => Shares(t)' = Share("wrapper", t)' + (IF Early' THEN Waiting("daemon", t)' ELSE 0)
         /\ ~wrapped' => Shares(t)' = Share("daemon", t)'
<1>1. "wrapper" \in Watchers /\ "daemon" \in Watchers
  BY DEF Watchers
<1>2. /\ Share("wrapper", t) \in 0..2 /\ Share("daemon", t) \in 0..2
      /\ Waiting("wrapper", t) \in 0..1 /\ Waiting("daemon", t) \in 0..1
  BY <1>1, ShareParts
<1>. QED  BY <1>2 DEF Shares

\* A watcher whose window and whose memory only lose.
LEMMA LessShare ==
  ASSUME NEW w \in Watchers, NEW t \in Texts, pending'[w].hits \subseteq pending[w].hits,
         \A p \in Panes : known'[w][p] \in {known[w][p], Unknown},
         \A p \in Panes : Lines(p)' = Lines(p) /\ mark'[w][p] = mark[w][p]
  PROVE  Waiting(w, t)' <= Waiting(w, t) /\ Share(w, t)' <= Share(w, t)
<1>1. Unseen(w, t)' => Unseen(w, t)
  BY DEF Unseen, After
<1>. QED  BY <1>1, ShareParts, ShareParts2

LEMMA SameShare ==
  ASSUME NEW w \in Watchers, NEW t \in Texts, UNCHANGED pane,
         pending'[w] = pending[w], known'[w] = known[w], mark'[w] = mark[w]
  PROVE  Waiting(w, t)' = Waiting(w, t) /\ Share(w, t)' = Share(w, t)
<1>1. Unseen(w, t)' <=> Unseen(w, t)
  BY DEF Unseen, After, Lines
<1>. QED  BY <1>1, ShareParts, ShareParts2

LEMMA LessShares ==
  ASSUME NEW t \in Texts, wrapped \in BOOLEAN, wrapped' = wrapped,
         \A w \in Watchers : Share(w, t)' <= Share(w, t),
         Early' => Early /\ Waiting("daemon", t)' <= Waiting("daemon", t)
  PROVE  Shares(t)' <= Shares(t)
<1>1. "wrapper" \in Watchers /\ "daemon" \in Watchers
  BY DEF Watchers
<1>2. /\ Share("wrapper", t) \in 0..2 /\ Share("daemon", t) \in 0..2 /\ Waiting("daemon", t) \in 0..1
      /\ Share("wrapper", t)' \in 0..2 /\ Share("daemon", t)' \in 0..2 /\ Waiting("daemon", t)' \in 0..1
      /\ Share("wrapper", t)' <= Share("wrapper", t) /\ Share("daemon", t)' <= Share("daemon", t)
  BY <1>1, ShareParts, ShareParts2
<1>3. CASE wrapped
  BY <1>2, <1>3, SharesParts
<1>4. CASE ~wrapped
  BY <1>2, <1>4, SharesParts
<1>. QED  BY <1>3, <1>4

\* Who forgets the panes and drops its window has no share left.
LEMMA NoShare ==
  ASSUME PanesShape, NEW w \in Watchers, NEW t \in Texts, Drops(w), Forgets(w)
  PROVE  Waiting(w, t)' = 0 /\ Share(w, t)' = 0
<1>1. pending'[w].hits = {} /\ \A p \in Panes : known'[w][p] = Unknown
  BY Dropping, Forgetting
<1>2. ~Unseen(w, t)'
  BY <1>1 DEF Unseen
<1>. QED  BY <1>1, <1>2, ShareParts2

\* The panes are seen: what was not is in the window at most.
LEMMA SeenShare ==
  ASSUME PanesConstants, PanesShape, NEW w \in Watchers, NEW t \in Texts, Snapshot(w),
         \A p \in Panes : Marked(w, p)
  PROVE  Share(w, t)' <= Share(w, t)
<1>1. /\ pending'[w].hits = (IF Dead = {} THEN pending[w].hits ELSE {}) \cup HitsIn(w)
      /\ (\A p \in Panes : mark'[w][p] = Len(Lines(p))) /\ UNCHANGED pane
  BY Looked
<1>2. ~Unseen(w, t)'
  <2>1. ASSUME NEW p \in Panes PROVE ~After(p, mark[w][p], t)'
    <3>1. mark'[w][p] = Len(Lines(p)) /\ Lines(p)' = Lines(p) /\ Len(Lines(p)) \in Nat
      BY <1>1, ScreenParts DEF Lines
    <3>2. ~ \E i \in 1..Len(Lines(p)) : i > Len(Lines(p)) /\ Lines(p)[i] = t
      BY <3>1
    <3>. QED  BY <3>1, <3>2 DEF After
  <2>. QED  BY <2>1 DEF Unseen
<1>3. ASSUME t \in HitsIn(w) PROVE Unseen(w, t)
  <2>1. PICK p \in Kept(w) : t \in Hits(known[w][p].screen, Screen(p))
    BY <1>3 DEF HitsIn
  <2>2. p \in Panes /\ known[w][p] # Unknown
    BY DEF Kept
  <2>3. After(p, mark[w][p], t)
    BY <2>1, <2>2, HitsAreNew
  <2>. QED  BY <2>2, <2>3 DEF Unseen
<1>4. t \in pending'[w].hits => t \in pending[w].hits \/ Unseen(w, t)
  BY <1>1, <1>3
<1>. QED  BY <1>2, <1>4, ShareParts, ShareParts2

\* A line is printed: nothing changes for another text, nor for one who does not know the pane.
LEMMA PrintedShare ==
  ASSUME PanesConstants, PanesShape, NEW p \in Panes, NEW u \in Texts, Printed(p, u),
         NEW w \in Watchers, NEW t \in Texts
  PROVE  /\ Waiting(w, t)' = Waiting(w, t)
         /\ Share(w, t)' <= Share(w, t) + 1
         /\ t # u \/ known[w][p] = Unknown => Share(w, t)' <= Share(w, t)
<1>1. UNCHANGED <<known, mark, pending>>
  BY DEF Printed, Watching
<1>2. Lines(p)' = Append(Lines(p), u) /\ \A q \in Panes : q # p => Lines(q)' = Lines(q)
  BY Printing DEF Printed, Lines
<1>3. ASSUME NEW q \in Panes, After(q, mark[w][q], t)', t # u \/ q # p PROVE After(q, mark[w][q], t)
  <2>1. CASE q # p
    BY <1>1, <1>2, <1>3, <2>1 DEF After
  <2>2. CASE q = p
    <3>. DEFINE s == Lines(p)
    <3>1. s \in Seq(Texts) /\ Len(s) \in Nat
      BY ScreenParts
    <3>2. Lines(p)' = Append(s, u) /\ t # u
      BY <1>2, <1>3, <2>2
    <3>. HIDE DEF s
    <3>3. PICK i \in 1..Len(Append(s, u)) : i > mark[w][p] /\ Append(s, u)[i] = t
      BY <1>1, <1>3, <2>2, <3>2 DEF After
    <3>4. /\ Len(Append(s, u)) = Len(s) + 1 /\ Append(s, u)[Len(s) + 1] = u
          /\ \A j \in 1..Len(s) : Append(s, u)[j] = s[j]
      BY <3>1, AppendProperties
    <3>5. i # Len(s) + 1
      BY <3>2, <3>3, <3>4
    <3>6. i \in 1..Len(s)
      BY <3>1, <3>3, <3>4, <3>5
    <3>7. s[i] = t
      BY <3>3, <3>4, <3>6
    <3>. QED  BY <2>2, <3>3, <3>6, <3>7 DEF After, s
  <2>. QED  BY <2>1, <2>2
<1>4. ASSUME t # u \/ known[w][p] = Unknown, Unseen(w, t)' PROVE Unseen(w, t)
  <2>1. PICK q \in Panes : known'[w][q] # Unknown /\ After(q, mark[w][q], t)'
    BY <1>4 DEF Unseen
  <2>2. known[w][q] # Unknown /\ (t # u \/ q # p)
    BY <1>1, <1>4, <2>1
  <2>3. After(q, mark[w][q], t)
    BY <1>3, <2>1, <2>2
  <2>. QED  BY <2>2, <2>3 DEF Unseen
<1>5. Waiting(w, t)' = Waiting(w, t)
  BY <1>1, ShareParts, ShareParts2
<1>6. Share(w, t)' <= Share(w, t) + 1
  BY <1>5, ShareParts, ShareParts2
<1>7. ASSUME t # u \/ known[w][p] = Unknown PROVE Share(w, t)' <= Share(w, t)
  BY <1>4, <1>5, <1>7, ShareParts, ShareParts2
<1>. QED  BY <1>5, <1>6, <1>7

LEMMA PrintedPaid ==
  ASSUME PanesConstants, PanesShape, NEW p \in Panes, NEW u \in Texts, Printed(p, u), NEW t \in Texts,
         told[t] + Shares(t) <= printed[t]
  PROVE  told'[t] + Shares(t)' <= printed'[t]
<1>1. UNCHANGED <<wrapped, look, told>> /\ wrapped \in BOOLEAN
  BY DEF Printed, Watching, PanesShape
<1>2. "wrapper" \in Watchers /\ "daemon" \in Watchers
  BY DEF Watchers
<1>3. Early' <=> Early
  BY <1>1 DEF Early
<1>4. told[t] \in Nat /\ printed[t] \in Nat /\ told'[t] = told[t] /\ Shares(t) \in Nat
  BY <1>1, SharesParts DEF PanesShape
<1>5. printed' = IF \E w \in Watchers : known[w][p] # Unknown THEN [printed EXCEPT ![u] = @ + 1] ELSE printed
  BY DEF Printed
<1>6. /\ Share("wrapper", t) \in 0..2 /\ Share("daemon", t) \in 0..2 /\ Waiting("daemon", t) \in 0..1
      /\ Share("wrapper", t)' \in 0..2 /\ Share("daemon", t)' \in 0..2
      /\ Waiting("daemon", t)' = Waiting("daemon", t)
      /\ Share("wrapper", t)' <= Share("wrapper", t) + 1 /\ Share("daemon", t)' <= Share("daemon", t) + 1
  BY <1>2, ShareParts, ShareParts2, PrintedShare
<1>7. CASE t = u /\ \E w \in Watchers : known[w][p] # Unknown
  <2>1. printed'[t] = printed[t] + 1
    BY <1>4, <1>5, <1>7 DEF PanesShape
  <2>2. Shares(t)' <= Shares(t) + 1 /\ Shares(t)' \in Nat
    <3>1. CASE wrapped
      BY <1>1, <1>3, <1>6, <3>1, SharesParts
    <3>2. CASE ~wrapped
      BY <1>1, <1>3, <1>6, <3>2, SharesParts
    <3>. QED  BY <3>1, <3>2
  <2>. QED  BY <1>4, <2>1, <2>2
<1>8. CASE ~(t = u /\ \E w \in Watchers : known[w][p] # Unknown)
  <2>1. printed'[t] = printed[t]
    BY <1>5, <1>8 DEF PanesShape
  <2>2. \A w \in Watchers : t # u \/ known[w][p] = Unknown
    BY <1>8
  <2>3. \A w \in Watchers : Share(w, t)' <= Share(w, t)
    BY <2>2, PrintedShare
  <2>4. Shares(t)' <= Shares(t) /\ Shares(t)' \in Nat
    <3>1. Share("wrapper", t)' <= Share("wrapper", t) /\ Share("daemon", t)' <= Share("daemon", t)
      BY <1>2, <2>3
    <3>2. CASE wrapped
      BY <1>1, <1>3, <1>6, <3>1, <3>2, SharesParts
    <3>3. CASE ~wrapped
      BY <1>1, <1>3, <1>6, <3>1, <3>3, SharesParts
    <3>. QED  BY <3>2, <3>3
  <2>. QED  BY <1>4, <2>1, <2>4
<1>. QED  BY <1>7, <1>8

\* A window is told: its share goes over to what was told.
LEMMA FlushPaid ==
  ASSUME PanesConstants, PanesShape, Unwrapped, ~both, NEW w \in Watchers, Flush(w), NEW t \in Texts,
         told[t] + Shares(t) <= printed[t]
  PROVE  told'[t] + Shares(t)' <= printed'[t]
<1>1. /\ look[w].at = "probe" /\ look[w].watch /\ Goes(w, [look[w] EXCEPT !.at = "panes"])
      /\ UNCHANGED <<pane, wrapped, known, mark, printed>>
  BY DEF Flush, World
<1>2. "wrapper" \in Watchers /\ "daemon" \in Watchers /\ wrapped \in BOOLEAN
  BY DEF Watchers, PanesShape
<1>3. w = "daemon" => Early /\ ~Early'
  <2>1. ASSUME w = "daemon" PROVE look'["daemon"].at = "panes"
    <3>1. look[w] \in [at : {"probe", "panes"}, watch : BOOLEAN, now : Nat]
      BY <1>1, LookTyped, WatcherPlaces DEF Aways
    <3>2. [look[w] EXCEPT !.at = "panes"].at = "panes"
      BY <3>1
    <3>3. look'[w] = [look[w] EXCEPT !.at = "panes"]
      BY <1>1 DEF Goes, PanesShape
    <3>. QED  BY <2>1, <3>2, <3>3
  <2>. QED  BY <1>1, <2>1 DEF Early
<1>4. w = "wrapper" => wrapped /\ (Early' <=> Early)
  <2>1. ASSUME w = "wrapper" PROVE wrapped
    BY <1>1, <2>1 DEF Unwrapped, Away
  <2>2. ASSUME w = "wrapper" PROVE look'["daemon"] = look["daemon"]
    BY <1>1, <1>2, <2>2 DEF Goes, PanesShape
  <2>. QED  BY <2>1, <2>2 DEF Early
<1>5. \A v \in Watchers : v # w => Waiting(v, t)' = Waiting(v, t) /\ Share(v, t)' = Share(v, t)
  <2>1. ASSUME NEW v \in Watchers, v # w PROVE pending'[v] = pending[v]
    BY <2>1, Dropping DEF Flush
  <2>. QED  BY <1>1, <2>1, SameShare
<1>6. \E n \in 0..1 : /\ told'[t] = told[t] + n
                      /\ Waiting(w, t)' <= Waiting(w, t) - n /\ Share(w, t)' <= Share(w, t) - n
  <2>0. Unseen(w, t)' <=> Unseen(w, t)
    BY <1>1 DEF Unseen, After, Lines
  <2>1. CASE ReadyToFlush(w)
    <3>1. told'[t] = told[t] + Waiting(w, t)
      BY <2>1, ShareParts DEF Flush
    <3>2. pending'[w].hits = {}
      BY <2>1, Dropping DEF Flush
    <3>3. Waiting(w, t)' = 0 /\ Share(w, t)' = Share(w, t) - Waiting(w, t) /\ Waiting(w, t) \in 0..1
      BY <2>0, <3>2, ShareParts, ShareParts2
    <3>. QED  BY <3>1, <3>3, ShareParts
  <2>2. CASE ~ReadyToFlush(w)
    <3>1. UNCHANGED <<told, pending>>
      BY <2>2 DEF Flush
    <3>2. Waiting(w, t)' = Waiting(w, t) /\ Share(w, t)' = Share(w, t)
      BY <2>0, <3>1, ShareParts, ShareParts2
    <3>3. told[t] \in Nat /\ Waiting(w, t) \in 0..1 /\ Share(w, t) \in 0..2
      BY ShareParts DEF PanesShape
    <3>. QED  BY <3>1, <3>2, <3>3
  <2>. QED  BY <2>1, <2>2
<1>7. PICK n \in 0..1 : /\ told'[t] = told[t] + n
                        /\ Waiting(w, t)' <= Waiting(w, t) - n /\ Share(w, t)' <= Share(w, t) - n
  BY <1>6
<1>8. /\ told[t] \in Nat /\ printed[t] \in Nat /\ printed'[t] = printed[t]
      /\ Shares(t) \in Nat /\ Shares(t)' \in Nat
  <2>1. Shares(t)' \in Nat
    <3>1. \A v \in Watchers : Share(v, t)' \in Nat /\ Waiting(v, t)' \in Nat
      BY ShareParts2
    <3>2. CASE wrapped
      BY <1>1, <1>2, <3>1, <3>2, SharesParts
    <3>3. CASE ~wrapped
      BY <1>1, <1>2, <3>1, <3>3, SharesParts
    <3>. QED  BY <3>2, <3>3
  <2>. QED  BY <1>1, <2>1, SharesParts DEF PanesShape
<1>9. /\ Share("wrapper", t) \in 0..2 /\ Share("daemon", t) \in 0..2 /\ Waiting("daemon", t) \in 0..1
      /\ Share("wrapper", t)' \in 0..2 /\ Share("daemon", t)' \in 0..2 /\ Waiting("daemon", t)' \in 0..1
  BY <1>2, ShareParts, ShareParts2
<1>10. Shares(t)' <= Shares(t) - n
  <2>1. CASE w = "daemon" /\ wrapped
    <3>1. Shares(t)' = Share("wrapper", t)' /\ Shares(t) = Share("wrapper", t) + Waiting("daemon", t)
      BY <1>1, <1>3, <1>9, <2>1, SharesParts
    <3>2. Share("wrapper", t)' = Share("wrapper", t) /\ 0 <= Waiting("daemon", t) - n
      BY <1>2, <1>5, <1>7, <1>9, <2>1
    <3>. QED  BY <1>9, <3>1, <3>2
  <2>2. CASE w = "daemon" /\ ~wrapped
    BY <1>1, <1>7, <1>9, <2>2, SharesParts
  <2>3. CASE w = "wrapper"
    <3>1. Waiting("daemon", t)' = Waiting("daemon", t)
      BY <1>2, <1>5, <2>3
    <3>2. Shares(t)' - Share("wrapper", t)' = Shares(t) - Share("wrapper", t)
      BY <1>1, <1>4, <1>9, <2>3, <3>1, SharesParts
    <3>. QED  BY <1>7, <1>8, <1>9, <2>3, <3>2
  <2>. QED  BY <2>1, <2>2, <2>3, WatcherNames
<1>. QED  BY <1>7, <1>8, <1>10

LEMMA PaidStep ==
  ASSUME PanesConstants, PanesShape, Unwrapped, Paid, [PanesNext]_panesVars,
         \A w \in Watchers, p \in Panes : Marked(w, p)
  PROVE  Paid'
<1>. USE DEF World, Watching
<1>1. SUFFICES ASSUME ~both', NEW t \in Texts PROVE told'[t] + Shares(t)' <= printed'[t]
  BY DEF Paid
<1>2. ~both
  <2>1. ASSUME NEW w \in Watchers, Absent(w) PROVE ~both
    BY <1>1, <2>1 DEF Absent
  <2>2. ASSUME ~\E w \in Watchers : Absent(w) PROVE both' = both
    BY <2>2 DEF PanesNext, panesVars, Tick, Printed, PaneEnds, SessionCloses, SessionOpens, Begin, NotMine, Flush,
                Fails, Snapshot, Follow, Leave
  <2>. QED  BY <1>1, <2>1, <2>2
<1>3. told[t] + Shares(t) <= printed[t] /\ told[t] \in Nat /\ printed[t] \in Nat /\ Shares(t) \in Nat
  BY <1>2, SharesParts DEF Paid, PanesShape
<1>4. "wrapper" \in Watchers /\ "daemon" \in Watchers /\ wrapped \in BOOLEAN
  BY DEF Watchers, PanesShape
<1>5. Shares(t)' \in Nat
  <2>1. \A w \in Watchers : Share(w, t)' \in Nat /\ Waiting(w, t)' \in Nat
    BY ShareParts2
  <2>2. CASE wrapped'
    BY <1>4, <2>1, <2>2, SharesParts
  <2>3. CASE ~wrapped'
    BY <1>4, <2>1, <2>3, SharesParts
  <2>. QED  BY <2>2, <2>3
<1>. DEFINE Less == UNCHANGED <<told, printed>> /\ Shares(t)' <= Shares(t)
            Goal == told'[t] + Shares(t)' <= printed'[t]
<1>6. Less => Goal
  BY <1>3, <1>5
<1>7. ASSUME UNCHANGED <<wrapped, told, printed>>, \A w \in Watchers : Share(w, t)' <= Share(w, t),
             Early' => Early /\ Waiting("daemon", t)' <= Waiting("daemon", t)
      PROVE  Less
  BY <1>4, <1>7, LessShares
<1>8. look' = look => (Early' <=> Early)
  BY DEF Early
<1>9. ASSUME look'["daemon"] \in {Away, Resting} PROVE ~Early'
  BY <1>9 DEF Early, Away, Resting
<1>10. \A w \in Watchers : /\ Share(w, t) \in 0..2 /\ Share(w, t)' \in 0..2
                           /\ Waiting(w, t) \in 0..1 /\ Waiting(w, t)' \in 0..1
  BY ShareParts, ShareParts2
<1>11. ASSUME UNCHANGED <<pane, mark, known, pending>>
       PROVE  \A w \in Watchers : Waiting(w, t)' <= Waiting(w, t) /\ Share(w, t)' <= Share(w, t)
  BY <1>11, LessShare DEF Lines
\* Watchers other than w keep what they have; w drops it.
<1>12. ASSUME NEW w \in Watchers, Drops(w), Forgets(w), UNCHANGED <<pane, mark>>
       PROVE  /\ \A v \in Watchers : v # w => Waiting(v, t)' = Waiting(v, t) /\ Share(v, t)' = Share(v, t)
              /\ \A v \in Watchers : Waiting(v, t)' <= Waiting(v, t) /\ Share(v, t)' <= Share(v, t)
  <2>1. ASSUME NEW v \in Watchers, v # w PROVE Waiting(v, t)' = Waiting(v, t) /\ Share(v, t)' = Share(v, t)
    <3>1. pending'[v] = pending[v] /\ known'[v] = known[v] /\ mark'[v] = mark[v] /\ UNCHANGED pane
      BY <1>12, <2>1, Dropping, Forgetting
    <3>. QED  BY <3>1, SameShare
  <2>2. Waiting(w, t)' = 0 /\ Share(w, t)' = 0
    BY <1>12, NoShare
  <2>. QED  BY <1>10, <2>1, <2>2
<1>. HIDE DEF Less
<1>13. CASE Tick \/ SessionCloses \/ UNCHANGED panesVars
  BY <1>4, <1>6, <1>7, <1>8, <1>11, <1>13 DEF Tick, SessionCloses, panesVars
<1>14. ASSUME NEW p \in Panes, NEW u \in Texts, Printed(p, u) PROVE Goal
  BY <1>3, <1>14, PrintedPaid
<1>15. ASSUME NEW p \in Panes, PaneEnds(p) PROVE Goal
  <2>1. /\ UNCHANGED <<wrapped, told, printed, look, mark, known, pending>>
        /\ \A q \in Panes : Lines(q)' = Lines(q)
    BY <1>15, Ending DEF PaneEnds
  <2>2. \A w \in Watchers : Waiting(w, t)' <= Waiting(w, t) /\ Share(w, t)' <= Share(w, t)
    BY <2>1, LessShare
  <2>. QED  BY <1>4, <1>6, <1>7, <1>8, <2>1, <2>2
<1>16. CASE SessionOpens
  <2>1. UNCHANGED <<wrapped, told, printed, look, known, pending>> /\ \A q \in Panes : Lines(q)' = << >>
    BY <1>16, FreshTyped DEF SessionOpens, Lines
  <2>2. \A w \in Watchers : ~Unseen(w, t)'
    BY <2>1 DEF Unseen, After
  <2>3. \A w \in Watchers : Waiting(w, t)' <= Waiting(w, t) /\ Share(w, t)' <= Share(w, t)
    BY <2>1, <2>2, ShareParts, ShareParts2
  <2>. QED  BY <1>4, <1>6, <1>7, <1>8, <2>1, <2>3
<1>17. ASSUME NEW w \in Watchers, Begin(w) PROVE Goal
  <2>1. UNCHANGED <<wrapped, told, printed, pane, mark, known, pending>>
    BY <1>17 DEF Begin
  <2>2. \A v \in Watchers : Waiting(v, t)' <= Waiting(v, t) /\ Share(v, t)' <= Share(v, t)
    BY <1>11, <2>1
  <2>3. CASE ~wrapped
    <3>1. Share("daemon", t)' <= Share("daemon", t)
      BY <1>4, <2>2
    <3>2. Shares(t)' <= Shares(t)
      BY <2>1, <2>3, <3>1, SharesParts
    <3>. QED  BY <1>6, <2>1, <3>2 DEF Less
  <2>4. CASE wrapped
    <3>1. Early' => Early
      <4>. DEFINE place == [at |-> "probe", watch |-> (w = "wrapper" \/ ~wrapped), now |-> clock]
      <4>1. look' = [look EXCEPT ![w] = place]
        BY <1>17 DEF Begin, Goes
      <4>2. w = "daemon" => ~place.watch
        BY <2>4
      <4>. HIDE DEF place
      <4>3. CASE w = "daemon"
        <5>1. look'["daemon"] = place
          BY <1>4, <4>1, <4>3 DEF PanesShape
        <5>. QED  BY <4>2, <4>3, <5>1 DEF Early
      <4>4. CASE w # "daemon"
        BY <1>4, <4>1, <4>4 DEF Early, PanesShape
      <4>. QED  BY <4>3, <4>4
    <3>. QED  BY <1>4, <1>6, <1>7, <2>1, <2>2, <3>1
  <2>. QED  BY <1>4, <2>3, <2>4
<1>18. ASSUME NEW w \in Watchers, Absent(w) PROVE Goal
  <2>1. /\ Drops(w) /\ Forgets(w) /\ UNCHANGED <<told, printed, pane, mark>>
        /\ wrapped' = (wrapped /\ (w # "daemon" \/ look[w].watch))
        /\ look' = [look EXCEPT ![w] = IF w = "daemon" THEN Resting ELSE Away]
    BY <1>18 DEF Absent, Goes
  <2>2. \A v \in Watchers : Waiting(v, t)' <= Waiting(v, t) /\ Share(v, t)' <= Share(v, t)
    BY <1>12, <2>1
  <2>3. CASE w = "daemon"
    <3>1. ~Early'
      BY <1>4, <1>9, <2>1, <2>3 DEF PanesShape
    <3>2. CASE wrapped'
      <4>1. UNCHANGED wrapped
        BY <1>4, <2>1, <3>2
      <4>. QED  BY <1>6, <1>7, <2>1, <2>2, <3>1, <4>1
    <3>3. CASE ~wrapped'
      <4>1. Shares(t)' = Share("daemon", t)' /\ Share("daemon", t)' = 0
        BY <1>4, <2>1, <2>3, <3>3, NoShare, SharesParts
      <4>. QED  BY <1>3, <1>6, <2>1, <4>1 DEF Less
    <3>. QED  BY <3>2, <3>3
  <2>4. CASE w = "wrapper"
    <3>1. UNCHANGED wrapped
      BY <1>4, <2>1, <2>4
    <3>2. look'["daemon"] = look["daemon"]
      BY <1>4, <2>1, <2>4 DEF PanesShape
    <3>3. Early' => Early
      BY <3>2 DEF Early
    <3>. QED  BY <1>4, <1>6, <1>7, <2>1, <2>2, <3>1, <3>3
  <2>. QED  BY <2>3, <2>4, WatcherNames
<1>19. ASSUME NEW w \in Watchers, NotMine(w) PROVE Goal
  <2>1. /\ Drops(w) /\ Forgets(w) /\ UNCHANGED <<wrapped, told, printed, pane, mark>>
        /\ look' = [look EXCEPT ![w] = Resting]
    BY <1>19 DEF NotMine, Goes
  <2>2. \A v \in Watchers : Waiting(v, t)' <= Waiting(v, t) /\ Share(v, t)' <= Share(v, t)
    BY <1>12, <2>1
  <2>3. look'["daemon"] \in {look["daemon"], Resting}
    BY <1>4, <2>1 DEF PanesShape
  <2>4. Early' => Early
    BY <1>9, <2>3 DEF Early
  <2>. QED  BY <1>4, <1>6, <1>7, <2>1, <2>2, <2>4
<1>20. ASSUME NEW w \in Watchers, Flush(w) PROVE Goal
  BY <1>2, <1>3, <1>20, FlushPaid
<1>21. ASSUME NEW w \in Watchers, Fails(w) PROVE Goal
  <2>1. Forgets(w) /\ UNCHANGED <<wrapped, told, printed, pane, mark>>
    BY <1>21 DEF Fails
  <2>2. CASE w = "daemon"
    <3>1. look' = [look EXCEPT !["daemon"] = Resting] /\ UNCHANGED pending
      BY <1>21, <2>2 DEF Fails, Goes
    <3>2. ~Early'
      BY <1>4, <1>9, <3>1 DEF PanesShape
    <3>3. \A v \in Watchers, p \in Panes : known'[v][p] \in {known[v][p], Unknown}
      BY <2>1, Forgetting
    <3>4. \A v \in Watchers : Waiting(v, t)' <= Waiting(v, t) /\ Share(v, t)' <= Share(v, t)
      BY <2>1, <3>1, <3>3, LessShare DEF Lines
    <3>. QED  BY <1>6, <1>7, <2>1, <3>2, <3>4
  <2>3. CASE w = "wrapper"
    <3>1. look' = [look EXCEPT !["wrapper"] = Away] /\ Drops(w)
      BY <1>21, <2>3 DEF Fails, Goes
    <3>2. look'["daemon"] = look["daemon"]
      BY <1>4, <3>1 DEF PanesShape
    <3>3. Early' => Early
      BY <3>2 DEF Early
    <3>4. \A v \in Watchers : Waiting(v, t)' <= Waiting(v, t) /\ Share(v, t)' <= Share(v, t)
      BY <1>12, <2>1, <3>1
    <3>. QED  BY <1>4, <1>6, <1>7, <2>1, <3>3, <3>4
  <2>. QED  BY <2>2, <2>3, WatcherNames
<1>22. ASSUME NEW w \in Watchers, Snapshot(w) PROVE Goal
  <2>1. /\ UNCHANGED <<wrapped, told, printed, pane>> /\ look'[w] = Resting
        /\ \A v \in Watchers : v # w => look'[v] = look[v] /\ pending'[v] = pending[v] /\ known'[v] = known[v]
        /\ \A v \in Watchers : v # w => mark'[v] = mark[v]
    BY <1>22, Looked
  <2>2. \A v \in Watchers : v # w => Waiting(v, t)' = Waiting(v, t) /\ Share(v, t)' = Share(v, t)
    BY <2>1, SameShare
  <2>3. Share(w, t)' <= Share(w, t)
    BY <1>22, SeenShare
  <2>4. Early' => Early /\ Waiting("daemon", t)' <= Waiting("daemon", t)
    <3>1. CASE w = "daemon"
      BY <1>9, <2>1, <3>1
    <3>2. CASE w # "daemon"
      BY <1>4, <1>10, <2>1, <2>2, <3>2 DEF Early
    <3>. QED  BY <3>1, <3>2
  <2>5. \A v \in Watchers : Share(v, t)' <= Share(v, t)
    BY <1>10, <2>2, <2>3
  <2>. QED  BY <1>6, <1>7, <2>1, <2>4, <2>5
<1>23. CASE Follow
  <2>1. /\ look["wrapper"] = Away /\ wrapped' = TRUE
        /\ UNCHANGED <<told, printed, pane, mark, known, pending>>
        /\ look' = [look EXCEPT !["wrapper"] = Resting]
    BY <1>23 DEF Follow, Goes
  <2>2. \A v \in Watchers : Waiting(v, t)' <= Waiting(v, t) /\ Share(v, t)' <= Share(v, t)
    BY <1>11, <2>1
  <2>3. Share("wrapper", t)' = 0
    <3>1. pending'["wrapper"].hits = {} /\ \A p \in Panes : known'["wrapper"][p] = Unknown
      BY <2>1 DEF Unwrapped, NoHits
    <3>2. ~Unseen("wrapper", t)'
      BY <3>1 DEF Unseen
    <3>. QED  BY <1>4, <3>1, <3>2, ShareParts2
  <2>4. Early' <=> Early
    <3>1. look'["daemon"] = look["daemon"]
      BY <1>4, <2>1 DEF PanesShape
    <3>. QED  BY <3>1 DEF Early
  <2>5. Shares(t)' = IF Early THEN Waiting("daemon", t)' ELSE 0
    BY <1>4, <1>10, <2>1, <2>3, <2>4, SharesParts
  <2>6. Waiting("daemon", t)' <= Waiting("daemon", t) /\ Waiting("daemon", t) <= Share("daemon", t)
    BY <1>4, <1>10, <2>2, ShareParts
  <2>7. Shares(t)' <= Shares(t)
    <3>1. CASE wrapped
      BY <1>4, <1>10, <2>5, <2>6, <3>1, SharesParts
    <3>2. CASE ~wrapped
      BY <1>4, <1>10, <2>5, <2>6, <3>2, SharesParts
    <3>. QED  BY <3>1, <3>2
  <2>. QED  BY <1>6, <2>1, <2>7 DEF Less
<1>24. CASE Leave
  <2>1. /\ Drops("wrapper") /\ Forgets("wrapper") /\ UNCHANGED <<wrapped, told, printed, pane, mark>>
        /\ look' = [look EXCEPT !["wrapper"] = Away]
    BY <1>24 DEF Leave, Goes
  <2>2. \A v \in Watchers : Waiting(v, t)' <= Waiting(v, t) /\ Share(v, t)' <= Share(v, t)
    BY <1>4, <1>12, <2>1
  <2>3. look'["daemon"] = look["daemon"]
    BY <1>4, <2>1 DEF PanesShape
  <2>4. Early' => Early
    BY <2>3 DEF Early
  <2>. QED  BY <1>4, <1>6, <1>7, <2>1, <2>2, <2>4
<1>. QED  BY <1>13, <1>14, <1>15, <1>16, <1>17, <1>18, <1>19, <1>20, <1>21, <1>22, <1>23, <1>24 DEF PanesNext

LEMMA PanesStart ==
  ASSUME PanesConstants, PanesInit
  PROVE  PanesIInv
<1>. USE DEF PanesInit
<1>1. PanesShape
  <2>1. pane \in [Panes -> Contents]
    BY FreshTyped
  <2>2. look \in [Watchers -> Aways]
    BY DEF Aways
  <2>3. known \in [Watchers -> [Panes -> Pictures]]
    BY UnknownTyped
  <2>4. pending \in [Watchers -> [since : Nat, hits : SUBSET Keyed]]
    BY DEF NoHits
  <2>5. printed \in [Texts -> Nat] /\ told \in [Texts -> Nat] /\ mark \in [Watchers -> [Panes -> Nat]]
    OBVIOUS
  <2>6. owed \in [Watchers -> SUBSET Keyed] /\ said \in [Watchers -> [Panes -> Moments]]
    BY DEF Moments
  <2>. QED  BY <2>1, <2>2, <2>3, <2>4, <2>5, <2>6 DEF PanesShape
<1>2. ASSUME NEW w \in Watchers PROVE look[w] \in {Away, Resting} /\ pending[w] = NoHits /\ owed[w] = {}
  OBVIOUS
<1>3. ASSUME NEW w \in Watchers, NEW p \in Panes
      PROVE  known[w][p] = Unknown /\ mark[w][p] = 0 /\ said[w][p] = -1 /\ Lines(p) = << >>
  BY FreshTyped DEF Lines, Never
<1>4. ASSUME NEW w \in Watchers PROVE ~IsLooking(w)
  BY <1>2 DEF IsLooking, Away, Resting
<1>5. ASSUME NEW w \in Watchers, NEW p \in Panes PROVE Marked(w, p) /\ Timed(w, p)
  BY <1>3, <1>4 DEF Marked, Timed
<1>6. Unwrapped
  <2>1. look["wrapper"] = Away /\ "wrapper" \in Watchers
    BY DEF Watchers
  <2>. QED  BY <1>2, <1>3, <2>1 DEF Unwrapped
<1>7. Paid
  <2>1. ASSUME NEW t \in Texts PROVE told[t] + Shares(t) <= printed[t]
    <3>1. "daemon" \in Watchers /\ ~wrapped
      BY DEF Watchers
    <3>2. ~Unseen("daemon", t) /\ pending["daemon"].hits = {}
      BY <1>2, <1>3, <3>1 DEF Unseen, NoHits
    <3>3. Shares(t) = 0
      BY <3>1, <3>2, ShareParts, SharesParts
    <3>. QED  BY <3>3
  <2>. QED  BY <2>1 DEF Paid
<1>8. NothingOverlooked /\ ~hurried
  BY <1>2 DEF NothingOverlooked
<1>. QED  BY <1>1, <1>5, <1>6, <1>7, <1>8 DEF PanesIInv

LEMMA PanesStep ==
  ASSUME PanesConstants, PanesIInv, [PanesNext]_panesVars
  PROVE  PanesIInv'
<1>1. /\ PanesShape /\ Unwrapped /\ Paid /\ NothingOverlooked /\ ~hurried
      /\ \A w \in Watchers, p \in Panes : Marked(w, p) /\ Timed(w, p)
  BY DEF PanesIInv
<1>2. PanesShape'
  BY <1>1, ShapeStep
<1>3. Unwrapped' /\ Paid' /\ NothingOverlooked'
  BY <1>1, UnwrappedStep, PaidStep, OverlookedStep
<1>4. ~hurried'
  BY <1>1, NotHurried
<1>5. ASSUME NEW w \in Watchers, NEW p \in Panes PROVE Marked(w, p)' /\ Timed(w, p)'
  BY <1>1, MarkedStep, TimedStep
<1>. QED  BY <1>2, <1>3, <1>4, <1>5 DEF PanesIInv

\* The invariant of the proof has in it what the run checks.
LEMMA PanesIInvSays ==
  ASSUME PanesConstants, PanesIInv
  PROVE  PanesInv
<1>1. PanesShape /\ Paid /\ NothingOverlooked /\ ~hurried
  BY DEF PanesIInv
<1>2. PanesTypeOK
  <2>1. \A w \in Watchers : look[w].at \in {"away", "resting", "probe", "panes"}
    BY <1>1, LookTyped, WatcherPlaces
  <2>. QED  BY <1>1, <2>1 DEF PanesTypeOK, PanesShape
<1>3. ToldOnce
  <2>1. ASSUME ~both, NEW t \in Texts PROVE told[t] <= printed[t]
    <3>1. told[t] + Shares(t) <= printed[t]
      BY <1>1, <2>1 DEF Paid
    <3>2. told[t] \in Nat /\ printed[t] \in Nat /\ Shares(t) \in Nat
      BY <1>1, SharesParts DEF PanesShape
    <3>. QED  BY <3>1, <3>2
  <2>. QED  BY <2>1 DEF ToldOnce
<1>. QED  BY <1>1, <1>2, <1>3 DEF PanesInv

\* What is told of a session's panes was printed and is told once, a line that came into sight
\* waits to be told, and no pane is told as stale in a hurry (source/tmux.rs, poll_tmux and
\* monitor_registered_session; keyword_window.rs): for every number of panes, lines and
\* captured lines, however the panes, the session and the two watchers come and go.
THEOREM PanesAlwaysSound ==
  PanesConstants => (PanesSpec => []PanesInv)
<1>. SUFFICES ASSUME PanesConstants PROVE PanesSpec => []PanesInv
  OBVIOUS
<1>1. PanesInit => PanesIInv
  BY PanesStart
<1>2. PanesIInv /\ [PanesNext]_panesVars => PanesIInv'
  BY PanesStep
<1>3. PanesIInv => PanesInv
  BY PanesIInvSays
<1>. QED  BY <1>1, <1>2, <1>3, PTL DEF PanesSpec
=============================================================================
