----------------------------- MODULE EventBridge -----------------------------
(* The event bridge of a GJC session (gjc_sdk_events.rs), fed by full reads    *)
(* and pushes (daemon.rs): a reducer in memory turns snapshots of the session  *)
(* into events, once per episode.  One snapshot is taken in at a time: it is   *)
(* reduced on a copy, a failure is staged on the lane's record, the other      *)
(* events are queued for the ledger, the record's watermark is raised, and     *)
(* only then the copy becomes the reducer.  The reconciler raises the          *)
(* watermark by itself, and a crash forgets the reducer.                       *)
(*                                                                             *)
(* The session changes one thing at a time and counts its revisions.  An event *)
(* is its identity: kind, turn, gate and the parts that base_object hashes;    *)
(* the ledger takes an identity once.  Texts, routing and the checks of ids    *)
(* are left out; model and profile are one value.                              *)
EXTENDS Integers, FiniteSets

CONSTANTS
  Models,        \* models the session may use
  Turns,         \* turns of the session: 1 .. n
  MaxSeen,       \* bound on the revisions of the session
  MaxUnderWay,   \* bound on the snapshots under way
  MaxCrashes,    \* bound on crashes
  MaxRefusals,   \* bound on intakes that fail
  Topics         \* what may change: of "turn", "retry", "prompt", "gate", "model", "endpoint"

\* What a user of the module assumes of the constants.
BridgeConstants ==
  /\ {MaxSeen, MaxUnderWay, MaxCrashes, MaxRefusals} \subseteq Nat
  /\ Turns \subseteq Nat \ {0}
  /\ Topics \subseteq {"turn", "retry", "prompt", "gate", "model", "endpoint"}

VARIABLES
  sess,      \* the session as it is
  snaps,     \* snapshots under way to the daemon: reads and pushes
  ingress,   \* the snapshot that is taken in, or NoIngress
  track,     \* the reducer's SessionTrack
  mark,      \* sdk_revision of the lane's record
  staged,    \* turns whose failure is staged on the record
  told,      \* identities the ledger has accepted
  crashes,
  refusals   \* intakes that ended after some of their events were told, or before

bridgeVars == <<sess, snaps, ingress, track, mark, staged, told, crashes, refusals>>

-----------------------------------------------------------------------------
(* The session.  0 is "no turn", "no gate"; a gate is known by its revision.   *)
(* Turns, gates and prompts have new names: a turn its number in the session.  *)

Phases == {"active", "waiting", "complete", "failed", "idle"}
Shown == IF "prompt" \in Topics THEN Phases ELSE Phases \ {"waiting"}
Healths == {"ok", "degraded", "failed"}
Nothing == "nothing"

Session == [rev : Nat, turn : Turns \cup {0}, begun : Turns \cup {0}, phase : Phases, accepted : BOOLEAN,
            attempt : Nat, prompt : Nat, gate : Nat, open : BOOLEAN, model : Models, health : Healths]

NewSession(m) == [rev |-> 1, turn |-> 0, begun |-> 0, phase |-> "idle", accepted |-> FALSE,
                  attempt |-> 0, prompt |-> 0, gate |-> 0, open |-> FALSE, model |-> m, health |-> "ok"]
InFirstTurn(m) == [NewSession(m) EXCEPT !.turn = 1, !.begun = 1, !.phase = "active", !.accepted = TRUE]

InTurn == sess.turn # 0 /\ sess.phase \in {"active", "waiting"}

(* What may happen next to the session, topic by topic. *)
NextTurn == sess.begun + 1
TurnMoves ==
  {[sess EXCEPT !.turn = NextTurn, !.begun = NextTurn, !.phase = "active", !.accepted = a, !.attempt = 0] :
     a \in IF NextTurn \notin Turns THEN {} ELSE IF "prompt" \in Topics THEN BOOLEAN ELSE {TRUE}}
  \cup {[sess EXCEPT !.phase = p] : p \in IF InTurn THEN Shown \ {sess.phase} ELSE {}}
  \cup {[sess EXCEPT !.turn = 0, !.phase = "idle"]}
RetryMoves == IF InTurn THEN {[sess EXCEPT !.attempt = sess.attempt + 1]} ELSE {}
PromptMoves == IF InTurn THEN {[sess EXCEPT !.prompt = sess.prompt + 1]} ELSE {}
GateMoves == IF sess.open THEN {[sess EXCEPT !.open = FALSE]} ELSE {[sess EXCEPT !.gate = sess.gate + 1, !.open = TRUE]}
ModelMoves == {[sess EXCEPT !.model = m] : m \in Models \ {sess.model}}
HealthMoves == {[sess EXCEPT !.health = h] : h \in Healths \ {sess.health}}

Moves ==
  UNION {CASE topic = "turn" -> TurnMoves [] topic = "retry" -> RetryMoves
           [] topic = "prompt" -> PromptMoves [] topic = "gate" -> GateMoves
           [] topic = "model" -> ModelMoves [] topic = "endpoint" -> HealthMoves : topic \in Topics}

(* snapshot_from_session_query: a full read knows nothing of prompts, attempts *)
(* and the endpoint, and a turn that waits is running.                         *)
Read == [sess EXCEPT !.attempt = 0, !.prompt = 0, !.health = Nothing,
                     !.phase = IF sess.phase = "waiting" THEN "active" ELSE sess.phase]

-----------------------------------------------------------------------------
(* The reducer: GjcEventBridge::observe, part by part.  Each part is a pair of *)
(* the events it emits and the track it leaves.                                *)

NewTrack == [rev |-> 0, turn |-> 0, attempts |-> 0, ended |-> 0, prompt |-> 0, promptTurn |-> 0,
             lastPrompt |-> 0, gate |-> 0, model |-> Nothing, health |-> Nothing, alerted |-> FALSE,
             episode |-> 0, started |-> FALSE, flight |-> 0, stalled |-> 0]

(* base_object: the identity holds the gate that shows, whatever the event is about. *)
Event(s, kind, part) == [kind |-> kind, turn |-> s.turn, gate |-> s.gate, part |-> part]
When(c, e) == IF c THEN {e} ELSE {}

(* The order in which observe looks for them; of a kind there is one at most. *)
Kinds == <<"retry-needed", "started", "complete", "stalled", "prompt", "question", "model", "endpoint">>
Rank(e) == CHOOSE i \in DOMAIN Kinds : Kinds[i] = e.kind

AtTurn(t, s) ==
  IF t.turn = s.turn THEN t
  ELSE [t EXCEPT !.turn = s.turn, !.attempts = 0, !.ended = 0, !.prompt = 0]

(* The turn of a snapshot that shows one. *)
Terminal(s) == s.phase \in {"complete", "failed"}
TurnEvents(t, s, accepted) ==
  When(accepted /\ s.attempt > t.attempts, Event(s, "retry-needed", <<s.attempt>>))
  \cup When(accepted /\ s.phase = "active" /\ ~t.started, Event(s, "started", <<>>))
  \cup When(accepted /\ s.phase = "complete" /\ t.ended # s.turn, Event(s, "complete", <<>>))
  \cup When(s.phase = "idle" /\ t.flight = s.turn /\ t.stalled # s.turn, Event(s, "stalled", <<>>))

(* A failure is an event as well, which the caller stages instead. *)
TurnFails(t, s, accepted) == accepted /\ s.phase = "failed" /\ t.ended # s.turn

TurnTrack(t, s, accepted) ==
  [t EXCEPT !.attempts = IF s.attempt > t.attempts THEN s.attempt ELSE t.attempts,
            !.started = t.started \/ (accepted /\ s.phase = "active"),
            !.ended = IF accepted /\ Terminal(s) THEN s.turn ELSE t.ended,
            !.stalled = IF s.phase = "active" THEN 0
                        ELSE IF s.phase = "idle" /\ t.flight = s.turn THEN s.turn ELSE t.stalled,
            !.flight = IF s.phase = "active" THEN (IF accepted THEN s.turn ELSE 0)
                       ELSE IF s.phase # "waiting" THEN 0
                       ELSE IF accepted /\ t.flight = 0 THEN s.turn ELSE t.flight]

(* A snapshot without a turn, while one was in flight. *)
GoneEvents(t, s) == When(t.flight # 0 /\ t.stalled # t.flight, Event(s, "stalled", <<t.flight>>))
GoneTrack(t) == [t EXCEPT !.stalled = IF t.flight # 0 THEN t.flight ELSE t.stalled, !.flight = 0]

PromptNew(t, s) ==
  /\ s.prompt # 0 /\ s.turn # 0 /\ s.phase \in {"active", "waiting"}
  /\ t.lastPrompt # s.prompt \/ t.promptTurn = s.turn
  /\ t.prompt # s.prompt
PromptTrack(t, s) ==
  IF PromptNew(t, s) THEN [t EXCEPT !.prompt = s.prompt, !.promptTurn = s.turn, !.lastPrompt = s.prompt] ELSE t

GateShown(t, s) == s.gate # 0 /\ s.open
GateNew(t, s) == s.gate # 0 /\ s.open /\ s.gate > t.gate
GateTrack(t, s) == IF s.gate > t.gate THEN [t EXCEPT !.gate = s.gate] ELSE t

ModelNew(t, s) == t.model # Nothing /\ t.model # s.model

(* The endpoint: an episode begins when it was well, and is told again when it worsens. *)
Sick(s) == s.health \in {"degraded", "failed"}
EndpointNew(t, s) == Sick(s) /\ (~t.alerted \/ (t.health = "degraded" /\ s.health = "failed"))
EndpointTrack(t, s) ==
  IF s.health = Nothing THEN t
  ELSE [t EXCEPT !.health = s.health, !.alerted = Sick(s),
                 !.episode = IF Sick(s) /\ ~t.alerted /\ t.health \in {Nothing, "ok"} THEN t.episode + 1 ELSE t.episode]

Observed(t, s) ==
  LET t1 == IF s.turn = 0 THEN t ELSE AtTurn(t, s)
      accepted == s.accepted \/ t1.prompt # 0
      t2 == IF s.turn = 0 THEN GoneTrack(t1) ELSE TurnTrack(t1, s, accepted)
      t3 == GateTrack(PromptTrack(t2, s), s)
      t4 == EndpointTrack([t3 EXCEPT !.model = s.model], s)
  IN [events |-> (IF s.turn = 0 THEN GoneEvents(t1, s) ELSE TurnEvents(t1, s, accepted))
                 \cup When(PromptNew(t2, s), Event(s, "prompt", <<s.prompt>>))
                 \cup When(GateNew(t2, s), Event(s, "question", <<>>))
                 \cup When(ModelNew(t2, s), Event(s, "model", <<t2.model, s.model>>))
                 \cup When(EndpointNew(t3, s), Event(s, "endpoint", <<s.health, t4.episode>>)),
      fails |-> s.turn # 0 /\ TurnFails(t1, s, accepted),
      track |-> [t4 EXCEPT !.rev = s.rev]]

(* A snapshot that is no newer than the last is passed over. *)
Reduced(t, s) == IF s.rev <= t.rev THEN [events |-> {}, fails |-> FALSE, track |-> t] ELSE Observed(t, s)

-----------------------------------------------------------------------------
(* Snapshots under way arrive late, in any order, or never.  One that is no    *)
(* news when it is taken changes nothing.                                      *)

NoIngress == [at |-> "none"]

BridgeInit ==
  /\ \E m \in Models : sess = NewSession(m) \/ (1 \in Turns /\ sess = InFirstTurn(m))
  /\ snaps = {} /\ ingress = NoIngress
  /\ track = NewTrack /\ mark = 0
  /\ staged = {} /\ told = {}
  /\ crashes = 0 /\ refusals = 0

Move ==
  /\ sess.rev < MaxSeen
  /\ \E next \in Moves : sess' = [next EXCEPT !.rev = sess.rev + 1]
  /\ UNCHANGED <<snaps, ingress, track, mark, staged, told, crashes, refusals>>

Take(snap) ==
  /\ Cardinality(snaps) < MaxUnderWay /\ snap.rev > mark
  /\ snaps' = snaps \cup {snap}
  /\ UNCHANGED <<sess, ingress, track, mark, staged, told, crashes, refusals>>
TakeRead == Take(Read)
TakePush == Take(sess)

(* The guard of the ingress is held from here to the end.  What is not above   *)
(* the watermark is answered or refused without a look.                        *)
Fresh(rev) == rev > mark

Reduce ==
  /\ ingress = NoIngress
  /\ \E s \in snaps :
       /\ snaps' = snaps \ {s}
       /\ ingress' = IF Fresh(s.rev)
                       THEN LET r == Reduced(track, s)
                            IN [at |-> "stage", snap |-> s, events |-> r.events, track |-> r.track, failed |-> r.fails]
                       ELSE NoIngress
  /\ UNCHANGED <<sess, track, mark, staged, told, crashes, refusals>>

(* stage_bridge_failure: the record takes the failure and the revision, unless *)
(* it has a later one, and the failure is not emitted as well.                 *)
Stage ==
  /\ ingress.at = "stage"
  /\ IF ~ingress.failed THEN ingress' = [ingress EXCEPT !.at = "emit"] /\ UNCHANGED <<mark, staged>>
     ELSE IF ingress.snap.rev < mark THEN ingress' = NoIngress /\ UNCHANGED <<mark, staged>>
     ELSE /\ staged' = staged \cup {ingress.snap.turn} /\ mark' = ingress.snap.rev
          /\ ingress' = [ingress EXCEPT !.at = "emit"]
  /\ UNCHANGED <<sess, snaps, track, told, crashes, refusals>>

(* One event after the other into the dispatcher's queue, to the ledger.       *)
Emit ==
  /\ ingress.at = "emit"
  /\ \E e \in ingress.events :
       /\ \A f \in ingress.events : Rank(e) <= Rank(f)
       /\ told' = told \cup {e}
       /\ ingress' = [ingress EXCEPT !.events = @ \ {e}]
  /\ UNCHANGED <<sess, snaps, track, mark, staged, crashes, refusals>>

(* A step fails, or loses a race for the record: the reducer stays as it was.  *)
GiveUp ==
  /\ ingress # NoIngress /\ refusals < MaxRefusals
  /\ refusals' = refusals + 1 /\ ingress' = NoIngress
  /\ UNCHANGED <<sess, snaps, track, mark, staged, told, crashes>>

(* set_sdk_revision_if, unless a failure was staged; then the reducer.         *)
Raises == ingress.failed \/ ingress.snap.rev > mark

Commit ==
  /\ ingress.at = "emit" /\ ingress.events = {}
  /\ IF Raises
     THEN /\ track' = ingress.track
          /\ mark' = IF ingress.failed THEN mark ELSE ingress.snap.rev
          /\ UNCHANGED refusals
     ELSE refusals' = refusals + 1 /\ UNCHANGED <<track, mark>>
  /\ ingress' = NoIngress
  /\ UNCHANGED <<sess, snaps, staged, told, crashes>>

(* A pass of the reconciler reads the session on its own way, and stages what  *)
(* it finds failed.                                                            *)
Reconcile ==
  /\ sess.rev > mark /\ mark' = sess.rev
  /\ staged' = IF sess.turn # 0 /\ sess.accepted /\ sess.phase = "failed" THEN staged \cup {sess.turn} ELSE staged
  /\ UNCHANGED <<sess, snaps, ingress, track, told, crashes, refusals>>

BridgeCrash ==
  /\ crashes < MaxCrashes /\ crashes' = crashes + 1
  /\ snaps' = {} /\ ingress' = NoIngress /\ track' = NewTrack
  /\ UNCHANGED <<sess, mark, staged, told, refusals>>

BridgeNext ==
  \/ Move \/ TakeRead \/ TakePush
  \/ Reduce \/ Stage \/ Emit \/ GiveUp \/ Commit
  \/ Reconcile \/ BridgeCrash

BridgeSpec == BridgeInit /\ [][BridgeNext]_bridgeVars

-----------------------------------------------------------------------------
(* Properties.                                                                 *)

BridgeTypeOK ==
  /\ sess \in Session /\ {mark, crashes, refusals} \subseteq Nat
  /\ staged \subseteq Turns
  /\ \A s \in snaps : s.rev <= sess.rev

Told(kind, turn) == \E e \in told : e.kind = kind /\ e.turn = turn

(* What the reducer holds for told has been told, or its failure staged on the *)
(* record: no refusal, race or late snapshot makes the bridge take an episode  *)
(* for reported that it never reported.                                        *)
SeenIsTold ==
  /\ track.ended # 0 => Told("complete", track.ended) \/ track.ended \in staged
  /\ track.started => \E e \in told : e.kind = "started"
  /\ track.stalled # 0 => \E e \in told : e.kind = "stalled"
  /\ track.prompt # 0 => \E e \in told : e.kind = "prompt" /\ e.part = <<track.prompt>>
  /\ track.alerted => \E e \in told : /\ e.kind = "endpoint" /\ e.part[2] = track.episode
                               /\ track.health = "failed" => e.part[1] = "failed"

(* An episode is told once, under one identity, but for what a crash or a      *)
(* refused write made the reducer forget (docs/gjc-sdk-event-bridge.md, the    *)
(* transition mapping): the session's start, a turn's end, its attempts, a     *)
(* prompt, a gate.                                                             *)
SameEpisode(e, f) ==
  /\ e.kind = f.kind
  /\ e.kind \in {"complete", "retry-needed"} => e.turn = f.turn
  /\ e.kind \in {"prompt", "retry-needed"} => e.part = f.part
  /\ e.kind = "question" => e.gate = f.gate

OnceKinds == {"started", "complete", "retry-needed", "prompt", "question"}
Copies(e) == {f \in told : SameEpisode(e, f)}
TellsBounded == \A e \in told : e.kind \in OnceKinds => Cardinality(Copies(e)) <= 1 + crashes + refusals

(* And no snapshot is behind the watermark and in front of the reducer, so a   *)
(* late one never reaches it.                                                  *)
BridgeInv == BridgeTypeOK /\ SeenIsTold /\ TellsBounded /\ track.rev <= mark /\ mark <= sess.rev
=============================================================================
