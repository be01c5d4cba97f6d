----------------------------- MODULE Subscription ----------------------------
(* One subscription (source/subscription.rs, and the registry of the daemon's  *)
(* HTTP API): the worker that holds its connection and reconnects a bounded    *)
(* number of times, the requests that start and stop it, and the status that   *)
(* both write.  A stop takes the worker from the registry, cancels it and      *)
(* waits for it without the registry's lock, so that a start may run meanwhile *)
(* and two workers may be alive.                                               *)
(*                                                                             *)
(* A frame is one that yields an event or one that does not; the adapter's     *)
(* program is external.  The shutdown of the daemon is left out.               *)
EXTENDS Naturals, FiniteSets

CONSTANTS
  MaxWorkers,   \* bound on the workers spawned
  MaxAttempts,  \* reconnect.max_attempts
  Stops         \* stop requests under way at a time

\* What a user of the module assumes of the constants.
SubscriptionConstants == MaxWorkers \in Nat \ {0} /\ MaxAttempts \in Nat \ {0}

Workers == 1..MaxWorkers
Nobody == 0

VARIABLES
  endpoint,   \* the environment names an endpoint that is valid
  status,     \* state of the snapshot
  desired,    \* desired_running of the snapshot
  entry,      \* the worker the registry knows, or Nobody
  worker,     \* per worker, where it is and its attempts
  cancelled,  \* workers whose cancel was sent
  stops,      \* per stop request, the worker it waits for, or Nobody
  overlap,    \* history: a worker was started before a stop was answered, or its worker gone
  quiet,      \* history: a stop was answered and there was no start since
  late        \* history: an event came while it was quiet

subVars == <<endpoint, status, desired, entry, worker, cancelled, stops, overlap, quiet, late>>

States == {"stopped", "starting", "connecting", "connected", "backing_off", "exhausted", "stopping"}
Places == {"none",     \* not spawned
           "spawned",  \* before it has said so
           "start",    \* at the head of the loop
           "connect", "read", "adapter", "offer", "wait",
           "ended", "failed",  \* run has returned
           "gone"}

Live(w) == worker[w].at \notin {"none", "gone"}
Spawned == [at |-> "spawned", attempts |-> 0]

(* new_subscription_registry: an enabled subscription is started at once. *)
SubscriptionInit ==
  /\ endpoint \in BOOLEAN
  /\ status = "starting" /\ desired = TRUE
  /\ entry = 1
  /\ worker = [w \in Workers |-> IF w = 1 THEN Spawned ELSE [at |-> "none", attempts |-> 0]]
  /\ cancelled = {}
  /\ stops = [s \in Stops |-> Nobody]
  /\ overlap = FALSE /\ quiet = FALSE /\ late = FALSE

-----------------------------------------------------------------------------
(* The worker.                                                                 *)

IsAt(w, places) == worker[w].at \in places
Moves(w, place, attempts) == worker' = [worker EXCEPT ![w] = [at |-> place, attempts |-> attempts]]
Says(s) == status' = s
Alone == UNCHANGED <<endpoint, desired, entry, cancelled, stops, overlap, quiet>>

Begin(w) ==
  /\ IsAt(w, {"spawned"})
  /\ Says("connecting") /\ Moves(w, "start", 0)
  /\ Alone /\ UNCHANGED late

NoEndpoint(w) ==
  /\ IsAt(w, {"start"}) /\ ~endpoint /\ w \notin cancelled
  /\ Says("exhausted") /\ Moves(w, "failed", 0)
  /\ Alone /\ UNCHANGED late

Connect(w) ==
  /\ IsAt(w, {"start"}) /\ endpoint /\ w \notin cancelled
  /\ Says("connecting") /\ Moves(w, "connect", worker[w].attempts + 1)
  /\ Alone /\ UNCHANGED late

Connected(w) ==
  /\ IsAt(w, {"connect"})
  /\ Says("connected") /\ Moves(w, "read", worker[w].attempts)
  /\ Alone /\ UNCHANGED late

(* reconnect_decision *)
Exhausted(attempts) == attempts >= MaxAttempts

(* The connection fails or ends. *)
Disconnected(w) ==
  /\ IsAt(w, {"connect", "read"})
  /\ IF Exhausted(worker[w].attempts)
       THEN Says("exhausted") /\ Moves(w, "failed", worker[w].attempts)
       ELSE Says("backing_off") /\ Moves(w, "wait", worker[w].attempts)
  /\ Alone /\ UNCHANGED late

Reconnect(w) ==
  /\ IsAt(w, {"wait"})
  /\ Says("connecting") /\ Moves(w, "start", worker[w].attempts)
  /\ Alone /\ UNCHANGED late

(* A frame is rejected, or goes to the adapter, which may reject it. *)
Reject(w) ==
  /\ IsAt(w, {"read", "adapter"})
  /\ Says("connected") /\ Moves(w, "read", worker[w].attempts)
  /\ Alone /\ UNCHANGED late

Adapt(w) ==
  /\ \/ IsAt(w, {"read"}) /\ Moves(w, "adapter", worker[w].attempts)
     \/ IsAt(w, {"adapter"}) /\ Moves(w, "offer", worker[w].attempts)
  /\ Alone /\ UNCHANGED <<status, late>>

(* The event is sent when the channel has room: the attempts count anew. *)
Enqueue(w) ==
  /\ IsAt(w, {"offer"})
  /\ Moves(w, "read", 0)
  /\ late' = (late \/ quiet)
  /\ Alone /\ UNCHANGED status

QueueClosed(w) ==
  /\ IsAt(w, {"offer"})
  /\ Says("exhausted") /\ Moves(w, "failed", worker[w].attempts)
  /\ Alone /\ UNCHANGED late

(* Wherever the worker waits it also waits for its cancellation. *)
Cancelled(w) ==
  /\ IsAt(w, {"start", "connect", "read", "adapter", "offer", "wait"}) /\ w \in cancelled
  /\ Says("stopped") /\ Moves(w, "ended", worker[w].attempts)
  /\ Alone /\ UNCHANGED late

(* spawn_subscription_worker, after run *)
Ends(w) ==
  /\ IsAt(w, {"ended", "failed"})
  /\ Says(IF IsAt(w, {"failed"}) THEN "exhausted" ELSE IF w \in cancelled THEN "stopped" ELSE status)
  /\ Moves(w, "gone", worker[w].attempts)
  /\ Alone /\ UNCHANGED late

Work(w) ==
  \/ Begin(w) \/ NoEndpoint(w) \/ Connect(w) \/ Connected(w) \/ Disconnected(w) \/ Reconnect(w)
  \/ Reject(w) \/ Adapt(w) \/ Enqueue(w) \/ QueueClosed(w) \/ Cancelled(w) \/ Ends(w)

-----------------------------------------------------------------------------
(* The requests.                                                               *)

RunningConnected == entry # Nobody /\ Live(entry) /\ status = "connected"
Running == entry # Nobody /\ Live(entry)

(* start_subscription; a worker that is running is left alone. *)
Start(w) ==
  /\ ~Running /\ worker[w].at = "none" /\ \A v \in Workers : v < w => worker[v].at # "none"
  /\ entry' = w
  /\ worker' = [worker EXCEPT ![w] = Spawned]
  /\ desired' = TRUE /\ Says("starting")
  /\ overlap' = (overlap \/ (\E v \in Workers : Live(v)) \/ \E s \in Stops : stops[s] # Nobody)
  /\ quiet' = FALSE
  /\ UNCHANGED <<endpoint, cancelled, stops, late>>

(* stop_subscription_entry: nobody to stop... *)
AlreadyStopped ==
  /\ entry = Nobody
  /\ desired' = FALSE /\ Says("stopped")
  /\ UNCHANGED <<endpoint, entry, worker, cancelled, stops, overlap, quiet, late>>

(* ...or the worker is taken and cancelled; a caller that hangs up before the  *)
(* status is written leaves it so.                                             *)
Stop(s) ==
  /\ stops[s] = Nobody /\ entry # Nobody
  /\ entry' = Nobody /\ cancelled' = cancelled \cup {entry}
  /\ \/ desired' = FALSE /\ Says("stopping") /\ stops' = [stops EXCEPT ![s] = entry]
     \/ UNCHANGED <<desired, status, stops>>
  /\ UNCHANGED <<endpoint, worker, overlap, quiet, late>>

(* Five seconds are over. *)
Abort(s) ==
  /\ stops[s] # Nobody /\ Live(stops[s])
  /\ worker' = [worker EXCEPT ![stops[s]].at = "gone"]
  /\ UNCHANGED <<endpoint, status, desired, entry, cancelled, stops, overlap, quiet, late>>

Stopped(s) ==
  /\ stops[s] # Nobody /\ ~Live(stops[s])
  /\ stops' = [stops EXCEPT ![s] = Nobody]
  /\ desired' = FALSE /\ Says("stopped")
  /\ quiet' = (entry = Nobody)
  /\ UNCHANGED <<endpoint, entry, worker, cancelled, overlap, late>>

(* The caller hangs up while it waits: the worker is on its own. *)
HangUp(s) ==
  /\ stops[s] # Nobody
  /\ stops' = [stops EXCEPT ![s] = Nobody]
  /\ UNCHANGED <<endpoint, status, desired, entry, worker, cancelled, overlap, quiet, late>>

SubscriptionNext ==
  \/ \E w \in Workers : Work(w) \/ Start(w)
  \/ AlreadyStopped
  \/ \E s \in Stops : Stop(s) \/ Abort(s) \/ Stopped(s) \/ HangUp(s)

SubscriptionSpec == SubscriptionInit /\ [][SubscriptionNext]_subVars

-----------------------------------------------------------------------------
(* Properties.                                                                 *)

SubscriptionTypeOK ==
  /\ endpoint \in BOOLEAN /\ status \in States /\ desired \in BOOLEAN
  /\ entry \in Workers \cup {Nobody}
  /\ worker \in [Workers -> [at : Places, attempts : 0..MaxAttempts]]
  /\ cancelled \subseteq Workers /\ stops \in [Stops -> Workers \cup {Nobody}]
  /\ {overlap, quiet, late} \subseteq BOOLEAN

\* A worker that was not told to stop is the one the registry knows: there is
\* one at most, and a stop reaches it.
OneActive == \A w \in Workers : Live(w) /\ w \notin cancelled => entry = w

\* What the status says, while no stop is under way and no start has come
\* before the end of one: a worker at work is wanted and not shown as stopped or given up;
\* one that gave up is shown so, and as wanted, so that the daemon's health
\* shows it.
Active(w) == Live(w) /\ w \notin cancelled /\ ~IsAt(w, {"failed"})
StatusTrue ==
  ~overlap /\ (\A s \in Stops : stops[s] = Nobody) =>
    \A w \in Workers :
      /\ Active(w) => desired /\ status \in {"starting", "connecting", "connected", "backing_off"}
      /\ entry = w /\ ~Active(w) => desired /\ status = "exhausted"

\* Once a stop is answered, no event comes before a start, unless a start had
\* come before the worker of an earlier stop was gone.
QuietAfterStop == ~overlap => ~late

SubscriptionInv == SubscriptionTypeOK /\ OneActive /\ StatusTrue /\ QuietAfterStop
=============================================================================
