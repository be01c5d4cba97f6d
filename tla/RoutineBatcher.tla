--------------------------- MODULE RoutineBatcher ---------------------------
(***************************************************************************)
(* The routine batcher of the dispatcher (src/dispatch.rs): deliveries to  *)
(* Discord that can wait are collected by target and event kind for a      *)
(* window, and sent together.                                              *)
(*                                                                         *)
(* Every delivery added to a batch raises the batch's version and puts an  *)
(* entry of its own in the timer wheel, due when the batch is.  Only the   *)
(* entry with the current version sends the batch; the others are stale.   *)
(* The wheel is used through what DelayQueue says of it.                   *)
(***************************************************************************)
EXTENDS Naturals, Sequences

CONSTANTS Keys,       \* batch keys (routine_batch_key)
          NumItems,   \* deliveries that ever arrive
          Window,     \* routine_batch_window_secs, not 0
          MaxTime     \* bound of the clock

ASSUME RoutineConstants ==
  /\ NumItems \in Nat
  /\ Window \in Nat \ {0}
  /\ MaxTime \in Nat

Times == 0..MaxTime
Items == 1..NumItems

VARIABLES batch,     \* batch[k]: [items, at, version], or NoBatch
          timers,    \* the wheel: entries [key, version, at]
          clock,     \* the time the last handler read
          running,   \* the dispatcher's loop goes on
          arrived,   \* history: arrived[k], the deliveries of key k
          sent       \* history: sent[k], those handed to the sink

vars == <<batch, timers, clock, running, arrived, sent>>

NoBatch == [items |-> <<>>, at |-> 0, version |-> 0]

Init ==
  /\ batch = [k \in Keys |-> NoBatch]
  /\ timers = {}
  /\ clock \in Times
  /\ running = TRUE
  /\ arrived = [k \in Keys |-> <<>>]
  /\ sent = [k \in Keys |-> <<>>]

Waiting(k) == batch[k].items # <<>>
Seen == UNION {{arrived[k][i] : i \in 1..Len(arrived[k])} : k \in Keys}

----------------------------------------------------------------------------
\* flush_due: an entry sends its batch if the batch is still there, unchanged.
Fires(e) == Waiting(e.key) /\ batch[e.key].version = e.version

\* Mutant: an entry that is nearly due is taken.
DueSooner(t) == {e \in timers : e.at <= t + 1}

\* What a tick at t takes out of the wheel, and the batches it sends.
Due(t)  == {e \in timers : e.at <= t}
Sent(t) == {e.key : e \in {f \in Due(t) : Fires(f)}}

\* Mutant: a batch that was sent stays.
KeptAll(t) == batch

\* The batches after the tick.
Kept(t) == [k \in Keys |-> IF k \in Sent(t) THEN NoBatch ELSE batch[k]]

\* Every handler reads the clock and first sends what is due.
Flush(t) ==
  /\ running
  /\ clock' = t
  /\ sent' = [k \in Keys |-> IF k \in Sent(t) THEN sent[k] \o batch[k].items ELSE sent[k]]
  /\ UNCHANGED running

\* Mutant: the window starts again with every delivery.
AddedSliding(b, i, t) ==
  [items |-> Append(b.items, i), at |-> t + Window, version |-> b.version + 1]

\* observe: a delivery joins the batch, or begins one.
Added(b, i, t) ==
  [items   |-> Append(b.items, i),
   at      |-> IF b.items = <<>> THEN t + Window ELSE b.at,
   version |-> b.version + 1]

\* resolve_and_dispatch: a delivery that can wait is deferred.
Defer(k, i, t) ==
  /\ i \notin Seen /\ \A j \in Items : j < i => j \in Seen
  /\ Flush(t)
  /\ LET b == Added(Kept(t)[k], i, t)
     IN /\ batch' = [Kept(t) EXCEPT ![k] = b]
        /\ timers' = (timers \ Due(t)) \cup {[key |-> k, version |-> b.version, at |-> b.at]}
  /\ arrived' = [arrived EXCEPT ![k] = Append(@, i)]

\* The ticker, or an event that does not go through this batcher.
Tick(t) ==
  /\ Flush(t)
  /\ batch' = Kept(t)
  /\ timers' = timers \ Due(t)
  /\ UNCHANGED arrived

\* The channel is closed: the loop ends, and what still waits is dropped.
Stop ==
  /\ running
  /\ running' = FALSE
  /\ UNCHANGED <<batch, timers, clock, arrived, sent>>

Next ==
  \/ \E k \in Keys, i \in Items, t \in Times : Defer(k, i, t)
  \/ \E t \in Times : Tick(t)
  \/ Stop

Spec == Init /\ [][Next]_vars

----------------------------------------------------------------------------
(* Properties.                                                             *)

Batch == [items : Seq(Items), at : Nat, version : Nat]
Timer == [key : Keys, version : Nat, at : Nat]

\* The values each variable takes.
TypeOK ==
  /\ batch \in [Keys -> Batch]
  /\ timers \subseteq Timer
  /\ clock \in Times
  /\ running \in BOOLEAN
  /\ arrived \in [Keys -> Seq(Items)]
  /\ sent \in [Keys -> Seq(Items)]

\* No delivery is lost or sent twice, and those of one key keep their order,
\* over any sequence of windows (observe, flush_due, flush_batch).
Conserved == \A k \in Keys : sent[k] \o batch[k].items = arrived[k]

\* A batch that waits has an entry in the wheel that will send it, at its own
\* deadline: no batch is ever left behind by the entries that went stale.
Covered ==
  \A k \in Keys : Waiting(k) =>
    [key |-> k, version |-> batch[k].version, at |-> batch[k].at] \in timers

\* When a handler is done, nothing that waits is overdue.
NothingOverdue == \A k \in Keys : Waiting(k) => batch[k].at > clock

\* The entries of a key belong to the batch that waits, none is left of a batch
\* that was sent: an old entry cannot send a new batch too early.
NoStrayTimer ==
  \A e \in timers :
    Waiting(e.key) /\ e.at = batch[e.key].at /\ e.version <= batch[e.key].version

\* The inductive invariant behind the timing of the batches: together, its parts
\* say that the wheel holds exactly what the waiting batches need.
BatcherInv == TypeOK /\ Covered /\ NothingOverdue /\ NoStrayTimer

\* A batch is sent only when the window of its first delivery is over, and then
\* whole (flush_due, flush_batch).
WindowStep ==
  \A k \in Keys : sent'[k] # sent[k] =>
    clock' >= batch[k].at /\ sent'[k] = sent[k] \o batch[k].items

WindowHonoured == [][WindowStep]_vars
=============================================================================
